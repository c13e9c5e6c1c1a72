------------------------------ MODULE HsProofs ------------------------------
(***************************************************************************)
(* Proofs about Health and Safety, for any applications, tables, limits    *)
(* and restarts: what the application monitor reports and does, how many   *)
(* resets HS orders, when it repeats a message, and what the event monitor *)
(* hears.                                                                  *)
(***************************************************************************)
EXTENDS HsHistory, TLAPS

-----------------------------------------------------------------------------
(* Types.                                                                  *)

AppRecords == [exists : BOOLEAN, count : Nat, request : {"none", "restart", "delete"}]

TablesOK ==
  /\ DOMAIN pending = Tables
  /\ \A kind \in Tables :
       /\ pending[kind] = Nothing \/ IsTable(kind, pending[kind])
       /\ tables[kind] = NoTable \/ IsTable(kind, tables[kind])
MonitorOK == countdown \in [Entries -> Nat] /\ lastCount \in [Entries -> Nat]
AppsOK == apps \in [Apps -> AppRecords]
CooldownOK == cooldown \in [Messages -> Nat]

TypeInv == TablesOK /\ MonitorOK /\ AppsOK /\ CooldownOK

LEMMA TablesDiffer ==
  "AMT" \in Tables /\ "EMT" \in Tables /\ "MAT" \in Tables
  BY DEF Tables

LEMMA AmtType ==
  ASSUME NEW t, IsTable("AMT", t)
  PROVE  /\ t \in [Entries -> AppEntries]
         /\ \A m \in Entries : t[m].app \in Apps /\ t[m].cycles \in Nat
<1>1. t \in [Entries -> AppEntries]
  BY DEF IsTable, Entries
<1> QED BY <1>1 DEF AppEntries

LEMMA MatType ==
  ASSUME NEW t, IsTable("MAT", t)
  PROVE  \A x \in Messages : t[x].cooldown \in Nat
<1>1. t \in [Messages -> MsgEntries]
  BY DEF IsTable
<1> QED BY <1>1 DEF MsgEntries

LEMMA AmtOK == ASSUME TablesOK, AMT # NoTable PROVE IsTable("AMT", AMT)
  BY TablesDiffer DEF TablesOK, AMT

LEMMA MatOK == ASSUME TablesOK, MAT # NoTable PROVE IsTable("MAT", MAT)
  BY TablesDiffer DEF TablesOK, MAT

LEMMA InitTypeInv == Init => TypeInv
<1> SUFFICES ASSUME Init PROVE TypeInv
  OBVIOUS
<1>1. TablesOK
  BY HsAssumption DEF Init, TablesOK
<1>2. IsTable("AMT", AMT)
  BY HsAssumption, TablesDiffer DEF Init, AMT
<1>3. MonitorOK
  BY <1>2, AmtType DEF Init, MonitorOK, Entries
<1>4. AppsOK /\ CooldownOK
  BY DEF Init, AppsOK, CooldownOK, AppRecords, Running
<1> QED BY <1>1, <1>3, <1>4 DEF TypeInv

\* What an action of an entry does to HS, to the applications and to the
\* cooldowns.
ActEffect ==
  /\ \/ pc' = pc /\ idx' = idx + 1
     \/ pc' = "counted" /\ idx' = idx
  /\ AppsOK'
  /\ \A a \in Apps : /\ apps'[a].exists = apps[a].exists
                     /\ apps'[a].count = apps[a].count
                     /\ apps[a].request # "none" => apps'[a].request # "none"
  /\ \/ cooldown' = cooldown
     \/ \E x \in Messages :
          MayBeSent(x) /\ cooldown' = [cooldown EXCEPT ![x] = MAT[x].cooldown]
  /\ \/ UNCHANGED cdsVars /\ pc' = pc
     \/ /\ cds.performed < cds.max /\ pc' = "counted"
        /\ SetCDSData(cds.performed + 1, cds.max) /\ cdsState' = cdsState

LEMMA ActHasEffect ==
  ASSUME NEW entry, AppsOK, Act(entry)
  PROVE  ActEffect
<1>0. apps' = apps => /\ AppsOK'
                      /\ \A a \in Apps : /\ apps'[a].exists = apps[a].exists
                                         /\ apps'[a].count = apps[a].count
                                         /\ apps[a].request # "none" => apps'[a].request # "none"
  BY DEF AppsOK
<1>1. CASE ProcReset
  BY <1>0, <1>1 DEF ProcReset, ActEffect, GoOn, cdsVars
<1>2. ASSUME NEW a, NEW r \in {"restart", "delete"}, RequestOfEs(a, r) PROVE ActEffect
  <2>1. GoOn /\ UNCHANGED <<cdsVars, cooldown>>
    BY <1>2 DEF RequestOfEs
  <2>2. \/ apps' = apps
        \/ apps' = [apps EXCEPT ![a].request = r]
    BY <1>2 DEF RequestOfEs
  <2>3. CASE apps' = [apps EXCEPT ![a].request = r]
    <3>1. /\ AppsOK'
          /\ \A b \in Apps : /\ apps'[b].exists = apps[b].exists
                             /\ apps'[b].count = apps[b].count
                             /\ apps[b].request # "none" => apps'[b].request # "none"
      BY <2>3 DEF AppsOK, AppRecords
    <3> QED BY <2>1, <3>1 DEF ActEffect, GoOn, cdsVars
  <2> QED BY <1>0, <2>1, <2>2, <2>3 DEF ActEffect, GoOn, cdsVars
<1>3. CASE EventOnly
  BY <1>0, <1>3 DEF EventOnly, ActEffect, GoOn, cdsVars
<1>4. ASSUME NEW x \in Messages, SendMessage(x) PROVE ActEffect
  BY <1>0, <1>4 DEF SendMessage, ActEffect, GoOn, cdsVars
<1> QED BY <1>1, <1>2, <1>3, <1>4 DEF Act


LEMMA RefreshType ==
  \A t : IsTable("AMT", t) /\ AppMonStatusRefresh(t) => MonitorOK'
<1> TAKE t
<1> HAVE IsTable("AMT", t) /\ AppMonStatusRefresh(t)
<1>1. \A m \in Entries : t[m].cycles \in Nat
  BY AmtType
<1> QED BY <1>1 DEF AppMonStatusRefresh, MonitorOK, Entries

LEMMA AppInitType ==
  ASSUME AppInit
  PROVE  TablesOK' /\ MonitorOK' /\ CooldownOK'
<1>1. PICK failed \in LoadFailures :
        tables' = [kind \in Tables |-> IF kind \in failed THEN NoTable ELSE File[kind]]
  BY DEF AppInit
<1>2. TablesOK'
  <2>1. pending' = [kind \in Tables |-> Nothing]
    BY DEF AppInit
  <2>2. \A kind \in Tables : IsTable(kind, File[kind])
    BY HsAssumption
  <2> QED BY <1>1, <2>1, <2>2 DEF TablesOK
<1>3. ASSUME tables'["AMT"] = NoTable PROVE MonitorOK'
  <2>1. /\ countdown' = [m \in 1 .. NumApp |-> 0]
        /\ lastCount' = [m \in 1 .. NumApp |-> 0]
    BY <1>3, Zenon DEF AppInit
  <2> QED BY <2>1 DEF MonitorOK, Entries
<1>4. ASSUME tables'["AMT"] # NoTable PROVE MonitorOK'
  <2>1. IsTable("AMT", tables'["AMT"])
    BY <1>2, <1>4, TablesDiffer DEF TablesOK
  <2>2. AppMonStatusRefresh(tables'["AMT"])
    BY <1>4 DEF AppInit
  <2> QED BY <2>1, <2>2, RefreshType
<1>5. MonitorOK'
  BY <1>3, <1>4
<1>6. CooldownOK'
  BY DEF AppInit, CooldownOK
<1> QED BY <1>2, <1>5, <1>6

LEMMA ActType ==
  ASSUME TypeInv, ActEffect
  PROVE  AppsOK' /\ CooldownOK'
<1>1. AppsOK'
  BY DEF ActEffect
<1>2. CooldownOK'
  BY MatOK, MatType DEF TypeInv, ActEffect, CooldownOK, MayBeSent
<1> QED BY <1>1, <1>2


\* A step that leaves what is typed alone.
typed == <<tables, pending, countdown, lastCount, apps, cooldown>>

LEMMA QuietType == ASSUME TypeInv, UNCHANGED typed PROVE TypeInv'
  BY DEF TypeInv, TablesOK, MonitorOK, AppsOK, CooldownOK, typed

LEMMA StartCycleType == ASSUME TypeInv, StartCycle PROVE TypeInv'
<1>1. /\ tables' = [kind \in Tables |->
                  IF pending[kind] = Nothing THEN tables[kind] ELSE pending[kind]]
      /\ pending' = [kind \in Tables |-> Nothing]
      /\ apps' = apps
  BY DEF StartCycle
<1>2. TablesOK'
  BY <1>1 DEF TypeInv, TablesOK
<1>3. MonitorOK'
  <2>1. CASE pending["AMT"] # Nothing
    <3>1. IsTable("AMT", tables'["AMT"])
      BY <1>1, <2>1, TablesDiffer DEF TypeInv, TablesOK
    <3>2. AppMonStatusRefresh(tables'["AMT"])
      BY <2>1 DEF StartCycle, AcquireAMT
    <3> QED BY <3>1, <3>2, RefreshType
  <2>2. CASE pending["AMT"] = Nothing
    BY <2>2 DEF StartCycle, AcquireAMT, TypeInv, MonitorOK
  <2> QED BY <2>1, <2>2
<1>4. AppsOK'
  BY <1>1 DEF TypeInv, AppsOK
<1>5. CooldownOK'
  <2>1. \A n \in Nat : Decremented(n) \in Nat
    BY DEF Decremented
  <2>2. cooldown' = [x \in Messages |-> IF pending["MAT"] # Nothing THEN 0
                                        ELSE Decremented(cooldown[x])]
    BY DEF StartCycle, AcquireMAT
  <2> QED BY <2>1, <2>2 DEF TypeInv, CooldownOK
<1> QED BY <1>2, <1>3, <1>4, <1>5 DEF TypeInv

LEMMA AppsType ==
  ASSUME TypeInv, NEW a \in Apps, AppRun(a) \/ AppExit(a) \/ EsServes(a)
  PROVE  TypeInv'
<1>1. UNCHANGED <<tables, pending, countdown, lastCount, cooldown>>
  BY DEF AppRun, AppExit, EsServes, AppVarsOnly, tblVars, amVars
<1>2. AppsOK'
  <2>1. CASE AppRun(a)
    BY <2>1 DEF AppRun, TypeInv, AppsOK, AppRecords
  <2>2. CASE AppExit(a)
    BY <2>2 DEF AppExit, TypeInv, AppsOK, AppRecords
  <2>3. CASE EsServes(a)
    <3>1. PICK up \in BOOLEAN : apps' = [apps EXCEPT ![a] = [Running EXCEPT !.exists = up]]
      BY <2>3 DEF EsServes
    <3>2. [Running EXCEPT !.exists = up] \in AppRecords
      BY DEF Running, AppRecords
    <3> QED BY <3>1, <3>2 DEF TypeInv, AppsOK
  <2> QED BY <2>1, <2>2, <2>3
<1> QED BY <1>1, <1>2 DEF TypeInv, TablesOK, MonitorOK, CooldownOK

LEMMA MonitorType ==
  ASSUME TypeInv, AMT # NoTable, NEW m \in 1 .. NumApp,
         MonitorSeesRun(m) \/ MonitorSeesStall(m) \/ MonitorActs(m)
  PROVE  TypeInv'
<1>1. AMT[m].cycles \in Nat
  BY AmtOK, AmtType DEF TypeInv, Entries
<1>2. m \in Entries
  BY DEF Entries
<1>3. CASE MonitorSeesRun(m)
  <2>1. apps[AMT[m].app].count \in Nat
    BY AmtOK, AmtType, <1>2 DEF TypeInv, AppsOK, AppRecords
  <2>2. MonitorOK'
    BY <1>1, <1>2, <1>3, <2>1 DEF MonitorSeesRun, TypeInv, MonitorOK
  <2> QED BY <1>3, <2>2 DEF MonitorSeesRun, TypeInv, TablesOK, AppsOK, CooldownOK, tblVars
<1>4. CASE MonitorSeesStall(m)
  <2>1. countdown[m] - 1 \in Nat
    BY <1>2, <1>4 DEF MonitorSeesStall, Looked, TypeInv, MonitorOK
  <2>2. MonitorOK'
    BY <1>2, <1>4, <2>1 DEF MonitorSeesStall, TypeInv, MonitorOK
  <2> QED BY <1>4, <2>2 DEF MonitorSeesStall, TypeInv, TablesOK, AppsOK, CooldownOK, tblVars
<1>5. CASE MonitorActs(m)
  <2>1. Act(AMT[m])
    BY <1>5 DEF MonitorActs
  <2>2. AppsOK' /\ CooldownOK'
    BY <2>1, ActHasEffect, ActType DEF TypeInv
  <2>3. MonitorOK'
    BY <1>2, <1>5 DEF MonitorActs, TypeInv, MonitorOK
  <2> QED BY <1>5, <2>2, <2>3 DEF MonitorActs, TypeInv, TablesOK, tblVars
<1> QED BY <1>3, <1>4, <1>5

LEMMA LoadTableType ==
  ASSUME TypeInv, NEW kind \in Tables, NEW t \in Loads[kind], LoadTable(kind, t)
  PROVE  TypeInv'
<1>1. IsTable(kind, t)
  BY HsAssumption
<1>2. /\ pending' = [pending EXCEPT ![kind] = t]
      /\ UNCHANGED <<tables, countdown, lastCount, apps, cooldown>>
  BY DEF LoadTable, amVars
<1> QED BY <1>1, <1>2 DEF TypeInv, TablesOK, MonitorOK, AppsOK, CooldownOK

LEMMA CommandType ==
  ASSUME TypeInv, Commands
  PROVE  TypeInv'
<1>1. CASE EnableAppMon
  <2>1. UNCHANGED <<tables, pending, apps, cooldown>> /\ AMT # NoTable
    BY <1>1 DEF EnableAppMon, Commanded, tblVars
  <2>2. MonitorOK'
    <3>1. CASE UNCHANGED amVars
      BY <3>1 DEF amVars, TypeInv, MonitorOK
    <3>2. CASE AppMonStatusRefresh(AMT)
      BY <2>1, <3>2, AmtOK, RefreshType DEF TypeInv
    <3> QED BY <1>1, <3>1, <3>2 DEF EnableAppMon
  <2> QED BY <2>1, <2>2 DEF TypeInv, TablesOK, AppsOK, CooldownOK
<1>2. CASE ~ EnableAppMon
  <2>1. UNCHANGED typed
    BY <1>2 DEF Commands, DisableAppMon, EnableEventMon, DisableEventMon,
         ResetResetsPerformed, SetMaxResets, EndCycle, Commanded, tblVars, amVars, typed
  <2> QED BY <2>1, QuietType
<1> QED BY <1>1, <1>2

-----------------------------------------------------------------------------
(* The application monitor.                                                *)

\* The table that the monitor runs on is there.
TableInUse ==
  /\ appMon \in States
  /\ pc = "apps" \/ appMon = "ENABLED" => AMT # NoTable

\* What the monitor knows of the application of an entry that counts down: a
\* run is behind the difference of the two counters, and the countdown is what
\* is left of the cycles for both counts of looks.  Only the first look after
\* the entry is armed may see an old run, since the counter seen last is then 0.
App(m) == apps[AMT[m].app]
Watched(m) ==
  countdown[m] # 0 =>
    /\ AMT # NoTable /\ AMT[m].action # "NOACT" /\ countdown[m] <= AMT[m].cycles
    /\ since[m] \in {"nothing", "run", "replaced"}
    /\ silent[m] \in Nat /\ unproved[m] \in Nat
    /\ silent[m] + countdown[m] <= AMT[m].cycles + 1
    /\ unproved[m] + countdown[m] >= AMT[m].cycles
    /\ since[m] = "nothing" /\ App(m).exists =>
         /\ App(m).count >= lastCount[m]
         /\ App(m).count # lastCount[m] => silent[m] = 0
    /\ since[m] = "run" => App(m).exists /\ App(m).count > lastCount[m]

MonitorInv == TableInUse /\ EnablesTellTheTruth /\ \A m \in Entries : Watched(m)

LEMMA InitMonitorInv == HInit => MonitorInv
<1> SUFFICES ASSUME HInit PROVE MonitorInv
  OBVIOUS
<1>1. TypeInv /\ IsTable("AMT", AMT) /\ AMT # NoTable
  <2>1. AMT = File["AMT"]
    BY DEF HInit, Init, AMT
  <2> QED BY <2>1, InitTypeInv, HsAssumption, TablesDiffer DEF HInit
<1>2. TableInUse
  BY <1>1 DEF HInit, Init, TableInUse, States
<1>3. /\ countdown = [m \in Entries |-> IF InUse(AMT[m]) THEN AMT[m].cycles ELSE 0]
      /\ enables = {m \in Entries : InUse(AMT[m])}
      /\ lastCount = [m \in Entries |-> 0]
      /\ since = [m \in Entries |-> "nothing"]
      /\ silent = [m \in Entries |-> 0] /\ unproved = [m \in Entries |-> 0]
      /\ apps = [a \in Apps |-> Running]
  BY DEF HInit, Init, Entries
<1>4. EnablesTellTheTruth
  BY <1>3 DEF EnablesTellTheTruth, InUse
<1>5. ASSUME NEW m \in Entries PROVE Watched(m)
  <2>1. AMT[m].app \in Apps /\ AMT[m].cycles \in Nat
    BY <1>1, AmtType
  <2>2. App(m) = Running
    BY <1>3, <2>1 DEF App
  <2> QED BY <1>1, <1>3, <2>1, <2>2 DEF Watched, InUse, Running
<1> QED BY <1>2, <1>4, <1>5 DEF MonitorInv

\* Each entry is armed for the table, or none is without one.
Arms ==
  IF tables'["AMT"] = NoTable
    THEN countdown' = [m \in Entries |-> 0] /\ enables' = {}
    ELSE AppMonStatusRefresh(tables'["AMT"])

LEMMA ArmedIsWatched ==
  ASSUME TypeInv', Armed, History, Arms
  PROVE  EnablesTellTheTruth' /\ \A m \in Entries : Watched(m)'
<1>1. CASE tables'["AMT"] = NoTable
  BY <1>1 DEF Arms, EnablesTellTheTruth, Watched
<1>2. CASE tables'["AMT"] # NoTable
  <2>1. AMT' = tables'["AMT"] /\ AMT' # NoTable
    BY <1>2 DEF AMT
  <2>2. /\ countdown' = [m \in Entries |-> IF InUse(AMT'[m]) THEN AMT'[m].cycles ELSE 0]
        /\ lastCount' = [m \in Entries |-> 0]
        /\ enables' = {m \in Entries : InUse(AMT'[m])}
    BY <1>2, <2>1 DEF Arms, AppMonStatusRefresh, Entries
  <2>3. EnablesTellTheTruth'
    BY <2>2 DEF EnablesTellTheTruth, InUse
  <2>4. ASSUME NEW m \in Entries PROVE Watched(m)'
    <3>1. /\ since'[m] = "nothing" /\ silent'[m] = 0 /\ unproved'[m] = 0
      BY DEF History, SinceNow
    <3>2. IsTable("AMT", AMT')
      BY <2>1, TablesDiffer DEF TypeInv, TablesOK
    <3>3. AMT'[m].app \in Apps /\ AMT'[m].cycles \in Nat
      BY <3>2, AmtType
    <3>4. App(m)'.count \in Nat
      BY <3>3 DEF TypeInv, AppsOK, AppRecords, App
    <3> QED BY <2>1, <2>2, <3>1, <3>3, <3>4 DEF Watched, InUse
  <2> QED BY <2>3, <2>4
<1> QED BY <1>1, <1>2

\* What a step may do to an application between two looks at it.
AppMoves(a) ==
  \/ apps'[a].exists = apps[a].exists /\ apps'[a].count = apps[a].count
  \/ apps[a].exists /\ apps'[a].exists /\ apps'[a].count > apps[a].count
  \/ Replaced(a)
  \/ ~ apps[a].exists /\ ~ apps'[a].exists /\ apps'[a].count <= apps[a].count

LEMMA UnlookedIsWatched ==
  ASSUME TypeInv, TypeInv', NEW m \in Entries, Watched(m), ~ Armed, History,
         ~ Looks(m), AMT' = AMT, countdown'[m] = countdown[m],
         lastCount'[m] = lastCount[m], \A a \in Apps : AppMoves(a)
  PROVE  Watched(m)'
<1> SUFFICES ASSUME countdown[m] # 0 PROVE Watched(m)'
  BY DEF Watched
<1>1. silent'[m] = silent[m] /\ unproved'[m] = unproved[m]
  BY DEF History
<1>2. IsTable("AMT", AMT) /\ AMT # NoTable
  BY AmtOK DEF TypeInv, Watched
<1>3. AMT[m].app \in Apps /\ AMT[m].cycles \in Nat
  BY <1>2, AmtType
<1>4. App(m) \in AppRecords /\ App(m)' \in AppRecords /\ lastCount[m] \in Nat
  BY <1>3 DEF App, TypeInv, AppsOK, MonitorOK
<1>5. since'[m] = SinceNow(m)
  BY DEF History
<1>6. CASE Replaced(AMT[m].app)
  <2>1. since'[m] = "replaced"
    BY <1>5, <1>6 DEF SinceNow
  <2> QED BY <1>1, <2>1 DEF Watched
<1>7. CASE ~ Replaced(AMT[m].app)
  <2>1. since'[m] = IF since[m] = "nothing" /\ App(m)'.count > App(m).count
                    THEN "run" ELSE since[m]
    BY <1>5, <1>7 DEF SinceNow, RunsNow, App
  <2>2. \/ App(m)'.exists = App(m).exists /\ App(m)'.count = App(m).count
        \/ App(m).exists /\ App(m)'.exists /\ App(m)'.count > App(m).count
        \/ ~ App(m).exists /\ ~ App(m)'.exists /\ App(m)'.count <= App(m).count
    BY <1>3, <1>7 DEF AppMoves, App
  <2> QED BY <1>1, <1>4, <2>1, <2>2, SMT DEF Watched, AppRecords
<1> QED BY <1>6, <1>7

\* A look at an application: one that has run starts the countdown again, and
\* one that has not takes one off it.
LEMMA LookedIsWatched ==
  ASSUME TypeInv, NEW m \in Entries, Watched(m), ~ Armed, History,
         Looks(m), AMT' = AMT, apps' = apps,
         IF HasRun(m) THEN countdown'[m] = AMT[m].cycles /\ lastCount'[m] = App(m).count
                      ELSE countdown'[m] = countdown[m] - 1 /\ lastCount'[m] = lastCount[m]
  PROVE  Watched(m)'
<1> SUFFICES ASSUME countdown'[m] # 0 PROVE Watched(m)'
  BY DEF Watched
<1>0. countdown[m] # 0 /\ countdown[m] \in Nat
  BY DEF Looks, Looked, TypeInv, MonitorOK
<1>1. IsTable("AMT", AMT) /\ AMT # NoTable
  BY <1>0, AmtOK DEF TypeInv, Watched
<1>2. AMT[m].app \in Apps /\ AMT[m].cycles \in Nat
  BY <1>1, AmtType
<1>3. App(m) \in AppRecords /\ App(m)' = App(m) /\ lastCount[m] \in Nat
  BY <1>2 DEF App, TypeInv, AppsOK, MonitorOK
<1>4. since'[m] = "nothing"
  BY DEF History, SinceNow
<1>5. /\ silent'[m] = IF since[m] = "nothing" THEN Capped(silent[m], m) ELSE 0
      /\ unproved'[m] = IF since[m] = "run" THEN 0 ELSE Capped(unproved[m], m)
  BY DEF History
<1>6. HasRun(m) <=> App(m).exists /\ App(m).count # lastCount[m]
  BY DEF HasRun, App
<1> QED BY <1>0, <1>1, <1>2, <1>3, <1>4, <1>5, <1>6, SMT DEF Watched, Capped, AppRecords

\* A step of HS or of its surroundings at which the monitor does not look.
Unlooked ==
  /\ UNCHANGED <<tables, countdown, lastCount, enables>>
  /\ \A m \in Entries : ~ Looks(m)
  /\ \A a \in Apps : AppMoves(a)

LEMMA UnlookedKeeps ==
  ASSUME TypeInv, TypeInv', MonitorInv, ~ Armed, History, Unlooked
  PROVE  EnablesTellTheTruth' /\ \A m \in Entries : Watched(m)'
<1>1. AMT' = AMT
  BY DEF Unlooked, AMT
<1>2. EnablesTellTheTruth'
  BY DEF MonitorInv, EnablesTellTheTruth, Unlooked
<1>3. ASSUME NEW m \in Entries PROVE Watched(m)'
  BY <1>1, UnlookedIsWatched DEF MonitorInv, Unlooked
<1> QED BY <1>2, <1>3

LEMMA NoAppMoves == ASSUME apps' = apps PROVE \A a \in Apps : AppMoves(a)
  BY DEF AppMoves

\* HS stays where it is, or is not in the loop of the monitor at all.
LEMMA NoLook ==
  ASSUME idx \in Nat, pc # "apps" \/ (idx' = idx /\ pc' # "counted")
  PROVE  \A m \in Entries : ~ Looks(m)
  BY DEF Looks, Looked, Entries

LEMMA StartsArm ==
  ASSUME TypeInv, HsStarts
  PROVE  TypeInv' /\ TableInUse' /\ Arms
<1>1. AppInit
  BY DEF HsStarts, Boot, HsRestart
<1>2. AppsOK'
  <2>1. apps' = apps \/ apps' = [a \in Apps |-> Running]
    BY DEF HsStarts, Boot, HsRestart
  <2>2. Running \in AppRecords
    BY DEF Running, AppRecords
  <2> QED BY <2>1, <2>2 DEF TypeInv, AppsOK
<1>3. TypeInv'
  BY <1>1, <1>2, AppInitType DEF TypeInv
<1>4. CASE tables'["AMT"] = NoTable
  <2>1. /\ appMon' = "DISABLED" /\ enables' = {}
        /\ countdown' = [m \in 1 .. NumApp |-> 0]
    BY <1>1, <1>4, Zenon DEF AppInit
  <2>2. pc' = "wait"
    BY <1>1 DEF AppInit
  <2> QED BY <1>3, <1>4, <2>1, <2>2 DEF Arms, TableInUse, States, Entries
<1>5. CASE tables'["AMT"] # NoTable
  <2>1. appMon' = "ENABLED" /\ AppMonStatusRefresh(tables'["AMT"])
    BY <1>1, <1>5 DEF AppInit
  <2> QED BY <1>3, <1>5, <2>1 DEF Arms, TableInUse, States, AMT
<1> QED BY <1>4, <1>5

LEMMA StartCycleMonitor ==
  ASSUME TypeInv, TypeInv', MonitorInv, StartCycle, ~ HsStarts, History, idx \in Nat
  PROVE  MonitorInv'
<1>1. /\ pc = "wait"
      /\ tables' = [kind \in Tables |->
                  IF pending[kind] = Nothing THEN tables[kind] ELSE pending[kind]]
      /\ pending' = [kind \in Tables |-> Nothing]
      /\ AcquireAMT(pending["AMT"] # Nothing)
      /\ apps' = apps
      /\ pc' = IF appMon' = "ENABLED" THEN "apps" ELSE "events"
  BY DEF StartCycle
<1>2. TableInUse'
  <2>1. appMon' = IF tables'["AMT"] = NoTable THEN "DISABLED" ELSE appMon
    BY <1>1 DEF AcquireAMT
  <2> QED BY <1>1, <2>1 DEF MonitorInv, TableInUse, AMT, States
<1>3. CASE pending["AMT"] # Nothing
  <2>1. Armed
    BY <1>1, <1>3, TablesDiffer DEF Armed, NewTable
  <2>2. tables'["AMT"] = pending["AMT"]
    BY <1>1, <1>3, TablesDiffer
  <2>3. IsTable("AMT", tables'["AMT"]) /\ tables'["AMT"] # NoTable
    BY <1>3, <2>2, TablesDiffer, HsAssumption DEF TypeInv, TablesOK
  <2>4. Arms
    BY <1>1, <1>3, <2>3 DEF Arms, AcquireAMT
  <2> QED BY <1>2, <2>1, <2>4, ArmedIsWatched DEF MonitorInv
<1>4. CASE pending["AMT"] = Nothing
  <2>1. tables'["AMT"] = tables["AMT"] /\ UNCHANGED <<countdown, lastCount, enables>>
    BY <1>1, <1>4, TablesDiffer DEF AcquireAMT
  <2>2. ~ Armed
    <3>1. ~ NewTable("AMT")
      BY <1>4 DEF NewTable
    <3>2. ~ (appMon = "DISABLED" /\ appMon' = "ENABLED")
      BY <1>1 DEF AcquireAMT
    <3> QED BY <3>1, <3>2 DEF Armed
  <2>3. AMT' = AMT
    BY <2>1 DEF AMT
  <2>4. \A m \in Entries : ~ Looks(m)
    BY <1>1, NoLook
  <2>5. \A m \in Entries : Watched(m)'
    BY <1>1, <2>1, <2>2, <2>3, <2>4, NoAppMoves, UnlookedIsWatched DEF MonitorInv
  <2>6. EnablesTellTheTruth'
    BY <2>1 DEF EnablesTellTheTruth, MonitorInv
  <2> QED BY <1>2, <2>5, <2>6 DEF MonitorInv
<1> QED BY <1>3, <1>4

\* The ways one look at entry m ends.
LEMMA LookMonitor ==
  ASSUME TypeInv, TypeInv', MonitorInv, ~ HsStarts, History, NEW m \in 1 .. NumApp,
         MonitorSeesRun(m) \/ MonitorSeesStall(m) \/ MonitorActs(m)
  PROVE  MonitorInv'
<1>0. /\ m \in Entries /\ Looked(m) /\ pc = "apps" /\ idx = m
      /\ UNCHANGED <<tables, pending, appMon>>
  BY DEF Entries, MonitorSeesRun, MonitorSeesStall, MonitorActs, Looked, tblVars
<1>1. AMT' = AMT /\ AMT # NoTable
  BY <1>0 DEF AMT, MonitorInv, TableInUse
<1>2. ~ Armed
  BY <1>0 DEF Armed, NewTable
<1>3. TableInUse'
  BY <1>0, <1>1 DEF MonitorInv, TableInUse
<1>4. /\ countdown[m] \in Nat /\ countdown[m] # 0 /\ AMT[m].cycles \in Nat
      /\ countdown[m] <= AMT[m].cycles
  BY <1>0, <1>1, AmtOK, AmtType DEF Looked, TypeInv, MonitorOK, MonitorInv, Watched
<1>5. ASSUME NEW n \in Entries, n # m PROVE ~ Looks(n)
  BY <1>0, <1>5 DEF Looks, Looked
<1>6. \A a \in Apps : AppMoves(a)
  <2>1. CASE MonitorActs(m)
    BY <2>1, ActHasEffect DEF MonitorActs, ActEffect, TypeInv, AppMoves
  <2>2. CASE MonitorSeesRun(m) \/ MonitorSeesStall(m)
    BY <2>2, NoAppMoves DEF MonitorSeesRun, MonitorSeesStall
  <2> QED BY <2>1, <2>2
<1>7. ASSUME NEW n \in Entries, n # m PROVE Watched(n)'
  <2>1. countdown'[n] = countdown[n] /\ lastCount'[n] = lastCount[n]
    BY <1>0, <1>7 DEF MonitorSeesRun, MonitorSeesStall, MonitorActs, TypeInv, MonitorOK
  <2> QED BY <1>1, <1>2, <1>5, <1>6, <1>7, <2>1, UnlookedIsWatched DEF MonitorInv
<1>8. Watched(m)' /\ EnablesTellTheTruth'
  <2>1. CASE MonitorActs(m)
    <3>1. countdown' = [countdown EXCEPT ![m] = 0] /\ enables' = enables \ {m}
      BY <2>1 DEF MonitorActs
    <3>2. EnablesTellTheTruth'
      BY <3>1 DEF MonitorInv, EnablesTellTheTruth, TypeInv, MonitorOK
    <3> QED BY <1>0, <3>1, <3>2 DEF Watched, TypeInv, MonitorOK
  <2>2. CASE MonitorSeesRun(m)
    <3>1. /\ HasRun(m) /\ idx' = idx + 1 /\ apps' = apps /\ enables' = enables
          /\ countdown' = [countdown EXCEPT ![m] = AMT[m].cycles]
          /\ lastCount' = [lastCount EXCEPT ![m] = App(m).count]
      BY <2>2 DEF MonitorSeesRun, App, GoOn
    <3>2. Looks(m)
      BY <1>0, <3>1 DEF Looks
    <3>3. Watched(m)'
      BY <1>0, <1>1, <1>2, <3>1, <3>2, LookedIsWatched DEF MonitorInv, TypeInv, MonitorOK
    <3>4. EnablesTellTheTruth'
      BY <1>0, <1>4, <3>1 DEF MonitorInv, EnablesTellTheTruth, TypeInv, MonitorOK
    <3> QED BY <3>3, <3>4
  <2>3. CASE MonitorSeesStall(m)
    <3>1. /\ ~ HasRun(m) /\ idx' = idx + 1 /\ apps' = apps /\ enables' = enables
          /\ countdown' = [countdown EXCEPT ![m] = @ - 1] /\ lastCount' = lastCount
          /\ countdown[m] # 1
      BY <2>3 DEF MonitorSeesStall, GoOn, Expires
    <3>2. Looks(m)
      BY <1>0, <3>1 DEF Looks
    <3>3. Watched(m)'
      BY <1>0, <1>1, <1>2, <3>1, <3>2, LookedIsWatched DEF MonitorInv, TypeInv, MonitorOK
    <3>4. EnablesTellTheTruth'
      BY <1>0, <1>4, <3>1 DEF MonitorInv, EnablesTellTheTruth, TypeInv, MonitorOK
    <3> QED BY <3>3, <3>4
  <2> QED BY <2>1, <2>2, <2>3
<1> QED BY <1>3, <1>7, <1>8 DEF MonitorInv

\* Every other step leaves the monitor as it is, but for a disable.
QuietStep ==
  /\ Unlooked
  /\ appMon' \in {appMon, "DISABLED"}
  /\ pc' = "apps" => pc = "apps"
  /\ ~ NewTable("AMT")
  /\ idx' \in Nat

LEMMA QuietMonitor ==
  ASSUME TypeInv, TypeInv', MonitorInv, ~ HsStarts, History, QuietStep
  PROVE  MonitorInv'
<1>1. ~ Armed
  BY DEF QuietStep, Armed
<1>2. TableInUse'
  BY DEF QuietStep, Unlooked, MonitorInv, TableInUse, AMT, States
<1> QED BY <1>1, <1>2, UnlookedKeeps DEF QuietStep, MonitorInv

\* A restarted application is as any that has just been started.
LEMMA RunningAgain == [Running EXCEPT !.exists = TRUE] = Running
<1>1. Running.exists = TRUE
  BY Zenon DEF Running
<1>2. Running = [x \in DOMAIN Running |-> Running[x]]
  BY DEF Running
<1>3. \A f, x : f = [y \in DOMAIN f |-> f[y]] => [f EXCEPT ![x] = f[x]] = f
  OBVIOUS
<1>4. [Running EXCEPT !["exists"] = Running["exists"]] = Running
  BY <1>2, <1>3, Zenon
<1> QED BY <1>1, <1>4, Zenon

LEMMA EnvironmentQuiet ==
  ASSUME TypeInv, idx \in Nat, Environment
  PROVE  TypeInv' /\ QuietStep
<1> USE DEF QuietStep, Unlooked, NewTable, tblVars, amVars, emVars, AppVarsOnly, typed
<1>1. CASE OutsideReset
  <2>1. UNCHANGED typed /\ UNCHANGED amVars /\ idx' = idx /\ pc' = "resetting"
    BY <1>1 DEF OutsideReset
  <2> QED BY <2>1, QuietType, NoLook, NoAppMoves
<1>2. ASSUME NEW a \in Apps, AppRun(a) \/ AppExit(a) \/ EsServes(a)
      PROVE  TypeInv' /\ QuietStep
  <2>1. /\ UNCHANGED <<tables, pending, appMon, countdown, lastCount, enables, pc, idx>>
    BY <1>2 DEF AppRun, AppExit, EsServes
  <2>2. ASSUME NEW b \in Apps PROVE AppMoves(b)
    <3>0. apps[a] \in AppRecords /\ apps[b] \in AppRecords /\ DOMAIN apps = Apps
      BY DEF TypeInv, AppsOK
    <3>1. CASE AppRun(a)
      BY <3>0, <3>1 DEF AppRun, AppMoves, AppRecords
    <3>2. CASE AppExit(a)
      BY <3>0, <3>2 DEF AppExit, AppMoves, Replaced, AppRecords
    <3>3. CASE EsServes(a)
      <4>1. PICK up \in BOOLEAN : apps' = [apps EXCEPT ![a] = [Running EXCEPT !.exists = up]]
        BY <3>3 DEF EsServes
      <4>2. CASE b # a
        BY <3>0, <4>1, <4>2 DEF AppMoves
      <4>3. CASE b = a /\ up
        <5>1. [Running EXCEPT !.exists = TRUE] = Running
          BY RunningAgain
        <5>2. apps'[a] = Running /\ apps[a].request # "none"
          BY <3>0, <3>3, <4>1, <4>3, <5>1 DEF EsServes
        <5> QED BY <4>3, <5>2 DEF AppMoves, Replaced
      <4>4. CASE b = a /\ ~ up
        <5>1. apps'[a].exists = FALSE /\ apps'[a].count = 0
          BY <3>0, <4>1, <4>4 DEF Running
        <5> QED BY <3>0, <4>4, <5>1 DEF AppMoves, Replaced, AppRecords
      <4> QED BY <4>2, <4>3, <4>4
    <3> QED BY <1>2, <3>1, <3>2, <3>3
  <2>3. \A m \in Entries : ~ Looks(m)
    BY <2>1, NoLook DEF Looks, Looked
  <2> QED BY <1>2, <2>1, <2>2, <2>3, AppsType
<1>3. ASSUME NEW a \in Apps, NEW id \in Events, AppEvent(a, id)
      PROVE  TypeInv' /\ QuietStep
  <2>1. UNCHANGED typed /\ UNCHANGED <<amVars, idx, pc>>
    BY <1>3 DEF AppEvent
  <2> QED BY <2>1, QuietType, NoLook, NoAppMoves DEF Looks, Looked
<1>4. ASSUME NEW kind \in Tables, NEW t \in Loads[kind], LoadTable(kind, t)
      PROVE  TypeInv' /\ QuietStep
  <2>1. /\ UNCHANGED <<tables, amVars, idx, pc, apps>>
        /\ pending[kind] = Nothing /\ pending' = [pending EXCEPT ![kind] = t]
    BY <1>4 DEF LoadTable
  <2>2. ~ NewTable("AMT")
    BY <2>1, TablesDiffer DEF TypeInv, TablesOK
  <2> QED BY <1>4, <2>1, <2>2, LoadTableType, NoLook, NoAppMoves DEF Looks, Looked
<1> QED BY <1>1, <1>2, <1>3, <1>4 DEF Environment

LEMMA HsQuiet ==
  ASSUME TypeInv, idx \in Nat, ~ EnableAppMon,
         \/ TakeEvent \/ MonitorEvent \/ EventDone \/ EventsDone \/ Commands \/ OrderReset
         \/ AppsDone \/ \E m \in 1 .. NumApp : MonitorSkips(m)
  PROVE  TypeInv' /\ QuietStep
<1> USE DEF tblVars, amVars, emVars, typed
<1>1. CASE MonitorEvent
  <2>1. /\ UNCHANGED <<tables, pending, amVars>>
        /\ pc = "event"
        /\ ActEffect
    <3>1. CASE Matches(idx)
      BY <1>1, <3>1, ActHasEffect DEF MonitorEvent, TypeInv
    <3>2. CASE ~ Matches(idx)
      BY <1>1, <3>2 DEF MonitorEvent, ActEffect, GoOn, TypeInv, AppsOK, cdsVars
    <3> QED BY <1>1, <3>1, <3>2 DEF MonitorEvent
  <2>2. TypeInv'
    BY <2>1, ActType DEF TypeInv, TablesOK, MonitorOK
  <2>3. \A m \in Entries : ~ Looks(m)
    BY <2>1, NoLook
  <2> QED BY <2>1, <2>2, <2>3 DEF ActEffect, QuietStep, Unlooked, NewTable, AppMoves
<1>2. CASE ~ MonitorEvent
  <2>1. /\ UNCHANGED typed /\ UNCHANGED enables
        /\ appMon' \in {appMon, "DISABLED"}
        /\ pc' = "apps" => pc = "apps"
        /\ idx' \in {idx, 0, 1, idx + 1}
    <3>1. CASE TakeEvent \/ EventDone \/ EventsDone \/ AppsDone
      BY <3>1 DEF TakeEvent, EventDone, EventsDone, AppsDone
    <3>2. CASE OrderReset \/ \E m \in 1 .. NumApp : MonitorSkips(m)
      BY <3>2 DEF OrderReset, MonitorSkips, GoOn
    <3>3. CASE Commands
      BY <3>3 DEF Commands, DisableAppMon, EnableEventMon, DisableEventMon,
           ResetResetsPerformed, SetMaxResets, EndCycle, Commanded
    <3> QED BY <1>2, <3>1, <3>2, <3>3
  <2>2. \A m \in Entries : ~ Looks(m)
    <3>1. CASE pc # "apps"
      BY <3>1, NoLook
    <3>2. CASE pc = "apps"
      <4>1. AppsDone \/ \E m \in 1 .. NumApp : MonitorSkips(m)
        BY <3>2, <1>2 DEF TakeEvent, EventDone, EventsDone, OrderReset, Commands,
             DisableAppMon, EnableEventMon, DisableEventMon, ResetResetsPerformed,
             SetMaxResets, EndCycle, Commanded
      <4> QED BY <4>1, HsAssumption DEF AppsDone, MonitorSkips, Looks, Looked, Entries
    <3> QED BY <3>1, <3>2
  <2> QED BY <2>1, <2>2, QuietType, NoAppMoves DEF QuietStep, Unlooked, NewTable
<1> QED BY <1>1, <1>2

LEMMA EnableMonitor ==
  ASSUME TypeInv, MonitorInv, idx \in Nat, EnableAppMon, ~ HsStarts, History
  PROVE  TypeInv' /\ MonitorInv' /\ idx' \in Nat
<1>1. /\ UNCHANGED <<tables, pending, pc, idx, apps>> /\ AMT # NoTable /\ pc = "commands"
  BY DEF EnableAppMon, Commanded, tblVars
<1>2. TypeInv'
  BY CommandType DEF Commands
<1>3. CASE UNCHANGED amVars
  BY <1>1, <1>2, <1>3, QuietMonitor, NoLook, NoAppMoves
     DEF QuietStep, Unlooked, NewTable, amVars
<1>4. CASE ~ UNCHANGED amVars
  <2>1. AppMonStatusRefresh(AMT) /\ appMon' = "ENABLED" /\ appMon = "DISABLED"
    BY <1>4 DEF EnableAppMon, MonitorInv, TableInUse, States
  <2>2. Armed /\ Arms /\ TableInUse'
    BY <1>1, <2>1 DEF Armed, Arms, TableInUse, AMT, States
  <2> QED BY <1>1, <1>2, <2>2, ArmedIsWatched DEF MonitorInv
<1> QED BY <1>3, <1>4

LEMMA MonitorStep ==
  ASSUME TypeInv, MonitorInv, idx \in Nat, HNext
  PROVE  TypeInv' /\ MonitorInv' /\ idx' \in Nat
<1>0. History
  BY DEF HNext
<1>1. CASE HsStarts
  <2>1. TypeInv' /\ TableInUse' /\ Arms /\ Armed
    BY <1>1, StartsArm DEF Armed
  <2>2. idx' = 0
    BY <1>1 DEF HsStarts, Boot, HsRestart, AppInit
  <2> QED BY <1>0, <2>1, <2>2, ArmedIsWatched DEF MonitorInv
<1>2. CASE ~ HsStarts /\ StartCycle
  <2>1. idx' \in Nat
    BY <1>2 DEF StartCycle
  <2> QED BY <1>0, <1>2, <2>1, StartCycleType, StartCycleMonitor
<1>3. ASSUME NEW m \in 1 .. NumApp, ~ HsStarts,
             MonitorSeesRun(m) \/ MonitorSeesStall(m) \/ MonitorActs(m)
      PROVE  TypeInv' /\ MonitorInv' /\ idx' \in Nat
  <2>1. AMT # NoTable
    BY <1>3 DEF MonitorSeesRun, MonitorSeesStall, MonitorActs, Looked, MonitorInv, TableInUse
  <2>2. idx' \in Nat
    <3>1. CASE MonitorActs(m)
      BY <3>1, ActHasEffect DEF MonitorActs, TypeInv, ActEffect
    <3> QED BY <1>3, <3>1 DEF MonitorSeesRun, MonitorSeesStall, GoOn
  <2> QED BY <1>0, <1>3, <2>1, <2>2, MonitorType, LookMonitor
<1>4. CASE ~ HsStarts /\ Environment
  BY <1>0, <1>4, EnvironmentQuiet, QuietMonitor DEF QuietStep
<1>5. CASE ~ HsStarts /\ EnableAppMon
  BY <1>0, <1>5, EnableMonitor
<1>6. CASE /\ ~ HsStarts /\ ~ EnableAppMon
           /\ \/ TakeEvent \/ MonitorEvent \/ EventDone \/ EventsDone \/ Commands
              \/ OrderReset \/ AppsDone \/ \E m \in 1 .. NumApp : MonitorSkips(m)
  BY <1>0, <1>6, HsQuiet, QuietMonitor DEF QuietStep
<1> QED BY <1>1, <1>2, <1>3, <1>4, <1>5, <1>6
        DEF HNext, Next, Hs, HsStarts, MonitorApplications

HsInv == TypeInv /\ MonitorInv /\ idx \in Nat

LEMMA HsInvariant == HSpec => []HsInv
<1>1. HInit => HsInv
  BY InitTypeInv, InitMonitorInv DEF HsInv, HInit, Init
<1>2. HsInv /\ [HNext]_hvars => HsInv'
  <2>1. ASSUME HsInv, HNext PROVE HsInv'
    BY <2>1, MonitorStep DEF HsInv
  <2>2. ASSUME HsInv, UNCHANGED hvars PROVE HsInv'
    <3>1. /\ UNCHANGED typed /\ UNCHANGED <<enables, appMon, pc, idx, since, silent, unproved>>
      BY <2>2 DEF hvars, vars, tblVars, amVars, typed
    <3>2. TypeInv'
      BY <2>2, <3>1, QuietType DEF HsInv
    <3>3. MonitorInv'
      <4>1. TableInUse' /\ EnablesTellTheTruth'
        BY <2>2, <3>1 DEF HsInv, MonitorInv, TableInUse, EnablesTellTheTruth, typed, AMT
      <4>2. ASSUME NEW m \in Entries PROVE Watched(m)'
        BY <2>2, <3>1 DEF HsInv, MonitorInv, Watched, typed, AMT, App
      <4> QED BY <4>1, <4>2 DEF MonitorInv
    <3> QED BY <2>2, <3>1, <3>2, <3>3 DEF HsInv
  <2> QED BY <2>1, <2>2
<1> QED BY <1>1, <1>2, PTL DEF HSpec

\* The bits that the ground sees name exactly the entries that count down,
\* whatever tables are loaded and however HS is enabled, disabled and started
\* (hs_monitors.c, hs_cmds.c).
THEOREM WatchedIsReported == HSpec => []EnablesTellTheTruth
<1>1. HsInv => EnablesTellTheTruth
  BY DEF HsInv, MonitorInv
<1> QED BY <1>1, HsInvariant, PTL

\* No application stands still for longer than the cycles of an entry that
\* still counts: HS_MonitorApplications acts in time.
THEOREM StandstillIsActedOn == HSpec => []SilenceIsActedOn
<1>1. HsInv => SilenceIsActedOn
  <2> SUFFICES ASSUME HsInv, AMT # NoTable, NEW m \in Entries, countdown[m] # 0
               PROVE  silent[m] <= AMT[m].cycles
    BY DEF SilenceIsActedOn
  <2>1. countdown[m] \in Nat /\ AMT[m].cycles \in Nat
    BY AmtOK, AmtType DEF HsInv, TypeInv, MonitorOK
  <2>2. silent[m] \in Nat /\ silent[m] + countdown[m] <= AMT[m].cycles + 1
    BY DEF HsInv, MonitorInv, Watched
  <2> QED BY <2>1, <2>2, SMT
<1> QED BY <1>1, HsInvariant, PTL

\* An action is taken only on an application that has not run for as many
\* looks in a row as its entry says.
THEOREM HealthyIsLeftAlone == HSpec => NoHealthyAppActedOn
<1> DEFINE Acted == \A m \in Entries : Looks(m) /\ countdown'[m] = 0 =>
                      since[m] # "run" /\ unproved[m] + 1 >= AMT[m].cycles
<1>1. HsInv /\ [HNext]_hvars => [Acted]_hvars
  <2> SUFFICES ASSUME HsInv, HNext, NEW m \in Entries, Looks(m), countdown'[m] = 0
               PROVE  since[m] # "run" /\ unproved[m] + 1 >= AMT[m].cycles
    OBVIOUS
  <2>0. /\ pc = "apps" /\ idx = m /\ countdown[m] # 0 /\ countdown[m] \in Nat
        /\ Watched(m) /\ idx \in Nat /\ TypeInv /\ TableInUse
    BY DEF Looks, Looked, HsInv, MonitorInv, TypeInv, MonitorOK
  <2>1. ~ HsStarts
    BY <2>0 DEF HsStarts, Boot, HsRestart, AppInit, Looks
  <2>2. ~ Environment
    <3>1. CASE Environment
      BY <2>0, <3>1, EnvironmentQuiet DEF QuietStep, Unlooked
    <3> QED BY <3>1
  <2>3. ~ (StartCycle \/ TakeEvent \/ MonitorEvent \/ EventDone \/ EventsDone \/ Commands
             \/ OrderReset)
    BY <2>0 DEF StartCycle, TakeEvent, MonitorEvent, EventDone, EventsDone, OrderReset,
         Commands, EnableAppMon, DisableAppMon, EnableEventMon, DisableEventMon,
         ResetResetsPerformed, SetMaxResets, EndCycle, Commanded
  <2>4. ~ (AppsDone \/ \E n \in 1 .. NumApp : MonitorSkips(n))
    BY <2>0, HsAssumption DEF AppsDone, MonitorSkips, Looks, Entries
  <2>5. PICK n \in 1 .. NumApp : MonitorSeesRun(n) \/ MonitorSeesStall(n) \/ MonitorActs(n)
    BY <2>1, <2>2, <2>3, <2>4 DEF HNext, Next, Hs, HsStarts, MonitorApplications
  <2>6. n = m
    BY <2>0, <2>5 DEF MonitorSeesRun, MonitorSeesStall, MonitorActs, Looked
  <2>7. AMT # NoTable /\ AMT[m].cycles \in Nat /\ AMT[m].app \in Apps
    BY <2>0, AmtOK, AmtType DEF TableInUse, TypeInv
  <2>8. ~ HasRun(m) /\ countdown[m] = 1
    <3>1. CASE MonitorSeesRun(m)
      <4>1. countdown'[m] = AMT[m].cycles
        BY <2>0, <3>1 DEF MonitorSeesRun, TypeInv, MonitorOK
      <4> QED BY <2>0, <2>7, <4>1 DEF Watched
    <3>2. CASE MonitorSeesStall(m)
      BY <2>0, <3>2 DEF MonitorSeesStall, Expires, TypeInv, MonitorOK
    <3>3. CASE MonitorActs(m)
      BY <3>3 DEF MonitorActs, Expires
    <3> QED BY <2>5, <2>6, <3>1, <3>2, <3>3
  <2>9. App(m) \in AppRecords /\ lastCount[m] \in Nat
    BY <2>0, <2>7 DEF App, TypeInv, AppsOK, MonitorOK
  <2> QED BY <2>0, <2>7, <2>8, <2>9, SMT DEF Watched, HasRun, App, AppRecords
<1> QED BY <1>1, HsInvariant, PTL DEF HSpec, NoHealthyAppActedOn

-----------------------------------------------------------------------------
(* The limit on processor resets.                                          *)

\* Every reset that was ordered is in the stored count, and the one that is
\* about to be ordered as well; the store agrees with HS while it is in use.
CdsRecords == [performed : Nat, max : Nat]
ResetInv ==
  /\ ordered \in Nat /\ cds \in CdsRecords
  /\ saved # Nothing => saved \in CdsRecords
  /\ cdsState = "ENABLED" => saved = cds
  /\ ordered <= cds.performed
  /\ pc = "counted" => ordered < cds.performed /\ cds.performed <= cds.max
  /\ watchdog = "DISABLED" => pc = "resetting" /\ ordered <= cds.max

LEMMA InitResetInv == HInit => ResetInv
  BY HsAssumption DEF HInit, Init, ResetInv, CdsRecords

\* Without an order of HS, the number of resets it ordered stays or is
\* forgotten.
LEMMA OrderedStays ==
  ASSUME History, ~ (pc = "counted" /\ watchdog' = "DISABLED")
  PROVE  ordered' \in {ordered, 0}
  BY DEF History

LEMMA ResetsUntouched ==
  ASSUME ResetInv, History, UNCHANGED <<cdsVars, watchdog>>,
         pc' = "counted" => pc = "counted", pc = "resetting" => pc' = "resetting"
  PROVE  ResetInv'
<1>1. ordered' \in {ordered, 0}
  BY OrderedStays DEF ResetInv
<1>2. cds.performed \in Nat /\ cds.max \in Nat
  BY DEF ResetInv, CdsRecords
<1> QED BY <1>1, <1>2, SMT DEF ResetInv, cdsVars

LEMMA StartsKeepResets == ASSUME ResetInv, HsStarts, History PROVE ResetInv'
<1>1. pc' = "wait" /\ watchdog' = "ENABLED"
  BY DEF HsStarts, Boot, HsRestart, AppInit
<1>2. ordered' \in {ordered, 0}
  BY <1>1, OrderedStays
<1>3. [performed |-> 0, max |-> MaxRestart] \in CdsRecords
  BY HsAssumption DEF CdsRecords
<1> DEFINE kept == /\ saved # Nothing /\ cdsState = "ENABLED"
                   /\ cds' = saved /\ saved' = saved /\ nextBoot # "POWERON"
<1>4. ~ kept => ordered' = 0
  BY <1>1 DEF History
<1>5. CASE RestoreCDS
  <2>1. CASE saved # Nothing /\ cdsState' = "ENABLED" /\ cds' = saved /\ saved' = saved
    <3>1. ordered' <= cds'.performed
      BY <1>2, <1>4, <2>1 DEF ResetInv, CdsRecords
    <3> QED BY <1>1, <1>2, <2>1, <3>1 DEF ResetInv
  <2>2. CASE SetCDSData(0, MaxRestart)
    <3>1. cds' = [performed |-> 0, max |-> MaxRestart] /\ cds'.performed = 0
      BY <2>2 DEF SetCDSData
    <3>2. kept => ordered = 0
      BY <3>1 DEF ResetInv
    <3>3. ordered' = 0
      BY <1>2, <1>4, <3>2
    <3>4. saved' = IF cdsState' = "ENABLED" THEN cds' ELSE saved
      BY <2>2 DEF SetCDSData
    <3> QED BY <1>1, <1>3, <3>1, <3>3, <3>4 DEF ResetInv
  <2> QED BY <1>5, <2>1, <2>2 DEF RestoreCDS
<1>6. CASE ~ RestoreCDS
  <2>1. /\ cds' = [performed |-> 0, max |-> MaxRestart]
        /\ saved' = IF cdsState' = "ENABLED" THEN cds' ELSE Nothing
    BY <1>6 DEF HsStarts, Boot, HsRestart
  <2>2. kept => ordered = 0
    BY <2>1 DEF ResetInv
  <2>3. ordered' = 0
    BY <1>2, <1>4, <2>2
  <2> QED BY <1>1, <1>3, <2>1, <2>3 DEF ResetInv
<1> QED BY <1>5, <1>6

\* The action of an entry: a reset is counted before it is ordered.
LEMMA ActKeepsResets ==
  ASSUME ResetInv, ActEffect, History, pc \in {"apps", "event"}, watchdog' = watchdog
  PROVE  ResetInv'
<1>1. ordered' \in {ordered, 0}
  BY OrderedStays
<1>2. CASE UNCHANGED cdsVars /\ pc' = pc
  BY <1>2, ResetsUntouched
<1>3. CASE /\ cds.performed < cds.max /\ pc' = "counted"
           /\ SetCDSData(cds.performed + 1, cds.max) /\ cdsState' = cdsState
  <2>1. /\ cds' = [performed |-> cds.performed + 1, max |-> cds.max]
        /\ saved' = IF cdsState' = "ENABLED" THEN cds' ELSE saved
    BY <1>3 DEF SetCDSData
  <2>2. cds.performed \in Nat /\ cds.max \in Nat /\ ordered \in Nat
    BY DEF ResetInv, CdsRecords
  <2>3. cds' \in CdsRecords
    BY <2>1, <2>2 DEF CdsRecords
  <2>4. cds'.performed = cds.performed + 1 /\ cds'.max = cds.max
    BY <2>1
  <2>5. ordered' <= ordered
    BY <1>1, <2>2
  <2>6. watchdog' # "DISABLED"
    BY DEF ResetInv
  <2> QED BY <1>1, <1>3, <2>1, <2>2, <2>3, <2>4, <2>5, <2>6 DEF ResetInv
<1> QED BY <1>2, <1>3 DEF ActEffect

LEMMA OrderKeepsResets == ASSUME ResetInv, OrderReset, History PROVE ResetInv'
<1>1. /\ pc = "counted" /\ pc' = "resetting" /\ watchdog' = "DISABLED"
      /\ UNCHANGED <<cds, cdsState, saved>>
  BY DEF OrderReset, cdsVars
<1>2. ordered' = ordered + 1
  BY <1>1 DEF History
<1>3. cds.performed \in Nat /\ cds.max \in Nat
  BY DEF ResetInv, CdsRecords
<1> QED BY <1>1, <1>2, <1>3, SMT DEF ResetInv

LEMMA CommandKeepsResets ==
  ASSUME ResetInv, History, ResetResetsPerformed \/ SetMaxResets
  PROVE  ResetInv'
<1>1. UNCHANGED <<pc, watchdog, cdsState>> /\ pc = "commands"
  BY DEF ResetResetsPerformed, SetMaxResets, Commanded
<1>2. ordered' \in {ordered, 0} /\ (cds'.performed = 0 => ordered' = 0 \/ ordered' = ordered)
  BY <1>1, OrderedStays
<1>3. PICK p \in {0, cds.performed}, max \in Nat :
        /\ SetCDSData(p, max)
        /\ p = 0 => ordered' = 0
  <2>1. CASE ResetResetsPerformed
    <3>1. cds'.performed = 0 /\ SetCDSData(0, cds.max)
      BY <2>1 DEF ResetResetsPerformed, SetCDSData
    <3>2. ordered' = 0
      BY <1>1, <3>1 DEF History, ResetInv
    <3> QED BY <3>1, <3>2 DEF ResetInv, CdsRecords
  <2>2. CASE SetMaxResets
    <3>1. PICK max \in Maxima : SetCDSData(cds.performed, max)
      BY <2>2 DEF SetMaxResets
    <3>2. cds.performed = 0 => ordered = 0
      BY DEF ResetInv
    <3> QED BY <1>2, <3>1, <3>2, HsAssumption
  <2> QED BY <2>1, <2>2
<1>4. cds' = [performed |-> p, max |-> max] /\ saved' = IF cdsState' = "ENABLED" THEN cds' ELSE saved
  BY <1>3 DEF SetCDSData
<1>5. cds' \in CdsRecords /\ cds'.performed = p
  BY <1>4 DEF ResetInv, CdsRecords
<1>6. ordered' <= p
  BY <1>2, <1>3 DEF ResetInv, CdsRecords
<1> QED BY <1>1, <1>2, <1>4, <1>5, <1>6 DEF ResetInv

LEMMA OthersKeepResets ==
  ASSUME ~ HsStarts, ~ OrderReset, ~ ResetResetsPerformed, ~ SetMaxResets, ~ MonitorEvent,
         \A m \in 1 .. NumApp : ~ MonitorActs(m), Next
  PROVE  /\ UNCHANGED <<cdsVars, watchdog>>
         /\ pc' = "counted" => pc = "counted"
         /\ pc = "resetting" => pc' = "resetting"
<1>1. CASE Environment
  BY <1>1 DEF Environment, OutsideReset, AppRun, AppExit, EsServes, AppVarsOnly, AppEvent, LoadTable
<1>2. CASE StartCycle
  BY <1>2 DEF StartCycle
<1>3. CASE MonitorApplications
  BY <1>3 DEF MonitorApplications, MonitorSkips, MonitorSeesRun, MonitorSeesStall, AppsDone, GoOn
<1>4. CASE TakeEvent \/ EventDone \/ EventsDone
  BY <1>4 DEF TakeEvent, EventDone, EventsDone
<1>5. CASE Commands
  BY <1>5 DEF Commands, EnableAppMon, DisableAppMon, EnableEventMon, DisableEventMon,
       EndCycle, Commanded, cdsVars
<1> QED BY <1>1, <1>2, <1>3, <1>4, <1>5 DEF Next, Hs, HsStarts

LEMMA ResetStep == ASSUME HsInv, ResetInv, HNext PROVE ResetInv'
<1>0. History /\ Next
  BY DEF HNext
<1>1. CASE HsStarts
  BY <1>0, <1>1, StartsKeepResets
<1>2. CASE OrderReset
  BY <1>0, <1>2, OrderKeepsResets
<1>3. CASE ResetResetsPerformed \/ SetMaxResets
  BY <1>0, <1>3, CommandKeepsResets
<1>4. CASE MonitorEvent
  <2>1. CASE Matches(idx)
    BY <1>0, <1>4, <2>1, ActHasEffect, ActKeepsResets DEF MonitorEvent, HsInv, TypeInv
  <2>2. CASE ~ Matches(idx)
    BY <1>0, <1>4, <2>2, ResetsUntouched DEF MonitorEvent, GoOn
  <2> QED BY <2>1, <2>2
<1>5. ASSUME NEW m \in 1 .. NumApp, MonitorActs(m) PROVE ResetInv'
  BY <1>0, <1>5, ActHasEffect, ActKeepsResets DEF MonitorActs, Looked, HsInv, TypeInv
<1>6. CASE /\ ~ HsStarts /\ ~ OrderReset /\ ~ ResetResetsPerformed /\ ~ SetMaxResets
           /\ ~ MonitorEvent /\ \A m \in 1 .. NumApp : ~ MonitorActs(m)
  BY <1>0, <1>6, OthersKeepResets, ResetsUntouched
<1> QED BY <1>1, <1>2, <1>3, <1>4, <1>5, <1>6

\* HS orders no reset that its stored count does not hold, and none beyond
\* the maximum, however it and the processor start in between: the count is
\* stored before the order (HS_MonitorApplications, HS_MonitorEvent,
\* HS_SetCDSData, HS_AppInit).
THEOREM ResetsAreCounted == HSpec => []ResetsWithinLimit
<1>1. HInit => ResetInv
  BY InitResetInv
<1>2. HsInv /\ ResetInv /\ [HNext]_hvars => ResetInv'
  <2>1. ASSUME ResetInv, UNCHANGED hvars PROVE ResetInv'
    BY <2>1 DEF ResetInv, hvars, vars, cdsVars
  <2> QED BY <2>1, ResetStep
<1>3. ResetInv => ResetsWithinLimit
  BY DEF ResetInv, ResetsWithinLimit
<1> QED BY <1>1, <1>2, <1>3, HsInvariant, PTL DEF HSpec

-----------------------------------------------------------------------------
(* Messages and events.                                                    *)

\* What is left of a rest is left of the cooldown.
RestInv ==
  /\ rest \in [Messages -> Nat]
  /\ \A x \in Messages : rest[x] <= cooldown[x]

LEMMA RestFalls ==
  ASSUME RestInv, CooldownOK, CooldownOK', History,
         NEW x \in Messages, cooldown'[x] <= cooldown[x]
  PROVE  rest'[x] \in Nat /\ rest'[x] <= rest[x]
<1>1. cooldown[x] \in Nat /\ cooldown'[x] \in Nat /\ rest[x] \in Nat
  BY DEF RestInv, CooldownOK
<1>2. rest'[x] = 0 \/ rest'[x] = rest[x] \/ (rest[x] # 0 /\ rest'[x] = rest[x] - 1)
  <2>1. ~ (cooldown'[x] > cooldown[x])
    BY <1>1
  <2> QED BY <2>1, Zenon DEF History
<1> QED BY <1>1, <1>2

LEMMA RestIsFunction ==
  ASSUME History, \A x \in Messages : rest'[x] \in Nat PROVE rest' \in [Messages -> Nat]
  BY DEF History

\* A message is sent only after its cooldown, and its rest is the new one.
LEMMA SentRests ==
  ASSUME HsInv, RestInv, ActEffect, CooldownOK', History, ~ HsStarts,
         pending' = pending, pc \in {"apps", "event"}
  PROVE  RestInv' /\ \A x \in Messages : cooldown'[x] > cooldown[x] => rest[x] = 0
<1>1. CooldownOK /\ TypeInv
  BY DEF HsInv, TypeInv
<1>2. ASSUME NEW x \in Messages
      PROVE  /\ rest'[x] \in Nat /\ rest'[x] <= cooldown'[x]
             /\ cooldown'[x] > cooldown[x] => rest[x] = 0
  <2>0. cooldown[x] \in Nat /\ cooldown'[x] \in Nat /\ rest[x] \in Nat /\ rest[x] <= cooldown[x]
    BY <1>1 DEF CooldownOK, RestInv
  <2>1. CASE cooldown'[x] <= cooldown[x] /\ cooldown'[x] = cooldown[x]
    BY <1>1, <2>0, <2>1, RestFalls
  <2>2. CASE cooldown'[x] # cooldown[x]
    <3>1. MayBeSent(x) /\ cooldown'[x] = MAT[x].cooldown
      BY <1>1, <2>2 DEF ActEffect, CooldownOK
    <3>2. cooldown[x] = 0 /\ cooldown'[x] > cooldown[x]
      BY <2>0, <2>2, <3>1 DEF MayBeSent
    <3>3. rest'[x] = MAT[x].cooldown
      <4>1. ~ NewTable("MAT") /\ pc # "wait"
        BY DEF NewTable
      <4> QED BY <3>2, <4>1 DEF History
    <3> QED BY <2>0, <3>1, <3>2, <3>3
  <2> QED BY <2>0, <2>1, <2>2
<1> QED BY <1>2, RestIsFunction DEF RestInv

\* All cooldowns go down together, with the rests, once per cycle.
LEMMA CycleRests ==
  ASSUME HsInv, RestInv, StartCycle, CooldownOK', History
  PROVE  RestInv' /\ \A x \in Messages : ~ (cooldown'[x] > cooldown[x])
<1>1. /\ pc = "wait" /\ pc' \in {"apps", "events"}
      /\ pending' = [kind \in Tables |-> Nothing]
      /\ cooldown' = [x \in Messages |-> IF pending["MAT"] # Nothing THEN 0
                                         ELSE Decremented(cooldown[x])]
  BY DEF StartCycle, AcquireMAT
<1>2. ASSUME NEW x \in Messages
      PROVE  /\ rest'[x] \in Nat /\ rest'[x] <= cooldown'[x]
             /\ ~ (cooldown'[x] > cooldown[x])
  <2>0. cooldown[x] \in Nat /\ rest[x] \in Nat /\ rest[x] <= cooldown[x]
    BY DEF CooldownOK, RestInv, HsInv, TypeInv
  <2>1. CASE pending["MAT"] # Nothing
    <3>1. NewTable("MAT") /\ cooldown'[x] = 0
      BY <1>1, <2>1, TablesDiffer DEF NewTable
    <3>2. rest'[x] = 0
      BY <3>1 DEF History
    <3> QED BY <2>0, <3>1, <3>2
  <2>2. CASE pending["MAT"] = Nothing
    <3>1. cooldown'[x] = IF cooldown[x] = 0 THEN 0 ELSE cooldown[x] - 1
      BY <1>1, <2>2 DEF Decremented
    <3>2. rest'[x] = 0 \/ rest'[x] = IF rest[x] = 0 THEN 0 ELSE rest[x] - 1
      BY <1>1, Zenon DEF History
    <3> QED BY <2>0, <3>1, <3>2
  <2> QED BY <2>1, <2>2
<1> QED BY <1>2, RestIsFunction DEF RestInv

\* No other step raises a cooldown.
LEMMA OthersKeepCooldowns ==
  ASSUME HsInv, Next, ~ StartCycle, ~ MonitorEvent, \A m \in 1 .. NumApp : ~ MonitorActs(m)
  PROVE  \/ cooldown' = cooldown
         \/ HsStarts /\ cooldown' = [x \in Messages |-> 0]
<1>1. CASE Environment
  BY <1>1 DEF Environment, OutsideReset, AppRun, AppExit, EsServes, AppVarsOnly, AppEvent, LoadTable
<1>2. CASE HsStarts
  BY <1>2 DEF HsStarts, Boot, HsRestart, AppInit
<1>3. CASE MonitorApplications
  BY <1>3 DEF MonitorApplications, MonitorSkips, MonitorSeesRun, MonitorSeesStall, AppsDone
<1>4. CASE TakeEvent \/ EventDone \/ EventsDone \/ OrderReset
  BY <1>4 DEF TakeEvent, EventDone, EventsDone, OrderReset
<1>5. CASE Commands
  BY <1>5 DEF Commands, EnableAppMon, DisableAppMon, EnableEventMon, DisableEventMon,
       ResetResetsPerformed, SetMaxResets, EndCycle, Commanded
<1> QED BY <1>1, <1>2, <1>3, <1>4, <1>5 DEF Next, Hs, HsStarts

LEMMA RestStep ==
  ASSUME HsInv, HsInv', RestInv, HNext
  PROVE  RestInv' /\ \A x \in Messages : cooldown'[x] > cooldown[x] => rest[x] = 0
<1>0. History /\ Next /\ CooldownOK /\ CooldownOK' /\ AppsOK
  BY DEF HNext, HsInv, TypeInv
<1>1. CASE HsStarts
  <2>1. \A x \in Messages : rest'[x] = 0
    BY <1>0, <1>1 DEF History
  <2>2. cooldown' = [x \in Messages |-> 0]
    BY <1>1 DEF HsStarts, Boot, HsRestart, AppInit
  <2> QED BY <1>0, <2>1, <2>2, RestIsFunction DEF RestInv, CooldownOK
<1>2. CASE StartCycle
  BY <1>0, <1>2, CycleRests
<1>3. CASE ~ HsStarts /\ MonitorEvent
  <2>1. pc = "event" /\ pending' = pending
    BY <1>3 DEF MonitorEvent, tblVars
  <2>2. CASE Matches(idx)
    BY <1>0, <1>3, <2>1, <2>2, ActHasEffect, SentRests DEF MonitorEvent
  <2>3. CASE ~ Matches(idx)
    <3>1. cooldown' = cooldown
      BY <1>3, <2>3 DEF MonitorEvent
    <3>2. \A x \in Messages : rest'[x] \in Nat /\ rest'[x] <= rest[x]
      BY <1>0, <3>1, RestFalls DEF CooldownOK
    <3> QED BY <1>0, <3>1, <3>2, RestIsFunction DEF RestInv, CooldownOK
  <2> QED BY <2>2, <2>3
<1>4. ASSUME NEW m \in 1 .. NumApp, ~ HsStarts, MonitorActs(m)
      PROVE  RestInv' /\ \A x \in Messages : cooldown'[x] > cooldown[x] => rest[x] = 0
  <2>1. pc = "apps" /\ pending' = pending /\ Act(AMT[m])
    BY <1>4 DEF MonitorActs, Looked, tblVars
  <2> QED BY <1>0, <1>4, <2>1, ActHasEffect, SentRests
<1>5. CASE /\ ~ HsStarts /\ ~ StartCycle /\ ~ MonitorEvent
           /\ \A m \in 1 .. NumApp : ~ MonitorActs(m)
  <2>1. cooldown' = cooldown
    BY <1>0, <1>5, OthersKeepCooldowns
  <2>2. \A x \in Messages : rest'[x] \in Nat /\ rest'[x] <= rest[x]
    BY <1>0, <2>1, RestFalls DEF CooldownOK
  <2> QED BY <1>0, <2>1, <2>2, RestIsFunction DEF RestInv, CooldownOK
<1> QED BY <1>1, <1>2, <1>3, <1>4, <1>5

\* HS_SendMessage's cooldown outlasts both monitors that may ask for the
\* message: none is repeated before the cycles of its entry have passed.
THEOREM NotRepeatedTooSoon == HSpec => CooldownKept
<1> DEFINE Kept == \A x \in Messages : cooldown'[x] > cooldown[x] => rest[x] = 0
<1>1. HInit => RestInv
  BY DEF HInit, Init, RestInv
<1>2. HsInv /\ HsInv' /\ RestInv /\ [HNext]_hvars => RestInv'
  <2>1. ASSUME RestInv, UNCHANGED hvars PROVE RestInv'
    BY <2>1 DEF RestInv, hvars, vars
  <2> QED BY <2>1, RestStep
<1>3. HsInv /\ HsInv' /\ RestInv /\ [HNext]_hvars => [Kept]_hvars
  BY RestStep
<1> QED BY <1>1, <1>2, <1>3, HsInvariant, PTL DEF HSpec, CooldownKept

\* An event monitor that reports itself enabled is subscribed to both formats,
\* but for what the software bus refused (HS_EnableEventMonCmd,
\* HS_DisableEventMonCmd, HS_AcquirePointers).
THEOREM EnabledMeansSubscribed == HSpec => []NeverBlindUnasked
<1>1. HInit => NeverBlindUnasked
  BY DEF HInit, Init, NeverBlindUnasked
<1>2. NeverBlindUnasked /\ [HNext]_hvars => NeverBlindUnasked'
  <2>1. ASSUME NeverBlindUnasked, HNext, eventMon' = "ENABLED", ~ refused'
        PROVE  subscribed' = Formats
    <3>1. ~ refused /\ (eventMon = "ENABLED" => subscribed' = subscribed)
      BY <2>1 DEF HNext, History
    <3>2. CASE eventMon = "ENABLED"
      BY <2>1, <3>1, <3>2 DEF NeverBlindUnasked
    <3>3. CASE eventMon # "ENABLED"
      <4>1. CASE EnableEventMon
        BY <2>1, <3>3, <4>1 DEF EnableEventMon
      <4>2. CASE ~ EnableEventMon
        <5>1. CASE Environment
          BY <5>1, <2>1, <3>3 DEF Environment, OutsideReset, AppRun, AppExit, EsServes, AppVarsOnly,
               AppEvent, LoadTable, emVars
        <5>2. CASE HsStarts
          BY <5>2, <2>1, <3>3 DEF HsStarts, Boot, HsRestart, AppInit
        <5>3. CASE StartCycle
          BY <5>3, <2>1, <3>3 DEF StartCycle, AcquireEMT
        <5>4. CASE MonitorApplications
          BY <5>4, <2>1, <3>3 DEF MonitorApplications, MonitorSkips, MonitorSeesRun, MonitorSeesStall,
               MonitorActs, AppsDone, emVars
        <5>5. CASE TakeEvent \/ MonitorEvent \/ EventDone \/ EventsDone \/ OrderReset
          BY <5>5, <2>1, <3>3 DEF TakeEvent, MonitorEvent, EventDone, EventsDone, OrderReset, emVars
        <5>6. CASE Commands
          BY <4>2, <5>6, <2>1, <3>3 DEF Commands, EnableAppMon, DisableAppMon, DisableEventMon,
               ResetResetsPerformed, SetMaxResets, EndCycle, emVars
        <5> QED BY <2>1, <5>1, <5>2, <5>3, <5>4, <5>5, <5>6 DEF HNext, Next, Hs, HsStarts
      <4> QED BY <4>1, <4>2
    <3> QED BY <3>2, <3>3
  <2>2. ASSUME NeverBlindUnasked, UNCHANGED hvars PROVE NeverBlindUnasked'
    BY <2>2 DEF NeverBlindUnasked, hvars, vars, emVars
  <2> QED BY <2>1, <2>2 DEF NeverBlindUnasked
<1> QED BY <1>1, <1>2, PTL DEF HSpec

=============================================================================
