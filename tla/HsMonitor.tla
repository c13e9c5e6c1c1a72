----------------------------- MODULE HsMonitor -----------------------------
(***************************************************************************)
(* Health and Safety (HS): the application monitor, the event monitor, the *)
(* message actions and the limit on processor resets, through cycles of    *)
(* HS_ProcessMain, restarts of the processor and of HS itself.             *)
(*                                                                         *)
(* HS is one task; the applications it monitors, Executive Services (ES),  *)
(* which carries out restarts, and resets from outside are concurrent with *)
(* it, so a step is one entry of a table, one event or one command.        *)
(***************************************************************************)
EXTENDS Integers, Sequences, FiniteSets

CONSTANTS
  Apps,             \* names of applications
  Messages,         \* message actions (indices of the MsgActs table)
  Events,           \* event IDs
  NoTable, Nothing, \* no table is loaded; there is no value
  NumApp, NumEvent, \* HS_MAX_MONITORED_APPS, HS_MAX_MONITORED_EVENTS
  File,             \* per table, the file that HS_TblInit loads,
  Loads,            \* and the tables the ground may load
  LoadFailures,     \* sets of tables of which the file may fail to load
  MaxRestart,       \* HS_MAX_RESTART_ACTIONS
  Maxima,           \* maxima that the ground may set in its place
  EsMax,            \* CFE_PLATFORM_ES_MAX_PROCESSOR_RESETS
  EventDepth,       \* HS_EVENT_PIPE_DEPTH
  GroundCommands,   \* commands that are explored
  GroundBound,      \* commands and table loads of the ground,
  FaultBound,       \* resets from outside and exits of applications,
  CountBound        \* and runs counted per application that are explored

VARIABLES
  tables,           \* the active table of each kind, or NoTable
  pending,          \* a load that waits for CFE_TBL_Manage
  appMon,           \* HS_AppData.CurrentAppMonState
  countdown,        \* AppMonCheckInCountdown
  lastCount,        \* AppMonLastExeCount
  enables,          \* AppMonEnables
  eventMon,         \* HS_AppData.CurrentEventMonState
  subscribed,       \* event formats the event pipe is subscribed to
  eventPipe,
  cooldown,         \* MsgActCooldown
  cds,              \* HS_AppData.CDSData
  cdsState,         \* HS_AppData.CDSState
  saved,            \* the Critical Data Store, or Nothing
  watchdog,         \* HS_AppData.ServiceWatchdogFlag
  pc, idx, event,   \* where HS is, its table index, the event in hand
  apps,             \* per application: exists, execution counter, ES request
  esCount,          \* ProcessorResetCount of ES
  nextBoot,         \* type of the reset that is under way
  ground, faults    \* what the ground and the environment have done

tblVars == <<tables, pending>>
amVars == <<appMon, countdown, lastCount, enables>>
emVars == <<eventMon, subscribed, eventPipe>>
cdsVars == <<cds, cdsState, saved>>
esVars == <<esCount, nextBoot>>
envVars == <<ground, faults>>
vars == <<tblVars, amVars, emVars, cooldown, cdsVars, watchdog, pc, idx, event,
          apps, esVars, envVars>>

Tables == {"AMT", "EMT", "MAT"}
States == {"ENABLED", "DISABLED"}
Formats == {"long", "short"}

Actions == {"NOACT", "PROC_RESET", "APP_RESTART", "APP_DELETE", "EVENT"} \cup Messages
AppEntries == [app : Apps, cycles : Nat, action : Actions \ {"APP_DELETE"}]
EventEntries == [app : Apps, id : Events, action : Actions \ {"EVENT"}]
MsgEntries == [cooldown : Nat, enabled : BOOLEAN]
IsTable(kind, t) ==
  CASE kind = "AMT" -> t \in [1 .. NumApp -> AppEntries]
    [] kind = "EMT" -> t \in [1 .. NumEvent -> EventEntries]
    [] kind = "MAT" -> t \in [Messages -> MsgEntries]

MonCommands == {"ENABLE_APPMON", "DISABLE_APPMON", "ENABLE_EVENTMON",
                "DISABLE_EVENTMON", "RESET_RESETS_PERFORMED", "SET_MAX_RESETS"}

ASSUME HsAssumption ==
  /\ NumApp \in Nat /\ NumEvent \in Nat
  /\ Messages \cap {"NOACT", "PROC_RESET", "APP_RESTART", "APP_DELETE", "EVENT"} = {}
  /\ \A kind \in Tables :
       /\ IsTable(kind, File[kind]) /\ ~ IsTable(kind, NoTable) /\ ~ IsTable(kind, Nothing)
       /\ \A t \in Loads[kind] : IsTable(kind, t)
  /\ LoadFailures \subseteq SUBSET Tables
  /\ MaxRestart \in Nat /\ Maxima \subseteq Nat /\ EsMax \in Nat /\ EventDepth \in Nat
  /\ GroundCommands \subseteq MonCommands
  /\ GroundBound \in Nat /\ FaultBound \in Nat /\ CountBound \in Nat

AMT == tables["AMT"]
EMT == tables["EMT"]
MAT == tables["MAT"]

-----------------------------------------------------------------------------
(* The Critical Data Store.                                                *)

\* HS_SetCDSData; the inverses that guard the two numbers are the record
\* being whole.
SetCDSData(performed, max) ==
  /\ cds' = [performed |-> performed, max |-> max]
  /\ saved' = IF cdsState' = "ENABLED" THEN cds' ELSE saved

-----------------------------------------------------------------------------
(* Refreshing the monitors for a table.                                    *)

InUse(entry) == entry.cycles # 0 /\ entry.action # "NOACT"

\* Fault: a refresh leaves the countdowns alone.
FaultyAppMonStatusRefresh(t) ==
  /\ lastCount' = [m \in 1 .. NumApp |-> 0]
  /\ countdown' = countdown
  /\ enables' = {m \in 1 .. NumApp : InUse(t[m])}

AppMonStatusRefresh(t) ==
  /\ lastCount' = [m \in 1 .. NumApp |-> 0]
  /\ countdown' = [m \in 1 .. NumApp |-> IF InUse(t[m]) THEN t[m].cycles ELSE 0]
  /\ enables' = {m \in 1 .. NumApp : InUse(t[m])}

\* An application monitor without a table is disabled, as is an event
\* monitor, which is unsubscribed as far as the software bus agrees.
AcquireAMT(updated) ==
  /\ IF updated THEN AppMonStatusRefresh(tables'["AMT"])
                ELSE UNCHANGED <<countdown, lastCount, enables>>
  /\ appMon' = IF tables'["AMT"] = NoTable THEN "DISABLED" ELSE appMon

AcquireEMT ==
  IF tables'["EMT"] = NoTable /\ eventMon = "ENABLED"
    THEN /\ eventMon' = "DISABLED"
         /\ \E left \in SUBSET subscribed : subscribed' = left
    ELSE UNCHANGED <<eventMon, subscribed>>

Decremented(n) == IF n = 0 THEN 0 ELSE n - 1

\* The new table forgets the cooldowns; then a cycle passes.
AcquireMAT(updated) ==
  cooldown' = [x \in Messages |-> IF updated THEN 0 ELSE Decremented(cooldown[x])]

-----------------------------------------------------------------------------
(* Starting and restarting.                                                *)

Running == [exists |-> TRUE, count |-> 0, request |-> "none"]

\* What HS finds in the Critical Data Store: its data, or that there is none,
\* it is corrupt or it cannot be read, or no store can be had.
RestoreCDS ==
  \/ /\ saved # Nothing /\ cdsState' = "ENABLED"
     /\ cds' = saved /\ UNCHANGED saved
  \/ /\ cdsState' = "ENABLED"
     /\ SetCDSData(0, MaxRestart)
  \/ /\ cdsState' = "DISABLED"
     /\ SetCDSData(0, MaxRestart)

\* HS_AppInit, with the store as it is, and what HS_AppMain does before its
\* loop; a table that fails to load leaves its monitor disabled.
AppInit ==
  /\ \E failed \in LoadFailures :
       tables' = [kind \in Tables |-> IF kind \in failed THEN NoTable ELSE File[kind]]
  /\ pending' = [kind \in Tables |-> Nothing]
  /\ IF tables'["AMT"] = NoTable
       THEN /\ appMon' = "DISABLED" /\ enables' = {}
            /\ countdown' = [m \in 1 .. NumApp |-> 0]
            /\ lastCount' = [m \in 1 .. NumApp |-> 0]
       ELSE appMon' = "ENABLED" /\ AppMonStatusRefresh(tables'["AMT"])
  /\ eventMon' = "DISABLED" /\ subscribed' = {} /\ eventPipe' = <<>>
  /\ cooldown' = [x \in Messages |-> 0]
  /\ watchdog' = "ENABLED"
  /\ pc' = "wait" /\ idx' = 0 /\ event' = Nothing

Init == /\ tables = File
        /\ pending = [kind \in Tables |-> Nothing]
        /\ appMon = "ENABLED"
        /\ countdown = [m \in 1 .. NumApp |-> IF InUse(AMT[m]) THEN AMT[m].cycles ELSE 0]
        /\ lastCount = [m \in 1 .. NumApp |-> 0]
        /\ enables = {m \in 1 .. NumApp : InUse(AMT[m])}
        /\ eventMon = "DISABLED" /\ subscribed = {} /\ eventPipe = <<>>
        /\ cooldown = [x \in Messages |-> 0]
        /\ cds = [performed |-> 0, max |-> MaxRestart] /\ cdsState = "ENABLED"
        /\ saved = cds
        /\ watchdog = "ENABLED"
        /\ pc = "wait" /\ idx = 0 /\ event = Nothing
        /\ apps = [a \in Apps |-> Running]
        /\ esCount = 0 /\ nextBoot = Nothing
        /\ ground = 0 /\ faults = 0

\* The processor comes up again as ES was asked to bring it up; a power-on
\* reset clears the stores and the counter of ES.
Boot ==
  /\ pc = "resetting"
  /\ apps' = [a \in Apps |-> Running]
  /\ nextBoot' = Nothing
  /\ IF nextBoot = "PROCESSOR"
       THEN esCount' = esCount /\ RestoreCDS
       ELSE /\ esCount' = 0
            /\ cdsState' \in States /\ cds' = [performed |-> 0, max |-> MaxRestart]
            /\ saved' = IF cdsState' = "ENABLED" THEN cds' ELSE Nothing
  /\ AppInit
  /\ UNCHANGED envVars

\* The watchdog, an exception or an operator resets the processor: ES counts
\* that on its way down or up, and beyond its limit makes it a power-on.
OutsideReset ==
  /\ faults < FaultBound /\ faults' = faults + 1
  /\ pc # "resetting" /\ pc' = "resetting"
  /\ esCount' = esCount + 1
  /\ nextBoot' = IF esCount' > EsMax THEN "POWERON" ELSE "PROCESSOR"
  /\ UNCHANGED <<tblVars, amVars, emVars, cooldown, cdsVars, watchdog, idx, event,
                 apps, ground>>

\* ES restarts HS alone.
HsRestart ==
  /\ faults < FaultBound /\ faults' = faults + 1
  /\ pc # "resetting"
  /\ RestoreCDS /\ AppInit
  /\ UNCHANGED <<apps, esVars, ground>>

-----------------------------------------------------------------------------
(* The applications and Executive Services.                                *)

AppVarsOnly == UNCHANGED <<tblVars, amVars, emVars, cooldown, cdsVars, watchdog,
                           pc, idx, event, esVars, ground>>

\* An application goes through its run loop.
AppRun(a) ==
  /\ pc # "resetting"
  /\ apps[a].exists /\ apps[a].count < CountBound
  /\ apps' = [apps EXCEPT ![a].count = @ + 1]
  /\ AppVarsOnly /\ UNCHANGED faults

AppExit(a) ==
  /\ faults < FaultBound /\ faults' = faults + 1
  /\ pc # "resetting"
  /\ apps[a].exists
  /\ apps' = [apps EXCEPT ![a].exists = FALSE, ![a].request = "none"]
  /\ AppVarsOnly

\* The background task of ES carries out a restart, which may fail, or a
\* deletion; a new application has a new counter.
EsServes(a) ==
  /\ pc # "resetting"
  /\ apps[a].request # "none"
  /\ \E up \in BOOLEAN :
       /\ up => apps[a].request = "restart"
       /\ apps' = [apps EXCEPT ![a] = [Running EXCEPT !.exists = up]]
  /\ AppVarsOnly /\ UNCHANGED faults

\* An event reaches the pipe of HS in the long format of EVS.
AppEvent(a, id) ==
  /\ pc # "resetting"
  /\ apps[a].exists
  /\ "long" \in subscribed /\ Len(eventPipe) < EventDepth
  /\ eventPipe' = Append(eventPipe, [app |-> a, id |-> id])
  /\ UNCHANGED <<tblVars, amVars, eventMon, subscribed, cooldown, cdsVars, watchdog,
                 pc, idx, event, apps, esVars, envVars>>

\* The ground loads and activates a table that passes its validation.
LoadTable(kind, t) ==
  /\ ground < GroundBound /\ ground' = ground + 1
  /\ pc # "resetting"
  /\ pending[kind] = Nothing
  /\ pending' = [pending EXCEPT ![kind] = t]
  /\ UNCHANGED <<tables, amVars, emVars, cooldown, cdsVars, watchdog, pc, idx, event,
                 apps, esVars, faults>>

Environment ==
  \/ OutsideReset
  \/ \E a \in Apps : AppRun(a) \/ AppExit(a) \/ EsServes(a)
                       \/ \E id \in Events : AppEvent(a, id)
  \/ \E kind \in Tables : \E t \in Loads[kind] : LoadTable(kind, t)

-----------------------------------------------------------------------------
(* The actions of the two monitors.                                        *)

GoOn == pc' = pc /\ idx' = idx + 1

\* The count is saved first; the reset follows HS_RESET_TASK_DELAY later.
\* Fault: the reset is ordered and not counted.
FaultyProcReset ==
  /\ IF cds.performed < cds.max
       THEN pc' = "counted" /\ UNCHANGED <<cds, saved, idx>>
       ELSE GoOn /\ UNCHANGED <<cds, saved>>
  /\ UNCHANGED <<cdsState, apps, cooldown>>

ProcReset ==
  /\ UNCHANGED cdsState
  /\ IF cds.performed < cds.max
       THEN pc' = "counted" /\ SetCDSData(cds.performed + 1, cds.max) /\ UNCHANGED idx
       ELSE GoOn /\ UNCHANGED <<cds, saved>>
  /\ UNCHANGED <<apps, cooldown>>

\* CFE_ES_RestartApp and CFE_ES_DeleteApp may refuse; without the
\* application there is nothing to ask for.
RequestOfEs(a, request) ==
  /\ \/ UNCHANGED apps
     \/ apps[a].exists /\ apps' = [apps EXCEPT ![a].request = request]
  /\ GoOn
  /\ UNCHANGED <<cdsVars, cooldown>>

\* Fault: the cooldown is not looked at.
FaultyMayBeSent(x) == MAT # NoTable /\ MAT[x].enabled

MayBeSent(x) == MAT # NoTable /\ cooldown[x] = 0 /\ MAT[x].enabled

SendMessage(x) ==
  /\ cooldown' = IF MayBeSent(x) THEN [cooldown EXCEPT ![x] = MAT[x].cooldown]
                                 ELSE cooldown
  /\ GoOn
  /\ UNCHANGED <<cdsVars, apps>>

EventOnly == GoOn /\ UNCHANGED <<cdsVars, apps, cooldown>>

Act(entry) ==
  \/ entry.action = "PROC_RESET" /\ ProcReset
  \/ entry.action = "APP_RESTART" /\ RequestOfEs(entry.app, "restart")
  \/ entry.action = "APP_DELETE" /\ RequestOfEs(entry.app, "delete")
  \/ entry.action = "EVENT" /\ EventOnly
  \/ entry.action \in Messages /\ SendMessage(entry.action)

\* CFE_ES_ResetCFE: ES counts the reset and makes it a power-on beyond its
\* limit.  It does not return.
OrderReset ==
  /\ pc = "counted" /\ pc' = "resetting"
  /\ watchdog' = "DISABLED"
  /\ esCount' = esCount + 1
  /\ nextBoot' = IF esCount' > EsMax THEN "POWERON" ELSE "PROCESSOR"
  /\ UNCHANGED <<tblVars, amVars, emVars, cooldown, cdsVars, idx, event, apps, envVars>>

-----------------------------------------------------------------------------
(* One cycle.                                                              *)

StartCycle ==
  /\ pc = "wait"
  /\ tables' = [kind \in Tables |->
                  IF pending[kind] = Nothing THEN tables[kind] ELSE pending[kind]]
  /\ pending' = [kind \in Tables |-> Nothing]
  /\ AcquireAMT(pending["AMT"] # Nothing)
  /\ AcquireEMT
  /\ AcquireMAT(pending["MAT"] # Nothing)
  /\ IF appMon' = "ENABLED" THEN pc' = "apps" /\ idx' = 1 ELSE pc' = "events" /\ idx' = 0
  /\ UNCHANGED <<eventPipe, cdsVars, watchdog, event, apps, esVars, envVars>>

Looked(m) == pc = "apps" /\ idx = m /\ m \in 1 .. NumApp
               /\ AMT[m].action # "NOACT" /\ countdown[m] # 0

\* The counter of an application that exists differs from the last one seen.
HasRun(m) == LET a == apps[AMT[m].app] IN a.exists /\ a.count # lastCount[m]

MonitorSkips(m) ==
  /\ pc = "apps" /\ idx = m /\ m \in 1 .. NumApp /\ ~ Looked(m)
  /\ GoOn
  /\ UNCHANGED <<tblVars, amVars, emVars, cooldown, cdsVars, watchdog, event, apps,
                 esVars, envVars>>

\* Fault: the counter that was seen is not kept.
FaultyMonitorSeesRun(m) ==
  /\ Looked(m) /\ HasRun(m)
  /\ countdown' = [countdown EXCEPT ![m] = AMT[m].cycles]
  /\ GoOn
  /\ UNCHANGED <<tblVars, appMon, lastCount, enables, emVars, cooldown, cdsVars, watchdog,
                 event, apps, esVars, envVars>>

MonitorSeesRun(m) ==
  /\ Looked(m) /\ HasRun(m)
  /\ countdown' = [countdown EXCEPT ![m] = AMT[m].cycles]
  /\ lastCount' = [lastCount EXCEPT ![m] = apps[AMT[m].app].count]
  /\ GoOn
  /\ UNCHANGED <<tblVars, appMon, enables, emVars, cooldown, cdsVars, watchdog, event,
                 apps, esVars, envVars>>

\* The countdown goes down, and at zero the entry is off and its action taken.
\* Fault: one cycle short.
FaultyExpires(m) == countdown[m] \in {1, 2}

Expires(m) == countdown[m] = 1

MonitorSeesStall(m) ==
  /\ Looked(m) /\ ~ HasRun(m) /\ ~ Expires(m)
  /\ countdown' = [countdown EXCEPT ![m] = @ - 1]
  /\ GoOn
  /\ UNCHANGED <<tblVars, appMon, lastCount, enables, emVars, cooldown, cdsVars, watchdog,
                 event, apps, esVars, envVars>>

MonitorActs(m) ==
  /\ Looked(m) /\ ~ HasRun(m) /\ Expires(m)
  /\ countdown' = [countdown EXCEPT ![m] = 0]
  /\ enables' = enables \ {m}
  /\ Act(AMT[m])
  /\ UNCHANGED <<tblVars, appMon, lastCount, emVars, watchdog, event, esVars, envVars>>

AppsDone ==
  /\ pc = "apps" /\ idx > NumApp
  /\ pc' = "events" /\ idx' = 0
  /\ UNCHANGED <<tblVars, amVars, emVars, cooldown, cdsVars, watchdog, event, apps,
                 esVars, envVars>>

MonitorApplications ==
  \/ \E m \in 1 .. NumApp : MonitorSkips(m) \/ MonitorSeesRun(m) \/ MonitorSeesStall(m)
                              \/ MonitorActs(m)
  \/ AppsDone

\* The pipe is drained while the monitor is enabled; each event goes through
\* the whole table.
TakeEvent ==
  /\ pc = "events" /\ eventMon = "ENABLED" /\ eventPipe # <<>>
  /\ event' = Head(eventPipe) /\ eventPipe' = Tail(eventPipe)
  /\ IF EMT = NoTable THEN UNCHANGED <<pc, idx>> ELSE pc' = "event" /\ idx' = 1
  /\ UNCHANGED <<tblVars, amVars, eventMon, subscribed, cooldown, cdsVars, watchdog, apps,
                 esVars, envVars>>

Matches(e) == EMT[e].action # "NOACT" /\ EMT[e].id = event.id /\ EMT[e].app = event.app

MonitorEvent ==
  /\ pc = "event" /\ idx <= NumEvent
  /\ IF Matches(idx) THEN Act(EMT[idx])
                     ELSE GoOn /\ UNCHANGED <<cdsVars, apps, cooldown>>
  /\ UNCHANGED <<tblVars, amVars, emVars, watchdog, event, esVars, envVars>>

EventDone ==
  /\ pc = "event" /\ idx > NumEvent
  /\ pc' = "events" /\ idx' = 0 /\ event' = Nothing
  /\ UNCHANGED <<tblVars, amVars, emVars, cooldown, cdsVars, watchdog, apps, esVars, envVars>>

EventsDone ==
  /\ pc = "events" /\ (eventMon = "ENABLED" => eventPipe = <<>>)
  /\ pc' = "commands" /\ idx' = 0
  /\ UNCHANGED <<tblVars, amVars, emVars, cooldown, cdsVars, watchdog, event, apps,
                 esVars, envVars>>

-----------------------------------------------------------------------------
(* Commands.                                                               *)

Commanded(code) ==
  /\ pc = "commands"
  /\ code \in GroundCommands
  /\ ground < GroundBound /\ ground' = ground + 1
  /\ UNCHANGED <<tblVars, cooldown, cdsState, watchdog, pc, idx, event, apps, esVars, faults>>

\* Without a table the refresh would go through a null pointer; that case is
\* not explored.
EnableAppMon ==
  /\ Commanded("ENABLE_APPMON")
  /\ AMT # NoTable
  /\ IF appMon = "ENABLED" THEN UNCHANGED amVars
                           ELSE AppMonStatusRefresh(AMT) /\ appMon' = "ENABLED"
  /\ UNCHANGED <<emVars, cds, saved>>

DisableAppMon ==
  /\ Commanded("DISABLE_APPMON")
  /\ appMon' = "DISABLED"
  /\ UNCHANGED <<countdown, lastCount, enables, emVars, cds, saved>>

\* The two subscriptions are made one after the other, and the first that the
\* software bus refuses ends the command.
\* Fault: the monitor is enabled whatever the software bus says.
FaultyEnableEventMon ==
  /\ Commanded("ENABLE_EVENTMON")
  /\ eventMon' = "ENABLED"
  /\ subscribed' \in {subscribed, subscribed \cup {"long"}, Formats}
  /\ UNCHANGED <<amVars, eventPipe, cds, saved>>

EnableEventMon ==
  /\ Commanded("ENABLE_EVENTMON")
  /\ \/ eventMon = "ENABLED" /\ UNCHANGED <<eventMon, subscribed>>
     \/ /\ eventMon = "DISABLED"
        /\ \/ UNCHANGED <<eventMon, subscribed>>
           \/ subscribed' = subscribed \cup {"long"} /\ UNCHANGED eventMon
           \/ subscribed' = Formats /\ eventMon' = "ENABLED"
  /\ UNCHANGED <<amVars, eventPipe, cds, saved>>

DisableEventMon ==
  /\ Commanded("DISABLE_EVENTMON")
  /\ \/ eventMon = "DISABLED" /\ UNCHANGED <<eventMon, subscribed>>
     \/ /\ eventMon = "ENABLED"
        /\ \/ UNCHANGED <<eventMon, subscribed>>
           \/ subscribed' = subscribed \ {"long"} /\ UNCHANGED eventMon
           \/ subscribed' = {} /\ eventMon' = "DISABLED"
  /\ UNCHANGED <<amVars, eventPipe, cds, saved>>

ResetResetsPerformed ==
  /\ Commanded("RESET_RESETS_PERFORMED")
  /\ SetCDSData(0, cds.max)
  /\ UNCHANGED <<amVars, emVars>>

SetMaxResets ==
  /\ Commanded("SET_MAX_RESETS")
  /\ \E max \in Maxima : SetCDSData(cds.performed, max)
  /\ UNCHANGED <<amVars, emVars>>

\* The watchdog is serviced while the flag says so; then HS waits.
EndCycle ==
  /\ pc = "commands" /\ pc' = "wait"
  /\ UNCHANGED <<tblVars, amVars, emVars, cooldown, cdsVars, watchdog, idx, event, apps,
                 esVars, envVars>>

Commands == \/ EnableAppMon \/ DisableAppMon \/ EnableEventMon \/ DisableEventMon
            \/ ResetResetsPerformed \/ SetMaxResets \/ EndCycle

-----------------------------------------------------------------------------
Hs == \/ StartCycle \/ MonitorApplications
      \/ TakeEvent \/ MonitorEvent \/ EventDone \/ EventsDone
      \/ Commands \/ OrderReset \/ HsRestart

Next == Hs \/ Boot \/ Environment

Spec == Init /\ [][Next]_vars

=============================================================================
