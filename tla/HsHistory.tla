----------------------------- MODULE HsHistory -----------------------------
(***************************************************************************)
(* Health and Safety with a record of what it did: how long the monitored  *)
(* applications were silent, which resets it ordered, when it sent which   *)
(* message, and whether the software bus refused to end a subscription.    *)
(***************************************************************************)
EXTENDS HsMonitor

VARIABLES
  since,            \* per entry that counts down, what its application did
                    \* since the last look,
  silent,           \* looks in a row without a run of it or a replacement,
  unproved,         \* and looks in a row without a run that could be seen
  ordered,          \* resets ordered since the count was last lost or reset
  rest,             \* per message, cycles until it may be sent again
  refused           \* a disable of the event monitor has failed

hvars == <<vars, since, silent, unproved, ordered, rest, refused>>

Entries == 1 .. NumApp

HInit == /\ Init
         /\ since = [m \in Entries |-> "nothing"]
         /\ silent = [m \in Entries |-> 0] /\ unproved = [m \in Entries |-> 0]
         /\ ordered = 0
         /\ rest = [x \in Messages |-> 0]
         /\ refused = FALSE

HsStarts == Boot \/ HsRestart
NewTable(kind) == pending[kind] # Nothing /\ pending'[kind] = Nothing
Armed == HsStarts \/ NewTable("AMT") \/ (appMon = "DISABLED" /\ appMon' = "ENABLED")

\* HS is done with entry m in this step.
Looks(m) == Looked(m) /\ (idx' = m + 1 \/ pc' = "counted")

Replaced(a) == \/ apps[a].exists # apps'[a].exists
               \/ apps[a].request # "none" /\ apps'[a] = Running
RunsNow(a) == apps'[a].count > apps[a].count

SinceNow(m) ==
  IF Armed \/ countdown'[m] = 0 \/ Looks(m) THEN "nothing"
  ELSE IF Replaced(AMT[m].app) THEN "replaced"
  ELSE IF since[m] = "nothing" /\ RunsNow(AMT[m].app) THEN "run"
  ELSE since[m]

Capped(n, m) == IF n > AMT[m].cycles THEN n ELSE n + 1

History ==
  /\ since' = [m \in Entries |-> SinceNow(m)]
  /\ silent' = [m \in Entries |->
       IF Armed \/ countdown'[m] = 0 THEN 0
       ELSE IF ~ Looks(m) THEN silent[m]
       ELSE IF since[m] = "nothing" THEN Capped(silent[m], m) ELSE 0]
  /\ unproved' = [m \in Entries |->
       IF Armed \/ countdown'[m] = 0 THEN 0
       ELSE IF ~ Looks(m) THEN unproved[m]
       ELSE IF since[m] = "run" THEN 0 ELSE Capped(unproved[m], m)]
  /\ ordered' = IF pc = "counted" /\ watchdog' = "DISABLED" THEN ordered + 1
                ELSE IF HsStarts /\ ~ (saved # Nothing /\ cdsState = "ENABLED"
                                         /\ cds' = saved /\ saved' = saved
                                         /\ nextBoot # "POWERON")
                  THEN 0
                ELSE IF pc = "commands" /\ cds'.performed = 0 THEN 0
                ELSE ordered
  /\ rest' = [x \in Messages |->
       IF HsStarts \/ NewTable("MAT") THEN 0
       ELSE IF pc = "wait" /\ pc' \in {"apps", "events"}
         THEN (IF rest[x] = 0 THEN 0 ELSE rest[x] - 1)
       ELSE IF cooldown'[x] > cooldown[x] THEN MAT[x].cooldown ELSE rest[x]]
  /\ refused' = /\ eventMon' = "ENABLED"
                /\ refused \/ (eventMon = "ENABLED" /\ subscribed' # subscribed)

HNext == Next /\ History

HSpec == HInit /\ [][HNext]_hvars

-----------------------------------------------------------------------------
(* Properties.                                                             *)

\* Every entry that counts down is reported as enabled and no other one, so
\* the ground sees which applications are still watched (the bits and the
\* countdowns are changed in different places of hs_monitors.c and hs_cmds.c).
EnablesTellTheTruth == enables = {m \in Entries : countdown[m] # 0}

\* No reset is ordered that the stored count does not hold, however HS and
\* the processor restart in between, and none beyond the maximum.
ResetsWithinLimit ==
  /\ ordered <= cds.performed
  /\ watchdog = "DISABLED" => ordered <= cds.max

\* An application that stands still is acted on in time: an entry that still
\* counts has not seen more silent looks than its cycles.
SilenceIsActedOn ==
  AMT # NoTable => \A m \in Entries : countdown[m] # 0 => silent[m] <= AMT[m].cycles

\* HS acts on an application only after as many looks in a row between which
\* it did not run, or was replaced, as the table says.
NoHealthyAppActedOn ==
  [][\A m \in Entries : Looks(m) /\ countdown'[m] = 0 =>
       since[m] # "run" /\ unproved[m] + 1 >= AMT[m].cycles]_hvars

\* A message action is not repeated before its cooldown has passed, whichever
\* monitor asks for it, unless a table load or a restart forgets it.
CooldownKept ==
  [][\A x \in Messages :
       cooldown'[x] > cooldown[x] => rest[x] = 0]_hvars

\* An event monitor that reports itself enabled receives the events, unless
\* the software bus has refused to end one of the subscriptions.
NeverBlindUnasked == eventMon = "ENABLED" /\ ~ refused => subscribed = Formats

=============================================================================
