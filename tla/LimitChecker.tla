---------------------------- MODULE LimitChecker ----------------------------
(***************************************************************************)
(* The Limit Checker application (apps/lc/fsw/src).                        *)
(*                                                                         *)
(* Telemetry messages update the results of the watchpoints (WRT); sample  *)
(* requests evaluate actionpoints over those results (ART) and request     *)
(* the actionpoint's RTS from the Stored Command application when it has   *)
(* failed often enough; ground commands move the application and the       *)
(* actionpoints between their states; housekeeping requests and pipe       *)
(* timeouts apply pending loads of the definition tables (WDT and ADT).    *)
(*                                                                         *)
(* The application is one task that takes one message at a time from its   *)
(* pipe, so each handler is one atomic action.  Abstracted: a monitored    *)
(* value is what its comparison yields; the transition snapshots and the   *)
(* statistics of the WRT and the housekeeping counters, which no decision  *)
(* reads, are left out, so a rejected command changes nothing.             *)
(*                                                                         *)
(* A definition named Faulty... is a seeded fault: the definition after it *)
(* with a mistake that the properties have to notice.                      *)
(***************************************************************************)
EXTENDS LcRpn

CONSTANTS
  NumAP,            \* LC_MAX_ACTIONPOINTS
  Wdts,             \* the Watchpoint Definition Tables that may be loaded
  Adts,             \* the Actionpoint Definition Tables that may be loaded
  Mids,             \* the message IDs LC may find in its pipe
  StartState        \* LC_STATE_POWER_ON_RESET

APs == 0 .. NumAP - 1
ALL == NumAP + 1           \* LC_ALL_ACTIONPOINTS; NumAP is an invalid number
LCStates == {"ACTIVE", "PASSIVE", "DISABLED"}
APStates == {"ACTIVE", "PASSIVE", "DISABLED", "PERMOFF", "NOT_USED"}
NoMid == "not used"        \* DataType LC_DATA_WATCH_NOT_USED

WdtEntry == [mid : Mids \cup {NoMid}, age : Nat]
AdtEntry == [default : APStates, rpn : Seq(Nat), maxFails : Nat,
             maxPassFail : Nat, maxFailPass : Nat, maxPassive : Nat]

\* LC_ValidateADT: what the table services let into the ADT.
ValidAdtEntry(e) ==
  e.default = "NOT_USED" \/ (e.maxFails > 0 /\ ValidateRPN(e.rpn))

ASSUME LimitCheckerAssumption ==
  /\ NumAP \in Nat \ {0}
  /\ StartState \in LCStates
  /\ NoMid \notin Mids
  /\ Wdts # {} /\ Wdts \subseteq [WPs -> WdtEntry]
  /\ Adts # {} /\ Adts \subseteq [APs -> AdtEntry]
  /\ \A adt \in Adts : \A ap \in APs : ValidAdtEntry(adt[ap])

VARIABLES
  lcState,          \* LC_AppData.CurrentLCState
  wdt, adt,         \* the tables in use
  wrt,              \* per watchpoint: WatchResult, CountdownToStale
  art,              \* per actionpoint: LC_ARTEntry_t
  requests          \* the actionpoints whose RTS the last step requested

vars == <<lcState, wdt, adt, wrt, art, requests>>

WrtEntry == [result : WatchResults, countdown : Nat]
ArtEntry == [state : APStates, result : ActionResults, consecutive : Nat,
             fails : Nat, passToFail : Nat, failToPass : Nat,
             passive : Nat, rts : Nat, events : Nat]

-----------------------------------------------------------------------------
(* Resetting results.                                                      *)

\* LC_ResetResultsWP without a statistics command.
ResetWP == [result |-> "STALE", countdown |-> 0]

\* LC_ResetResultsAP for one actionpoint: a command clears the statistics
\* only, a table load restores the default state as well.
ClearedStats(a) ==
  [a EXCEPT !.consecutive = 0, !.fails = 0, !.passToFail = 0, !.failToPass = 0,
            !.passive = 0, !.rts = 0, !.events = 0]

ResetAP(e) ==
  [state |-> e.default, result |-> "STALE", consecutive |-> 0, fails |-> 0,
   passToFail |-> 0, failToPass |-> 0, passive |-> 0, rts |-> 0, events |-> 0]

\* LC_TableInit with nothing restored from the Critical Data Store.
Init == /\ lcState = StartState
        /\ wdt \in Wdts
        /\ adt \in Adts
        /\ wrt = [w \in WPs |-> ResetWP]
        /\ art = [ap \in APs |-> ResetAP(adt[ap])]
        /\ requests = {}

\* Only LC_SampleSingleAP requests anything.
NoRequest == requests' = {}

-----------------------------------------------------------------------------
(* Watchpoints.                                                            *)

\* What a message makes of a watchpoint.  "ERROR" is a float that is not a
\* number, and data beyond the end of the message or of no valid type:
\* LC_WPOffsetValid and LC_GetSizedWPData leave the same result behind.
Readings == {"TRUE", "FALSE", "ERROR"}

\* Fault: a FALSE comparison does not restart the countdown.
FaultyProcessWP(w, reading) ==
  [result    |-> reading,
   countdown |-> CASE reading = "ERROR" -> 0
                   [] reading = "TRUE"  -> wdt[w].age
                   [] reading = "FALSE" -> wrt[w].countdown]

\* LC_ProcessWP: a comparison that was made is good for ResultAgeWhenStale
\* sample requests, an error is not aged at all.
ProcessWP(w, reading) ==
  [result    |-> reading,
   countdown |-> IF reading = "ERROR" THEN 0 ELSE wdt[w].age]

WPsOf(mid) == {w \in WPs : wdt[w].mid = mid}

\* LC_CheckMsgForWPs: a monitored message arrives.  A message ID the table
\* no longer watches only yields an event.
CheckMsgForWPs(mid, reading) ==
  /\ wrt' = IF lcState = "DISABLED" THEN wrt
            ELSE [w \in WPs |-> IF w \in WPsOf(mid)
                                THEN ProcessWP(w, reading[w]) ELSE wrt[w]]
  /\ NoRequest
  /\ UNCHANGED <<lcState, wdt, adt, art>>

MonitoredMsg ==
  \E mid \in Mids : \E reading \in [WPsOf(mid) -> Readings] :
    CheckMsgForWPs(mid, reading)

-----------------------------------------------------------------------------
(* Actionpoints.                                                           *)

APResult(ap) ==
  EvaluateRPN(adt[ap].rpn, [w \in WPs |-> wrt[w].result])

\* A counter n that counts one more occurrence when there is one.
Count(n, occurs) == IF occurs THEN n + 1 ELSE n

\* The branch of LC_SampleSingleAP for a failure that reaches
\* MaxFailsBeforeRTS, on the entry a already counting that failure.
LimitReached(a, e) ==
  CASE a.state = "ACTIVE" /\ lcState = "ACTIVE" ->
         [a EXCEPT !.state = "PASSIVE", !.rts = @ + 1, !.events = @ + 1]
    [] a.state = "ACTIVE" /\ lcState # "ACTIVE" ->
         [a EXCEPT !.state = "PASSIVE"]
    [] OTHER ->
         [a EXCEPT !.passive = @ + 1, !.events = Count(@, a.passive < e.maxPassive)]

\* Fault: one change too many is reported.
FaultyQuota(a, e) ==
  LET changed == a.result = "PASS"
  IN [a EXCEPT !.result = "FAIL", !.consecutive = @ + 1, !.fails = @ + 1,
               !.passToFail = Count(@, changed),
               !.events = Count(@, changed /\ a.passToFail <= e.maxPassFail)]

\* A failure is counted, and a change from PASS reported while the quota
\* of such events lasts.
Failed(a, e) ==
  LET changed == a.result = "PASS"
  IN [a EXCEPT !.result = "FAIL", !.consecutive = @ + 1, !.fails = @ + 1,
               !.passToFail = Count(@, changed),
               !.events = Count(@, changed /\ a.passToFail < e.maxPassFail)]

Passed(a, e) ==
  LET changed == a.result = "FAIL"
  IN [a EXCEPT !.result = "PASS", !.consecutive = 0,
               !.failToPass = Count(@, changed),
               !.events = Count(@, changed /\ a.failToPass < e.maxFailPass)]

\* LC_SampleSingleAP: the new entry of an actionpoint that evaluated to r.
\* An error leaves the count of consecutive failures alone.
SampleSingleAP(a, e, r) ==
  CASE r = "FAIL" -> IF a.consecutive + 1 >= e.maxFails
                     THEN LimitReached(Failed(a, e), e)
                     ELSE Failed(a, e)
    [] r = "PASS"  -> Passed(a, e)
    [] r = "STALE" -> [a EXCEPT !.result = "STALE", !.consecutive = 0]
    [] r = "ERROR" -> [a EXCEPT !.result = "ERROR"]

\* Fault: one failure more than MaxFailsBeforeRTS is waited for.
FaultyLateRequest(ap) ==
  /\ lcState = "ACTIVE"
  /\ art[ap].state = "ACTIVE"
  /\ APResult(ap) = "FAIL"
  /\ art[ap].consecutive >= adt[ap].maxFails

\* Fault: a passive actionpoint requests its RTS as well.
FaultyRequestsRTS(ap) ==
  /\ lcState = "ACTIVE"
  /\ APResult(ap) = "FAIL"
  /\ art[ap].consecutive + 1 >= adt[ap].maxFails

\* LC_ExecuteRTS is called for these of the sampled actionpoints.
RequestsRTS(ap) ==
  /\ lcState = "ACTIVE"
  /\ art[ap].state = "ACTIVE"
  /\ APResult(ap) = "FAIL"
  /\ art[ap].consecutive + 1 >= adt[ap].maxFails

\* Fault: permanently off is treated like disabled.
FaultySettable(ap) == art[ap].state # "NOT_USED"

Settable(ap) == art[ap].state \notin {"NOT_USED", "PERMOFF"}

\* The actionpoints LC_SampleAPs evaluates: those in use in first..last,
\* unless the first of the range is unused or permanently off.
Sampled(first, last) ==
  {ap \in first .. last :
     Settable(first) /\ art[ap].state \in {"ACTIVE", "PASSIVE"}}

\* LC_SampleAPs for the actionpoints of the set.  Actionpoints do not read
\* each other, so the loop is one update; the requests leave in ascending
\* order.
SampleAPs(aps) ==
  /\ art' = [ap \in APs |-> IF ap \in aps
                            THEN SampleSingleAP(art[ap], adt[ap], APResult(ap))
                            ELSE art[ap]]
  /\ requests' = {ap \in aps : RequestsRTS(ap)}

\* Fault: a countdown that has run out is decremented again.
FaultyAgedWP(w) ==
  [result    |-> IF wrt[w].countdown = 1 THEN "STALE" ELSE wrt[w].result,
   countdown |-> wrt[w].countdown - 1]

\* The aging loop of LC_SampleAPReq.
AgedWP(w) ==
  [result    |-> IF wrt[w].countdown = 1 THEN "STALE" ELSE wrt[w].result,
   countdown |-> IF wrt[w].countdown > 0 THEN wrt[w].countdown - 1 ELSE 0]

\* A sample request names all actionpoints or a range of valid numbers.
Honoured(start, end) ==
  /\ lcState # "DISABLED"
  /\ (start = ALL /\ end = ALL) \/ (start <= end /\ end < NumAP)

\* The actionpoints a request evaluates.
Evaluated(start, end) ==
  CASE ~Honoured(start, end)                -> {}
    [] Honoured(start, end) /\ start = ALL -> Sampled(0, NumAP - 1)
    [] Honoured(start, end) /\ start # ALL -> Sampled(start, end)

\* LC_SampleAPReq.  A disabled application ignores the request, and with
\* it the aging of the watchpoints.
SampleAPReq(start, end, updateAge) ==
  /\ SampleAPs(Evaluated(start, end))
  /\ wrt' = IF Honoured(start, end) /\ updateAge
            THEN [w \in WPs |-> AgedWP(w)] ELSE wrt
  /\ UNCHANGED <<lcState, wdt, adt>>

\* All, every range and its reverse, and a range past the last number.
SampleArguments == (APs \X APs) \cup {<<ALL, ALL>>, <<0, NumAP>>}

SampleRequest ==
  \E arg \in SampleArguments, updateAge \in BOOLEAN :
    SampleAPReq(arg[1], arg[2], updateAge)

-----------------------------------------------------------------------------
(* Ground commands.                                                        *)

\* LC_SetLCStateCmd; "FROM_CDS" stands for every value it refuses.
SetLCState(new) ==
  /\ lcState' = IF new \in LCStates THEN new ELSE lcState
  /\ NoRequest
  /\ UNCHANGED <<wdt, adt, wrt, art>>

\* LC_SetAPStateCmd: one actionpoint or all of them, those unused and
\* permanently off excepted.
SetAPState(n, new) ==
  /\ art' = [ap \in APs |->
              IF /\ n \in {ap, ALL} /\ Settable(ap)
                 /\ new \in {"ACTIVE", "PASSIVE", "DISABLED"}
              THEN [art[ap] EXCEPT !.state = new] ELSE art[ap]]
  /\ NoRequest
  /\ UNCHANGED <<lcState, wdt, adt, wrt>>

\* LC_SetAPPermOffCmd: one actionpoint, and only from DISABLED.
SetAPPermOff(n) ==
  /\ art' = [ap \in APs |-> IF n = ap /\ art[ap].state = "DISABLED"
                           THEN [art[ap] EXCEPT !.state = "PERMOFF"] ELSE art[ap]]
  /\ NoRequest
  /\ UNCHANGED <<lcState, wdt, adt, wrt>>

\* LC_ResetAPStatsCmd.
ResetAPStats(n) ==
  /\ art' = [ap \in APs |-> IF n \in {ap, ALL} THEN ClearedStats(art[ap])
                                             ELSE art[ap]]
  /\ NoRequest
  /\ UNCHANGED <<lcState, wdt, adt, wrt>>

\* Commands that move housekeeping counters or watchpoint statistics only
\* (LC_NoopCmd, LC_ResetCountersCmd, LC_ResetWPStatsCmd), and those with a
\* bad code or length.
OtherCommand == NoRequest /\ UNCHANGED <<lcState, wdt, adt, wrt, art>>

Command ==
  \/ \E new \in LCStates \cup {"FROM_CDS"} : SetLCState(new)
  \/ \E n \in APs \cup {NumAP, ALL}, new \in APStates \ {"NOT_USED"} : SetAPState(n, new)
  \/ \E n \in APs \cup {NumAP, ALL} : SetAPPermOff(n) \/ ResetAPStats(n)
  \/ OtherCommand

-----------------------------------------------------------------------------
(* Table management: LC_PerformMaintenance, after a housekeeping request   *)
(* or when the pipe stays empty for the timeout.                           *)

\* LC_ManageTables: each table may have been reloaded, even with the
\* contents it had; its results then start afresh.
LoadWdt == wdt' \in Wdts /\ wrt' = [w \in WPs |-> ResetWP]

LoadAdt == adt' \in Adts /\ art' = [ap \in APs |-> ResetAP(adt'[ap])]

PerformMaintenance ==
  /\ LoadWdt \/ UNCHANGED <<wdt, wrt>>
  /\ LoadAdt \/ UNCHANGED <<adt, art>>
  /\ NoRequest
  /\ UNCHANGED lcState

-----------------------------------------------------------------------------
Next == MonitoredMsg \/ SampleRequest \/ Command \/ PerformMaintenance

Spec == Init /\ [][Next]_vars

-----------------------------------------------------------------------------
TypeOK == /\ lcState \in LCStates
          /\ wdt \in Wdts
          /\ adt \in Adts
          /\ wrt \in [WPs -> WrtEntry]
          /\ art \in [APs -> ArtEntry]
          /\ requests \subseteq APs

=============================================================================
