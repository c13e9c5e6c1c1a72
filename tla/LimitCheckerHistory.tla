------------------------ MODULE LimitCheckerHistory ------------------------
(***************************************************************************)
(* The Limit Checker with a memory of what it does not itself record, and  *)
(* the properties that relate its tables to that memory.                   *)
(***************************************************************************)
EXTENDS LimitChecker

VARIABLES
  fired,      \* actionpoints whose RTS was requested since they were last armed
  streak,     \* per actionpoint: failures since its last result other than FAIL
  age         \* per watchpoint: aging sample requests since its last comparison

hvars == <<vars, fired, streak, age>>

HInit == /\ Init
         /\ fired = {}
         /\ streak = [ap \in APs |-> 0]
         /\ age = [w \in WPs |-> 0]

HCheckMsg(mid, reading) ==
  /\ CheckMsgForWPs(mid, reading)
  /\ age' = [w \in WPs |-> IF w \in WPsOf(mid) /\ lcState # "DISABLED"
                           THEN 0 ELSE age[w]]
  /\ UNCHANGED <<fired, streak>>

HMonitoredMsg ==
  \E mid \in Mids : \E reading \in [WPsOf(mid) -> Readings] : HCheckMsg(mid, reading)

HSampleAPReq(start, end, updateAge) ==
  /\ SampleAPReq(start, end, updateAge)
  /\ fired' = fired \cup requests'
  /\ streak' = [ap \in APs |->
                  IF ap \notin Evaluated(start, end) THEN streak[ap]
                  ELSE IF APResult(ap) = "FAIL" THEN streak[ap] + 1 ELSE 0]
  /\ age' = IF Honoured(start, end) /\ updateAge
            THEN [w \in WPs |-> age[w] + 1] ELSE age

HSampleRequest ==
  \E arg \in SampleArguments, updateAge \in BOOLEAN :
    HSampleAPReq(arg[1], arg[2], updateAge)

\* Commanding an actionpoint to ACTIVE arms it.
HArm(n, new) ==
  /\ SetAPState(n, new)
  /\ fired' = IF new = "ACTIVE" THEN {ap \in fired : n \notin {ap, ALL}} ELSE fired
  /\ UNCHANGED <<streak, age>>

HSetAPState ==
  \E n \in APs \cup {NumAP, ALL}, new \in APStates \ {"NOT_USED"} : HArm(n, new)

HOtherCommand ==
  /\ \/ \E new \in LCStates \cup {"FROM_CDS"} : SetLCState(new)
     \/ \E n \in APs \cup {NumAP, ALL} : SetAPPermOff(n)
     \/ OtherCommand
  /\ UNCHANGED <<fired, streak, age>>

HResetAPStats ==
  \E n \in APs \cup {NumAP, ALL} :
    /\ ResetAPStats(n)
    /\ streak' = [ap \in APs |-> IF n \in {ap, ALL} THEN 0 ELSE streak[ap]]
    /\ UNCHANGED <<fired, age>>

\* Loading a table starts its memory afresh with its results.
HPerformMaintenance ==
  /\ \/ LoadWdt /\ age' = [w \in WPs |-> 0]
     \/ UNCHANGED <<wdt, wrt, age>>
  /\ \/ LoadAdt /\ fired' = {} /\ streak' = [ap \in APs |-> 0]
     \/ UNCHANGED <<adt, art, fired, streak>>
  /\ NoRequest
  /\ UNCHANGED lcState

HNext == \/ HMonitoredMsg \/ HSampleRequest \/ HSetAPState \/ HOtherCommand
         \/ HResetAPStats \/ HPerformMaintenance

HSpec == HInit /\ [][HNext]_hvars

-----------------------------------------------------------------------------
(* Type invariant.                                                         *)

\* Every table entry has its type, whatever is loaded, sampled or commanded
\* (lc_tblstruct.h).
HTypeOK == /\ TypeOK
           /\ fired \subseteq APs
           /\ streak \in [APs -> Nat]
           /\ age \in [WPs -> Nat]

-----------------------------------------------------------------------------
(* Safety.                                                                 *)

\* An actionpoint whose RTS was requested is not ACTIVE again before a
\* command or a table load arms it.
FiredDisarmed == \A ap \in fired : art[ap].state # "ACTIVE"

\* One RTS request per arming: however long an actionpoint keeps failing
\* and however the application changes state, LC_SampleSingleAP asks for
\* its RTS at most once until it is armed again.
OneRequestPerArming ==
  [][requests' \cap fired = {}]_hvars

\* A TRUE or FALSE result that can go stale was compared less than
\* ResultAgeWhenStale aging requests ago, and the countdown holds exactly
\* the requests that are left.
ResultsAreFresh ==
  \A w \in WPs :
    wrt[w].result \in {"TRUE", "FALSE"} /\ wdt[w].age > 0 =>
      /\ age[w] < wdt[w].age
      /\ wrt[w].countdown = wdt[w].age - age[w]

\* A stale or erroneous watchpoint has no countdown left over that would
\* later turn a newer result stale too early.
NoLeftoverCountdown ==
  \A w \in WPs : Unknown(wrt[w].result) => wrt[w].countdown = 0

Quota(n, max) == IF n < max THEN n ELSE max

Accounted(a, e) == a.events = a.rts + Quota(a.passToFail, e.maxPassFail)
                                    + Quota(a.failToPass, e.maxFailPass)
                                    + Quota(a.passive, e.maxPassive)

\* Every event an actionpoint sent is accounted for: one per RTS request,
\* and one per change or passive failure until that kind's quota is used up.
EventsAccounted == \A ap \in APs : Accounted(art[ap], adt[ap])

Agree(a) == /\ a.consecutive <= a.fails
            /\ a.passToFail <= a.fails
            /\ a.passive + a.rts <= a.fails
            /\ a.failToPass + (IF a.result = "FAIL" THEN 1 ELSE 0) <= a.fails + 1

\* The statistics agree with each other after any sequence of samples,
\* resets and state changes: no response, transition or passive failure is
\* counted without a counted failure, and at most one recovery more than
\* the failures (one that a reset of the statistics fell into).
StatisticsAgree == \A ap \in APs : Agree(art[ap])

\* The table never counts fewer consecutive failures than there were.
StreakCounted == \A ap \in APs : streak[ap] <= art[ap].consecutive

\* A response is never late: when a sample brings the failures in a row of
\* an active actionpoint to MaxFailsBeforeRTS while LC is active, that very
\* sample requests the RTS.
NoLateResponse ==
  [][\A ap \in APs :
       /\ lcState = "ACTIVE" /\ art[ap].state = "ACTIVE"
       /\ streak'[ap] = streak[ap] + 1 /\ streak'[ap] >= adt[ap].maxFails
       => ap \in requests']_hvars

\* Sampling disarms an actionpoint only together with its RTS request, or
\* because LC as a whole is passive; it never arms, disables or enables one.
SamplingDisarmsOnlyOnRequest ==
  [][\A ap \in APs : art'[ap].state # art[ap].state /\ HSampleRequest =>
         /\ art[ap].state = "ACTIVE" /\ art'[ap].state = "PASSIVE"
         /\ ap \in requests' \/ lcState = "PASSIVE"]_hvars

\* An actionpoint that is permanently off or unused keeps its state and its
\* last result until an ADT is loaded (cfs_lc.dox: "it can only be changed
\* with a new ADT table load").
OffUntilTableLoad ==
  [][\A ap \in APs :
       art[ap].state \in {"PERMOFF", "NOT_USED"} =>
         \/ art'[ap].state = art[ap].state /\ art'[ap].result = art[ap].result
         \/ HPerformMaintenance]_hvars

=============================================================================
