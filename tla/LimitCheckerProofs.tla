------------------------ MODULE LimitCheckerProofs -------------------------
(***************************************************************************)
(* Proofs that the Limit Checker keeps its invariants, for any number of   *)
(* watchpoints and actionpoints and any admissible definition tables.      *)
(***************************************************************************)
EXTENDS LimitCheckerHistory, TLAPS

-----------------------------------------------------------------------------
(* What one evaluation, one aging and one sample make of an entry.         *)

\* LC_EvaluateRPN answers with one of the four results, whatever the
\* equation and the watchpoints hold.
LEMMA VerdictType == \A eq, wr : EvaluateRPN(eq, wr) \in ActionResults
BY DEF EvaluateRPN, Verdict, ActionResults

LEMMA APResultType == \A ap : APResult(ap) \in ActionResults
BY VerdictType DEF APResult

LEMMA TablesType ==
  ASSUME TypeOK
  PROVE  /\ wdt \in [WPs -> WdtEntry]
         /\ adt \in [APs -> AdtEntry]
BY LimitCheckerAssumption DEF TypeOK

\* A reset entry is an entry.
LEMMA ResetType ==
  /\ ResetWP \in WrtEntry
  /\ \A e \in AdtEntry : ResetAP(e) \in ArtEntry
  /\ \A a \in ArtEntry : ClearedStats(a) \in ArtEntry
BY DEF ResetWP, WrtEntry, WatchResults, ResetAP, AdtEntry, ArtEntry, ClearedStats,
       ActionResults

LEMMA CountType == \A n \in Nat : \A b : Count(n, b) \in Nat
BY DEF Count

LEMMA LimitReachedType ==
  ASSUME NEW b \in ArtEntry, NEW e \in AdtEntry
  PROVE  LimitReached(b, e) \in ArtEntry
<1>1. \A p, n \in Nat :
        /\ [b EXCEPT !.passive = p, !.events = n] \in ArtEntry
        /\ [b EXCEPT !.state = "PASSIVE"] \in ArtEntry
        /\ [b EXCEPT !.state = "PASSIVE", !.rts = p, !.events = n] \in ArtEntry
  BY DEF ArtEntry, APStates
<1>2. b.passive \in Nat /\ b.rts \in Nat /\ b.events \in Nat
  BY DEF ArtEntry
<1>3. /\ b.passive + 1 \in Nat /\ b.rts + 1 \in Nat /\ b.events + 1 \in Nat
      /\ Count(b.events, b.passive < e.maxPassive) \in Nat
  BY <1>2, CountType
<1>4. [b EXCEPT !.passive = b.passive + 1,
                !.events = Count(b.events, b.passive < e.maxPassive)] \in ArtEntry
  BY <1>1, <1>3, Zenon
<1>5. /\ [b EXCEPT !.state = "PASSIVE"] \in ArtEntry
      /\ [b EXCEPT !.state = "PASSIVE", !.rts = b.rts + 1, !.events = b.events + 1] \in ArtEntry
  BY <1>1, <1>3, Zenon
<1> QED
  BY <1>4, <1>5, Zenon DEF LimitReached

LEMMA FailedType ==
  ASSUME NEW a \in ArtEntry, NEW e \in AdtEntry
  PROVE  Failed(a, e) \in ArtEntry
<1>1. \A c, f, p, n \in Nat :
        [a EXCEPT !.result = "FAIL", !.consecutive = c, !.fails = f,
                  !.passToFail = p, !.events = n] \in ArtEntry
  BY DEF ArtEntry, ActionResults
<1>2. a.consecutive \in Nat /\ a.fails \in Nat /\ a.passToFail \in Nat /\ a.events \in Nat
  BY DEF ArtEntry
<1>3. /\ a.consecutive + 1 \in Nat /\ a.fails + 1 \in Nat
      /\ Count(a.passToFail, a.result = "PASS") \in Nat
      /\ Count(a.events, a.result = "PASS" /\ a.passToFail < e.maxPassFail) \in Nat
  BY <1>2, CountType
<1> QED BY <1>1, <1>3, Zenon DEF Failed

\* What LC_SampleSingleAP makes of an entry is an entry again.
LEMMA SampleType ==
  ASSUME NEW a \in ArtEntry, NEW e \in AdtEntry, NEW r \in ActionResults
  PROVE  SampleSingleAP(a, e, r) \in ArtEntry
<1>1. Failed(a, e) \in ArtEntry
  BY FailedType
<1>2. LimitReached(Failed(a, e), e) \in ArtEntry
  BY <1>1, LimitReachedType
<1>3. Passed(a, e) \in ArtEntry
  BY CountType DEF Passed, ArtEntry, AdtEntry, ActionResults
<1>4. /\ [a EXCEPT !.result = "STALE", !.consecutive = 0] \in ArtEntry
      /\ [a EXCEPT !.result = "ERROR"] \in ArtEntry
  BY DEF ArtEntry, ActionResults
<1> QED
  BY <1>1, <1>2, <1>3, <1>4 DEF SampleSingleAP, ActionResults

-----------------------------------------------------------------------------
(* The fields a sample leaves behind.                                      *)

LEMMA FailedFields ==
  ASSUME NEW a \in ArtEntry, NEW e \in AdtEntry
  PROVE  LET s == Failed(a, e)
         IN /\ s.state = a.state /\ s.result = "FAIL"
            /\ s.consecutive = a.consecutive + 1
            /\ s.fails = a.fails + 1
            /\ s.passToFail = Count(a.passToFail, a.result = "PASS")
            /\ s.failToPass = a.failToPass
            /\ s.passive = a.passive /\ s.rts = a.rts
            /\ s.events = Count(a.events, a.result = "PASS" /\ a.passToFail < e.maxPassFail)
BY DEF Failed, ArtEntry

LEMMA PassedFields ==
  ASSUME NEW a \in ArtEntry, NEW e \in AdtEntry
  PROVE  LET s == Passed(a, e)
         IN /\ s.state = a.state /\ s.result = "PASS"
            /\ s.consecutive = 0 /\ s.fails = a.fails
            /\ s.passToFail = a.passToFail
            /\ s.failToPass = Count(a.failToPass, a.result = "FAIL")
            /\ s.passive = a.passive /\ s.rts = a.rts
            /\ s.events = Count(a.events, a.result = "FAIL" /\ a.failToPass < e.maxFailPass)
BY DEF Passed, ArtEntry

LEMMA LimitReachedFields ==
  ASSUME NEW b \in ArtEntry, NEW e \in AdtEntry
  PROVE  LET s == LimitReached(b, e)
         IN /\ s.result = b.result /\ s.consecutive = b.consecutive /\ s.fails = b.fails
            /\ s.passToFail = b.passToFail /\ s.failToPass = b.failToPass
            /\ s.state = IF b.state = "ACTIVE" THEN "PASSIVE" ELSE b.state
            /\ s.passive = Count(b.passive, b.state # "ACTIVE")
            /\ s.rts = Count(b.rts, b.state = "ACTIVE" /\ lcState = "ACTIVE")
            /\ s.events = Count(b.events, IF b.state = "ACTIVE" THEN lcState = "ACTIVE"
                                         ELSE b.passive < e.maxPassive)
<1>1. CASE b.state = "ACTIVE" /\ lcState = "ACTIVE"
  BY <1>1 DEF LimitReached, ArtEntry, Count
<1>2. CASE b.state = "ACTIVE" /\ lcState # "ACTIVE"
  BY <1>2 DEF LimitReached, ArtEntry, Count
<1>3. CASE b.state # "ACTIVE"
  BY <1>3 DEF LimitReached, ArtEntry, Count
<1> QED BY <1>1, <1>2, <1>3

-----------------------------------------------------------------------------
(* Type correctness.                                                       *)

LEMMA EvaluatedType ==
  ASSUME NEW arg \in SampleArguments
  PROVE  Evaluated(arg[1], arg[2]) \subseteq APs
<1>1. NumAP \in Nat \ {0}
  BY LimitCheckerAssumption
<1>2. Honoured(arg[1], arg[2]) /\ arg[1] # ALL => arg[1] \in APs /\ arg[2] \in APs
  BY <1>1 DEF SampleArguments, Honoured, APs, ALL
<1> QED BY <1>1, <1>2 DEF Evaluated, Sampled, APs

\* LC_SampleAPs keeps the results table and requests for actionpoints only.
LEMMA SampleAPsType ==
  ASSUME TypeOK, NEW aps \in SUBSET APs, SampleAPs(aps)
  PROVE  art' \in [APs -> ArtEntry] /\ requests' \subseteq APs
<1>1. ASSUME NEW ap \in APs
      PROVE  SampleSingleAP(art[ap], adt[ap], APResult(ap)) \in ArtEntry
  <2>1. art[ap] \in ArtEntry /\ adt[ap] \in AdtEntry
    BY TablesType DEF TypeOK
  <2> QED BY <2>1, SampleType, APResultType
<1>2. art' \in [APs -> ArtEntry]
  BY <1>1 DEF SampleAPs, TypeOK
<1> QED BY <1>2 DEF SampleAPs

\* The aging loop keeps the watchpoint results.
LEMMA AgedType ==
  ASSUME TypeOK, NEW w \in WPs
  PROVE  AgedWP(w) \in WrtEntry
BY DEF AgedWP, TypeOK, WrtEntry, WatchResults

LEMMA ReadType ==
  ASSUME TypeOK, NEW w \in WPs, NEW reading \in Readings
  PROVE  ProcessWP(w, reading) \in WrtEntry
<1>1. wdt[w].age \in Nat
  BY TablesType DEF WdtEntry
<1> QED BY <1>1 DEF ProcessWP, WrtEntry, WatchResults, Readings

\* Every action of LC keeps every type.
LEMMA TypeStep ==
  ASSUME HTypeOK, [HNext]_hvars
  PROVE  HTypeOK'
<1> USE DEF HTypeOK, TypeOK
<1>1. CASE HMonitoredMsg
  <2>1. PICK mid \in Mids : \E reading \in [WPsOf(mid) -> Readings] : HCheckMsg(mid, reading)
    BY <1>1 DEF HMonitoredMsg
  <2>2. PICK reading \in [WPsOf(mid) -> Readings] : HCheckMsg(mid, reading)
    BY <2>1
  <2>3. wrt' \in [WPs -> WrtEntry]
    BY <2>2, ReadType DEF HCheckMsg, CheckMsgForWPs
  <2>4. age' \in [WPs -> Nat]
    BY <2>2 DEF HCheckMsg
  <2> QED BY <2>2, <2>3, <2>4 DEF HCheckMsg, CheckMsgForWPs, NoRequest
<1>2. CASE HSampleRequest
  <2>1. PICK arg \in SampleArguments, updateAge \in BOOLEAN :
          HSampleAPReq(arg[1], arg[2], updateAge)
    BY <1>2 DEF HSampleRequest
  <2>2. art' \in [APs -> ArtEntry] /\ requests' \subseteq APs
    BY <2>1, SampleAPsType, EvaluatedType DEF HSampleAPReq, SampleAPReq
  <2>3. wrt' \in [WPs -> WrtEntry]
    BY <2>1, AgedType DEF HSampleAPReq, SampleAPReq
  <2>4. streak' \in [APs -> Nat] /\ age' \in [WPs -> Nat] /\ fired' \subseteq APs
    BY <2>1, <2>2 DEF HSampleAPReq
  <2> QED BY <2>1, <2>2, <2>3, <2>4 DEF HSampleAPReq, SampleAPReq
<1>3. CASE HSetAPState
  <2>1. PICK n \in APs \cup {NumAP, ALL}, new \in APStates \ {"NOT_USED"} : HArm(n, new)
    BY <1>3 DEF HSetAPState
  <2>2. \A ap \in APs : [art[ap] EXCEPT !.state = new] \in ArtEntry
    BY DEF ArtEntry
  <2> QED BY <2>1, <2>2 DEF HArm, SetAPState, NoRequest
<1>4. CASE HOtherCommand
  <2>1. \A ap \in APs : [art[ap] EXCEPT !.state = "PERMOFF"] \in ArtEntry
    BY DEF ArtEntry, APStates
  <2> QED BY <1>4, <2>1 DEF HOtherCommand, SetLCState, SetAPPermOff, OtherCommand, NoRequest
<1>5. CASE HResetAPStats
  BY <1>5, ResetType DEF HResetAPStats, ResetAPStats, NoRequest
<1>6. CASE HPerformMaintenance
  <2>1. wdt' \in Wdts /\ wrt' \in [WPs -> WrtEntry] /\ age' \in [WPs -> Nat]
    BY <1>6, ResetType DEF HPerformMaintenance, LoadWdt
  <2>2. adt' \in Adts
    BY <1>6 DEF HPerformMaintenance, LoadAdt
  <2>3. art' \in [APs -> ArtEntry] /\ streak' \in [APs -> Nat] /\ fired' \subseteq APs
    <3>1. adt' \in [APs -> AdtEntry]
      BY <2>2, LimitCheckerAssumption
    <3> QED BY <1>6, <3>1, ResetType DEF HPerformMaintenance, LoadAdt
  <2> QED BY <1>6, <2>1, <2>2, <2>3 DEF HPerformMaintenance, NoRequest
<1>7. CASE UNCHANGED hvars
  BY <1>7 DEF hvars, vars
<1> QED BY <1>1, <1>2, <1>3, <1>4, <1>5, <1>6, <1>7 DEF HNext

\* Every table entry keeps its type under every action of LC.
THEOREM TypeCorrect == HSpec => []HTypeOK
<1>1. HInit => HTypeOK
  <2> SUFFICES ASSUME HInit PROVE HTypeOK
    OBVIOUS
  <2>1. /\ wdt \in Wdts /\ adt \in Adts /\ lcState \in LCStates
        /\ adt \in [APs -> AdtEntry]
    BY LimitCheckerAssumption DEF HInit, Init
  <2>2. wrt \in [WPs -> WrtEntry] /\ art \in [APs -> ArtEntry] /\ requests \subseteq APs
    BY <2>1, ResetType DEF HInit, Init
  <2>3. fired \subseteq APs /\ streak \in [APs -> Nat] /\ age \in [WPs -> Nat]
    BY DEF HInit
  <2> QED BY <2>1, <2>2, <2>3 DEF HTypeOK, TypeOK
<1>2. HTypeOK /\ [HNext]_hvars => HTypeOK'
  BY TypeStep
<1> QED BY <1>1, <1>2, PTL DEF HSpec

-----------------------------------------------------------------------------
(* One request per arming.                                                 *)

\* A sample changes the state of an actionpoint only from ACTIVE to PASSIVE,
\* and only when the failures have reached MaxFailsBeforeRTS.
LEMMA SampledState ==
  ASSUME NEW a \in ArtEntry, NEW e \in AdtEntry, NEW r \in ActionResults
  PROVE  SampleSingleAP(a, e, r).state =
           IF r = "FAIL" /\ a.consecutive + 1 >= e.maxFails /\ a.state = "ACTIVE"
           THEN "PASSIVE" ELSE a.state
<1>1. Failed(a, e) \in ArtEntry /\ Failed(a, e).state = a.state
  BY FailedType, FailedFields
<1>2. LimitReached(Failed(a, e), e).state = IF a.state = "ACTIVE" THEN "PASSIVE" ELSE a.state
  BY <1>1, LimitReachedFields
<1>3. Passed(a, e).state = a.state
  BY PassedFields
<1>4. CASE r = "FAIL"
  BY <1>1, <1>2, <1>4 DEF SampleSingleAP
<1>5. CASE r = "PASS"
  BY <1>3, <1>5 DEF SampleSingleAP
<1>6. CASE r \in {"STALE", "ERROR"}
  BY <1>6 DEF SampleSingleAP, ArtEntry
<1> QED BY <1>4, <1>5, <1>6 DEF ActionResults

\* Who requests an RTS was armed and is disarmed; nobody becomes armed.
LEMMA SampleAPsStates ==
  ASSUME TypeOK, NEW aps \in SUBSET APs, SampleAPs(aps)
  PROVE  /\ \A ap \in APs : art'[ap].state = "ACTIVE" => art[ap].state = "ACTIVE"
         /\ \A ap \in requests' : art[ap].state = "ACTIVE" /\ art'[ap].state = "PASSIVE"
<1> SUFFICES ASSUME NEW ap \in APs
             PROVE  /\ art'[ap].state = "ACTIVE" => art[ap].state = "ACTIVE"
                    /\ ap \in requests' => /\ art[ap].state = "ACTIVE"
                                          /\ art'[ap].state = "PASSIVE"
  BY DEF SampleAPs
<1>1. art[ap] \in ArtEntry /\ adt[ap] \in AdtEntry /\ APResult(ap) \in ActionResults
  BY TablesType, APResultType DEF TypeOK
<1>2. CASE ap \in aps
  BY <1>1, <1>2, SampledState DEF SampleAPs, RequestsRTS
<1>3. CASE ap \notin aps
  BY <1>3 DEF SampleAPs
<1> QED BY <1>2, <1>3

\* The other steps leave every actionpoint that was fired disarmed.
LEMMA FiredDisarmedStep ==
  ASSUME HTypeOK, FiredDisarmed, [HNext]_hvars
  PROVE  \/ FiredDisarmed' /\ requests' \cap fired = {}
         \/ UNCHANGED hvars
<1> USE DEF FiredDisarmed
<1>1. CASE HMonitoredMsg
  BY <1>1 DEF HMonitoredMsg, HCheckMsg, CheckMsgForWPs, NoRequest
<1>2. CASE HSampleRequest
  <2>1. PICK arg \in SampleArguments, updateAge \in BOOLEAN :
          HSampleAPReq(arg[1], arg[2], updateAge)
    BY <1>2 DEF HSampleRequest
  <2>2. SampleAPs(Evaluated(arg[1], arg[2])) /\ fired' = fired \cup requests'
    BY <2>1 DEF HSampleAPReq, SampleAPReq
  <2>3. Evaluated(arg[1], arg[2]) \in SUBSET APs
    BY EvaluatedType
  <2> QED BY <2>2, <2>3, SampleAPsStates DEF HTypeOK
<1>3. CASE HSetAPState
  <2>1. PICK n \in APs \cup {NumAP, ALL}, new \in APStates \ {"NOT_USED"} : HArm(n, new)
    BY <1>3 DEF HSetAPState
  <2> USE <2>1 DEF HArm, SetAPState, HTypeOK, TypeOK
  <2>2. CASE new = "ACTIVE"
    BY <2>2 DEF NoRequest
  <2>3. CASE new # "ACTIVE"
    <3>1. \A ap \in APs : [art[ap] EXCEPT !.state = new].state = new
      BY DEF ArtEntry
    <3> QED BY <2>3, <3>1 DEF NoRequest
  <2> QED BY <2>2, <2>3
<1>4. CASE HOtherCommand
  <2>1. \A ap \in APs : [art[ap] EXCEPT !.state = "PERMOFF"].state = "PERMOFF"
    BY DEF HTypeOK, TypeOK, ArtEntry
  <2> QED BY <1>4, <2>1 DEF HOtherCommand, SetLCState, SetAPPermOff, OtherCommand, NoRequest,
                           HTypeOK, TypeOK
<1>5. CASE HResetAPStats
  <2>1. \A ap \in APs : ClearedStats(art[ap]).state = art[ap].state
    BY DEF HTypeOK, TypeOK, ArtEntry, ClearedStats
  <2> QED BY <1>5, <2>1 DEF HResetAPStats, ResetAPStats, NoRequest, HTypeOK, TypeOK
<1>6. CASE HPerformMaintenance
  BY <1>6 DEF HPerformMaintenance, LoadAdt, NoRequest
<1> QED BY <1>1, <1>2, <1>3, <1>4, <1>5, <1>6 DEF HNext

\* An actionpoint whose RTS was requested stays disarmed until it is armed
\* by a command or a table load.
THEOREM FiredStayDisarmed == HSpec => []FiredDisarmed
<1>1. HInit => FiredDisarmed
  BY DEF HInit, FiredDisarmed
<1>2. HTypeOK /\ FiredDisarmed /\ [HNext]_hvars => FiredDisarmed'
  BY FiredDisarmedStep DEF hvars, vars, FiredDisarmed
<1> QED BY <1>1, <1>2, TypeCorrect, PTL DEF HSpec

\* LC_SampleSingleAP requests an RTS at most once per arming.
THEOREM RequestedOnce == HSpec => OneRequestPerArming
<1>1. HTypeOK /\ FiredDisarmed /\ [HNext]_hvars => [requests' \cap fired = {}]_hvars
  BY FiredDisarmedStep
<1> QED BY <1>1, TypeCorrect, FiredStayDisarmed, PTL DEF HSpec, OneRequestPerArming

-----------------------------------------------------------------------------
(* The age of watchpoint results.                                          *)

LEMMA AgedFields ==
  ASSUME NEW w
  PROVE  /\ wrt[w].countdown = 1 => AgedWP(w) = ResetWP
         /\ wrt[w].countdown # 1 =>
              /\ AgedWP(w).result = wrt[w].result
              /\ AgedWP(w).countdown =
                   IF wrt[w].countdown > 0 THEN wrt[w].countdown - 1 ELSE 0
BY DEF AgedWP, ResetWP

\* A message restarts the countdown and the age together, the aging loop
\* moves both by one, and a result whose countdown ends becomes STALE.
LEMMA FreshStep ==
  ASSUME HTypeOK, ResultsAreFresh, NoLeftoverCountdown, [HNext]_hvars
  PROVE  ResultsAreFresh' /\ NoLeftoverCountdown'
<1> USE DEF ResultsAreFresh, NoLeftoverCountdown, Unknown
<1>1. CASE HMonitoredMsg
  <2>1. PICK mid \in Mids : \E reading \in [WPsOf(mid) -> Readings] : HCheckMsg(mid, reading)
    BY <1>1 DEF HMonitoredMsg
  <2>2. PICK reading \in [WPsOf(mid) -> Readings] : HCheckMsg(mid, reading)
    BY <2>1
  <2> SUFFICES ASSUME NEW w \in WPs
               PROVE  /\ wrt'[w].result \in {"TRUE", "FALSE"} /\ wdt'[w].age > 0 =>
                           /\ age'[w] < wdt'[w].age
                           /\ wrt'[w].countdown = wdt'[w].age - age'[w]
                      /\ Unknown(wrt'[w].result) => wrt'[w].countdown = 0
    OBVIOUS
  <2>3. wdt' = wdt /\ wdt[w].age \in Nat
    BY <2>2, TablesType DEF HCheckMsg, CheckMsgForWPs, HTypeOK, WdtEntry
  <2>4. CASE w \in WPsOf(mid) /\ lcState # "DISABLED"
    <3>1. wrt'[w] = ProcessWP(w, reading[w]) /\ age'[w] = 0
      BY <2>2, <2>4 DEF HCheckMsg, CheckMsgForWPs
    <3>2. reading[w] \in Readings
      BY <2>4
    <3> QED BY <2>3, <3>1, <3>2 DEF ProcessWP, Readings
  <2>5. CASE ~(w \in WPsOf(mid) /\ lcState # "DISABLED")
    <3>1. wrt'[w] = wrt[w] /\ age'[w] = age[w]
      BY <2>2, <2>5 DEF HCheckMsg, CheckMsgForWPs
    <3> QED BY <2>3, <3>1
  <2> QED BY <2>4, <2>5
<1>2. CASE HSampleRequest
  <2>1. PICK arg \in SampleArguments, updateAge \in BOOLEAN :
          HSampleAPReq(arg[1], arg[2], updateAge)
    BY <1>2 DEF HSampleRequest
  <2>2. CASE Honoured(arg[1], arg[2]) /\ updateAge
    <3>1. /\ wrt' = [w \in WPs |-> AgedWP(w)]
          /\ age' = [w \in WPs |-> age[w] + 1]
          /\ wdt' = wdt
      BY <2>1, <2>2 DEF HSampleAPReq, SampleAPReq
    <3>2. ASSUME NEW w \in WPs
          PROVE  /\ wrt[w] \in WrtEntry /\ age[w] \in Nat /\ wdt[w].age \in Nat
                 /\ wrt'[w] = AgedWP(w) /\ age'[w] = age[w] + 1
      BY <3>1, TablesType DEF HTypeOK, TypeOK, WdtEntry
    <3> SUFFICES ASSUME NEW w \in WPs
                 PROVE  /\ wrt'[w].result \in {"TRUE", "FALSE"} /\ wdt[w].age > 0 =>
                             /\ age'[w] < wdt[w].age
                             /\ wrt'[w].countdown = wdt[w].age - age'[w]
                        /\ Unknown(wrt'[w].result) => wrt'[w].countdown = 0
      BY <3>1
    <3>3. wrt[w].countdown \in Nat /\ age[w] \in Nat /\ wdt[w].age \in Nat
      BY <3>2 DEF WrtEntry
    <3>4. CASE wrt[w].countdown = 1
      <4>1. wrt'[w].result = "STALE" /\ wrt'[w].countdown = 0
        BY <3>2, <3>4, AgedFields DEF ResetWP
      <4> QED BY <4>1
    <3>5. CASE wrt[w].countdown # 1
      <4>1. /\ wrt'[w].result = wrt[w].result
            /\ wrt'[w].countdown = IF wrt[w].countdown > 0 THEN wrt[w].countdown - 1 ELSE 0
        BY <3>2, <3>5, AgedFields
      <4> QED BY <3>2, <3>3, <3>5, <4>1
    <3> QED BY <3>4, <3>5
  <2>3. CASE ~(Honoured(arg[1], arg[2]) /\ updateAge)
    BY <2>1, <2>3 DEF HSampleAPReq, SampleAPReq
  <2> QED BY <2>2, <2>3
<1>3. CASE HSetAPState \/ HResetAPStats \/ HOtherCommand
  BY <1>3 DEF HSetAPState, HArm, SetAPState, HResetAPStats, ResetAPStats, HOtherCommand,
              SetLCState, SetAPPermOff, OtherCommand
<1>4. CASE HPerformMaintenance
  BY <1>4 DEF HPerformMaintenance, LoadWdt, ResetWP
<1>5. CASE UNCHANGED hvars
  BY <1>5 DEF hvars, vars
<1> QED BY <1>1, <1>2, <1>3, <1>4, <1>5 DEF HNext

\* No decision is taken on a result older than ResultAgeWhenStale allows,
\* and no result goes stale early.
THEOREM ResultsStayFresh == HSpec => [](ResultsAreFresh /\ NoLeftoverCountdown)
<1>1. HInit => ResultsAreFresh /\ NoLeftoverCountdown
  BY DEF HInit, Init, ResetWP, ResultsAreFresh, NoLeftoverCountdown
<1>2. HTypeOK /\ ResultsAreFresh /\ NoLeftoverCountdown /\ [HNext]_hvars
        => ResultsAreFresh' /\ NoLeftoverCountdown'
  BY FreshStep
<1> QED BY <1>1, <1>2, TypeCorrect, PTL DEF HSpec

-----------------------------------------------------------------------------
(* The counters of the results table.                                      *)

\* What one step can make of an entry and of the failures seen in a row.
LEMMA EntryStep ==
  ASSUME HTypeOK, [HNext]_hvars, NEW ap \in APs
  PROVE  \/ art'[ap] = art[ap] /\ adt' = adt /\ streak'[ap] = streak[ap]
         \/ /\ art'[ap] = SampleSingleAP(art[ap], adt[ap], APResult(ap)) /\ adt' = adt
            /\ streak'[ap] = IF APResult(ap) = "FAIL" THEN streak[ap] + 1 ELSE 0
         \/ /\ \E s \in APStates : art'[ap] = [art[ap] EXCEPT !.state = s]
            /\ adt' = adt /\ streak'[ap] = streak[ap]
         \/ art'[ap] = ClearedStats(art[ap]) /\ adt' = adt /\ streak'[ap] = 0
         \/ art'[ap] = ResetAP(adt'[ap]) /\ streak'[ap] = 0
<1>1. CASE HMonitoredMsg
  BY <1>1 DEF HMonitoredMsg, HCheckMsg, CheckMsgForWPs
<1>2. CASE HSampleRequest
  BY <1>2 DEF HSampleRequest, HSampleAPReq, SampleAPReq, SampleAPs
<1>3. CASE HSetAPState
  BY <1>3 DEF HSetAPState, HArm, SetAPState
<1>4. CASE HOtherCommand
  <2>1. "PERMOFF" \in APStates
    BY DEF APStates
  <2> QED BY <1>4, <2>1 DEF HOtherCommand, SetLCState, SetAPPermOff, OtherCommand
<1>5. CASE HResetAPStats
  BY <1>5 DEF HResetAPStats, ResetAPStats
<1>6. CASE HPerformMaintenance
  BY <1>6 DEF HPerformMaintenance, LoadAdt
<1>7. CASE UNCHANGED hvars
  BY <1>7 DEF hvars, vars
<1> QED BY <1>1, <1>2, <1>3, <1>4, <1>5, <1>6, <1>7 DEF HNext

LEMMA SampledConsecutive ==
  ASSUME NEW a \in ArtEntry, NEW e \in AdtEntry, NEW r \in ActionResults
  PROVE  SampleSingleAP(a, e, r).consecutive =
           CASE r = "FAIL" -> a.consecutive + 1
             [] r = "ERROR" -> a.consecutive
             [] OTHER -> 0
<1>1. /\ Failed(a, e) \in ArtEntry
      /\ Failed(a, e).consecutive = a.consecutive + 1
      /\ LimitReached(Failed(a, e), e).consecutive = a.consecutive + 1
  BY FailedType, FailedFields, LimitReachedFields
<1>2. Passed(a, e).consecutive = 0
  BY PassedFields
<1>3. CASE r = "FAIL"
  BY <1>1, <1>3 DEF SampleSingleAP
<1>4. CASE r = "PASS"
  BY <1>2, <1>4 DEF SampleSingleAP
<1>5. CASE r \in {"STALE", "ERROR"}
  BY <1>5 DEF SampleSingleAP, ArtEntry
<1> QED BY <1>3, <1>4, <1>5 DEF ActionResults

\* LC counts at least the failures there were: it never waits longer than
\* MaxFailsBeforeRTS failures in a row.
THEOREM StreakIsCounted == HSpec => []StreakCounted
<1>1. HInit => StreakCounted
  BY DEF HInit, Init, ResetAP, StreakCounted
<1>2. HTypeOK /\ StreakCounted /\ [HNext]_hvars => StreakCounted'
  <2> SUFFICES ASSUME HTypeOK, StreakCounted, [HNext]_hvars, NEW ap \in APs
               PROVE  streak'[ap] <= art'[ap].consecutive
    BY DEF StreakCounted
  <2>1. /\ art[ap] \in ArtEntry /\ adt[ap] \in AdtEntry /\ APResult(ap) \in ActionResults
        /\ streak[ap] \in Nat /\ art[ap].consecutive \in Nat
        /\ streak[ap] <= art[ap].consecutive
    BY TablesType, APResultType DEF HTypeOK, TypeOK, ArtEntry, StreakCounted
  <2>2. CASE art'[ap] = art[ap] /\ adt' = adt /\ streak'[ap] = streak[ap]
    BY <2>1, <2>2
  <2>3. CASE /\ art'[ap] = SampleSingleAP(art[ap], adt[ap], APResult(ap))
             /\ streak'[ap] = IF APResult(ap) = "FAIL" THEN streak[ap] + 1 ELSE 0
    BY <2>1, <2>3, SampledConsecutive DEF ActionResults
  <2>4. CASE /\ \E s \in APStates : art'[ap] = [art[ap] EXCEPT !.state = s]
             /\ streak'[ap] = streak[ap]
    BY <2>1, <2>4 DEF ArtEntry
  <2>5. CASE art'[ap] = ClearedStats(art[ap]) /\ streak'[ap] = 0
    BY <2>1, <2>5 DEF ClearedStats, ArtEntry
  <2>6. CASE art'[ap] = ResetAP(adt'[ap]) /\ streak'[ap] = 0
    BY <2>6 DEF ResetAP
  <2> QED BY EntryStep, <2>2, <2>3, <2>4, <2>5, <2>6
<1> QED BY <1>1, <1>2, TypeCorrect, PTL DEF HSpec

\* The sample that brings the failures in a row to MaxFailsBeforeRTS
\* requests the RTS itself.
THEOREM ResponseInTime == HSpec => NoLateResponse
<1>1. HTypeOK /\ StreakCounted /\ [HNext]_hvars =>
        [\A ap \in APs :
           /\ lcState = "ACTIVE" /\ art[ap].state = "ACTIVE"
           /\ streak'[ap] = streak[ap] + 1 /\ streak'[ap] >= adt[ap].maxFails
           => ap \in requests']_hvars
  <2> SUFFICES ASSUME HTypeOK, StreakCounted, HNext, NEW ap \in APs,
                      lcState = "ACTIVE", art[ap].state = "ACTIVE",
                      streak'[ap] = streak[ap] + 1, streak'[ap] >= adt[ap].maxFails
               PROVE  ap \in requests'
    OBVIOUS
  <2>1. /\ streak[ap] \in Nat /\ art[ap].consecutive \in Nat /\ adt[ap].maxFails \in Nat
        /\ streak[ap] <= art[ap].consecutive
    BY TablesType DEF HTypeOK, TypeOK, ArtEntry, AdtEntry, StreakCounted
  <2>2. CASE HSampleRequest
    <3>1. PICK arg \in SampleArguments, updateAge \in BOOLEAN :
            HSampleAPReq(arg[1], arg[2], updateAge)
      BY <2>2 DEF HSampleRequest
    <3>2. ap \in Evaluated(arg[1], arg[2]) /\ APResult(ap) = "FAIL"
      BY <2>1, <3>1 DEF HSampleAPReq
    <3>3. RequestsRTS(ap)
      BY <2>1, <3>2 DEF RequestsRTS
    <3> QED BY <3>1, <3>2, <3>3 DEF HSampleAPReq, SampleAPReq, SampleAPs
  <2>3. CASE HMonitoredMsg
    BY <2>1, <2>3 DEF HMonitoredMsg, HCheckMsg
  <2>4. CASE HSetAPState \/ HOtherCommand
    BY <2>1, <2>4 DEF HSetAPState, HArm, HOtherCommand
  <2>5. CASE HResetAPStats
    BY <2>1, <2>5 DEF HResetAPStats
  <2>6. CASE HPerformMaintenance
    BY <2>1, <2>6 DEF HPerformMaintenance
  <2> QED BY <2>2, <2>3, <2>4, <2>5, <2>6 DEF HNext
<1> QED BY <1>1, TypeCorrect, StreakIsCounted, PTL DEF HSpec, NoLateResponse

LEMMA CountedFields ==
  \A a \in ArtEntry : /\ a.consecutive \in Nat /\ a.fails \in Nat
                      /\ a.passToFail \in Nat /\ a.failToPass \in Nat
                      /\ a.passive \in Nat /\ a.rts \in Nat /\ a.events \in Nat
BY DEF ArtEntry

\* Counting one failure, passing and reaching the limit keep the statistics
\* in agreement, and each event accounted for.
LEMMA SampleAgrees ==
  ASSUME NEW a \in ArtEntry, NEW e \in AdtEntry, NEW r \in ActionResults, Agree(a)
  PROVE  Agree(SampleSingleAP(a, e, r))
<1> USE DEF Agree
<1>1. CASE r = "FAIL"
  <2> DEFINE b == Failed(a, e)
             s == LimitReached(b, e)
  <2>1. b \in ArtEntry
    BY FailedType
  <2>2. Agree(b) /\ b.passive + b.rts < b.fails
    BY FailedFields, CountedFields DEF Count
  <2>3. Agree(s)
    <3>1. /\ s.result = b.result /\ s.consecutive = b.consecutive /\ s.fails = b.fails
          /\ s.passToFail = b.passToFail /\ s.failToPass = b.failToPass
          /\ s.passive = Count(b.passive, b.state # "ACTIVE")
          /\ s.rts = Count(b.rts, b.state = "ACTIVE" /\ lcState = "ACTIVE")
      BY <2>1, LimitReachedFields
    <3>2. b.passive \in Nat /\ b.rts \in Nat /\ b.fails \in Nat
      BY <2>1, CountedFields
    <3> HIDE DEF b, s
    <3>3. s.passive + s.rts <= s.fails
      BY <2>2, <3>1, <3>2 DEF Count
    <3> QED BY <2>2, <3>1, <3>3
  <2> HIDE DEF Agree
  <2> QED BY <1>1, <2>2, <2>3 DEF SampleSingleAP
<1>2. CASE r = "PASS"
  <2>1. Agree(Passed(a, e))
    BY PassedFields, CountedFields DEF Count
  <2> HIDE DEF Agree
  <2> QED BY <1>2, <2>1 DEF SampleSingleAP
<1>3. CASE r \in {"STALE", "ERROR"}
  BY <1>3, CountedFields DEF SampleSingleAP, ArtEntry
<1> QED BY <1>1, <1>2, <1>3 DEF ActionResults

LEMMA SampleAccounted ==
  ASSUME NEW a \in ArtEntry, NEW e \in AdtEntry, NEW r \in ActionResults, Accounted(a, e)
  PROVE  Accounted(SampleSingleAP(a, e, r), e)
<1>0. e.maxPassFail \in Nat /\ e.maxFailPass \in Nat /\ e.maxPassive \in Nat
  BY DEF AdtEntry
<1> USE DEF Accounted
<1>1. CASE r = "FAIL"
  <2> DEFINE b == Failed(a, e)
             s == LimitReached(b, e)
  <2>1. b \in ArtEntry
    BY FailedType
  <2>2. Accounted(b, e)
    BY <1>0, FailedFields, CountedFields DEF Count, Quota
  <2>3. Accounted(s, e)
    <3>1. /\ s.passToFail = b.passToFail /\ s.failToPass = b.failToPass
          /\ s.passive = Count(b.passive, b.state # "ACTIVE")
          /\ s.rts = Count(b.rts, b.state = "ACTIVE" /\ lcState = "ACTIVE")
          /\ s.events = Count(b.events, IF b.state = "ACTIVE" THEN lcState = "ACTIVE"
                                       ELSE b.passive < e.maxPassive)
      BY <2>1, LimitReachedFields
    <3>2. /\ b.passive \in Nat /\ b.rts \in Nat /\ b.events \in Nat
          /\ b.passToFail \in Nat /\ b.failToPass \in Nat
      BY <2>1, CountedFields
    <3> HIDE DEF b, s
    <3> QED BY <1>0, <2>2, <3>1, <3>2 DEF Count, Quota
  <2> HIDE DEF Accounted
  <2> QED BY <1>1, <2>2, <2>3 DEF SampleSingleAP
<1>2. CASE r = "PASS"
  <2>1. Accounted(Passed(a, e), e)
    BY <1>0, PassedFields, CountedFields DEF Count, Quota
  <2> HIDE DEF Accounted
  <2> QED BY <1>2, <2>1 DEF SampleSingleAP
<1>3. CASE r \in {"STALE", "ERROR"}
  BY <1>3 DEF SampleSingleAP, ArtEntry
<1> QED BY <1>1, <1>2, <1>3 DEF ActionResults

LEMMA ClearedAgrees ==
  ASSUME NEW a \in ArtEntry, NEW e \in AdtEntry
  PROVE  Agree(ClearedStats(a)) /\ Accounted(ClearedStats(a), e)
<1>1. LET s == ClearedStats(a)
      IN /\ s.consecutive = 0 /\ s.fails = 0 /\ s.passToFail = 0 /\ s.failToPass = 0
         /\ s.passive = 0 /\ s.rts = 0 /\ s.events = 0
  BY DEF ClearedStats, ArtEntry
<1>2. e.maxPassFail \in Nat /\ e.maxFailPass \in Nat /\ e.maxPassive \in Nat
  BY DEF AdtEntry
<1> HIDE DEF ClearedStats
<1> QED BY <1>1, <1>2 DEF Agree, Accounted, Quota

\* The statistics of every actionpoint stay in agreement with each other,
\* and its events with its statistics.
THEOREM CountersAgree == HSpec => [](StatisticsAgree /\ EventsAccounted)
<1>1. HInit => StatisticsAgree /\ EventsAccounted
  <2> SUFFICES ASSUME HInit, NEW ap \in APs
               PROVE  Agree(art[ap]) /\ Accounted(art[ap], adt[ap])
    BY DEF StatisticsAgree, EventsAccounted
  <2>1. art[ap] = ResetAP(adt[ap]) /\ adt[ap] \in AdtEntry
    BY LimitCheckerAssumption DEF HInit, Init
  <2> QED BY <2>1 DEF ResetAP, Agree, Accounted, Quota, AdtEntry
<1>2. HTypeOK /\ StatisticsAgree /\ EventsAccounted /\ [HNext]_hvars
        => StatisticsAgree' /\ EventsAccounted'
  <2> SUFFICES ASSUME HTypeOK, StatisticsAgree, EventsAccounted, [HNext]_hvars, NEW ap \in APs
               PROVE  Agree(art'[ap]) /\ Accounted(art'[ap], adt'[ap])
    BY DEF StatisticsAgree, EventsAccounted
  <2>1. /\ art[ap] \in ArtEntry /\ adt[ap] \in AdtEntry /\ APResult(ap) \in ActionResults
        /\ Agree(art[ap]) /\ Accounted(art[ap], adt[ap])
    BY TablesType, APResultType DEF HTypeOK, TypeOK, StatisticsAgree, EventsAccounted
  <2>2. adt'[ap] \in AdtEntry
    <3>1. adt' \in Adts
      BY TypeStep DEF HTypeOK, TypeOK
    <3> QED BY <3>1, LimitCheckerAssumption
  <2>3. CASE art'[ap] = art[ap] /\ adt' = adt
    BY <2>1, <2>3
  <2>4. CASE art'[ap] = SampleSingleAP(art[ap], adt[ap], APResult(ap)) /\ adt' = adt
    BY <2>1, <2>4, SampleAgrees, SampleAccounted
  <2>5. CASE (\E s \in APStates : art'[ap] = [art[ap] EXCEPT !.state = s]) /\ adt' = adt
    BY <2>1, <2>5 DEF ArtEntry, Agree, Accounted
  <2>6. CASE art'[ap] = ClearedStats(art[ap]) /\ adt' = adt
    BY <2>1, <2>6, ClearedAgrees
  <2>7. CASE art'[ap] = ResetAP(adt'[ap])
    BY <2>2, <2>7 DEF ResetAP, AdtEntry, Agree, Accounted, Quota
  <2> QED BY EntryStep, <2>3, <2>4, <2>5, <2>6, <2>7
<1> QED BY <1>1, <1>2, TypeCorrect, PTL DEF HSpec

\* What is permanently off or unused keeps its state and its result until a
\* table is loaded.
THEOREM OffStaysOff == HSpec => OffUntilTableLoad
<1>1. HTypeOK /\ [HNext]_hvars =>
        [\A ap \in APs :
           art[ap].state \in {"PERMOFF", "NOT_USED"} =>
             \/ art'[ap].state = art[ap].state /\ art'[ap].result = art[ap].result
             \/ HPerformMaintenance]_hvars
  <2> SUFFICES ASSUME HTypeOK, HNext, NEW ap \in APs,
                      art[ap].state \in {"PERMOFF", "NOT_USED"}
               PROVE  \/ art'[ap].state = art[ap].state /\ art'[ap].result = art[ap].result
                      \/ HPerformMaintenance
    OBVIOUS
  <2> USE DEF HTypeOK, TypeOK, Settable
  <2>1. CASE HMonitoredMsg
    BY <2>1 DEF HMonitoredMsg, HCheckMsg, CheckMsgForWPs
  <2>2. CASE HSampleRequest
    BY <2>2 DEF HSampleRequest, HSampleAPReq, SampleAPReq, SampleAPs, Evaluated, Sampled
  <2>3. CASE HSetAPState
    BY <2>3 DEF HSetAPState, HArm, SetAPState
  <2>4. CASE HOtherCommand
    BY <2>4 DEF HOtherCommand, SetLCState, SetAPPermOff, OtherCommand
  <2>5. CASE HResetAPStats
    BY <2>5 DEF HResetAPStats, ResetAPStats, ClearedStats, ArtEntry
  <2> QED BY <2>1, <2>2, <2>3, <2>4, <2>5 DEF HNext
<1> QED BY <1>1, TypeCorrect, PTL DEF HSpec, OffUntilTableLoad

\* A sample moves an actionpoint from ACTIVE to PASSIVE or not at all, and
\* then either its RTS is requested in the same step or LC as a whole is
\* passive; a disabled LC evaluates nothing.
THEOREM DisarmedOnlyOnRequest == HSpec => SamplingDisarmsOnlyOnRequest
<1>1. HTypeOK /\ [HNext]_hvars =>
        [\A ap \in APs : art'[ap].state # art[ap].state /\ HSampleRequest =>
           /\ art[ap].state = "ACTIVE" /\ art'[ap].state = "PASSIVE"
           /\ ap \in requests' \/ lcState = "PASSIVE"]_hvars
  <2> SUFFICES ASSUME HTypeOK, NEW ap \in APs, HSampleRequest,
                      art'[ap].state # art[ap].state
               PROVE  /\ art[ap].state = "ACTIVE" /\ art'[ap].state = "PASSIVE"
                      /\ ap \in requests' \/ lcState = "PASSIVE"
    OBVIOUS
  <2>1. PICK arg \in SampleArguments, updateAge \in BOOLEAN :
          HSampleAPReq(arg[1], arg[2], updateAge)
    BY DEF HSampleRequest
  <2> DEFINE aps == Evaluated(arg[1], arg[2])
  <2>2. SampleAPs(aps)
    BY <2>1 DEF HSampleAPReq, SampleAPReq
  <2>3. ap \in aps
    BY <2>2 DEF SampleAPs
  <2>4. lcState \in {"ACTIVE", "PASSIVE"}
    BY <2>3 DEF Evaluated, Honoured, HTypeOK, TypeOK, LCStates
  <2>5. art[ap] \in ArtEntry /\ adt[ap] \in AdtEntry /\ APResult(ap) \in ActionResults
    BY TablesType, APResultType DEF HTypeOK, TypeOK
  <2>6. /\ APResult(ap) = "FAIL" /\ art[ap].consecutive + 1 >= adt[ap].maxFails
        /\ art[ap].state = "ACTIVE" /\ art'[ap].state = "PASSIVE"
    BY <2>2, <2>3, <2>5, SampledState DEF SampleAPs
  <2>7. lcState = "ACTIVE" => ap \in requests'
    BY <2>2, <2>3, <2>6 DEF SampleAPs, RequestsRTS
  <2> QED BY <2>4, <2>6, <2>7
<1> QED BY <1>1, TypeCorrect, PTL DEF HSpec, SamplingDisarmsOnlyOnRequest

=============================================================================
