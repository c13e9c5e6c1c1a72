----------------------------- MODULE RtsProofs -----------------------------
(***************************************************************************)
(* Proofs about the Relative Time Processor, for any number of sequences,  *)
(* any tables and any number of turns in a wakeup.                         *)
(***************************************************************************)
EXTENDS RtsHistory, FiniteSetTheorems, WellFoundedInduction, TLAPS

-----------------------------------------------------------------------------
(* Facts about the operators.                                              *)

\* A set of naturals has a least element.
LEMMA LeastNatural ==
  ASSUME NEW T, T \subseteq Nat, T # {}
  PROVE  \E x \in T : \A y \in T : x <= y
<1>1. \E x \in T : \A y \in T : <<y, x>> \notin OpToRel(<, Nat)
  BY NatLessThanWellFounded, WFMin, Zenon
<1>2. ASSUME NEW x \in T, NEW y \in T, <<y, x>> \notin OpToRel(<, Nat)
      PROVE  x <= y
  <2>1. y < x => <<y, x>> \in OpToRel(<, Nat)
    BY DEF OpToRel
  <2>2. x \in Nat /\ y \in Nat
    OBVIOUS
  <2>3. ~(y < x)
    BY <1>2, <2>1
  <2> QED BY <2>2, <2>3
<1> QED BY <1>1, <1>2

\* A wait that fits the counter is added to the wakeup count, and what does
\* not fit wraps to a count again.
LEMMA AbsWakeup ==
  ASSUME wakeups \in Counts, NEW w \in Counts
  PROVE  /\ ComputeAbsWakeup(w) \in Counts
         /\ wakeups + w <= MaxWakeup => ComputeAbsWakeup(w) = wakeups + w
<1>1. MaxWakeup \in Nat
  BY RtsEngineAssumption
<1> DEFINE M == MaxWakeup + 1
<1>2. M \in Nat \ {0} /\ wakeups + w \in Nat
  BY <1>1 DEF Counts
<1>3. (wakeups + w) % M \in 0 .. M - 1
  BY <1>2
<1>4. wakeups + w < M => (wakeups + w) % M = wakeups + w
  BY <1>2
<1> QED BY <1>1, <1>3, <1>4 DEF ComputeAbsWakeup, Counts

\* The commands of a table are commands.
LEMMA TableType ==
  ASSUME NEW t \in RtsTables \cup {<<>>}, NEW k \in 1 .. Len(t)
  PROVE  t[k] \in RtsCommand /\ t[k].wait \in Counts
<1>1. RtsTables \subseteq Seq(RtsCommand)
  BY RtsEngineAssumption
<1>2. t \in Seq(RtsCommand)
  BY <1>1
<1>3. t[k] \in RtsCommand
  BY <1>2
<1> QED BY <1>3 DEF RtsCommand

\* The least and the greatest count.
LEMMA CountBounds == 0 \in Counts /\ MaxWakeup \in Counts
<1>1. MaxWakeup \in Nat
  BY RtsEngineAssumption
<1> QED BY <1>1 DEF Counts

\* Starting, stopping and loading leave a well-formed entry.
LEMMA StartedType ==
  ASSUME HTypeOK, NEW r \in RTSs
  PROVE  /\ Started(r) \in RtsInfo
         /\ Started(r).status = "EXECUTING" /\ Started(r).next = 1
<1> DEFINE w == IF table[r] = <<>> THEN 0 ELSE table[r][1].wait
<1>1. table[r] \in RtsTables \cup {<<>>} /\ wakeups \in Counts /\ rts[r] \in RtsInfo
  BY DEF HTypeOK
<1>2. table[r] # <<>> => 1 \in 1 .. Len(table[r])
  BY <1>1, RtsEngineAssumption
<1>3. w \in Counts
  BY <1>1, <1>2, TableType, CountBounds
<1>4. ComputeAbsWakeup(w) \in Counts
  BY <1>1, <1>3, AbsWakeup
<1>5. Started(r) = [rts[r] EXCEPT !.status = "EXECUTING", !.next = 1,
                                  !.target = ComputeAbsWakeup(w)]
  BY DEF Started
<1> HIDE DEF w
<1> DEFINE c == ComputeAbsWakeup(w)
<1>6. "EXECUTING" \in RtsStatus /\ 1 \in Nat \ {0}
  BY DEF RtsStatus
<1>7. Started(r) = [rts[r] EXCEPT !.status = "EXECUTING", !.next = 1, !.target = c]
  BY <1>5
<1> HIDE DEF c
<1> QED BY <1>1, <1>4, <1>6, <1>7 DEF RtsInfo, c

LEMMA KilledType ==
  ASSUME NEW i \in RtsInfo
  PROVE  Killed(i) \in RtsInfo /\ Killed(i).status = "LOADED"
<1>1. "LOADED" \in RtsStatus
  BY DEF RtsStatus
<1> QED BY <1>1, CountBounds DEF Killed, RtsInfo

LEMMA LoadedType ==
  ASSUME NEW i \in RtsInfo
  PROVE  Loaded(i) \in RtsInfo /\ Loaded(i).status = "LOADED"
<1>1. "LOADED" \in RtsStatus /\ 1 \in Nat \ {0}
  BY DEF RtsStatus
<1> QED BY <1>1, CountBounds DEF Loaded, RtsInfo

\* A sequence goes on with its next command or ends.
LEMMA AdvancedType ==
  ASSUME HTypeOK, NEW r \in RTSs
  PROVE  /\ Advanced(r) \in RtsInfo
         /\ rts[r].next < Len(table[r]) =>
              /\ Advanced(r).next = rts[r].next + 1
              /\ Advanced(r).status = rts[r].status
              /\ Advanced(r).target = ComputeAbsWakeup(table[r][rts[r].next + 1].wait)
              /\ rts[r].next + 1 \in 1 .. Len(table[r])
         /\ ~(rts[r].next < Len(table[r])) => Advanced(r).status = "LOADED"
<1>1. /\ table[r] \in RtsTables \cup {<<>>} /\ wakeups \in Counts
      /\ rts[r] \in RtsInfo /\ rts[r].next \in Nat \ {0}
  BY DEF HTypeOK, RtsInfo
<1>2. Len(table[r]) \in Nat
  BY <1>1, RtsEngineAssumption
<1>3. CASE rts[r].next < Len(table[r])
  <2>1. rts[r].next + 1 \in 1 .. Len(table[r])
    BY <1>1, <1>2, <1>3
  <2> DEFINE c == ComputeAbsWakeup(table[r][rts[r].next + 1].wait)
  <2>2. c \in Counts
    BY <1>1, <2>1, TableType, AbsWakeup
  <2>3. Advanced(r) = [rts[r] EXCEPT !.next = rts[r].next + 1, !.target = c]
    BY <1>3 DEF Advanced
  <2> HIDE DEF c
  <2>4. Advanced(r) \in RtsInfo /\ Advanced(r).next = rts[r].next + 1
        /\ Advanced(r).status = rts[r].status /\ Advanced(r).target = c
    <3>1. rts[r].next + 1 \in Nat \ {0}
      BY <1>1
    <3>2. \A n \in Nat \ {0} :
            LET i == [rts[r] EXCEPT !.next = n, !.target = c]
            IN /\ i \in RtsInfo /\ i.next = n /\ i.status = rts[r].status
               /\ i.target = c
      BY <1>1, <2>2 DEF RtsInfo
    <3> QED BY <2>3, <3>1, <3>2
  <2> QED BY <1>3, <2>1, <2>4 DEF c
<1>4. CASE ~(rts[r].next < Len(table[r]))
  BY <1>1, <1>4, KilledType DEF Advanced
<1> QED BY <1>3, <1>4

-----------------------------------------------------------------------------
(* Type correctness.                                                       *)

\* What a ground command, whichever it is, comes down to.
LEMMA CommandCases ==
  ASSUME HTypeOK, Command
  PROVE  /\ ~inWakeup
         /\ \/ \E rs \in SUBSET RTSs : (\A r \in rs : Startable(r)) /\ Start(rs)
            \/ \E rs \in SUBSET Executing : Stop(rs)
            \/ \E r \in RTSs, t \in RtsTables : ManageRtsTable(r, t)
            \/ \E r, q \in RTSs, flag \in BOOLEAN : SetDisabled(r, q, flag)
<1>1. PICK r \in RTSs :
        \/ StartRts(r)
        \/ \E t \in RtsTables : ManageRtsTable(r, t)
        \/ \E q \in RTSs : \/ StartRtsGrp(r, q)
                           \/ StopRtsGrp(r, q)
                           \/ \E flag \in BOOLEAN : SetDisabled(r, q, flag)
  BY DEF Command
<1>2. CASE StartRts(r)
  <2>1. {r} \in SUBSET RTSs /\ (\A q \in {r} : Startable(q)) /\ Start({r}) /\ ~inWakeup
    BY <1>1, <1>2 DEF StartRts
  <2> QED BY <2>1, Zenon
<1>3. CASE \E t \in RtsTables : ManageRtsTable(r, t)
  BY <1>1, <1>3 DEF ManageRtsTable
<1>4. ASSUME NEW q \in RTSs, StartRtsGrp(r, q)
      PROVE  /\ ~inWakeup
             /\ \E rs \in SUBSET RTSs : (\A p \in rs : Startable(p)) /\ Start(rs)
  <2> DEFINE rs == {p \in r .. q : Startable(p)}
  <2>1. rs \in SUBSET RTSs
    BY <1>1, <1>4, RtsEngineAssumption DEF RTSs
  <2>2. Start(rs) /\ ~inWakeup
    BY <1>4 DEF StartRtsGrp
  <2>3. \A p \in rs : Startable(p)
    OBVIOUS
  <2> QED BY <2>1, <2>2, <2>3, Zenon
<1>5. ASSUME NEW q \in RTSs, StopRtsGrp(r, q)
      PROVE  ~inWakeup /\ \E rs \in SUBSET Executing : Stop(rs)
  <2>1. Executing \cap r .. q \in SUBSET Executing
    OBVIOUS
  <2> QED BY <1>5, <2>1, Zenon DEF StopRtsGrp
<1>6. ASSUME NEW q \in RTSs, NEW flag \in BOOLEAN, SetDisabled(r, q, flag)
      PROVE  ~inWakeup
  BY <1>6 DEF SetDisabled
<1> QED BY <1>1, <1>2, <1>3, <1>4, <1>5, <1>6, Zenon

\* What is remembered of a sequence is one of the four values.
LEMMA RememberValues ==
  ASSUME NEW r, NEW a, NEW b, NEW c, NEW d
  PROVE  Remember(r, a, b, c, d) \in {a, b, c, d}
<1>1. CASE rts'[r].status # "EXECUTING"
  BY <1>1, Zenon DEF Remember
<1>2. CASE rts'[r].status = "EXECUTING" /\ Starts(r)
  BY <1>2, Zenon DEF Remember
<1>3. CASE rts'[r].status = "EXECUTING" /\ ~Starts(r) /\ Sends(r)
  BY <1>3, Zenon DEF Remember
<1>4. CASE rts'[r].status = "EXECUTING" /\ ~Starts(r) /\ ~Sends(r)
  BY <1>4, Zenon DEF Remember
<1> QED BY <1>1, <1>2, <1>3, <1>4, Zenon

\* Which of them it is while the sequence executes.
LEMMA RememberStart ==
  ASSUME NEW r, NEW a, NEW b, NEW c, NEW d, rts'[r].status = "EXECUTING", Starts(r)
  PROVE  Remember(r, a, b, c, d) = a
BY Zenon DEF Remember

LEMMA RememberSend ==
  ASSUME NEW r, NEW a, NEW b, NEW c, NEW d, rts'[r].status = "EXECUTING",
         ~Starts(r), Sends(r)
  PROVE  Remember(r, a, b, c, d) = b
BY Zenon DEF Remember

LEMMA RememberElse ==
  ASSUME NEW r, NEW a, NEW b, NEW c, NEW d, rts'[r].status = "EXECUTING",
         ~Starts(r), ~Sends(r)
  PROVE  Remember(r, a, b, c, d) = c
BY Zenon DEF Remember

\* There are finitely many sequences.
LEMMA FinitelyMany ==
  ASSUME NEW rs \in SUBSET RTSs
  PROVE  /\ IsFiniteSet(rs) /\ Cardinality(rs) \in Nat
         /\ Cardinality(rs) <= NumRts
<1>1. NumRts \in Nat /\ NumRts >= 1
  BY RtsEngineAssumption
<1>2. IsFiniteSet(RTSs) /\ Cardinality(RTSs) = NumRts
  BY <1>1, FS_Interval DEF RTSs
<1>3. IsFiniteSet(rs) /\ Cardinality(rs) <= Cardinality(RTSs)
  BY <1>2, FS_Subset
<1> QED BY <1>2, <1>3, FS_CardinalityType

\* The part of the type invariant that the engine changes, and the part that
\* remembers.
EngineType ==
  /\ rts \in [RTSs -> RtsInfo]
  /\ table \in [RTSs -> RtsTables \cup {<<>>}]
  /\ numRtsActive \in Nat
  /\ wakeups \in Counts
  /\ inWakeup \in BOOLEAN
  /\ numCmdsWakeup \in 0 .. Slots
  /\ autoStartRts \in RTSs \cup {NoRts}
  /\ sent \in SUBSET (RTSs \X Nat)

LEMMA LessType ==
  ASSUME NEW n \in Nat, NEW k \in Nat
  PROVE  Less(n, k) \in Nat
BY DEF Less

LEMMA CommandType ==
  ASSUME HTypeOK, Command
  PROVE  EngineType'
<1>1. ASSUME NEW rs \in SUBSET RTSs, Start(rs)
      PROVE  EngineType'
  <2>1. \A r \in RTSs : Started(r) \in RtsInfo
    BY StartedType
  <2>2. Cardinality(rs) \in Nat
    BY FinitelyMany
  <2> QED BY <1>1, <2>1, <2>2 DEF Start, EngineType, HTypeOK
<1>2. ASSUME NEW rs \in SUBSET Executing, Stop(rs)
      PROVE  EngineType'
  <2>1. \A r \in RTSs : Killed(rts[r]) \in RtsInfo
    BY KilledType DEF HTypeOK
  <2>2. Less(numRtsActive, Cardinality(rs)) \in Nat
    BY LessType, FinitelyMany DEF HTypeOK, Executing
  <2> QED BY <1>2, <2>1, <2>2 DEF Stop, EngineType, HTypeOK
<1>3. ASSUME NEW r \in RTSs, NEW t \in RtsTables, ManageRtsTable(r, t)
      PROVE  EngineType'
  <2>1. Loaded(rts[r]) \in RtsInfo
    BY LoadedType DEF HTypeOK
  <2> QED BY <1>3, <2>1 DEF ManageRtsTable, EngineType, HTypeOK
<1>4. ASSUME NEW r \in RTSs, NEW q \in RTSs, NEW flag \in BOOLEAN, SetDisabled(r, q, flag)
      PROVE  EngineType'
  <2>1. \A p \in RTSs : [rts[p] EXCEPT !.disabled = flag] \in RtsInfo
    BY DEF HTypeOK, RtsInfo
  <2> QED BY <1>4, <2>1 DEF SetDisabled, EngineType, HTypeOK
<1> QED BY <1>1, <1>2, <1>3, <1>4, CommandCases, Zenon

LEMMA OtherType ==
  ASSUME HTypeOK,
         SendHk \/ (\E ats \in 0 .. AtsShare : Wakeup(ats)) \/ Loop
  PROVE  EngineType'
<1>1. Slots \in Nat /\ AtsShare \in 0 .. Slots /\ MaxWakeup \in Nat
  BY RtsEngineAssumption
<1>2. CASE SendHk
  <2>1. \A p \in RTSs : [rts[p] EXCEPT !.disabled = FALSE] \in RtsInfo
    BY DEF HTypeOK, RtsInfo
  <2> QED BY <1>2, <2>1 DEF SendHk, EngineType, HTypeOK
<1>3. ASSUME NEW ats \in 0 .. AtsShare, Wakeup(ats)
      PROVE  EngineType'
  <2>1. wakeups + 1 \in Counts /\ ats \in 0 .. Slots
    BY <1>1, <1>3 DEF HTypeOK, Counts, Wakeup
  <2> QED BY <1>3, <2>1 DEF Wakeup, EngineType, HTypeOK
<1>4. CASE EndWakeup
  <2>1. 0 \in 0 .. Slots
    BY <1>1
  <2> QED BY <1>4, <2>1 DEF EndWakeup, EngineType, HTypeOK
<1>5. ASSUME NEW r \in RTSs, Turn(r)
      PROVE  numCmdsWakeup + 1 \in 0 .. Slots /\ Less(numRtsActive, 1) \in Nat
  <2>1. numCmdsWakeup < Slots
    BY <1>5 DEF Turn
  <2>2. numCmdsWakeup \in 0 .. Slots /\ numRtsActive \in Nat
    BY DEF HTypeOK
  <2>3. Less(numRtsActive, 1) \in Nat
    BY <2>2, LessType
  <2> QED BY <1>1, <2>1, <2>2, <2>3
<1>6. ASSUME NEW r \in RTSs, RtpCommand(r)
      PROVE  EngineType'
  <2>1. Advanced(r) \in RtsInfo
    BY AdvancedType
  <2>2. <<r, rts[r].next>> \in RTSs \X Nat
    BY DEF HTypeOK, RtsInfo
  <2>3. numRtsActive' \in Nat /\ numCmdsWakeup' \in 0 .. Slots
    BY <1>5, <1>6 DEF RtpCommand, Turn, HTypeOK
  <2>4. rts' \in [RTSs -> RtsInfo]
    BY <1>6, <2>1 DEF RtpCommand, HTypeOK
  <2> QED BY <1>6, <2>2, <2>3, <2>4 DEF RtpCommand, Turn, EngineType, HTypeOK
<1>7. ASSUME NEW r \in RTSs, RtpFailure(r)
      PROVE  EngineType'
  <2>1. Killed(rts[r]) \in RtsInfo
    BY KilledType DEF HTypeOK
  <2>2. numRtsActive' \in Nat /\ numCmdsWakeup' \in 0 .. Slots
    BY <1>5, <1>7 DEF RtpFailure, Turn
  <2> QED BY <1>7, <2>1, <2>2 DEF RtpFailure, Turn, EngineType, HTypeOK
<1> QED BY <1>2, <1>3, <1>4, <1>6, <1>7 DEF Loop

\* Every step keeps the types.
LEMMA TypeStep ==
  ASSUME HTypeOK, [HNext]_hvars
  PROVE  HTypeOK'
<1>1. CASE UNCHANGED hvars
  BY <1>1 DEF hvars, vars, HTypeOK
<1>2. CASE HNext
  <2>1. EngineType'
    BY <1>2, CommandType, OtherType DEF HNext, Next
  <2>2. since' \in [RTSs -> Counts]
    <3>1. ASSUME NEW r \in RTSs
          PROVE  Remember(r, wakeups, wakeups, since[r], 0) \in Counts
      <4>1. 0 \in Counts /\ wakeups \in Counts /\ since[r] \in Counts
        BY CountBounds DEF HTypeOK
      <4>2. Remember(r, wakeups, wakeups, since[r], 0) \in {wakeups, wakeups, since[r], 0}
        BY RememberValues, Zenon
      <4> QED BY <4>1, <4>2, Zenon
    <3> QED BY <1>2, <3>1, Zenon DEF HNext
  <2>3. ran' \in [RTSs -> Nat]
    <3>1. ASSUME NEW r \in RTSs
          PROVE  Remember(r, 0, ran[r] + 1, ran[r], 0) \in Nat
      <4>1. 0 \in Nat /\ ran[r] + 1 \in Nat /\ ran[r] \in Nat
        BY DEF HTypeOK
      <4>2. Remember(r, 0, ran[r] + 1, ran[r], 0) \in {0, ran[r] + 1, ran[r], 0}
        BY RememberValues, Zenon
      <4> QED BY <4>1, <4>2, Zenon
    <3> QED BY <1>2, <3>1, Zenon DEF HNext
  <2>4. started' \in [RTSs -> RtsTables \cup {<<>>}]
    <3>1. ASSUME NEW r \in RTSs
          PROVE  Remember(r, table[r], started[r], started[r], <<>>)
                   \in RtsTables \cup {<<>>}
      <4>1. table[r] \in RtsTables \cup {<<>>} /\ started[r] \in RtsTables \cup {<<>>}
        BY DEF HTypeOK
      <4>2. Remember(r, table[r], started[r], started[r], <<>>)
              \in {table[r], started[r], started[r], <<>>}
        BY RememberValues, Zenon
      <4> QED BY <4>1, <4>2, Zenon
    <3> QED BY <1>2, <3>1, Zenon DEF HNext
  <2>5. last' \in Counts \X (RTSs \cup {NoRts})
    <3>1. ASSUME NEW r \in RTSs
          PROVE  <<rts[r].target, r>> \in Counts \X (RTSs \cup {NoRts})
      BY DEF HTypeOK, RtsInfo
    <3>2. NoneYet \in Counts \X (RTSs \cup {NoRts})
      BY CountBounds DEF NoneYet
    <3>3. CASE \E r \in RTSs : Sends(r)
      <4> DEFINE c == CHOOSE r \in RTSs : Sends(r)
      <4>1. c \in RTSs
        BY <3>3
      <4>2. last' = <<rts[c].target, c>>
        BY <1>2, <3>3, Zenon DEF HNext
      <4> QED BY <3>1, <4>1, <4>2, Zenon
    <3>4. CASE ~ \E r \in RTSs : Sends(r)
      BY <1>2, <3>2, <3>4, Zenon DEF HNext, HTypeOK
    <3> QED BY <3>3, <3>4
  <2> QED BY <2>1, <2>2, <2>3, <2>4, <2>5, Zenon DEF EngineType, HTypeOK
<1> QED BY <1>1, <1>2

LEMMA TypeInit == ASSUME HInit PROVE HTypeOK
<1>1. EmptyRts \in RtsInfo
  BY CountBounds DEF EmptyRts, RtsInfo, RtsStatus
<1>2. Loaded(EmptyRts) \in RtsInfo
  BY <1>1, LoadedType
<1>3. Slots \in Nat /\ AutoRts \in RTSs
  BY RtsEngineAssumption
<1>4. rts \in [RTSs -> RtsInfo] /\ table \in [RTSs -> RtsTables \cup {<<>>}]
  BY <1>1, <1>2 DEF HInit, Init
<1>5. last \in Counts \X (RTSs \cup {NoRts})
  BY CountBounds DEF HInit, NoneYet
<1>6. /\ since \in [RTSs -> Counts]
      /\ ran \in [RTSs -> Nat]
      /\ started \in [RTSs -> RtsTables \cup {<<>>}]
  BY CountBounds DEF HInit
<1>7. /\ numRtsActive \in Nat /\ wakeups \in Counts /\ inWakeup \in BOOLEAN
      /\ numCmdsWakeup \in 0 .. Slots
      /\ autoStartRts \in RTSs \cup {NoRts}
      /\ sent \in SUBSET (RTSs \X Nat)
  <2>1. 0 \in 0 .. Slots /\ 0 \in Nat
    BY <1>3
  <2>2. {} \in SUBSET (RTSs \X Nat)
    OBVIOUS
  <2> QED BY <1>3, <2>1, <2>2, CountBounds, Zenon DEF HInit, Init
<1> QED BY <1>4, <1>5, <1>6, <1>7 DEF HTypeOK

\* The tables keep their types, and no wakeup takes a turn too many.
THEOREM TypeCorrect == HSpec => []HTypeOK
<1>1. HInit => HTypeOK
  BY TypeInit
<1>2. HTypeOK /\ [HNext]_hvars => HTypeOK'
  BY TypeStep
<1> QED BY <1>1, <1>2, PTL DEF HSpec

-----------------------------------------------------------------------------
(* The count of active sequences.                                          *)

\* Adding n to the count when n sequences start, and taking one off for each
\* that ends, keeps it at least at the number that executes.
LEMMA CountGrows ==
  ASSUME NEW ss \in SUBSET RTSs, NEW rs \in SUBSET RTSs, ss \cap rs = {}
  PROVE  Cardinality(ss \cup rs) = Cardinality(ss) + Cardinality(rs)
<1>1. IsFiniteSet(ss) /\ IsFiniteSet(rs) /\ Cardinality(ss) \in Nat /\ Cardinality(rs) \in Nat
  BY FinitelyMany
<1>2. Cardinality(ss \cup rs) = Cardinality(ss) + Cardinality(rs) - Cardinality(ss \cap rs)
  BY <1>1, FS_Union
<1>3. Cardinality(ss \cap rs) = 0
  BY FS_EmptySet
<1> QED BY <1>1, <1>2, <1>3

LEMMA CountShrinks ==
  ASSUME NEW ss \in SUBSET RTSs, NEW rs \in SUBSET ss, NEW n \in Nat,
         Cardinality(ss) <= n
  PROVE  Cardinality(ss \ rs) <= Less(n, Cardinality(rs))
<1>1. (ss \ rs) \in SUBSET RTSs /\ rs \in SUBSET RTSs /\ (ss \ rs) \cap rs = {}
      /\ (ss \ rs) \cup rs = ss
  OBVIOUS
<1>2. Cardinality(ss) = Cardinality(ss \ rs) + Cardinality(rs)
  BY <1>1, CountGrows, Zenon
<1>3. Cardinality(ss \ rs) \in Nat /\ Cardinality(rs) \in Nat
  BY <1>1, FinitelyMany
<1> QED BY <1>2, <1>3 DEF Less

LEMMA CountStep ==
  ASSUME HTypeOK, ActiveCountCovers, [HNext]_hvars
  PROVE  ActiveCountCovers'
<1> DEFINE E == Executing
<1>1. E \in SUBSET RTSs /\ numRtsActive \in Nat /\ Cardinality(E) <= numRtsActive
      /\ Cardinality(E) \in Nat
  BY FinitelyMany DEF HTypeOK, ActiveCountCovers, Executing
<1>2. ASSUME Executing' = E, numRtsActive' = numRtsActive
      PROVE  ActiveCountCovers'
  BY <1>1, <1>2 DEF ActiveCountCovers
<1>3. ASSUME NEW rs \in SUBSET RTSs, Start(rs), \A r \in rs : Startable(r)
      PROVE  ActiveCountCovers'
  <2>1. Executing' = E \cup rs
    BY <1>3, StartedType DEF Start, Executing
  <2>2. E \cap rs = {}
    BY <1>3 DEF Startable, Executing
  <2>3. Cardinality(E \cup rs) = Cardinality(E) + Cardinality(rs)
    BY <1>1, <2>2, CountGrows
  <2>4. Cardinality(rs) \in Nat /\ numRtsActive' = numRtsActive + Cardinality(rs)
    BY <1>3, FinitelyMany DEF Start
  <2> QED BY <1>1, <2>1, <2>3, <2>4 DEF ActiveCountCovers
<1>4. ASSUME NEW rs \in SUBSET E, Executing' = E \ rs,
             numRtsActive' = Less(numRtsActive, Cardinality(rs))
      PROVE  ActiveCountCovers'
  BY <1>1, <1>4, CountShrinks, Zenon DEF ActiveCountCovers
<1>5. ASSUME NEW rs \in SUBSET E, Stop(rs)
      PROVE  ActiveCountCovers'
  <2>1. \A r \in RTSs : Killed(rts[r]).status = "LOADED"
    BY KilledType DEF HTypeOK
  <2>2. Executing' = E \ rs
    BY <1>5, <2>1 DEF Stop, Executing
  <2> QED BY <1>4, <1>5, <2>2 DEF Stop
<1>6. ASSUME NEW r \in RTSs, NEW t \in RtsTables, ManageRtsTable(r, t)
      PROVE  ActiveCountCovers'
  <2>1. Loaded(rts[r]).status = "LOADED"
    BY LoadedType DEF HTypeOK
  <2>2. Executing' \in SUBSET E
    BY <1>6, <2>1 DEF ManageRtsTable, Executing, HTypeOK
  <2>3. Cardinality(Executing') <= Cardinality(E) /\ Cardinality(Executing') \in Nat
    <3>1. IsFiniteSet(E)
      BY <1>1, FinitelyMany
    <3>2. Executing' \in SUBSET RTSs
      BY <1>1, <2>2
    <3> QED BY <2>2, <3>1, <3>2, FS_Subset, FinitelyMany
  <2>4. numRtsActive' = numRtsActive
    BY <1>6 DEF ManageRtsTable
  <2> QED BY <1>1, <2>3, <2>4 DEF ActiveCountCovers
<1>7. ASSUME NEW r \in RTSs, NEW q \in RTSs, NEW flag \in BOOLEAN, SetDisabled(r, q, flag)
      PROVE  ActiveCountCovers'
  <2>1. \A p \in RTSs : rts'[p].status = rts[p].status
    BY <1>7 DEF SetDisabled, HTypeOK, RtsInfo
  <2> QED BY <1>2, <1>7, <2>1 DEF SetDisabled, Executing
<1>8. CASE SendHk
  <2>1. \A p \in RTSs : rts'[p].status = rts[p].status
    BY <1>8 DEF SendHk, HTypeOK, RtsInfo
  <2> QED BY <1>2, <1>8, <2>1 DEF SendHk, Executing
<1>9. ASSUME NEW r \in RTSs, IsNextRts(r), rts' = [rts EXCEPT ![r] = Killed(rts[r])],
             numRtsActive' = Less(numRtsActive, 1)
      PROVE  ActiveCountCovers'
  <2>1. Killed(rts[r]).status = "LOADED"
    BY KilledType DEF HTypeOK
  <2>2. {r} \in SUBSET E /\ Executing' = E \ {r}
    BY <1>9, <2>1 DEF Executing, HTypeOK, IsNextRts
  <2>3. Cardinality({r}) = 1
    BY FS_Singleton
  <2> QED BY <1>4, <1>9, <2>2, <2>3
<1>10. ASSUME NEW r \in RTSs, RtpCommand(r)
       PROVE  ActiveCountCovers'
  <2>1. IsNextRts(r) /\ rts[r].status = "EXECUTING"
    BY <1>10 DEF RtpCommand, Turn, IsNextRts, Executing
  <2>2. CASE rts[r].next < Len(table[r])
    <3>1. Advanced(r).status = "EXECUTING"
      BY <2>1, <2>2, AdvancedType
    <3>2. Executing' = E /\ numRtsActive' = numRtsActive
      BY <1>10, <2>1, <3>1 DEF RtpCommand, Executing, HTypeOK
    <3> QED BY <1>2, <3>2
  <2>3. CASE ~(rts[r].next < Len(table[r]))
    <3>1. Advanced(r) = Killed(rts[r]) /\ Advanced(r).status = "LOADED"
      BY <2>3, AdvancedType DEF Advanced
    <3>2. /\ rts' = [rts EXCEPT ![r] = Killed(rts[r])]
          /\ numRtsActive' = Less(numRtsActive, 1)
      BY <1>10, <3>1 DEF RtpCommand
    <3> QED BY <1>9, <2>1, <3>2
  <2> QED BY <2>2, <2>3
<1>11. ASSUME NEW r \in RTSs, RtpFailure(r)
       PROVE  ActiveCountCovers'
  BY <1>9, <1>11 DEF RtpFailure, Turn
<1>12. CASE EndWakeup \/ (\E ats \in 0 .. AtsShare : Wakeup(ats)) \/ UNCHANGED hvars
  BY <1>2, <1>12 DEF EndWakeup, Wakeup, Executing, hvars, vars
<1>13. CASE Command
  BY <1>3, <1>5, <1>6, <1>7, <1>13, CommandCases, Zenon
<1> QED
  BY <1>8, <1>10, <1>11, <1>12, <1>13 DEF HNext, Next, Loop

\* No active sequence is missing from NumRtsActive.
THEOREM ActiveCountIsCovering == HSpec => []ActiveCountCovers
<1>1. HInit => ActiveCountCovers
  <2>1. HInit => Executing = {}
    <3>1. EmptyRts.status = "EMPTY" /\ Loaded(EmptyRts).status = "LOADED"
      BY DEF EmptyRts, Loaded
    <3> QED BY <3>1 DEF HInit, Init, Executing
  <2>2. HInit => numRtsActive = 0
    BY DEF HInit, Init
  <2> QED BY <2>1, <2>2, FS_EmptySet DEF ActiveCountCovers
<1>2. HTypeOK /\ ActiveCountCovers /\ [HNext]_hvars => ActiveCountCovers'
  BY CountStep
<1> QED BY <1>1, <1>2, TypeCorrect, PTL DEF HSpec

-----------------------------------------------------------------------------
(* What a sequence sends, and when.                                        *)

\* A sequence that executes after a step was started by it, or sent a command
\* and goes on, or was left alone; its table is not touched.
Fate(r) ==
  /\ table'[r] = table[r]
  /\ \/ Starts(r) /\ rts'[r] = Started(r)
     \/ /\ ~Starts(r) /\ Sends(r) /\ rts'[r] = Advanced(r)
        /\ rts[r].next < Len(table[r])
     \/ /\ ~Starts(r) /\ ~Sends(r) /\ rts[r].status = "EXECUTING"
        /\ rts'[r].next = rts[r].next /\ rts'[r].target = rts[r].target

LEMMA FateOfCommand ==
  ASSUME HTypeOK, Command, NEW r \in RTSs, rts'[r].status = "EXECUTING"
  PROVE  Fate(r)
<1>1. ASSUME sent' = {} PROVE ~Sends(r)
  BY <1>1 DEF Sends
<1>2. ASSUME rts'[r] = rts[r], table' = table, sent' = {}
      PROVE  Fate(r)
  BY <1>1, <1>2 DEF Fate, Starts
<1>3. ASSUME NEW rs \in SUBSET RTSs, Start(rs), \A p \in rs : Startable(p)
      PROVE  Fate(r)
  <2>1. CASE r \in rs
    <3>1. rts'[r] = Started(r) /\ rts[r].status = "LOADED" /\ table' = table
      BY <1>3, <2>1 DEF Start, Startable
    <3> QED BY <3>1 DEF Fate, Starts
  <2>2. CASE r \notin rs
    BY <1>2, <1>3, <2>2 DEF Start
  <2> QED BY <2>1, <2>2
<1>4. ASSUME NEW rs \in SUBSET Executing, Stop(rs)
      PROVE  Fate(r)
  <2>1. CASE r \in rs
    <3>1. rts'[r].status = "LOADED"
      BY <1>4, <2>1, KilledType DEF Stop, HTypeOK
    <3> QED BY <3>1
  <2>2. CASE r \notin rs
    BY <1>2, <1>4, <2>2 DEF Stop
  <2> QED BY <2>1, <2>2
<1>5. ASSUME NEW q \in RTSs, NEW t \in RtsTables, ManageRtsTable(q, t)
      PROVE  Fate(r)
  <2>1. CASE r = q
    <3>1. rts'[r].status = "LOADED"
      BY <1>5, <2>1, LoadedType DEF ManageRtsTable, HTypeOK
    <3> QED BY <3>1
  <2>2. CASE r # q
    <3>1. rts'[r] = rts[r] /\ table'[r] = table[r] /\ sent' = {}
      BY <1>5, <2>2 DEF ManageRtsTable, HTypeOK
    <3> QED BY <1>1, <3>1 DEF Fate, Starts
  <2> QED BY <2>1, <2>2
<1>6. ASSUME NEW p \in RTSs, NEW q \in RTSs, NEW flag \in BOOLEAN, SetDisabled(p, q, flag)
      PROVE  Fate(r)
  <2>1. /\ rts'[r].status = rts[r].status /\ rts'[r].next = rts[r].next
        /\ rts'[r].target = rts[r].target
    BY <1>6 DEF SetDisabled, HTypeOK, RtsInfo
  <2>2. table' = table /\ sent' = {}
    BY <1>6 DEF SetDisabled
  <2> QED BY <1>1, <2>1, <2>2 DEF Fate, Starts
<1> QED BY <1>3, <1>4, <1>5, <1>6, CommandCases, Zenon

LEMMA FateOfSequence ==
  ASSUME HTypeOK, Next, NEW r \in RTSs, rts'[r].status = "EXECUTING"
  PROVE  Fate(r)
<1>1. ASSUME rts'[r] = rts[r], table' = table, ~Sends(r)
      PROVE  Fate(r)
  BY <1>1 DEF Fate, Starts
<1>2. ASSUME sent' = {} PROVE ~Sends(r)
  BY <1>2 DEF Sends
<1>3. CASE SendHk
  <2>1. /\ rts'[r].status = rts[r].status /\ rts'[r].next = rts[r].next
        /\ rts'[r].target = rts[r].target
    BY <1>3 DEF SendHk, HTypeOK, RtsInfo
  <2>2. table' = table /\ sent' = {}
    BY <1>3 DEF SendHk
  <2> QED BY <1>2, <2>1, <2>2 DEF Fate, Starts
<1>4. CASE EndWakeup \/ \E ats \in 0 .. AtsShare : Wakeup(ats)
  BY <1>1, <1>2, <1>4 DEF EndWakeup, Wakeup
<1>5. ASSUME NEW q \in RTSs, RtpFailure(q)
      PROVE  Fate(r)
  <2>1. rts'[q].status = "LOADED"
    BY <1>5, KilledType DEF RtpFailure, HTypeOK
  <2>2. r # q
    BY <2>1
  <2>3. rts'[r] = rts[r] /\ table' = table /\ sent' = {}
    BY <1>5, <2>2 DEF RtpFailure, Turn, HTypeOK
  <2> QED BY <1>1, <1>2, <2>3
<1>6. ASSUME NEW q \in RTSs, RtpCommand(q)
      PROVE  Fate(r)
  <2>1. table' = table /\ sent' = {<<q, rts[q].next>>}
    BY <1>6 DEF RtpCommand, Turn
  <2>2. CASE r # q
    <3>1. rts'[r] = rts[r]
      BY <1>6, <2>2 DEF RtpCommand, HTypeOK
    <3>2. <<q, rts[q].next>> # <<r, rts[r].next>>
      BY <2>2
    <3>3. ~Sends(r)
      BY <2>1, <3>2 DEF Sends
    <3> QED BY <1>1, <2>1, <3>1, <3>3
  <2>3. CASE r = q
    <3>1. rts'[r] = Advanced(r) /\ rts[r].status = "EXECUTING" /\ Sends(r)
      BY <1>6, <2>1, <2>3
      DEF RtpCommand, Turn, IsNextRts, Executing, HTypeOK, Sends
    <3>2. rts[r].next < Len(table[r])
      BY <3>1, AdvancedType
    <3> QED BY <2>1, <3>1, <3>2 DEF Fate, Starts
  <2> QED BY <2>2, <2>3
<1> QED
  BY <1>3, <1>4, <1>5, <1>6, FateOfCommand DEF Next, Loop

LEMMA RunsStep ==
  ASSUME HTypeOK, RunsWhatItStarted, [HNext]_hvars
  PROVE  RunsWhatItStarted'
<1>1. CASE UNCHANGED hvars
  BY <1>1 DEF hvars, vars, RunsWhatItStarted, Executing
<1>2. CASE HNext
  <2> SUFFICES ASSUME NEW r \in RTSs, rts'[r].status = "EXECUTING"
               PROVE  table'[r] = started'[r] /\ ran'[r] = rts'[r].next - 1
    BY DEF RunsWhatItStarted, Executing
  <2>1. Fate(r)
    BY <1>2, FateOfSequence DEF HNext
  <2>2. /\ ran'[r] = Remember(r, 0, ran[r] + 1, ran[r], 0)
        /\ started'[r] = Remember(r, table[r], started[r], started[r], <<>>)
    BY <1>2 DEF HNext
  <2>3. rts[r].next \in Nat /\ ran[r] \in Nat
    BY DEF HTypeOK, RtsInfo
  <2>4. CASE Starts(r) /\ rts'[r] = Started(r)
    <3>1. ran'[r] = 0 /\ started'[r] = table[r]
      BY <2>2, <2>4, RememberStart
    <3> QED BY <2>1, <2>4, <3>1, StartedType DEF Fate
  <2>5. ASSUME ~Starts(r)
        PROVE  rts[r].status = "EXECUTING" /\ table[r] = started[r]
               /\ ran[r] = rts[r].next - 1
    BY <2>5 DEF Starts, RunsWhatItStarted, Executing
  <2>6. CASE ~Starts(r) /\ Sends(r) /\ rts'[r] = Advanced(r) /\ rts[r].next < Len(table[r])
    <3>1. ran'[r] = ran[r] + 1 /\ started'[r] = started[r]
      BY <2>2, <2>6, RememberSend
    <3>2. rts'[r].next = rts[r].next + 1
      BY <2>6, AdvancedType
    <3> QED BY <2>1, <2>3, <2>5, <2>6, <3>1, <3>2 DEF Fate
  <2>7. CASE ~Starts(r) /\ ~Sends(r) /\ rts'[r].next = rts[r].next
    <3>1. ran'[r] = ran[r] /\ started'[r] = started[r]
      BY <2>2, <2>7, RememberElse
    <3> QED BY <2>1, <2>5, <2>7, <3>1 DEF Fate
  <2> QED BY <2>1, <2>4, <2>6, <2>7 DEF Fate
<1> QED BY <1>1, <1>2

LEMMA NothingExecutes == HInit => Executing = {}
<1>1. EmptyRts.status = "EMPTY" /\ Loaded(EmptyRts).status = "LOADED"
  BY DEF EmptyRts, Loaded
<1> QED BY <1>1 DEF HInit, Init, Executing

\* A start sends a prefix of the one table it began with.
THEOREM RunsOneTable == HSpec => []RunsWhatItStarted
<1>1. HInit => RunsWhatItStarted
  BY NothingExecutes DEF RunsWhatItStarted
<1>2. HTypeOK /\ RunsWhatItStarted /\ [HNext]_hvars => RunsWhatItStarted'
  BY RunsStep
<1> QED BY <1>1, <1>2, TypeCorrect, PTL DEF HSpec

-----------------------------------------------------------------------------
(* Delays, order and punctuality.                                          *)

\* Only SC_ProcessRtpCommand sends, and it sends for the next sequence.
LEMMA SendsInTurn ==
  ASSUME HTypeOK, Next, NEW r \in RTSs, Sends(r)
  PROVE  RtpCommand(r)
<1>1. sent' # {}
  BY DEF Sends
<1>2. ~Command
  <2>1. \A rs : Start(rs) => sent' = {}
    BY DEF Start
  <2>2. \A rs : Stop(rs) => sent' = {}
    BY DEF Stop
  <2>3. \A q, t : ManageRtsTable(q, t) => sent' = {}
    BY DEF ManageRtsTable
  <2>4. \A p, q, flag : SetDisabled(p, q, flag) => sent' = {}
    BY DEF SetDisabled
  <2> QED BY <1>1, <2>1, <2>2, <2>3, <2>4, CommandCases, Zenon
<1>3. PICK q \in RTSs : RtpCommand(q)
  BY <1>1, <1>2 DEF Next, Loop, SendHk, Wakeup, EndWakeup, RtpFailure
<1>4. sent' = {<<q, rts[q].next>>} /\ sent' = {<<r, rts[r].next>>}
  BY <1>3 DEF RtpCommand, Sends
<1>5. <<q, rts[q].next>> = <<r, rts[r].next>>
  BY <1>4, Zenon
<1>6. q = r
  BY <1>5
<1> QED BY <1>3, <1>6

\* The due wakeup of a sequence is its wait after the command before.
DelayInv ==
  \A r \in Executing :
    since[r] + NextWait(r) <= MaxWakeup => rts[r].target = since[r] + NextWait(r)

\* The wait a start or an advance begins, and the wakeup it leads to.
LEMMA FirstWait ==
  ASSUME HTypeOK, NEW r \in RTSs
  PROVE  \E w \in Counts :
           /\ Started(r).target = ComputeAbsWakeup(w)
           /\ w = IF 1 <= Len(table[r]) THEN table[r][1].wait ELSE 0
           /\ w = 0 \/ \E t \in RtsTables : \E k \in 1 .. Len(t) : w = t[k].wait
<1>1. table[r] \in RtsTables \cup {<<>>} /\ rts[r] \in RtsInfo /\ wakeups \in Counts
  BY DEF HTypeOK
<1>2. CASE table[r] = <<>>
  <2>1. Len(table[r]) = 0
    BY <1>2
  <2>2. Started(r).target = ComputeAbsWakeup(0)
    BY <1>1, <1>2 DEF Started, RtsInfo
  <2> QED BY <2>1, <2>2, CountBounds
<1>3. CASE table[r] # <<>>
  <2>1. table[r] \in RtsTables /\ 1 \in 1 .. Len(table[r])
    BY <1>1, <1>3, RtsEngineAssumption
  <2>2. table[r][1].wait \in Counts
    BY <2>1, TableType
  <2>3. Started(r).target = ComputeAbsWakeup(table[r][1].wait)
    BY <1>1, <1>3 DEF Started, RtsInfo
  <2> QED BY <2>1, <2>2, <2>3
<1> QED BY <1>2, <1>3

LEMMA NextWaitAfter ==
  ASSUME HTypeOK, NEW r \in RTSs, rts[r].next < Len(table[r])
  PROVE  \E w \in Counts :
           /\ Advanced(r).target = ComputeAbsWakeup(w)
           /\ w = table[r][rts[r].next + 1].wait
           /\ \E t \in RtsTables : \E k \in 1 .. Len(t) : w = t[k].wait
<1>1. table[r] \in RtsTables \cup {<<>>}
  BY DEF HTypeOK
<1>2. rts[r].next + 1 \in 1 .. Len(table[r])
  BY AdvancedType
<1>3. table[r] \in RtsTables
  BY <1>1, <1>2
<1>4. table[r][rts[r].next + 1].wait \in Counts
  BY <1>2, <1>3, TableType
<1> QED BY <1>2, <1>3, <1>4, AdvancedType

LEMMA DelayStep ==
  ASSUME HTypeOK, DelayInv, [HNext]_hvars
  PROVE  DelayInv'
<1>1. CASE UNCHANGED hvars
  BY <1>1 DEF hvars, vars, DelayInv, Executing, NextWait
<1>2. CASE HNext
  <2> SUFFICES ASSUME NEW r \in RTSs, rts'[r].status = "EXECUTING",
                      since'[r] + NextWait(r)' <= MaxWakeup
               PROVE  rts'[r].target = since'[r] + NextWait(r)'
    BY DEF DelayInv, Executing
  <2>1. Fate(r)
    BY <1>2, FateOfSequence DEF HNext
  <2>2. since'[r] = Remember(r, wakeups, wakeups, since[r], 0)
    BY <1>2 DEF HNext
  <2>3. wakeups \in Counts
    BY DEF HTypeOK
  <2>4. CASE Starts(r) /\ rts'[r] = Started(r)
    <3>1. since'[r] = wakeups
      BY <2>2, <2>4, RememberStart
    <3>2. PICK w \in Counts :
            /\ Started(r).target = ComputeAbsWakeup(w)
            /\ w = IF 1 <= Len(table[r]) THEN table[r][1].wait ELSE 0
      BY FirstWait, Zenon
    <3>3. NextWait(r)' = w
      BY <2>1, <2>4, <3>2, StartedType DEF NextWait, Fate
    <3> QED BY <2>3, <2>4, <3>1, <3>2, <3>3, AbsWakeup
  <2>5. CASE ~Starts(r) /\ Sends(r) /\ rts'[r] = Advanced(r) /\ rts[r].next < Len(table[r])
    <3>1. since'[r] = wakeups
      BY <2>2, <2>5, RememberSend
    <3>2. PICK w \in Counts :
            /\ Advanced(r).target = ComputeAbsWakeup(w)
            /\ w = table[r][rts[r].next + 1].wait
      BY <2>5, NextWaitAfter, Zenon
    <3>3. Advanced(r).next = rts[r].next + 1 /\ rts[r].next + 1 \in 1 .. Len(table[r])
      BY <2>5, AdvancedType
    <3>4. NextWait(r)' = w
      <4>1. table'[r] = table[r] /\ rts'[r].next = rts[r].next + 1
        BY <2>1, <2>5, <3>3 DEF Fate
      <4>2. rts[r].next + 1 <= Len(table[r])
        BY <3>3
      <4> QED BY <3>2, <4>1, <4>2 DEF NextWait
    <3> QED BY <2>3, <2>5, <3>1, <3>2, <3>4, AbsWakeup
  <2>6. CASE /\ ~Starts(r) /\ ~Sends(r) /\ rts[r].status = "EXECUTING"
             /\ rts'[r].next = rts[r].next /\ rts'[r].target = rts[r].target
    <3>1. since'[r] = since[r]
      BY <2>2, <2>6, RememberElse
    <3>2. NextWait(r)' = NextWait(r)
      BY <2>1, <2>6 DEF NextWait, Fate
    <3> QED BY <2>6, <3>1, <3>2 DEF DelayInv, Executing
  <2> QED BY <2>1, <2>4, <2>5, <2>6 DEF Fate
<1> QED BY <1>1, <1>2

\* No command leaves before its wait is over.
THEOREM NoCommandEarly == HSpec => DelaysHonoured
<1>1. HInit => DelayInv
  BY NothingExecutes DEF DelayInv
<1>2. HTypeOK /\ DelayInv /\ [HNext]_hvars => DelayInv'
  BY DelayStep
<1>3. HTypeOK /\ DelayInv /\ [HNext]_hvars
        => [\A r \in RTSs :
              Sends(r) /\ since[r] + NextWait(r) <= MaxWakeup
                => wakeups >= since[r] + NextWait(r)]_hvars
  <2> SUFFICES ASSUME HTypeOK, DelayInv, HNext, NEW r \in RTSs, Sends(r),
                      since[r] + NextWait(r) <= MaxWakeup
               PROVE  wakeups >= since[r] + NextWait(r)
    OBVIOUS
  <2>1. RtpCommand(r)
    BY SendsInTurn DEF HNext
  <2>2. r \in Executing /\ rts[r].target <= wakeups
    BY <2>1 DEF RtpCommand, Turn, IsNextRts, Due
  <2>3. rts[r].target = since[r] + NextWait(r)
    BY <2>2 DEF DelayInv
  <2> QED BY <2>2, <2>3 DEF HTypeOK, Counts, RtsInfo
<1> QED BY <1>1, <1>2, <1>3, TypeCorrect, PTL DEF HSpec, DelaysHonoured

\* While no wait runs past the counter, what starts or goes on is due now or
\* later.
LEMMA NewTargets ==
  ASSUME HTypeOK, Horizon, NEW r \in RTSs
  PROVE  /\ Started(r).target \in Counts /\ Started(r).target >= wakeups
         /\ rts[r].next < Len(table[r]) =>
              Advanced(r).target \in Counts /\ Advanced(r).target >= wakeups
<1>1. wakeups \in Counts
  BY DEF HTypeOK
<1>2. ASSUME NEW w \in Counts,
             w = 0 \/ \E t \in RtsTables : \E k \in 1 .. Len(t) : w = t[k].wait
      PROVE  ComputeAbsWakeup(w) \in Counts /\ ComputeAbsWakeup(w) >= wakeups
  <2>1. MaxWakeup \in Nat
    BY RtsEngineAssumption
  <2>2. wakeups + w <= MaxWakeup
    BY <1>1, <1>2, <2>1 DEF Horizon, Counts
  <2> QED BY <1>1, <2>1, <2>2, AbsWakeup DEF Counts
<1>3. Started(r).target \in Counts /\ Started(r).target >= wakeups
  <2>1. PICK w \in Counts :
          /\ Started(r).target = ComputeAbsWakeup(w)
          /\ w = 0 \/ \E t \in RtsTables : \E k \in 1 .. Len(t) : w = t[k].wait
    BY FirstWait, Zenon
  <2> QED BY <1>2, <2>1
<1>4. ASSUME rts[r].next < Len(table[r])
      PROVE  Advanced(r).target \in Counts /\ Advanced(r).target >= wakeups
  <2>1. PICK w \in Counts :
          /\ Advanced(r).target = ComputeAbsWakeup(w)
          /\ \E t \in RtsTables : \E k \in 1 .. Len(t) : w = t[k].wait
    BY <1>4, NextWaitAfter, Zenon
  <2> QED BY <1>2, <2>1
<1> QED BY <1>3, <1>4

\* The wakeup count only grows, so the horizon only comes nearer.
LEMMA HorizonBack ==
  ASSUME HTypeOK, HTypeOK', [HNext]_hvars, Horizon'
  PROVE  Horizon
<1>1. wakeups' = wakeups \/ wakeups' = wakeups + 1
  <2>1. CASE UNCHANGED hvars
    BY <2>1 DEF hvars, vars
  <2>2. CASE Command
    <3>1. ASSUME NEW rs, Start(rs) \/ Stop(rs) PROVE wakeups' = wakeups
      BY <3>1 DEF Start, Stop
    <3>2. ASSUME NEW r, NEW t, ManageRtsTable(r, t) PROVE wakeups' = wakeups
      BY <3>2 DEF ManageRtsTable
    <3>3. ASSUME NEW r, NEW q, NEW flag, SetDisabled(r, q, flag) PROVE wakeups' = wakeups
      BY <3>3 DEF SetDisabled
    <3> QED BY <2>2, <3>1, <3>2, <3>3, CommandCases, Zenon
  <2>3. CASE SendHk \/ Loop \/ \E ats \in 0 .. AtsShare : Wakeup(ats)
    BY <2>3 DEF SendHk, Loop, Wakeup, EndWakeup, RtpCommand, RtpFailure, Turn
  <2> QED BY <2>1, <2>2, <2>3 DEF HNext, Next
<1>2. ASSUME NEW t \in RtsTables, NEW k \in 1 .. Len(t)
      PROVE  wakeups + t[k].wait <= MaxWakeup
  <2>1. t[k].wait \in Nat /\ wakeups \in Nat /\ MaxWakeup \in Nat
    <3>1. t[k].wait \in Counts
      BY TableType
    <3> QED BY <3>1, RtsEngineAssumption DEF HTypeOK, Counts
  <2>2. wakeups' + t[k].wait <= MaxWakeup
    BY DEF Horizon
  <2> QED BY <1>1, <2>1, <2>2
<1> QED BY <1>2 DEF Horizon

\* Nothing that executes fell due before the last command of the wakeup, or
\* in the same wakeup with a lower number.
NotBefore(pair, r) ==
  pair[1] < rts[r].target \/ (pair[1] = rts[r].target /\ pair[2] <= r)

OrderInv ==
  /\ ~inWakeup => last = NoneYet
  /\ Horizon => \A r \in Executing : NotBefore(last, r)

LEMMA OrderAtRest ==
  ASSUME HTypeOK, last = NoneYet
  PROVE  OrderInv
<1>1. \A r \in RTSs : rts[r].target \in Nat /\ r \in Nat /\ r >= 1
  BY RtsEngineAssumption DEF HTypeOK, RtsInfo, Counts, RTSs
<1>2. last[1] = 0 /\ last[2] = 0
  BY DEF NoneYet, NoRts
<1> QED BY <1>1, <1>2 DEF OrderInv, NotBefore, Executing

LEMMA OrderStep ==
  ASSUME HTypeOK, HTypeOK', OrderInv, [HNext]_hvars
  PROVE  OrderInv'
<1>1. CASE UNCHANGED hvars
  <2>1. /\ last' = last /\ rts' = rts /\ inWakeup' = inWakeup /\ wakeups' = wakeups
    BY <1>1 DEF hvars, vars
  <2> QED BY <2>1 DEF OrderInv, NotBefore, Executing, Horizon, NoneYet
<1>2. ASSUME last' = NoneYet PROVE OrderInv'
  <2>1. \A r \in RTSs : rts'[r].target \in Nat /\ r \in Nat /\ r >= 1
    <3>1. \A r \in RTSs : rts'[r].target \in Counts
      BY DEF HTypeOK, RtsInfo
    <3> QED BY <3>1, RtsEngineAssumption DEF Counts, RTSs
  <2>2. last'[1] = 0 /\ last'[2] = 0
    BY <1>2 DEF NoneYet, NoRts
  <2> QED BY <1>2, <2>1, <2>2 DEF OrderInv, NotBefore, Executing, NoneYet
<1>3. CASE HNext /\ ~inWakeup
  <2>1. last = NoneYet
    BY <1>3 DEF OrderInv
  <2>2. \A r \in RTSs : ~Sends(r)
    BY <1>3, SendsInTurn DEF HNext, RtpCommand, Turn
  <2>3. last' = NoneYet
    BY <1>3, <2>1, <2>2, Zenon DEF HNext
  <2> QED BY <1>2, <2>3
<1>4. CASE HNext /\ inWakeup
  <2>1. EndWakeup \/ \E r \in RTSs : RtpCommand(r) \/ RtpFailure(r)
    <3>1. ~Command
      BY <1>4, CommandCases
    <3> QED BY <1>4, <3>1 DEF HNext, Next, Loop, SendHk, Wakeup
  <2>2. CASE EndWakeup
    <3>1. \A r \in RTSs : ~Sends(r)
      BY <2>2 DEF EndWakeup, Sends
    <3>2. last' = NoneYet
      BY <1>4, <2>2, <3>1, Zenon DEF HNext, EndWakeup
    <3> QED BY <1>2, <3>2
  <2>3. ASSUME NEW r \in RTSs, RtpFailure(r)
        PROVE  OrderInv'
    <3>1. \A q \in RTSs : ~Sends(q)
      BY <2>3 DEF RtpFailure, Sends
    <3>2. last' = last /\ inWakeup' /\ wakeups' = wakeups
      <4>1. inWakeup' /\ wakeups' = wakeups
        BY <2>3 DEF RtpFailure, Turn
      <4> QED BY <1>4, <3>1, <4>1, Zenon DEF HNext
    <3>3. \A q \in Executing' : q \in Executing /\ rts'[q] = rts[q]
      <4>1. rts'[r].status = "LOADED"
        BY <2>3, KilledType DEF RtpFailure, HTypeOK
      <4> QED BY <2>3, <4>1 DEF RtpFailure, HTypeOK, Executing
    <3> QED BY <3>2, <3>3 DEF OrderInv, NotBefore, Horizon
  <2>4. ASSUME NEW r \in RTSs, RtpCommand(r)
        PROVE  OrderInv'
    <3>1. Sends(r) /\ \A q \in RTSs : Sends(q) => q = r
      <4>1. sent' = {<<r, rts[r].next>>}
        BY <2>4 DEF RtpCommand
      <4>2. ASSUME NEW q \in RTSs, Sends(q) PROVE q = r
        <5>1. <<q, rts[q].next>> = <<r, rts[r].next>>
          BY <4>1, <4>2, Zenon DEF Sends
        <5> QED BY <5>1
      <4> QED BY <4>1, <4>2 DEF Sends
    <3>2. last' = <<rts[r].target, r>>
      <4>1. (CHOOSE q \in RTSs : Sends(q)) = r
        BY <3>1
      <4> QED BY <1>4, <3>1, <4>1, Zenon DEF HNext
    <3>3. /\ inWakeup' /\ wakeups' = wakeups /\ IsNextRts(r)
          /\ rts[r].target <= wakeups
      BY <2>4 DEF RtpCommand, Turn, Due
    <3>4. ASSUME Horizon, NEW q \in RTSs, rts'[q].status = "EXECUTING"
          PROVE  \/ rts[r].target < rts'[q].target
                 \/ rts[r].target = rts'[q].target /\ r <= q
      <4>1. rts[r].target \in Nat /\ rts'[q].target \in Nat /\ wakeups \in Nat /\ r \in Nat
        <5>1. rts[r].target \in Counts /\ rts'[q].target \in Counts /\ wakeups \in Counts
          BY DEF HTypeOK, RtsInfo
        <5> QED BY <5>1, RtsEngineAssumption DEF Counts, RTSs
      <4>2. CASE q = r
        <5>1. rts'[r] = Advanced(r)
          BY <2>4 DEF RtpCommand, HTypeOK
        <5>2. rts[r].next < Len(table[r])
          BY <3>4, <4>2, <5>1, AdvancedType
        <5>3. Advanced(r).target >= wakeups
          BY <3>4, <5>2, NewTargets
        <5> QED BY <3>3, <4>1, <4>2, <5>1, <5>3
      <4>3. CASE q # r
        <5>1. rts'[q] = rts[q] /\ q \in Executing
          BY <2>4, <3>4, <4>3 DEF RtpCommand, HTypeOK, Executing
        <5>2. Before(r, q)
          BY <3>3, <4>3, <5>1 DEF IsNextRts
        <5> QED BY <4>1, <5>1, <5>2 DEF Before, RTSs
      <4> QED BY <4>2, <4>3
    <3>5. Horizon' => Horizon
      BY HorizonBack, <1>4
    <3>6. Horizon' => \A q \in Executing' : NotBefore(last, q)'
      BY <3>2, <3>4, <3>5 DEF NotBefore, Executing
    <3> QED BY <3>3, <3>6 DEF OrderInv
  <2> QED BY <2>1, <2>2, <2>3, <2>4
<1> QED BY <1>1, <1>3, <1>4 DEF HTypeOK

\* Commands of one wakeup leave in the order they fell due.
THEOREM SequencesInOrder == HSpec => DispatchOrdered
<1>1. HInit => OrderInv
  BY TypeInit, OrderAtRest DEF HInit
<1>2. HTypeOK /\ HTypeOK' /\ OrderInv /\ [HNext]_hvars => OrderInv'
  BY OrderStep
<1>3. HTypeOK /\ OrderInv /\ [HNext]_hvars
        => [\A r \in RTSs :
              Sends(r) /\ Horizon
                => \/ last[1] < rts[r].target
                   \/ last[1] = rts[r].target /\ last[2] <= r]_hvars
  <2> SUFFICES ASSUME HTypeOK, OrderInv, HNext, NEW r \in RTSs, Sends(r), Horizon
               PROVE  NotBefore(last, r)
    BY DEF NotBefore
  <2>1. r \in Executing
    BY SendsInTurn DEF HNext, RtpCommand, Turn, IsNextRts
  <2> QED BY <2>1 DEF OrderInv
<1> QED BY <1>1, <1>2, <1>3, TypeCorrect, PTL DEF HSpec, DispatchOrdered

-----------------------------------------------------------------------------
(* Punctuality: in a wakeup there are turns for all that is late.          *)

Late == {r \in Executing : rts[r].target < wakeups}

LateInv ==
  Horizon /\ NumRts + AtsShare <= Slots
    => IF inWakeup THEN Cardinality(Late) + numCmdsWakeup <= Slots ELSE Late = {}

\* When anything executes there is a sequence to go next.
LEMMA SomeNext ==
  ASSUME HTypeOK, Executing # {}
  PROVE  \E r \in RTSs : IsNextRts(r)
<1>1. \A r \in Executing : rts[r].target \in Nat /\ r \in Nat /\ r \in RTSs
  <2>1. \A r \in RTSs : rts[r].target \in Counts
    BY DEF HTypeOK, RtsInfo
  <2> QED BY <2>1, RtsEngineAssumption DEF Executing, Counts, RTSs
<1> DEFINE T == {rts[r].target : r \in Executing}
<1>2. T \subseteq Nat /\ T # {}
  BY <1>1
<1>3. PICK m \in T : \A n \in T : m <= n
  <2> HIDE DEF T
  <2> QED BY <1>2, LeastNatural
<1> DEFINE F == {r \in Executing : rts[r].target = m}
<1>4. F \subseteq Nat /\ F # {}
  BY <1>1, <1>3
<1>5. PICK r \in F : \A q \in F : r <= q
  <2> HIDE DEF F
  <2> QED BY <1>4, LeastNatural
<1>6. ASSUME NEW q \in Executing \ {r}
      PROVE  Before(r, q)
  <2>1. m <= rts[q].target /\ rts[r].target = m /\ m \in Nat /\ rts[q].target \in Nat
        /\ q \in Nat /\ r \in Nat
    BY <1>1, <1>2, <1>3, <1>4, <1>5
  <2>2. rts[q].target = m => r <= q
    BY <1>5, <1>6
  <2> QED BY <1>6, <2>1, <2>2 DEF Before
<1> QED BY <1>1, <1>5, <1>6 DEF IsNextRts

\* A turn serves a late sequence as long as there is one.
LEMMA LateTurn ==
  ASSUME HTypeOK, HTypeOK', Horizon, LateInv, NumRts + AtsShare <= Slots,
         NEW r \in RTSs, Turn(r),
         \/ rts' = [rts EXCEPT ![r] = Killed(rts[r])]
         \/ rts' = [rts EXCEPT ![r] = Advanced(r)]
  PROVE  Cardinality(Late') + numCmdsWakeup' <= Slots
<1>1. /\ inWakeup /\ numCmdsWakeup < Slots /\ numCmdsWakeup' = numCmdsWakeup + 1
      /\ wakeups' = wakeups /\ IsNextRts(r) /\ r \in Executing
  BY DEF Turn, IsNextRts
<1>2. Cardinality(Late) + numCmdsWakeup <= Slots
  BY <1>1 DEF LateInv
<1>3. Late \in SUBSET RTSs /\ Late' \in SUBSET RTSs
  BY DEF Late, Executing
<1>4. numCmdsWakeup \in Nat /\ Slots \in Nat
  BY RtsEngineAssumption DEF HTypeOK
<1>5. IsFiniteSet(Late) /\ Cardinality(Late) \in Nat /\ Cardinality(Late') \in Nat
  BY <1>3, FinitelyMany
<1>6. r \notin Late'
  <2>1. CASE rts' = [rts EXCEPT ![r] = Killed(rts[r])]
    <3>1. rts'[r].status = "LOADED"
      BY <2>1, KilledType DEF HTypeOK
    <3> QED BY <3>1 DEF Late, Executing
  <2>2. CASE rts' = [rts EXCEPT ![r] = Advanced(r)]
    <3>1. rts'[r] = Advanced(r)
      BY <2>2 DEF HTypeOK
    <3>2. CASE rts[r].next < Len(table[r])
      <4>1. rts'[r].target \in Counts /\ rts'[r].target >= wakeups
        BY <3>1, <3>2, NewTargets
      <4>2. rts'[r].target \in Nat /\ wakeups \in Nat
        BY <4>1, RtsEngineAssumption DEF HTypeOK, Counts
      <4>3. ~(rts'[r].target < wakeups)
        BY <4>1, <4>2
      <4> QED BY <1>1, <4>3 DEF Late
    <3>3. CASE ~(rts[r].next < Len(table[r]))
      <4>1. rts'[r].status = "LOADED"
        BY <3>1, <3>3, AdvancedType
      <4> QED BY <4>1 DEF Late, Executing
    <3> QED BY <3>2, <3>3
  <2> QED BY <2>1, <2>2
<1>7. Late' \subseteq Late \ {r}
  <2> SUFFICES ASSUME NEW q \in Late' PROVE q \in Late
    BY <1>6
  <2>1. q \in RTSs /\ q # r
    BY <1>3, <1>6
  <2>2. rts'[q] = rts[q]
    BY <2>1 DEF HTypeOK
  <2> QED BY <1>1, <2>2 DEF Late, Executing
<1>8. Cardinality(Late') <= Cardinality(Late \ {r})
  <2>1. IsFiniteSet(Late \ {r})
    BY <1>5, FS_RemoveElement
  <2> QED BY <1>7, <2>1, FS_Subset
<1>9. CASE r \in Late
  <2>1. Cardinality(Late \ {r}) = Cardinality(Late) - 1
    BY <1>5, <1>9, FS_RemoveElement
  <2> QED BY <1>1, <1>2, <1>4, <1>5, <1>8, <2>1
<1>10. CASE r \notin Late
  <2>1. ASSUME NEW q \in Late PROVE FALSE
    <3>1. q # r /\ q \in Executing /\ rts[q].target < wakeups
      BY <1>10, <2>1 DEF Late
    <3>2. Before(r, q)
      BY <1>1, <3>1 DEF IsNextRts
    <3>3. rts[r].target \in Nat /\ rts[q].target \in Nat /\ wakeups \in Nat
      <4>1. rts[r].target \in Counts /\ rts[q].target \in Counts /\ wakeups \in Counts
        BY <1>3 DEF HTypeOK, RtsInfo
      <4> QED BY <4>1, RtsEngineAssumption DEF Counts
    <3>4. rts[r].target < wakeups
      BY <3>1, <3>2, <3>3 DEF Before
    <3> QED BY <1>1, <1>10, <3>4 DEF Late
  <2>2. Late' = {}
    BY <1>7, <2>1
  <2>3. Cardinality(Late') = 0
    BY <2>2, FS_EmptySet
  <2> QED BY <1>1, <1>4, <2>3
<1> QED BY <1>9, <1>10

\* The loop ends only when nothing is late.
LEMMA LateEnd ==
  ASSUME HTypeOK, LateInv, Horizon, NumRts + AtsShare <= Slots, EndWakeup
  PROVE  Late = {}
<1>1. inWakeup
  BY DEF EndWakeup
<1>2. Cardinality(Late) + numCmdsWakeup <= Slots
  BY <1>1 DEF LateInv
<1>3. Late \in SUBSET RTSs
  BY DEF Late, Executing
<1>4. IsFiniteSet(Late) /\ Cardinality(Late) \in Nat
  BY <1>3, FinitelyMany
<1>5. CASE numCmdsWakeup = Slots
  <2>1. Slots \in Nat
    BY RtsEngineAssumption
  <2>2. Cardinality(Late) = 0
    BY <1>2, <1>4, <1>5, <2>1
  <2> QED BY <1>4, <2>2, FS_EmptySet
<1>6. CASE \A r \in RTSs : ~(IsNextRts(r) /\ Due(r))
  <2> SUFFICES ASSUME NEW q \in Late PROVE FALSE
    OBVIOUS
  <2>1. q \in Executing /\ rts[q].target < wakeups
    BY DEF Late
  <2>2. PICK r \in RTSs : IsNextRts(r)
    BY <2>1, SomeNext
  <2>3. rts[r].target \in Nat /\ rts[q].target \in Nat /\ wakeups \in Nat
    <3>1. rts[r].target \in Counts /\ rts[q].target \in Counts /\ wakeups \in Counts
      BY <1>3 DEF HTypeOK, RtsInfo
    <3> QED BY <3>1, RtsEngineAssumption DEF Counts
  <2>4. r = q \/ Before(r, q)
    BY <2>1, <2>2 DEF IsNextRts
  <2>5. rts[r].target <= wakeups
    BY <2>1, <2>3, <2>4 DEF Before
  <2> QED BY <1>6, <2>2, <2>5 DEF Due
<1> QED BY <1>5, <1>6 DEF EndWakeup

LEMMA LateStep ==
  ASSUME HTypeOK, HTypeOK', LateInv, [HNext]_hvars
  PROVE  LateInv'
<1> SUFFICES ASSUME Horizon', NumRts + AtsShare <= Slots
             PROVE  IF inWakeup' THEN Cardinality(Late') + numCmdsWakeup' <= Slots
                                 ELSE Late' = {}
  BY DEF LateInv
<1>1. Horizon
  BY HorizonBack
<1>2. CASE UNCHANGED hvars
  <2>1. Late' = Late /\ inWakeup' = inWakeup /\ numCmdsWakeup' = numCmdsWakeup
    BY <1>2 DEF hvars, vars, Late, Executing
  <2> QED BY <1>1, <2>1 DEF LateInv
<1>3. CASE Command
  <2>1. ~inWakeup
    BY <1>3, CommandCases
  <2>2. Late = {}
    BY <1>1, <2>1 DEF LateInv
  <2>3. inWakeup' = inWakeup /\ wakeups' = wakeups
    <3>1. ASSUME NEW rs, Start(rs) \/ Stop(rs)
          PROVE  inWakeup' = inWakeup /\ wakeups' = wakeups
      BY <3>1 DEF Start, Stop
    <3>2. ASSUME NEW r, NEW t, ManageRtsTable(r, t)
          PROVE  inWakeup' = inWakeup /\ wakeups' = wakeups
      BY <3>2 DEF ManageRtsTable
    <3>3. ASSUME NEW r, NEW q, NEW flag, SetDisabled(r, q, flag)
          PROVE  inWakeup' = inWakeup /\ wakeups' = wakeups
      BY <3>3 DEF SetDisabled
    <3> QED BY <1>3, <3>1, <3>2, <3>3, CommandCases, Zenon
  <2>4. ASSUME NEW r \in RTSs, rts'[r].status = "EXECUTING"
        PROVE  ~(rts'[r].target < wakeups)
    <3>1. Fate(r)
      BY <1>3, <2>4, FateOfCommand
    <3>2. rts'[r].target \in Nat /\ wakeups \in Nat
      <4>1. rts'[r].target \in Counts /\ wakeups \in Counts
        BY DEF HTypeOK, RtsInfo
      <4> QED BY <4>1, RtsEngineAssumption DEF Counts
    <3>3. CASE rts'[r] = Started(r)
      BY <1>1, <3>2, <3>3, NewTargets
    <3>4. CASE rts'[r] = Advanced(r) /\ rts[r].next < Len(table[r])
      BY <1>1, <3>2, <3>4, NewTargets
    <3>5. CASE rts[r].status = "EXECUTING" /\ rts'[r].target = rts[r].target
      BY <2>2, <3>5 DEF Late, Executing
    <3> QED BY <3>1, <3>3, <3>4, <3>5 DEF Fate
  <2>5. Late' = {}
    BY <2>3, <2>4 DEF Late, Executing
  <2> QED BY <2>1, <2>3, <2>5
<1>4. CASE SendHk
  <2>1. /\ \A r \in RTSs : rts'[r].status = rts[r].status /\ rts'[r].target = rts[r].target
        /\ ~inWakeup /\ inWakeup' = inWakeup /\ wakeups' = wakeups
    BY <1>4 DEF SendHk, HTypeOK, RtsInfo
  <2>2. Late' = Late
    BY <2>1 DEF Late, Executing
  <2> QED BY <1>1, <2>1, <2>2 DEF LateInv
<1>5. ASSUME NEW ats \in 0 .. AtsShare, Wakeup(ats)
      PROVE  inWakeup' /\ Cardinality(Late') + numCmdsWakeup' <= Slots
  <2>1. inWakeup' /\ numCmdsWakeup' = ats
    BY <1>5 DEF Wakeup
  <2>2. Late' \in SUBSET RTSs
    BY DEF Late, Executing
  <2>3. Cardinality(Late') \in Nat /\ Cardinality(Late') <= NumRts
    BY <2>2, FinitelyMany
  <2>4. NumRts \in Nat /\ Slots \in Nat /\ AtsShare \in Nat /\ ats \in Nat /\ ats <= AtsShare
    BY RtsEngineAssumption
  <2> QED BY <2>1, <2>3, <2>4
<1>6. CASE EndWakeup
  <2>1. Late' = Late /\ ~inWakeup'
    BY <1>6 DEF EndWakeup, Late, Executing
  <2> QED BY <1>1, <1>6, <2>1, LateEnd
<1>7. ASSUME NEW r \in RTSs, RtpCommand(r) \/ RtpFailure(r)
      PROVE  inWakeup' /\ Cardinality(Late') + numCmdsWakeup' <= Slots
  <2>1. /\ Turn(r) /\ inWakeup'
        /\ \/ rts' = [rts EXCEPT ![r] = Killed(rts[r])]
           \/ rts' = [rts EXCEPT ![r] = Advanced(r)]
    BY <1>7 DEF RtpCommand, RtpFailure, Turn
  <2> QED BY <1>1, <2>1, LateTurn
<1> QED BY <1>2, <1>3, <1>4, <1>5, <1>6, <1>7 DEF HNext, Next, Loop

\* Between wakeups nothing that was due before the last one is still waiting.
THEOREM SequencesPunctual == HSpec => []Punctual
<1>1. HInit => LateInv
  <2>1. HInit => Late = {} /\ ~inWakeup
    BY NothingExecutes DEF Late, HInit, Init
  <2> QED BY <2>1 DEF LateInv
<1>2. HTypeOK /\ HTypeOK' /\ LateInv /\ [HNext]_hvars => LateInv'
  BY LateStep
<1>3. HTypeOK /\ LateInv => Punctual
  <2> SUFFICES ASSUME HTypeOK, LateInv, Horizon, ~inWakeup, NumRts + AtsShare <= Slots,
                      NEW r \in Executing
               PROVE  rts[r].target >= wakeups
    BY DEF Punctual
  <2>1. Late = {}
    BY DEF LateInv
  <2>2. rts[r].target \in Nat /\ wakeups \in Nat
    <3>1. rts[r].target \in Counts /\ wakeups \in Counts
      BY DEF HTypeOK, RtsInfo, Executing
    <3> QED BY <3>1, RtsEngineAssumption DEF Counts
  <2> QED BY <2>1, <2>2 DEF Late
<1> QED BY <1>1, <1>2, <1>3, TypeCorrect, PTL DEF HSpec

=============================================================================
