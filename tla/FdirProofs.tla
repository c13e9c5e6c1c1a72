----------------------------- MODULE FdirProofs -----------------------------
(***************************************************************************)
(* Proofs about the recovery loop: that the sampling is kept alive in      *)
(* exactly one place, for any depth of the pipes, and that the loop        *)
(* implements its promise for every startup wait that ends before an       *)
(* actionpoint can fill its count.                                         *)
(***************************************************************************)
EXTENDS FdirLoop, FiniteSetTheorems, SequenceTheorems, TLAPS

-----------------------------------------------------------------------------
(* Pipes.                                                                  *)

\* Some m comes before every n; some m comes after every n.
Leads(pipe, m, n) == \E i \in Places(pipe, m) : \A j \in Places(pipe, n) : i < j
Trails(pipe, m, n) == \E i \in Places(pipe, m) : \A j \in Places(pipe, n) : j < i

LEMMA PendingIsNat ==
  ASSUME NEW S, NEW p \in Seq(S), NEW m
  PROVE  /\ IsFiniteSet(Places(p, m)) /\ Pending(p, m) \in Nat
         /\ Pending(p, m) = 0 <=> Places(p, m) = {}
<1>1. Places(p, m) \in SUBSET (1 .. Len(p)) /\ Len(p) \in Int
  BY LenProperties DEF Places
<1>2. IsFiniteSet(1 .. Len(p))
  BY <1>1, FS_Interval
<1>3. IsFiniteSet(Places(p, m))
  BY <1>1, <1>2, FS_Subset
<1> QED BY <1>3, FS_CardinalityType, FS_EmptySet DEF Pending

LEMMA AppendPlaces ==
  ASSUME NEW S, NEW p \in Seq(S), NEW x \in S, NEW m
  PROVE  Places(Append(p, x), m)
           = IF x = m THEN Places(p, m) \cup {Len(p) + 1} ELSE Places(p, m)
  BY DEF Places

LEMMA AppendPending ==
  ASSUME NEW S, NEW p \in Seq(S), NEW x \in S, NEW m
  PROVE  Pending(Append(p, x), m) = Pending(p, m) + One(x = m)
<1>1. CASE x # m
  BY <1>1, AppendPlaces, PendingIsNat DEF Pending, One
<1>2. CASE x = m
  <2>1. Len(p) + 1 \notin Places(p, m)
    BY LenProperties DEF Places
  <2>2. Places(Append(p, x), m) = Places(p, m) \cup {Len(p) + 1}
    BY <1>2, AppendPlaces
  <2>3. Cardinality(Places(p, m) \cup {Len(p) + 1}) = Cardinality(Places(p, m)) + 1
    BY <2>1, PendingIsNat, FS_AddElement
  <2> QED BY <1>2, <2>2, <2>3 DEF Pending, One
<1> QED BY <1>1, <1>2

LEMMA TailPlaces ==
  ASSUME NEW S, NEW p \in Seq(S), p # <<>>, NEW m
  PROVE  /\ \A i \in Places(Tail(p), m) : i \in Nat \ {0} /\ i + 1 \in Places(p, m)
         /\ \A i \in Places(p, m) : i \in Nat \ {0} /\ (i = 1 \/ i - 1 \in Places(Tail(p), m))
         /\ 1 \in Places(p, m) <=> Head(p) = m
<1>1. /\ Tail(p) \in Seq(S) /\ Len(Tail(p)) = Len(p) - 1 /\ Len(p) \in Nat \ {0}
      /\ \A i \in 1 .. Len(Tail(p)) : Tail(p)[i] = p[i + 1]
      /\ DOMAIN p = 1 .. Len(p) /\ DOMAIN Tail(p) = 1 .. Len(Tail(p))
  BY HeadTailProperties, EmptySeq, LenProperties
<1>2. Head(p) = p[1]
  BY <1>1
<1>3. \A i \in Places(Tail(p), m) : i \in Nat \ {0} /\ i + 1 \in Places(p, m)
  BY <1>1 DEF Places
<1>4. ASSUME NEW i \in Places(p, m), i # 1
      PROVE  i - 1 \in Places(Tail(p), m)
  <2>1. i \in 1 .. Len(p) /\ p[i] = m
    BY <1>1 DEF Places
  <2>2. i - 1 \in 1 .. Len(Tail(p))
    BY <2>1, <1>1, <1>4
  <2>3. Tail(p)[i - 1] = p[i - 1 + 1]
    BY <2>2, <1>1
  <2>4. i - 1 + 1 = i
    BY <2>1
  <2> QED BY <2>1, <2>2, <2>3, <2>4, <1>1 DEF Places
<1>5. \A i \in Places(p, m) : i \in Nat \ {0}
  BY <1>1 DEF Places
<1>6. 1 \in Places(p, m) <=> Head(p) = m
  BY <1>1, <1>2 DEF Places
<1> QED BY <1>3, <1>4, <1>5, <1>6

LEMMA TailPending ==
  ASSUME NEW S, NEW p \in Seq(S), p # <<>>, NEW m
  PROVE  Pending(p, m) = Pending(Tail(p), m) + One(Head(p) = m)
<1> DEFINE T == Places(Tail(p), m)
           B == [i \in T |-> i + 1]
<1>1. Tail(p) \in Seq(S)
  BY HeadTailProperties
<1>2. IsFiniteSet(T) /\ IsFiniteSet(Places(p, m))
  BY <1>1, PendingIsNat
<1>3. B \in Bijection(T, Places(p, m) \ {1})
  <2>1. B \in [T -> Places(p, m) \ {1}]
    BY TailPlaces
  <2>2. \A i, j \in T : B[i] = B[j] => i = j
    BY TailPlaces
  <2>3. ASSUME NEW k \in Places(p, m) \ {1}
        PROVE  \E i \in T : B[i] = k
    <3>1. k - 1 \in T /\ k \in Nat
      BY TailPlaces
    <3>2. B[k - 1] = k
      BY <3>1
    <3> QED BY <3>1, <3>2
  <2> HIDE DEF T, B
  <2> QED BY <2>1, <2>2, <2>3 DEF Bijection, Injection, Surjection, IsInjective
<1>4. Cardinality(Places(p, m) \ {1}) = Cardinality(T)
  <2>1. ExistsBijection(T, Places(p, m) \ {1})
    BY <1>3 DEF ExistsBijection
  <2> HIDE DEF T, B
  <2> QED BY <2>1, <1>2, FS_Bijection
<1>5. Cardinality(Places(p, m) \ {1})
        = IF 1 \in Places(p, m) THEN Cardinality(Places(p, m)) - 1 ELSE Cardinality(Places(p, m))
  BY <1>2, FS_RemoveElement
<1>6. 1 \in Places(p, m) <=> Head(p) = m
  BY TailPlaces
<1>7. Cardinality(Places(p, m)) \in Nat
  BY <1>2, FS_CardinalityType
<1> HIDE DEF B
<1> QED BY <1>4, <1>5, <1>6, <1>7 DEF Pending, One

LEMMA LeadsIsPending ==
  ASSUME NEW S, NEW p \in Seq(S), NEW m, NEW n
  PROVE  /\ Leads(p, m, n) => Pending(p, m) > 0
         /\ Trails(p, m, n) => Pending(p, m) > 0
         /\ Pending(p, m) > 0 /\ Pending(p, n) = 0 => Leads(p, m, n)
<1>1. Pending(p, m) \in Nat /\ (Pending(p, m) = 0 <=> Places(p, m) = {})
  BY PendingIsNat
<1>2. Pending(p, n) = 0 => Places(p, n) = {}
  BY PendingIsNat
<1> QED BY <1>1, <1>2 DEF Leads, Trails

LEMMA LeadsHead ==
  ASSUME NEW S, NEW p \in Seq(S), p # <<>>, NEW m, NEW n, m # n, Leads(p, m, n)
  PROVE  Head(p) # n
<1>1. PICK i \in Places(p, m) : \A j \in Places(p, n) : i < j
  BY DEF Leads
<1>2. i \in Nat \ {0}
  BY TailPlaces
<1>3. 1 \notin Places(p, n)
  BY <1>1, <1>2
<1> QED BY <1>3, TailPlaces

LEMMA AppendLeads ==
  ASSUME NEW S, NEW p \in Seq(S), NEW x \in S, NEW m, NEW n, m # n, Leads(p, m, n)
  PROVE  Leads(Append(p, x), m, n)
<1>1. PICK i \in Places(p, m) : \A j \in Places(p, n) : i < j
  BY DEF Leads
<1>2. i \in Places(Append(p, x), m)
  BY AppendPlaces
<1>3. i \in 1 .. Len(p) /\ Len(p) \in Nat
  BY LenProperties DEF Places
<1>4. \A j \in Places(Append(p, x), n) : j = Len(p) + 1 \/ j \in Places(p, n)
  BY AppendPlaces
<1>5. \A j \in Places(Append(p, x), n) : i < j
  BY <1>1, <1>3, <1>4
<1> QED BY <1>2, <1>5 DEF Leads

LEMMA TailLeads ==
  ASSUME NEW S, NEW p \in Seq(S), p # <<>>, NEW m, NEW n, Head(p) # m, Leads(p, m, n)
  PROVE  Leads(Tail(p), m, n)
<1>1. PICK i \in Places(p, m) : \A j \in Places(p, n) : i < j
  BY DEF Leads
<1>2. i - 1 \in Places(Tail(p), m) /\ i \in Nat
  BY TailPlaces
<1>3. \A j \in Places(Tail(p), n) : j \in Nat /\ j + 1 \in Places(p, n)
  BY TailPlaces
<1>4. \A j \in Places(Tail(p), n) : i - 1 < j
  BY <1>1, <1>2, <1>3
<1> QED BY <1>2, <1>4 DEF Leads

LEMMA AppendTrails ==
  ASSUME NEW S, NEW p \in Seq(S), NEW x \in S, NEW m, NEW n, m # n,
         x = m \/ (Trails(p, m, n) /\ x # n)
  PROVE  Trails(Append(p, x), m, n)
<1>1. Len(p) \in Nat /\ \A j \in Places(p, n) : j \in 1 .. Len(p)
  BY LenProperties DEF Places
<1>2. CASE x = m
  <2>1. Len(p) + 1 \in Places(Append(p, x), m) /\ Places(Append(p, x), n) = Places(p, n)
    BY <1>2, AppendPlaces
  <2>2. \A j \in Places(Append(p, x), n) : j < Len(p) + 1
    BY <1>1, <2>1
  <2> QED BY <2>1, <2>2 DEF Trails
<1>3. CASE x # m
  <2>1. Places(Append(p, x), m) = Places(p, m) /\ Places(Append(p, x), n) = Places(p, n)
    BY <1>3, AppendPlaces
  <2> QED BY <1>3, <2>1 DEF Trails
<1> QED BY <1>2, <1>3

\* Taking the last m leaves no n behind.
LEMMA TailTrails ==
  ASSUME NEW S, NEW p \in Seq(S), p # <<>>, NEW m, NEW n, Trails(p, m, n)
  PROVE  \/ Trails(Tail(p), m, n)
         \/ Head(p) = m /\ Pending(Tail(p), n) = 0
<1>1. PICK i \in Places(p, m) : \A j \in Places(p, n) : j < i
  BY DEF Trails
<1>2. i \in Nat /\ (i = 1 \/ i - 1 \in Places(Tail(p), m))
  BY TailPlaces
<1>3. \A j \in Places(Tail(p), n) : j \in Nat \ {0} /\ j + 1 \in Places(p, n)
  BY TailPlaces
<1>4. CASE i = 1
  <2>1. Head(p) = m
    BY <1>4, TailPlaces
  <2>2. Places(Tail(p), n) = {}
    <3>1. ASSUME NEW j \in Places(Tail(p), n) PROVE FALSE
      BY <1>1, <1>3, <1>4
    <3> QED BY <3>1
  <2>3. Tail(p) \in Seq(S)
    BY HeadTailProperties
  <2> QED BY <2>1, <2>2, <2>3, PendingIsNat
<1>5. CASE i # 1
  <2>1. \A j \in Places(Tail(p), n) : j < i - 1
    BY <1>1, <1>2, <1>3
  <2> QED BY <1>2, <1>5, <2>1 DEF Trails
<1> QED BY <1>4, <1>5

LEMMA SentEffect ==
  ASSUME NEW S, NEW p \in Seq(S), NEW x \in S
  PROVE  /\ Sent(p, x) \in Seq(S)
         /\ \A m : Pending(Sent(p, x), m) = Pending(p, m) + One(x = m /\ Room(p, x))
         /\ \A m, n : m # n /\ Leads(p, m, n) => Leads(Sent(p, x), m, n)
         /\ \A m, n : m # n /\ x # n /\ Trails(p, m, n) => Trails(Sent(p, x), m, n)
         /\ \A n : x # n /\ Room(p, x) => Trails(Sent(p, x), x, n)
<1>1. CASE Room(p, x)
  <2>1. Sent(p, x) = Append(p, x) /\ Append(p, x) \in Seq(S)
    BY <1>1 DEF Sent
  <2> QED BY <1>1, <2>1, AppendPending, AppendLeads, AppendTrails
<1>2. CASE ~Room(p, x)
  <2>1. Sent(p, x) = p
    BY <1>2 DEF Sent
  <2>2. \A m : One(x = m /\ Room(p, x)) = 0 /\ Pending(p, m) \in Nat
    BY <1>2, PendingIsNat DEF One
  <2>3. \A m : Pending(p, m) = Pending(p, m) + 0
    BY <2>2
  <2> QED BY <1>2, <2>1, <2>2, <2>3
<1> QED BY <1>1, <1>2

-----------------------------------------------------------------------------
(* Messages, tables and types.                                             *)

LcMsgs == {Sample, Tlm, Arm(0), Arm(1)} \cup FromGround
ScMsgs == {WakeupMsg, Noop, Enable(3), Enable(4), StartMsg(1), StartMsg(3), Request}
Records == [executing : BOOLEAN, disabled : BOOLEAN, next : 1 .. 4, due : Int]

LcOK == /\ lcState \in LCStates
        /\ ap \in [AP -> [state : APStates, fails : 0 .. MaxFails]]
        /\ lcOut \in Seq(AP) /\ silenced \in SUBSET AP
PipesOK == lcPipe \in Seq(LcMsgs) /\ scPipe \in Seq(ScMsgs)
ScOK == /\ rts \in [RTSs -> Records] /\ inWakeup \in BOOLEAN
        /\ rts[3].executing => rts[3].next <= 2
        /\ rts[4].executing => rts[4].next <= 2

TypeInv == LcOK /\ PipesOK /\ ScOK

LEMMA ScMessages ==
  /\ WakeupMsg # Noop /\ WakeupMsg # Enable(3) /\ WakeupMsg # Enable(4)
  /\ WakeupMsg # StartMsg(1) /\ WakeupMsg # StartMsg(3) /\ WakeupMsg # Request
  /\ Noop # Enable(3) /\ Noop # Enable(4)
  /\ Noop # StartMsg(1) /\ Noop # StartMsg(3) /\ Noop # Request
  /\ Enable(3) # Enable(4) /\ StartMsg(1) # StartMsg(3)
  /\ StartMsg(1) # Request /\ StartMsg(3) # Request
  /\ \A r, q : Enable(r) # StartMsg(q) /\ Enable(r) # WakeupMsg /\ Enable(r) # Noop
  /\ Request = StartMsg(4)
<1>1. \A r : WakeupMsg # Enable(r) /\ WakeupMsg # StartMsg(r) /\ WakeupMsg # Noop
  <2>1. WakeupMsg.kind = "WAKEUP" /\ Noop.kind = "SC_CMD"
    BY DEF WakeupMsg, Noop
  <2>2. \A r : Enable(r).kind = "SC_CMD" /\ StartMsg(r).kind = "SC_CMD"
    BY DEF Enable, StartMsg
  <2> QED BY <2>1, <2>2
<1>2. \A r : Noop # Enable(r) /\ Noop # StartMsg(r)
  <2>1. Noop.code = "NOOP"
    BY DEF Noop
  <2>2. \A r : Enable(r).code = "ENABLE" /\ StartMsg(r).code = "START"
    BY DEF Enable, StartMsg
  <2> QED BY <2>1, <2>2
<1>3. \A r, q : Enable(r) # StartMsg(q)
  <2>1. \A r : Enable(r).code = "ENABLE" /\ StartMsg(r).code = "START"
    BY DEF Enable, StartMsg
  <2> QED BY <2>1
<1>4. \A r : Enable(r).rts = r /\ StartMsg(r).rts = r
  BY DEF Enable, StartMsg
<1>5. Enable(3) # Enable(4) /\ StartMsg(1) # StartMsg(3)
      /\ StartMsg(1) # StartMsg(4) /\ StartMsg(3) # StartMsg(4)
  BY <1>4
<1> QED BY <1>1, <1>2, <1>3, <1>5 DEF Request

LEMMA LcMessages ==
  /\ Sample # Tlm /\ Sample # Arm(0) /\ Sample # Arm(1) /\ Arm(0) # Arm(1)
  /\ \A a : Tlm # Arm(a) /\ Sample # Arm(a)
  /\ \A a, b, s, by : Arm(a) = SetAP(b, s, by) => a = b /\ s = "ACTIVE" /\ by = "RTS"
  /\ \A a, s, by : Sample # SetAP(a, s, by)
  /\ \A s : Sample # SetLC(s) /\ \A a : Arm(a) # SetLC(s)
<1>1. /\ Sample.kind = "SAMPLE" /\ Tlm.kind = "TLM"
      /\ \A a, s, by : SetAP(a, s, by).kind = "LC_CMD"
      /\ \A s : SetLC(s).kind = "LC_CMD"
  BY DEF Sample, Tlm, SetAP, SetLC
<1>2. \A a, s, by : SetAP(a, s, by).ap = a /\ SetAP(a, s, by).state = s /\ SetAP(a, s, by).by = by
  BY DEF SetAP
<1>3. \A s, a : SetLC(s) # Arm(a)
  <2> SUFFICES ASSUME NEW s, NEW a, SetLC(s) = Arm(a) PROVE FALSE
    OBVIOUS
  <2>1. DOMAIN SetLC(s) = {"kind", "state"} /\ DOMAIN Arm(a) = {"kind", "ap", "state", "by"}
    BY DEF SetLC, Arm, SetAP
  <2> QED BY <2>1
<1>4. \A a : Arm(a) = SetAP(a, "ACTIVE", "RTS")
  BY DEF Arm
<1>5. Sample # Tlm /\ \A a : Tlm # Arm(a) /\ Sample # Arm(a)
  BY <1>1, <1>4
<1>6. \A a, b, s, by : Arm(a) = SetAP(b, s, by) => a = b /\ s = "ACTIVE" /\ by = "RTS"
  BY <1>2, <1>4
<1>7. Arm(0) # Arm(1)
  BY <1>6, <1>4
<1>8. \A a, s, by : Sample # SetAP(a, s, by)
  BY <1>1
<1>9. \A s : Sample # SetLC(s)
  BY <1>1
<1> QED BY <1>3, <1>5, <1>6, <1>7, <1>8, <1>9

\* Only RTS 4 sends a command in the name of an RTS, and it arms.
LEMMA FromRts ==
  ASSUME NEW a \in AP, NEW s, SetAP(a, s, "RTS") \in LcMsgs
  PROVE  SetAP(a, s, "RTS") = Arm(a)
<1>1. SetAP(a, s, "RTS").by = "RTS" /\ SetAP(a, s, "RTS").kind = "LC_CMD"
      /\ SetAP(a, s, "RTS").ap = a /\ SetAP(a, s, "RTS").state = s
  BY DEF SetAP
<1>2. Sample.kind # "LC_CMD" /\ Tlm.kind # "LC_CMD"
  BY DEF Sample, Tlm
<1>3. \A c : Arm(c).ap = c /\ Arm(c).state = "ACTIVE"
  BY DEF Arm, SetAP
<1>4. ASSUME SetAP(a, s, "RTS") \in FromGround PROVE FALSE
  <2>1. CASE \E t \in LCStates : SetAP(a, s, "RTS") = SetLC(t)
    <3>1. PICK t \in LCStates : SetAP(a, s, "RTS") = SetLC(t)
      BY <2>1
    <3>2. DOMAIN SetLC(t) = {"kind", "state"}
          /\ DOMAIN SetAP(a, s, "RTS") = {"kind", "ap", "state", "by"}
      BY DEF SetLC, SetAP
    <3> QED BY <3>1, <3>2
  <2>2. CASE \E b \in AP, t \in APStates : SetAP(a, s, "RTS") = SetAP(b, t, "GROUND")
    <3>1. PICK b \in AP, t \in APStates : SetAP(a, s, "RTS") = SetAP(b, t, "GROUND")
      BY <2>2
    <3>2. SetAP(b, t, "GROUND").by = "GROUND"
      BY DEF SetAP
    <3> QED BY <1>1, <3>1, <3>2
  <2> QED BY <1>4, <2>1, <2>2 DEF FromGround
<1>5. \E c \in {0, 1} : SetAP(a, s, "RTS") = Arm(c)
  BY <1>1, <1>2, <1>4 DEF LcMsgs
<1>6. PICK c \in {0, 1} : SetAP(a, s, "RTS") = Arm(c)
  BY <1>5
<1>7. c = a
  BY <1>1, <1>3, <1>6
<1> QED BY <1>6, <1>7

LEMMA TableFacts ==
  /\ Len(Table(1)) = 4 /\ Len(Table(3)) = 2 /\ Len(Table(4)) = 2
  /\ Table(1)[1] = Cmd(0, Noop) /\ Table(1)[2] = Cmd(StartupWait, Enable(3))
  /\ Table(1)[3] = Cmd(StartupWait, StartMsg(3)) /\ Table(1)[4] = Cmd(StartupWait, Enable(4))
  /\ Table(3)[1] = Cmd(0, Sample) /\ Table(3)[2] = Cmd(2, StartMsg(3))
  /\ Table(4)[1] = Cmd(0, Arm(0)) /\ Table(4)[2] = Cmd(1, Arm(1))
  /\ \A w, m : Cmd(w, m).wait = w /\ Cmd(w, m).msg = m
<1>1. Table(1) = Rts001 /\ Table(3) = Rts003 /\ Table(4) = Rts004
  BY DEF Table
<1>2. /\ Len(Rts001) = 4 /\ Rts001[1] = Cmd(0, Noop) /\ Rts001[2] = Cmd(StartupWait, Enable(3))
      /\ Rts001[3] = Cmd(StartupWait, StartMsg(3)) /\ Rts001[4] = Cmd(StartupWait, Enable(4))
  BY DEF Rts001
<1>3. Len(Rts003) = 2 /\ Rts003[1] = Cmd(0, Sample) /\ Rts003[2] = Cmd(2, StartMsg(3))
  BY DEF Rts003
<1>4. Len(Rts004) = 2 /\ Rts004[1] = Cmd(0, Arm(0)) /\ Rts004[2] = Cmd(1, Arm(1))
  BY DEF Rts004
<1>5. \A w, m : Cmd(w, m).wait = w /\ Cmd(w, m).msg = m
  BY DEF Cmd
<1> QED BY <1>1, <1>2, <1>3, <1>4, <1>5

-----------------------------------------------------------------------------
(* What a turn of SC does.                                                 *)

Goes(r, k, wait) == rts'[r].executing /\ rts'[r].next = k /\ rts'[r].due = wait
Leaves(r) == /\ rts'[r].disabled = rts[r].disabled
             /\ \A q \in RTSs \ {r} : rts'[q] = rts[q]
Lost(pipe, m, what) == Room(pipe, m) \/ what \in lost'

LEMMA TurnMoves ==
  ASSUME TypeInv, NEW r \in RTSs, ScTurn(r)
  PROVE  /\ inWakeup /\ inWakeup' /\ rts[r].executing /\ rts[r].due <= 0 /\ IsNextRts(r)
         /\ rts[r].next \in 1 .. Len(Table(r))
         /\ rts' \in [RTSs -> Records] /\ Leaves(r)
         /\ rts[r].next < Len(Table(r)) =>
              Goes(r, rts[r].next + 1, Table(r)[rts[r].next + 1].wait)
         /\ rts[r].next = Len(Table(r)) => ~rts'[r].executing
         /\ UNCHANGED <<lcState, ap, lcOut, silenced, ground>>
<1>1. /\ inWakeup /\ inWakeup' = inWakeup /\ IsNextRts(r) /\ rts[r].due <= 0
      /\ rts' = [rts EXCEPT ![r] = Advanced(r)]
      /\ UNCHANGED <<lcState, ap, lcOut, silenced, ground>>
  BY DEF ScTurn, lcVars
<1>2. rts[r].executing
  BY <1>1 DEF IsNextRts, Executing
<1>3. rts[r] \in Records /\ rts \in [RTSs -> Records]
  BY DEF TypeInv, ScOK
<1>4. rts[r].next \in 1 .. Len(Table(r)) /\ Len(Table(r)) <= 4
  <2>1. rts[r].next \in 1 .. 4
    BY <1>3 DEF Records
  <2>2. CASE r = 1
    <3>1. Len(Table(r)) = 4
      BY <2>2, TableFacts, Zenon
    <3> QED BY <2>1, <3>1
  <2>3. CASE r = 3 \/ r = 4
    <3>1. rts[r].next <= 2
      BY <1>2, <2>3, Zenon DEF TypeInv, ScOK
    <3>2. Len(Table(r)) = 2
      BY <2>3, TableFacts, Zenon
    <3> QED BY <2>1, <3>1, <3>2
  <2> QED BY <2>2, <2>3, Zenon DEF RTSs
<1>5. \A k \in 1 .. Len(Table(r)) : Table(r)[k].wait \in Nat
  <2>1. StartupWait \in Nat
    BY FdirLoopAssumption
  <2>2. r = 1 \/ r = 3 \/ r = 4
    BY DEF RTSs
  <2>3. 1 .. 4 = {1, 2, 3, 4} /\ 1 .. 2 = {1, 2}
    OBVIOUS
  <2> QED BY <2>1, <2>2, <2>3, TableFacts
<1>6. CASE rts[r].next < Len(Table(r))
  <2>1. Advanced(r) = [rts[r] EXCEPT !.next = rts[r].next + 1,
                                     !.due = Table(r)[rts[r].next + 1].wait]
    BY <1>6 DEF Advanced
  <2>2. rts[r].next + 1 \in 1 .. 4 /\ Table(r)[rts[r].next + 1].wait \in Int
    BY <1>4, <1>5, <1>6
  <2>3. Advanced(r) \in Records /\ Advanced(r).disabled = rts[r].disabled
        /\ Advanced(r).executing = rts[r].executing /\ Advanced(r).next = rts[r].next + 1
        /\ Advanced(r).due = Table(r)[rts[r].next + 1].wait
    BY <2>1, <2>2, <1>3 DEF Records
  <2>4. rts' \in [RTSs -> Records] /\ rts'[r] = Advanced(r) /\ \A q \in RTSs \ {r} : rts'[q] = rts[q]
    BY <2>3, <1>1, <1>3
  <2>5. Goes(r, rts[r].next + 1, Table(r)[rts[r].next + 1].wait) /\ Leaves(r)
    BY <2>3, <2>4, <1>2, Zenon DEF Goes, Leaves
  <2> QED BY <2>4, <2>5, <1>1, <1>2, <1>4, <1>6
<1>7. CASE rts[r].next = Len(Table(r))
  <2>1. Advanced(r) = [rts[r] EXCEPT !.executing = FALSE, !.next = 1, !.due = 0]
    BY <1>7, <1>4 DEF Advanced
  <2>2. Advanced(r) \in Records /\ Advanced(r).disabled = rts[r].disabled
        /\ Advanced(r).executing = FALSE
    <3>1. rts[r] = [executing |-> rts[r].executing, disabled |-> rts[r].disabled,
                    next |-> rts[r].next, due |-> rts[r].due]
          /\ rts[r].disabled \in BOOLEAN
      BY <1>3 DEF Records
    <3>2. Advanced(r) = [executing |-> FALSE, disabled |-> rts[r].disabled, next |-> 1, due |-> 0]
      BY <2>1, <3>1
    <3> QED BY <3>1, <3>2 DEF Records
  <2>3. rts' \in [RTSs -> Records] /\ rts'[r] = Advanced(r) /\ \A q \in RTSs \ {r} : rts'[q] = rts[q]
    BY <2>2, <1>1, <1>3
  <2>4. ~rts'[r].executing /\ Leaves(r)
    BY <2>2, <2>3, Zenon DEF Leaves
  <2> QED BY <2>3, <2>4, <1>1, <1>2, <1>4, <1>7
<1> QED BY <1>4, <1>6, <1>7

LEMMA TurnToSc ==
  ASSUME NEW r \in RTSs, ScTurn(r),
         NEW m \in {Noop, Enable(3), Enable(4), StartMsg(3)}, Table(r)[rts[r].next].msg = m
  PROVE  /\ scPipe' = Sent(scPipe, m) /\ lcPipe' = lcPipe /\ lost \subseteq lost'
         /\ m \in {Enable(3), Enable(4)} => Lost(scPipe, m, "ENABLE")
         /\ m = StartMsg(3) => Lost(scPipe, m, "START")
<1>1. m.kind = "SC_CMD"
  BY DEF Noop, Enable, StartMsg
<1>2. LossName(m) = m.code
  BY <1>1 DEF LossName
<1>3. ~(m.kind \in {"SAMPLE", "LC_CMD"})
  BY <1>1
<1>4. /\ scPipe' = Sent(scPipe, m) /\ lcPipe' = lcPipe
      /\ lost' = lost \cup Loss(scPipe, m, m.code)
  BY <1>2, <1>3 DEF ScTurn
<1>5. m \in {Enable(3), Enable(4)} => m.code = "ENABLE"
  BY DEF Enable
<1>6. m = StartMsg(3) => m.code = "START"
  BY DEF StartMsg
<1>7. \A what \in Losses : m.code = what => Lost(scPipe, m, what)
  BY <1>4 DEF Lost, Loss
<1> QED BY <1>4, <1>5, <1>6, <1>7 DEF Losses

LEMMA TurnToLc ==
  ASSUME NEW r \in RTSs, ScTurn(r),
         NEW m \in {Sample, Arm(0), Arm(1)}, Table(r)[rts[r].next].msg = m
  PROVE  /\ lcPipe' = Sent(lcPipe, m) /\ scPipe' = scPipe /\ lost \subseteq lost'
         /\ m \in {Arm(0), Arm(1)} => Lost(lcPipe, m, "ARM")
<1>1. m.kind \in {"SAMPLE", "LC_CMD"}
  BY DEF Sample, Arm, SetAP
<1>2. /\ lcPipe' = Sent(lcPipe, m) /\ scPipe' = scPipe
      /\ lost' = lost \cup Loss(lcPipe, m, LossName(m))
  BY <1>1 DEF ScTurn
<1>3. m \in {Arm(0), Arm(1)} => m.kind = "LC_CMD"
  BY DEF Arm, SetAP
<1>4. m \in {Arm(0), Arm(1)} => LossName(m) = "ARM"
  BY <1>3 DEF LossName
<1>5. LossName(m) = "ARM" => Lost(lcPipe, m, "ARM")
  BY <1>2 DEF Lost, Loss, Losses
<1> QED BY <1>2, <1>4, <1>5

\* Command by command.
LEMMA TurnOfOne ==
  ASSUME TypeInv, ScTurn(1)
  PROVE  /\ lcPipe' = lcPipe /\ lost \subseteq lost' /\ Leaves(1)
         /\ \/ /\ rts[1].next = 1 /\ Goes(1, 2, StartupWait) /\ scPipe' = Sent(scPipe, Noop)
            \/ /\ rts[1].next = 2 /\ Goes(1, 3, StartupWait) /\ scPipe' = Sent(scPipe, Enable(3))
               /\ Lost(scPipe, Enable(3), "ENABLE")
            \/ /\ rts[1].next = 3 /\ Goes(1, 4, StartupWait) /\ scPipe' = Sent(scPipe, StartMsg(3))
               /\ Lost(scPipe, StartMsg(3), "START")
            \/ /\ rts[1].next = 4 /\ ~rts'[1].executing /\ scPipe' = Sent(scPipe, Enable(4))
               /\ Lost(scPipe, Enable(4), "ENABLE")
<1>0. 1 \in RTSs
  BY DEF RTSs
<1>1. rts[1].next \in 1 .. 4 /\ Leaves(1)
  BY <1>0, TurnMoves, TableFacts
<1>2. CASE rts[1].next = 1
  <2>1. Goes(1, 2, StartupWait)
    BY <1>0, <1>2, TurnMoves, TableFacts
  <2>2. Table(1)[rts[1].next].msg = Noop
    BY <1>2, TableFacts
  <2> QED BY <1>0, <1>1, <1>2, <2>1, <2>2, TurnToSc
<1>3. CASE rts[1].next = 2
  <2>1. Goes(1, 3, StartupWait)
    BY <1>0, <1>3, TurnMoves, TableFacts
  <2>2. Table(1)[rts[1].next].msg = Enable(3)
    BY <1>3, TableFacts
  <2> QED BY <1>0, <1>1, <1>3, <2>1, <2>2, TurnToSc
<1>4. CASE rts[1].next = 3
  <2>1. Goes(1, 4, StartupWait)
    BY <1>0, <1>4, TurnMoves, TableFacts
  <2>2. Table(1)[rts[1].next].msg = StartMsg(3)
    BY <1>4, TableFacts
  <2> QED BY <1>0, <1>1, <1>4, <2>1, <2>2, TurnToSc
<1>5. CASE rts[1].next = 4
  <2>1. ~rts'[1].executing
    BY <1>0, <1>5, TurnMoves, TableFacts
  <2>2. Table(1)[rts[1].next].msg = Enable(4)
    BY <1>5, TableFacts
  <2> QED BY <1>0, <1>1, <1>5, <2>1, <2>2, TurnToSc
<1> QED BY <1>1, <1>2, <1>3, <1>4, <1>5

LEMMA TurnOfThree ==
  ASSUME TypeInv, ScTurn(3)
  PROVE  /\ lost \subseteq lost' /\ Leaves(3)
         /\ \/ /\ rts[3].next = 1 /\ Goes(3, 2, 2)
               /\ lcPipe' = Sent(lcPipe, Sample) /\ scPipe' = scPipe
            \/ /\ rts[3].next = 2 /\ ~rts'[3].executing
               /\ scPipe' = Sent(scPipe, StartMsg(3)) /\ lcPipe' = lcPipe
               /\ Lost(scPipe, StartMsg(3), "START")
<1>0. 3 \in RTSs
  BY DEF RTSs
<1>1. rts[3].next \in 1 .. 2 /\ Leaves(3)
  BY <1>0, TurnMoves, TableFacts
<1>2. CASE rts[3].next = 1
  <2>1. Goes(3, 2, 2)
    BY <1>0, <1>2, TurnMoves, TableFacts
  <2>2. Table(3)[rts[3].next].msg = Sample
    BY <1>2, TableFacts
  <2> QED BY <1>0, <1>1, <1>2, <2>1, <2>2, TurnToLc
<1>3. CASE rts[3].next = 2
  <2>1. ~rts'[3].executing
    BY <1>0, <1>3, TurnMoves, TableFacts
  <2>2. Table(3)[rts[3].next].msg = StartMsg(3)
    BY <1>3, TableFacts
  <2> QED BY <1>0, <1>1, <1>3, <2>1, <2>2, TurnToSc
<1> QED BY <1>1, <1>2, <1>3

LEMMA TurnOfFour ==
  ASSUME TypeInv, ScTurn(4)
  PROVE  /\ lost \subseteq lost' /\ Leaves(4) /\ scPipe' = scPipe
         /\ \/ /\ rts[4].next = 1 /\ Goes(4, 2, 1) /\ lcPipe' = Sent(lcPipe, Arm(0))
               /\ Lost(lcPipe, Arm(0), "ARM")
            \/ /\ rts[4].next = 2 /\ ~rts'[4].executing /\ lcPipe' = Sent(lcPipe, Arm(1))
               /\ Lost(lcPipe, Arm(1), "ARM")
<1>0. 4 \in RTSs
  BY DEF RTSs
<1>1. rts[4].next \in 1 .. 2 /\ Leaves(4)
  BY <1>0, TurnMoves, TableFacts
<1>2. CASE rts[4].next = 1
  <2>1. Goes(4, 2, 1)
    BY <1>0, <1>2, TurnMoves, TableFacts
  <2>2. Table(4)[rts[4].next].msg = Arm(0)
    BY <1>2, TableFacts
  <2> QED BY <1>0, <1>1, <1>2, <2>1, <2>2, TurnToLc
<1>3. CASE rts[4].next = 2
  <2>1. ~rts'[4].executing
    BY <1>0, <1>3, TurnMoves, TableFacts
  <2>2. Table(4)[rts[4].next].msg = Arm(1)
    BY <1>3, TableFacts
  <2> QED BY <1>0, <1>1, <1>3, <2>1, <2>2, TurnToLc
<1> QED BY <1>1, <1>2, <1>3

-----------------------------------------------------------------------------
(* What taking a message does.                                             *)

LEMMA ScTaking ==
  ASSUME PipesOK, NEW m, ScTakes(m)
  PROVE  /\ m \in ScMsgs /\ scPipe' \in Seq(ScMsgs) /\ ~inWakeup
         /\ \A n : Pending(scPipe, n) = Pending(scPipe', n) + One(m = n)
         /\ \A x, n : x # m /\ Leads(scPipe, x, n) => Leads(scPipe', x, n)
         /\ \A x, n : x # n /\ Leads(scPipe, x, n) => m # n
         /\ UNCHANGED <<lcState, ap, lcOut, silenced, lcPipe, ground, lost>>
<1>1. scPipe \in Seq(ScMsgs) /\ scPipe # <<>> /\ Head(scPipe) = m /\ scPipe' = Tail(scPipe)
      /\ ~inWakeup /\ UNCHANGED <<lcState, ap, lcOut, silenced, lcPipe, ground, lost>>
  BY DEF ScTakes, PipesOK, lcVars
<1> QED BY <1>1, HeadTailProperties, TailPending, TailLeads, LeadsHead

LEMMA LcTaking ==
  ASSUME PipesOK, NEW m, LcTakes(m)
  PROVE  /\ m \in LcMsgs /\ lcPipe' \in Seq(LcMsgs) /\ lcOut = <<>>
         /\ \A n : Pending(lcPipe, n) = Pending(lcPipe', n) + One(m = n)
         /\ \A x, n : Trails(lcPipe, x, n) =>
               Trails(lcPipe', x, n) \/ (m = x /\ Pending(lcPipe', n) = 0)
         /\ UNCHANGED <<rts, inWakeup, scPipe, ground, lost>>
<1>1. lcPipe \in Seq(LcMsgs) /\ lcPipe # <<>> /\ Head(lcPipe) = m /\ lcPipe' = Tail(lcPipe)
      /\ lcOut = <<>> /\ UNCHANGED <<rts, inWakeup, scPipe, ground, lost>>
  BY DEF LcTakes, PipesOK, scVars
<1> QED BY <1>1, HeadTailProperties, TailPending, TailTrails

LEMMA Starts ==
  ASSUME TypeInv, NEW r \in RTSs, ScStart(r)
  PROVE  /\ rts' \in [RTSs -> Records] /\ Leaves(r) /\ inWakeup' = inWakeup
         /\ IF rts[r].disabled \/ rts[r].executing THEN rts' = rts ELSE Goes(r, 1, 0)
<1>0. rts \in [RTSs -> Records] /\ inWakeup' = inWakeup
  BY DEF TypeInv, ScOK, ScStart
<1>1. Table(r)[1].wait = 0
  BY TableFacts DEF RTSs
<1>2. rts' = IF rts[r].disabled \/ rts[r].executing THEN rts
             ELSE [rts EXCEPT ![r].executing = TRUE, ![r].next = 1, ![r].due = 0]
  BY <1>1 DEF ScStart
<1>3. CASE rts[r].disabled \/ rts[r].executing
  BY <1>0, <1>2, <1>3 DEF Leaves
<1>4. CASE ~(rts[r].disabled \/ rts[r].executing)
  <2>1. rts' = [rts EXCEPT ![r].executing = TRUE, ![r].next = 1, ![r].due = 0]
    BY <1>2, <1>4
  <2>2. rts[r] \in Records
    BY <1>0
  <2>3. /\ rts'[r].executing = TRUE /\ rts'[r].next = 1 /\ rts'[r].due = 0
        /\ rts'[r].disabled = rts[r].disabled
    BY <2>1, <2>2, <1>0 DEF Records
  <2>4. \A q \in RTSs \ {r} : rts'[q] = rts[q]
    BY <2>1, <1>0
  <2>5. rts'[r] \in Records
    <3>1. rts[r] = [executing |-> rts[r].executing, disabled |-> rts[r].disabled,
                    next |-> rts[r].next, due |-> rts[r].due]
          /\ rts[r].disabled \in BOOLEAN
      BY <2>2 DEF Records
    <3>2. rts'[r] = [executing |-> TRUE, disabled |-> rts[r].disabled, next |-> 1, due |-> 0]
      BY <2>1, <3>1, <1>0
    <3> QED BY <3>1, <3>2 DEF Records
  <2>6. rts' \in [RTSs -> Records]
    <3>1. DOMAIN rts' = RTSs /\ \A q \in RTSs : rts'[q] \in Records
      BY <2>1, <2>4, <2>5, <1>0
    <3> QED BY <2>1, <3>1, <1>0
  <2>7. Goes(r, 1, 0) /\ Leaves(r)
    BY <2>3, <2>4, Zenon DEF Goes, Leaves
  <2> QED BY <1>0, <1>4, <2>6, <2>7
<1> QED BY <1>3, <1>4

LEMMA Enables ==
  ASSUME TypeInv, NEW r, ScEnable(r)
  PROVE  /\ r \in {3, 4} /\ rts' \in [RTSs -> Records] /\ inWakeup' = inWakeup
         /\ ~rts'[r].disabled
         /\ \A q \in RTSs : /\ q # r => rts'[q].disabled = rts[q].disabled
                            /\ rts'[q].executing = rts[q].executing
                            /\ rts'[q].next = rts[q].next /\ rts'[q].due = rts[q].due
<1>1. Enable(r) \in ScMsgs
  BY ScTaking DEF ScEnable, TypeInv
<1>2. Enable(r) = Enable(3) \/ Enable(r) = Enable(4)
  BY <1>1, ScMessages DEF ScMsgs
<1>3. \A q : Enable(q).rts = q
  BY DEF Enable
<1>4. r \in {3, 4} /\ r \in RTSs
  BY <1>2, <1>3 DEF RTSs
<1>5. rts' = [rts EXCEPT ![r].disabled = FALSE] /\ inWakeup' = inWakeup
  BY DEF ScEnable
<1>6. rts \in [RTSs -> Records]
  BY DEF TypeInv, ScOK
<1>7. \A q \in RTSs : /\ rts'[q] \in Records
                      /\ q # r => rts'[q].disabled = rts[q].disabled
                      /\ rts'[q].executing = rts[q].executing
                      /\ rts'[q].next = rts[q].next /\ rts'[q].due = rts[q].due
  BY <1>4, <1>5, <1>6 DEF Records
<1>8. rts'[r].disabled = FALSE
  BY <1>4, <1>5, <1>6 DEF Records
<1>9. rts' \in [RTSs -> Records]
  BY <1>5, <1>6, <1>7
<1> QED BY <1>4, <1>5, <1>7, <1>8, <1>9

LEMMA Wakes ==
  ASSUME TypeInv, ScWakeup
  PROVE  /\ rts' \in [RTSs -> Records] /\ inWakeup'
         /\ \A q \in RTSs : /\ rts'[q].disabled = rts[q].disabled
                            /\ rts'[q].executing = rts[q].executing
                            /\ rts'[q].next = rts[q].next
                            /\ rts[q].executing => rts'[q].due = rts[q].due - 1
<1>1. rts' = [q \in RTSs |-> IF q \in Executing THEN [rts[q] EXCEPT !.due = @ - 1] ELSE rts[q]]
      /\ inWakeup' = TRUE
  BY DEF ScWakeup
<1>2. rts \in [RTSs -> Records]
  BY DEF TypeInv, ScOK
<1>3. ASSUME NEW q \in RTSs
      PROVE  /\ rts'[q] \in Records
             /\ rts'[q].disabled = rts[q].disabled
             /\ rts'[q].executing = rts[q].executing
             /\ rts'[q].next = rts[q].next
             /\ rts[q].executing => rts'[q].due = rts[q].due - 1
  <2>1. rts[q] \in Records
    BY <1>2
  <2>2. CASE q \in Executing
    <3>1. rts'[q] = [rts[q] EXCEPT !.due = rts[q].due - 1]
      BY <1>1, <2>2
    <3> QED BY <2>1, <3>1 DEF Records
  <2>3. CASE q \notin Executing
    <3>1. rts'[q] = rts[q]
      BY <1>1, <2>3
    <3>2. ~rts[q].executing
      BY <2>3 DEF Executing
    <3> QED BY <2>1, <3>1, <3>2
  <2> QED BY <2>2, <2>3
<1>4. rts' \in [RTSs -> Records]
  BY <1>1, <1>3
<1> QED BY <1>1, <1>3, <1>4

-----------------------------------------------------------------------------
(* Types.                                                                  *)

LEMMA InitTypeInv == Init => TypeInv
<1> SUFFICES ASSUME Init PROVE TypeInv
  OBVIOUS
<1>1. LcOK
  <2>1. 0 \in 0 .. MaxFails
    BY FdirLoopAssumption
  <2> QED BY <2>1 DEF Init, LcOK, LCStates, APStates
<1>2. PipesOK
  BY DEF Init, PipesOK, ScMsgs
<1>3. ScOK
  <2>1. \A b \in BOOLEAN : [Idle EXCEPT !.disabled = b] \in Records
                           /\ [Idle EXCEPT !.disabled = b].executing = FALSE
    <3>1. \A b \in BOOLEAN : [Idle EXCEPT !.disabled = b] \in Records
      <4>1. Idle \in Records
        BY DEF Idle, Records
      <4>2. \A x \in Records, b \in BOOLEAN : [x EXCEPT !.disabled = b] \in Records
        BY DEF Records
      <4> QED BY <4>1, <4>2, Zenon
    <3>2. \A b : [Idle EXCEPT !.disabled = b].executing = Idle.executing
      BY DEF Idle
    <3> QED BY <3>1, <3>2 DEF Idle
  <2>2. \A r \in RTSs : rts[r] \in Records /\ ~rts[r].executing
    <3>1. \A r \in RTSs : (r # 1) \in BOOLEAN /\ rts[r] = [Idle EXCEPT !.disabled = r # 1]
      BY DEF Init
    <3> QED BY <2>1, <3>1, Zenon
  <2>3. rts \in [RTSs -> Records]
    BY <2>2 DEF Init
  <2> QED BY <2>2, <2>3 DEF Init, ScOK, RTSs
<1> QED BY <1>1, <1>2, <1>3 DEF TypeInv

LEMMA SampleTypes ==
  ASSUME TypeInv, NEW v \in [AP -> Verdicts], LcSample(v)
  PROVE  LcOK'
<1>1. /\ ap \in [AP -> [state : APStates, fails : 0 .. MaxFails]]
      /\ MaxFails \in Nat /\ silenced \in SUBSET AP /\ lcState \in LCStates
  BY FdirLoopAssumption DEF TypeInv, LcOK
<1> DEFINE fired == {a \in AP : Fires(a, v[a])}
<1>2. /\ ap' = [a \in AP |-> IF ~Sampled(a) THEN ap[a]
                             ELSE [state |-> IF a \in fired THEN "PASSIVE" ELSE ap[a].state,
                                   fails |-> FailsAfter(a, v[a])]]
      /\ lcOut' = Requests(fired)
      /\ silenced' = IF lcState = "ACTIVE" THEN silenced ELSE silenced \cup fired
      /\ lcState' = lcState
  BY DEF LcSample
<1>3. \A a \in AP : FailsAfter(a, v[a]) \in 0 .. MaxFails
  <2> SUFFICES ASSUME NEW a \in AP PROVE FailsAfter(a, v[a]) \in 0 .. MaxFails
    OBVIOUS
  <2>1. v[a] = "FAIL" \/ v[a] = "PASS" \/ v[a] = "ERROR"
    BY DEF Verdicts
  <2>2. ap[a].fails \in 0 .. MaxFails
    BY <1>1
  <2> QED BY <1>1, <2>1, <2>2 DEF FailsAfter
<1>4. ap' \in [AP -> [state : APStates, fails : 0 .. MaxFails]]
  <2>1. ASSUME NEW a \in AP
        PROVE  (IF ~Sampled(a) THEN ap[a]
                ELSE [state |-> IF a \in fired THEN "PASSIVE" ELSE ap[a].state,
                      fails |-> FailsAfter(a, v[a])]) \in [state : APStates, fails : 0 .. MaxFails]
    <3>1. ap[a] \in [state : APStates, fails : 0 .. MaxFails] /\ ap[a].state \in APStates
      BY <1>1
    <3>2. (IF a \in fired THEN "PASSIVE" ELSE ap[a].state) \in APStates
      BY <3>1 DEF APStates
    <3> QED BY <3>1, <3>2, <1>3
  <2> QED BY <1>2, <2>1
<1>5. Requests(fired) \in Seq(AP)
  <2>1. <<>> \in Seq(AP) /\ <<0>> \in Seq(AP) /\ <<1>> \in Seq(AP)
    BY DEF AP
  <2>2. \A s, t \in Seq(AP) : s \o t \in Seq(AP)
    BY ConcatProperties
  <2> HIDE DEF fired
  <2> QED BY <2>1, <2>2 DEF Requests
<1>6. silenced' \in SUBSET AP
  BY <1>1, <1>2
<1> QED BY <1>1, <1>2, <1>4, <1>5, <1>6 DEF LcOK

LEMMA LcTypes ==
  ASSUME TypeInv, Lc
  PROVE  TypeInv'
<1>1. PipesOK
  BY DEF TypeInv
<1>2. ASSUME NEW m, LcTakes(m) PROVE PipesOK' /\ ScOK'
  <2>1. lcPipe' \in Seq(LcMsgs) /\ UNCHANGED <<rts, inWakeup, scPipe>>
    BY <1>1, <1>2, LcTaking
  <2> QED BY <2>1 DEF TypeInv, PipesOK, ScOK
<1>3. CASE \E v \in [AP -> Verdicts] : LcSample(v)
  BY <1>2, <1>3, SampleTypes DEF LcSample, TypeInv
<1>4. CASE LcSampleIgnored \/ LcTelemetry
  BY <1>2, <1>4 DEF LcSampleIgnored, LcTelemetry, TypeInv, LcOK, lcVars
<1>5. CASE LcSetAPState
  <2>1. PICK a \in AP, s \in APStates, by \in {"RTS", "GROUND"} :
          /\ LcTakes(SetAP(a, s, by)) /\ ap' = [ap EXCEPT ![a].state = s]
          /\ silenced' = IF s # "PASSIVE" THEN silenced \ {a}
                         ELSE IF ap[a].state # "PASSIVE" THEN silenced \cup {a} ELSE silenced
          /\ UNCHANGED <<lcState, lcOut>>
    BY <1>5 DEF LcSetAPState
  <2>2. ap' \in [AP -> [state : APStates, fails : 0 .. MaxFails]]
    BY <2>1 DEF TypeInv, LcOK
  <2>3. silenced' \in SUBSET AP
    BY <2>1 DEF TypeInv, LcOK
  <2> QED BY <1>2, <2>1, <2>2, <2>3 DEF TypeInv, LcOK
<1>6. CASE LcSetState
  BY <1>2, <1>6 DEF LcSetState, TypeInv, LcOK
<1>7. CASE LcExecuteRTS
  <2>1. /\ lcOut # <<>> /\ lcOut' = Tail(lcOut) /\ scPipe' = Sent(scPipe, Request)
        /\ UNCHANGED <<lcState, ap, silenced, lcPipe, rts, inWakeup>>
    BY <1>7 DEF LcExecuteRTS, scVars
  <2>2. lcOut' \in Seq(AP)
    BY <2>1, HeadTailProperties DEF TypeInv, LcOK
  <2>3. Request \in ScMsgs
    BY DEF ScMsgs
  <2>4. scPipe' \in Seq(ScMsgs)
    BY <1>1, <2>1, <2>3, SentEffect DEF PipesOK
  <2> QED BY <2>1, <2>2, <2>4 DEF TypeInv, LcOK, PipesOK, ScOK
<1> QED BY <1>3, <1>4, <1>5, <1>6, <1>7 DEF Lc

LEMMA OutsideTypes ==
  ASSUME TypeInv, SchWakeup \/ Telemetry \/ Ground
  PROVE  /\ TypeInv'
         /\ UNCHANGED <<lcState, ap, lcOut, silenced, rts, inWakeup, lost>>
         /\ \/ scPipe' = Sent(scPipe, WakeupMsg) /\ lcPipe' = lcPipe
            \/ scPipe' = scPipe /\ \E m \in {Tlm} \cup FromGround : lcPipe' = Sent(lcPipe, m)
<1>1. PipesOK
  BY DEF TypeInv
<1>2. CASE SchWakeup
  <2>1. scPipe' = Sent(scPipe, WakeupMsg)
        /\ UNCHANGED <<lcPipe, lcState, ap, lcOut, silenced, rts, inWakeup, lost>>
    BY <1>2 DEF SchWakeup, lcVars, scVars
  <2>2. scPipe' \in Seq(ScMsgs)
    <3>1. WakeupMsg \in ScMsgs
      BY DEF ScMsgs
    <3> QED BY <1>1, <2>1, <3>1, SentEffect DEF PipesOK
  <2> QED BY <2>1, <2>2 DEF TypeInv, LcOK, PipesOK, ScOK
<1>3. CASE Telemetry \/ Ground
  <2>1. /\ \E m \in {Tlm} \cup FromGround : lcPipe' = Sent(lcPipe, m)
        /\ UNCHANGED <<scPipe, lcState, ap, lcOut, silenced, rts, inWakeup, lost>>
    <3>1. CASE Telemetry
      BY <3>1 DEF Telemetry, Sent, lcVars, scVars
    <3>2. CASE Ground
      BY <3>2, FdirLoopAssumption DEF Ground, GroundCommand, lcVars, scVars
    <3> QED BY <1>3, <3>1, <3>2
  <2>2. \A m \in {Tlm} \cup FromGround : m \in LcMsgs
    BY DEF LcMsgs
  <2>3. lcPipe' \in Seq(LcMsgs)
    BY <1>1, <2>1, <2>2, SentEffect DEF PipesOK
  <2> QED BY <2>1, <2>3 DEF TypeInv, LcOK, PipesOK, ScOK
<1> QED BY <1>2, <1>3

LEMMA ScTypes ==
  ASSUME TypeInv, Sc
  PROVE  TypeInv'
<1>1. PipesOK /\ ScOK
  BY DEF TypeInv
<1>2. ASSUME NEW m, ScTakes(m) PROVE LcOK' /\ PipesOK'
  <2>1. scPipe' \in Seq(ScMsgs) /\ UNCHANGED <<lcState, ap, lcOut, silenced, lcPipe>>
    BY <1>1, <1>2, ScTaking
  <2> QED BY <2>1 DEF TypeInv, PipesOK, LcOK
<1>3. ASSUME NEW r \in RTSs, ScStart(r) PROVE TypeInv'
  <2>1. /\ rts' \in [RTSs -> Records] /\ Leaves(r) /\ inWakeup' = inWakeup
        /\ IF rts[r].disabled \/ rts[r].executing THEN rts' = rts ELSE Goes(r, 1, 0)
    BY <1>3, Starts
  <2>2. ASSUME NEW q \in {3, 4}, rts'[q].executing PROVE rts'[q].next <= 2
    <3>1. rts[q].executing => rts[q].next <= 2
      BY <1>1 DEF ScOK
    <3>2. q \in RTSs
      BY DEF RTSs
    <3> QED BY <2>1, <2>2, <3>1, <3>2 DEF Goes, Leaves
  <2> QED BY <1>1, <1>2, <1>3, <2>1, <2>2 DEF ScStart, TypeInv, ScOK
<1>4. ASSUME NEW r \in RTSs, ScEnable(r) PROVE TypeInv'
  <2>1. rts' \in [RTSs -> Records] /\ inWakeup' = inWakeup
        /\ \A q \in RTSs : rts'[q].executing = rts[q].executing /\ rts'[q].next = rts[q].next
    BY <1>4, Enables
  <2> QED BY <1>1, <1>2, <1>4, <2>1 DEF ScEnable, TypeInv, ScOK, RTSs
<1>5. ASSUME NEW r \in RTSs, ScTurn(r) PROVE TypeInv'
  <2>1. /\ inWakeup' /\ rts' \in [RTSs -> Records] /\ Leaves(r)
        /\ UNCHANGED <<lcState, ap, lcOut, silenced>>
    BY <1>5, TurnMoves
  <2>2. inWakeup' = TRUE
    BY <1>5 DEF ScTurn
  <2>3. /\ \E m \in ScMsgs : scPipe' \in {scPipe, Sent(scPipe, m)}
        /\ \E m \in LcMsgs : lcPipe' \in {lcPipe, Sent(lcPipe, m)}
        /\ \A q \in {3, 4} : rts'[q].executing => rts'[q].next <= 2
    <3>1. CASE r = 1
      <4>1. \A q \in {3, 4} : rts'[q] = rts[q]
        BY <2>1, <3>1 DEF Leaves, RTSs
      <4> QED BY <1>1, <1>5, <3>1, <4>1, TurnOfOne DEF ScOK, ScMsgs, LcMsgs
    <3>2. CASE r = 3
      <4>1. rts'[4] = rts[4]
        BY <2>1, <3>2 DEF Leaves, RTSs
      <4>2. rts'[3].executing => rts'[3].next <= 2
        BY <1>5, <3>2, TurnOfThree DEF Goes
      <4> QED BY <1>1, <1>5, <3>2, <4>1, <4>2, TurnOfThree DEF ScOK, ScMsgs, LcMsgs
    <3>3. CASE r = 4
      <4>1. rts'[3] = rts[3]
        BY <2>1, <3>3 DEF Leaves, RTSs
      <4>2. rts'[4].executing => rts'[4].next <= 2
        BY <1>5, <3>3, TurnOfFour DEF Goes
      <4> QED BY <1>1, <1>5, <3>3, <4>1, <4>2, TurnOfFour DEF ScOK, ScMsgs, LcMsgs
    <3> QED BY <3>1, <3>2, <3>3 DEF RTSs
  <2>4. scPipe' \in Seq(ScMsgs) /\ lcPipe' \in Seq(LcMsgs)
    BY <2>3, <1>1, SentEffect DEF PipesOK
  <2> QED BY <2>1, <2>2, <2>3, <2>4 DEF TypeInv, LcOK, PipesOK, ScOK
<1>6. CASE ScNoop
  BY <1>1, <1>2, <1>6 DEF ScNoop, scVars, TypeInv, ScOK
<1>7. CASE ScWakeup
  <2>1. rts' \in [RTSs -> Records]
        /\ \A q \in RTSs : rts'[q].executing = rts[q].executing /\ rts'[q].next = rts[q].next
    BY <1>7, Wakes
  <2>2. inWakeup' = TRUE
    BY <1>7 DEF ScWakeup
  <2> QED BY <1>1, <1>2, <1>7, <2>1, <2>2 DEF ScWakeup, TypeInv, ScOK, RTSs
<1>8. CASE ScEndWakeup
  BY <1>8 DEF ScEndWakeup, TypeInv, LcOK, PipesOK, ScOK, lcVars
<1> QED BY <1>3, <1>4, <1>5, <1>6, <1>7, <1>8 DEF Sc

LEMMA TypeInvStep == TypeInv /\ [Next]_vars => TypeInv'
<1> SUFFICES ASSUME TypeInv, [Next]_vars PROVE TypeInv'
  OBVIOUS
<1>1. CASE SchWakeup \/ Telemetry \/ Ground
  BY <1>1, OutsideTypes
<1>2. CASE Lc \/ Sc
  BY <1>2, LcTypes, ScTypes
<1>3. CASE UNCHANGED vars
  BY <1>3 DEF vars, lcVars, scVars, TypeInv, LcOK, PipesOK, ScOK
<1> QED BY <1>1, <1>2, <1>3 DEF Next

-----------------------------------------------------------------------------
(* The sampling is in one place.                                           *)

\* RTS 1 has not started RTS 3 yet.
Booting == rts[1].executing /\ rts[1].next <= 3

\* Start(1) is sent once.  RTS 3 is started only once enabled, because RTS 1
\* enables it first and the pipe of SC keeps that order.
LoopInv ==
  /\ ~rts[1].disabled
  /\ Pending(scPipe, StartMsg(1)) + One(rts[1].executing) <= 1
  /\ rts[3].executing => ~rts[3].disabled
  /\ lost \cap {"START", "ENABLE"} = {} =>
       /\ One(Booting) + Pending(scPipe, StartMsg(1))
            + Pending(scPipe, StartMsg(3)) + One(rts[3].executing) = 1
       /\ rts[3].disabled /\ rts[1].executing /\ rts[1].next = 3
            => Pending(scPipe, Enable(3)) > 0
       /\ rts[3].disabled /\ Pending(scPipe, StartMsg(3)) > 0
            => Leads(scPipe, Enable(3), StartMsg(3))

LEMMA EmptyPending == \A m : Pending(<<>>, m) = 0
  BY FS_EmptySet DEF Pending, Places

LEMMA InitLoopInv == Init => LoopInv
<1> SUFFICES ASSUME Init PROVE LoopInv
  OBVIOUS
<1>1. scPipe = Append(<<>>, StartMsg(1))
  BY DEF Init
<1>2. <<>> \in Seq(ScMsgs) /\ StartMsg(1) \in ScMsgs
  BY DEF ScMsgs
<1>3. \A m : Pending(scPipe, m) = 0 + One(StartMsg(1) = m)
  <2>1. \A m : Pending(Append(<<>>, StartMsg(1)), m) = Pending(<<>>, m) + One(StartMsg(1) = m)
    <3>1. \A p \in Seq(ScMsgs), x \in ScMsgs : \A m : Pending(Append(p, x), m) = Pending(p, m) + One(x = m)
      BY AppendPending
    <3> QED BY <1>2, <3>1, ZenonT(60)
  <2> QED BY <1>1, <2>1, EmptyPending, Zenon
<1>4. Pending(scPipe, StartMsg(1)) = 1 /\ Pending(scPipe, StartMsg(3)) = 0
  BY <1>3, ScMessages DEF One
<1>5. \A r \in RTSs : rts[r] = [Idle EXCEPT !.disabled = r # 1]
  BY DEF Init
<1>6. \A r \in RTSs : (r # 1) \in BOOLEAN /\ rts[r].executing = FALSE /\ rts[r].disabled = (r # 1)
  BY <1>5, ZenonT(60) DEF Idle
<1>7. ~rts[1].executing /\ ~rts[3].executing /\ ~rts[1].disabled
  BY <1>6 DEF RTSs
<1> QED BY <1>4, <1>7 DEF LoopInv, Booting, One

LEMMA PendingNat == PipesOK =>
  /\ \A m : Pending(scPipe, m) \in Nat /\ Pending(lcPipe, m) \in Nat
  /\ \A m, n : Pending(scPipe, m) > 0 /\ Pending(scPipe, n) = 0 => Leads(scPipe, m, n)
  /\ \A m, n : Leads(scPipe, m, n) => Pending(scPipe, m) > 0
  /\ \A m, n : Trails(lcPipe, m, n) => Pending(lcPipe, m) > 0
  BY PendingIsNat, LeadsIsPending DEF PipesOK

\* A message sent to SC.
LEMMA ScSent ==
  ASSUME PipesOK, NEW x \in ScMsgs, scPipe' = Sent(scPipe, x)
  PROVE  /\ \A m : Pending(scPipe', m) = Pending(scPipe, m) + One(x = m /\ Room(scPipe, x))
         /\ \A m : m # x => Pending(scPipe', m) = Pending(scPipe, m)
         /\ Room(scPipe, x) => Pending(scPipe', x) = Pending(scPipe, x) + 1
         /\ \A m : Pending(scPipe, m) > 0 => Pending(scPipe', m) > 0
         /\ \A m, n : m # n /\ Leads(scPipe, m, n) => Leads(scPipe', m, n)
<1>1. /\ \A m : Pending(scPipe', m) = Pending(scPipe, m) + One(x = m /\ Room(scPipe, x))
      /\ \A m, n : m # n /\ Leads(scPipe, m, n) => Leads(scPipe', m, n)
  BY SentEffect DEF PipesOK
<1>2. \A m : Pending(scPipe, m) \in Nat
  BY PendingNat
<1>3. \A m : One(x = m /\ Room(scPipe, x)) \in Nat
  BY DEF One
<1>4. \A m : m # x => One(x = m /\ Room(scPipe, x)) = 0
  BY DEF One
<1>5. Room(scPipe, x) => One(x = x /\ Room(scPipe, x)) = 1
  BY DEF One
<1>6. ASSUME NEW m, Pending(scPipe, m) > 0 PROVE Pending(scPipe', m) > 0
  <2>1. Pending(scPipe', m) = Pending(scPipe, m) + One(x = m /\ Room(scPipe, x))
    BY <1>1
  <2>2. Pending(scPipe, m) \in Nat /\ One(x = m /\ Room(scPipe, x)) \in Nat
    BY <1>2, <1>3
  <2> QED BY <1>6, <2>1, <2>2
<1>7. \A m : m # x => Pending(scPipe', m) = Pending(scPipe, m)
  BY <1>1, <1>2, <1>4
<1>8. Room(scPipe, x) => Pending(scPipe', x) = Pending(scPipe, x) + 1
  BY <1>1, <1>5
<1> QED BY <1>1, <1>6, <1>7, <1>8

\* A message taken by SC.
LEMMA ScTaken ==
  ASSUME PipesOK, NEW m, ScTakes(m)
  PROVE  /\ \A n : n # m => Pending(scPipe', n) = Pending(scPipe, n)
         /\ Pending(scPipe', m) = Pending(scPipe, m) - 1 /\ Pending(scPipe', m) \in Nat
<1>1. scPipe' \in Seq(ScMsgs) /\ \A n : Pending(scPipe, n) = Pending(scPipe', n) + One(m = n)
  BY ScTaking
<1>2. \A n : Pending(scPipe', n) \in Nat
  BY <1>1, PendingIsNat
<1>3. One(m = m) = 1 /\ \A n : n # m => One(m = n) = 0
  BY DEF One
<1>4. ASSUME NEW n, n # m PROVE Pending(scPipe', n) = Pending(scPipe, n)
  <2>1. Pending(scPipe, n) = Pending(scPipe', n) + One(m = n) /\ Pending(scPipe', n) \in Nat
    BY <1>1, <1>2
  <2>2. One(m = n) = 0
    BY <1>3, <1>4
  <2> QED BY <2>1, <2>2
<1>5. Pending(scPipe', m) = Pending(scPipe, m) - 1
  BY <1>1, <1>2, <1>3
<1> QED BY <1>2, <1>4, <1>5

\* What leaves the sequences 1 and 3 and their messages alone.
LEMMA LoopSame ==
  ASSUME LoopInv,
         rts'[1].disabled = rts[1].disabled, rts'[1].executing = rts[1].executing,
         rts'[1].next = rts[1].next, lost \subseteq lost',
         rts'[3].disabled = rts[3].disabled, rts'[3].executing = rts[3].executing,
         Pending(scPipe', StartMsg(1)) = Pending(scPipe, StartMsg(1)),
         Pending(scPipe', StartMsg(3)) = Pending(scPipe, StartMsg(3)),
         Pending(scPipe, Enable(3)) > 0 => Pending(scPipe', Enable(3)) > 0,
         Leads(scPipe, Enable(3), StartMsg(3)) => Leads(scPipe', Enable(3), StartMsg(3))
  PROVE  LoopInv'
<1>1. lost' \cap {"START", "ENABLE"} = {} => lost \cap {"START", "ENABLE"} = {}
  OBVIOUS
<1>2. Booting' = Booting
  BY DEF Booting
<1> QED BY <1>1, <1>2, Zenon DEF LoopInv

LEMMA LoopStarts ==
  ASSUME TypeInv, LoopInv, NEW r \in RTSs, ScStart(r)
  PROVE  LoopInv'
<1>1. PipesOK /\ ScTakes(StartMsg(r))
  BY DEF TypeInv, ScStart
<1>2. /\ Leaves(r) /\ lost' = lost
      /\ IF rts[r].disabled \/ rts[r].executing THEN rts' = rts ELSE Goes(r, 1, 0)
  BY <1>1, Starts, ScTaking
<1>3. \A n : Pending(scPipe, n) \in Nat
  BY <1>1, PendingNat
<1>4. /\ \A n : n # StartMsg(r) => Pending(scPipe', n) = Pending(scPipe, n)
      /\ Pending(scPipe', StartMsg(r)) = Pending(scPipe, StartMsg(r)) - 1
      /\ Pending(scPipe', StartMsg(r)) \in Nat
  BY <1>1, ScTaken
<1>5. /\ Leads(scPipe, Enable(3), StartMsg(3)) => Leads(scPipe', Enable(3), StartMsg(3))
      /\ Leads(scPipe, Enable(3), StartMsg(3)) => r # 3
      /\ Pending(scPipe', Enable(3)) = Pending(scPipe, Enable(3))
  BY <1>1, <1>4, ScTaking, ScMessages
<1>6. \A q \in RTSs \ {r} : rts'[q] = rts[q]
  BY <1>2 DEF Leaves
<1>7. CASE r = 1
  <2>1. rts'[3] = rts[3]
    BY <1>6, <1>7 DEF RTSs
  <2>2. ~rts[1].executing
    BY <1>3, <1>4, <1>7, ScMessages DEF LoopInv, One
  <2>3. ~rts[1].disabled
    BY DEF LoopInv
  <2>4. Goes(1, 1, 0) /\ rts'[1].disabled = rts[1].disabled
    BY <1>2, <1>7, <2>2, <2>3 DEF Leaves
  <2>5. Pending(scPipe', StartMsg(1)) = Pending(scPipe, StartMsg(1)) - 1
        /\ Pending(scPipe', StartMsg(3)) = Pending(scPipe, StartMsg(3))
    BY <1>4, <1>7, ScMessages
  <2>6. One(Booting) = 0 /\ One(Booting') = 1 /\ One(rts[1].executing) = 0 /\ One(rts'[1].executing) = 1
    BY <2>2, <2>4 DEF One, Booting, Goes
  <2>7. One(rts'[3].executing) = One(rts[3].executing)
    BY <2>1
  <2>8. Pending(scPipe', StartMsg(1)) + One(rts'[1].executing) <= 1
    BY <1>3, <2>5, <2>6 DEF LoopInv
  <2>9. lost \cap {"START", "ENABLE"} = {} =>
          One(Booting') + Pending(scPipe', StartMsg(1)) + Pending(scPipe', StartMsg(3))
            + One(rts'[3].executing) = 1
    <3>1. One(rts[3].executing) \in Nat
      BY DEF One
    <3> QED BY <1>3, <2>5, <2>6, <2>7, <3>1 DEF LoopInv
  <2>10. rts'[1].next = 1
    BY <2>4 DEF Goes
  <2>11. rts[3].executing => ~rts[3].disabled
    BY DEF LoopInv
  <2>12. lost \cap {"START", "ENABLE"} = {} /\ rts[3].disabled /\ Pending(scPipe, StartMsg(3)) > 0
           => Leads(scPipe, Enable(3), StartMsg(3))
    BY DEF LoopInv
  <2> QED BY <1>2, <1>5, <2>1, <2>3, <2>4, <2>5, <2>8, <2>9, <2>10, <2>11, <2>12 DEF LoopInv, Goes
<1>8. CASE r = 3
  <2>1. rts'[1] = rts[1]
    BY <1>6, <1>8 DEF RTSs
  <2>2. Pending(scPipe', StartMsg(3)) = Pending(scPipe, StartMsg(3)) - 1
        /\ Pending(scPipe', StartMsg(1)) = Pending(scPipe, StartMsg(1))
        /\ Pending(scPipe, StartMsg(3)) > 0
    BY <1>3, <1>4, <1>8, ScMessages
  <2>3. rts'[3].disabled = rts[3].disabled
    BY <1>2, <1>8 DEF Leaves
  <2>4. rts'[3].executing => ~rts'[3].disabled
    BY <1>2, <1>8, <2>3 DEF LoopInv, Goes
  <2>5. Booting' = Booting
    BY <2>1 DEF Booting
  <2>6. ASSUME lost \cap {"START", "ENABLE"} = {}
        PROVE  /\ ~rts[3].disabled
               /\ One(Booting') + Pending(scPipe', StartMsg(1)) + Pending(scPipe', StartMsg(3))
                    + One(rts'[3].executing) = 1
    <3>1. ~rts[3].disabled
      BY <1>5, <1>8, <2>2, <2>6 DEF LoopInv
    <3>2. One(Booting) \in Nat /\ One(rts[3].executing) \in Nat
      BY DEF One
    <3>3. One(Booting) + Pending(scPipe, StartMsg(1)) + Pending(scPipe, StartMsg(3))
            + One(rts[3].executing) = 1
      BY <2>6 DEF LoopInv
    <3>4. One(rts[3].executing) = 0
      BY <1>3, <2>2, <3>2, <3>3
    <3>5. ~rts[3].executing
      BY <3>4 DEF One
    <3>6. rts'[3].executing
      BY <1>2, <1>8, <3>1, <3>5 DEF Goes
    <3>7. One(rts'[3].executing) = 1
      BY <3>6 DEF One
    <3> QED BY <1>3, <2>2, <2>5, <3>1, <3>2, <3>3, <3>4, <3>7
  <2>7. LoopInv
    OBVIOUS
  <2> QED BY <1>2, <2>1, <2>2, <2>3, <2>4, <2>5, <2>6 DEF LoopInv
<1>9. CASE r = 4
  <2>1. rts'[1] = rts[1] /\ rts'[3] = rts[3]
    BY <1>6, <1>9 DEF RTSs
  <2>2. Pending(scPipe', StartMsg(1)) = Pending(scPipe, StartMsg(1))
        /\ Pending(scPipe', StartMsg(3)) = Pending(scPipe, StartMsg(3))
    BY <1>4, <1>9, ScMessages
  <2> QED BY <1>2, <1>5, <2>1, <2>2, LoopSame
<1> QED BY <1>7, <1>8, <1>9 DEF RTSs

LEMMA LoopEnables ==
  ASSUME TypeInv, LoopInv, NEW r \in RTSs, ScEnable(r)
  PROVE  LoopInv'
<1>1. PipesOK /\ ScTakes(Enable(r))
  BY DEF TypeInv, ScEnable
<1>2. /\ ~rts'[r].disabled
      /\ \A q \in RTSs : /\ q # r => rts'[q].disabled = rts[q].disabled
                         /\ rts'[q].executing = rts[q].executing
                         /\ rts'[q].next = rts[q].next
  BY Enables
<1>3. lost' = lost /\ \A n : n # Enable(r) => Pending(scPipe', n) = Pending(scPipe, n)
  BY <1>1, ScTaking, ScTaken
<1>4. Pending(scPipe', StartMsg(1)) = Pending(scPipe, StartMsg(1))
      /\ Pending(scPipe', StartMsg(3)) = Pending(scPipe, StartMsg(3))
  BY <1>3, ScMessages
<1>5. /\ rts'[1].executing = rts[1].executing /\ rts'[1].next = rts[1].next
      /\ rts'[3].executing = rts[3].executing /\ ~rts'[1].disabled
  BY <1>2 DEF LoopInv, RTSs
<1>6. Booting' = Booting
  BY <1>5 DEF Booting
<1>7. CASE r = 3
  <2>1. ~rts'[3].disabled
    BY <1>2, <1>7
  <2> QED BY <1>3, <1>4, <1>5, <1>6, <2>1, Zenon DEF LoopInv
<1>8. CASE r # 3
  <2>1. \A n : Enable(n).rts = n
    BY DEF Enable
  <2>2. Enable(r) # Enable(3)
    BY <1>8, <2>1
  <2>3. rts'[3].disabled = rts[3].disabled
    BY <1>2, <1>8 DEF RTSs
  <2>4. rts'[1].disabled = rts[1].disabled
    BY <1>2, Enables DEF RTSs
  <2>5. Pending(scPipe', Enable(3)) = Pending(scPipe, Enable(3))
    BY <1>3, <2>2
  <2>6. Leads(scPipe, Enable(3), StartMsg(3)) => Leads(scPipe', Enable(3), StartMsg(3))
    BY <1>1, <2>2, ScTaking
  <2> QED BY <1>3, <1>4, <1>5, <2>3, <2>4, <2>5, <2>6, LoopSame
<1> QED BY <1>7, <1>8

LEMMA LoopTurnOfOne ==
  ASSUME TypeInv, LoopInv, ScTurn(1)
  PROVE  LoopInv'
<1>1. PipesOK /\ rts[1].executing /\ rts[1].next \in 1 .. 4
  BY TurnMoves, TableFacts DEF TypeInv, RTSs
<1>2. /\ lost \subseteq lost' /\ rts'[1].disabled = rts[1].disabled /\ rts'[3] = rts[3]
  BY TurnOfOne DEF Leaves, RTSs
<1>3. \A n : Pending(scPipe, n) \in Nat
  BY <1>1, PendingNat
<1>4. Noop \in ScMsgs /\ Enable(3) \in ScMsgs /\ StartMsg(3) \in ScMsgs /\ Enable(4) \in ScMsgs
  BY DEF ScMsgs
<1>5. Pending(scPipe, StartMsg(1)) = 0
  BY <1>1, <1>3 DEF LoopInv, One
<1>6. lost' \cap {"START", "ENABLE"} = {} => lost \cap {"START", "ENABLE"} = {}
  BY <1>2
<1>7. One(rts[3].executing) \in Nat /\ One(Booting) \in Nat
  BY DEF One
<1>8. ASSUME lost' \cap {"START", "ENABLE"} = {}, rts[1].next <= 3
      PROVE  Pending(scPipe, StartMsg(3)) = 0 /\ One(Booting) = 1 /\ One(rts[3].executing) = 0
  <2>1. One(Booting) = 1
    BY <1>1, <1>8 DEF Booting, One
  <2> QED BY <1>3, <1>6, <1>7, <1>8, <2>1 DEF LoopInv
<1>0. /\ ~rts'[1].disabled /\ (rts'[3].executing => ~rts'[3].disabled)
      /\ rts'[3].disabled = rts[3].disabled
  BY <1>2 DEF LoopInv
<1>9. CASE rts[1].next = 1
  <2>1. Goes(1, 2, StartupWait) /\ scPipe' = Sent(scPipe, Noop)
    BY <1>9, TurnOfOne
  <2>2. /\ Pending(scPipe', StartMsg(1)) = Pending(scPipe, StartMsg(1))
        /\ Pending(scPipe', StartMsg(3)) = Pending(scPipe, StartMsg(3))
    BY <1>1, <1>4, <2>1, ScSent, ScMessages
  <2>3. rts'[1].executing /\ rts'[1].next = 2
    BY <2>1 DEF Goes
  <2>4. One(Booting') = 1 /\ One(rts'[1].executing) = 1
    BY <2>3 DEF Booting, One
  <2>5. Pending(scPipe', StartMsg(1)) + One(rts'[1].executing) <= 1
    BY <1>5, <2>2, <2>4
  <2>6. lost' \cap {"START", "ENABLE"} = {} =>
          One(Booting') + Pending(scPipe', StartMsg(1)) + Pending(scPipe', StartMsg(3))
            + One(rts'[3].executing) = 1
    BY <1>2, <1>5, <1>8, <1>9, <2>2, <2>4
  <2>7. lost' \cap {"START", "ENABLE"} = {} => ~(Pending(scPipe', StartMsg(3)) > 0)
    BY <1>8, <1>9, <2>2
  <2>8. ~(rts'[1].next = 3)
    BY <2>3
  <2> QED BY <1>0, <2>5, <2>6, <2>7, <2>8, Zenon DEF LoopInv
<1>10. CASE rts[1].next = 2
  <2>1. Goes(1, 3, StartupWait) /\ scPipe' = Sent(scPipe, Enable(3))
        /\ Lost(scPipe, Enable(3), "ENABLE")
    BY <1>10, TurnOfOne
  <2>2. /\ Pending(scPipe', StartMsg(1)) = Pending(scPipe, StartMsg(1))
        /\ Pending(scPipe', StartMsg(3)) = Pending(scPipe, StartMsg(3))
        /\ Room(scPipe, Enable(3)) => Pending(scPipe', Enable(3)) = Pending(scPipe, Enable(3)) + 1
    BY <1>1, <1>4, <2>1, ScSent, ScMessages
  <2>3. rts'[1].executing /\ rts'[1].next = 3
    BY <2>1 DEF Goes
  <2>4. One(Booting') = 1 /\ One(rts'[1].executing) = 1
    BY <2>3 DEF Booting, One
  <2>5. Pending(scPipe', StartMsg(1)) + One(rts'[1].executing) <= 1
    BY <1>5, <2>2, <2>4
  <2>6. lost' \cap {"START", "ENABLE"} = {} =>
          One(Booting') + Pending(scPipe', StartMsg(1)) + Pending(scPipe', StartMsg(3))
            + One(rts'[3].executing) = 1
    BY <1>2, <1>5, <1>8, <1>10, <2>2, <2>4
  <2>7. lost' \cap {"START", "ENABLE"} = {} => ~(Pending(scPipe', StartMsg(3)) > 0)
    BY <1>8, <1>10, <2>2
  <2>8. lost' \cap {"START", "ENABLE"} = {} => Pending(scPipe', Enable(3)) > 0
    BY <1>3, <2>1, <2>2 DEF Lost
  <2> QED BY <1>2, <2>3, <2>5, <2>6, <2>7, <2>8 DEF LoopInv
<1>11. CASE rts[1].next = 3
  <2>1. Goes(1, 4, StartupWait) /\ scPipe' = Sent(scPipe, StartMsg(3))
        /\ Lost(scPipe, StartMsg(3), "START")
    BY <1>11, TurnOfOne
  <2>2. /\ Pending(scPipe', StartMsg(1)) = Pending(scPipe, StartMsg(1))
        /\ Room(scPipe, StartMsg(3)) => Pending(scPipe', StartMsg(3)) = Pending(scPipe, StartMsg(3)) + 1
        /\ Leads(scPipe, Enable(3), StartMsg(3)) => Leads(scPipe', Enable(3), StartMsg(3))
    BY <1>1, <1>4, <2>1, ScSent, ScMessages
  <2>3. rts'[1].executing /\ rts'[1].next = 4
    BY <2>1 DEF Goes
  <2>4. One(Booting') = 0 /\ One(rts'[1].executing) = 1
    BY <2>3 DEF Booting, One
  <2>5. Pending(scPipe', StartMsg(1)) + One(rts'[1].executing) <= 1
    BY <1>5, <2>2, <2>4
  <2>6. lost' \cap {"START", "ENABLE"} = {} =>
          One(Booting') + Pending(scPipe', StartMsg(1)) + Pending(scPipe', StartMsg(3))
            + One(rts'[3].executing) = 1
    BY <1>2, <1>5, <1>8, <1>11, <2>1, <2>2, <2>4 DEF Lost
  <2>7. lost' \cap {"START", "ENABLE"} = {} /\ rts[3].disabled => Leads(scPipe, Enable(3), StartMsg(3))
    <3> SUFFICES ASSUME lost' \cap {"START", "ENABLE"} = {}, rts[3].disabled
                 PROVE  Leads(scPipe, Enable(3), StartMsg(3))
      OBVIOUS
    <3>1. Pending(scPipe, Enable(3)) > 0
      BY <1>1, <1>6, <1>11 DEF LoopInv
    <3>2. Pending(scPipe, StartMsg(3)) = 0
      BY <1>8, <1>11
    <3> QED BY <1>1, <3>1, <3>2, PendingNat
  <2>8. ~(rts'[1].next = 3)
    BY <2>3
  <2> QED BY <1>0, <2>2, <2>5, <2>6, <2>7, <2>8, Zenon DEF LoopInv
<1>12. CASE rts[1].next = 4
  <2>1. ~rts'[1].executing /\ scPipe' = Sent(scPipe, Enable(4))
    BY <1>12, TurnOfOne
  <2>2. /\ Pending(scPipe', StartMsg(1)) = Pending(scPipe, StartMsg(1))
        /\ Pending(scPipe', StartMsg(3)) = Pending(scPipe, StartMsg(3))
        /\ Leads(scPipe, Enable(3), StartMsg(3)) => Leads(scPipe', Enable(3), StartMsg(3))
    BY <1>1, <1>4, <2>1, ScSent, ScMessages
  <2>3. One(Booting') = 0 /\ One(rts'[1].executing) = 0 /\ One(Booting) = 0
    BY <1>12, <2>1 DEF Booting, One
  <2>4. Pending(scPipe', StartMsg(1)) + One(rts'[1].executing) <= 1
    BY <1>5, <2>2, <2>3
  <2>5. lost' \cap {"START", "ENABLE"} = {} =>
          One(Booting') + Pending(scPipe', StartMsg(1)) + Pending(scPipe', StartMsg(3))
            + One(rts'[3].executing) = 1
    BY <1>2, <1>6, <2>2, <2>3 DEF LoopInv
  <2> QED BY <1>2, <1>6, <2>1, <2>2, <2>4, <2>5 DEF LoopInv
<1> QED BY <1>1, <1>9, <1>10, <1>11, <1>12

LEMMA LoopTurnOfThree ==
  ASSUME TypeInv, LoopInv, ScTurn(3)
  PROVE  LoopInv'
<1>1. PipesOK /\ rts[3].executing
  BY TurnMoves DEF TypeInv, RTSs
<1>2. lost \subseteq lost' /\ rts'[3].disabled = rts[3].disabled /\ rts'[1] = rts[1]
  BY TurnOfThree DEF Leaves, RTSs
<1>3. CASE rts[3].next = 1
  <2>1. Goes(3, 2, 2) /\ scPipe' = scPipe
    BY <1>3, TurnOfThree
  <2>2. rts'[3].executing = TRUE /\ rts[3].executing = TRUE
    <3>1. rts'[3].executing /\ rts[3].executing
      BY <1>1, <2>1 DEF Goes
    <3>2. rts[3].executing \in BOOLEAN /\ rts'[3].executing \in BOOLEAN
      BY TurnMoves DEF TypeInv, ScOK, Records, RTSs
    <3> QED BY <3>1, <3>2
  <2> QED BY <1>2, <2>1, <2>2, LoopSame
<1>4. CASE rts[3].next # 1
  <2>1. ~rts'[3].executing /\ scPipe' = Sent(scPipe, StartMsg(3))
        /\ Lost(scPipe, StartMsg(3), "START")
    BY <1>4, TurnOfThree
  <2>2. StartMsg(3) \in ScMsgs
    BY DEF ScMsgs
  <2>3. /\ Pending(scPipe', StartMsg(1)) = Pending(scPipe, StartMsg(1))
        /\ Room(scPipe, StartMsg(3)) => Pending(scPipe', StartMsg(3)) = Pending(scPipe, StartMsg(3)) + 1
        /\ Pending(scPipe, Enable(3)) > 0 => Pending(scPipe', Enable(3)) > 0
    BY <1>1, <2>1, <2>2, ScSent, ScMessages
  <2>4. Booting' = Booting /\ One(rts[3].executing) = 1 /\ One(rts'[3].executing) = 0
    BY <1>1, <1>2, <2>1 DEF Booting, One
  <2>5. lost' \cap {"START", "ENABLE"} = {} => lost \cap {"START", "ENABLE"} = {} /\ Room(scPipe, StartMsg(3))
    BY <1>2, <2>1 DEF Lost
  <2>6. lost' \cap {"START", "ENABLE"} = {} =>
          One(Booting') + Pending(scPipe', StartMsg(1)) + Pending(scPipe', StartMsg(3))
            + One(rts'[3].executing) = 1
    <3>1. One(Booting) \in Nat /\ \A n : Pending(scPipe, n) \in Nat
      BY <1>1, PendingNat DEF One
    <3> QED BY <2>3, <2>4, <2>5, <3>1 DEF LoopInv
  <2>7. ~rts[3].disabled
    BY <1>1 DEF LoopInv
  <2> QED BY <1>2, <2>1, <2>3, <2>6, <2>7 DEF LoopInv
<1> QED BY <1>3, <1>4

LEMMA LoopInvStep == TypeInv /\ LoopInv /\ [Next]_vars => LoopInv'
<1> SUFFICES ASSUME TypeInv, LoopInv, [Next]_vars PROVE LoopInv'
  OBVIOUS
<1>1. PipesOK
  BY DEF TypeInv
<1>2. ASSUME scPipe' = scPipe \/ \E x \in {WakeupMsg, Request} : scPipe' = Sent(scPipe, x)
      PROVE  /\ Pending(scPipe', StartMsg(1)) = Pending(scPipe, StartMsg(1))
             /\ Pending(scPipe', StartMsg(3)) = Pending(scPipe, StartMsg(3))
             /\ Pending(scPipe, Enable(3)) > 0 => Pending(scPipe', Enable(3)) > 0
             /\ Leads(scPipe, Enable(3), StartMsg(3)) => Leads(scPipe', Enable(3), StartMsg(3))
  <2>1. WakeupMsg \in ScMsgs /\ Request \in ScMsgs
    BY DEF ScMsgs
  <2>2. CASE scPipe' = scPipe
    BY <2>2
  <2>3. CASE \E x \in {WakeupMsg, Request} : scPipe' = Sent(scPipe, x)
    BY <1>1, <2>1, <2>3, ScSent, ScMessages
  <2> QED BY <1>2, <2>2, <2>3
<1>3. CASE SchWakeup \/ Telemetry \/ Ground
  <2>1. UNCHANGED <<rts, lost>> /\ (scPipe' = scPipe \/ scPipe' = Sent(scPipe, WakeupMsg))
    BY <1>3, OutsideTypes
  <2> QED BY <1>2, <2>1, LoopSame
<1>4. CASE Lc
  <2>1. rts' = rts /\ lost \subseteq lost' /\ (scPipe' = scPipe \/ scPipe' = Sent(scPipe, Request))
    <3>1. ASSUME NEW m, LcTakes(m) PROVE UNCHANGED <<rts, scPipe, lost>>
      BY <1>1, <3>1, LcTaking
    <3> QED BY <1>4, <3>1
         DEF Lc, LcSample, LcSampleIgnored, LcTelemetry, LcSetAPState, LcSetState, LcExecuteRTS, scVars
  <2> QED BY <1>2, <2>1, LoopSame
<1>5. ASSUME NEW r \in RTSs, ScTurn(r) PROVE LoopInv'
  <2>1. CASE r = 4
    <3>1. scPipe' = scPipe /\ lost \subseteq lost' /\ rts'[1] = rts[1] /\ rts'[3] = rts[3]
      BY <1>5, <2>1, TurnOfFour DEF Leaves, RTSs
    <3> QED BY <3>1, LoopSame
  <2> QED BY <1>5, <2>1, LoopTurnOfOne, LoopTurnOfThree DEF RTSs
<1>6. ASSUME NEW m \in {Noop, WakeupMsg}, ScTakes(m),
             \A q \in RTSs : /\ rts'[q].executing = rts[q].executing
                             /\ rts'[q].disabled = rts[q].disabled /\ rts'[q].next = rts[q].next
      PROVE  LoopInv'
  <2>1. lost' = lost /\ \A n : n # m => Pending(scPipe', n) = Pending(scPipe, n)
    BY <1>1, <1>6, ScTaking, ScTaken
  <2>2. /\ Pending(scPipe', StartMsg(1)) = Pending(scPipe, StartMsg(1))
        /\ Pending(scPipe', StartMsg(3)) = Pending(scPipe, StartMsg(3))
        /\ Pending(scPipe', Enable(3)) = Pending(scPipe, Enable(3))
        /\ Leads(scPipe, Enable(3), StartMsg(3)) => Leads(scPipe', Enable(3), StartMsg(3))
    BY <1>1, <1>6, <2>1, ScTaking, ScMessages
  <2>3. 1 \in RTSs /\ 3 \in RTSs
    BY DEF RTSs
  <2> QED BY <1>6, <2>1, <2>2, <2>3, LoopSame
<1>7. CASE ScNoop
  BY <1>6, <1>7 DEF ScNoop, scVars
<1>8. CASE ScWakeup
  BY <1>6, <1>8, Wakes DEF ScWakeup
<1>9. CASE ScEndWakeup \/ UNCHANGED vars
  <2>1. UNCHANGED <<rts, scPipe, lost>>
    BY <1>9 DEF ScEndWakeup, vars, scVars
  <2> QED BY <2>1, LoopSame
<1> QED BY <1>3, <1>4, <1>5, <1>7, <1>8, <1>9, LoopStarts, LoopEnables DEF Next, Sc

\* What keeps the sampling alive is in exactly one place, unless a command of
\* SC to itself was lost: RTS 1 has still to start RTS 3, the start is on its
\* way, or RTS 3 executes (tables sc_rts001.c and sc_rts003.c, and
\* SC_StartRtsCmd, which rejects a start of an executing sequence).  It holds
\* for pipes of any depth, any waits and whatever the ground commands.
THEOREM LoopIsAlive == Spec => []SamplingAlive
<1>1. Init => TypeInv /\ LoopInv
  BY InitTypeInv, InitLoopInv
<1>2. TypeInv /\ LoopInv /\ [Next]_vars => TypeInv' /\ LoopInv'
  BY TypeInvStep, LoopInvStep
<1>3. LoopInv => SamplingAlive
  BY DEF LoopInv, SamplingAlive, Booting
<1> QED BY <1>1, <1>2, <1>3, PTL DEF Spec

-----------------------------------------------------------------------------
(* Due times.                                                              *)

\* A wakeup leaves no command due, and within it the first command of a
\* sequence is one late; the other commands are due within their waits.
DueOK(r) ==
  IF rts[r].next = 1 THEN rts[r].due = IF inWakeup THEN -1 ELSE 0
  ELSE /\ rts[r].due <= Table(r)[rts[r].next].wait
       /\ rts[r].due >= IF inWakeup THEN 0 ELSE 1

\* RTS 3 samples before RTS 4 sends its first command.
Ordered ==
  inWakeup /\ rts[4].executing /\ rts[4].next = 2 /\ rts[4].due = 1
    => ~(rts[3].executing /\ rts[3].next = 1)

ClockInv == (\A r \in RTSs : rts[r].executing => DueOK(r)) /\ Ordered

\* Something is next when something is due.
LEMMA SomeNext ==
  ASSUME TypeInv, NEW q \in RTSs, rts[q].executing, rts[q].due <= 0
  PROVE  \E r \in RTSs : IsNextRts(r) /\ rts[r].due <= 0
<1>1. rts[1].due \in Int /\ rts[3].due \in Int /\ rts[4].due \in Int
  BY DEF TypeInv, ScOK, Records, RTSs
<1> DEFINE e1 == rts[1].executing
           e3 == rts[3].executing
           e4 == rts[4].executing
<1>2. e1 /\ (e3 => rts[1].due <= rts[3].due) /\ (e4 => rts[1].due <= rts[4].due) => IsNextRts(1)
  BY <1>1 DEF IsNextRts, Executing, Before, RTSs
<1>3. e3 /\ (e1 => rts[3].due < rts[1].due) /\ (e4 => rts[3].due <= rts[4].due) => IsNextRts(3)
  BY <1>1 DEF IsNextRts, Executing, Before, RTSs
<1>4. e4 /\ (e1 => rts[4].due < rts[1].due) /\ (e3 => rts[4].due < rts[3].due) => IsNextRts(4)
  BY <1>1 DEF IsNextRts, Executing, Before, RTSs
<1>5. (e1 /\ rts[1].due <= 0) \/ (e3 /\ rts[3].due <= 0) \/ (e4 /\ rts[4].due <= 0)
  BY DEF RTSs
<1>6. (IsNextRts(1) /\ rts[1].due <= 0) \/ (IsNextRts(3) /\ rts[3].due <= 0)
        \/ (IsNextRts(4) /\ rts[4].due <= 0)
  <2> HIDE DEF e1, e3, e4
  <2> QED BY <1>1, <1>2, <1>3, <1>4, <1>5
<1> QED BY <1>6 DEF RTSs

LEMMA NothingDue ==
  ASSUME TypeInv, ScEndWakeup
  PROVE  \A r \in RTSs : rts[r].executing => rts[r].due > 0
<1>1. \A r \in RTSs : ~(IsNextRts(r) /\ rts[r].due <= 0)
  BY DEF ScEndWakeup
<1>2. \A r \in RTSs : rts[r].due \in Int
  BY DEF TypeInv, ScOK, Records
<1>3. \A r \in RTSs : rts[r].executing => ~(rts[r].due <= 0)
  BY <1>1, SomeNext
<1> QED BY <1>2, <1>3

LEMMA Waits ==
  /\ \A r \in RTSs : \A k \in 1 .. Len(Table(r)) : Table(r)[k].wait \in Nat
  /\ Table(4)[2].wait = 1 /\ Table(3)[2].wait = 2 /\ Table(1)[4].wait = StartupWait
<1>1. StartupWait \in Nat
  BY FdirLoopAssumption
<1>2. 1 .. 4 = {1, 2, 3, 4} /\ 1 .. 2 = {1, 2}
  OBVIOUS
<1>3. ASSUME NEW r \in RTSs PROVE \A k \in 1 .. Len(Table(r)) : Table(r)[k].wait \in Nat
  <2>1. r = 1 \/ r = 3 \/ r = 4
    BY DEF RTSs
  <2> QED BY <1>1, <1>2, <2>1, TableFacts
<1> QED BY <1>3, TableFacts

LEMMA InitClockInv == Init => ClockInv
<1> SUFFICES ASSUME Init PROVE ClockInv
  OBVIOUS
<1>1. \A r \in RTSs : rts[r] = [Idle EXCEPT !.disabled = r # 1]
  BY DEF Init
<1>2. \A r \in RTSs : rts[r].executing = FALSE
  BY <1>1, ZenonT(60) DEF Idle
<1> QED BY <1>2 DEF ClockInv, Ordered, RTSs

LEMMA ClockSame ==
  ASSUME ClockInv, inWakeup' = inWakeup,
         \A q \in RTSs : /\ rts'[q].executing = rts[q].executing
                         /\ rts'[q].next = rts[q].next /\ rts'[q].due = rts[q].due
  PROVE  ClockInv'
<1>1. \A q \in RTSs : DueOK(q)' = DueOK(q)
  BY DEF DueOK
<1>2. Ordered' = Ordered
  BY DEF Ordered, RTSs
<1> QED BY <1>1, <1>2, Zenon DEF ClockInv

LEMMA ClockTurn ==
  ASSUME TypeInv, ClockInv, NEW r \in RTSs, ScTurn(r)
  PROVE  ClockInv'
<1>1. /\ inWakeup /\ inWakeup' /\ rts[r].executing /\ rts[r].due <= 0 /\ IsNextRts(r) /\ Leaves(r)
      /\ rts[r].next \in 1 .. Len(Table(r)) /\ Len(Table(r)) \in Nat
      /\ rts[r].next < Len(Table(r)) =>
           Goes(r, rts[r].next + 1, Table(r)[rts[r].next + 1].wait)
      /\ rts[r].next = Len(Table(r)) => ~rts'[r].executing
  BY TurnMoves, TableFacts, SMTT(60) DEF RTSs
<1>2. ASSUME NEW q \in RTSs, rts'[q].executing PROVE DueOK(q)'
  <2>1. CASE q = r
    <3>1. rts[r].next < Len(Table(r))
      BY <1>1, <1>2, <2>1
    <3>2. rts'[r].next = rts[r].next + 1 /\ rts'[r].due = Table(r)[rts[r].next + 1].wait
      BY <1>1, <3>1 DEF Goes
    <3>3. Table(r)[rts[r].next + 1].wait \in Nat
      BY <1>1, <3>1, Waits
    <3>4. rts'[r].next # 1 /\ rts'[r].due = Table(r)[rts'[r].next].wait /\ rts'[r].due >= 0
      BY <1>1, <3>2, <3>3
    <3>5. rts'[r].due <= Table(r)[rts'[r].next].wait
      BY <3>2, <3>3, <3>4
    <3> QED BY <1>1, <2>1, <3>4, <3>5, Zenon DEF DueOK
  <2>2. CASE q # r
    <3>1. rts'[q] = rts[q]
      BY <1>1, <2>2 DEF Leaves
    <3>2. DueOK(q)
      BY <1>2, <3>1 DEF ClockInv
    <3> QED BY <1>1, <3>1, <3>2 DEF DueOK
  <2> QED BY <2>1, <2>2
<1>3. Ordered'
  <2> SUFFICES ASSUME rts'[4].executing, rts'[4].next = 2, rts'[4].due = 1,
                      rts'[3].executing, rts'[3].next = 1
               PROVE  FALSE
    BY DEF Ordered
  <2>1. CASE r = 1
    <3>1. rts'[4] = rts[4] /\ rts'[3] = rts[3]
      BY <1>1, <2>1 DEF Leaves, RTSs
    <3> QED BY <1>1, <3>1 DEF ClockInv, Ordered
  <2>2. CASE r = 3
    BY <2>2, TurnOfThree DEF Goes
  <2>3. CASE r = 4
    <3>1. rts[4].next = 1 /\ rts'[3] = rts[3]
      BY <1>1, <2>3, TurnOfFour DEF Leaves, RTSs
    <3>2. rts[4].due = -1 /\ rts[3].due = -1
      BY <1>1, <2>3, <3>1 DEF ClockInv, DueOK, RTSs
    <3>3. Before(4, 3)
      BY <1>1, <2>3, <3>1 DEF IsNextRts, Executing, RTSs
    <3> QED BY <3>2, <3>3 DEF Before
  <2> QED BY <2>1, <2>2, <2>3 DEF RTSs
<1> QED BY <1>2, <1>3 DEF ClockInv

LEMMA ClockInvStep == TypeInv /\ ClockInv /\ [Next]_vars => ClockInv'
<1> SUFFICES ASSUME TypeInv, ClockInv, [Next]_vars PROVE ClockInv'
  OBVIOUS
<1>1. PipesOK
  BY DEF TypeInv
<1>2. CASE SchWakeup \/ Telemetry \/ Ground \/ UNCHANGED vars
  <2>1. UNCHANGED <<rts, inWakeup>>
    BY <1>2, OutsideTypes DEF vars, scVars
  <2> QED BY <2>1, ClockSame
<1>3. CASE Lc
  <2>1. UNCHANGED <<rts, inWakeup>>
    <3>1. ASSUME NEW m, LcTakes(m) PROVE UNCHANGED <<rts, inWakeup>>
      BY <1>1, <3>1, LcTaking
    <3> QED BY <1>3, <3>1
         DEF Lc, LcSample, LcSampleIgnored, LcTelemetry, LcSetAPState, LcSetState, LcExecuteRTS, scVars
  <2> QED BY <2>1, ClockSame
<1>4. ASSUME NEW r \in RTSs, ScStart(r) PROVE ClockInv'
  <2>1. ~inWakeup /\ inWakeup' = inWakeup /\ Leaves(r)
        /\ IF rts[r].disabled \/ rts[r].executing THEN rts' = rts ELSE Goes(r, 1, 0)
    BY <1>1, <1>4, Starts, ScTaking DEF ScStart
  <2>2. CASE rts' = rts
    BY <2>1, <2>2, ClockSame
  <2>3. CASE Goes(r, 1, 0)
    <3>1. \A q \in RTSs : rts'[q].executing => DueOK(q)'
      <4> SUFFICES ASSUME NEW q \in RTSs, rts'[q].executing PROVE DueOK(q)'
        OBVIOUS
      <4>1. CASE q = r
        BY <2>1, <2>3, <4>1 DEF Goes, DueOK
      <4>2. CASE q # r
        <5>1. rts'[q] = rts[q]
          BY <2>1, <4>2 DEF Leaves
        <5> QED BY <2>1, <5>1 DEF ClockInv, DueOK
      <4> QED BY <4>1, <4>2
    <3>2. Ordered'
      BY <2>1 DEF Ordered
    <3> QED BY <3>1, <3>2 DEF ClockInv
  <2> QED BY <2>1, <2>2, <2>3
<1>5. ASSUME NEW r \in RTSs, ScEnable(r) PROVE ClockInv'
  BY <1>5, Enables, ClockSame
<1>6. CASE ScNoop
  BY <1>6, ClockSame DEF ScNoop, scVars
<1>7. CASE ScWakeup
  <2>1. /\ ~inWakeup /\ inWakeup'
        /\ \A q \in RTSs : /\ rts'[q].executing = rts[q].executing
                           /\ rts'[q].next = rts[q].next
                           /\ rts[q].executing => rts'[q].due = rts[q].due - 1
    BY <1>1, <1>7, Wakes, ScTaking DEF ScWakeup
  <2>2. \A q \in RTSs : /\ rts[q].due \in Int /\ rts[q].next \in 1 .. 4
                        /\ rts[q].executing => rts[q].next \in 1 .. Len(Table(q))
    <3>1. \A q \in RTSs : rts[q].due \in Int /\ rts[q].next \in 1 .. 4
      BY DEF TypeInv, ScOK, Records
    <3>2. \A q \in RTSs : rts[q].executing => rts[q].next <= Len(Table(q))
      BY <3>1, TableFacts DEF TypeInv, ScOK, RTSs
    <3>3. \A q \in RTSs : Len(Table(q)) \in Nat
      BY TableFacts DEF RTSs
    <3> QED BY <3>1, <3>2, <3>3
  <2>3. ASSUME NEW q \in RTSs, rts'[q].executing PROVE DueOK(q)'
    <3>1. DueOK(q) /\ rts'[q].next = rts[q].next /\ rts'[q].due = rts[q].due - 1
      BY <2>1, <2>3 DEF ClockInv
    <3>2. rts[q].due \in Int /\ (rts[q].next \in 1 .. Len(Table(q)))
      BY <2>1, <2>2, <2>3
    <3>3. Table(q)[rts[q].next].wait \in Nat
      BY <3>2, Waits
    <3> QED BY <2>1, <3>1, <3>2, <3>3 DEF DueOK
  <2>4. Ordered'
    <3> SUFFICES ASSUME rts'[4].executing, rts'[4].next = 2, rts'[4].due = 1 PROVE FALSE
      BY DEF Ordered
    <3>1. rts[4].executing /\ rts[4].next = 2 /\ rts[4].due - 1 = 1 /\ rts[4].due \in Int
      BY <2>1, <2>2 DEF RTSs
    <3>2. rts[4].due <= 1
      BY <3>1, Waits DEF ClockInv, DueOK, RTSs
    <3> QED BY <3>1, <3>2
  <2> QED BY <2>3, <2>4 DEF ClockInv
<1>8. CASE ScEndWakeup
  <2>1. rts' = rts /\ ~inWakeup' /\ inWakeup /\ \A q \in RTSs : rts[q].executing => rts[q].due > 0
    BY <1>8, NothingDue DEF ScEndWakeup
  <2>2. ASSUME NEW q \in RTSs, rts'[q].executing PROVE DueOK(q)'
    <3>1. DueOK(q) /\ rts[q].due > 0 /\ rts[q].due \in Int
      BY <2>1, <2>2 DEF ClockInv, TypeInv, ScOK, Records
    <3> QED BY <2>1, <3>1 DEF DueOK
  <2>3. Ordered'
    BY <2>1 DEF Ordered
  <2> QED BY <2>2, <2>3 DEF ClockInv
<1> QED BY <1>2, <1>3, <1>4, <1>5, <1>6, <1>7, <1>8, ClockTurn DEF Next, Sc

-----------------------------------------------------------------------------
(* How full a count can be while RTS 1 still executes.                     *)

\* The failures that a can have counted once the samples in the pipe are
\* taken.
Load(a) == ap[a].fails + Pending(lcPipe, Sample)

\* Each round of RTS 3 takes three wakeups.
MarginInv ==
  lost = {} => \A a \in AP :
    /\ Booting \/ Pending(scPipe, StartMsg(1)) > 0 => Load(a) = 0
    /\ rts[1].executing /\ rts[1].next = 4 =>
         /\ rts[3].executing => 3 * Load(a) <= StartupWait - rts[1].due + rts[3].due
         /\ Pending(scPipe, StartMsg(3)) > 0 => 3 * Load(a) <= StartupWait - rts[1].due

LEMMA LoadNat == TypeInv => \A a \in AP : ap[a].fails \in Nat /\ Load(a) \in Nat
<1> SUFFICES ASSUME TypeInv, NEW a \in AP PROVE ap[a].fails \in Nat /\ Load(a) \in Nat
  OBVIOUS
<1>1. ap[a].fails \in Nat
  BY FdirLoopAssumption DEF TypeInv, LcOK
<1>2. Pending(lcPipe, Sample) \in Nat
  BY PendingNat DEF TypeInv
<1> QED BY <1>1, <1>2 DEF Load

\* With nothing lost, the sampling is in one place.
LEMMA OnePlace ==
  ASSUME TypeInv, LoopInv, lost = {}
  PROVE  /\ rts[3].executing =>
              Pending(scPipe, StartMsg(1)) = 0 /\ Pending(scPipe, StartMsg(3)) = 0 /\ ~Booting
         /\ Pending(scPipe, StartMsg(3)) > 0 =>
              /\ Pending(scPipe, StartMsg(3)) = 1
              /\ ~rts[3].executing /\ Pending(scPipe, StartMsg(1)) = 0 /\ ~Booting
         /\ rts[1].executing => Pending(scPipe, StartMsg(1)) = 0
         /\ rts[3].executing \/ Pending(scPipe, StartMsg(3)) > 0
              \/ Booting \/ Pending(scPipe, StartMsg(1)) > 0
<1>1. lost \cap {"START", "ENABLE"} = {}
  OBVIOUS
<1>2. One(Booting) + Pending(scPipe, StartMsg(1)) + Pending(scPipe, StartMsg(3))
        + One(rts[3].executing) = 1
  BY <1>1 DEF LoopInv
<1>3. Pending(scPipe, StartMsg(1)) + One(rts[1].executing) <= 1
  BY DEF LoopInv
<1>4. Pending(scPipe, StartMsg(1)) \in Nat /\ Pending(scPipe, StartMsg(3)) \in Nat
  BY PendingNat DEF TypeInv
<1>5. One(Booting) \in {0, 1} /\ (Booting => One(Booting) = 1)
      /\ (One(Booting) = 1 => Booting)
  BY DEF One
<1>6. /\ One(rts[3].executing) \in {0, 1} /\ (rts[3].executing => One(rts[3].executing) = 1)
      /\ (One(rts[3].executing) = 1 => rts[3].executing)
  BY DEF One
<1>7. rts[1].executing => One(rts[1].executing) = 1
  BY DEF One
<1> HIDE DEF Booting
<1> QED BY <1>2, <1>3, <1>4, <1>5, <1>6, <1>7

\* A message sent to LC or taken by it.
LEMMA LcSent ==
  ASSUME PipesOK, NEW x \in LcMsgs, lcPipe' = Sent(lcPipe, x)
  PROVE  /\ \A m : m # x => Pending(lcPipe', m) = Pending(lcPipe, m)
         /\ Pending(lcPipe', x) <= Pending(lcPipe, x) + 1
         /\ Room(lcPipe, x) => Pending(lcPipe', x) > 0
         /\ \A m : Pending(lcPipe, m) > 0 => Pending(lcPipe', m) > 0
         /\ \A m, n : m # n /\ x # n /\ Trails(lcPipe, m, n) => Trails(lcPipe', m, n)
         /\ \A n : x # n /\ Room(lcPipe, x) => Trails(lcPipe', x, n)
<1>1. /\ \A m : Pending(lcPipe', m) = Pending(lcPipe, m) + One(x = m /\ Room(lcPipe, x))
      /\ \A m, n : m # n /\ x # n /\ Trails(lcPipe, m, n) => Trails(lcPipe', m, n)
      /\ \A n : x # n /\ Room(lcPipe, x) => Trails(lcPipe', x, n)
  BY SentEffect DEF PipesOK
<1>2. \A m : Pending(lcPipe, m) \in Nat
  BY PendingNat
<1>3. \A m : One(x = m /\ Room(lcPipe, x)) \in {0, 1}
  BY DEF One
<1>4. ASSUME NEW m, m # x PROVE Pending(lcPipe', m) = Pending(lcPipe, m)
  <2>1. One(x = m /\ Room(lcPipe, x)) = 0
    BY <1>4 DEF One
  <2>2. Pending(lcPipe', m) = Pending(lcPipe, m) + One(x = m /\ Room(lcPipe, x))
        /\ Pending(lcPipe, m) \in Nat
    BY <1>1, <1>2
  <2> QED BY <2>1, <2>2
<1>5. ASSUME NEW m, Pending(lcPipe, m) > 0 PROVE Pending(lcPipe', m) > 0
  <2>1. Pending(lcPipe', m) = Pending(lcPipe, m) + One(x = m /\ Room(lcPipe, x))
        /\ Pending(lcPipe, m) \in Nat /\ One(x = m /\ Room(lcPipe, x)) \in {0, 1}
    BY <1>1, <1>2, <1>3
  <2> QED BY <1>5, <2>1
<1>6. Pending(lcPipe', x) <= Pending(lcPipe, x) + 1
      /\ (Room(lcPipe, x) => Pending(lcPipe', x) > 0)
  <2>1. Pending(lcPipe', x) = Pending(lcPipe, x) + One(x = x /\ Room(lcPipe, x))
        /\ Pending(lcPipe, x) \in Nat /\ One(x = x /\ Room(lcPipe, x)) \in {0, 1}
    BY <1>1, <1>2, <1>3
  <2>2. Room(lcPipe, x) => One(x = x /\ Room(lcPipe, x)) = 1
    BY DEF One
  <2> QED BY <2>1, <2>2
<1> QED BY <1>1, <1>4, <1>5, <1>6

LEMMA LcTaken ==
  ASSUME PipesOK, NEW m, LcTakes(m)
  PROVE  /\ \A n : n # m => Pending(lcPipe', n) = Pending(lcPipe, n)
         /\ Pending(lcPipe', m) = Pending(lcPipe, m) - 1 /\ Pending(lcPipe', m) \in Nat
<1>1. lcPipe' \in Seq(LcMsgs) /\ \A n : Pending(lcPipe, n) = Pending(lcPipe', n) + One(m = n)
  BY LcTaking
<1>2. \A n : Pending(lcPipe', n) \in Nat
  BY <1>1, PendingIsNat
<1>3. One(m = m) = 1 /\ \A n : n # m => One(m = n) = 0
  BY DEF One
<1>4. ASSUME NEW n, n # m PROVE Pending(lcPipe', n) = Pending(lcPipe, n)
  <2>1. Pending(lcPipe, n) = Pending(lcPipe', n) + One(m = n) /\ Pending(lcPipe', n) \in Nat
    BY <1>1, <1>2
  <2> QED BY <1>3, <1>4, <2>1
<1>5. Pending(lcPipe', m) = Pending(lcPipe, m) - 1
  BY <1>1, <1>2, <1>3
<1> QED BY <1>2, <1>4, <1>5

\* LC never adds to the load.
LEMMA LcLoad ==
  ASSUME TypeInv, Lc
  PROVE  \A a \in AP : Load(a)' <= Load(a)
<1>1. PipesOK /\ PipesOK' /\ MaxFails \in Nat
  BY LcTypes, FdirLoopAssumption DEF TypeInv
<1>2. Pending(lcPipe, Sample) \in Nat /\ Pending(lcPipe', Sample) \in Nat
  BY <1>1, PendingIsNat DEF PipesOK
<1>3. \A a \in AP : ap[a].fails \in 0 .. MaxFails /\ ap[a].fails \in Nat
  BY <1>1 DEF TypeInv, LcOK
<1>4. ASSUME NEW v \in [AP -> Verdicts], LcSample(v), NEW a \in AP PROVE Load(a)' <= Load(a)
  <2>1. Pending(lcPipe', Sample) = Pending(lcPipe, Sample) - 1
    BY <1>1, <1>4, LcTaken DEF LcSample
  <2>2. ap'[a].fails <= ap[a].fails + 1 /\ ap'[a].fails \in Nat
    <3>1. \/ ap'[a].fails = ap[a].fails \/ ap'[a].fails = FailsAfter(a, v[a])
      BY <1>4 DEF LcSample
    <3>2. v[a] = "FAIL" \/ v[a] = "PASS" \/ v[a] = "ERROR"
      BY DEF Verdicts
    <3>3. FailsAfter(a, v[a]) <= ap[a].fails + 1 /\ FailsAfter(a, v[a]) \in Nat
      BY <1>1, <1>3, <3>2 DEF FailsAfter
    <3> QED BY <1>3, <3>1, <3>3
  <2> QED BY <1>2, <1>3, <2>1, <2>2 DEF Load
<1>5. ASSUME NEW m, LcTakes(m) PROVE Pending(lcPipe', Sample) <= Pending(lcPipe, Sample)
  <2>1. CASE m = Sample
    BY <1>1, <1>2, <1>5, <2>1, LcTaken
  <2>2. CASE m # Sample
    BY <1>1, <1>2, <1>5, <2>2, LcTaken
  <2> QED BY <2>1, <2>2
<1>6. ASSUME Pending(lcPipe', Sample) <= Pending(lcPipe, Sample), NEW a \in AP,
             ap'[a].fails = ap[a].fails
      PROVE  Load(a)' <= Load(a)
  BY <1>2, <1>3, <1>6 DEF Load
<1>7. CASE LcSampleIgnored \/ LcTelemetry \/ LcSetState
  BY <1>5, <1>6, <1>7 DEF LcSampleIgnored, LcTelemetry, LcSetState, lcVars
<1>8. CASE LcSetAPState
  <2>1. PICK b \in AP, s \in APStates, by \in {"RTS", "GROUND"} :
          LcTakes(SetAP(b, s, by)) /\ ap' = [ap EXCEPT ![b].state = s]
    BY <1>8 DEF LcSetAPState
  <2>2. \A a \in AP : ap'[a].fails = ap[a].fails
    BY <2>1 DEF TypeInv, LcOK
  <2> QED BY <1>5, <1>6, <2>1, <2>2
<1>9. CASE LcExecuteRTS
  <2>1. ap' = ap /\ lcPipe' = lcPipe
    BY <1>9 DEF LcExecuteRTS
  <2> QED BY <1>2, <1>6, <2>1
<1> QED BY <1>4, <1>7, <1>8, <1>9 DEF Lc

\* Whatever does not move the sequences 1 and 3 and sends no sample.
LEMMA MarginSame ==
  ASSUME TypeInv, TypeInv', MarginInv, lost \subseteq lost',
         \A a \in AP : Load(a)' <= Load(a),
         rts'[1].executing = rts[1].executing, rts'[1].next = rts[1].next, rts'[1].due = rts[1].due,
         rts'[3].executing = rts[3].executing, rts'[3].due = rts[3].due,
         Pending(scPipe', StartMsg(1)) = Pending(scPipe, StartMsg(1)),
         Pending(scPipe', StartMsg(3)) = Pending(scPipe, StartMsg(3))
  PROVE  MarginInv'
<1> SUFFICES ASSUME lost' = {}, NEW a \in AP
             PROVE  /\ Booting' \/ Pending(scPipe', StartMsg(1)) > 0 => Load(a)' = 0
                    /\ rts'[1].executing /\ rts'[1].next = 4 =>
                         /\ rts'[3].executing => 3 * Load(a)' <= StartupWait - rts'[1].due + rts'[3].due
                         /\ Pending(scPipe', StartMsg(3)) > 0 => 3 * Load(a)' <= StartupWait - rts'[1].due
  BY DEF MarginInv
<1>1. Load(a) \in Nat
  BY LoadNat
<1>2. Load(a)' \in Nat
  <2>1. ap'[a].fails \in Nat
    BY FdirLoopAssumption DEF TypeInv, LcOK
  <2>2. Pending(lcPipe', Sample) \in Nat
    BY PendingIsNat DEF TypeInv, PipesOK
  <2> QED BY <2>1, <2>2 DEF Load
<1>3. Load(a)' <= Load(a) /\ StartupWait \in Int /\ rts[1].due \in Int /\ rts[3].due \in Int
  BY FdirLoopAssumption DEF TypeInv, ScOK, Records, RTSs
<1>4. lost = {}
  OBVIOUS
<1>5. Booting' = Booting
  BY DEF Booting
<1>6. /\ Booting \/ Pending(scPipe, StartMsg(1)) > 0 => Load(a) = 0
      /\ rts[1].executing /\ rts[1].next = 4 =>
           /\ rts[3].executing => 3 * Load(a) <= StartupWait - rts[1].due + rts[3].due
           /\ Pending(scPipe, StartMsg(3)) > 0 => 3 * Load(a) <= StartupWait - rts[1].due
  BY <1>4 DEF MarginInv
<1>7. Booting' \/ Pending(scPipe', StartMsg(1)) > 0 => Load(a)' = 0
  BY <1>1, <1>2, <1>3, <1>5, <1>6
<1>8. rts[1].executing /\ rts[1].next = 4 /\ rts[3].executing
        => 3 * Load(a)' <= StartupWait - rts[1].due + rts[3].due
  BY <1>1, <1>2, <1>3, <1>6
<1>9. rts[1].executing /\ rts[1].next = 4 /\ Pending(scPipe, StartMsg(3)) > 0
        => 3 * Load(a)' <= StartupWait - rts[1].due
  BY <1>1, <1>2, <1>3, <1>6
<1> QED BY <1>7, <1>8, <1>9

LEMMA SameLoad ==
  ASSUME TypeInv, UNCHANGED ap,
         lcPipe' = lcPipe \/ \E x \in LcMsgs \ {Sample} : lcPipe' = Sent(lcPipe, x)
  PROVE  \A a \in AP : Load(a)' = Load(a)
<1>1. PipesOK
  BY DEF TypeInv
<1>2. Pending(lcPipe', Sample) = Pending(lcPipe, Sample)
  BY <1>1, LcSent
<1> QED BY <1>2 DEF Load

\* What LC, the scheduler, the bridge and the ground leave alone.
LEMMA ByOthers ==
  ASSUME TypeInv, SchWakeup \/ Telemetry \/ Ground \/ Lc \/ UNCHANGED vars
  PROVE  /\ UNCHANGED <<rts, inWakeup>> /\ lost \subseteq lost'
         /\ \A m : m # WakeupMsg /\ m # Request => Pending(scPipe', m) = Pending(scPipe, m)
         /\ \A m, n : m # n /\ Leads(scPipe, m, n) => Leads(scPipe', m, n)
         /\ \A a \in AP : Load(a)' <= Load(a)
<1>1. PipesOK
  BY DEF TypeInv
<1>2. \A a \in AP : Load(a) \in Nat
  BY LoadNat
<1>3. ASSUME scPipe' = scPipe \/ \E x \in {WakeupMsg, Request} : scPipe' = Sent(scPipe, x)
      PROVE  /\ \A m : m # WakeupMsg /\ m # Request => Pending(scPipe', m) = Pending(scPipe, m)
             /\ \A m, n : m # n /\ Leads(scPipe, m, n) => Leads(scPipe', m, n)
  <2>1. WakeupMsg \in ScMsgs /\ Request \in ScMsgs
    BY DEF ScMsgs
  <2> QED BY <1>1, <1>3, <2>1, ScSent
<1>4. CASE SchWakeup \/ Telemetry \/ Ground
  <2>1. /\ UNCHANGED <<ap, rts, inWakeup, lost>>
        /\ \/ scPipe' = Sent(scPipe, WakeupMsg) /\ lcPipe' = lcPipe
           \/ scPipe' = scPipe /\ \E m \in {Tlm} \cup FromGround : lcPipe' = Sent(lcPipe, m)
    BY <1>4, OutsideTypes
  <2>2. \A m \in {Tlm} \cup FromGround : m \in LcMsgs \ {Sample}
    <3>1. \A m \in FromGround : m # Sample
      BY LcMessages DEF FromGround
    <3> QED BY <3>1, LcMessages DEF LcMsgs
  <2>3. \A a \in AP : Load(a)' = Load(a)
    BY <2>1, <2>2, SameLoad
  <2>4. \A a \in AP : Load(a)' <= Load(a)
    BY <1>2, <2>3
  <2> QED BY <1>3, <2>1, <2>4
<1>5. CASE Lc
  <2>1. /\ UNCHANGED <<rts, inWakeup>> /\ lost \subseteq lost'
        /\ scPipe' = scPipe \/ scPipe' = Sent(scPipe, Request)
    <3>1. ASSUME NEW m, LcTakes(m) PROVE UNCHANGED <<rts, inWakeup, scPipe, lost>>
      BY <1>1, <3>1, LcTaking
    <3> QED BY <1>5, <3>1
         DEF Lc, LcSample, LcSampleIgnored, LcTelemetry, LcSetAPState, LcSetState, LcExecuteRTS, scVars
  <2> QED BY <1>3, <1>5, <2>1, LcLoad
<1>6. CASE UNCHANGED vars
  <2>1. UNCHANGED <<ap, lcPipe, rts, inWakeup, scPipe, lost>>
    BY <1>6 DEF vars, lcVars, scVars
  <2>2. \A a \in AP : Load(a)' <= Load(a)
    BY <1>2, <2>1 DEF Load
  <2> QED BY <1>3, <2>1, <2>2
<1> QED BY <1>4, <1>5, <1>6

LEMMA InitMarginInv == Init => MarginInv
<1> SUFFICES ASSUME Init, NEW a \in AP PROVE Load(a) = 0 /\ ~rts[1].executing
  BY DEF MarginInv
<1>1. ap[a].fails = 0 /\ Pending(lcPipe, Sample) = 0
  BY EmptyPending DEF Init
<1>2. rts[1] = [Idle EXCEPT !.disabled = 1 # 1]
  BY DEF Init, RTSs
<1>3. rts[1].executing = FALSE
  BY <1>2 DEF Idle
<1> QED BY <1>1, <1>3 DEF Load

LEMMA MarginStarts ==
  ASSUME TypeInv, TypeInv', LoopInv, MarginInv, NEW r \in RTSs, ScStart(r)
  PROVE  MarginInv'
<1>1. PipesOK /\ ScTakes(StartMsg(r))
  BY DEF TypeInv, ScStart
<1>2. /\ lost' = lost /\ ap' = ap /\ lcPipe' = lcPipe /\ Leaves(r)
      /\ IF rts[r].disabled \/ rts[r].executing THEN rts' = rts ELSE Goes(r, 1, 0)
  BY <1>1, Starts, ScTaking
<1>3. \A a \in AP : Load(a)' = Load(a) /\ Load(a) \in Nat
  BY <1>2, LoadNat DEF Load
<1>4. /\ \A n : n # StartMsg(r) => Pending(scPipe', n) = Pending(scPipe, n)
      /\ Pending(scPipe', StartMsg(r)) = Pending(scPipe, StartMsg(r)) - 1
      /\ Pending(scPipe', StartMsg(r)) \in Nat /\ Pending(scPipe, StartMsg(r)) > 0
      /\ Pending(scPipe, StartMsg(3)) \in Nat /\ Pending(scPipe, StartMsg(1)) \in Nat
  <2>1. Pending(scPipe, StartMsg(r)) \in Nat /\ Pending(scPipe, StartMsg(3)) \in Nat
        /\ Pending(scPipe, StartMsg(1)) \in Nat
    BY <1>1, PendingNat
  <2> QED BY <1>1, <2>1, ScTaken
<1>5. \A q \in RTSs \ {r} : rts'[q] = rts[q]
  BY <1>2 DEF Leaves
<1>6. CASE r = 1
  <2> SUFFICES ASSUME lost' = {}, NEW a \in AP
               PROVE  Load(a)' = 0 /\ ~(rts'[1].executing /\ rts'[1].next = 4)
    BY DEF MarginInv
  <2>1. Load(a) = 0
    BY <1>2, <1>4, <1>6 DEF MarginInv
  <2>2. ~rts[1].executing /\ ~rts[1].disabled
    BY <1>2, <1>4, <1>6, OnePlace DEF LoopInv
  <2>3. Goes(1, 1, 0)
    BY <1>2, <1>6, <2>2
  <2> QED BY <1>3, <2>1, <2>3 DEF Goes
<1>7. CASE r = 3
  <2> SUFFICES ASSUME lost' = {}, NEW a \in AP
               PROVE  /\ ~Booting' /\ ~(Pending(scPipe', StartMsg(1)) > 0)
                      /\ ~(Pending(scPipe', StartMsg(3)) > 0)
                      /\ rts'[1].executing /\ rts'[1].next = 4 /\ rts'[3].executing
                           => 3 * Load(a)' <= StartupWait - rts'[1].due + rts'[3].due
    BY DEF MarginInv
  <2>1. /\ Pending(scPipe, StartMsg(3)) = 1 /\ ~rts[3].executing
        /\ Pending(scPipe, StartMsg(1)) = 0 /\ ~Booting
    BY <1>2, <1>4, <1>7, OnePlace
  <2>2. rts'[1] = rts[1]
    BY <1>5, <1>7 DEF RTSs
  <2>3. Pending(scPipe', StartMsg(3)) = 0 /\ Pending(scPipe', StartMsg(1)) = 0
    BY <1>4, <1>7, <2>1, ScMessages
  <2>4. ~Booting'
    BY <2>1, <2>2 DEF Booting
  <2>5. rts'[3].executing => rts'[3].due = 0
    BY <1>2, <1>7, <2>1 DEF Goes
  <2>6. rts[1].executing /\ rts[1].next = 4 => 3 * Load(a) <= StartupWait - rts[1].due
    BY <1>2, <2>1 DEF MarginInv
  <2>7. StartupWait \in Int /\ rts[1].due \in Int
    BY FdirLoopAssumption DEF TypeInv, ScOK, Records, RTSs
  <2> QED BY <1>3, <2>2, <2>3, <2>4, <2>5, <2>6, <2>7
<1>8. CASE r = 4
  <2>1. rts'[1] = rts[1] /\ rts'[3] = rts[3]
    BY <1>5, <1>8 DEF RTSs
  <2>2. Pending(scPipe', StartMsg(1)) = Pending(scPipe, StartMsg(1))
        /\ Pending(scPipe', StartMsg(3)) = Pending(scPipe, StartMsg(3))
    BY <1>4, <1>8, ScMessages
  <2>3. \A a \in AP : Load(a)' <= Load(a)
    BY <1>3
  <2> QED BY <1>2, <2>1, <2>2, <2>3, MarginSame
<1> QED BY <1>6, <1>7, <1>8 DEF RTSs

LEMMA MarginTurnOfOne ==
  ASSUME TypeInv, TypeInv', LoopInv, MarginInv, ScTurn(1)
  PROVE  MarginInv'
<1>1. PipesOK /\ rts[1].executing /\ rts[1].next \in 1 .. 4
  BY TurnMoves, TableFacts DEF TypeInv, RTSs
<1>2. lost \subseteq lost' /\ lcPipe' = lcPipe /\ rts'[3] = rts[3] /\ ap' = ap
  BY TurnOfOne, TurnMoves DEF Leaves, RTSs
<1>3. \A a \in AP : Load(a)' = Load(a) /\ Load(a) \in Nat
  BY <1>2, LoadNat DEF Load
<1> SUFFICES ASSUME lost' = {}, NEW a \in AP
             PROVE  /\ Booting' \/ Pending(scPipe', StartMsg(1)) > 0 => Load(a)' = 0
                    /\ rts'[1].executing /\ rts'[1].next = 4 =>
                         /\ rts'[3].executing => 3 * Load(a)' <= StartupWait - rts'[1].due + rts'[3].due
                         /\ Pending(scPipe', StartMsg(3)) > 0 => 3 * Load(a)' <= StartupWait - rts'[1].due
  BY DEF MarginInv
<1>4. lost = {}
  BY <1>2
<1>5. CASE rts[1].next <= 3
  <2>1. Booting
    BY <1>1, <1>5 DEF Booting
  <2>2. Load(a)' = 0
    BY <1>3, <1>4, <2>1 DEF MarginInv
  <2>3. ~rts'[3].executing
    BY <1>2, <1>4, <2>1, OnePlace
  <2>4. rts'[1].next = 4 => rts'[1].due = StartupWait
    BY <1>5, TurnOfOne DEF Goes
  <2>5. StartupWait \in Nat
    BY FdirLoopAssumption
  <2> QED BY <2>2, <2>3, <2>4, <2>5
<1>6. CASE rts[1].next = 4
  <2>1. ~rts'[1].executing /\ scPipe' = Sent(scPipe, Enable(4))
    BY <1>6, TurnOfOne
  <2>2. Enable(4) \in ScMsgs
    BY DEF ScMsgs
  <2>3. Pending(scPipe', StartMsg(1)) = Pending(scPipe, StartMsg(1))
    BY <1>1, <2>1, <2>2, ScSent, ScMessages
  <2>4. Pending(scPipe, StartMsg(1)) = 0
    BY <1>1, <1>4, OnePlace
  <2> QED BY <2>1, <2>3, <2>4 DEF Booting
<1> QED BY <1>1, <1>5, <1>6

LEMMA MarginTurnOfThree ==
  ASSUME TypeInv, TypeInv', LoopInv, ClockInv, MarginInv, ScTurn(3)
  PROVE  MarginInv'
<1>1. PipesOK /\ rts[3].executing /\ rts[3].due <= 0 /\ inWakeup /\ rts[3].next \in 1 .. 2
  BY TurnMoves, TableFacts DEF TypeInv, RTSs
<1>2. lost \subseteq lost' /\ rts'[1] = rts[1] /\ ap' = ap
  BY TurnOfThree, TurnMoves DEF Leaves, RTSs
<1> SUFFICES ASSUME lost' = {}, NEW a \in AP
             PROVE  /\ ~Booting' /\ ~(Pending(scPipe', StartMsg(1)) > 0)
                    /\ rts'[1].executing /\ rts'[1].next = 4 =>
                         /\ rts'[3].executing => 3 * Load(a)' <= StartupWait - rts'[1].due + rts'[3].due
                         /\ Pending(scPipe', StartMsg(3)) > 0 => 3 * Load(a)' <= StartupWait - rts'[1].due
  BY DEF MarginInv
<1>3. lost = {}
  BY <1>2
<1>4. Pending(scPipe, StartMsg(1)) = 0 /\ Pending(scPipe, StartMsg(3)) = 0 /\ ~Booting
  BY <1>1, <1>3, OnePlace
<1>5. ~Booting'
  BY <1>2, <1>4 DEF Booting
<1>6. rts[1].executing /\ rts[1].next = 4 => 3 * Load(a) <= StartupWait - rts[1].due + rts[3].due
  BY <1>1, <1>3 DEF MarginInv
<1>7. DueOK(3) /\ rts[3].due \in Int /\ rts[1].due \in Int /\ StartupWait \in Int
      /\ ap[a].fails \in Nat /\ Pending(lcPipe, Sample) \in Nat /\ Load(a) \in Nat
  BY <1>1, FdirLoopAssumption, LoadNat, PendingNat DEF ClockInv, TypeInv, ScOK, Records, RTSs
<1>8. CASE rts[3].next = 1
  <2>1. Goes(3, 2, 2) /\ lcPipe' = Sent(lcPipe, Sample) /\ scPipe' = scPipe
    BY <1>8, TurnOfThree
  <2>2. rts[3].due = -1
    BY <1>1, <1>7, <1>8 DEF DueOK
  <2>3. Sample \in LcMsgs
    BY DEF LcMsgs
  <2>4. Pending(lcPipe', Sample) <= Pending(lcPipe, Sample) + 1 /\ Pending(lcPipe', Sample) \in Nat
    BY <1>1, <2>1, <2>3, LcSent, PendingIsNat DEF TypeInv, PipesOK
  <2>5. Load(a)' <= Load(a) + 1 /\ Load(a)' \in Nat
    BY <1>2, <1>7, <2>4 DEF Load
  <2>6. rts'[3].due = 2
    BY <2>1 DEF Goes
  <2>7. rts[1].executing /\ rts[1].next = 4 => 3 * Load(a)' <= StartupWait - rts[1].due + 2
    BY <1>6, <1>7, <2>2, <2>5
  <2> QED BY <1>2, <1>4, <1>5, <2>1, <2>6, <2>7
<1>9. CASE rts[3].next = 2
  <2>1. ~rts'[3].executing /\ scPipe' = Sent(scPipe, StartMsg(3)) /\ lcPipe' = lcPipe
    BY <1>9, TurnOfThree
  <2>2. rts[3].due = 0
    BY <1>1, <1>7, <1>9 DEF DueOK
  <2>3. StartMsg(3) \in ScMsgs
    BY DEF ScMsgs
  <2>4. Pending(scPipe', StartMsg(1)) = Pending(scPipe, StartMsg(1))
    BY <1>1, <2>1, <2>3, ScSent, ScMessages
  <2>5. Load(a)' = Load(a)
    BY <1>2, <2>1 DEF Load
  <2>6. rts[1].executing /\ rts[1].next = 4 => 3 * Load(a) <= StartupWait - rts[1].due
    BY <1>6, <1>7, <2>2
  <2> QED BY <1>2, <1>4, <1>5, <2>1, <2>4, <2>5, <2>6
<1> QED BY <1>1, <1>8, <1>9

LEMMA MarginInvStep ==
  TypeInv /\ TypeInv' /\ LoopInv /\ ClockInv /\ MarginInv /\ [Next]_vars => MarginInv'
<1> SUFFICES ASSUME TypeInv, TypeInv', LoopInv, ClockInv, MarginInv, [Next]_vars
             PROVE  MarginInv'
  OBVIOUS
<1>1. PipesOK /\ \A a \in AP : Load(a) \in Nat
  BY LoadNat DEF TypeInv
<1>2. CASE SchWakeup \/ Telemetry \/ Ground \/ Lc \/ UNCHANGED vars
  <2>1. Pending(scPipe', StartMsg(1)) = Pending(scPipe, StartMsg(1))
        /\ Pending(scPipe', StartMsg(3)) = Pending(scPipe, StartMsg(3))
    BY <1>2, ByOthers, ScMessages
  <2> QED BY <1>2, <2>1, ByOthers, MarginSame
<1>3. ASSUME NEW m \in ScMsgs \ {StartMsg(1), StartMsg(3)}, ScTakes(m)
      PROVE  /\ lost' = lost /\ \A a \in AP : Load(a)' <= Load(a) /\ Load(a)' = Load(a)
             /\ Pending(scPipe', StartMsg(1)) = Pending(scPipe, StartMsg(1))
             /\ Pending(scPipe', StartMsg(3)) = Pending(scPipe, StartMsg(3))
  <2>1. UNCHANGED <<ap, lcPipe, lost>>
    BY <1>1, <1>3, ScTaking
  <2>2. \A a \in AP : Load(a)' = Load(a)
    BY <2>1 DEF Load
  <2>3. \A a \in AP : Load(a)' <= Load(a)
    BY <1>1, <2>2
  <2> QED BY <1>1, <1>3, <2>1, <2>2, <2>3, ScTaken
<1>4. ASSUME NEW r \in RTSs, ScEnable(r) PROVE MarginInv'
  <2>1. /\ ScTakes(Enable(r)) /\ r \in {3, 4}
        /\ \A q \in RTSs : /\ rts'[q].executing = rts[q].executing
                           /\ rts'[q].next = rts[q].next /\ rts'[q].due = rts[q].due
    BY <1>4, Enables DEF ScEnable
  <2>2. Enable(r) \in ScMsgs \ {StartMsg(1), StartMsg(3)}
    BY <2>1, ScMessages DEF ScMsgs
  <2>3. 1 \in RTSs /\ 3 \in RTSs
    BY DEF RTSs
  <2> QED BY <1>3, <2>1, <2>2, <2>3, MarginSame
<1>5. CASE ScNoop
  <2>1. ScTakes(Noop) /\ rts' = rts
    BY <1>5 DEF ScNoop, scVars
  <2>2. Noop \in ScMsgs \ {StartMsg(1), StartMsg(3)}
    BY ScMessages DEF ScMsgs
  <2> QED BY <1>3, <2>1, <2>2, MarginSame
<1>6. CASE ScWakeup
  <2>1. /\ ScTakes(WakeupMsg)
        /\ \A q \in RTSs : /\ rts'[q].executing = rts[q].executing
                           /\ rts'[q].next = rts[q].next
                           /\ rts[q].executing => rts'[q].due = rts[q].due - 1
    BY <1>6, Wakes DEF ScWakeup
  <2>2. WakeupMsg \in ScMsgs \ {StartMsg(1), StartMsg(3)}
    BY ScMessages DEF ScMsgs
  <2>3. /\ lost' = lost /\ \A a \in AP : Load(a)' = Load(a)
        /\ Pending(scPipe', StartMsg(1)) = Pending(scPipe, StartMsg(1))
        /\ Pending(scPipe', StartMsg(3)) = Pending(scPipe, StartMsg(3))
    BY <1>3, <2>1, <2>2
  <2> SUFFICES ASSUME lost = {}, NEW a \in AP
               PROVE  /\ Booting' \/ Pending(scPipe, StartMsg(1)) > 0 => Load(a) = 0
                      /\ rts'[1].executing /\ rts'[1].next = 4 =>
                           /\ rts'[3].executing => 3 * Load(a) <= StartupWait - rts'[1].due + rts'[3].due
                           /\ Pending(scPipe, StartMsg(3)) > 0 => 3 * Load(a) <= StartupWait - rts'[1].due
    BY <2>3 DEF MarginInv
  <2>4. /\ Booting \/ Pending(scPipe, StartMsg(1)) > 0 => Load(a) = 0
        /\ rts[1].executing /\ rts[1].next = 4 =>
             /\ rts[3].executing => 3 * Load(a) <= StartupWait - rts[1].due + rts[3].due
             /\ Pending(scPipe, StartMsg(3)) > 0 => 3 * Load(a) <= StartupWait - rts[1].due
    BY DEF MarginInv
  <2>5. StartupWait \in Int /\ rts[1].due \in Int /\ rts[3].due \in Int /\ Load(a) \in Nat
    BY <1>1, FdirLoopAssumption DEF TypeInv, ScOK, Records, RTSs
  <2>6. /\ rts'[1].executing = rts[1].executing /\ rts'[1].next = rts[1].next
        /\ rts'[3].executing = rts[3].executing
        /\ rts[1].executing => rts'[1].due = rts[1].due - 1
        /\ rts[3].executing => rts'[3].due = rts[3].due - 1
    BY <2>1 DEF RTSs
  <2>7. Booting' = Booting
    BY <2>6 DEF Booting
  <2> HIDE DEF Booting
  <2> QED BY <2>4, <2>5, <2>6, <2>7
<1>7. CASE ScEndWakeup
  <2>1. UNCHANGED <<ap, lcPipe, rts, scPipe, lost>>
    BY <1>7 DEF ScEndWakeup, lcVars
  <2>2. \A a \in AP : Load(a)' <= Load(a)
    BY <1>1, <2>1 DEF Load
  <2> QED BY <2>1, <2>2, MarginSame
<1>8. CASE ScTurn(4)
  <2>1. /\ lost \subseteq lost' /\ scPipe' = scPipe /\ rts'[1] = rts[1] /\ rts'[3] = rts[3] /\ ap' = ap
        /\ \E x \in {Arm(0), Arm(1)} : lcPipe' = Sent(lcPipe, x)
    BY <1>8, TurnOfFour, TurnMoves DEF Leaves, RTSs
  <2>2. Arm(0) \in LcMsgs \ {Sample} /\ Arm(1) \in LcMsgs \ {Sample}
    BY LcMessages DEF LcMsgs
  <2>3. \A a \in AP : Load(a)' = Load(a)
    BY <2>1, <2>2, SameLoad
  <2>4. \A a \in AP : Load(a)' <= Load(a)
    BY <1>1, <2>3
  <2> QED BY <2>1, <2>4, MarginSame
<1>9. ASSUME NEW r \in RTSs, ScTurn(r) PROVE MarginInv'
  BY <1>8, <1>9, MarginTurnOfOne, MarginTurnOfThree DEF RTSs
<1> QED BY <1>2, <1>4, <1>5, <1>6, <1>7, <1>9, MarginStarts DEF Next, Sc

-----------------------------------------------------------------------------
(* RTS 4 is enabled before it is asked for.                                *)

StartupInv ==
  lost = {} /\ rts[4].disabled =>
    \/ /\ Pending(scPipe, StartMsg(1)) > 0 \/ rts[1].executing
       /\ Pending(scPipe, Request) = 0 /\ lcOut = <<>>
    \/ Leads(scPipe, Enable(4), Request)

\* The wait of RTS 1 before it enables RTS 4 ends before the sample that
\* fills a count is taken.
EnabledInTime == StartupWait <= 3 * (MaxFails - 1)

LEMMA NothingFires ==
  ASSUME TypeInv, LoopInv, ClockInv, MarginInv, EnabledInTime, lost = {},
         Pending(scPipe, StartMsg(1)) > 0 \/ rts[1].executing,
         NEW v \in [AP -> Verdicts], LcSample(v)
  PROVE  lcOut' = <<>>
<1>1. PipesOK /\ LcTakes(Sample)
  BY DEF TypeInv, LcSample
<1>2. Pending(lcPipe, Sample) > 0 /\ Pending(lcPipe, Sample) \in Nat
  <2>1. Pending(lcPipe', Sample) = Pending(lcPipe, Sample) - 1 /\ Pending(lcPipe', Sample) \in Nat
    BY <1>1, LcTaken
  <2>2. Pending(lcPipe, Sample) \in Nat
    BY <1>1, PendingNat
  <2> QED BY <2>1, <2>2
<1>3. ASSUME NEW a \in AP, Fires(a, v[a]) PROVE FALSE
  <2>1. FailsAfter(a, v[a]) = MaxFails /\ v[a] = "FAIL"
    BY <1>3 DEF Fires
  <2>2. MaxFails \in Nat \ {0} /\ StartupWait \in Nat
    BY FdirLoopAssumption
  <2>3. ap[a].fails \in Nat /\ Load(a) \in Nat
    BY LoadNat
  <2>4. ap[a].fails >= MaxFails - 1
    BY <2>1, <2>2, <2>3 DEF FailsAfter
  <2>5. Load(a) >= MaxFails
    BY <1>2, <2>2, <2>3, <2>4 DEF Load
  <2>6. ~Booting /\ ~(Pending(scPipe, StartMsg(1)) > 0)
    BY <2>2, <2>3, <2>5 DEF MarginInv
  <2>7. rts[1].executing /\ rts[1].next = 4
    <3>1. rts[1].next \in 1 .. 4
      BY DEF TypeInv, ScOK, Records, RTSs
    <3> QED BY <2>6, <3>1 DEF Booting
  <2>8. rts[1].due \in Int /\ rts[3].due \in Int /\ rts[1].due >= 0
    <3>1. DueOK(1) /\ rts[1].due \in Int /\ rts[3].due \in Int
      BY <2>7 DEF ClockInv, TypeInv, ScOK, Records, RTSs
    <3> QED BY <2>7, <3>1 DEF DueOK
  <2>9. CASE rts[3].executing
    <3>1. 3 * Load(a) <= StartupWait - rts[1].due + rts[3].due
      BY <2>7, <2>9 DEF MarginInv
    <3>2. rts[3].due <= 2
      <4>1. DueOK(3) /\ rts[3].next \in 1 .. 2
        BY <2>9 DEF ClockInv, TypeInv, ScOK, Records, RTSs
      <4> QED BY <4>1, <2>8, Waits DEF DueOK
    <3> QED BY <2>2, <2>3, <2>5, <2>8, <3>1, <3>2 DEF EnabledInTime
  <2>10. CASE Pending(scPipe, StartMsg(3)) > 0
    <3>1. 3 * Load(a) <= StartupWait - rts[1].due
      BY <2>7, <2>10 DEF MarginInv
    <3> QED BY <2>2, <2>3, <2>5, <2>8, <3>1 DEF EnabledInTime
  <2> QED BY <2>6, <2>9, <2>10, OnePlace
<1>4. {a \in AP : Fires(a, v[a])} = {}
  BY <1>3
<1>5. Requests({}) = <<>>
  <2>1. <<>> \o <<>> = <<>>
    BY ConcatEmptySeq
  <2> QED BY <2>1 DEF Requests
<1> QED BY <1>4, <1>5 DEF LcSample

LEMMA InitStartupInv == Init => StartupInv
<1> SUFFICES ASSUME Init PROVE StartupInv
  OBVIOUS
<1>1. <<>> \in Seq(ScMsgs) /\ StartMsg(1) \in ScMsgs
  BY DEF ScMsgs
<1>2. \A p \in Seq(ScMsgs), x \in ScMsgs : \A m : Pending(Append(p, x), m) = Pending(p, m) + One(x = m)
  BY AppendPending, SMTT(60)
<1>3. \A m : Pending(Append(<<>>, StartMsg(1)), m) = Pending(<<>>, m) + One(StartMsg(1) = m)
  BY <1>1, <1>2, ZenonT(60)
<1>4. scPipe = Append(<<>>, StartMsg(1)) /\ lcOut = <<>>
  BY DEF Init
<1>5. \A m : Pending(scPipe, m) = 0 + One(StartMsg(1) = m)
  BY <1>3, <1>4, EmptyPending, Zenon
<1>6. Pending(scPipe, StartMsg(1)) = 1 /\ Pending(scPipe, Request) = 0
  BY <1>5, ScMessages DEF One
<1> QED BY <1>4, <1>6 DEF StartupInv

LEMMA StartupInvStep ==
  ASSUME EnabledInTime, TypeInv, LoopInv, ClockInv, MarginInv, StartupInv, [Next]_vars
  PROVE  StartupInv'
<1> DEFINE Quiet == /\ Pending(scPipe, StartMsg(1)) > 0 \/ rts[1].executing
                    /\ Pending(scPipe, Request) = 0 /\ lcOut = <<>>
           Ahead == Leads(scPipe, Enable(4), Request)
<1> SUFFICES ASSUME lost' = {}, rts'[4].disabled PROVE Quiet' \/ Ahead'
  BY DEF StartupInv
<1>1. PipesOK /\ \A m : Pending(scPipe, m) \in Nat
  BY PendingNat DEF TypeInv
<1>2. lost = {} /\ rts[4].disabled => Quiet \/ Ahead
  BY DEF StartupInv
<1>3. ASSUME lost = {}, NEW v \in [AP -> Verdicts], LcSample(v), Quiet PROVE lcOut' = <<>>
  BY <1>3, NothingFires
<1>4. \A r : Enable(4) # StartMsg(r) /\ Enable(4) # Request /\ Request # WakeupMsg
      /\ StartMsg(1) # Request /\ StartMsg(1) # WakeupMsg
  BY ScMessages
<1>5. CASE SchWakeup \/ Telemetry \/ Ground \/ UNCHANGED vars
  <2>1. /\ UNCHANGED <<rts, lost, lcOut>>
        /\ \/ scPipe' = Sent(scPipe, WakeupMsg) \/ scPipe' = scPipe
    BY <1>5, OutsideTypes DEF vars, lcVars, scVars
  <2>2. WakeupMsg \in ScMsgs
    BY DEF ScMsgs
  <2>3. /\ Pending(scPipe', StartMsg(1)) = Pending(scPipe, StartMsg(1))
        /\ Pending(scPipe', Request) = Pending(scPipe, Request)
        /\ Ahead => Ahead'
    BY <1>1, <1>4, <2>1, <2>2, ScSent
  <2> QED BY <1>2, <2>1, <2>3
<1>6. ASSUME NEW m, LcTakes(m) PROVE UNCHANGED <<rts, scPipe, lost>>
  BY <1>1, <1>6, LcTaking
<1>7. CASE \E v \in [AP -> Verdicts] : LcSample(v)
  <2>1. PICK v \in [AP -> Verdicts] : LcSample(v)
    BY <1>7
  <2>2. UNCHANGED <<rts, scPipe, lost>>
    BY <1>6, <2>1 DEF LcSample
  <2> QED BY <1>2, <1>3, <2>1, <2>2
<1>8. CASE LcSampleIgnored \/ LcTelemetry \/ LcSetAPState \/ LcSetState
  <2>1. UNCHANGED <<rts, scPipe, lost, lcOut>>
    BY <1>6, <1>8 DEF LcSampleIgnored, LcTelemetry, LcSetAPState, LcSetState, lcVars
  <2> QED BY <1>2, <2>1
<1>9. CASE LcExecuteRTS
  <2>1. /\ lcOut # <<>> /\ scPipe' = Sent(scPipe, Request) /\ rts' = rts /\ lost \subseteq lost'
    BY <1>9 DEF LcExecuteRTS, scVars
  <2>2. Ahead
    BY <1>2, <2>1
  <2>3. Request \in ScMsgs
    BY DEF ScMsgs
  <2> QED BY <1>1, <1>4, <2>1, <2>2, <2>3, ScSent
<1>10. ASSUME NEW r \in RTSs, ScStart(r) PROVE Quiet' \/ Ahead'
  <2>1. ScTakes(StartMsg(r)) /\ UNCHANGED <<lcOut, lost>> /\ Leaves(r)
        /\ IF rts[r].disabled \/ rts[r].executing THEN rts' = rts ELSE Goes(r, 1, 0)
    BY <1>1, <1>10, Starts, ScTaking DEF ScStart
  <2>2. rts[4].disabled
    <3>1. r = 4 => rts'[r].disabled = rts[r].disabled
      BY <2>1 DEF Leaves
    <3>2. r # 4 => rts'[4] = rts[4]
      BY <2>1 DEF Leaves, RTSs
    <3> QED BY <3>1, <3>2
  <2>3. CASE Ahead
    BY <1>1, <1>4, <2>1, <2>3, ScTaking
  <2>4. CASE Quiet
    <3>1. Pending(scPipe', StartMsg(r)) = Pending(scPipe, StartMsg(r)) - 1
          /\ Pending(scPipe', StartMsg(r)) \in Nat
          /\ \A n : n # StartMsg(r) => Pending(scPipe', n) = Pending(scPipe, n)
      BY <1>1, <2>1, ScTaken
    <3>2. Pending(scPipe', Request) = 0
      BY <1>1, <2>4, <3>1
    <3>3. CASE r = 1
      <4>1. Pending(scPipe, StartMsg(1)) > 0
        BY <1>1, <3>1, <3>3
      <4>2. ~rts[1].executing /\ ~rts[1].disabled
        BY <2>1, <4>1, OnePlace DEF LoopInv
      <4>3. rts'[1].executing
        BY <2>1, <3>3, <4>2 DEF Goes
      <4> QED BY <2>1, <2>4, <3>2, <4>3
    <3>4. CASE r # 1
      <4>1. rts'[1] = rts[1]
        BY <2>1, <3>4 DEF Leaves, RTSs
      <4>2. StartMsg(r) # StartMsg(1)
        BY <3>4, ScMessages DEF RTSs
      <4> QED BY <2>1, <2>4, <3>1, <3>2, <4>1, <4>2
    <3> QED BY <3>3, <3>4
  <2> QED BY <1>2, <2>1, <2>2, <2>3, <2>4
<1>11. ASSUME NEW m \in {WakeupMsg, Noop, Enable(3)}, ScTakes(m), rts'[4].disabled = rts[4].disabled,
              rts'[1].executing = rts[1].executing
       PROVE  Quiet' \/ Ahead'
  <2>1. /\ Pending(scPipe', StartMsg(1)) = Pending(scPipe, StartMsg(1))
        /\ Pending(scPipe', Request) = Pending(scPipe, Request)
        /\ Ahead => Ahead'
        /\ UNCHANGED <<lcOut, lost>>
    BY <1>1, <1>11, ScTaken, ScTaking, ScMessages
  <2> QED BY <1>2, <1>11, <2>1
<1>12. ASSUME NEW r \in RTSs, ScEnable(r) PROVE Quiet' \/ Ahead'
  <2>1. /\ ScTakes(Enable(r)) /\ r \in {3, 4} /\ ~rts'[r].disabled
        /\ \A q \in RTSs : /\ q # r => rts'[q].disabled = rts[q].disabled
                           /\ rts'[q].executing = rts[q].executing
    BY <1>12, Enables DEF ScEnable
  <2>2. r = 3
    BY <2>1
  <2>3. rts'[4].disabled = rts[4].disabled /\ rts'[1].executing = rts[1].executing
    BY <2>1, <2>2 DEF RTSs
  <2> QED BY <1>11, <2>1, <2>2, <2>3
<1>13. CASE ScNoop
  BY <1>11, <1>13 DEF ScNoop, scVars
<1>14. CASE ScWakeup
  <2>1. rts'[4].disabled = rts[4].disabled /\ rts'[1].executing = rts[1].executing
    BY <1>14, Wakes DEF RTSs
  <2> QED BY <1>11, <1>14, <2>1 DEF ScWakeup
<1>15. CASE ScEndWakeup
  BY <1>2, <1>15 DEF ScEndWakeup, lcVars
<1>16. CASE ScTurn(1)
  <2>1. rts'[4] = rts[4] /\ lost \subseteq lost' /\ lcOut' = lcOut /\ rts[1].executing
    BY <1>16, TurnOfOne, TurnMoves DEF Leaves, RTSs
  <2>2. Noop \in ScMsgs /\ Enable(3) \in ScMsgs /\ StartMsg(3) \in ScMsgs /\ Enable(4) \in ScMsgs
    BY DEF ScMsgs
  <2>3. PICK x \in {Noop, Enable(3), StartMsg(3), Enable(4)} : scPipe' = Sent(scPipe, x)
    BY <1>16, TurnOfOne
  <2>4. x # Request
    BY ScMessages
  <2>5. (Ahead => Ahead') /\ Pending(scPipe', Request) = Pending(scPipe, Request)
    BY <1>1, <1>4, <2>2, <2>3, <2>4, ScSent
  <2>6. CASE rts[1].next # 4
    <3>1. rts'[1].executing
      BY <1>16, <2>6, TurnOfOne DEF Goes
    <3> QED BY <1>2, <2>1, <2>5, <3>1
  <2>7. CASE rts[1].next = 4 /\ Quiet
    <3>1. scPipe' = Sent(scPipe, Enable(4)) /\ Room(scPipe, Enable(4))
      BY <1>16, <2>7, TurnOfOne DEF Lost
    <3>2. Pending(scPipe', Enable(4)) > 0
      BY <1>1, <2>2, <3>1, ScSent
    <3>3. Pending(scPipe', Request) = 0
      BY <2>5, <2>7
    <3>4. PipesOK'
      BY TypeInvStep DEF TypeInv
    <3> QED BY <3>2, <3>3, <3>4, LeadsIsPending DEF PipesOK
  <2> QED BY <1>2, <2>1, <2>5, <2>6, <2>7
<1>17. CASE ScTurn(3)
  <2>1. rts'[4] = rts[4] /\ rts'[1] = rts[1] /\ lost \subseteq lost' /\ lcOut' = lcOut
        /\ (scPipe' = scPipe \/ scPipe' = Sent(scPipe, StartMsg(3)))
    BY <1>17, TurnOfThree, TurnMoves DEF Leaves, RTSs
  <2>2. StartMsg(3) \in ScMsgs
    BY DEF ScMsgs
  <2>3. /\ Pending(scPipe', StartMsg(1)) = Pending(scPipe, StartMsg(1))
        /\ Pending(scPipe', Request) = Pending(scPipe, Request)
        /\ Ahead => Ahead'
    BY <1>1, <1>4, <2>1, <2>2, ScSent, ScMessages
  <2> QED BY <1>2, <2>1, <2>3
<1>18. CASE ScTurn(4)
  <2>1. /\ rts'[1] = rts[1] /\ lost \subseteq lost' /\ lcOut' = lcOut /\ scPipe' = scPipe
        /\ rts'[4].disabled = rts[4].disabled
    <3>1. Leaves(4) /\ lost \subseteq lost' /\ scPipe' = scPipe
      BY <1>18, TurnOfFour
    <3>2. lcOut' = lcOut
      BY <1>18 DEF ScTurn, lcVars
    <3>3. rts'[1] = rts[1]
      BY <3>1 DEF Leaves, RTSs
    <3>4. rts'[4].disabled = rts[4].disabled
      BY <3>1 DEF Leaves
    <3> QED BY <3>1, <3>2, <3>3, <3>4
  <2> QED BY <1>2, <2>1
<1> QED BY <1>5, <1>7, <1>8, <1>9, <1>10, <1>12, <1>13, <1>14, <1>15, <1>16, <1>17, <1>18
     DEF Next, Lc, Sc, RTSs

-----------------------------------------------------------------------------
(* A request is answered.                                                  *)

\* a has fired and asked for RTS 4.
Needs(a) == ap[a].state = "PASSIVE" /\ a \notin silenced

\* Between the two commands of RTS 4, actionpoint 0 is about to be armed, or
\* it was and has not been sampled since: a request of actionpoint 0 cannot
\* come in between, where it would be rejected and forgotten.
GapInv ==
  lost = {} /\ rts[4].executing /\ rts[4].next = 2 /\ ~(inWakeup /\ rts[4].due <= 0) =>
    \/ Trails(lcPipe, Arm(0), Sample)
    \/ Pending(lcPipe, Sample) = 0 /\ ~Needs(0)

AnswerInv == lost = {} => \A a \in AP : Needs(a) => AnswerComing(a)

\* LC is about to ask for RTS 4 because of a.
Asks(a) == \E i \in DOMAIN lcOut : lcOut[i] = a

\* What LC does to the need of an answer.
LEMMA LcNeeds ==
  ASSUME TypeInv, Lc, NEW a \in AP
  PROVE  /\ Needs(a)' => Needs(a) \/ (ap[a].state = "ACTIVE" /\ Asks(a)')
         /\ Needs(a) => Needs(a)' \/ ap'[a].state # "PASSIVE"
         /\ LcTakes(Arm(a)) => ~Needs(a)'
<1>1. PipesOK /\ lcState \in LCStates /\ ap \in [AP -> [state : APStates, fails : 0 .. MaxFails]]
  BY DEF TypeInv, LcOK
<1>2. CASE \E v \in [AP -> Verdicts] : LcSample(v)
  <2>1. PICK v \in [AP -> Verdicts] : LcSample(v)
    BY <1>2
  <2> DEFINE fired == {b \in AP : Fires(b, v[b])}
  <2>2. /\ lcState = "ACTIVE" \/ lcState = "PASSIVE"
        /\ LcTakes(Sample) /\ lcOut' = Requests(fired)
        /\ silenced' = IF lcState = "ACTIVE" THEN silenced ELSE silenced \cup fired
    BY <1>1, <2>1 DEF LcSample, LCStates
  <2>3. ap'[a].state = IF a \in fired THEN "PASSIVE" ELSE ap[a].state
    <3>1. ap'[a] = IF ~Sampled(a) THEN ap[a]
                   ELSE [state |-> IF a \in fired THEN "PASSIVE" ELSE ap[a].state,
                         fails |-> FailsAfter(a, v[a])]
      BY <2>1 DEF LcSample
    <3>2. a \in fired => Sampled(a)
      BY DEF Fires, Sampled
    <3> QED BY <3>1, <3>2
  <2>4. a \in fired => ap[a].state = "ACTIVE"
    BY DEF Fires
  <2>5. ~LcTakes(Arm(a))
    BY <2>2, LcMessages DEF LcTakes
  <2>6. lcState = "ACTIVE" /\ a \in fired => Asks(a)'
    <3> SUFFICES ASSUME lcState = "ACTIVE", a \in fired PROVE \E i \in DOMAIN lcOut' : lcOut'[i] = a
      BY DEF Asks
    <3> DEFINE s == IF 0 \in fired THEN <<0>> ELSE <<>>
               t == IF 1 \in fired THEN <<1>> ELSE <<>>
    <3>1. lcOut' = s \o t
      BY <2>2 DEF Requests
    <3>2. s \in Seq(AP) /\ t \in Seq(AP) /\ Len(s) \in Nat /\ Len(t) \in Nat
      BY DEF AP
    <3>3. (a = 0 => Len(s) = 1 /\ s[1] = 0) /\ (a = 1 => Len(t) = 1 /\ t[1] = 1)
      OBVIOUS
    <3>4. /\ s \o t \in Seq(AP) /\ Len(s \o t) = Len(s) + Len(t)
          /\ \A i \in 1 .. Len(s) + Len(t) : (s \o t)[i] = IF i <= Len(s) THEN s[i] ELSE t[i - Len(s)]
      <4> HIDE DEF s, t
      <4> QED BY <3>2, ConcatProperties
    <3>5. DOMAIN (s \o t) = 1 .. Len(s) + Len(t)
      <4> HIDE DEF s, t
      <4> QED BY <3>4, LenProperties
    <3> HIDE DEF s, t, fired
    <3>6. CASE a = 0
      <4>1. 1 \in 1 .. Len(s) + Len(t) /\ (s \o t)[1] = s[1]
        BY <3>2, <3>3, <3>4, <3>6
      <4> QED BY <3>1, <3>3, <3>5, <3>6, <4>1
    <3>7. CASE a = 1
      <4>1. Len(s) + 1 \in 1 .. Len(s) + Len(t) /\ (s \o t)[Len(s) + 1] = t[1]
        <5>1. Len(s) + 1 \in 1 .. Len(s) + Len(t) /\ ~(Len(s) + 1 <= Len(s))
              /\ Len(s) + 1 - Len(s) = 1
          <6>1. \A n \in Nat : n + 1 \in 1 .. n + 1 /\ ~(n + 1 <= n) /\ n + 1 - n = 1
            OBVIOUS
          <6>2. Len(s) \in Nat /\ Len(t) = 1
            BY <3>2, <3>3, <3>7
          <6> QED BY <6>1, <6>2, Zenon
        <5>2. (s \o t)[Len(s) + 1] = t[Len(s) + 1 - Len(s)]
          BY <3>4, <5>1
        <5> QED BY <5>1, <5>2
      <4> QED BY <3>1, <3>3, <3>5, <3>7, <4>1
    <3> QED BY <3>6, <3>7 DEF AP
  <2>7. Needs(a) => a \notin fired
    BY <2>4 DEF Needs
  <2> HIDE DEF fired
  <2>8. Needs(a) => Needs(a)'
    BY <2>2, <2>3, <2>7 DEF Needs
  <2>9. Needs(a)' => Needs(a) \/ (a \in fired /\ lcState = "ACTIVE")
    BY <2>2, <2>3 DEF Needs
  <2> QED BY <2>1, <2>4, <2>5, <2>6, <2>8, <2>9
<1>3. CASE LcSampleIgnored \/ LcTelemetry \/ LcSetState
  <2>1. PICK m \in {Sample, Tlm} \cup {SetLC(t) : t \in LCStates} :
          LcTakes(m) /\ UNCHANGED <<ap, silenced>>
    BY <1>3 DEF LcSampleIgnored, LcTelemetry, LcSetState, lcVars
  <2>2. m # Arm(a)
    BY LcMessages
  <2>3. ~LcTakes(Arm(a))
    BY <2>1, <2>2 DEF LcTakes
  <2> QED BY <2>1, <2>3 DEF Needs
<1>4. CASE LcSetAPState
  <2>1. PICK b \in AP, s \in APStates, by \in {"RTS", "GROUND"} :
          /\ LcTakes(SetAP(b, s, by)) /\ ap' = [ap EXCEPT ![b].state = s]
          /\ silenced' = IF s # "PASSIVE" THEN silenced \ {b}
                         ELSE IF ap[b].state # "PASSIVE" THEN silenced \cup {b} ELSE silenced
    BY <1>4 DEF LcSetAPState
  <2>2. ap'[a].state = IF a = b THEN s ELSE ap[a].state
    BY <1>1, <2>1
  <2>3. Needs(a)' => Needs(a)
    <3>1. CASE a = b
      BY <2>1, <2>2, <3>1 DEF Needs
    <3>2. CASE a # b
      BY <2>1, <2>2, <3>2 DEF Needs
    <3> QED BY <3>1, <3>2
  <2>4. Needs(a) => Needs(a)' \/ ap'[a].state # "PASSIVE"
    <3>1. CASE a = b
      BY <2>1, <2>2, <3>1 DEF Needs
    <3>2. CASE a # b
      BY <2>1, <2>2, <3>2 DEF Needs
    <3> QED BY <3>1, <3>2
  <2>5. LcTakes(Arm(a)) => ~Needs(a)'
    <3>1. LcTakes(Arm(a)) => SetAP(b, s, by) = Arm(a)
      BY <2>1 DEF LcTakes
    <3>2. LcTakes(Arm(a)) => a = b /\ s = "ACTIVE"
      BY <3>1, LcMessages
    <3> QED BY <2>2, <3>2 DEF Needs
  <2> QED BY <2>3, <2>4, <2>5
<1>5. CASE LcExecuteRTS
  <2>1. UNCHANGED <<ap, silenced>> /\ ~LcTakes(Arm(a))
    BY <1>5 DEF LcExecuteRTS, LcTakes
  <2> QED BY <2>1 DEF Needs
<1> QED BY <1>2, <1>3, <1>4, <1>5 DEF Lc

LEMMA GapSame ==
  ASSUME GapInv, lost \subseteq lost',
         rts'[4].executing = rts[4].executing, rts'[4].next = rts[4].next,
         rts'[4].due = rts[4].due, inWakeup' = inWakeup,
         Trails(lcPipe, Arm(0), Sample) =>
           Trails(lcPipe', Arm(0), Sample) \/ (Pending(lcPipe', Sample) = 0 /\ ~Needs(0)'),
         Pending(lcPipe, Sample) = 0 /\ ~Needs(0) => Pending(lcPipe', Sample) = 0 /\ ~Needs(0)'
  PROVE  GapInv'
<1>1. lost' = {} => lost = {}
  OBVIOUS
<1> QED BY <1>1, Zenon DEF GapInv

LEMMA InitGapInv == Init => GapInv
<1> SUFFICES ASSUME Init PROVE ~rts[4].executing
  BY DEF GapInv
<1>1. rts[4] = [Idle EXCEPT !.disabled = 4 # 1]
  BY DEF Init, RTSs
<1>2. rts[4].executing = FALSE
  BY <1>1 DEF Idle
<1> QED BY <1>2

LEMMA GapInvStep ==
  ASSUME TypeInv, TypeInv', ClockInv, GapInv, [Next]_vars
  PROVE  GapInv'
<1>1. PipesOK /\ 0 \in AP /\ 4 \in RTSs /\ 3 \in RTSs
  BY DEF TypeInv, AP, RTSs
<1>2. Sample # Arm(0) /\ Tlm # Arm(0) /\ Tlm # Sample /\ Arm(0) # Arm(1) /\ Arm(1) # Sample
  BY LcMessages
<1>3. Sample \in LcMsgs /\ Tlm \in LcMsgs /\ Arm(0) \in LcMsgs /\ Arm(1) \in LcMsgs /\ FromGround \subseteq LcMsgs
      /\ \A m \in FromGround : m # Sample
  BY LcMessages DEF LcMsgs, FromGround
<1>4. ASSUME UNCHANGED <<ap, silenced>>,
             lcPipe' = lcPipe \/ \E m \in LcMsgs \ {Sample} : lcPipe' = Sent(lcPipe, m)
      PROVE  /\ Trails(lcPipe, Arm(0), Sample) => Trails(lcPipe', Arm(0), Sample)
             /\ Pending(lcPipe, Sample) = 0 /\ ~Needs(0) => Pending(lcPipe', Sample) = 0 /\ ~Needs(0)'
  <2>1. Needs(0)' = Needs(0)
    BY <1>4 DEF Needs
  <2>2. CASE lcPipe' = lcPipe
    BY <2>1, <2>2
  <2>3. CASE \E m \in LcMsgs \ {Sample} : lcPipe' = Sent(lcPipe, m)
    BY <1>1, <1>2, <2>1, <2>3, LcSent
  <2> QED BY <1>4, <2>2, <2>3
<1>5. CASE SchWakeup \/ Telemetry \/ Ground \/ UNCHANGED vars
  <2>1. /\ UNCHANGED <<ap, silenced, rts, inWakeup, lost>>
        /\ \/ lcPipe' = lcPipe
           \/ \E m \in {Tlm} \cup FromGround : lcPipe' = Sent(lcPipe, m)
    BY <1>5, OutsideTypes DEF vars, lcVars, scVars
  <2>2. lcPipe' = lcPipe \/ \E m \in LcMsgs \ {Sample} : lcPipe' = Sent(lcPipe, m)
    BY <1>2, <1>3, <2>1
  <2> QED BY <1>4, <2>1, <2>2, GapSame
<1>6. CASE Lc
  <2>1. UNCHANGED <<rts, inWakeup>> /\ lost \subseteq lost'
    BY <1>6, ByOthers
  <2>2. CASE LcExecuteRTS
    <3>1. UNCHANGED <<ap, silenced, lcPipe>>
      BY <2>2 DEF LcExecuteRTS
    <3> QED BY <1>4, <2>1, <3>1, GapSame
  <2>3. CASE ~LcExecuteRTS
    <3>1. PICK m : LcTakes(m)
      BY <1>6, <2>3
         DEF Lc, LcSample, LcSampleIgnored, LcTelemetry, LcSetAPState, LcSetState
    <3>2. /\ \A n : n # m => Pending(lcPipe', n) = Pending(lcPipe, n)
          /\ Pending(lcPipe', m) = Pending(lcPipe, m) - 1 /\ Pending(lcPipe', m) \in Nat
          /\ Trails(lcPipe, Arm(0), Sample) =>
               Trails(lcPipe', Arm(0), Sample) \/ (m = Arm(0) /\ Pending(lcPipe', Sample) = 0)
      BY <1>1, <3>1, LcTaken, LcTaking
    <3>3. m = Arm(0) => ~Needs(0)'
      BY <1>1, <1>6, <3>1, LcNeeds
    <3>4. Pending(lcPipe, Sample) = 0 => m # Sample /\ Pending(lcPipe', Sample) = 0
      BY <3>2
    <3>5. m # Sample /\ ~Needs(0) => ~Needs(0)'
      <4>1. Needs(0)' /\ ~Needs(0) => ap[0].state = "ACTIVE" /\ Asks(0)'
        BY <1>1, <1>6, LcNeeds
      <4>2. ASSUME m # Sample PROVE lcOut' = <<>>
        <5>1. lcOut = <<>>
          BY <3>1 DEF LcTakes
        <5>2. ~ \E v \in [AP -> Verdicts] : LcSample(v)
          BY <3>1, <4>2 DEF LcSample, LcTakes
        <5> QED BY <1>6, <2>3, <5>1, <5>2
             DEF Lc, LcSampleIgnored, LcTelemetry, LcSetAPState, LcSetState, lcVars
      <4>3. lcOut' = <<>> => ~Asks(0)'
        BY DEF Asks
      <4> QED BY <4>1, <4>2, <4>3
    <3> QED BY <2>1, <3>2, <3>3, <3>4, <3>5, GapSame
  <2> QED BY <2>2, <2>3
<1>7. ASSUME NEW m, ScTakes(m) PROVE UNCHANGED <<ap, silenced, lcPipe, lost>> /\ ~inWakeup
  BY <1>1, <1>7, ScTaking
<1>8. ASSUME NEW r \in RTSs, ScStart(r) PROVE GapInv'
  <2>1. UNCHANGED <<ap, silenced, lcPipe, lost, inWakeup>> /\ Leaves(r)
        /\ IF rts[r].disabled \/ rts[r].executing THEN rts' = rts ELSE Goes(r, 1, 0)
    BY <1>7, <1>8, Starts DEF ScStart
  <2>2. CASE rts'[4] = rts[4]
    BY <1>4, <2>1, <2>2, GapSame
  <2>3. CASE rts'[4] # rts[4]
    <3>1. r = 4 /\ Goes(4, 1, 0)
      BY <1>1, <2>1, <2>3 DEF Leaves
    <3> QED BY <3>1 DEF Goes, GapInv
  <2> QED BY <2>2, <2>3
<1>9. ASSUME NEW r \in RTSs, ScEnable(r) PROVE GapInv'
  <2>1. UNCHANGED <<ap, silenced, lcPipe, lost, inWakeup>>
        /\ rts'[4].executing = rts[4].executing /\ rts'[4].next = rts[4].next /\ rts'[4].due = rts[4].due
    BY <1>1, <1>7, <1>9, Enables DEF ScEnable
  <2> QED BY <1>4, <2>1, GapSame
<1>10. CASE ScNoop
  <2>1. UNCHANGED <<ap, silenced, lcPipe, lost, inWakeup, rts>>
    BY <1>7, <1>10 DEF ScNoop, scVars
  <2> QED BY <1>4, <2>1, GapSame
<1>11. CASE ScWakeup
  <2>1. UNCHANGED <<ap, silenced, lcPipe, lost>> /\ ~inWakeup
        /\ rts'[4].executing = rts[4].executing /\ rts'[4].next = rts[4].next
    BY <1>1, <1>7, <1>11, Wakes DEF ScWakeup
  <2>2. (Trails(lcPipe, Arm(0), Sample))' = Trails(lcPipe, Arm(0), Sample) /\ Needs(0)' = Needs(0)
        /\ Pending(lcPipe', Sample) = Pending(lcPipe, Sample)
    BY <2>1 DEF Needs
  <2> QED BY <2>1, <2>2 DEF GapInv
<1>12. CASE ScEndWakeup
  <2>1. UNCHANGED <<ap, silenced, lcPipe, lost, rts>> /\ inWakeup /\ ~inWakeup'
        /\ (rts[4].executing => ~(rts[4].due <= 0))
    <3>1. rts[4].executing => rts[4].due > 0 /\ rts[4].due \in Int
      BY <1>1, <1>12, NothingDue DEF TypeInv, ScOK, Records
    <3>2. rts[4].executing => ~(rts[4].due <= 0)
      BY <3>1
    <3> QED BY <1>12, <3>2 DEF ScEndWakeup, lcVars
  <2>2. (Trails(lcPipe, Arm(0), Sample))' = Trails(lcPipe, Arm(0), Sample) /\ Needs(0)' = Needs(0)
        /\ Pending(lcPipe', Sample) = Pending(lcPipe, Sample)
    BY <2>1 DEF Needs
  <2> QED BY <2>1, <2>2 DEF GapInv
<1>13. ASSUME NEW r \in RTSs, ScTurn(r)
       PROVE  UNCHANGED <<ap, silenced>> /\ inWakeup' = inWakeup /\ inWakeup
  BY <1>13 DEF ScTurn, lcVars
<1>14. CASE ScTurn(1)
  <2>1. rts'[4] = rts[4] /\ lcPipe' = lcPipe /\ lost \subseteq lost'
    BY <1>1, <1>14, TurnOfOne DEF Leaves
  <2>2. 1 \in RTSs
    BY DEF RTSs
  <2> QED BY <1>4, <1>13, <1>14, <2>1, <2>2, GapSame
<1>15. CASE ScTurn(3)
  <2>1. rts'[4] = rts[4] /\ lost \subseteq lost'
    BY <1>1, <1>15, TurnOfThree DEF Leaves
  <2>2. CASE lcPipe' = lcPipe
    BY <1>1, <1>4, <1>13, <1>15, <2>1, <2>2, GapSame
  <2>3. CASE lcPipe' # lcPipe
    <3>1. rts[3].next = 1 /\ rts[3].executing
      BY <1>1, <1>15, <2>3, TurnOfThree, TurnMoves
    <3>2. ~(rts[4].executing /\ rts[4].next = 2 /\ ~(rts[4].due <= 0))
      <4> SUFFICES ASSUME rts[4].executing, rts[4].next = 2, ~(rts[4].due <= 0) PROVE FALSE
        OBVIOUS
      <4>1. DueOK(4) /\ rts[4].due \in Int
        BY <1>1 DEF ClockInv, TypeInv, ScOK, Records
      <4>2. rts[4].due = 1
        BY <4>1, Waits DEF DueOK
      <4> QED BY <1>1, <1>13, <1>15, <3>1, <4>2 DEF ClockInv, Ordered
    <3> QED BY <1>1, <1>13, <1>15, <2>1, <3>2 DEF GapInv
  <2> QED BY <2>2, <2>3
<1>16. CASE ScTurn(4)
  <2>1. rts[4].next = 1 \/ ~rts'[4].executing
    BY <1>16, TurnOfFour
  <2>2. CASE rts[4].next = 1
    <3>1. lcPipe' = Sent(lcPipe, Arm(0)) /\ Lost(lcPipe, Arm(0), "ARM")
      BY <1>16, <2>2, TurnOfFour
    <3>2. lost' = {} => Room(lcPipe, Arm(0))
      BY <3>1 DEF Lost
    <3>3. lost' = {} => Trails(lcPipe', Arm(0), Sample)
      BY <1>1, <1>2, <1>3, <3>1, <3>2, LcSent
    <3> QED BY <3>3 DEF GapInv
  <2>3. CASE ~rts'[4].executing
    BY <2>3 DEF GapInv
  <2> QED BY <2>1, <2>2, <2>3
<1> QED BY <1>5, <1>6, <1>8, <1>9, <1>10, <1>11, <1>12, <1>14, <1>15, <1>16 DEF Next, Sc, RTSs

LEMMA InitAnswerInv == Init => AnswerInv
  BY DEF Init, AnswerInv, Needs

LEMMA StillComing ==
  ASSUME NEW a, AnswerComing(a),
         rts'[4].executing = rts[4].executing, rts'[4].next = rts[4].next,
         Pending(lcPipe, Arm(a)) > 0 => Pending(lcPipe', Arm(a)) > 0,
         Pending(scPipe, Request) > 0 => Pending(scPipe', Request) > 0,
         Asks(a) => Asks(a)'
  PROVE  AnswerComing(a)'
  BY Zenon DEF AnswerComing, Asks

LEMMA ArmIn ==
  ASSUME NEW a \in AP
  PROVE  (a = 0 \/ a = 1) /\ Arm(a) \in LcMsgs /\ ArmPos(a) \in {1, 2}
  BY DEF AP, LcMsgs, ArmPos

\* A request that SC takes starts RTS 4, or RTS 4 has still to arm whoever
\* needs it.
LEMMA RequestTaken ==
  ASSUME TypeInv, LoopInv, StartupInv, GapInv, ScStart(4), lost = {},
         NEW a \in AP, Needs(a)
  PROVE  AnswerComing(a)'
<1>1. PipesOK /\ ScTakes(Request) /\ 4 \in RTSs
  BY ScMessages DEF TypeInv, ScStart, RTSs
<1>2. UNCHANGED <<lcPipe, lost>> /\ ~inWakeup
      /\ IF rts[4].disabled \/ rts[4].executing THEN rts' = rts ELSE Goes(4, 1, 0)
  BY <1>1, Starts, ScTaking
<1>3. ~rts[4].disabled
  <2>1. Pending(scPipe, Request) > 0
    <3>1. Pending(scPipe', Request) = Pending(scPipe, Request) - 1 /\ Pending(scPipe', Request) \in Nat
      BY <1>1, ScTaken
    <3>2. Pending(scPipe, Request) \in Nat
      BY <1>1, PendingNat
    <3> QED BY <3>1, <3>2
  <2>2. ~Leads(scPipe, Enable(4), Request)
    BY <1>1, ScTaking, ScMessages
  <2> QED BY <2>1, <2>2 DEF StartupInv
<1>4. CASE ~rts[4].executing
  <2>1. rts'[4].executing /\ rts'[4].next = 1
    BY <1>2, <1>3, <1>4 DEF Goes
  <2>2. 1 <= ArmPos(a)
    BY ArmIn
  <2> QED BY <2>1, <2>2 DEF AnswerComing
<1>5. CASE rts[4].executing
  <2>1. rts' = rts /\ rts[4].next \in 1 .. 2
    BY <1>1, <1>2, <1>5 DEF TypeInv, ScOK, Records
  <2>2. CASE rts[4].next <= ArmPos(a)
    BY <1>5, <2>1, <2>2 DEF AnswerComing
  <2>3. CASE ~(rts[4].next <= ArmPos(a))
    <3>1. rts[4].next = 2 /\ a = 0
      BY <2>1, <2>3, ArmIn DEF ArmPos
    <3>2. Trails(lcPipe, Arm(0), Sample)
      BY <1>2, <1>5, <3>1 DEF GapInv
    <3>3. Pending(lcPipe', Arm(a)) > 0
      BY <1>1, <1>2, <3>1, <3>2, PendingNat
    <3> QED BY <3>3 DEF AnswerComing
  <2> QED BY <2>2, <2>3
<1> QED BY <1>4, <1>5

LEMMA AnswerInvStep ==
  ASSUME TypeInv, LoopInv, StartupInv, GapInv, AnswerInv, [Next]_vars
  PROVE  AnswerInv'
<1> SUFFICES ASSUME lost' = {}, NEW a \in AP, Needs(a)' PROVE AnswerComing(a)'
  BY DEF AnswerInv
<1>1. PipesOK /\ 4 \in RTSs /\ Arm(a) \in LcMsgs
  BY ArmIn DEF TypeInv, RTSs
<1>2. lost = {} /\ Needs(a) => AnswerComing(a)
  BY DEF AnswerInv
<1>3. CASE SchWakeup \/ Telemetry \/ Ground \/ UNCHANGED vars
  <2>1. /\ UNCHANGED <<ap, lcOut, silenced, rts, lost>>
        /\ \/ scPipe' = Sent(scPipe, WakeupMsg) /\ lcPipe' = lcPipe
           \/ scPipe' = scPipe /\ \E m \in {Tlm} \cup FromGround : lcPipe' = Sent(lcPipe, m)
           \/ scPipe' = scPipe /\ lcPipe' = lcPipe
    BY <1>3, OutsideTypes DEF vars, lcVars, scVars
  <2>2. {Tlm} \cup FromGround \subseteq LcMsgs /\ WakeupMsg \in ScMsgs
    BY DEF LcMsgs, ScMsgs
  <2>3. Pending(lcPipe, Arm(a)) > 0 => Pending(lcPipe', Arm(a)) > 0
    BY <1>1, <2>1, <2>2, LcSent
  <2>4. Pending(scPipe, Request) > 0 => Pending(scPipe', Request) > 0
    BY <1>1, <2>1, <2>2, ScSent
  <2>5. Needs(a) /\ (Asks(a) => Asks(a)')
    BY <2>1 DEF Needs, Asks
  <2> QED BY <1>2, <2>1, <2>3, <2>4, <2>5, StillComing
<1>4. CASE Lc /\ ~LcExecuteRTS
  <2>1. PICK m : LcTakes(m)
    BY <1>4 DEF Lc, LcSample, LcSampleIgnored, LcTelemetry, LcSetAPState, LcSetState
  <2>2. /\ UNCHANGED <<rts, scPipe, lost>> /\ lcOut = <<>>
        /\ \A n : n # m => Pending(lcPipe', n) = Pending(lcPipe, n)
    BY <1>1, <2>1, LcTaking, LcTaken
  <2>3. m # Arm(a)
    BY <1>4, <2>1, LcNeeds
  <2>4. CASE Asks(a)'
    BY <2>4 DEF AnswerComing, Asks
  <2>5. CASE Needs(a)
    <3>1. ~Asks(a)
      BY <2>2 DEF Asks
    <3> QED BY <1>2, <2>2, <2>3, <2>5, <3>1, StillComing
  <2> QED BY <1>4, <2>4, <2>5, LcNeeds
<1>5. CASE LcExecuteRTS
  <2>1. scPipe' = Sent(scPipe, Request) /\ lost' = lost \cup Loss(scPipe, Request, "REQUEST")
    BY <1>5 DEF LcExecuteRTS
  <2>2. Room(scPipe, Request)
    BY <2>1 DEF Loss, Losses
  <2>3. Request \in ScMsgs /\ Pending(scPipe, Request) \in Nat
    BY <1>1, PendingNat DEF ScMsgs
  <2>4. Pending(scPipe', Request) > 0
    BY <1>1, <2>1, <2>2, <2>3, ScSent
  <2> QED BY <2>4 DEF AnswerComing
<1>6. ASSUME NEW m, ScTakes(m)
      PROVE  /\ UNCHANGED <<lcPipe, lost>> /\ Needs(a) /\ (Asks(a) => Asks(a)')
             /\ m # Request => Pending(scPipe', Request) = Pending(scPipe, Request)
  <2>1. UNCHANGED <<ap, silenced, lcOut, lcPipe, lost>>
    BY <1>1, <1>6, ScTaking
  <2>2. m # Request => Pending(scPipe', Request) = Pending(scPipe, Request)
    BY <1>1, <1>6, ScTaken
  <2> QED BY <2>1, <2>2 DEF Needs, Asks
<1>7. ASSUME NEW m, m # Request, ScTakes(m), rts'[4].executing = rts[4].executing,
             rts'[4].next = rts[4].next
      PROVE  AnswerComing(a)'
  <2>1. /\ UNCHANGED <<lcPipe, lost>> /\ Needs(a) /\ (Asks(a) => Asks(a)')
        /\ Pending(scPipe', Request) = Pending(scPipe, Request)
    BY <1>6, <1>7
  <2> QED BY <1>2, <1>7, <2>1, StillComing
<1>8. ASSUME NEW r \in RTSs, ScStart(r) PROVE AnswerComing(a)'
  <2>1. ScTakes(StartMsg(r))
    BY <1>8 DEF ScStart
  <2>2. CASE r = 4
    <3>1. lost = {} /\ Needs(a)
      BY <1>6, <2>1
    <3> QED BY <1>8, <2>2, <3>1, RequestTaken
  <2>3. CASE r # 4
    <3>1. rts'[4] = rts[4] /\ StartMsg(r) # Request
      BY <1>1, <1>8, <2>3, Starts, ScMessages DEF Leaves, RTSs
    <3> QED BY <1>7, <2>1, <3>1
  <2> QED BY <2>2, <2>3
<1>9. ASSUME NEW r \in RTSs, ScEnable(r) PROVE AnswerComing(a)'
  <2>1. ScTakes(Enable(r)) /\ Enable(r) # Request
        /\ rts'[4].executing = rts[4].executing /\ rts'[4].next = rts[4].next
    BY <1>1, <1>9, Enables, ScMessages DEF ScEnable
  <2> QED BY <1>7, <2>1
<1>10. CASE ScNoop
  BY <1>7, <1>10, ScMessages DEF ScNoop, scVars
<1>11. CASE ScWakeup
  <2>1. ScTakes(WakeupMsg) /\ WakeupMsg # Request
        /\ rts'[4].executing = rts[4].executing /\ rts'[4].next = rts[4].next
    BY <1>1, <1>11, Wakes, ScMessages DEF ScWakeup
  <2> QED BY <1>7, <2>1
<1>12. CASE ScEndWakeup
  <2>1. UNCHANGED <<ap, silenced, lcOut, lcPipe, rts, scPipe, lost>>
    BY <1>12 DEF ScEndWakeup, lcVars
  <2>2. Needs(a) /\ (Asks(a) => Asks(a)')
    BY <2>1 DEF Needs, Asks
  <2> QED BY <1>2, <2>1, <2>2, StillComing
<1>13. ASSUME NEW r \in RTSs, ScTurn(r)
       PROVE  Needs(a) /\ (Asks(a) => Asks(a)')
  BY <1>13 DEF ScTurn, lcVars, Needs, Asks
<1>14. CASE ScTurn(1)
  <2>1. rts'[4] = rts[4] /\ lcPipe' = lcPipe /\ lost \subseteq lost'
        /\ \E x \in {Noop, Enable(3), StartMsg(3), Enable(4)} : scPipe' = Sent(scPipe, x)
    BY <1>1, <1>14, TurnOfOne DEF Leaves
  <2>2. Pending(scPipe, Request) > 0 => Pending(scPipe', Request) > 0
    BY <1>1, <2>1, ScSent DEF ScMsgs
  <2>3. Needs(a) /\ (Asks(a) => Asks(a)') /\ lost = {}
    BY <1>13, <1>14, <2>1 DEF RTSs
  <2> QED BY <1>2, <2>1, <2>2, <2>3, StillComing
<1>15. CASE ScTurn(3)
  <2>1. /\ rts'[4] = rts[4] /\ lost \subseteq lost'
        /\ scPipe' = scPipe \/ scPipe' = Sent(scPipe, StartMsg(3))
        /\ lcPipe' = lcPipe \/ lcPipe' = Sent(lcPipe, Sample)
    BY <1>1, <1>15, TurnOfThree DEF Leaves
  <2>2. StartMsg(3) \in ScMsgs /\ Sample \in LcMsgs
    BY DEF ScMsgs, LcMsgs
  <2>3. Pending(scPipe, Request) > 0 => Pending(scPipe', Request) > 0
    BY <1>1, <2>1, <2>2, ScSent
  <2>4. Pending(lcPipe, Arm(a)) > 0 => Pending(lcPipe', Arm(a)) > 0
    BY <1>1, <2>1, <2>2, LcSent
  <2>5. Needs(a) /\ (Asks(a) => Asks(a)') /\ lost = {}
    BY <1>13, <1>15, <2>1 DEF RTSs
  <2> QED BY <1>2, <2>1, <2>3, <2>4, <2>5, StillComing
<1>16. CASE ScTurn(4)
  <2>1. PICK x \in {Arm(0), Arm(1)} :
          /\ scPipe' = scPipe /\ lost \subseteq lost' /\ lcPipe' = Sent(lcPipe, x) /\ Room(lcPipe, x)
          /\ \/ rts[4].next = 1 /\ x = Arm(0) /\ rts'[4].executing /\ rts'[4].next = 2
             \/ rts[4].next = 2 /\ x = Arm(1) /\ ~rts'[4].executing
    BY <1>16, TurnOfFour DEF Lost, Goes
  <2>2. x \in LcMsgs
    BY DEF LcMsgs
  <2>3. Pending(lcPipe', x) > 0 /\ (Pending(lcPipe, Arm(a)) > 0 => Pending(lcPipe', Arm(a)) > 0)
    BY <1>1, <2>1, <2>2, LcSent
  <2>4. CASE x = Arm(a)
    BY <2>3, <2>4 DEF AnswerComing
  <2>5. CASE x # Arm(a) /\ a = 1
    <3>1. rts'[4].executing /\ rts'[4].next = 2
      BY <2>1, <2>5
    <3> QED BY <2>5, <3>1 DEF AnswerComing, ArmPos
  <2>6. CASE x # Arm(a) /\ a = 0
    <3>1. rts[4].next = 2
      BY <2>1, <2>6
    <3>2. AnswerComing(a) /\ (Asks(a) => Asks(a)')
      BY <1>1, <1>2, <1>13, <1>16, <2>1
    <3>3. Pending(lcPipe, Arm(a)) > 0 \/ Pending(scPipe, Request) > 0 \/ Asks(a)
      BY <2>6, <3>1, <3>2 DEF AnswerComing, ArmPos, Asks
    <3> QED BY <2>1, <2>3, <3>2, <3>3 DEF AnswerComing, Asks
  <2> QED BY <2>4, <2>5, <2>6, ArmIn
<1> QED BY <1>3, <1>4, <1>5, <1>8, <1>9, <1>10, <1>11, <1>12, <1>14, <1>15, <1>16
     DEF Next, Sc, Lc, RTSs

-----------------------------------------------------------------------------
(* The promise.                                                            *)

Inv == /\ TypeInv /\ LoopInv /\ ClockInv /\ MarginInv
       /\ StartupInv /\ GapInv /\ AnswerInv

LEMMA InvInductive ==
  ASSUME EnabledInTime
  PROVE  /\ Init => Inv
         /\ Inv /\ [Next]_vars => Inv'
<1>1. Init => Inv
  BY InitTypeInv, InitLoopInv, InitClockInv, InitMarginInv, InitStartupInv, InitGapInv,
     InitAnswerInv DEF Inv
<1>2. ASSUME Inv, [Next]_vars PROVE Inv'
  <2>1. TypeInv /\ LoopInv /\ ClockInv /\ MarginInv /\ StartupInv /\ GapInv /\ AnswerInv
    BY <1>2 DEF Inv
  <2>2. TypeInv' /\ LoopInv' /\ ClockInv'
    BY <1>2, <2>1, TypeInvStep, LoopInvStep, ClockInvStep
  <2>3. MarginInv' /\ StartupInv'
    BY <1>2, <2>1, <2>2, MarginInvStep, StartupInvStep
  <2>4. GapInv' /\ AnswerInv'
    BY <1>2, <2>1, <2>2, GapInvStep, AnswerInvStep
  <2> QED BY <2>2, <2>3, <2>4 DEF Inv
<1> QED BY <1>1, <1>2

\* A request that nothing answers is one that a loss has left.
LEMMA StatusKinds ==
  ASSUME TypeInv, AnswerInv, NEW a \in AP
  PROVE  \/ ap[a].state = "ACTIVE" /\ StatusOf(a) = "watching"
         \/ ap[a].state = "DISABLED" /\ StatusOf(a) = "off"
         \/ ap[a].state = "PASSIVE" /\ a \in silenced /\ StatusOf(a) = "muted"
         \/ Needs(a) /\ StatusOf(a) = "answering"
         \/ Needs(a) /\ StatusOf(a) = "unanswered" /\ lost # {}
<1>1. ap[a].state \in APStates
  BY DEF TypeInv, LcOK
<1>2. CASE ap[a].state = "ACTIVE"
  BY <1>2 DEF StatusOf
<1>3. CASE ap[a].state = "DISABLED"
  BY <1>3 DEF StatusOf
<1>4. CASE ap[a].state = "PASSIVE" /\ a \in silenced
  BY <1>4 DEF StatusOf
<1>5. CASE Needs(a)
  <2>1. StatusOf(a) = IF AnswerComing(a) THEN "answering" ELSE "unanswered"
    BY <1>5 DEF StatusOf, Needs
  <2> QED BY <1>5, <2>1 DEF AnswerInv
<1> QED BY <1>1, <1>2, <1>3, <1>4, <1>5 DEF APStates, Needs

LEMMA StatusKindsNext ==
  ASSUME TypeInv', AnswerInv', NEW a \in AP
  PROVE  \/ ap'[a].state = "ACTIVE" /\ StatusOf(a)' = "watching"
         \/ ap'[a].state = "DISABLED" /\ StatusOf(a)' = "off"
         \/ ap'[a].state = "PASSIVE" /\ a \in silenced' /\ StatusOf(a)' = "muted"
         \/ Needs(a)' /\ StatusOf(a)' = "answering"
         \/ Needs(a)' /\ StatusOf(a)' = "unanswered" /\ lost' # {}
<1>1. ap'[a].state \in APStates
  BY DEF TypeInv, LcOK
<1>2. CASE ap'[a].state = "ACTIVE"
  BY <1>2 DEF StatusOf
<1>3. CASE ap'[a].state = "DISABLED"
  BY <1>3 DEF StatusOf
<1>4. CASE ap'[a].state = "PASSIVE" /\ a \in silenced'
  BY <1>4 DEF StatusOf
<1>5. CASE Needs(a)'
  <2>1. StatusOf(a)' = IF AnswerComing(a)' THEN "answering" ELSE "unanswered"
    BY <1>5 DEF StatusOf, Needs
  <2> QED BY <1>5, <2>1 DEF AnswerInv
<1> QED BY <1>1, <1>2, <1>3, <1>4, <1>5 DEF APStates, Needs

\* An actionpoint comes to need an answer only from ACTIVE, and leaves that
\* need only for another state.
LEMMA NeedSteps ==
  ASSUME TypeInv, [Next]_vars, NEW a \in AP
  PROVE  /\ Needs(a)' => Needs(a) \/ ap[a].state = "ACTIVE"
         /\ Needs(a) => Needs(a)' \/ ap'[a].state # "PASSIVE"
         /\ lost \subseteq lost'
<1>1. PipesOK
  BY DEF TypeInv
<1>2. CASE Lc
  BY <1>2, LcNeeds, ByOthers
<1>3. ASSUME UNCHANGED <<ap, silenced>>, lost \subseteq lost'
      PROVE  /\ Needs(a)' => Needs(a) \/ ap[a].state = "ACTIVE"
             /\ Needs(a) => Needs(a)' \/ ap'[a].state # "PASSIVE"
             /\ lost \subseteq lost'
  BY <1>3 DEF Needs
<1>4. CASE SchWakeup \/ Telemetry \/ Ground \/ UNCHANGED vars
  <2>1. UNCHANGED <<ap, silenced, lost>>
    BY <1>4, OutsideTypes DEF vars, lcVars
  <2> QED BY <1>3, <2>1
<1>5. CASE Sc
  <2>1. ASSUME NEW m, ScTakes(m) PROVE UNCHANGED <<ap, silenced, lost>>
    BY <1>1, <2>1, ScTaking
  <2>2. ASSUME NEW r \in RTSs, ScTurn(r) PROVE UNCHANGED <<ap, silenced>> /\ lost \subseteq lost'
    BY <2>2 DEF ScTurn, lcVars
  <2>3. ScEndWakeup => UNCHANGED <<ap, silenced, lost>>
    BY DEF ScEndWakeup, lcVars
  <2>4. UNCHANGED <<ap, silenced>> /\ lost \subseteq lost'
    BY <1>5, <2>1, <2>2, <2>3 DEF Sc, ScStart, ScEnable, ScNoop, ScWakeup
  <2> QED BY <1>3, <2>4
<1> QED BY <1>2, <1>4, <1>5 DEF Next

LEMMA PromiseInit == Init => Promise!Init
<1> SUFFICES ASSUME Init PROVE Promise!Init
  OBVIOUS
<1>1. \A a \in AP : ap[a].state = "ACTIVE"
  BY DEF Init
<1>2. \A a \in AP : StatusOf(a) = "watching"
  BY <1>1 DEF StatusOf
<1>3. lost = {}
  BY DEF Init
<1> QED BY <1>2, <1>3 DEF Promise!Init

LEMMA PromiseStep == Inv /\ Inv' /\ [Next]_vars => Promise!Next
<1> SUFFICES ASSUME Inv, Inv', [Next]_vars PROVE Promise!Next
  OBVIOUS
<1>1. TypeInv /\ AnswerInv /\ TypeInv' /\ AnswerInv'
  BY DEF Inv
<1> DEFINE now == [a \in AP |-> StatusOf(a)]
           then == [a \in AP |-> StatusOf(a)']
<1>2. then \in [AP -> Promise!Status]
  BY <1>1, StatusKindsNext DEF Promise!Status
<1>3. (lost' # {}) \in {lost # {}, TRUE}
  BY NeedSteps, <1>1 DEF AP
<1>4. ASSUME NEW a \in AP PROVE Promise!Step(a)
  <2>1. now[a] = StatusOf(a) /\ then[a] = StatusOf(a)'
    OBVIOUS
  <2>2. \/ ap[a].state = "ACTIVE" /\ now[a] = "watching"
        \/ ap[a].state = "DISABLED" /\ now[a] = "off"
        \/ ap[a].state = "PASSIVE" /\ a \in silenced /\ now[a] = "muted"
        \/ Needs(a) /\ now[a] = "answering"
        \/ Needs(a) /\ now[a] = "unanswered" /\ lost # {}
    BY <1>1, <2>1, StatusKinds
  <2>3. \/ ap'[a].state = "ACTIVE" /\ then[a] = "watching"
        \/ ap'[a].state = "DISABLED" /\ then[a] = "off"
        \/ ap'[a].state = "PASSIVE" /\ a \in silenced' /\ then[a] = "muted"
        \/ Needs(a)' /\ then[a] = "answering"
        \/ Needs(a)' /\ then[a] = "unanswered" /\ lost' # {}
    BY <1>1, <2>1, StatusKindsNext
  <2>4. /\ Needs(a)' => Needs(a) \/ ap[a].state = "ACTIVE"
        /\ Needs(a) => Needs(a)' \/ ap'[a].state # "PASSIVE"
    BY <1>1, NeedSteps
  <2>5. /\ Needs(a) => ap[a].state = "PASSIVE" /\ a \notin silenced
        /\ Needs(a)' => ap'[a].state = "PASSIVE" /\ a \notin silenced'
    BY DEF Needs
  <2> HIDE DEF now, then
  <2>6. \/ then[a] = now[a] \/ then[a] \in {"watching", "off"}
        \/ now[a] = "watching" /\ then[a] \in {"answering", "muted"}
        \/ now[a] = "off" /\ then[a] = "muted"
        \/ now[a] = "unanswered" /\ then[a] = "answering"
        \/ now[a] \in {"watching", "answering"} /\ then[a] = "unanswered" /\ lost' # {}
    BY <2>2, <2>3, <2>4, <2>5
  <2> USE DEF now, then
  <2> QED BY <2>6 DEF Promise!Step
<1> QED BY <1>2, <1>3, <1>4 DEF Promise!Next

\* The loop implements the promise of RearmService: an actionpoint that asks
\* for RTS 4 (LC_SampleSingleAP, LC_ExecuteRTS) has the command that arms it
\* on its way until it is armed or the ground takes it off, unless a message
\* was dropped.  It holds for pipes of any depth and for every startup wait
\* of RTS 1 that ends before a count can be full: RTS 3 samples once in three
\* wakeups.  The tables of the project wait 5 and count to 5.
THEOREM LoopKeepsPromise == EnabledInTime => (Spec => ImplementsRearm)
<1> SUFFICES ASSUME EnabledInTime PROVE Spec => ImplementsRearm
  OBVIOUS
<1>1. Init => Inv
  BY InvInductive
<1>2. Inv /\ [Next]_vars => Inv'
  BY InvInductive
<1>3. Init => Promise!Init
  BY PromiseInit
<1>4. Inv /\ Inv' /\ [Next]_vars => [Promise!Next]_(Promise!vars)
  BY PromiseStep
<1> QED BY <1>1, <1>2, <1>3, <1>4, PTL DEF Spec, ImplementsRearm, Promise!Spec

=============================================================================
