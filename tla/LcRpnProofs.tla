---------------------------- MODULE LcRpnProofs ----------------------------
(***************************************************************************)
(* What LC_EvaluateRPN and LC_ValidateRPN make of every equation, however  *)
(* long.  An induction over the items goes through the set of the numbers  *)
(* of turns after which the claim holds: it contains 0 and with each       *)
(* number the next one.                                                    *)
(***************************************************************************)
EXTENDS LcEquation, WellFoundedInduction, TLAPS

-----------------------------------------------------------------------------
(* Induction over a set of numbers.                                        *)

\* A set that contains 0 and with each number the next one contains them
\* all: the least number outside it would have a predecessor.
LEMMA NatSetInduction ==
  ASSUME NEW S, 0 \in S, \A n \in Nat : n \in S => n + 1 \in S
  PROVE  Nat \subseteq S
<1> DEFINE Missing == Nat \ S
           Less == {p \in Nat \X Nat : p[1] < p[2]}
<1> SUFFICES ASSUME Missing # {} PROVE FALSE
  OBVIOUS
<1>1. IsWellFoundedOn(Less, Nat)
  BY NatLessThanWellFounded DEF OpToRel
<1>2. PICK least \in Missing : \A n \in Missing : <<n, least>> \notin Less
  <2> HIDE DEF Less
  <2> QED BY <1>1, WFMin, Zenon
<1>3. \A n \in Missing : ~(n < least)
  BY <1>2
<1>4. least \in Nat /\ least # 0 /\ least - 1 \in Nat /\ least - 1 < least /\ least - 1 \in S
  BY <1>3
<1> QED BY <1>4

-----------------------------------------------------------------------------
(* The two loops, turn by turn.                                            *)

\* LC_EvaluateRPN starts with an empty stack, and each turn takes the next
\* item.
LEMMA EvaluationTurns ==
  ASSUME NEW equ, Len(equ) \in Nat, NEW wr
  PROVE  /\ Evaluation(equ, wr)[0] = Machine("running", <<>>)
         /\ \A n \in 1 .. Len(equ) :
              Evaluation(equ, wr)[n]
                = EvaluateItem(Evaluation(equ, wr)[n - 1], equ[n], wr)
<1> DEFINE Base == Machine("running", <<>>)
           Step(m, n) == EvaluateItem(m, equ[n], wr)
           Table(n, g) == [i \in 0 .. n |-> IF i = 0 THEN Base ELSE Step(g[i - 1], i)]
           S == {n \in Nat : \E g : g = Table(n, g)}
<1>e. Evaluation(equ, wr) = CHOOSE g : g = Table(Len(equ), g)
  BY DEF Evaluation
<1> HIDE DEF Base, Step
<1>1. 0 \in S
  <2> DEFINE g == [i \in 0 .. 0 |-> Base]
  <2>1. g = Table(0, g)
    OBVIOUS
  <2> QED BY <2>1
<1>2. ASSUME NEW n \in Nat, n \in S PROVE n + 1 \in S
  <2>1. PICK g : g = Table(n, g)
    BY <1>2
  <2> DEFINE h == [i \in 0 .. n + 1 |-> IF i = n + 1 THEN Step(g[n], n + 1) ELSE g[i]]
  <2>2. \A i \in 0 .. n : h[i] = g[i]
    OBVIOUS
  <2>3. \A i \in 0 .. n + 1 : h[i] = IF i = 0 THEN Base ELSE Step(h[i - 1], i)
    <3> SUFFICES ASSUME NEW i \in 0 .. n + 1
                 PROVE  h[i] = IF i = 0 THEN Base ELSE Step(h[i - 1], i)
      OBVIOUS
    <3>1. CASE i = n + 1
      <4>1. h[i] = Step(g[n], i) /\ i - 1 = n /\ i # 0
        BY <3>1
      <4> QED BY <4>1, <2>2
    <3>2. CASE i \in 0 .. n
      <4>1. h[i] = g[i]
        BY <3>2, <2>2
      <4>2. g[i] = IF i = 0 THEN Base ELSE Step(g[i - 1], i)
        BY <2>1, <3>2
      <4>3. i # 0 => h[i - 1] = g[i - 1]
        BY <3>2, <2>2
      <4> QED BY <4>1, <4>2, <4>3
    <3> QED BY <3>1, <3>2
  <2>4. h = Table(n + 1, h)
    <3> HIDE DEF h
    <3>1. h = [i \in 0 .. n + 1 |-> h[i]]
      BY DEF h
    <3> QED BY <2>3, <3>1
  <2>5. n + 1 \in Nat
    OBVIOUS
  <2> HIDE DEF h, Table
  <2> QED BY <2>4, <2>5
<1>3. Len(equ) \in S
  <2> HIDE DEF S
  <2> QED BY <1>1, <1>2, NatSetInduction
<1>4. PICK g : g = Table(Len(equ), g)
  BY <1>3
<1>5. Evaluation(equ, wr) = Table(Len(equ), Evaluation(equ, wr))
  <2> HIDE DEF Table
  <2> QED BY <1>4, <1>e
<1>6. /\ Evaluation(equ, wr)[0] = Base
      /\ \A n \in 1 .. Len(equ) :
           Evaluation(equ, wr)[n] = Step(Evaluation(equ, wr)[n - 1], n)
  <2> DEFINE f == Evaluation(equ, wr)
  <2>1. f = Table(Len(equ), f)
    BY <1>5
  <2> HIDE DEF f
  <2>2. f[0] = Base
    BY <2>1
  <2>3. \A n \in 1 .. Len(equ) : f[n] = Step(f[n - 1], n)
    BY <2>1
  <2> QED BY <2>2, <2>3 DEF f
<1> QED BY <1>6 DEF Base, Step

\* LC_ValidateRPN likewise, from depth 0.
LEMMA ValidationTurns ==
  ASSUME NEW equ, Len(equ) \in Nat
  PROVE  /\ Validation(equ)[0] = Depth("scanning", 0)
         /\ \A n \in 1 .. Len(equ) :
              Validation(equ)[n] = ValidateItem(Validation(equ)[n - 1], equ[n])
<1> DEFINE Base == Depth("scanning", 0)
           Step(v, n) == ValidateItem(v, equ[n])
           Table(n, g) == [i \in 0 .. n |-> IF i = 0 THEN Base ELSE Step(g[i - 1], i)]
           S == {n \in Nat : \E g : g = Table(n, g)}
<1>e. Validation(equ) = CHOOSE g : g = Table(Len(equ), g)
  BY DEF Validation
<1> HIDE DEF Base, Step
<1>1. 0 \in S
  <2> DEFINE g == [i \in 0 .. 0 |-> Base]
  <2>1. g = Table(0, g)
    OBVIOUS
  <2> QED BY <2>1
<1>2. ASSUME NEW n \in Nat, n \in S PROVE n + 1 \in S
  <2>1. PICK g : g = Table(n, g)
    BY <1>2
  <2> DEFINE h == [i \in 0 .. n + 1 |-> IF i = n + 1 THEN Step(g[n], n + 1) ELSE g[i]]
  <2>2. \A i \in 0 .. n : h[i] = g[i]
    OBVIOUS
  <2>3. \A i \in 0 .. n + 1 : h[i] = IF i = 0 THEN Base ELSE Step(h[i - 1], i)
    <3> SUFFICES ASSUME NEW i \in 0 .. n + 1
                 PROVE  h[i] = IF i = 0 THEN Base ELSE Step(h[i - 1], i)
      OBVIOUS
    <3>1. CASE i = n + 1
      <4>1. h[i] = Step(g[n], i) /\ i - 1 = n /\ i # 0
        BY <3>1
      <4> QED BY <4>1, <2>2
    <3>2. CASE i \in 0 .. n
      <4>1. h[i] = g[i]
        BY <3>2, <2>2
      <4>2. g[i] = IF i = 0 THEN Base ELSE Step(g[i - 1], i)
        BY <2>1, <3>2
      <4>3. i # 0 => h[i - 1] = g[i - 1]
        BY <3>2, <2>2
      <4> QED BY <4>1, <4>2, <4>3
    <3> QED BY <3>1, <3>2
  <2>4. h = Table(n + 1, h)
    <3> HIDE DEF h
    <3>1. h = [i \in 0 .. n + 1 |-> h[i]]
      BY DEF h
    <3> QED BY <2>3, <3>1
  <2>5. n + 1 \in Nat
    OBVIOUS
  <2> HIDE DEF h, Table
  <2> QED BY <2>4, <2>5
<1>3. Len(equ) \in S
  <2> HIDE DEF S
  <2> QED BY <1>1, <1>2, NatSetInduction
<1>4. PICK g : g = Table(Len(equ), g)
  BY <1>3
<1>5. Validation(equ) = Table(Len(equ), Validation(equ))
  <2> HIDE DEF Table
  <2> QED BY <1>4, <1>e
<1>6. /\ Validation(equ)[0] = Base
      /\ \A n \in 1 .. Len(equ) :
           Validation(equ)[n] = Step(Validation(equ)[n - 1], n)
  <2> DEFINE f == Validation(equ)
  <2>1. f = Table(Len(equ), f)
    BY <1>5
  <2> HIDE DEF f
  <2>2. f[0] = Base
    BY <2>1
  <2>3. \A n \in 1 .. Len(equ) : f[n] = Step(f[n - 1], n)
    BY <2>1
  <2> QED BY <2>2, <2>3 DEF f
<1> QED BY <1>6 DEF Base, Step

-----------------------------------------------------------------------------
(* One turn of both.                                                       *)

Statuses == {"running", "done", "illegal"}

\* A machine m and a scan v that are through with the same items.  While the
\* scan goes on, it knows the depth of the machine's stack; when it has
\* failed, the machine is stuck or has ended on an unknown operand; when it
\* has succeeded, the machine has one operand to answer with.
Agree(m, v) ==
  /\ m \in [status : Statuses, stack : Seq(WatchResults)]
  /\ v \in [status : {"scanning", "good", "bad"}, depth : Nat]
  /\ v.status = "scanning" => m.status = "running" /\ Len(m.stack) = v.depth
  /\ v.status = "bad" =>
       \/ m.status = "illegal"
       \/ m.status = "done" /\ Len(m.stack) > 0 /\ Unknown(Last(m.stack))
  /\ v.status = "good" => m.status = "done" /\ Len(m.stack) = 1

\* The operators answer with a watch result.
LEMMA ResultTypes ==
  ASSUME NEW a \in WatchResults, NEW b \in WatchResults
  PROVE  /\ \A op \in BinaryOperators : ApplyBinary(op, a, b) \in WatchResults
         /\ ApplyNot(a) \in WatchResults
BY DEF WatchResults, BinaryOperators, RPN_AND, RPN_OR, RPN_XOR, ApplyBinary, ApplyNot,
       ApplyAnd, ApplyOr, ApplyXor, Unknown, Undecided, Truth

\* Of Boolean operands they make a Boolean.
LEMMA BooleanResults ==
  ASSUME NEW a \in {"TRUE", "FALSE"}, NEW b \in {"TRUE", "FALSE"}
  PROVE  /\ \A op \in BinaryOperators : ApplyBinary(op, a, b) \in {"TRUE", "FALSE"}
         /\ ApplyNot(a) \in {"TRUE", "FALSE"}
BY DEF BinaryOperators, RPN_AND, RPN_OR, RPN_XOR, ApplyBinary, ApplyNot,
       ApplyAnd, ApplyOr, ApplyXor, Unknown, Truth

\* What a turn does to a machine that still runs.
LEMMA Turn ==
  ASSUME NEW s \in Seq(WatchResults), NEW t \in Nat, NEW wr \in Assignments
  PROVE  LET m == Machine("running", s)
             n == Len(s)
         IN  /\ t \in BinaryOperators =>
                  EvaluateItem(m, t, wr) =
                    IF n < 2 THEN Machine("illegal", s)
                    ELSE Machine("running", Append(SubSeq(s, 1, n - 2),
                                                   ApplyBinary(t, s[n - 1], s[n])))
             /\ t = RPN_NOT =>
                  EvaluateItem(m, t, wr) =
                    IF n < 1 THEN Machine("illegal", s)
                    ELSE Machine("running", Append(Front(s), ApplyNot(s[n])))
             /\ t = RPN_EQUAL => EvaluateItem(m, t, wr) = Equal(s)
             /\ t \in WPs => EvaluateItem(m, t, wr) = Machine("running", Append(s, wr[t]))
             /\ t \notin BinaryOperators \cup {RPN_NOT, RPN_EQUAL} \cup WPs =>
                  EvaluateItem(m, t, wr) = Machine("illegal", s)
BY NumWPAssumption
   DEF EvaluateItem, Machine, BinaryOperators, RPN_AND, RPN_OR, RPN_XOR, RPN_NOT, RPN_EQUAL, WPs

\* What it does to a scan that still goes on.
LEMMA Scan ==
  ASSUME NEW d \in Nat, NEW t \in Nat
  PROVE  LET v == Depth("scanning", d)
         IN  /\ t \in BinaryOperators =>
                  ValidateItem(v, t) = IF d < 2 THEN Depth("bad", d)
                                       ELSE Depth("scanning", d - 1)
             /\ t = RPN_NOT =>
                  ValidateItem(v, t) = IF d < 1 THEN Depth("bad", d)
                                       ELSE Depth("scanning", d)
             /\ t = RPN_EQUAL => ValidateItem(v, t) = Depth(EndStatus(d), d)
             /\ t \in WPs => ValidateItem(v, t) = Depth("scanning", d + 1)
             /\ t \notin BinaryOperators \cup {RPN_NOT, RPN_EQUAL} \cup WPs =>
                  ValidateItem(v, t) = Depth("bad", d)
BY NumWPAssumption
   DEF ValidateItem, Depth, DepthAfter, BinaryOperators, RPN_AND, RPN_OR, RPN_XOR, RPN_NOT,
       RPN_EQUAL, WPs

\* RPN_EQUAL: what the scan says of the depth, the machine finds.
LEMMA EqualAgrees ==
  ASSUME NEW s \in Seq(WatchResults)
  PROVE  Agree(Equal(s), Depth(EndStatus(Len(s)), Len(s)))
BY DEF Agree, Equal, Machine, Depth, EndStatus, Statuses

\* A turn of both keeps them in agreement.
LEMMA AgreeStep ==
  ASSUME NEW m, NEW v, Agree(m, v), NEW t \in Nat, NEW wr \in Assignments
  PROVE  Agree(EvaluateItem(m, t, wr), ValidateItem(v, t))
<1>1. CASE v.status = "scanning"
  <2> DEFINE s == m.stack
             d == v.depth
  <2>1. m.status = "running" /\ s \in Seq(WatchResults) /\ d \in Nat /\ Len(s) = d
    BY <1>1 DEF Agree
  <2>2. m = Machine("running", s) /\ v = Depth("scanning", d)
    BY <1>1, <2>1 DEF Agree, Machine, Depth
  <2> HIDE DEF s, d
  <2>3. CASE t \in BinaryOperators
    <3>1. CASE d < 2
      <4>1. /\ EvaluateItem(m, t, wr) = Machine("illegal", s)
            /\ ValidateItem(v, t) = Depth("bad", d)
        BY <2>1, <2>2, <2>3, <3>1, Turn, Scan
      <4> QED BY <2>1, <4>1 DEF Agree, Machine, Depth, Statuses
    <3>2. CASE ~(d < 2)
      <4>1. s[d - 1] \in WatchResults /\ s[d] \in WatchResults
        BY <2>1, <3>2
      <4> DEFINE r == ApplyBinary(t, s[d - 1], s[d])
                 rest == SubSeq(s, 1, d - 2)
      <4>2. r \in WatchResults
        BY <4>1, <2>3, ResultTypes
      <4>3. rest \in Seq(WatchResults) /\ Len(rest) = d - 2
        BY <2>1, <3>2
      <4>4. /\ EvaluateItem(m, t, wr) = Machine("running", Append(rest, r))
            /\ ValidateItem(v, t) = Depth("scanning", d - 1)
        BY <2>1, <2>2, <2>3, <3>2, Turn, Scan
      <4> HIDE DEF r, rest
      <4>5. Append(rest, r) \in Seq(WatchResults) /\ Len(Append(rest, r)) = d - 1
        BY <2>1, <4>2, <4>3
      <4>6. d - 1 \in Nat
        BY <2>1, <3>2
      <4> QED BY <4>4, <4>5, <4>6 DEF Agree, Machine, Depth, Statuses
    <3> QED BY <3>1, <3>2
  <2>4. CASE t = RPN_NOT
    <3>1. CASE d < 1
      <4>1. /\ EvaluateItem(m, t, wr) = Machine("illegal", s)
            /\ ValidateItem(v, t) = Depth("bad", d)
        BY <2>1, <2>2, <2>4, <3>1, Turn, Scan
      <4> QED BY <2>1, <4>1 DEF Agree, Machine, Depth, Statuses
    <3>2. CASE ~(d < 1)
      <4>1. s[d] \in WatchResults
        BY <2>1, <3>2
      <4> DEFINE r == ApplyNot(s[d])
                 rest == Front(s)
      <4>2. r \in WatchResults
        BY <4>1, ResultTypes
      <4>3. rest \in Seq(WatchResults) /\ Len(rest) = d - 1
        BY <2>1, <3>2 DEF Front
      <4>4. /\ EvaluateItem(m, t, wr) = Machine("running", Append(rest, r))
            /\ ValidateItem(v, t) = Depth("scanning", d)
        BY <2>1, <2>2, <2>4, <3>2, Turn, Scan
      <4> HIDE DEF r, rest
      <4>5. Append(rest, r) \in Seq(WatchResults) /\ Len(Append(rest, r)) = d
        BY <2>1, <4>2, <4>3
      <4> QED BY <2>1, <4>4, <4>5 DEF Agree, Machine, Depth, Statuses
    <3> QED BY <3>1, <3>2
  <2>5. CASE t = RPN_EQUAL
    <3>1. /\ EvaluateItem(m, t, wr) = Equal(s)
          /\ ValidateItem(v, t) = Depth(EndStatus(d), d)
      BY <2>1, <2>2, <2>5, Turn, Scan
    <3> QED BY <2>1, <3>1, EqualAgrees
  <2>6. CASE t \in WPs
    <3>1. wr[t] \in WatchResults
      BY <2>6 DEF Assignments
    <3>2. /\ EvaluateItem(m, t, wr) = Machine("running", Append(s, wr[t]))
          /\ ValidateItem(v, t) = Depth("scanning", d + 1)
      BY <2>1, <2>2, <2>6, Turn, Scan
    <3>3. Append(s, wr[t]) \in Seq(WatchResults) /\ Len(Append(s, wr[t])) = d + 1
      BY <2>1, <3>1
    <3> QED BY <2>1, <3>2, <3>3 DEF Agree, Machine, Depth, Statuses
  <2>7. CASE t \notin BinaryOperators \cup {RPN_NOT, RPN_EQUAL} \cup WPs
    <3>1. /\ EvaluateItem(m, t, wr) = Machine("illegal", s)
          /\ ValidateItem(v, t) = Depth("bad", d)
      BY <2>1, <2>2, <2>7, Turn, Scan
    <3> QED BY <2>1, <3>1 DEF Agree, Machine, Depth, Statuses
  <2> QED BY <2>3, <2>4, <2>5, <2>6, <2>7
<1>2. CASE v.status # "scanning"
  <2>1. m.status # "running"
    BY <1>2 DEF Agree
  <2>2. EvaluateItem(m, t, wr) = m
    BY <2>1 DEF EvaluateItem
  <2>3. ValidateItem(v, t) = v
    BY <1>2 DEF ValidateItem
  <2> QED BY <2>2, <2>3
<1> QED BY <1>1, <1>2

\* When every watchpoint has a Boolean result, so has every operand.
BooleanStack(m) == m.stack \in Seq({"TRUE", "FALSE"})

\* A turn leaves Boolean operands.
LEMMA BooleanStep ==
  ASSUME NEW m, NEW v, Agree(m, v), BooleanStack(m), NEW t \in Nat,
         NEW wr \in [WPs -> {"TRUE", "FALSE"}]
  PROVE  BooleanStack(EvaluateItem(m, t, wr))
<1> DEFINE s == m.stack
           n == Len(s)
<1>w. wr \in Assignments
  BY DEF Assignments, WatchResults
<1>1. CASE m.status = "running"
  <2>1. s \in Seq(WatchResults) /\ s \in Seq({"TRUE", "FALSE"}) /\ n \in Nat
    BY DEF Agree, BooleanStack
  <2>2. m = Machine("running", s)
    BY <1>1 DEF Agree, Machine
  <2> HIDE DEF s
  <2>3. CASE t \in BinaryOperators
    <3>1. CASE n < 2
      <4>1. EvaluateItem(m, t, wr) = Machine("illegal", s)
        BY <1>w, <2>1, <2>2, <2>3, <3>1, Turn
      <4> QED BY <2>1, <4>1 DEF BooleanStack, Machine
    <3>2. CASE ~(n < 2)
      <4>1. s[n - 1] \in {"TRUE", "FALSE"} /\ s[n] \in {"TRUE", "FALSE"}
        BY <2>1, <3>2
      <4>2. ApplyBinary(t, s[n - 1], s[n]) \in {"TRUE", "FALSE"}
        BY <4>1, <2>3, BooleanResults
      <4>3. SubSeq(s, 1, n - 2) \in Seq({"TRUE", "FALSE"})
        BY <2>1, <3>2
      <4>4. EvaluateItem(m, t, wr) = Machine("running", Append(SubSeq(s, 1, n - 2),
                                                   ApplyBinary(t, s[n - 1], s[n])))
        BY <1>w, <2>1, <2>2, <2>3, <3>2, Turn
      <4> QED BY <4>2, <4>3, <4>4 DEF BooleanStack, Machine
    <3> QED BY <3>1, <3>2
  <2>4. CASE t = RPN_NOT
    <3>1. CASE n < 1
      <4>1. EvaluateItem(m, t, wr) = Machine("illegal", s)
        BY <1>w, <2>1, <2>2, <2>4, <3>1, Turn
      <4> QED BY <2>1, <4>1 DEF BooleanStack, Machine
    <3>2. CASE ~(n < 1)
      <4>1. ApplyNot(s[n]) \in {"TRUE", "FALSE"}
        BY <2>1, <3>2, BooleanResults
      <4>2. Front(s) \in Seq({"TRUE", "FALSE"})
        BY <2>1, <3>2 DEF Front
      <4>3. EvaluateItem(m, t, wr) = Machine("running", Append(Front(s), ApplyNot(s[n])))
        BY <1>w, <2>1, <2>2, <2>4, <3>2, Turn
      <4> QED BY <4>1, <4>2, <4>3 DEF BooleanStack, Machine
    <3> QED BY <3>1, <3>2
  <2>5. CASE t = RPN_EQUAL
    <3>1. EvaluateItem(m, t, wr) = Equal(s)
      BY <1>w, <2>1, <2>2, <2>5, Turn
    <3> QED BY <2>1, <3>1 DEF BooleanStack, Equal, Machine
  <2>6. CASE t \in WPs
    <3>1. EvaluateItem(m, t, wr) = Machine("running", Append(s, wr[t]))
      BY <1>w, <2>1, <2>2, <2>6, Turn
    <3> QED BY <2>1, <2>6, <3>1 DEF BooleanStack, Machine
  <2>7. CASE t \notin BinaryOperators \cup {RPN_NOT, RPN_EQUAL} \cup WPs
    <3>1. EvaluateItem(m, t, wr) = Machine("illegal", s)
      BY <1>w, <2>1, <2>2, <2>7, Turn
    <3> QED BY <2>1, <3>1 DEF BooleanStack, Machine
  <2> QED BY <2>3, <2>4, <2>5, <2>6, <2>7
<1>2. CASE m.status # "running"
  <2>1. EvaluateItem(m, t, wr) = m
    BY <1>2 DEF EvaluateItem
  <2> QED BY <2>1
<1> QED BY <1>1, <1>2

\* After any number of turns the two agree.
LEMMA AgreeThroughout ==
  ASSUME NEW equ \in Seq(Nat), NEW wr \in Assignments
  PROVE  \A n \in 0 .. Len(equ) : Agree(Evaluation(equ, wr)[n], Validation(equ)[n])
<1> DEFINE e == Evaluation(equ, wr)
           d == Validation(equ)
           S == {n \in Nat : n <= Len(equ) => Agree(e[n], d[n])}
<1>l. Len(equ) \in Nat
  OBVIOUS
<1>e. e[0] = Machine("running", <<>>)
      /\ \A n \in 1 .. Len(equ) : e[n] = EvaluateItem(e[n - 1], equ[n], wr)
  BY <1>l, EvaluationTurns
<1>d. d[0] = Depth("scanning", 0)
      /\ \A n \in 1 .. Len(equ) : d[n] = ValidateItem(d[n - 1], equ[n])
  BY <1>l, ValidationTurns
<1> HIDE DEF e, d
<1>1. 0 \in S
  <2>1. Agree(Machine("running", <<>>), Depth("scanning", 0))
    BY DEF Agree, Machine, Depth, Statuses
  <2> QED BY <1>e, <1>d, <2>1
<1>2. ASSUME NEW n \in Nat, n \in S PROVE n + 1 \in S
  <2>1. SUFFICES ASSUME n + 1 <= Len(equ) PROVE Agree(e[n + 1], d[n + 1])
    BY <1>2
  <2>2. Agree(e[n], d[n]) /\ n + 1 \in 1 .. Len(equ) /\ (n + 1) - 1 = n
    BY <1>2, <1>l, <2>1
  <2>3. equ[n + 1] \in Nat
    BY <2>2
  <2>4. e[n + 1] = EvaluateItem(e[n], equ[n + 1], wr)
    BY <1>e, <2>2
  <2>5. d[n + 1] = ValidateItem(d[n], equ[n + 1])
    BY <1>d, <2>2
  <2> QED BY <2>2, <2>3, <2>4, <2>5, AgreeStep
<1>3. Nat \subseteq S
  <2> HIDE DEF S
  <2> QED BY <1>1, <1>2, NatSetInduction
<1> QED BY <1>3, <1>l DEF e, d

\* And of Boolean watchpoints the operands stay Boolean.
LEMMA BooleanThroughout ==
  ASSUME NEW equ \in Seq(Nat), NEW wr \in [WPs -> {"TRUE", "FALSE"}]
  PROVE  \A n \in 0 .. Len(equ) : BooleanStack(Evaluation(equ, wr)[n])
<1> DEFINE e == Evaluation(equ, wr)
           S == {n \in Nat : n <= Len(equ) => BooleanStack(e[n])}
<1>l. Len(equ) \in Nat
  OBVIOUS
<1>e. e[0] = Machine("running", <<>>)
      /\ \A n \in 1 .. Len(equ) : e[n] = EvaluateItem(e[n - 1], equ[n], wr)
  BY <1>l, EvaluationTurns
<1>a. \A n \in 0 .. Len(equ) : Agree(e[n], Validation(equ)[n])
  <2>1. wr \in Assignments
    BY DEF Assignments, WatchResults
  <2> QED BY <2>1, AgreeThroughout
<1> HIDE DEF e
<1>1. 0 \in S
  <2>1. BooleanStack(Machine("running", <<>>))
    BY DEF BooleanStack, Machine
  <2> QED BY <1>e, <2>1
<1>2. ASSUME NEW n \in Nat, n \in S PROVE n + 1 \in S
  <2>1. SUFFICES ASSUME n + 1 <= Len(equ) PROVE BooleanStack(e[n + 1])
    BY <1>2
  <2>2. BooleanStack(e[n]) /\ n + 1 \in 1 .. Len(equ) /\ (n + 1) - 1 = n /\ n \in 0 .. Len(equ)
    BY <1>2, <1>l, <2>1
  <2>3. equ[n + 1] \in Nat
    BY <2>2
  <2>4. e[n + 1] = EvaluateItem(e[n], equ[n + 1], wr)
    BY <1>e, <2>2
  <2>5. Agree(e[n], Validation(equ)[n])
    BY <1>a, <2>2
  <2> QED BY <2>2, <2>3, <2>4, <2>5, BooleanStep
<1>3. Nat \subseteq S
  <2> HIDE DEF S
  <2> QED BY <1>1, <1>2, NatSetInduction
<1> QED BY <1>3, <1>l DEF e

-----------------------------------------------------------------------------
(* What the two make of an equation.                                       *)

\* An equation that LC_ValidateRPN rejects neither passes nor fails its
\* actionpoint, for any watch results: LC_EvaluateRPN leaves it stale or in
\* error.
THEOREM RejectedIsHarmless ==
  ASSUME NEW equ \in Seq(Nat), ~ValidateRPN(equ), NEW wr \in Assignments
  PROVE  EvaluateRPN(equ, wr) \in {"STALE", "ERROR"}
<1> DEFINE m == EndMachine(equ, wr)
           v == EndDepth(equ)
<1>1. Agree(m, v)
  <2>1. Len(equ) \in 0 .. Len(equ)
    OBVIOUS
  <2> QED BY <2>1, AgreeThroughout DEF EndMachine, EndDepth
<1>2. v.status # "good"
  BY DEF ValidateRPN
<1> HIDE DEF m, v
<1>3. WatchResult(m) \in {"STALE", "ERROR"}
  BY <1>1, <1>2 DEF Agree, WatchResult, Unknown
<1> QED BY <1>3 DEF EvaluateRPN, Verdict, m

\* An equation that LC_ValidateRPN accepts decides its actionpoint whenever
\* every watchpoint has a Boolean result.
THEOREM AcceptedIsDecided ==
  ASSUME NEW equ \in Seq(Nat), ValidateRPN(equ), NEW wr \in [WPs -> {"TRUE", "FALSE"}]
  PROVE  EvaluateRPN(equ, wr) \in {"PASS", "FAIL"}
<1> DEFINE m == EndMachine(equ, wr)
           v == EndDepth(equ)
<1>1. Len(equ) \in 0 .. Len(equ) /\ wr \in Assignments
  BY DEF Assignments, WatchResults
<1>2. Agree(m, v)
  BY <1>1, AgreeThroughout DEF EndMachine, EndDepth
<1>3. BooleanStack(m)
  BY <1>1, BooleanThroughout DEF EndMachine
<1>4. v.status = "good"
  BY DEF ValidateRPN
<1> HIDE DEF m, v
<1>5. m.status = "done" /\ Len(m.stack) = 1 /\ m.stack \in Seq({"TRUE", "FALSE"})
  BY <1>2, <1>3, <1>4 DEF Agree, BooleanStack
<1>6. WatchResult(m) \in {"TRUE", "FALSE"}
  BY <1>5 DEF WatchResult, Last
<1> QED BY <1>6 DEF EvaluateRPN, Verdict, m

-----------------------------------------------------------------------------
(* The two claims of every equation that is ever written.                  *)

\* What is written are numbers.
Numbers == eq \in Seq(Nat)

LEMMA NumbersWritten == Spec => []Numbers
<1>1. Init => Numbers
  BY DEF Init, Numbers
<1>2. Numbers /\ [Next]_vars => Numbers'
  <2> SUFFICES ASSUME Numbers, [Next]_vars PROVE Numbers'
    OBVIOUS
  <2>1. ASSUME NEW t \in Nat, NEW es, Write(t, es) PROVE Numbers'
    BY <2>1 DEF Numbers, Write
  <2>2. CASE WriteAny
    <3>1. PICK t \in Items : Write(t, operands)
      BY <2>2 DEF WriteAny
    <3>2. t \in Nat
      BY <3>1, ItemsAssumption
    <3> QED BY <2>1, <3>1, <3>2
  <2>3. CASE WriteWatchpoint
    BY <2>1, <2>3 DEF WriteWatchpoint, WPs
  <2>4. CASE WriteNot
    BY <2>1, <2>4 DEF WriteNot, RPN_NOT
  <2>5. CASE WriteBinary
    BY <2>1, <2>5 DEF WriteBinary, BinaryOperators, RPN_AND, RPN_OR, RPN_XOR
  <2>6. CASE WriteEqual
    BY <2>1, <2>6 DEF WriteEqual, RPN_EQUAL
  <2>7. CASE UNCHANGED vars
    BY <2>7 DEF Numbers, vars
  <2> QED BY <2>2, <2>3, <2>4, <2>5, <2>6, <2>7 DEF Next
<1> QED BY <1>1, <1>2, PTL DEF Spec

\* LC_ValidateRPN and LC_EvaluateRPN, whatever is written into the table: an
\* equation that is rejected neither passes nor fails its actionpoint.
THEOREM RejectedNeverDecide == Spec => []RejectedNeverDecides
<1>1. Numbers => RejectedNeverDecides
  BY RejectedIsHarmless DEF Numbers, RejectedNeverDecides, Outcome
<1> QED BY <1>1, NumbersWritten, PTL

\* LC_ValidateRPN and LC_EvaluateRPN, whatever is written into the table: an
\* equation that is accepted decides its actionpoint when every watchpoint
\* has a Boolean result.
THEOREM AcceptedDecide == Spec => []AcceptedDecides
<1>1. Numbers => AcceptedDecides
  BY AcceptedIsDecided DEF Numbers, AcceptedDecides, Outcome
<1> QED BY <1>1, NumbersWritten, PTL

-----------------------------------------------------------------------------
(* One item more.                                                          *)

\* What is written behind an equation leaves the turns over it as they are,
\* and adds one.
LEMMA EndMachineAppend ==
  ASSUME NEW equ \in Seq(Nat), NEW t \in Nat, NEW wr
  PROVE  EndMachine(Append(equ, t), wr) = EvaluateItem(EndMachine(equ, wr), t, wr)
<1> DEFINE longer == Append(equ, t)
           L == Len(equ)
           e == Evaluation(equ, wr)
           f == Evaluation(longer, wr)
           S == {n \in Nat : n <= L => f[n] = e[n]}
<1>l. /\ L \in Nat /\ Len(longer) = L + 1 /\ Len(longer) \in Nat
      /\ longer[L + 1] = t /\ \A n \in 1 .. L : longer[n] = equ[n]
  OBVIOUS
<1> HIDE DEF longer
<1>e. e[0] = Machine("running", <<>>)
      /\ \A n \in 1 .. L : e[n] = EvaluateItem(e[n - 1], equ[n], wr)
  BY <1>l, EvaluationTurns
<1>f. f[0] = Machine("running", <<>>)
      /\ \A n \in 1 .. Len(longer) : f[n] = EvaluateItem(f[n - 1], longer[n], wr)
  BY <1>l, EvaluationTurns
<1>d. EndMachine(equ, wr) = e[L] /\ EndMachine(longer, wr) = f[Len(longer)]
  BY DEF EndMachine
<1> HIDE DEF e, f, L
<1>1. 0 \in S
  BY <1>e, <1>f
<1>2. ASSUME NEW n \in Nat, n \in S PROVE n + 1 \in S
  <2>1. SUFFICES ASSUME n + 1 <= L PROVE f[n + 1] = e[n + 1]
    BY <1>2
  <2>2. f[n] = e[n] /\ n + 1 \in 1 .. L /\ n + 1 \in 1 .. Len(longer) /\ (n + 1) - 1 = n
    BY <1>2, <1>l, <2>1
  <2>3. f[n + 1] = EvaluateItem(f[n], longer[n + 1], wr)
    BY <1>f, <2>2
  <2>4. e[n + 1] = EvaluateItem(e[n], equ[n + 1], wr)
    BY <1>e, <2>2
  <2> QED BY <1>l, <2>2, <2>3, <2>4
<1>3. Nat \subseteq S
  <2> HIDE DEF S
  <2> QED BY <1>1, <1>2, NatSetInduction
<1>4. f[L] = e[L]
  BY <1>3, <1>l
<1>5. L + 1 \in 1 .. Len(longer) /\ (L + 1) - 1 = L
  BY <1>l
<1>6. f[L + 1] = EvaluateItem(f[L], t, wr)
  BY <1>f, <1>l, <1>5
<1> QED BY <1>d, <1>l, <1>4, <1>6 DEF longer

\* Likewise for LC_ValidateRPN.
LEMMA EndDepthAppend ==
  ASSUME NEW equ \in Seq(Nat), NEW t \in Nat
  PROVE  EndDepth(Append(equ, t)) = ValidateItem(EndDepth(equ), t)
<1> DEFINE longer == Append(equ, t)
           L == Len(equ)
           e == Validation(equ)
           f == Validation(longer)
           S == {n \in Nat : n <= L => f[n] = e[n]}
<1>l. /\ L \in Nat /\ Len(longer) = L + 1 /\ Len(longer) \in Nat
      /\ longer[L + 1] = t /\ \A n \in 1 .. L : longer[n] = equ[n]
  OBVIOUS
<1> HIDE DEF longer
<1>e. e[0] = Depth("scanning", 0)
      /\ \A n \in 1 .. L : e[n] = ValidateItem(e[n - 1], equ[n])
  BY <1>l, ValidationTurns
<1>f. f[0] = Depth("scanning", 0)
      /\ \A n \in 1 .. Len(longer) : f[n] = ValidateItem(f[n - 1], longer[n])
  BY <1>l, ValidationTurns
<1>d. EndDepth(equ) = e[L] /\ EndDepth(longer) = f[Len(longer)]
  BY DEF EndDepth
<1> HIDE DEF e, f, L
<1>1. 0 \in S
  BY <1>e, <1>f
<1>2. ASSUME NEW n \in Nat, n \in S PROVE n + 1 \in S
  <2>1. SUFFICES ASSUME n + 1 <= L PROVE f[n + 1] = e[n + 1]
    BY <1>2
  <2>2. f[n] = e[n] /\ n + 1 \in 1 .. L /\ n + 1 \in 1 .. Len(longer) /\ (n + 1) - 1 = n
    BY <1>2, <1>l, <2>1
  <2>3. f[n + 1] = ValidateItem(f[n], longer[n + 1])
    BY <1>f, <2>2
  <2>4. e[n + 1] = ValidateItem(e[n], equ[n + 1])
    BY <1>e, <2>2
  <2> QED BY <1>l, <2>2, <2>3, <2>4
<1>3. Nat \subseteq S
  <2> HIDE DEF S
  <2> QED BY <1>1, <1>2, NatSetInduction
<1>4. f[L] = e[L]
  BY <1>3, <1>l
<1>5. L + 1 \in 1 .. Len(longer) /\ (L + 1) - 1 = L
  BY <1>l
<1>6. f[L + 1] = ValidateItem(f[L], t)
  BY <1>f, <1>l, <1>5
<1> QED BY <1>d, <1>l, <1>4, <1>6 DEF longer

-----------------------------------------------------------------------------
(* The meaning of an operand.                                              *)

Possibilities == {{TRUE}, {FALSE}, BOOLEAN}

\* Result r is what an expression with the possible values p is worth: the
\* value when there is one only, and a stale or error result otherwise.
Means(r, p) == /\ r \in WatchResults
               /\ p \in Possibilities
               /\ r = "TRUE" <=> p = {TRUE}
               /\ r = "FALSE" <=> p = {FALSE}

LEMMA ThreePossibilities ==
  {TRUE} # {FALSE} /\ {TRUE} # BOOLEAN /\ {FALSE} # BOOLEAN
OBVIOUS

\* The result of a watchpoint means what it says.
LEMMA WatchedMeans ==
  ASSUME NEW w \in WPs, NEW wr \in Assignments
  PROVE  Means(wr[w], Watched(w)[wr])
<1>1. wr[w] \in WatchResults
  BY DEF Assignments
<1>2. Watched(w)[wr] = CASE wr[w] = "TRUE"  -> {TRUE}
                         [] wr[w] = "FALSE" -> {FALSE}
                         [] OTHER           -> BOOLEAN
  BY DEF Watched
<1> QED BY <1>1, <1>2, ThreePossibilities DEF Means, Possibilities, WatchResults

\* RPN_NOT keeps results and meanings together.
LEMMA NotMeans ==
  ASSUME NEW r, NEW p, Means(r, p)
  PROVE  Means(ApplyNot(r), {~x : x \in p})
<1>1. CASE p = {TRUE}
  <2>1. {~x : x \in p} = {FALSE}
    BY <1>1
  <2> QED BY <1>1, <2>1, ThreePossibilities
          DEF Means, Possibilities, WatchResults, ApplyNot, Unknown, Truth
<1>2. CASE p = {FALSE}
  <2>1. {~x : x \in p} = {TRUE}
    BY <1>2
  <2> QED BY <1>2, <2>1, ThreePossibilities
          DEF Means, Possibilities, WatchResults, ApplyNot, Unknown, Truth
<1>3. CASE p = BOOLEAN
  <2>1. {~x : x \in p} = BOOLEAN
    BY <1>3
  <2> QED BY <1>3, <2>1, ThreePossibilities
          DEF Means, Possibilities, WatchResults, ApplyNot, Unknown, Truth
<1> QED BY <1>1, <1>2, <1>3 DEF Means, Possibilities

\* A set of Boolean values is one of the three unless it is empty, and which
\* one it is shows in its elements.
LEMMA Possible ==
  /\ \A s : s \in Possibilities <=> s \subseteq BOOLEAN /\ s # {}
  /\ \A s \in Possibilities : /\ TRUE \in s \/ FALSE \in s
                              /\ s = {TRUE} <=> FALSE \notin s
                              /\ s = {FALSE} <=> TRUE \notin s
                              /\ s = BOOLEAN <=> TRUE \in s /\ FALSE \in s
BY DEF Possibilities

\* The possible values j of a binary expression, by those of its operands.
JoinedFrom(op, p, q, j) ==
  /\ j \in Possibilities
  /\ op = RPN_AND => (j = {FALSE} <=> p = {FALSE} \/ q = {FALSE})
  /\ op = RPN_AND => (j = {TRUE} <=> p = {TRUE} /\ q = {TRUE})
  /\ op = RPN_OR => (j = {TRUE} <=> p = {TRUE} \/ q = {TRUE})
  /\ op = RPN_OR => (j = {FALSE} <=> p = {FALSE} /\ q = {FALSE})
  /\ op = RPN_XOR => (j = {TRUE} <=> p # BOOLEAN /\ q # BOOLEAN /\ p # q)
  /\ op = RPN_XOR => (j = {FALSE} <=> p # BOOLEAN /\ q # BOOLEAN /\ p = q)

LEMMA JoinedPossibilities ==
  ASSUME NEW op \in BinaryOperators, NEW p \in Possibilities, NEW q \in Possibilities
  PROVE  JoinedFrom(op, p, q, Values(op, p, q))
<1> DEFINE j == Values(op, p, q)
<1>1. \A x, y \in BOOLEAN :
        /\ op = RPN_AND => Value(op, x, y) = (x /\ y)
        /\ op = RPN_OR => Value(op, x, y) = (x \/ y)
        /\ op = RPN_XOR => Value(op, x, y) = (x # y)
  BY DEF Value, RPN_AND, RPN_OR, RPN_XOR
<1>2. op \in {RPN_AND, RPN_OR, RPN_XOR}
  BY DEF BinaryOperators
<1>3. p \subseteq BOOLEAN /\ q \subseteq BOOLEAN
  BY DEF Possibilities
<1>4. \A z \in j : \E x \in p, y \in q : z = Value(op, x, y)
  BY DEF Values
<1>5. \A x \in p, y \in q : Value(op, x, y) \in j
  BY DEF Values
<1> HIDE DEF j
<1>p. /\ TRUE \in p \/ FALSE \in p
      /\ p = {TRUE} <=> FALSE \notin p
      /\ p = {FALSE} <=> TRUE \notin p
      /\ p = BOOLEAN <=> TRUE \in p /\ FALSE \in p
  BY Possible
<1>q. /\ TRUE \in q \/ FALSE \in q
      /\ q = {TRUE} <=> FALSE \notin q
      /\ q = {FALSE} <=> TRUE \notin q
      /\ q = BOOLEAN <=> TRUE \in q /\ FALSE \in q
  BY Possible
<1>6. j \subseteq BOOLEAN
  BY <1>1, <1>2, <1>3, <1>4
<1>j. ASSUME TRUE \in j \/ FALSE \in j
      PROVE  /\ j \in Possibilities
             /\ j = {TRUE} <=> FALSE \notin j
             /\ j = {FALSE} <=> TRUE \notin j
  <2>1. j # {}
    BY <1>j
  <2>2. j \in Possibilities
    BY <2>1, <1>6, Possible
  <2> QED BY <2>2, Possible
<1>7. CASE op = RPN_AND
  <2>1. TRUE \in j <=> TRUE \in p /\ TRUE \in q
    BY <1>1, <1>3, <1>4, <1>5, <1>7
  <2>2. FALSE \in j <=> (FALSE \in p /\ q # {}) \/ (FALSE \in q /\ p # {})
    BY <1>1, <1>3, <1>4, <1>5, <1>7
  <2>3. TRUE \in j \/ FALSE \in j
    BY <1>p, <1>q, <2>1, <2>2
  <2>4. op # RPN_OR /\ op # RPN_XOR
    BY <1>7 DEF RPN_AND, RPN_OR, RPN_XOR
  <2> QED BY <1>p, <1>q, <1>j, <1>7, <2>1, <2>2, <2>3, <2>4 DEF j, JoinedFrom
<1>8. CASE op = RPN_OR
  <2>1. TRUE \in j <=> (TRUE \in p /\ q # {}) \/ (TRUE \in q /\ p # {})
    BY <1>1, <1>3, <1>4, <1>5, <1>8
  <2>2. FALSE \in j <=> FALSE \in p /\ FALSE \in q
    BY <1>1, <1>3, <1>4, <1>5, <1>8
  <2>3. TRUE \in j \/ FALSE \in j
    BY <1>p, <1>q, <2>1, <2>2
  <2>4. op # RPN_AND /\ op # RPN_XOR
    BY <1>8 DEF RPN_AND, RPN_OR, RPN_XOR
  <2> QED BY <1>p, <1>q, <1>j, <1>8, <2>1, <2>2, <2>3, <2>4 DEF j, JoinedFrom
<1>9. CASE op = RPN_XOR
  <2>1. TRUE \in j <=> (TRUE \in p /\ FALSE \in q) \/ (FALSE \in p /\ TRUE \in q)
    BY <1>1, <1>3, <1>4, <1>5, <1>9
  <2>2. FALSE \in j <=> (TRUE \in p /\ TRUE \in q) \/ (FALSE \in p /\ FALSE \in q)
    BY <1>1, <1>3, <1>4, <1>5, <1>9
  <2>3. TRUE \in j \/ FALSE \in j
    BY <1>p, <1>q, <2>1, <2>2
  <2>4. op # RPN_AND /\ op # RPN_OR
    BY <1>9 DEF RPN_AND, RPN_OR, RPN_XOR
  <2>5. p = q <=> (TRUE \in p <=> TRUE \in q) /\ (FALSE \in p <=> FALSE \in q)
    BY <1>p, <1>q, Possible DEF Possibilities
  <2> QED BY <2>5, <1>p, <1>q, <1>j, <1>9, <2>1, <2>2, <2>3, <2>4 DEF j, JoinedFrom
<1> QED BY <1>2, <1>7, <1>8, <1>9

\* A binary operator keeps results and meanings together.
LEMMA JoinedMeans ==
  ASSUME NEW op \in BinaryOperators, NEW r, NEW p, Means(r, p), NEW u, NEW q, Means(u, q)
  PROVE  Means(ApplyBinary(op, r, u), Values(op, p, q))
<1> DEFINE j == Values(op, p, q)
           a == ApplyBinary(op, r, u)
<1>d. p \in Possibilities /\ q \in Possibilities
  BY DEF Means
<1>1. /\ j \in Possibilities
      /\ op = RPN_AND => (j = {FALSE} <=> p = {FALSE} \/ q = {FALSE})
      /\ op = RPN_AND => (j = {TRUE} <=> p = {TRUE} /\ q = {TRUE})
      /\ op = RPN_OR => (j = {TRUE} <=> p = {TRUE} \/ q = {TRUE})
      /\ op = RPN_OR => (j = {FALSE} <=> p = {FALSE} /\ q = {FALSE})
      /\ op = RPN_XOR => (j = {TRUE} <=> p # BOOLEAN /\ q # BOOLEAN /\ p # q)
      /\ op = RPN_XOR => (j = {FALSE} <=> p # BOOLEAN /\ q # BOOLEAN /\ p = q)
  <2>1. JoinedFrom(op, p, q, j)
    BY <1>d, JoinedPossibilities
  <2> HIDE DEF j
  <2> QED BY <2>1 DEF JoinedFrom
<1> HIDE DEF j
<1>2. /\ r \in WatchResults /\ p \in Possibilities
      /\ r = "TRUE" <=> p = {TRUE}
      /\ r = "FALSE" <=> p = {FALSE}
  BY DEF Means
<1>3. /\ u \in WatchResults /\ q \in Possibilities
      /\ u = "TRUE" <=> q = {TRUE}
      /\ u = "FALSE" <=> q = {FALSE}
  BY DEF Means
<1>4. a \in WatchResults
  BY <1>2, <1>3, ResultTypes
<1>5. Unknown(r) <=> p = BOOLEAN
  BY <1>2, ThreePossibilities DEF Unknown, WatchResults, Possibilities
<1>6. Unknown(u) <=> q = BOOLEAN
  BY <1>3, ThreePossibilities DEF Unknown, WatchResults, Possibilities
<1>7. /\ op = RPN_AND => a = ApplyAnd(r, u)
      /\ op = RPN_OR => a = ApplyOr(r, u)
      /\ op = RPN_XOR => a = ApplyXor(r, u)
  BY DEF ApplyBinary, RPN_AND, RPN_OR, RPN_XOR
<1>8. /\ ApplyAnd(r, u) = "FALSE" <=> r = "FALSE" \/ u = "FALSE"
      /\ ApplyAnd(r, u) = "TRUE" <=> r = "TRUE" /\ u = "TRUE"
      /\ ApplyOr(r, u) = "TRUE" <=> r = "TRUE" \/ u = "TRUE"
      /\ ApplyOr(r, u) = "FALSE" <=> r = "FALSE" /\ u = "FALSE"
      /\ ApplyXor(r, u) = "TRUE" <=> ~Unknown(r) /\ ~Unknown(u) /\ r # u
      /\ ApplyXor(r, u) = "FALSE" <=> ~Unknown(r) /\ ~Unknown(u) /\ r = u
  BY <1>2, <1>3 DEF ApplyAnd, ApplyOr, ApplyXor, Unknown, Undecided, Truth, WatchResults
<1>9. ~Unknown(r) /\ ~Unknown(u) => (r = u <=> p = q)
  BY <1>2, <1>3, ThreePossibilities DEF Unknown, WatchResults
<1> HIDE DEF a, j
<1>10. op \in {RPN_AND, RPN_OR, RPN_XOR}
  BY DEF BinaryOperators
<1>11. a = "TRUE" <=> j = {TRUE}
  BY <1>1, <1>2, <1>3, <1>5, <1>6, <1>7, <1>8, <1>9, <1>10
<1>12. a = "FALSE" <=> j = {FALSE}
  BY <1>1, <1>2, <1>3, <1>5, <1>6, <1>7, <1>8, <1>9, <1>10
<1>13. Means(a, j)
  BY <1>1, <1>4, <1>11, <1>12 DEF Means
<1> QED BY <1>13 DEF a, j

-----------------------------------------------------------------------------
(* The stack of the machine, held against the expressions written.         *)

Expressions == [Assignments -> Possibilities]

\* The operands on stack s are worth what the expressions es mean under wr.
Stands(s, es, wr) == /\ Len(s) = Len(es)
                     /\ \A i \in 1 .. Len(es) : Means(s[i], es[i][wr])

\* The inductive invariant.  While an expression is written, the scan is at
\* the depth of its operands, and the machine, which still runs by Agree,
\* holds a result for each; once RPN_EQUAL stands behind it, the scan has
\* succeeded and the machine has ended on its one operand.
MeaningInv ==
  /\ Numbers
  /\ operands \in Seq(Expressions)
  /\ form \in {"any", "expression", "equation"}
  /\ form = "expression" =>
       /\ EndDepth(eq) = Depth("scanning", Len(operands))
       /\ \A wr \in Assignments : Stands(EndMachine(eq, wr).stack, operands, wr)
  /\ form = "equation" =>
       /\ Len(operands) = 1
       /\ EndDepth(eq).status = "good"
       /\ \A wr \in Assignments : /\ EndMachine(eq, wr).status = "done"
                                  /\ Stands(EndMachine(eq, wr).stack, operands, wr)

\* What the invariant says of a machine while an expression is written.
LEMMA RunningMachine ==
  ASSUME MeaningInv, form = "expression", NEW wr \in Assignments
  PROVE  \E s \in Seq(WatchResults) : /\ EndMachine(eq, wr) = Machine("running", s)
                                      /\ Stands(s, operands, wr)
<1> DEFINE m == EndMachine(eq, wr)
           v == EndDepth(eq)
<1>1. Agree(m, v)
  <2>1. eq \in Seq(Nat) /\ Len(eq) \in 0 .. Len(eq)
    BY DEF MeaningInv, Numbers
  <2> QED BY <2>1, AgreeThroughout DEF EndMachine, EndDepth
<1>2. v.status = "scanning" /\ Stands(m.stack, operands, wr)
  BY DEF MeaningInv, Depth
<1> HIDE DEF m, v
<1>3. m = Machine("running", m.stack) /\ m.stack \in Seq(WatchResults)
  BY <1>1, <1>2 DEF Agree, Machine
<1> QED BY <1>2, <1>3 DEF m

\* The meanings are expressions again.
LEMMA Meanings ==
  /\ \A w \in WPs : Watched(w) \in Expressions
  /\ \A e \in Expressions : Negated(e) \in Expressions
  /\ \A op \in BinaryOperators : \A l, r \in Expressions : Joined(op, l, r) \in Expressions
<1>1. ASSUME NEW w \in WPs PROVE Watched(w) \in Expressions
  <2>1. \A wr \in Assignments : Watched(w)[wr] \in Possibilities
    BY WatchedMeans DEF Means
  <2>2. Watched(w) = [wr \in Assignments |-> Watched(w)[wr]]
    BY DEF Watched
  <2> QED BY <2>1, <2>2 DEF Expressions
<1>2. ASSUME NEW e \in Expressions PROVE Negated(e) \in Expressions
  <2>1. ASSUME NEW wr \in Assignments PROVE {~x : x \in e[wr]} \in Possibilities
    <3>1. e[wr] \in Possibilities
      BY DEF Expressions
    <3>2. {~x : x \in e[wr]} \subseteq BOOLEAN /\ e[wr] # {}
      BY <3>1, Possible
    <3>3. {~x : x \in e[wr]} # {}
      BY <3>2
    <3> QED BY <3>2, <3>3, Possible
  <2> QED BY <2>1 DEF Negated, Expressions
<1>3. ASSUME NEW op \in BinaryOperators, NEW l \in Expressions, NEW r \in Expressions
      PROVE  Joined(op, l, r) \in Expressions
  <2>1. ASSUME NEW wr \in Assignments
        PROVE  Values(op, l[wr], r[wr]) \in Possibilities
    <3>1. l[wr] \in Possibilities /\ r[wr] \in Possibilities
      BY DEF Expressions
    <3> QED BY <3>1, JoinedPossibilities DEF JoinedFrom
  <2> QED BY <2>1 DEF Joined, Expressions
<1> QED BY <1>1, <1>2, <1>3

\* The machine and the scan after one item more.
LEMMA Written ==
  ASSUME MeaningInv, form = "expression", NEW t \in Nat, NEW es, Write(t, es)
  PROVE  /\ Numbers'
         /\ operands' = es
         /\ EndDepth(eq') = ValidateItem(Depth("scanning", Len(operands)), t)
         /\ \A wr \in Assignments :
              \E s \in Seq(WatchResults) :
                /\ Stands(s, operands, wr)
                /\ EndMachine(eq', wr) = EvaluateItem(Machine("running", s), t, wr)
<1>1. eq \in Seq(Nat) /\ eq' = Append(eq, t) /\ operands' = es
  BY DEF MeaningInv, Numbers, Write
<1>2. Numbers'
  BY <1>1 DEF Numbers
<1>3. EndDepth(eq') = ValidateItem(Depth("scanning", Len(operands)), t)
  BY <1>1, EndDepthAppend DEF MeaningInv
<1>4. ASSUME NEW wr \in Assignments
      PROVE  \E s \in Seq(WatchResults) :
               /\ Stands(s, operands, wr)
               /\ EndMachine(eq', wr) = EvaluateItem(Machine("running", s), t, wr)
  <2>1. PICK s \in Seq(WatchResults) : /\ EndMachine(eq, wr) = Machine("running", s)
                                       /\ Stands(s, operands, wr)
    BY RunningMachine
  <2>2. EndMachine(eq', wr) = EvaluateItem(EndMachine(eq, wr), t, wr)
    BY <1>1, EndMachineAppend
  <2> QED BY <2>1, <2>2
<1> QED BY <1>1, <1>2, <1>3, <1>4

\* A watchpoint is pushed in both.
LEMMA WatchpointStep == MeaningInv /\ WriteWatchpoint => MeaningInv'
<1> SUFFICES ASSUME MeaningInv, WriteWatchpoint PROVE MeaningInv'
  OBVIOUS
<1>1. form = "expression" /\ form' = form /\ operands \in Seq(Expressions)
  BY DEF WriteWatchpoint, MeaningInv
<1>2. PICK w \in WPs : Write(w, Append(operands, Watched(w)))
  BY DEF WriteWatchpoint
<1>3. w \in Nat
  BY NumWPAssumption DEF WPs
<1> DEFINE n == Len(operands)
           es == Append(operands, Watched(w))
<1>4. n \in Nat /\ es \in Seq(Expressions) /\ Len(es) = n + 1
      /\ es[n + 1] = Watched(w) /\ \A i \in 1 .. n : es[i] = operands[i]
  BY <1>1, Meanings
<1>5. Numbers' /\ operands' = es
  BY <1>1, <1>2, <1>3, Written
<1>6. EndDepth(eq') = Depth("scanning", n + 1)
  BY <1>1, <1>2, <1>3, <1>4, Written, Scan
<1>7. ASSUME NEW wr \in Assignments PROVE Stands(EndMachine(eq', wr).stack, es, wr)
  <2>1. PICK s \in Seq(WatchResults) :
          /\ Stands(s, operands, wr)
          /\ EndMachine(eq', wr) = EvaluateItem(Machine("running", s), w, wr)
    BY <1>1, <1>2, <1>3, Written
  <2>2. EndMachine(eq', wr) = Machine("running", Append(s, wr[w]))
    BY <1>2, <1>3, <2>1, Turn
  <2>3. EndMachine(eq', wr).stack = Append(s, wr[w])
    BY <2>2 DEF Machine
  <2>4. wr[w] \in WatchResults /\ Means(wr[w], Watched(w)[wr])
    BY <1>2, WatchedMeans DEF Assignments
  <2>5. Len(s) = n /\ \A i \in 1 .. n : Means(s[i], operands[i][wr])
    BY <2>1 DEF Stands
  <2> DEFINE u == Append(s, wr[w])
  <2>6. Len(u) = n + 1 /\ u[n + 1] = wr[w] /\ \A i \in 1 .. n : u[i] = s[i]
    BY <1>4, <2>4, <2>5
  <2> HIDE DEF u, es
  <2>7. ASSUME NEW i \in 1 .. n + 1 PROVE Means(u[i], es[i][wr])
    <3>1. CASE i \in 1 .. n
      BY <1>4, <2>5, <2>6, <3>1
    <3>2. CASE i = n + 1
      BY <1>4, <2>4, <2>6, <3>2
    <3> QED BY <1>4, <3>1, <3>2
  <2>8. Stands(u, es, wr)
    BY <1>4, <2>6, <2>7 DEF Stands
  <2> QED BY <2>3, <2>8 DEF u
<1> HIDE DEF es
<1> QED BY <1>1, <1>4, <1>5, <1>6, <1>7 DEF MeaningInv

\* RPN_NOT turns the operand on top in both.
LEMMA NotStep == MeaningInv /\ WriteNot => MeaningInv'
<1> SUFFICES ASSUME MeaningInv, WriteNot PROVE MeaningInv'
  OBVIOUS
<1> DEFINE n == Len(operands)
           es == [operands EXCEPT ![n] = Negated(operands[n])]
<1>1. form = "expression" /\ form' = form /\ operands \in Seq(Expressions)
      /\ n >= 1 /\ Write(RPN_NOT, es)
  BY DEF WriteNot, MeaningInv
<1>n. n \in Nat /\ n >= 1 /\ n \in 1 .. n /\ ~(n < 1)
  <2>1. operands \in Seq(Expressions) /\ Len(operands) >= 1
    BY <1>1
  <2> QED BY <2>1
<1>2. RPN_NOT \in Nat
  BY DEF RPN_NOT
<1>3. operands[n] \in Expressions
  BY <1>1
<1>4. n \in Nat /\ es \in Seq(Expressions) /\ Len(es) = n
      /\ es[n] = Negated(operands[n]) /\ \A i \in 1 .. n - 1 : es[i] = operands[i]
  BY <1>1, <1>3, Meanings
<1>5. Numbers' /\ operands' = es
  BY <1>1, <1>2, Written
<1>6. EndDepth(eq') = Depth("scanning", n)
  <2>1. EndDepth(eq') = ValidateItem(Depth("scanning", n), RPN_NOT)
    BY <1>1, <1>2, Written
  <2> HIDE DEF n
  <2> QED BY <1>n, <1>2, <2>1, Scan
<1>7. ASSUME NEW wr \in Assignments PROVE Stands(EndMachine(eq', wr).stack, es, wr)
  <2>1. PICK s \in Seq(WatchResults) :
          /\ Stands(s, operands, wr)
          /\ EndMachine(eq', wr) = EvaluateItem(Machine("running", s), RPN_NOT, wr)
    BY <1>1, <1>2, Written
  <2>2. Len(s) = n /\ \A i \in 1 .. n : Means(s[i], operands[i][wr])
    BY <2>1 DEF Stands
  <2> DEFINE u == Append(Front(s), ApplyNot(s[n]))
  <2>3. EndMachine(eq', wr) = Machine("running", u)
    BY <1>1, <1>2, <2>1, <2>2, Turn
  <2>4. EndMachine(eq', wr).stack = u
    BY <2>3 DEF Machine
  <2>5. Means(s[n], operands[n][wr])
    BY <1>n, <2>2
  <2>6. Means(ApplyNot(s[n]), es[n][wr])
    <3>1. Negated(operands[n])[wr] = {~x : x \in operands[n][wr]}
      BY DEF Negated
    <3>2. Means(ApplyNot(s[n]), Negated(operands[n])[wr])
      BY <2>5, <3>1, NotMeans
    <3> QED BY <1>4, <3>2
  <2>7. Front(s) \in Seq(WatchResults) /\ Len(Front(s)) = n - 1
        /\ \A i \in 1 .. n - 1 : Front(s)[i] = s[i]
    <3>1. n \in Nat /\ n >= 1 /\ Len(s) = n
      BY <1>1, <1>4, <2>2
    <3> HIDE DEF n
    <3> QED BY <3>1 DEF Front
  <2>8. Len(u) = n /\ u[n] = ApplyNot(s[n]) /\ \A i \in 1 .. n - 1 : u[i] = s[i]
    <3>1. n \in Nat /\ n >= 1
      BY <1>1, <1>4
    <3> DEFINE front == Front(s)
               r == ApplyNot(s[n])
    <3>2. front \in Seq(WatchResults) /\ Len(front) = n - 1
          /\ \A i \in 1 .. n - 1 : front[i] = s[i]
      BY <2>7
    <3> HIDE DEF n, front, r
    <3>3. Len(Append(front, r)) = n /\ Append(front, r)[n] = r
          /\ \A i \in 1 .. n - 1 : Append(front, r)[i] = s[i]
      BY <3>1, <3>2
    <3> QED BY <3>3 DEF front, r
  <2> HIDE DEF u, es
  <2>9. ASSUME NEW i \in 1 .. n PROVE Means(u[i], es[i][wr])
    <3>1. CASE i \in 1 .. n - 1
      BY <1>4, <2>2, <2>8, <3>1
    <3>2. CASE i = n
      BY <2>6, <2>8, <3>2
    <3> QED BY <1>4, <3>1, <3>2
  <2>10. Stands(u, es, wr)
    BY <1>4, <2>8, <2>9 DEF Stands
  <2> QED BY <2>4, <2>10
<1> HIDE DEF es
<1> QED BY <1>1, <1>4, <1>5, <1>6, <1>7 DEF MeaningInv

\* A binary operator joins the two operands on top in both.
LEMMA BinaryStep == MeaningInv /\ WriteBinary => MeaningInv'
<1> SUFFICES ASSUME MeaningInv, WriteBinary PROVE MeaningInv'
  OBVIOUS
<1> DEFINE n == Len(operands)
<1>1. form = "expression" /\ form' = form /\ operands \in Seq(Expressions) /\ n >= 2 /\ n \in Nat
  BY DEF WriteBinary, MeaningInv
<1>2. PICK op \in BinaryOperators :
        Write(op, Append(SubSeq(operands, 1, n - 2), Joined(op, operands[n - 1], operands[n])))
  BY DEF WriteBinary
<1>3. op \in Nat
  BY DEF BinaryOperators, RPN_AND, RPN_OR, RPN_XOR
<1> DEFINE top == Joined(op, operands[n - 1], operands[n])
           es == Append(SubSeq(operands, 1, n - 2), top)
<1>4. operands[n - 1] \in Expressions /\ operands[n] \in Expressions
  BY <1>1
<1>5. top \in Expressions
  BY <1>4, Meanings
<1>6. es \in Seq(Expressions) /\ Len(es) = n - 1
      /\ es[n - 1] = top /\ \A i \in 1 .. n - 2 : es[i] = operands[i]
  <2> HIDE DEF top, n
  <2>1. n = Len(operands)
    BY DEF n
  <2>2. SubSeq(operands, 1, n - 2) \in Seq(Expressions)
        /\ Len(SubSeq(operands, 1, n - 2)) = n - 2
        /\ \A i \in 1 .. n - 2 : SubSeq(operands, 1, n - 2)[i] = operands[i]
    BY <1>1, <2>1
  <2> QED BY <1>1, <1>5, <2>2
<1>7. Numbers' /\ operands' = es
  BY <1>1, <1>2, <1>3, Written
<1>8. EndDepth(eq') = Depth("scanning", n - 1)
  <2>1. EndDepth(eq') = ValidateItem(Depth("scanning", n), op)
    BY <1>1, <1>2, <1>3, Written
  <2> QED BY <1>1, <1>2, <1>3, <2>1, Scan
<1>9. ASSUME NEW wr \in Assignments PROVE Stands(EndMachine(eq', wr).stack, es, wr)
  <2>1. PICK s \in Seq(WatchResults) :
          /\ Stands(s, operands, wr)
          /\ EndMachine(eq', wr) = EvaluateItem(Machine("running", s), op, wr)
    BY <1>1, <1>2, <1>3, Written
  <2>2. Len(s) = n /\ \A i \in 1 .. n : Means(s[i], operands[i][wr])
    BY <2>1 DEF Stands
  <2> DEFINE r == ApplyBinary(op, s[n - 1], s[n])
             rest == SubSeq(s, 1, n - 2)
             u == Append(rest, r)
  <2>3. EndMachine(eq', wr) = Machine("running", u)
    BY <1>1, <1>2, <1>3, <2>1, <2>2, Turn
  <2>4. EndMachine(eq', wr).stack = u
    BY <2>3 DEF Machine
  <2>5. Means(s[n - 1], operands[n - 1][wr]) /\ Means(s[n], operands[n][wr])
    BY <1>1, <2>2
  <2>6. Means(r, top[wr])
    <3>1. top[wr] = Values(op, operands[n - 1][wr], operands[n][wr])
      BY DEF Joined
    <3>2. Means(r, Values(op, operands[n - 1][wr], operands[n][wr]))
      BY <1>2, <2>5, JoinedMeans
    <3> HIDE DEF r, top
    <3> QED BY <3>1, <3>2
  <2>7. Len(rest) = n - 2 /\ \A i \in 1 .. n - 2 : rest[i] = s[i]
    BY <1>1, <2>2
  <2>8. Len(u) = n - 1 /\ u[n - 1] = r /\ \A i \in 1 .. n - 2 : u[i] = s[i]
    <3>1. rest \in Seq(WatchResults)
      BY <1>1, <2>2
    <3> HIDE DEF r, rest
    <3> QED BY <1>1, <2>7, <3>1
  <2> HIDE DEF u, es, top, r
  <2>9. ASSUME NEW i \in 1 .. n - 1 PROVE Means(u[i], es[i][wr])
    <3>1. CASE i \in 1 .. n - 2
      BY <1>1, <1>6, <2>2, <2>8, <3>1
    <3>2. CASE i = n - 1
      BY <1>6, <2>6, <2>8, <3>2
    <3> QED BY <1>1, <3>1, <3>2
  <2>10. Stands(u, es, wr)
    BY <1>6, <2>8, <2>9 DEF Stands
  <2> QED BY <2>4, <2>10
<1> HIDE DEF es
<1> QED BY <1>1, <1>6, <1>7, <1>8, <1>9 DEF MeaningInv

\* RPN_EQUAL behind one operand ends both.
LEMMA EqualStep == MeaningInv /\ WriteEqual => MeaningInv'
<1> SUFFICES ASSUME MeaningInv, WriteEqual PROVE MeaningInv'
  OBVIOUS
<1>1. form = "expression" /\ form' = "equation" /\ operands \in Seq(Expressions)
      /\ Len(operands) = 1 /\ Write(RPN_EQUAL, operands)
  BY DEF WriteEqual, MeaningInv
<1>2. RPN_EQUAL \in Nat
  BY DEF RPN_EQUAL
<1>3. Numbers' /\ operands' = operands
  BY <1>1, <1>2, Written
<1>4. EndDepth(eq').status = "good"
  <2>1. EndDepth(eq') = ValidateItem(Depth("scanning", 1), RPN_EQUAL)
    BY <1>1, <1>2, Written
  <2>2. EndDepth(eq') = Depth(EndStatus(1), 1)
    BY <1>2, <2>1, Scan
  <2> QED BY <2>2 DEF Depth, EndStatus
<1>5. ASSUME NEW wr \in Assignments
      PROVE  /\ EndMachine(eq', wr).status = "done"
             /\ Stands(EndMachine(eq', wr).stack, operands, wr)
  <2>1. PICK s \in Seq(WatchResults) :
          /\ Stands(s, operands, wr)
          /\ EndMachine(eq', wr) = EvaluateItem(Machine("running", s), RPN_EQUAL, wr)
    BY <1>1, <1>2, Written
  <2>2. EndMachine(eq', wr) = Equal(s)
    BY <1>2, <2>1, Turn
  <2>3. Len(s) = 1
    BY <1>1, <2>1 DEF Stands
  <2>4. Equal(s) = Machine("done", s)
    BY <2>3 DEF Equal
  <2> QED BY <2>1, <2>2, <2>4 DEF Machine
<1> QED BY <1>1, <1>3, <1>4, <1>5 DEF MeaningInv

LEMMA MeaningsKept == Spec => []MeaningInv
<1>1. Init => MeaningInv
  <2> SUFFICES ASSUME Init PROVE MeaningInv
    OBVIOUS
  <2>1. /\ eq = <<>> /\ operands = <<>> /\ form \in {"any", "expression"}
        /\ Len(eq) = 0 /\ Len(operands) = 0 /\ eq \in Seq(Nat) /\ operands \in Seq(Expressions)
    BY DEF Init
  <2>2. EndDepth(eq) = Depth("scanning", 0)
    BY <2>1, ValidationTurns DEF EndDepth
  <2>3. ASSUME NEW wr \in Assignments PROVE Stands(EndMachine(eq, wr).stack, operands, wr)
    <3>1. EndMachine(eq, wr) = Machine("running", <<>>)
      BY <2>1, EvaluationTurns DEF EndMachine
    <3>2. EndMachine(eq, wr).stack = <<>>
      BY <3>1 DEF Machine
    <3> QED BY <2>1, <3>2 DEF Stands
  <2> QED BY <2>1, <2>2, <2>3 DEF MeaningInv, Numbers
<1>2. MeaningInv /\ [Next]_vars => MeaningInv'
  <2> SUFFICES ASSUME MeaningInv, [Next]_vars PROVE MeaningInv'
    OBVIOUS
  <2>1. CASE WriteAny
    <3>1. PICK t \in Items : Write(t, operands)
      BY <2>1 DEF WriteAny
    <3>2. t \in Nat
      BY <3>1, ItemsAssumption
    <3>3. form = "any" /\ form' = form /\ operands' = operands /\ eq' = Append(eq, t)
      BY <2>1, <3>1 DEF WriteAny, Write
    <3> QED BY <3>2, <3>3 DEF MeaningInv, Numbers
  <2>2. CASE UNCHANGED vars
    BY <2>2 DEF vars, MeaningInv, Numbers
  <2> QED BY <2>1, <2>2, WatchpointStep, NotStep, BinaryStep, EqualStep DEF Next
<1> QED BY <1>1, <1>2, PTL DEF Spec

-----------------------------------------------------------------------------
(* What LC makes of an equation that means something.                      *)

\* LC_EvaluateRPN means what the expression means, for every expression
\* written in postfix form: its actionpoint fails when it can only be true,
\* passes when it can only be false, and does neither otherwise.
THEOREM EvaluationMeansIt == Spec => []EvaluationMatchesReference
<1>1. MeaningInv => EvaluationMatchesReference
  <2> SUFFICES ASSUME MeaningInv, form = "equation", NEW wr \in Assignments
               PROVE  /\ Outcome(wr) = "FAIL" <=> operands[1][wr] = {TRUE}
                      /\ Outcome(wr) = "PASS" <=> operands[1][wr] = {FALSE}
    BY DEF EvaluationMatchesReference
  <2> DEFINE m == EndMachine(eq, wr)
  <2>1. m.status = "done" /\ Len(m.stack) = 1 /\ Means(m.stack[1], operands[1][wr])
    <3>1. /\ m.status = "done" /\ Len(operands) = 1
          /\ Stands(m.stack, operands, wr)
      BY DEF MeaningInv
    <3> HIDE DEF m
    <3>2. 1 \in 1 .. Len(operands)
      BY <3>1
    <3> QED BY <3>1, <3>2 DEF Stands
  <2>2. Outcome(wr) = Verdict(m.stack[1])
    BY <2>1 DEF Outcome, EvaluateRPN, WatchResult, Last
  <2> HIDE DEF m
  <2> QED BY <2>1, <2>2 DEF Means, Verdict, WatchResults
<1> QED BY <1>1, MeaningsKept, PTL

\* LC_ValidateRPN accepts every expression written in postfix form.
THEOREM WellFormedIsAccepted == Spec => []WellFormedAccepted
<1>1. MeaningInv => WellFormedAccepted
  BY DEF MeaningInv, WellFormedAccepted, ValidateRPN
<1> QED BY <1>1, MeaningsKept, PTL

=============================================================================
