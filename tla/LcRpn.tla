------------------------------- MODULE LcRpn -------------------------------
(***************************************************************************)
(* The Reverse Polish equations of the Limit Checker's actionpoints        *)
(* (apps/lc/fsw/src/lc_action.c): LC_EvaluateRPN, which turns the results  *)
(* of the watchpoints into the result of an actionpoint, and               *)
(* LC_ValidateRPN, which decides whether an Actionpoint Definition Table   *)
(* may be loaded.                                                          *)
(*                                                                         *)
(* An equation is a sequence of 16 bit items.  The table holds it in an    *)
(* array of LC_MAX_RPN_EQU_SIZE items; a sequence that ends earlier stands *)
(* for an array whose tail holds no RPN_EQUAL, which both algorithms treat *)
(* the same way: they run off the end.                                     *)
(***************************************************************************)
EXTENDS Naturals, Sequences, SequencesExt

CONSTANT NumWP             \* LC_MAX_WATCHPOINTS

ASSUME NumWPAssumption == NumWP \in Nat \ {0} /\ NumWP < 65521

WPs == 0 .. NumWP - 1

WatchResults  == {"TRUE", "FALSE", "STALE", "ERROR"}
ActionResults == {"PASS", "FAIL", "STALE", "ERROR"}

RPN_AND   == 65521
RPN_OR    == 65522
RPN_XOR   == 65523
RPN_NOT   == 65524
RPN_EQUAL == 65525

BinaryOperators == {RPN_AND, RPN_OR, RPN_XOR}

-----------------------------------------------------------------------------
(* The four-valued operators.                                              *)

\* What an operator answers when no operand decides: an error outweighs a
\* stale operand.
Undecided(a, b) == IF "ERROR" \in {a, b} THEN "ERROR" ELSE "STALE"

Unknown(a) == a \in {"ERROR", "STALE"}

Truth(b) == IF b THEN "TRUE" ELSE "FALSE"

ApplyAnd(a, b) == IF "FALSE" \in {a, b} THEN "FALSE"
                  ELSE IF Unknown(a) \/ Unknown(b) THEN Undecided(a, b)
                  ELSE "TRUE"

\* Fault: the unknown operand is looked at before the deciding one.
FaultyOr(a, b) == IF Unknown(a) \/ Unknown(b) THEN Undecided(a, b)
                  ELSE IF "TRUE" \in {a, b} THEN "TRUE" ELSE "FALSE"

ApplyOr(a, b) == IF "TRUE" \in {a, b} THEN "TRUE"
                 ELSE IF Unknown(a) \/ Unknown(b) THEN Undecided(a, b)
                 ELSE "FALSE"

ApplyXor(a, b) == IF Unknown(a) \/ Unknown(b) THEN Undecided(a, b)
                  ELSE Truth(a # b)

ApplyBinary(op, a, b) == CASE op = RPN_AND -> ApplyAnd(a, b)
                           [] op = RPN_OR  -> ApplyOr(a, b)
                           [] op = RPN_XOR -> ApplyXor(a, b)

ApplyNot(a) == IF Unknown(a) THEN a ELSE Truth(a = "FALSE")

-----------------------------------------------------------------------------
(* LC_EvaluateRPN: one pass over the equation with an operand stack.       *)
(* Popping an empty stack makes the equation illegal.                      *)

Machine(status, stack) == [status |-> status, stack |-> stack]

\* Fault: operands left over below the result go unnoticed.
FaultyEqual(s) == Machine(IF Len(s) > 0 THEN "done" ELSE "illegal", s)

\* RPN_EQUAL: an unknown operand ends the evaluation at once, a known one
\* only when it is the last.
Equal(s) ==
  Machine(IF Len(s) > 0 /\ (Unknown(Last(s)) \/ Len(s) = 1) THEN "done" ELSE "illegal", s)

\* One turn of the loop on item t, with the watchpoint results wr.
EvaluateItem(m, t, wr) ==
  LET s == m.stack
      n == Len(s)
  IN IF m.status # "running" THEN m
     ELSE IF t \in BinaryOperators THEN
            IF n < 2 THEN Machine("illegal", s)
            ELSE Machine("running", Append(SubSeq(s, 1, n - 2),
                                           ApplyBinary(t, s[n - 1], s[n])))
     ELSE IF t = RPN_NOT THEN
            IF n < 1 THEN Machine("illegal", s)
            ELSE Machine("running", Append(Front(s), ApplyNot(s[n])))
     ELSE IF t = RPN_EQUAL THEN Equal(s)
     ELSE IF t < NumWP THEN Machine("running", Append(s, wr[t]))
     ELSE Machine("illegal", s)

\* The machine after each number of turns over eq.
Evaluation(eq, wr) ==
  LET turn[n \in 0 .. Len(eq)] ==
        IF n = 0 THEN Machine("running", <<>>)
                 ELSE EvaluateItem(turn[n - 1], eq[n], wr)
  IN turn

\* The machine after the last turn.
EndMachine(eq, wr) == Evaluation(eq, wr)[Len(eq)]

\* The watch result a machine leaves behind; one that is illegal or has not
\* come to the end of its equation leaves an error.
WatchResult(m) == IF m.status = "done" THEN Last(m.stack) ELSE "ERROR"

\* An actionpoint fails when its equation is true.
Verdict(r) == CASE r = "TRUE"  -> "FAIL"
                [] r = "FALSE" -> "PASS"
                [] r = "STALE" -> "STALE"
                [] OTHER       -> "ERROR"

\* LC_EvaluateRPN: the result of the actionpoint whose equation is eq.
EvaluateRPN(eq, wr) == Verdict(WatchResult(EndMachine(eq, wr)))

-----------------------------------------------------------------------------
(* LC_ValidateRPN: one pass that only tracks the depth of the stack.       *)

Depth(status, depth) == [status |-> status, depth |-> depth]

\* Fault: RPN_NOT is taken for a binary operator.
FaultyDepthAfter(t, depth) == IF t < NumWP THEN depth + 1 ELSE depth - 1

\* The depth of the stack after an operator or a watchpoint.
DepthAfter(t, depth) == IF t < NumWP THEN depth + 1
                        ELSE IF t = RPN_NOT THEN depth ELSE depth - 1

\* Fault: more than one operand may be left at the end.
FaultyEndStatus(depth) == IF depth >= 1 THEN "good" ELSE "bad"

EndStatus(depth) == IF depth = 1 THEN "good" ELSE "bad"

\* One turn of the loop on item t; an operator without operands ends it.
ValidateItem(v, t) ==
  LET depth == DepthAfter(t, v.depth)
  IN CASE v.status # "scanning" -> v
       [] v.status = "scanning" /\ t = RPN_EQUAL -> Depth(EndStatus(v.depth), v.depth)
       [] v.status = "scanning" /\ t # RPN_EQUAL ->
            IF t \in BinaryOperators \cup {RPN_NOT} \cup WPs /\ depth > 0
            THEN Depth("scanning", depth)
            ELSE Depth("bad", v.depth)

\* What the pass knows after each number of turns over eq.
Validation(eq) ==
  LET turn[n \in 0 .. Len(eq)] ==
        IF n = 0 THEN Depth("scanning", 0)
                 ELSE ValidateItem(turn[n - 1], eq[n])
  IN turn

\* What it knows after the last turn.
EndDepth(eq) == Validation(eq)[Len(eq)]

\* LC_ValidateRPN: whether the table may hold the equation eq.
ValidateRPN(eq) == EndDepth(eq).status = "good"

=============================================================================
