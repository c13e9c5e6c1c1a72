----------------------------- MODULE LcEquation -----------------------------
(***************************************************************************)
(* The equation of an actionpoint as its author writes it into the         *)
(* definition table, item by item: any sequence of items at all, or an     *)
(* expression in postfix form that RPN_EQUAL ends.  An expression has a    *)
(* meaning of its own, the Boolean values it may have under each           *)
(* assignment of results to the watchpoints, and what LC_EvaluateRPN and   *)
(* LC_ValidateRPN make of the items (LcRpn) is held against it.            *)
(***************************************************************************)
EXTENDS LcRpn

CONSTANTS Items,           \* items that are written: 16 bit numbers
          MaxItems,        \* LC_MAX_RPN_EQU_SIZE
          MaxAny           \* bound on the sequences that mean nothing

ASSUME ItemsAssumption ==
  /\ \A t \in Items : t \in Nat /\ t < 65536
  /\ MaxItems \in Nat
  /\ MaxAny \in 0 .. MaxItems

VARIABLES eq,              \* the items written
          form,            \* what they are: "any" items, an "expression" so
                           \* far, or an "equation" that has come to its end
          operands         \* the meanings of the expressions that the items
                           \* are the postfix form of, one after another

vars == <<eq, form, operands>>

Assignments == [WPs -> WatchResults]

-----------------------------------------------------------------------------
(* The meaning of an expression: its possible values when a watchpoint     *)
(* that is stale or in error may be either, operands taken apart.          *)

Watched(w) == [wr \in Assignments |-> CASE wr[w] = "TRUE"  -> {TRUE}
                                        [] wr[w] = "FALSE" -> {FALSE}
                                        [] OTHER           -> BOOLEAN]

Negated(e) == [wr \in Assignments |-> {~x : x \in e[wr]}]

Value(op, x, y) == CASE op = RPN_AND -> x /\ y
                     [] op = RPN_OR  -> x \/ y
                     [] op = RPN_XOR -> x # y

Values(op, p, q) == {Value(op, x, y) : x \in p, y \in q}

Joined(op, l, r) == [wr \in Assignments |-> Values(op, l[wr], r[wr])]

-----------------------------------------------------------------------------
Init == /\ eq = <<>>
        /\ form \in {"any", "expression"}
        /\ operands = <<>>

\* Item t is written, after which the expressions written mean es.
Write(t, es) == /\ Len(eq) < MaxItems
                /\ eq' = Append(eq, t)
                /\ operands' = es

WriteAny == /\ form = "any"
            /\ Len(eq) < MaxAny
            /\ \E t \in Items : Write(t, operands)
            /\ UNCHANGED form

WriteWatchpoint ==
  /\ form = "expression"
  /\ \E w \in WPs : Write(w, Append(operands, Watched(w)))
  /\ UNCHANGED form

WriteNot == LET n == Len(operands)
            IN /\ form = "expression"
               /\ n >= 1
               /\ Write(RPN_NOT, [operands EXCEPT ![n] = Negated(operands[n])])
               /\ UNCHANGED form

WriteBinary == LET n == Len(operands)
               IN /\ form = "expression"
                  /\ n >= 2
                  /\ \E op \in BinaryOperators :
                       Write(op, Append(SubSeq(operands, 1, n - 2),
                                        Joined(op, operands[n - 1], operands[n])))
                  /\ UNCHANGED form

WriteEqual == /\ form = "expression"
              /\ Len(operands) = 1
              /\ Write(RPN_EQUAL, operands)
              /\ form' = "equation"

Next == WriteAny \/ WriteWatchpoint \/ WriteNot \/ WriteBinary \/ WriteEqual

Spec == Init /\ [][Next]_vars

-----------------------------------------------------------------------------
Outcome(wr) == EvaluateRPN(eq, wr)

\* An equation the table validation rejects never decides: however it is
\* evaluated, the actionpoint neither passes nor fails, so a table that
\* slipped past validation cannot request an RTS.
RejectedNeverDecides ==
  ~ValidateRPN(eq) => \A wr \in Assignments : Outcome(wr) \in {"STALE", "ERROR"}

\* An equation the table validation accepts is never illegal at run time:
\* when every watchpoint has a Boolean result, so does the actionpoint.
AcceptedDecides ==
  ValidateRPN(eq) => \A wr \in [WPs -> {"TRUE", "FALSE"}] :
                        Outcome(wr) \in {"PASS", "FAIL"}

\* LC_EvaluateRPN means what the expression means: the actionpoint fails
\* when the expression can only be true, passes when it can only be false,
\* and is stale or in error exactly when both remain possible.
EvaluationMatchesReference ==
  form = "equation" =>
    \A wr \in Assignments :
      /\ Outcome(wr) = "FAIL" <=> operands[1][wr] = {TRUE}
      /\ Outcome(wr) = "PASS" <=> operands[1][wr] = {FALSE}

\* LC_ValidateRPN accepts every expression written in postfix form: a table
\* builder is never refused an equation that has a meaning.
WellFormedAccepted == form = "equation" => ValidateRPN(eq)

=============================================================================
