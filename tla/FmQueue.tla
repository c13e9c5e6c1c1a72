------------------------------ MODULE FmQueue ------------------------------
(***************************************************************************)
(* What FM promises for the commands that it accepts for its child task:   *)
(* never more than Depth are pending, and each is carried out once, whole, *)
(* in the order of acceptance.                                             *)
(***************************************************************************)
EXTENDS Naturals, Sequences

CONSTANTS Commands, Depth

VARIABLES
  pending,     \* accepted and not carried out yet
  carriedOut   \* the commands carried out, in order

vars == <<pending, carriedOut>>

Init == pending = <<>> /\ carriedOut = <<>>

Accept(c) == /\ Len(pending) < Depth
             /\ pending' = Append(pending, c)
             /\ UNCHANGED carriedOut

CarryOut == /\ pending # <<>>
            /\ pending' = Tail(pending)
            /\ carriedOut' = Append(carriedOut, Head(pending))

Next == CarryOut \/ \E c \in Commands : Accept(c)

Spec == Init /\ [][Next]_vars

\* What is pending gets carried out.
Served == \A n \in 1 .. Depth : Len(pending) >= n ~> pending = <<>>

=============================================================================
