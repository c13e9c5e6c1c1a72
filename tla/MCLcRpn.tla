------------------------------ MODULE MCLcRpn ------------------------------
(***************************************************************************)
(* A small instance of the equations: every operator, every watchpoint,    *)
(* and an item that is neither.                                            *)
(***************************************************************************)
EXTENDS LcEquation

EveryKind == BinaryOperators \cup {RPN_NOT, RPN_EQUAL} \cup 0 .. NumWP

=============================================================================
