---------------------------- MODULE MCFdirLoop ----------------------------
(***************************************************************************)
(* A small instance of the recovery loop.                                  *)
(***************************************************************************)
EXTENDS FdirLoop

\* The ground activates LC or sets it passive, and takes actionpoint 0 off.
SomeCommands == {SetLC("ACTIVE"), SetLC("PASSIVE"), SetAP(0, "DISABLED", "GROUND")}

\* Hardly room for the two commands of an answer.
Tight == [kind \in Kinds |-> IF kind \in {"SC_CMD", "LC_CMD"} THEN 2 ELSE 1]

=============================================================================
