--------------------------- MODULE RearmService ---------------------------
(***************************************************************************)
(* What the recovery loop promises for each actionpoint that fires: it is  *)
(* being answered until it watches again (or the ground takes it off),     *)
(* unless a message of the loop has been lost.                             *)
(***************************************************************************)
CONSTANT AP

VARIABLES
  status,      \* per actionpoint
  lost         \* a message that an answer needs has been lost

vars == <<status, lost>>

Status == {"watching",      \* ACTIVE
           "answering",     \* fired, and the command that arms it is on its way
           "unanswered",    \* fired, and nothing is on its way
           "muted",         \* PASSIVE without having asked
           "off"}           \* DISABLED

Init == /\ status = [a \in AP |-> "watching"]
        /\ lost = FALSE

\* An answer ends by arming the actionpoint, or by the ground taking it off.
\* Only a loss leaves an actionpoint unanswered.
Step(a) ==
  \/ status'[a] = status[a]
  \/ status'[a] \in {"watching", "off"}
  \/ status[a] = "watching" /\ status'[a] \in {"answering", "muted"}
  \/ status[a] = "off" /\ status'[a] = "muted"
  \/ status[a] = "unanswered" /\ status'[a] = "answering"
  \/ status[a] \in {"watching", "answering"} /\ status'[a] = "unanswered" /\ lost'

Next == /\ status' \in [AP -> Status]
        /\ lost' \in {lost, TRUE}
        /\ \A a \in AP : Step(a)

Spec == Init /\ [][Next]_vars

\* An actionpoint that asked gets its answer, or something has been lost.
Unserved(a) == status[a] \in {"answering", "unanswered"}
Answered(a) == Unserved(a) ~> ~Unserved(a) \/ lost

=============================================================================
