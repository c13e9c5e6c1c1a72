---------------------------- MODULE MCHsMonitor ----------------------------
(***************************************************************************)
(* A small instance of Health and Safety: one monitored application.       *)
(***************************************************************************)
EXTENDS HsHistory, TLC

Watch(n, action) == [app |-> "bridge", cycles |-> n, action |-> action]
On(action) == [app |-> "bridge", id |-> "lost", action |-> action]

\* Restart the application and, while resets are left, the processor.
Escalating == <<Watch(1, "APP_RESTART"), Watch(1, "PROC_RESET")>>
Telling == <<Watch(2, "tell"), Watch(1, "EVENT")>>
Files == [kind \in Tables |->
            CASE kind = "AMT" -> Escalating
              [] kind = "EMT" -> <<On("APP_DELETE"), On("tell")>>
              [] kind = "MAT" -> "tell" :> [cooldown |-> 2, enabled |-> TRUE]]
Uploads == [kind \in Tables |-> IF kind = "AMT" THEN {Telling} ELSE {}]

AllOrNothing == {{}, Tables}

=============================================================================
