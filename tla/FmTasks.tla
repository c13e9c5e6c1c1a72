------------------------------ MODULE FmTasks ------------------------------
(***************************************************************************)
(* The two tasks of the File Manager: the main task, which checks a        *)
(* command and puts it into the handshake queue, and the child, which      *)
(* carries commands out.  They share the queue with its count and          *)
(* semaphore, the file system, and the flag in which a check of a file     *)
(* name collects whether the file is open.  Other applications open and    *)
(* close files of the directory meanwhile.                                 *)
(***************************************************************************)
EXTENDS Integers, Sequences, FiniteSets

CONSTANTS
  Names,            \* file names, all in one directory
  Commands,         \* commands that the ground may send
  HeldOpen,         \* files that other applications hold open at first
  Shared,           \* names whose files they open and close
  Absent,           \* names without a file at first
  Depth,            \* FM_CHILD_QUEUE_DEPTH
  None,             \* what a slot or a name without a file holds
  CommandBound,     \* commands, and
  ChangeBound       \* openings and closings by others that are explored

ASSUME FmAssumption ==
  /\ HeldOpen \subseteq Names /\ Shared \subseteq Names /\ Absent \subseteq Names \ HeldOpen
  /\ None \notin Names \cup {"empty"}
  /\ Depth \in Nat \ {0} /\ CommandBound \in Nat /\ ChangeBound \in Nat

VARIABLES
  \* shared
  queue, count, sem,    \* ChildQueue, ChildQueueCount, ChildSemaphore's value
  childSem,             \* ChildSemaphore is defined
  files,                \* what is stored under each name
  held,                 \* names under which other applications have a stream
  fileIsOpen,           \* FileIsOpen
  \* the main task
  pc, cmd, checks,      \* where it is, the command, the checks still to pass
  writeIndex,
  \* the child task
  cpc, todo, name,      \* where it is; DELETE_ALL: entries unread, and at hand
  readIndex,
  \* history
  received,             \* commands received,
  carriedOut,           \* and carried out
  overlapped,           \* a check ran in the middle of one of the other task
  changes,              \* openings and closings by others, and
  changed               \* the names they were of, since the child looked at them

mainVars == <<pc, cmd, checks, writeIndex, received>>
childVars == <<cpc, todo, name, readIndex, carriedOut>>
queueVars == <<queue, count, sem, childSem>>
fsVars == <<files, held>>
othersVars == <<changes, changed>>
flagVars == <<fileIsOpen, overlapped, othersVars>>
vars == <<queueVars, fsVars, flagVars, mainVars, childVars>>

Slots == 0 .. Depth - 1
Existing == {n \in Names : files[n] # None}
Current == queue[readIndex]            \* the command the child is at

\* A copy opens its two files as well.
Open == held \cup IF cpc = "copying" THEN {Current.src, Current.tgt} ELSE {}

\* At first file n holds what is called n.
Init == /\ queue = [i \in Slots |-> None] /\ count = 0 /\ sem = 0 /\ childSem = TRUE
        /\ files = [n \in Names |-> IF n \in Absent THEN None ELSE n]
        /\ held = HeldOpen /\ fileIsOpen = FALSE
        /\ pc = "idle" /\ cmd = None /\ checks = <<>> /\ writeIndex = 0
        /\ cpc = "wait" /\ todo = {} /\ name = None /\ readIndex = 0
        /\ received = 0 /\ carriedOut = <<>> /\ overlapped = FALSE 
        /\ changes = 0 /\ changed = {}

-----------------------------------------------------------------------------
(* FM_GetFilenameState, by either task: the flag is cleared, set by the    *)
(* callback for an open stream of that name, and read, without a lock.     *)

Checking(at) == at \in {"search", "read"}

\* Fault: the flag is left as the last check left it.
FaultyClear(other) == overlapped' = (overlapped \/ Checking(other)) /\ UNCHANGED fileIsOpen

Clear(other) == /\ fileIsOpen' = FALSE
                /\ overlapped' = (overlapped \/ Checking(other))

Search(n, other) == /\ fileIsOpen' = (fileIsOpen \/ n \in Open)
                    /\ overlapped' = (overlapped \/ Checking(other))

-----------------------------------------------------------------------------
(* The main task.                                                          *)

\* FM_VerifyFileState: what each command wants its names to be.
Wanted(c) ==
  CASE c.cc = "COPY" \/ c.cc = "MOVE" ->
         <<[name |-> c.src, want |-> "EXISTS"],
           [name |-> c.tgt, want |-> IF c.overwrite THEN "NOTOPEN" ELSE "NOEXIST"]>>
    [] c.cc = "RENAME" -> <<[name |-> c.src, want |-> "EXISTS"],
                            [name |-> c.tgt, want |-> "NOEXIST"]>>
    [] c.cc = "DELETE" -> <<[name |-> c.src, want |-> "CLOSED"]>>
    [] c.cc = "DELETE_ALL" -> <<>>

Allows(want, state) ==
  CASE state = "NOT_IN_USE" -> want \in {"NOEXIST", "NOTOPEN"}
    [] state = "FILE_OPEN" -> want = "EXISTS"
    [] state = "FILE_CLOSED" -> want \in {"CLOSED", "EXISTS", "NOTOPEN"}

\* After a check of the name at hand gave a state.
Verified(state) ==
  IF ~ Allows(Head(checks).want, state)
  THEN pc' = "idle" /\ checks' = <<>>                   \* rejected
  ELSE /\ checks' = Tail(checks)
       /\ pc' = IF Tail(checks) = <<>> THEN "verify" ELSE "stat"

Receive(c) ==
  /\ pc = "idle" /\ received < CommandBound
  /\ received' = received + 1
  /\ cmd' = c /\ checks' = Wanted(c)
  /\ pc' = IF Wanted(c) = <<>> THEN "verify" ELSE "stat"
  /\ UNCHANGED <<writeIndex, queueVars, fsVars, flagVars, childVars>>

Stat ==
  /\ pc = "stat"
  /\ IF Head(checks).name \in Existing
     THEN pc' = "clear" /\ UNCHANGED checks
     ELSE Verified("NOT_IN_USE")
  /\ UNCHANGED <<cmd, writeIndex, received, queueVars, fsVars, flagVars, childVars>>

CheckOpen ==
  /\ \/ pc = "clear" /\ Clear(cpc) /\ pc' = "search" /\ UNCHANGED <<checks, othersVars>>
     \/ /\ pc = "search" /\ Search(Head(checks).name, cpc)
        /\ pc' = "read" /\ UNCHANGED <<checks, othersVars>>
     \/ /\ pc = "read"
        /\ Verified(IF fileIsOpen THEN "FILE_OPEN" ELSE "FILE_CLOSED")
        /\ UNCHANGED flagVars
  /\ UNCHANGED <<cmd, writeIndex, received, queueVars, fsVars, childVars>>

\* FM_VerifyChildTask, which reads the count without the mutex.
\* Fault: the queue is full only when the count has passed its depth.
FaultyHasRoom(n) == n <= Depth

HasRoom(n) == n < Depth

VerifyChildTask ==
  /\ pc = "verify"
  /\ pc' = IF childSem /\ HasRoom(count) THEN "fill" ELSE "idle"
  /\ UNCHANGED <<cmd, checks, writeIndex, received, queueVars, fsVars, flagVars, childVars>>

\* The command handler fills the slot, then FM_InvokeChildTask moves the
\* index, counts under the mutex and gives the semaphore.
\* Fault: the semaphore is given before the count.
FaultyAfter == [fill |-> "give", give |-> "count", count |-> "idle"]

After == [fill |-> "count", count |-> "give", give |-> "idle"]

Fill == /\ pc = "fill"
        /\ queue' = [queue EXCEPT ![writeIndex] = cmd]
        /\ writeIndex' = (writeIndex + 1) % Depth
        /\ pc' = After["fill"]
        /\ UNCHANGED <<count, sem, childSem, cmd, checks, received>>

CountUp == /\ pc = "count"
           /\ count' = count + 1
           /\ pc' = After["count"]
           /\ UNCHANGED <<queue, sem, childSem, cmd, checks, writeIndex, received>>

Give == /\ pc = "give"
        /\ sem' = IF childSem THEN sem + 1 ELSE sem
        /\ pc' = After["give"]
        /\ UNCHANGED <<queue, count, childSem, cmd, checks, writeIndex, received>>

InvokeChildTask == (Fill \/ CountUp \/ Give)
                   /\ UNCHANGED <<fsVars, flagVars, childVars>>

Main == \/ \E c \in Commands : Receive(c)
        \/ Stat \/ CheckOpen \/ VerifyChildTask \/ InvokeChildTask

-----------------------------------------------------------------------------
(* The child task.                                                         *)

\* FM_ChildLoop: the semaphore is taken and the handshake checked; an empty
\* queue ends the task and takes its semaphore away (FM_ChildTask).
Wake ==
  /\ cpc = "wait" /\ sem > 0
  /\ sem' = sem - 1
  /\ IF count = 0
     THEN cpc' = "ended" /\ childSem' = FALSE /\ UNCHANGED todo
     ELSE /\ cpc' = IF Current.cc = "DELETE_ALL" THEN "entry" ELSE "command"
          /\ todo' = IF Current.cc = "DELETE_ALL" THEN Existing ELSE {}
          /\ UNCHANGED childSem
  /\ UNCHANGED <<queue, count, name, readIndex, carriedOut, mainVars, fsVars, flagVars>>

Done == cpc' = "retire" /\ carriedOut' = Append(carriedOut, Current)

\* OS_rename: the streams of the old name are known by the new one.
Renamed(src, tgt) ==
  /\ files' = IF src = tgt THEN files
              ELSE [files EXCEPT ![src] = None, ![tgt] = files[src]]
  /\ held' = IF src \in held THEN (held \ {src}) \cup {tgt} ELSE held

\* A command whose source is gone by now fails (OS_mv then tries to copy,
\* which fails as well); a copy opens both files and truncates the target.
Command ==
  /\ cpc = "command"
  /\ LET c == Current IN
       IF c.src \notin Existing THEN Done /\ UNCHANGED fsVars
       ELSE \/ /\ c.cc = "COPY"
               /\ files' = [files EXCEPT ![c.tgt] = "empty"]
               /\ cpc' = "copying" /\ UNCHANGED <<held, carriedOut>>
            \/ c.cc \in {"MOVE", "RENAME"} /\ Renamed(c.src, c.tgt) /\ Done
            \/ /\ c.cc = "DELETE" /\ Done
               /\ files' = [files EXCEPT ![c.src] = None] /\ UNCHANGED held
  /\ UNCHANGED <<todo, name, readIndex, mainVars, queueVars, flagVars>>

Copying ==
  /\ cpc = "copying"
  /\ files' = [files EXCEPT ![Current.tgt] = files[Current.src]]
  /\ Done
  /\ UNCHANGED <<held, todo, name, readIndex, mainVars, queueVars, flagVars>>

\* FM_ChildDeleteAllFilesCmd: the entries of the directory, in any order; one
\* that is open is passed over; a removal rewinds the directory.
EndOfDirectory == /\ cpc = "entry" /\ todo = {}
                  /\ Done
                  /\ UNCHANGED <<todo, name, fsVars, flagVars>>

Entry == /\ cpc = "entry"
         /\ \E n \in todo : name' = n /\ todo' = todo \ {n}
         /\ Clear(pc) /\ cpc' = "search"
         /\ UNCHANGED <<carriedOut, fsVars, othersVars>>

SearchEntry == /\ cpc = "search"
               /\ Search(name, pc) /\ cpc' = "read"
               /\ changed' = changed \ {name}
               /\ UNCHANGED <<changes, todo, name, carriedOut, fsVars>>

ReadEntry == /\ cpc = "read"
             /\ cpc' = IF fileIsOpen THEN "entry" ELSE "remove"
             /\ UNCHANGED <<todo, name, carriedOut, fsVars, flagVars>>

Remove == /\ cpc = "remove" /\ cpc' = "entry"
          /\ files' = [files EXCEPT ![name] = None]
          /\ todo' = Existing \ {name}
          /\ UNCHANGED <<held, name, carriedOut, flagVars>>

DeleteAll == (EndOfDirectory \/ Entry \/ SearchEntry \/ ReadEntry \/ Remove)
             /\ UNCHANGED <<readIndex, mainVars, queueVars>>

\* FM_ChildProcess moves its index on and counts down under the mutex.
Retire == /\ cpc = "retire" /\ cpc' = "wait"
          /\ readIndex' = (readIndex + 1) % Depth
          /\ count' = count - 1
          /\ UNCHANGED <<queue, sem, childSem, todo, name, carriedOut, mainVars,
                         fsVars, flagVars>>

Child == Wake \/ Command \/ Copying \/ DeleteAll \/ Retire

-----------------------------------------------------------------------------
(* The other applications, which use the same file system.                 *)

Hold(names, n) ==
  /\ changes < ChangeBound /\ changes' = changes + 1
  /\ held' = names /\ changed' = changed \cup {n}
  /\ UNCHANGED <<files, fileIsOpen, overlapped, mainVars, childVars, queueVars>>

OtherOpens(n) == n \in Existing \ held /\ Hold(held \cup {n}, n)

OtherCloses(n) == n \in held /\ Hold(held \ {n}, n)

Others == \E n \in Shared : OtherOpens(n) \/ OtherCloses(n)

Next == Main \/ Child \/ Others

\* Both tasks run on; the ground owes no command, and the other applications
\* owe neither an opening nor a closing.
Fairness == /\ WF_vars(Stat \/ CheckOpen \/ VerifyChildTask \/ InvokeChildTask)
            /\ WF_vars(Child)

Spec == Init /\ [][Next]_vars /\ Fairness

-----------------------------------------------------------------------------
(* Properties.                                                             *)

\* The child never finds the queue empty, which would end it for good: the
\* semaphore never runs ahead of the count.
ChildSurvives == cpc # "ended"

Slot(i) == queue[(readIndex + i - 1) % Depth]
Queued == [i \in 1 .. count |-> Slot(i)]

Promise == INSTANCE FmQueue
             WITH pending <- IF cpc = "retire" THEN Tail(Queued) ELSE Queued

\* The queue of slots, indices, count and semaphore implements a bounded
\* FIFO: no slot is written while its command is pending or carried out.
ImplementsQueue == Promise!Spec

\* What was accepted is carried out.
EveryCommandServed == Promise!Served

\* Unless a check of the main task ran in the middle of one of its own, a
\* DELETE_ALL leaves exactly the files that are open, but for those that were
\* opened or closed between its last look at them and the removal or its end.
DeleteAllExact ==
  [][/\ Remove => overlapped \/ name \notin held \/ name \in changed
     /\ EndOfDirectory => overlapped \/ Existing \subseteq held \cup changed]_vars

\* FM2007.1: a DELETE_ALL does not delete an open file.
OpenFilesKept == [][Remove => name \notin held]_vars

=============================================================================
