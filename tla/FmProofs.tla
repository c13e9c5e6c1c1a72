------------------------------ MODULE FmProofs ------------------------------
(***************************************************************************)
(* Proofs about the handshake of FM's two tasks, for any queue depth, any  *)
(* commands and any names: the semaphore, the count and the places of the  *)
(* two tasks account for each other, so the child never finds the queue    *)
(* empty, the count stays within the queue, and the queue is a FIFO; and   *)
(* that a DELETE_ALL is exact, whatever other applications open and close. *)
(***************************************************************************)
EXTENDS FmTasks, SequenceTheorems, TLAPS

MainAt == {"idle", "stat", "clear", "search", "read", "verify", "fill", "count", "give"}
ChildAt == {"wait", "command", "copying", "entry", "search", "read", "remove", "retire"}

\* A command that is counted is announced by the semaphore, about to be
\* announced, or in the child's hands; while the main task is between the
\* check of the count and its own increment, there is room.
Handshake ==
  /\ count \in Nat /\ sem \in Nat
  /\ pc \in MainAt /\ cpc \in ChildAt
  /\ childSem = TRUE
  /\ count = sem + (IF pc = "give" THEN 1 ELSE 0) + (IF cpc = "wait" THEN 0 ELSE 1)
  /\ count <= Depth
  /\ pc \in {"fill", "count"} => count < Depth

mainQueueFree == <<count, sem, childSem, cpc>>
childQueueFree == <<count, sem, childSem, pc>>

LEMMA InitHandshake == Init => Handshake
  BY FmAssumption DEF Init, Handshake, MainAt, ChildAt

\* A step of a task that stays away from the queue keeps the handshake.
LEMMA MainAway ==
  ASSUME Handshake, UNCHANGED mainQueueFree,
         pc # "give", pc' \in MainAt \ {"give", "fill", "count"}
  PROVE  Handshake'
  BY DEF Handshake, mainQueueFree, MainAt

LEMMA ChildAway ==
  ASSUME Handshake, UNCHANGED childQueueFree,
         cpc \in ChildAt \ {"wait"}, cpc' \in ChildAt \ {"wait"}
  PROVE  Handshake'
  BY DEF Handshake, childQueueFree, ChildAt

LEMMA VerifiedAt ==
  ASSUME NEW state, Verified(state)
  PROVE  pc' \in {"idle", "verify", "stat"}
  BY Zenon DEF Verified

LEMMA MainKeeps == ASSUME Handshake, Main PROVE Handshake'
<1>1. CASE \E c \in Commands : Receive(c)
  <2>1. PICK c \in Commands : Receive(c)
    BY <1>1
  <2>2. pc = "idle" /\ pc' \in {"verify", "stat"} /\ UNCHANGED mainQueueFree
    BY <2>1, Zenon DEF Receive, mainQueueFree, queueVars, childVars
  <2> QED BY <2>2, MainAway DEF MainAt
<1>2. CASE Stat
  <2>1. pc = "stat" /\ UNCHANGED mainQueueFree
    BY <1>2, Zenon DEF Stat, mainQueueFree, queueVars, childVars
  <2>2. pc' \in {"clear", "idle", "verify", "stat"}
    BY <1>2, VerifiedAt DEF Stat
  <2> QED BY <2>1, <2>2, MainAway DEF MainAt
<1>3. CASE CheckOpen
  <2>1. pc \in {"clear", "search", "read"} /\ UNCHANGED mainQueueFree
    BY <1>3, Zenon DEF CheckOpen, mainQueueFree, queueVars, childVars
  <2>2. pc' \in {"search", "read", "idle", "verify", "stat"}
    BY <1>3, VerifiedAt DEF CheckOpen
  <2> QED BY <2>1, <2>2, MainAway DEF MainAt
<1>4. CASE VerifyChildTask
  <2>1. pc = "verify" /\ UNCHANGED mainQueueFree
    BY <1>4, Zenon DEF VerifyChildTask, mainQueueFree, queueVars, childVars
  <2>2. pc' = IF childSem /\ count < Depth THEN "fill" ELSE "idle"
    BY <1>4 DEF VerifyChildTask, HasRoom
  <2> QED BY <2>1, <2>2, SMT DEF Handshake, mainQueueFree, MainAt
<1>5. CASE InvokeChildTask
  <2>0. cpc' = cpc
    BY <1>5 DEF InvokeChildTask, childVars
  <2>1. CASE Fill
    <3>1. pc = "fill" /\ pc' = "count" /\ UNCHANGED <<count, sem, childSem>>
      BY <2>1 DEF Fill, After
    <3> QED BY <2>0, <3>1, SMT DEF Handshake, MainAt
  <2>2. CASE CountUp
    <3>1. /\ pc = "count" /\ pc' = "give" /\ count' = count + 1
          /\ UNCHANGED <<sem, childSem>>
      BY <2>2 DEF CountUp, After
    <3> QED BY <2>0, <3>1, FmAssumption, SMT DEF Handshake, MainAt
  <2>3. CASE Give
    <3>1. /\ pc = "give" /\ pc' = "idle" /\ sem' = IF childSem THEN sem + 1 ELSE sem
          /\ UNCHANGED <<count, childSem>>
      BY <2>3 DEF Give, After
    <3> QED BY <2>0, <3>1, SMT DEF Handshake, MainAt
  <2> QED BY <1>5, <2>1, <2>2, <2>3 DEF InvokeChildTask
<1> QED BY <1>1, <1>2, <1>3, <1>4, <1>5 DEF Main

LEMMA ChildKeeps == ASSUME Handshake, Child PROVE Handshake'
<1>1. CASE Wake
  <2>1. /\ cpc = "wait" /\ sem > 0 /\ sem' = sem - 1
        /\ count' = count /\ pc' = pc
    BY <1>1 DEF Wake, mainVars
  <2>2. count # 0
    BY <2>1, SMT DEF Handshake
  <2>3. childSem' = childSem /\ cpc' \in {"entry", "command"}
    BY <1>1, <2>2 DEF Wake
  <2> QED BY <2>1, <2>3, SMT DEF Handshake, ChildAt
<1>2. CASE Command
  <2>1. cpc = "command" /\ UNCHANGED childQueueFree
    BY <1>2, Zenon DEF Command, childQueueFree, mainVars, queueVars
  <2>2. cpc' \in {"copying", "retire"}
    BY <1>2 DEF Command, Done
  <2> QED BY <2>1, <2>2, ChildAway DEF ChildAt
<1>3. CASE Copying
  <2>1. cpc = "copying" /\ UNCHANGED childQueueFree
    BY <1>3, Zenon DEF Copying, childQueueFree, mainVars, queueVars
  <2>2. cpc' = "retire"
    BY <1>3 DEF Copying, Done
  <2> QED BY <2>1, <2>2, ChildAway DEF ChildAt
<1>4. CASE DeleteAll
  <2>1. UNCHANGED childQueueFree
    BY <1>4, Zenon DEF DeleteAll, childQueueFree, mainVars, queueVars
  <2>2. /\ cpc \in {"entry", "search", "read", "remove"}
        /\ cpc' \in {"entry", "search", "read", "remove", "retire"}
    BY <1>4 DEF DeleteAll, EndOfDirectory, Entry, SearchEntry, ReadEntry, Remove, Done
  <2> QED BY <2>1, <2>2, ChildAway DEF ChildAt
<1>5. CASE Retire
  <2>1. /\ cpc = "retire" /\ cpc' = "wait" /\ count' = count - 1
        /\ UNCHANGED <<sem, childSem, pc>>
    BY <1>5 DEF Retire, mainVars
  <2> QED BY <2>1, FmAssumption, SMT DEF Handshake, ChildAt, MainAt
<1> QED BY <1>1, <1>2, <1>3, <1>4, <1>5 DEF Child

\* The other applications touch neither the queue nor the two tasks.
queueAndTasks == <<queue, count, sem, childSem, pc, cmd, writeIndex, cpc, readIndex,
                   carriedOut>>

LEMMA OthersAway == ASSUME Others PROVE UNCHANGED queueAndTasks
<1>1. PICK n \in Shared : OtherOpens(n) \/ OtherCloses(n)
  BY DEF Others
<1>2. UNCHANGED <<mainVars, childVars, queueVars>>
  BY <1>1, Zenon DEF OtherOpens, OtherCloses, Hold
<1> QED BY <1>2 DEF queueAndTasks, mainVars, childVars, queueVars

LEMMA OthersKeep == ASSUME Handshake, Others PROVE Handshake'
  BY OthersAway DEF Handshake, queueAndTasks

LEMMA StutterKeeps == ASSUME Handshake, UNCHANGED vars PROVE Handshake'
  BY DEF Handshake, vars, queueVars, mainVars, childVars

THEOREM HandshakeHolds == Spec => []Handshake
<1>1. Handshake /\ [Next]_vars => Handshake'
  BY MainKeeps, ChildKeeps, OthersKeep, StutterKeeps DEF Next
<1> QED BY InitHandshake, <1>1, PTL DEF Spec

\* FM_ChildLoop never finds the queue empty after it got the semaphore, so it
\* never ends the child task: the count was raised before the semaphore was
\* given, and every command gives it once.
THEOREM ChildNeverEnds == Spec => []ChildSurvives
<1>1. Handshake => ChildSurvives
  BY DEF Handshake, ChildSurvives, ChildAt
<1> QED BY HandshakeHolds, <1>1, PTL

-----------------------------------------------------------------------------
(* The ring: count commands from readIndex on, the next one to be written   *)
(* right behind them, and the command that is being handed over in its      *)
(* slot before it is counted.                                               *)

Cells == Commands \cup {None}
Wrap(x) == IF x < Depth THEN x ELSE x - Depth

Ring ==
  /\ queue \in [Slots -> Cells]
  /\ readIndex \in Slots /\ writeIndex \in Slots
  /\ writeIndex = Wrap(readIndex + count + IF pc = "count" THEN 1 ELSE 0)
  /\ pc = "count" => queue[Wrap(readIndex + count)] \in Commands
  /\ pc # "idle" => cmd \in Commands

Inv == Handshake /\ Ring

LEMMA WrapIsMod ==
  ASSUME NEW x \in 0 .. 2 * Depth - 1
  PROVE  x % Depth = Wrap(x) /\ Wrap(x) \in Slots
<1>1. Depth \in Nat \ {0}
  BY FmAssumption
<1>2. CASE x < Depth
  BY <1>1, <1>2 DEF Wrap, Slots
<1>3. CASE x >= Depth
  <2>1. x \in Depth .. 2 * Depth - 1
    BY <1>1, <1>3
  <2>2. x % Depth = x - Depth
    BY <1>1, <2>1
  <2> QED BY <1>1, <2>1, <2>2 DEF Wrap, Slots
<1> QED BY <1>1, <1>2, <1>3

LEMMA InitRing == Init => Ring
<1> SUFFICES ASSUME Init PROVE Ring
  OBVIOUS
<1>1. queue \in [Slots -> Cells]
  BY DEF Init, Cells
<1>2. readIndex = 0 /\ writeIndex = 0 /\ count = 0 /\ pc = "idle"
  BY DEF Init
<1> QED BY <1>1, <1>2, FmAssumption DEF Ring, Wrap, Slots

ringFree == <<queue, count, readIndex, writeIndex>>

LEMMA RingAway ==
  ASSUME Inv, UNCHANGED ringFree, pc # "count", pc' # "count",
         pc' # "idle" => cmd' \in Commands
  PROVE  Ring'
  BY DEF Inv, Ring, ringFree, Wrap, Slots

LEMMA MainRing == ASSUME Inv, Main PROVE Ring'
<1>0. pc # "idle" => cmd \in Commands
  BY DEF Inv, Ring
<1>1. CASE \E c \in Commands : Receive(c)
  <2>1. PICK c \in Commands : Receive(c)
    BY <1>1
  <2>2. /\ pc = "idle" /\ pc' \in {"verify", "stat"} /\ cmd' = c
        /\ UNCHANGED ringFree
    BY <2>1, Zenon DEF Receive, ringFree, queueVars, childVars
  <2> QED BY <2>2, RingAway
<1>2. CASE Stat
  <2>1. pc = "stat" /\ cmd' = cmd /\ UNCHANGED ringFree
    BY <1>2, Zenon DEF Stat, ringFree, queueVars, childVars
  <2>2. pc' \in {"clear", "idle", "verify", "stat"}
    BY <1>2, VerifiedAt DEF Stat
  <2> QED BY <1>0, <2>1, <2>2, RingAway
<1>3. CASE CheckOpen
  <2>1. pc \in {"clear", "search", "read"} /\ cmd' = cmd /\ UNCHANGED ringFree
    BY <1>3, Zenon DEF CheckOpen, ringFree, queueVars, childVars
  <2>2. pc' \in {"search", "read", "idle", "verify", "stat"}
    BY <1>3, VerifiedAt DEF CheckOpen
  <2> QED BY <1>0, <2>1, <2>2, RingAway
<1>4. CASE VerifyChildTask
  <2>1. pc = "verify" /\ cmd' = cmd /\ UNCHANGED ringFree
    BY <1>4, Zenon DEF VerifyChildTask, ringFree, queueVars, childVars
  <2>2. pc' \in {"fill", "idle"}
    BY <1>4 DEF VerifyChildTask
  <2> QED BY <1>0, <2>1, <2>2, RingAway
<1>5. CASE InvokeChildTask
  <2>0. readIndex' = readIndex /\ Depth \in Nat \ {0}
    BY <1>5, FmAssumption DEF InvokeChildTask, childVars
  <2>1. CASE Fill
    <3>1. /\ pc = "fill" /\ pc' = "count" /\ cmd \in Commands
          /\ queue' = [queue EXCEPT ![writeIndex] = cmd]
          /\ writeIndex' = (writeIndex + 1) % Depth
          /\ UNCHANGED <<count, cmd>>
      BY <1>0, <2>1 DEF Fill, After
    <3>2. /\ count \in 0 .. Depth - 1 /\ readIndex \in 0 .. Depth - 1
          /\ writeIndex \in 0 .. Depth - 1 /\ writeIndex = Wrap(readIndex + count)
      BY <2>0, <3>1 DEF Inv, Handshake, Ring, Slots
    <3>3. writeIndex' = Wrap(writeIndex + 1) /\ writeIndex' \in Slots
      BY <2>0, <3>1, <3>2, WrapIsMod
    <3>4. Wrap(writeIndex + 1) = Wrap(readIndex + count + 1)
      BY <2>0, <3>2 DEF Wrap
    <3>5. queue' \in [Slots -> Cells] /\ queue'[writeIndex] = cmd
      BY <3>1, <3>2 DEF Inv, Ring, Cells, Slots
    <3> QED BY <2>0, <3>1, <3>2, <3>3, <3>4, <3>5 DEF Ring, Slots, Wrap
  <2>2. CASE CountUp
    <3>1. /\ pc = "count" /\ pc' = "give" /\ count' = count + 1 /\ cmd \in Commands
          /\ UNCHANGED <<queue, writeIndex, cmd>>
      BY <1>0, <2>2 DEF CountUp, After
    <3>2. count \in Nat /\ readIndex \in 0 .. Depth - 1
      BY DEF Inv, Handshake, Ring, Slots
    <3>3. writeIndex = Wrap(readIndex + count + 1)
      BY <3>1 DEF Inv, Ring
    <3>4. readIndex' + count' + 0 = readIndex + count + 1
      BY <2>0, <3>1, <3>2
    <3> QED BY <2>0, <3>1, <3>2, <3>3, <3>4 DEF Inv, Ring, Slots, Wrap
  <2>3. CASE Give
    <3>1. pc = "give" /\ pc' = "idle" /\ UNCHANGED ringFree
      BY <2>0, <2>3 DEF Give, After, ringFree
    <3> QED BY <3>1, RingAway
  <2> QED BY <1>5, <2>1, <2>2, <2>3 DEF InvokeChildTask
<1> QED BY <1>1, <1>2, <1>3, <1>4, <1>5 DEF Main

\* What the child does between waking and retiring leaves the ring alone.
LEMMA ChildRing == ASSUME Inv, Child PROVE Ring'
<1>0. UNCHANGED <<pc, cmd, writeIndex, queue>>
  <2>1. CASE Wake \/ Command \/ Copying \/ Retire
    BY <2>1, Zenon DEF Wake, Command, Copying, Retire, mainVars, queueVars
  <2>2. CASE DeleteAll
    BY <2>2, Zenon DEF DeleteAll, mainVars, queueVars
  <2> QED BY <2>1, <2>2 DEF Child
<1>1. CASE UNCHANGED <<count, readIndex>>
  BY <1>0, <1>1 DEF Inv, Ring, Wrap, Slots
<1>2. CASE Retire
  <2>1. /\ cpc = "retire" /\ readIndex' = (readIndex + 1) % Depth
        /\ count' = count - 1
    BY <1>2 DEF Retire
  <2>2. /\ Depth \in Nat \ {0} /\ readIndex \in 0 .. Depth - 1
        /\ count \in 1 .. Depth /\ (pc = "count" => count < Depth)
    BY <2>1, FmAssumption DEF Inv, Handshake, Ring, Slots
  <2>3. readIndex' = Wrap(readIndex + 1) /\ readIndex' \in Slots
    BY <2>1, <2>2, WrapIsMod
  <2>4. ASSUME NEW k \in 0 .. 1, k = 1 => count < Depth
        PROVE  Wrap(readIndex' + count' + k) = Wrap(readIndex + count + k)
    BY <2>1, <2>2, <2>3, <2>4 DEF Wrap
  <2>5. CASE pc = "count"
    <3>1. /\ Wrap(readIndex' + count' + 1) = Wrap(readIndex + count + 1)
          /\ Wrap(readIndex' + count' + 0) = Wrap(readIndex + count + 0)
      BY <2>2, <2>4, <2>5
    <3>2. /\ Wrap(readIndex' + count') = Wrap(readIndex + count)
      BY <3>1, <2>1, <2>2, <2>3 DEF Wrap, Slots
    <3> QED BY <1>0, <2>3, <2>5, <3>1, <3>2 DEF Inv, Ring
  <2>6. CASE pc # "count"
    <3>1. Wrap(readIndex' + count' + 0) = Wrap(readIndex + count + 0)
      BY <2>2, <2>4
    <3> QED BY <1>0, <2>3, <2>6, <3>1 DEF Inv, Ring
  <2> QED BY <2>5, <2>6
<1>3. CASE Wake \/ Command \/ Copying
  <2>1. UNCHANGED <<count, readIndex>>
    BY <1>3, Zenon DEF Wake, Command, Copying, queueVars
  <2> QED BY <1>1, <2>1
<1>4. CASE DeleteAll
  <2>1. UNCHANGED <<count, readIndex>>
    BY <1>4, Zenon DEF DeleteAll, queueVars
  <2> QED BY <1>1, <2>1
<1> QED BY <1>2, <1>3, <1>4 DEF Child

LEMMA InvHolds == Spec => []Inv
<1>1. Init => Inv
  BY InitHandshake, InitRing DEF Inv
<1>2. Inv /\ [Next]_vars => Inv'
  <2> SUFFICES ASSUME Inv, [Next]_vars PROVE Inv'
    OBVIOUS
  <2>1. Handshake'
    BY MainKeeps, ChildKeeps, OthersKeep, StutterKeeps DEF Next, Inv
  <2>2. CASE Main \/ Child
    BY <2>1, <2>2, MainRing, ChildRing DEF Inv
  <2>3. CASE UNCHANGED vars
    BY <2>1, <2>3 DEF Inv, Ring, Wrap, Slots, vars, queueVars, mainVars, childVars
  <2>4. CASE Others
    BY <2>1, <2>4, OthersAway DEF Inv, Ring, Wrap, Slots, queueAndTasks
  <2> QED BY <2>2, <2>3, <2>4 DEF Next
<1> QED BY <1>1, <1>2, PTL DEF Spec

-----------------------------------------------------------------------------
(* The ring implements the bounded FIFO of FmQueue.                         *)

Pending == IF cpc = "retire" THEN Tail(Queued) ELSE Queued

\* A function on 1 .. n is a sequence of length n.
LEMMA FunctionIsSeq ==
  ASSUME NEW S, NEW n \in Nat, NEW f \in [1 .. n -> S]
  PROVE  f \in Seq(S) /\ Len(f) = n /\ (n > 0 => f # <<>> /\ Head(f) = f[1])
<1>1. f \in Seq(S)
  BY SeqDef
<1>2. Len(f) = n
  BY <1>1
<1>3. ASSUME n > 0 PROVE f # <<>>
  BY <1>2, <1>3, EmptySeq
<1> QED BY <1>1, <1>2, <1>3

\* One more at the end is an Append, also to the tail.
LEMMA OneMore ==
  ASSUME NEW S, NEW n \in Nat, NEW q \in [1 .. n -> S], NEW r \in [1 .. n + 1 -> S],
         \A i \in 1 .. n : r[i] = q[i]
  PROVE  r = Append(q, r[n + 1]) /\ (n > 0 => Tail(r) = Append(Tail(q), r[n + 1]))
<1>1. q \in Seq(S) /\ Len(q) = n /\ (n > 0 => q # <<>>)
  BY FunctionIsSeq
<1>2. r \in Seq(S) /\ Len(r) = n + 1 /\ r # <<>> /\ r[n + 1] \in S
  BY FunctionIsSeq
<1>3. /\ Append(q, r[n + 1]) \in Seq(S) /\ Len(Append(q, r[n + 1])) = n + 1
      /\ \A i \in 1 .. n + 1 : Append(q, r[n + 1])[i] = r[i]
  BY <1>1, <1>2
<1>4. r = Append(q, r[n + 1])
  BY <1>2, <1>3, SeqEqual
<1>5. ASSUME n > 0 PROVE Tail(r) = Append(Tail(q), r[n + 1])
  <2>1. /\ Tail(q) \in Seq(S) /\ Len(Tail(q)) = n - 1
        /\ \A i \in 1 .. n - 1 : Tail(q)[i] = q[i + 1]
    BY <1>1, <1>5, HeadTailProperties
  <2>2. /\ Tail(r) \in Seq(S) /\ Len(Tail(r)) = n
        /\ \A i \in 1 .. n : Tail(r)[i] = r[i + 1]
    BY <1>2, <1>5, HeadTailProperties
  <2>3. /\ Append(Tail(q), r[n + 1]) \in Seq(S)
        /\ Len(Append(Tail(q), r[n + 1])) = n
        /\ \A i \in 1 .. n : Append(Tail(q), r[n + 1])[i]
                               = IF i = n THEN r[n + 1] ELSE Tail(q)[i]
    BY <1>2, <1>5, <2>1
  <2>4. \A i \in 1 .. n : Tail(r)[i] = Append(Tail(q), r[n + 1])[i]
    BY <2>1, <2>2, <2>3
  <2> QED BY <2>2, <2>3, <2>4, SeqEqual
<1> QED BY <1>4, <1>5

\* What is queued, without the remainder.
QueuedFacts ==
  /\ Queued \in [1 .. count -> Cells] /\ Queued \in Seq(Cells)
  /\ Len(Queued) = count
  /\ \A i \in 1 .. count : Queued[i] = queue[Wrap(readIndex + i - 1)]

LEMMA QueuedIs == Inv => QueuedFacts
<1> SUFFICES ASSUME Inv PROVE QueuedFacts
  OBVIOUS
<1>1. Depth \in Nat \ {0} /\ count \in 0 .. Depth /\ readIndex \in 0 .. Depth - 1
  BY FmAssumption DEF Inv, Handshake, Ring, Slots
<1>2. ASSUME NEW i \in 1 .. count
      PROVE  /\ Slot(i) = queue[Wrap(readIndex + i - 1)]
             /\ Slot(i) \in Cells
  <2>1. readIndex + i - 1 \in 0 .. 2 * Depth - 1
    BY <1>1
  <2> QED BY <2>1, WrapIsMod DEF Slot, Inv, Ring
<1>3. Queued \in [1 .. count -> Cells]
  BY <1>2 DEF Queued
<1> QED BY <1>1, <1>2, <1>3, FunctionIsSeq DEF Queued, QueuedFacts

LEMMA QueuedWillBe == Inv' => QueuedFacts'
  BY QueuedIs, PTL

\* Steps that move neither the ring's contents nor the child past a command.
queuedBy == <<queue, count, readIndex>>

LEMMA QueuedStays ==
  ASSUME UNCHANGED queuedBy PROVE Queued' = Queued
  BY DEF Queued, Slot, queuedBy

LEMMA PendingStays ==
  ASSUME UNCHANGED queuedBy, cpc # "retire", cpc' # "retire"
  PROVE  Pending' = Pending
  BY QueuedStays DEF Pending

\* The slot that is filled is none of those that are queued.
LEMMA FillStays ==
  ASSUME Inv, Inv', Fill, readIndex' = readIndex, cpc' = cpc
  PROVE  Pending' = Pending
<1>1. /\ count' = count /\ queue' = [queue EXCEPT ![writeIndex] = cmd]
      /\ writeIndex = Wrap(readIndex + count)
      /\ count \in 0 .. Depth - 1 /\ readIndex \in 0 .. Depth - 1
      /\ Depth \in Nat \ {0}
  BY FmAssumption DEF Fill, Inv, Handshake, Ring, Slots
<1>2. ASSUME NEW i \in 1 .. count
      PROVE  /\ Wrap(readIndex + i - 1) # writeIndex
             /\ Wrap(readIndex + i - 1) \in Slots
  BY <1>1 DEF Wrap, Slots
<1>3. \A i \in 1 .. count : Queued'[i] = Queued[i]
  BY <1>1, <1>2, QueuedIs, QueuedWillBe DEF Inv, Ring, QueuedFacts
<1>4. Queued' = Queued
  BY <1>1, <1>3, QueuedIs, QueuedWillBe, SeqEqual DEF QueuedFacts
<1> QED BY <1>4 DEF Pending

LEMMA CountUpAccepts ==
  ASSUME Inv, Inv', CountUp, readIndex' = readIndex, UNCHANGED <<cpc, carriedOut>>
  PROVE  \E c \in Commands : /\ Len(Pending) < Depth
                             /\ Pending' = Append(Pending, c)
                             /\ carriedOut' = carriedOut
<1>1. /\ count' = count + 1 /\ queue' = queue
      /\ queue[Wrap(readIndex + count)] \in Commands
      /\ count \in 0 .. Depth - 1 /\ readIndex \in 0 .. Depth - 1
      /\ Depth \in Nat \ {0} /\ (cpc = "retire" => count > 0)
  BY FmAssumption DEF CountUp, Inv, Handshake, Ring, Slots
<1>2. /\ Queued \in [1 .. count -> Cells] /\ Queued' \in [1 .. count + 1 -> Cells]
      /\ \A i \in 1 .. count : Queued'[i] = Queued[i]
      /\ Queued'[count + 1] = queue[Wrap(readIndex + count)]
  <2>1. /\ Wrap(readIndex' + (count + 1) - 1) = Wrap(readIndex + count)
        /\ count + 1 \in 1 .. count' /\ \A i \in 1 .. count : i \in 1 .. count'
    BY <1>1 DEF Wrap
  <2> QED BY <1>1, <2>1, QueuedIs, QueuedWillBe DEF QueuedFacts
<1> DEFINE c == queue[Wrap(readIndex + count)]
<1>3. /\ Queued' = Append(Queued, c)
      /\ count > 0 => Tail(Queued') = Append(Tail(Queued), c)
  BY <1>1, <1>2, OneMore
<1>4. Pending' = Append(Pending, c)
  BY <1>1, <1>3 DEF Pending
<1>5. Len(Pending) < Depth
  <2>1. Queued \in Seq(Cells) /\ Len(Queued) = count
    BY QueuedIs DEF QueuedFacts
  <2>2. count > 0 => Len(Tail(Queued)) = count - 1
    BY <1>1, <2>1, EmptySeq, HeadTailProperties
  <2> QED BY <1>1, <2>1, <2>2 DEF Pending
<1> QED BY <1>1, <1>4, <1>5

\* The command that the child has at hand is the first one pending.
LEMMA DoneCarriesOut ==
  ASSUME Inv, Done, UNCHANGED queuedBy, cpc \notin {"wait", "retire"}
  PROVE  /\ Pending # <<>> /\ Pending' = Tail(Pending)
         /\ carriedOut' = Append(carriedOut, Head(Pending))
<1>1. /\ cpc' = "retire" /\ carriedOut' = Append(carriedOut, queue[readIndex])
      /\ count \in Nat \ {0} /\ readIndex \in 0 .. Depth - 1 /\ Depth \in Nat \ {0}
  BY FmAssumption DEF Done, Current, Inv, Handshake, Ring, Slots
<1>2. Pending = Queued /\ Pending' = Tail(Queued)
  BY <1>1, QueuedStays DEF Pending
<1>3. Queued # <<>> /\ Head(Queued) = Queued[1]
  BY <1>1, QueuedIs, FunctionIsSeq DEF QueuedFacts
<1>4. Queued[1] = queue[readIndex]
  <2>1. 1 \in 1 .. count /\ Wrap(readIndex + 1 - 1) = readIndex
    BY <1>1 DEF Wrap
  <2> QED BY <2>1, QueuedIs DEF QueuedFacts
<1> QED BY <1>1, <1>2, <1>3, <1>4

\* Once retired, the next slot is the first one.
LEMMA RetireStays ==
  ASSUME Inv, Inv', Retire
  PROVE  Pending' = Pending
<1>1. /\ cpc = "retire" /\ cpc' = "wait" /\ queue' = queue
      /\ readIndex' = (readIndex + 1) % Depth /\ count' = count - 1
      /\ count \in 1 .. Depth /\ readIndex \in 0 .. Depth - 1 /\ Depth \in Nat \ {0}
  BY FmAssumption DEF Retire, Inv, Handshake, Ring, Slots
<1>2. readIndex' = Wrap(readIndex + 1)
  BY <1>1, WrapIsMod
<1>3. \A i \in 1 .. count - 1 : Wrap(readIndex' + i - 1) = Wrap(readIndex + (i + 1) - 1)
  BY <1>1, <1>2 DEF Wrap
<1>4. \A i \in 1 .. count - 1 : Queued'[i] = Queued[i + 1]
  <2> TAKE i \in 1 .. count - 1
  <2>1. i \in 1 .. count' /\ i + 1 \in 1 .. count
    BY <1>1
  <2>2. Queued'[i] = queue'[Wrap(readIndex' + i - 1)]
    BY <2>1, QueuedWillBe DEF QueuedFacts
  <2>3. Queued[i + 1] = queue[Wrap(readIndex + (i + 1) - 1)]
    BY <2>1, QueuedIs DEF QueuedFacts
  <2> QED BY <1>1, <1>3, <2>2, <2>3
<1>5. /\ Queued \in Seq(Cells) /\ Len(Queued) = count /\ Queued # <<>>
      /\ Queued' \in Seq(Cells) /\ Len(Queued') = count - 1
  BY <1>1, QueuedIs, QueuedWillBe, EmptySeq DEF QueuedFacts
<1>6. /\ Tail(Queued) \in Seq(Cells) /\ Len(Tail(Queued)) = count - 1
      /\ \A i \in 1 .. count - 1 : Tail(Queued)[i] = Queued[i + 1]
  BY <1>1, <1>5, HeadTailProperties
<1>7. \A i \in 1 .. Len(Queued') : Queued'[i] = Tail(Queued)[i]
  BY <1>4, <1>5, <1>6
<1>8. Queued' = Tail(Queued)
  BY <1>5, <1>6, <1>7, SeqEqual
<1> QED BY <1>1, <1>8 DEF Pending

promised == <<Pending, carriedOut>>

Accepts == \E c \in Commands : /\ Len(Pending) < Depth
                               /\ Pending' = Append(Pending, c)
                               /\ UNCHANGED carriedOut

CarriesOut == /\ Pending # <<>>
              /\ Pending' = Tail(Pending)
              /\ carriedOut' = Append(carriedOut, Head(Pending))

LEMMA MainImplements ==
  ASSUME Inv, Inv', Main PROVE Accepts \/ UNCHANGED promised
<1>0. UNCHANGED <<cpc, readIndex, carriedOut>>
  BY Zenon DEF Main, Receive, Stat, CheckOpen, VerifyChildTask, InvokeChildTask, childVars
<1>1. CASE UNCHANGED <<queue, count>>
  BY <1>0, <1>1, QueuedStays DEF promised, Pending, queuedBy
<1>2. CASE Fill
  BY <1>0, <1>2, FillStays DEF promised
<1>3. CASE CountUp
  BY <1>0, <1>3, CountUpAccepts DEF Accepts
<1>4. CASE Give
  <2>1. UNCHANGED <<queue, count>>
    BY <1>4 DEF Give
  <2> QED BY <1>1, <2>1
<1>5. CASE (\E c \in Commands : Receive(c)) \/ Stat \/ CheckOpen \/ VerifyChildTask
  <2>1. UNCHANGED <<queue, count>>
    BY <1>5, Zenon DEF Receive, Stat, CheckOpen, VerifyChildTask, queueVars
  <2> QED BY <1>1, <2>1
<1> QED BY <1>2, <1>3, <1>4, <1>5 DEF Main, InvokeChildTask

LEMMA ChildImplements ==
  ASSUME Inv, Inv', Child PROVE CarriesOut \/ UNCHANGED promised
<1>1. CASE Retire
  <2>1. carriedOut' = carriedOut
    BY <1>1 DEF Retire
  <2> QED BY <1>1, <2>1, RetireStays DEF promised
<1>2. ASSUME UNCHANGED queuedBy, Done, cpc \notin {"wait", "retire"}
      PROVE  CarriesOut
  BY <1>2, DoneCarriesOut DEF CarriesOut
<1>3. ASSUME UNCHANGED queuedBy, UNCHANGED carriedOut, cpc # "retire", cpc' # "retire"
      PROVE  UNCHANGED promised
  BY <1>3, PendingStays DEF promised
<1>4. CASE Wake
  <2>1. UNCHANGED queuedBy /\ UNCHANGED carriedOut /\ cpc = "wait"
    BY <1>4, Zenon DEF Wake, queuedBy
  <2>2. cpc' # "retire"
    BY <1>4 DEF Wake
  <2> QED BY <1>3, <2>1, <2>2
<1>5. CASE Command
  <2>1. UNCHANGED queuedBy /\ cpc = "command"
    BY <1>5, Zenon DEF Command, queuedBy, queueVars
  <2>2. Done \/ (cpc' = "copying" /\ carriedOut' = carriedOut)
    BY <1>5 DEF Command
  <2> QED BY <1>2, <1>3, <2>1, <2>2
<1>6. CASE Copying
  <2>1. UNCHANGED queuedBy /\ Done /\ cpc = "copying"
    BY <1>6, Zenon DEF Copying, queuedBy, queueVars
  <2> QED BY <1>2, <2>1
<1>7. CASE DeleteAll
  <2>1. UNCHANGED queuedBy
    BY <1>7, Zenon DEF DeleteAll, queuedBy, queueVars
  <2>2. CASE EndOfDirectory
    BY <1>2, <2>1, <2>2 DEF EndOfDirectory
  <2>3. CASE Entry \/ SearchEntry \/ ReadEntry \/ Remove
    <3>1. UNCHANGED carriedOut /\ cpc # "retire" /\ cpc' # "retire"
      BY <2>3 DEF Entry, SearchEntry, ReadEntry, Remove
    <3> QED BY <1>3, <2>1, <3>1
  <2> QED BY <1>7, <2>2, <2>3 DEF DeleteAll
<1> QED BY <1>1, <1>4, <1>5, <1>6, <1>7 DEF Child

\* The queue of slots, two indices, count and semaphore implements a bounded
\* FIFO, for any depth: a command is accepted when it is counted, carried out
\* when the child is done with it, each one once, whole and in the order of
\* acceptance, and no slot is written while its command is pending.
THEOREM QueueImplemented == Spec => ImplementsQueue
<1>1. Init => Promise!Init
  <2> SUFFICES ASSUME Init PROVE Promise!Init
    OBVIOUS
  <2>1. count = 0 /\ cpc = "wait" /\ carriedOut = <<>>
    BY DEF Init
  <2>2. Queued = <<>>
    <3>1. Inv
      BY InitHandshake, InitRing DEF Inv
    <3>2. Queued \in Seq(Cells) /\ Len(Queued) = 0
      BY <2>1, <3>1, QueuedIs DEF QueuedFacts
    <3> QED BY <3>2, EmptySeq
  <2> QED BY <2>1, <2>2 DEF Promise!Init
<1>2. Inv /\ Inv' /\ [Next]_vars => [Promise!Next]_(Promise!vars)
  <2> SUFFICES ASSUME Inv, Inv', [Next]_vars
               PROVE  [Promise!Next]_(Promise!vars)
    OBVIOUS
  <2>1. Accepts \/ CarriesOut \/ UNCHANGED promised
    <3>1. CASE Main \/ Child
      BY <3>1, MainImplements, ChildImplements
    <3>2. CASE Others \/ UNCHANGED vars
      <4>1. UNCHANGED <<queue, count, readIndex, cpc, carriedOut>>
        BY <3>2, OthersAway DEF queueAndTasks, vars, queueVars, childVars
      <4> QED BY <4>1, QueuedStays DEF promised, Pending, queuedBy
    <3> QED BY <3>1, <3>2 DEF Next
  <2>2. Accepts => Promise!Next
    BY DEF Accepts, Pending, Promise!Next, Promise!Accept
  <2>3. CarriesOut => Promise!Next
    BY DEF CarriesOut, Pending, Promise!Next, Promise!CarryOut
  <2>4. UNCHANGED promised => UNCHANGED Promise!vars
    BY DEF promised, Pending, Promise!vars
  <2> QED BY <2>1, <2>2, <2>3, <2>4
<1> QED BY <1>1, <1>2, InvHolds, PTL DEF Spec, ImplementsQueue, Promise!Spec


-----------------------------------------------------------------------------
(* DELETE_ALL.                                                             *)

\* While no check of one task has run in the middle of one of the other, the
\* flag tells the child about the entry at hand, and every file is known to be
\* open, unread, or the entry at hand; for the names that another application
\* opened or closed since the child looked at them, nothing is known.
DeleteInv ==
  overlapped \/
    /\ cpc = "search" => fileIsOpen = FALSE
    /\ cpc = "read" => fileIsOpen = (name \in held) \/ name \in changed
    /\ cpc = "remove" => name \notin held \/ name \in changed
    /\ cpc = "entry" => Existing \subseteq held \cup todo \cup changed
    /\ cpc \in {"search", "read", "remove"} =>
         Existing \subseteq held \cup todo \cup {name} \cup changed

FilesOK == files = [n \in Names |-> files[n]]

childFiles == <<files, held, cpc, todo, name, changed>>

LEMMA SameExisting == UNCHANGED files => UNCHANGED Existing
  BY DEF Existing

LEMMA FilesStayOK == ASSUME FilesOK, [Next]_vars PROVE FilesOK'
<1>1. UNCHANGED files \/ Command \/ Copying \/ Remove
  BY Zenon DEF Next, vars, Main, Receive, Stat, CheckOpen, VerifyChildTask, InvokeChildTask,
       Child, Wake, DeleteAll, EndOfDirectory, Entry, SearchEntry, ReadEntry, Retire, fsVars,
       Others, OtherOpens, OtherCloses, Hold
<1>2. CASE UNCHANGED files
  BY <1>2 DEF FilesOK
<1>3. CASE Command
  BY <1>3 DEF FilesOK, Command, Renamed, fsVars
<1>4. CASE Copying
  BY <1>4 DEF FilesOK, Copying
<1>5. CASE Remove
  BY <1>5 DEF FilesOK, Remove
<1> QED BY <1>1, <1>2, <1>3, <1>4, <1>5

LEMMA MainDeletes == ASSUME DeleteInv, Main PROVE DeleteInv'
<1>1. UNCHANGED childFiles
  <2>1. UNCHANGED <<files, held, cpc, todo, name>>
    BY Zenon DEF Main, Receive, Stat, CheckOpen, VerifyChildTask, InvokeChildTask,
         childVars, fsVars
  <2>2. UNCHANGED changed
    BY Zenon DEF Main, Receive, Stat, CheckOpen, VerifyChildTask, InvokeChildTask,
         flagVars, othersVars
  <2> QED BY <2>1, <2>2 DEF childFiles
<1>2. \/ UNCHANGED <<fileIsOpen, overlapped>>
      \/ overlapped' = (overlapped \/ Checking(cpc))
  BY Zenon DEF Main, Receive, Stat, CheckOpen, VerifyChildTask, InvokeChildTask, flagVars, Clear, Search
<1>3. UNCHANGED Existing
  BY <1>1, SameExisting DEF childFiles
<1>4. CASE UNCHANGED <<fileIsOpen, overlapped>>
  BY <1>1, <1>3, <1>4 DEF DeleteInv, childFiles
<1>5. CASE overlapped' = (overlapped \/ Checking(cpc))
  BY <1>1, <1>3, <1>5 DEF DeleteInv, childFiles, Checking
<1> QED BY <1>2, <1>4, <1>5

LEMMA ChildDeletes == ASSUME DeleteInv, FilesOK, Child PROVE DeleteInv'
<1>1. CASE Wake
  <2>1. UNCHANGED <<overlapped, held, changed>> /\ UNCHANGED Existing
    BY <1>1, SameExisting DEF Wake, flagVars, othersVars, fsVars
  <2>2. \/ cpc' \in {"ended", "command"}
        \/ cpc' = "entry" /\ todo' = Existing
    BY <1>1 DEF Wake
  <2> QED BY <2>1, <2>2 DEF DeleteInv
<1>2. CASE Command \/ Copying
  <2>1. cpc' \in {"retire", "copying"}
    BY <1>2, Zenon DEF Command, Copying, Done
  <2> QED BY <2>1 DEF DeleteInv
<1>3. CASE Retire
  BY <1>3 DEF Retire, DeleteInv
<1>4. CASE EndOfDirectory
  BY <1>4 DEF EndOfDirectory, Done, DeleteInv
<1>5. CASE Entry
  <2>1. /\ UNCHANGED <<held, changed>> /\ UNCHANGED Existing
        /\ cpc = "entry" /\ cpc' = "search"
    BY <1>5, SameExisting DEF Entry, fsVars, othersVars
  <2>2. todo = todo' \cup {name'} /\ fileIsOpen' = FALSE
    BY <1>5 DEF Entry, Clear
  <2>3. overlapped => overlapped'
    BY <1>5 DEF Entry, Clear
  <2> QED BY <2>1, <2>2, <2>3 DEF DeleteInv
<1>6. CASE SearchEntry
  <2>1. /\ UNCHANGED <<held, todo, name>> /\ UNCHANGED Existing
        /\ cpc = "search" /\ cpc' = "read"
    BY <1>6, SameExisting DEF SearchEntry, fsVars
  <2>2. /\ fileIsOpen' = (fileIsOpen \/ name \in held)
        /\ overlapped => overlapped'
        /\ changed \subseteq changed' \cup {name}
    BY <1>6 DEF SearchEntry, Search, Open
  <2> QED BY <2>1, <2>2 DEF DeleteInv
<1>7. CASE ReadEntry
  <2>1. /\ UNCHANGED <<held, todo, name, overlapped, changed>> /\ UNCHANGED Existing
        /\ cpc = "read"
    BY <1>7, SameExisting DEF ReadEntry, fsVars, flagVars, othersVars
  <2>2. CASE fileIsOpen
    <3>1. cpc' = "entry"
      BY <1>7, <2>2 DEF ReadEntry
    <3> QED BY <2>1, <2>2, <3>1 DEF DeleteInv
  <2>3. CASE ~ fileIsOpen
    <3>1. cpc' = "remove"
      BY <1>7, <2>3 DEF ReadEntry
    <3> QED BY <2>1, <2>3, <3>1 DEF DeleteInv
  <2> QED BY <2>2, <2>3
<1>8. CASE Remove
  <2>1. UNCHANGED <<held, overlapped, changed>> /\ cpc' = "entry" /\ todo' = Existing \ {name}
    BY <1>8 DEF Remove, flagVars, othersVars
  <2>2. Existing' \subseteq held \cup todo' \cup changed
    <3>1. cpc = "remove" /\ files' = [files EXCEPT ![name] = None]
      BY <1>8 DEF Remove
    <3>2. ASSUME NEW n \in Names, files'[n] # None PROVE files[n] # None /\ n # name
      BY <3>1, <3>2 DEF FilesOK
    <3> QED BY <2>1, <3>2 DEF Existing
  <2> QED BY <2>1, <2>2 DEF DeleteInv
<1> QED BY <1>1, <1>2, <1>3, <1>4, <1>5, <1>6, <1>7, <1>8 DEF Child, DeleteAll

LEMMA OthersDelete == ASSUME DeleteInv, Others PROVE DeleteInv'
<1>1. PICK n \in Shared : OtherOpens(n) \/ OtherCloses(n)
  BY DEF Others
<1>2. /\ UNCHANGED <<fileIsOpen, overlapped, cpc, todo, name>>
      /\ UNCHANGED files /\ changed' = changed \cup {n}
  BY <1>1, Zenon DEF OtherOpens, OtherCloses, Hold, childVars
<1>3. held' = held \cup {n} \/ held' = held \ {n}
  BY <1>1 DEF OtherOpens, OtherCloses, Hold
<1>4. UNCHANGED Existing
  BY <1>2, SameExisting
<1>5. held \cup changed \subseteq held' \cup changed'
  BY <1>2, <1>3
<1>6. name \notin changed' => name # n
  BY <1>2
<1> QED BY <1>2, <1>3, <1>4, <1>5, <1>6 DEF DeleteInv

\* A DELETE_ALL removes no file that another application holds open, and when
\* it ends has left no other, as long as FM_GetFilenameState was not run by
\* both tasks at once, and but for the files that another application opened
\* or closed after the child's last look at them: what the flag said about an
\* entry is otherwise still true when the entry is removed, and each removal
\* has the directory read anew.
THEOREM DeleteAllIsExact == Spec => DeleteAllExact
<1> DEFINE Exact ==
      /\ Remove => overlapped \/ name \notin held \/ name \in changed
      /\ EndOfDirectory => overlapped \/ Existing \subseteq held \cup changed
<1>1. Init => DeleteInv /\ FilesOK
  BY DEF Init, DeleteInv, FilesOK
<1>2. DeleteInv /\ FilesOK /\ [Next]_vars => DeleteInv' /\ FilesOK'
  <2> SUFFICES ASSUME DeleteInv, FilesOK, [Next]_vars PROVE DeleteInv'
    BY FilesStayOK
  <2>1. CASE UNCHANGED vars
    BY <2>1, SameExisting DEF vars, fsVars, flagVars, othersVars, childVars, DeleteInv
  <2> QED BY <2>1, MainDeletes, ChildDeletes, OthersDelete DEF Next
<1>3. DeleteInv /\ [Next]_vars => [Exact]_vars
  BY DEF DeleteInv, Remove, EndOfDirectory
<1> QED BY <1>1, <1>2, <1>3, PTL DEF Spec, DeleteAllExact

=============================================================================
