----------------------------- MODULE AtsProofs -----------------------------
(***************************************************************************)
(* Proofs about the Absolute Time Processor, for any tables, any number of *)
(* commands in a sequence and of turns in a wakeup.                        *)
(***************************************************************************)
EXTENDS AtsHistory, FiniteSetTheorems, FunctionTheorems, TLAPS

-----------------------------------------------------------------------------
(* The order of the entries of an ATS, and the time index table.           *)

\* The constants are numbers.
LEMMA ConstantsAreNumbers ==
  /\ MaxCmds \in Nat /\ Horizon \in Nat /\ HalfTime \in Nat /\ MaxTime \in Nat
  /\ Horizon < HalfTime
  /\ AtsTables \subseteq Entries
BY AtsEngineAssumption

\* Within the mission, and up to the second after it, a later time is a
\* greater one: no difference is taken for a rollover.
LEMMA LaterIsGreater ==
  ASSUME NEW t \in 0 .. Horizon + 1, NEW u \in 0 .. Horizon + 1
  PROVE  Later(t, u) <=> t > u
BY ConstantsAreNumbers DEF Later

\* The entries of a table are numbered by commands and carry times.
LEMMA EntriesType ==
  ASSUME NEW e \in Entries
  PROVE  /\ DOMAIN e \subseteq CmdNums
         /\ e \in [DOMAIN e -> AtsEntry]
         /\ \A c \in DOMAIN e : e[c].time \in Times
<1>1. PICK nums \in SUBSET CmdNums : e \in [nums -> AtsEntry]
  BY DEF Entries
<1>2. DOMAIN e = nums
  BY <1>1
<1> QED BY <1>1, <1>2 DEF AtsEntry

\* A time is a number of seconds, and no time is later than itself.
LEMMA TimesAreNumbers ==
  /\ Times \subseteq 0 .. Horizon + 1
  /\ \A t \in Times : t + 1 \in 0 .. Horizon + 1
BY ConstantsAreNumbers DEF Times

\* The entries of a table are finitely many.
LEMMA FiniteEntries ==
  ASSUME NEW i, i.cmds \in Entries
  PROVE  /\ IsFiniteSet(DOMAIN i.cmds)
         /\ NumberOfCommands(i) \in Nat
         /\ \A D \in SUBSET DOMAIN i.cmds :
              /\ IsFiniteSet(D)
              /\ Cardinality(D) \in 0 .. NumberOfCommands(i)
              /\ Cardinality(D) = NumberOfCommands(i) => D = DOMAIN i.cmds
<1>1. IsFiniteSet(CmdNums)
  <2>1. MaxCmds \in Int
    BY ConstantsAreNumbers
  <2> QED BY <2>1, FS_Interval DEF CmdNums
<1>2. IsFiniteSet(DOMAIN i.cmds)
  BY <1>1, EntriesType, FS_Subset
<1>3. Cardinality(DOMAIN i.cmds) \in Nat
  BY <1>2, FS_CardinalityType
<1>4. ASSUME NEW D \in SUBSET DOMAIN i.cmds
      PROVE  /\ IsFiniteSet(D)
             /\ Cardinality(D) \in 0 .. Cardinality(DOMAIN i.cmds)
             /\ Cardinality(D) = Cardinality(DOMAIN i.cmds) => D = DOMAIN i.cmds
  <2>1. /\ IsFiniteSet(D)
        /\ Cardinality(D) <= Cardinality(DOMAIN i.cmds)
        /\ Cardinality(DOMAIN i.cmds) = Cardinality(D) => DOMAIN i.cmds = D
    BY <1>2, FS_Subset
  <2>2. Cardinality(D) \in Nat
    BY <2>1, FS_CardinalityType
  <2> QED BY <2>1, <2>2, <1>3
<1> QED BY <1>2, <1>3, <1>4 DEF NumberOfCommands

\* SC_Insert's order is by time, then by number: a strict total order.
LEMMA BeforeIsByTime ==
  ASSUME NEW i, i.cmds \in Entries, NEW c \in DOMAIN i.cmds, NEW d \in DOMAIN i.cmds
  PROVE  /\ c \in Nat /\ d \in Nat
         /\ i.cmds[c].time \in Nat /\ i.cmds[d].time \in Nat
         /\ Before(i, c, d) <=> \/ i.cmds[c].time < i.cmds[d].time
                                \/ i.cmds[c].time = i.cmds[d].time /\ c < d
<1>1. c \in CmdNums /\ d \in CmdNums /\ i.cmds[c].time \in Times /\ i.cmds[d].time \in Times
  BY EntriesType
<1>2. Later(i.cmds[d].time, i.cmds[c].time) <=> i.cmds[d].time > i.cmds[c].time
  BY <1>1, TimesAreNumbers, LaterIsGreater
<1>3. c \in Nat /\ d \in Nat
  BY <1>1 DEF CmdNums
<1>4. i.cmds[c].time \in Nat /\ i.cmds[d].time \in Nat
  BY <1>1, ConstantsAreNumbers DEF Times
<1> QED BY <1>2, <1>3, <1>4 DEF Before

\* The commands before a command.
Predecessors(i, c) == {d \in DOMAIN i.cmds : Before(i, d, c)}

LEMMA PositionType ==
  ASSUME NEW i, i.cmds \in Entries, NEW c \in DOMAIN i.cmds
  PROVE  /\ Position(i, c) = 1 + Cardinality(Predecessors(i, c))
         /\ Cardinality(Predecessors(i, c)) \in Nat
         /\ IsFiniteSet(Predecessors(i, c))
         /\ Position(i, c) \in 1 .. NumberOfCommands(i)
<1>1. Position(i, c) = 1 + Cardinality(Predecessors(i, c))
  BY DEF Position, Predecessors
<1>2. Predecessors(i, c) \in SUBSET DOMAIN i.cmds
  BY DEF Predecessors
<1>3. c \notin Predecessors(i, c)
  BY BeforeIsByTime DEF Predecessors
<1>4. /\ IsFiniteSet(Predecessors(i, c))
      /\ Cardinality(Predecessors(i, c)) \in 0 .. NumberOfCommands(i)
      /\ Cardinality(Predecessors(i, c)) # NumberOfCommands(i)
      /\ NumberOfCommands(i) \in Nat
  BY <1>2, <1>3, FiniteEntries
<1> QED BY <1>1, <1>4

\* A command that comes before another one has a lower position.
LEMMA PositionFollowsOrder ==
  ASSUME NEW i, i.cmds \in Entries, NEW c \in DOMAIN i.cmds, NEW d \in DOMAIN i.cmds,
         Before(i, c, d)
  PROVE  Position(i, c) < Position(i, d)
<1>1. Predecessors(i, c) \subseteq Predecessors(i, d)
  <2> SUFFICES ASSUME NEW x \in DOMAIN i.cmds, Before(i, x, c)
               PROVE  Before(i, x, d)
    BY DEF Predecessors
  <2> DEFINE T(y) == i.cmds[y].time
  <2>1. /\ x \in Nat /\ c \in Nat /\ d \in Nat
        /\ T(x) \in Nat /\ T(c) \in Nat /\ T(d) \in Nat
    BY BeforeIsByTime
  <2>2. T(x) < T(c) \/ (T(x) = T(c) /\ x < c)
    BY BeforeIsByTime
  <2>3. T(c) < T(d) \/ (T(c) = T(d) /\ c < d)
    BY BeforeIsByTime
  <2>4. T(x) < T(d) \/ (T(x) = T(d) /\ x < d)
    <3> HIDE DEF T
    <3> QED BY <2>1, <2>2, <2>3
  <2> QED BY <2>4, BeforeIsByTime
<1>2. c \in Predecessors(i, d) /\ c \notin Predecessors(i, c)
  BY BeforeIsByTime DEF Predecessors
<1>3. /\ Cardinality(Predecessors(i, c)) <= Cardinality(Predecessors(i, d))
      /\ Cardinality(Predecessors(i, d)) # Cardinality(Predecessors(i, c))
  BY <1>1, <1>2, PositionType, FS_Subset
<1>4. /\ Position(i, c) = 1 + Cardinality(Predecessors(i, c))
      /\ Position(i, d) = 1 + Cardinality(Predecessors(i, d))
      /\ Cardinality(Predecessors(i, c)) \in Nat
      /\ Cardinality(Predecessors(i, d)) \in Nat
  BY PositionType
<1> QED BY <1>3, <1>4

\* Positions tell the commands apart, and order them.
LEMMA PositionDecides ==
  ASSUME NEW i, i.cmds \in Entries, NEW c \in DOMAIN i.cmds, NEW d \in DOMAIN i.cmds
  PROVE  /\ Position(i, c) < Position(i, d) <=> Before(i, c, d)
         /\ Position(i, c) = Position(i, d) => c = d
<1>1. c = d \/ Before(i, c, d) \/ Before(i, d, c)
  <2> DEFINE T(y) == i.cmds[y].time
  <2>1. c \in Nat /\ d \in Nat /\ T(c) \in Nat /\ T(d) \in Nat
    BY BeforeIsByTime
  <2>2. \/ c = d
        \/ T(c) < T(d) \/ (T(c) = T(d) /\ c < d)
        \/ T(d) < T(c) \/ (T(d) = T(c) /\ d < c)
    BY <2>1
  <2> QED BY <2>2, BeforeIsByTime
<1>2. Position(i, c) \in Int /\ Position(i, d) \in Int
  BY PositionType, FiniteEntries
<1>3. Before(i, c, d) => Position(i, c) < Position(i, d)
  BY PositionFollowsOrder
<1>4. Before(i, d, c) => Position(i, d) < Position(i, c)
  BY PositionFollowsOrder
<1> QED BY <1>1, <1>2, <1>3, <1>4

\* The time index table has a command at each position: it misses none.
LEMMA TimeIndexTable ==
  ASSUME NEW i, i.cmds \in Entries, NEW k \in 1 .. NumberOfCommands(i)
  PROVE  /\ CmdAt(i, k) \in DOMAIN i.cmds
         /\ Position(i, CmdAt(i, k)) = k
<1> DEFINE N == NumberOfCommands(i)
           f == [c \in DOMAIN i.cmds |-> Position(i, c)]
<1>1. N \in Nat
  BY FiniteEntries
<1>2. f \in Injection(DOMAIN i.cmds, 1 .. N)
  <2>1. f \in [DOMAIN i.cmds -> 1 .. N]
    BY PositionType
  <2>2. \A c, d \in DOMAIN i.cmds : f[c] = f[d] => c = d
    BY PositionDecides
  <2> QED BY <2>1, <2>2, Fun_IsInj
<1>3. IsFiniteSet(1 .. N) /\ Cardinality(1 .. N) = N
  BY <1>1, FS_Interval
<1>4. f \in Surjection(DOMAIN i.cmds, 1 .. N)
  BY <1>2, <1>3, FS_Injection DEF NumberOfCommands
<1>5. \E c \in DOMAIN i.cmds : f[c] = k
  <2> HIDE DEF f
  <2>1. \A x \in 1 .. N : \E c \in DOMAIN i.cmds : f[c] = x
    BY <1>4 DEF Surjection
  <2> QED BY <2>1
<1>6. \E c \in DOMAIN i.cmds : Position(i, c) = k
  BY <1>5
<1> QED BY <1>6 DEF CmdAt

\* What a start at time t finds past comes before everything that is not.
LEMMA FirstSplits ==
  ASSUME NEW i, i.cmds \in Entries, NEW t \in 0 .. Horizon + 1
  PROVE  /\ First(i, t) \in 1 .. NumberOfCommands(i) + 1
         /\ \A c \in DOMAIN i.cmds : c \in Past(i, t) <=> i.cmds[c].time < t
         /\ \A c \in DOMAIN i.cmds \ Past(i, t) : First(i, t) <= Position(i, c)
<1>1. \A c \in DOMAIN i.cmds : c \in Past(i, t) <=> i.cmds[c].time < t
  <2> SUFFICES ASSUME NEW c \in DOMAIN i.cmds
               PROVE  Later(t, i.cmds[c].time) <=> i.cmds[c].time < t
    BY DEF Past
  <2>1. i.cmds[c].time \in 0 .. Horizon + 1
    BY EntriesType, TimesAreNumbers
  <2>2. Later(t, i.cmds[c].time) <=> t > i.cmds[c].time
    BY <2>1, LaterIsGreater
  <2> QED BY <2>1, <2>2, ConstantsAreNumbers
<1>2. Past(i, t) \in SUBSET DOMAIN i.cmds
  BY DEF Past
<1>3. /\ Cardinality(Past(i, t)) \in 0 .. NumberOfCommands(i)
      /\ NumberOfCommands(i) \in Nat
  BY <1>2, FiniteEntries
<1>4. ASSUME NEW c \in DOMAIN i.cmds \ Past(i, t)
      PROVE  First(i, t) <= Position(i, c)
  <2>1. Past(i, t) \subseteq Predecessors(i, c)
    <3> SUFFICES ASSUME NEW d \in Past(i, t)
                 PROVE  d \in DOMAIN i.cmds /\ Before(i, d, c)
      BY DEF Predecessors
    <3>1. d \in DOMAIN i.cmds
      BY <1>2
    <3>2. i.cmds[d].time < t /\ ~(i.cmds[c].time < t)
      BY <1>1, <3>1
    <3>3. i.cmds[d].time \in Nat /\ i.cmds[c].time \in Nat /\ t \in Int
      BY <3>1, BeforeIsByTime, ConstantsAreNumbers
    <3>4. i.cmds[d].time < i.cmds[c].time
      BY <3>2, <3>3
    <3> QED BY <3>1, <3>4, BeforeIsByTime
  <2>2. /\ IsFiniteSet(Predecessors(i, c))
        /\ Position(i, c) = 1 + Cardinality(Predecessors(i, c))
        /\ Cardinality(Predecessors(i, c)) \in Nat
    BY PositionType
  <2>3. Cardinality(Past(i, t)) <= Cardinality(Predecessors(i, c))
    BY <2>1, <2>2, FS_Subset
  <2> QED BY <1>3, <2>2, <2>3 DEF First
<1> QED BY <1>1, <1>3, <1>4 DEF First

-----------------------------------------------------------------------------
(* Types, and what the helpers do to a control block and to an ATS.        *)

Statuses ==
  {"EMPTY", "LOADED", "EXECUTED", "SKIPPED", "FAILED_CHECKSUM", "FAILED_DISTRIB"}

AtsBuffer == [cmds : Entries, status : [CmdNums -> Statuses], size : Int]

ControlBlock ==
  [state : {"IDLE", "EXECUTING"}, ats : ATSs \cup {NoAts},
   cmd : CmdNums \cup {NoCmd}, pos : Nat, next : Times \cup {MaxTime},
   pend : BOOLEAN]

\* Of an ATP that executes, the control block names an ATS, a command, a time.
Names(b) == b.ats \in ATSs /\ b.cmd \in CmdNums /\ b.next \in Times

BlockOK(b) == b \in ControlBlock /\ (b.state = "EXECUTING" => Names(b))

TypeOK == /\ BlockOK(atp)
          /\ ats \in [ATSs -> AtsBuffer]
          /\ append \in Entries
          /\ now \in Times

\* The copies in the control block are those of the entry it points to.
AimedRight(b, i) == /\ b.cmd \in DOMAIN i.cmds
                    /\ Position(i, b.cmd) = b.pos
                    /\ i.cmds[b.cmd].time = b.next

\* No command before the one the control block points to is to be sent.
NothingBehind(b, i) ==
  \A c \in DOMAIN i.cmds : Position(i, c) < b.pos => i.status[c] # "LOADED"

\* A table without entries is one.
LEMMA EmptyTable == <<>> \in Entries /\ DOMAIN <<>> = {}
<1>1. DOMAIN <<>> = {}
  OBVIOUS
<1>2. <<>> \in [{} -> AtsEntry]
  OBVIOUS
<1> QED BY <1>1, <1>2 DEF Entries

\* Positions depend on the entries alone.
LEMMA SameEntries ==
  ASSUME NEW i, NEW j, i.cmds = j.cmds
  PROVE  /\ NumberOfCommands(i) = NumberOfCommands(j)
         /\ \A c : Position(i, c) = Position(j, c)
         /\ \A t : Past(i, t) = Past(j, t)
         /\ \A t : First(i, t) = First(j, t)
<1>1. NumberOfCommands(i) = NumberOfCommands(j)
  BY DEF NumberOfCommands
<1>2. \A c, d : Before(i, d, c) <=> Before(j, d, c)
  BY DEF Before
<1>3. \A c : {d \in DOMAIN i.cmds : Before(i, d, c)}
               = {d \in DOMAIN j.cmds : Before(j, d, c)}
  BY <1>2
<1>4. \A c : Position(i, c) = Position(j, c)
  BY <1>3 DEF Position
<1>5. \A t : Past(i, t) = Past(j, t)
  BY DEF Past
<1>6. \A t : First(i, t) = First(j, t)
  BY <1>5 DEF First
<1> QED BY <1>1, <1>4, <1>5, <1>6

\* The mark SKIPPED changes the status of those commands alone.
LEMMA Skipping ==
  ASSUME NEW i \in AtsBuffer, NEW S
  PROVE  /\ WithSkipped(i, S) \in AtsBuffer
         /\ WithSkipped(i, S).cmds = i.cmds
         /\ \A c \in CmdNums : WithSkipped(i, S).status[c]
                                 = IF c \in S THEN "SKIPPED" ELSE i.status[c]
<1> DEFINE new == [c \in CmdNums |-> IF c \in S THEN "SKIPPED" ELSE i.status[c]]
<1>1. new \in [CmdNums -> Statuses]
  BY DEF AtsBuffer, Statuses
<1>2. WithSkipped(i, S) = [i EXCEPT !.status = new]
  BY DEF WithSkipped
<1>3. WithSkipped(i, S).status = new
  BY <1>2 DEF AtsBuffer
<1> QED BY <1>1, <1>2, <1>3 DEF AtsBuffer

\* A command's mark changes its own status alone.
LEMMA Marking ==
  ASSUME TypeOK, atp.state = "EXECUTING", NEW s \in Statuses
  PROVE  /\ Marked(s) \in [ATSs -> AtsBuffer]
         /\ \A a \in ATSs :
              /\ Marked(s)[a].cmds = ats[a].cmds
              /\ \A c \in CmdNums :
                   Marked(s)[a].status[c] =
                     IF a = atp.ats /\ c = atp.cmd THEN s ELSE ats[a].status[c]
<1>1. atp.ats \in ATSs /\ atp.cmd \in CmdNums /\ ats \in [ATSs -> AtsBuffer]
  BY DEF TypeOK, BlockOK, Names
<1> DEFINE i == ats[atp.ats]
           new == [i.status EXCEPT ![atp.cmd] = s]
<1>2. i \in AtsBuffer
  BY <1>1
<1>3. new \in [CmdNums -> Statuses]
  BY <1>1, <1>2 DEF AtsBuffer
<1>4. Marked(s) = [ats EXCEPT ![atp.ats] = [i EXCEPT !.status = new]]
  BY <1>1 DEF Marked
<1>5. [i EXCEPT !.status = new] \in AtsBuffer
  BY <1>2, <1>3 DEF AtsBuffer
<1>6. ASSUME NEW a \in ATSs
      PROVE  /\ Marked(s)[a].cmds = ats[a].cmds
             /\ \A c \in CmdNums :
                  Marked(s)[a].status[c] =
                    IF a = atp.ats /\ c = atp.cmd THEN s ELSE ats[a].status[c]
  <2>1. CASE a = atp.ats
    <3>1. Marked(s)[a] = [i EXCEPT !.status = new]
      BY <1>1, <1>4, <2>1
    <3>2. Marked(s)[a].cmds = i.cmds /\ Marked(s)[a].status = new
      BY <1>2, <3>1 DEF AtsBuffer
    <3>3. \A c \in CmdNums : new[c] = IF c = atp.cmd THEN s ELSE i.status[c]
      BY <1>1, <1>2 DEF AtsBuffer
    <3> QED BY <2>1, <3>2, <3>3
  <2>2. CASE a # atp.ats
    BY <1>1, <1>4, <2>2
  <2> QED BY <2>1, <2>2
<1> QED BY <1>1, <1>4, <1>5, <1>6

\* SC_KillAts keeps the pending switch.
LEMMA Killing ==
  ASSUME NEW b, BlockOK(b)
  PROVE  /\ BlockOK(Killed(b)) /\ Killed(b).state = "IDLE"
         /\ Killed(b).ats = b.ats /\ Killed(b).pend = b.pend
BY DEF Killed, BlockOK, ControlBlock

\* The end of an ATS cancels it.
LEMMA Ending ==
  ASSUME NEW b, BlockOK(b)
  PROVE  /\ BlockOK(Ended(b)) /\ Ended(b).state = "IDLE"
         /\ ~Ended(b).pend
<1>1. Killed(b) \in ControlBlock /\ Killed(b).state = "IDLE"
  BY Killing DEF BlockOK
<1> QED BY <1>1 DEF Ended, BlockOK, ControlBlock

\* A control block aimed at a position takes its copies from the entry there.
LEMMA Aiming ==
  ASSUME NEW b \in ControlBlock, b.ats \in ATSs, b.state = "EXECUTING",
         NEW i \in AtsBuffer, NEW k \in 1 .. NumberOfCommands(i)
  PROVE  LET n == AimedAt(b, i, k)
         IN  /\ BlockOK(n) /\ n.state = "EXECUTING" /\ n.ats = b.ats
             /\ n.pend = b.pend /\ n.pos = k
             /\ AimedRight(n, i)
<1> DEFINE c == CmdAt(i, k)
           n == AimedAt(b, i, k)
<1>1. i.cmds \in Entries
  BY DEF AtsBuffer
<1>2. c \in DOMAIN i.cmds /\ Position(i, c) = k
  BY <1>1, TimeIndexTable
<1>3. c \in CmdNums /\ i.cmds[c].time \in Times
  BY <1>1, <1>2, EntriesType
<1>4. k \in Nat
  BY <1>1, FiniteEntries
<1>5. n = [b EXCEPT !.pos = k, !.cmd = c, !.next = i.cmds[c].time]
  BY DEF AimedAt
<1>6. /\ n \in ControlBlock /\ n.state = "EXECUTING" /\ n.ats = b.ats
      /\ n.pend = b.pend /\ n.pos = k /\ n.cmd = c /\ n.next = i.cmds[c].time
  <2> HIDE DEF c, n
  <2> QED BY <1>3, <1>4, <1>5 DEF ControlBlock
<1>7. Names(n)
  <2> HIDE DEF c, n
  <2> QED BY <1>3, <1>6 DEF Names
<1>8. AimedRight(n, i)
  <2> HIDE DEF c, n
  <2> QED BY <1>2, <1>6 DEF AimedRight
<1> QED BY <1>6, <1>7, <1>8 DEF BlockOK

\* SC_BeginAts: nothing is left to do, or the control block is aimed at the
\* first command that is not past.
LEMMA Beginning ==
  ASSUME NEW b, BlockOK(b), NEW a \in ATSs, NEW i \in AtsBuffer,
         NEW t \in 0 .. Horizon + 1
  PROVE  LET n == Begun(b, a, i, t)
         IN  /\ BlockOK(n) /\ n.pend = b.pend
             /\ \/ /\ n.state = "IDLE" /\ First(i, t) > NumberOfCommands(i)
                \/ /\ n.state = "EXECUTING" /\ n.ats = a
                   /\ n.pos = First(i, t) /\ n.pos <= NumberOfCommands(i)
                   /\ AimedRight(n, i)
<1> DEFINE N == NumberOfCommands(i)
           F == First(i, t)
           m == [b EXCEPT !.ats = a, !.state = "EXECUTING"]
<1>1. i.cmds \in Entries
  BY DEF AtsBuffer
<1>2. N \in Nat /\ F \in 1 .. N + 1
  BY <1>1, FiniteEntries, FirstSplits
<1>3. CASE F > N
  BY <1>3, Killing DEF Begun
<1>4. CASE ~(F > N)
  <2>1. /\ m \in ControlBlock /\ m.ats = a /\ m.state = "EXECUTING"
        /\ m.pend = b.pend
    BY DEF ControlBlock, BlockOK
  <2>2. F \in 1 .. N
    BY <1>2, <1>4
  <2>3. Begun(b, a, i, t) = AimedAt(m, i, F)
    BY <1>4 DEF Begun
  <2>4. LET n == AimedAt(m, i, F)
        IN  /\ BlockOK(n) /\ n.state = "EXECUTING" /\ n.ats = m.ats
            /\ n.pend = m.pend /\ n.pos = F
            /\ AimedRight(n, i)
    <3> HIDE DEF m, F, N
    <3> QED BY <2>1, <2>2, Aiming DEF N
  <2> QED BY <2>1, <2>2, <2>3, <2>4
<1> QED BY <1>3, <1>4

\* SC_GetNextAtsCommand: the next position, or the end.
LEMMA Advancing ==
  ASSUME NEW b, BlockOK(b), b.state = "EXECUTING", ats \in [ATSs -> AtsBuffer]
  PROVE  LET n == Advanced(b)
         IN  /\ BlockOK(n)
             /\ \/ n.state = "IDLE" /\ ~n.pend
                \/ /\ n.state = "EXECUTING" /\ n.ats = b.ats
                   /\ n.pend = b.pend /\ n.pos = b.pos + 1
                   /\ AimedRight(n, ats[b.ats])
<1>1. b \in ControlBlock /\ b.ats \in ATSs /\ b.pos \in Nat /\ ats[b.ats] \in AtsBuffer
  BY DEF BlockOK, Names, ControlBlock
<1>2. CASE b.pos + 1 <= NumberOfCommands(ats[b.ats])
  <2>1. b.pos + 1 \in 1 .. NumberOfCommands(ats[b.ats])
    <3>1. NumberOfCommands(ats[b.ats]) \in Nat
      BY <1>1, FiniteEntries DEF AtsBuffer
    <3> QED BY <1>1, <1>2, <3>1
  <2>2. Advanced(b) = AimedAt(b, ats[b.ats], b.pos + 1)
    BY <1>2 DEF Advanced
  <2> QED BY <1>1, <2>1, <2>2, Aiming
<1>3. CASE ~(b.pos + 1 <= NumberOfCommands(ats[b.ats]))
  BY <1>3, Ending DEF Advanced
<1> QED BY <1>2, <1>3

-----------------------------------------------------------------------------
(* What the steps do to the control block and to the two sequences.        *)

\* The entries stay, and no command that was done is to be sent again.
NothingRevived ==
  \A a \in ATSs :
    /\ ats'[a].cmds = ats[a].cmds
    /\ \A c \in CmdNums :
         ats'[a].status[c] = "LOADED" => ats[a].status[c] = "LOADED"

\* The ATP is aimed anew, and leaves nothing behind.
Restarts == /\ atp'.state = "EXECUTING"
            /\ AimedRight(atp', ats'[atp'.ats])
            /\ NothingBehind(atp', ats'[atp'.ats])

\* The ATP is done with its command and goes on with the next.
Advances == /\ atp.state = "EXECUTING" /\ atp'.state = "EXECUTING"
            /\ atp'.ats = atp.ats /\ atp'.pos = atp.pos + 1
            /\ AimedRight(atp', ats[atp.ats])
            /\ ats'[atp.ats].status[atp.cmd] # "LOADED"

Stops == atp'.state = "IDLE"

\* The ATP stays where it is.
StaysPut == /\ atp'.state = atp.state /\ atp'.ats = atp.ats /\ atp'.cmd = atp.cmd
            /\ atp'.pos = atp.pos /\ atp'.next = atp.next

\* A start at time t leaves no command to be sent behind, as long as those
\* that are past are skipped.
LEMMA SkippedIsNotBehind ==
  ASSUME NEW i \in AtsBuffer, NEW t \in 0 .. Horizon + 1, NEW S, NEW b,
         AimedRight(b, i), b.pos = First(i, t),
         \A c \in Past(i, t) : i.status[c] = "LOADED" => c \in S
  PROVE  AimedRight(b, WithSkipped(i, S)) /\ NothingBehind(b, WithSkipped(i, S))
<1> DEFINE j == WithSkipped(i, S)
<1>1. /\ j \in AtsBuffer /\ j.cmds = i.cmds
      /\ \A c \in CmdNums : j.status[c] = IF c \in S THEN "SKIPPED" ELSE i.status[c]
  BY Skipping
<1>2. \A c : Position(j, c) = Position(i, c)
  BY <1>1, SameEntries
<1>3. AimedRight(b, j)
  <2> HIDE DEF j
  <2> QED BY <1>1, <1>2 DEF AimedRight
<1>4. ASSUME NEW c \in DOMAIN j.cmds, Position(j, c) < b.pos
      PROVE  j.status[c] # "LOADED"
  <2>1. i.cmds \in Entries
    BY DEF AtsBuffer
  <2>2. c \in DOMAIN i.cmds /\ c \in CmdNums
    <3> HIDE DEF j
    <3> QED BY <1>1, <1>4, <2>1, EntriesType
  <2>3. Position(i, c) < First(i, t)
    <3> HIDE DEF j
    <3> QED BY <1>2, <1>4
  <2>4. Position(i, c) \in Int /\ First(i, t) \in Int
    BY <2>1, <2>2, PositionType, FirstSplits, FiniteEntries
  <2>5. c \in Past(i, t)
    BY <2>1, <2>2, <2>3, <2>4, FirstSplits
  <2> HIDE DEF j
  <2> QED BY <1>1, <2>2, <2>5
<1>5. NothingBehind(b, j)
  <2> HIDE DEF j
  <2> QED BY <1>4 DEF NothingBehind
<1> QED BY <1>3, <1>5

\* SC_BeginAts with its marks.
LEMMA Starting ==
  ASSUME NEW b, BlockOK(b), NEW a \in ATSs, NEW i \in AtsBuffer,
         NEW t \in 0 .. Horizon + 1
  PROVE  LET n == Begun(b, a, i, t)
             j == WithSkipped(i, Past(i, t))
         IN  /\ BlockOK(n) /\ n.pend = b.pend
             /\ j \in AtsBuffer /\ j.cmds = i.cmds
             /\ \A c \in CmdNums : j.status[c] = "LOADED" => i.status[c] = "LOADED"
             /\ \/ n.state = "IDLE"
                \/ /\ n.state = "EXECUTING" /\ n.ats = a
                   /\ AimedRight(n, j) /\ NothingBehind(n, j)
<1> DEFINE n == Begun(b, a, i, t)
           j == WithSkipped(i, Past(i, t))
<1>1. /\ BlockOK(n) /\ n.pend = b.pend
      /\ \/ n.state = "IDLE"
         \/ /\ n.state = "EXECUTING" /\ n.ats = a
            /\ n.pos = First(i, t) /\ AimedRight(n, i)
  BY Beginning
<1>2. /\ j \in AtsBuffer /\ j.cmds = i.cmds
      /\ \A c \in CmdNums : j.status[c] = IF c \in Past(i, t) THEN "SKIPPED"
                                                             ELSE i.status[c]
  BY Skipping
<1>3. ASSUME n.state = "EXECUTING", n.ats = a, n.pos = First(i, t), AimedRight(n, i)
      PROVE  AimedRight(n, j) /\ NothingBehind(n, j)
  <2> HIDE DEF n
  <2> QED BY <1>3, SkippedIsNotBehind
<1>4. \A c \in CmdNums : j.status[c] = "LOADED" => i.status[c] = "LOADED"
  <2> HIDE DEF j
  <2> QED BY <1>2
<1> HIDE DEF n, j
<1>5. \/ n.state = "IDLE"
      \/ /\ n.state = "EXECUTING" /\ n.ats = a
         /\ AimedRight(n, j) /\ NothingBehind(n, j)
  BY <1>1, <1>3
<1>6. /\ BlockOK(n) /\ n.pend = b.pend
      /\ j \in AtsBuffer /\ j.cmds = i.cmds
      /\ \A c \in CmdNums : j.status[c] = "LOADED" => i.status[c] = "LOADED"
      /\ \/ n.state = "IDLE"
         \/ /\ n.state = "EXECUTING" /\ n.ats = a
            /\ AimedRight(n, j) /\ NothingBehind(n, j)
  BY <1>1, <1>2, <1>4, <1>5
<1> QED BY <1>6 DEF n, j

LEMMA StartEffect ==
  ASSUME TypeOK, NEW a \in ATSs, StartAts(a)
  PROVE  /\ TypeOK' /\ NothingRevived /\ atp.state = "IDLE"
         /\ atp'.pend = atp.pend /\ (Restarts \/ Stops)
<1> DEFINE i == ats[a]
           j == WithSkipped(i, Past(i, now))
<1>1. i \in AtsBuffer /\ now \in 0 .. Horizon + 1
  BY TimesAreNumbers DEF TypeOK
<1>2. /\ atp' = Begun(atp, a, i, now) /\ ats' = [ats EXCEPT ![a] = j]
      /\ UNCHANGED <<append, now>> /\ atp.state = "IDLE"
  BY DEF StartAts
<1>3. /\ BlockOK(atp') /\ atp'.pend = atp.pend
      /\ j \in AtsBuffer /\ j.cmds = i.cmds
      /\ \A c \in CmdNums : j.status[c] = "LOADED" => i.status[c] = "LOADED"
      /\ \/ atp'.state = "IDLE"
         \/ /\ atp'.state = "EXECUTING" /\ atp'.ats = a
            /\ AimedRight(atp', j) /\ NothingBehind(atp', j)
  BY <1>1, <1>2, Starting DEF TypeOK
<1> HIDE DEF j
<1>4. ats' \in [ATSs -> AtsBuffer] /\ ats'[a] = j /\ \A x \in ATSs \ {a} : ats'[x] = ats[x]
  BY <1>2, <1>3 DEF TypeOK
<1>5. TypeOK'
  BY <1>2, <1>3, <1>4 DEF TypeOK, BlockOK, Names
<1>6. NothingRevived
  BY <1>3, <1>4 DEF NothingRevived
<1> QED BY <1>2, <1>3, <1>4, <1>5, <1>6 DEF Restarts, Stops

LEMMA JumpEffect ==
  ASSUME TypeOK, NEW t \in Times, JumpAts(t)
  PROVE  /\ TypeOK' /\ NothingRevived /\ (Restarts \/ Stops)
<1> DEFINE a == atp.ats
           i == ats[a]
           S == {c \in Past(i, t) : i.status[c] = "LOADED"}
           j == WithSkipped(i, S)
           F == First(i, t)
<1>1. /\ a \in ATSs /\ i \in AtsBuffer /\ t \in 0 .. Horizon + 1
      /\ atp.state = "EXECUTING" /\ atp \in ControlBlock
  BY TimesAreNumbers DEF TypeOK, JumpAts, BlockOK, Names
<1>2. /\ atp' = IF F > NumberOfCommands(i) THEN Killed(atp) ELSE AimedAt(atp, i, F)
      /\ ats' = [ats EXCEPT ![a] = j]
      /\ UNCHANGED <<append, now>>
  BY DEF JumpAts
<1>3. /\ j \in AtsBuffer /\ j.cmds = i.cmds
      /\ \A c \in CmdNums : j.status[c] = IF c \in S THEN "SKIPPED" ELSE i.status[c]
  BY <1>1, Skipping
<1>4. /\ BlockOK(atp')
      /\ \/ atp'.state = "IDLE"
         \/ /\ atp'.state = "EXECUTING" /\ atp'.ats = a
            /\ AimedRight(atp', j) /\ NothingBehind(atp', j)
  <2>1. NumberOfCommands(i) \in Nat /\ F \in 1 .. NumberOfCommands(i) + 1
    BY <1>1, FiniteEntries, FirstSplits DEF AtsBuffer
  <2>2. CASE F > NumberOfCommands(i)
    BY <1>2, <2>2, Killing DEF TypeOK
  <2>3. CASE ~(F > NumberOfCommands(i))
    <3>1. F \in 1 .. NumberOfCommands(i) /\ atp' = AimedAt(atp, i, F)
      BY <1>2, <2>1, <2>3
    <3>2. /\ BlockOK(atp') /\ atp'.state = "EXECUTING" /\ atp'.ats = a
          /\ atp'.pos = F /\ AimedRight(atp', i)
      BY <1>1, <3>1, Aiming
    <3>3. AimedRight(atp', j) /\ NothingBehind(atp', j)
      BY <1>1, <3>2, SkippedIsNotBehind
    <3> QED BY <3>2, <3>3
  <2> QED BY <2>2, <2>3
<1> HIDE DEF j
<1>5. ats' \in [ATSs -> AtsBuffer] /\ ats'[a] = j /\ \A x \in ATSs \ {a} : ats'[x] = ats[x]
  BY <1>1, <1>2, <1>3 DEF TypeOK
<1>6. TypeOK'
  BY <1>2, <1>4, <1>5 DEF TypeOK, BlockOK, Names
<1>7. NothingRevived
  BY <1>1, <1>3, <1>5 DEF NothingRevived
<1> QED BY <1>4, <1>5, <1>6, <1>7 DEF Restarts, Stops

\* A merge with the Append table keeps every entry that it does not replace.
LEMMA Appending ==
  ASSUME TypeOK, NEW i \in AtsBuffer
  PROVE  /\ Appended(i) \in AtsBuffer
         /\ \A c \in DOMAIN i.cmds \ DOMAIN append :
              c \in DOMAIN Appended(i).cmds /\ Appended(i).cmds[c] = i.cmds[c]
         /\ \A c \in CmdNums \ DOMAIN append :
              Appended(i).status[c] = i.status[c]
<1> DEFINE cmds == [c \in DOMAIN i.cmds \cup DOMAIN append |->
                      IF c \in DOMAIN append THEN append[c] ELSE i.cmds[c]]
           status == [c \in CmdNums |-> IF c \in DOMAIN append THEN "LOADED"
                                        ELSE i.status[c]]
           size == i.size + Cardinality(DOMAIN append)
<1>1. append \in Entries /\ i.cmds \in Entries
  BY DEF TypeOK, AtsBuffer
<1>2. /\ DOMAIN append \subseteq CmdNums /\ DOMAIN i.cmds \subseteq CmdNums
      /\ append \in [DOMAIN append -> AtsEntry]
      /\ i.cmds \in [DOMAIN i.cmds -> AtsEntry]
  BY <1>1, EntriesType
<1>3. cmds \in [DOMAIN i.cmds \cup DOMAIN append -> AtsEntry]
  BY <1>2
<1>4. DOMAIN i.cmds \cup DOMAIN append \in SUBSET CmdNums
  BY <1>2
<1>5. cmds \in Entries
  <2> HIDE DEF cmds
  <2> QED BY <1>3, <1>4 DEF Entries
<1>6. status \in [CmdNums -> Statuses]
  BY DEF AtsBuffer, Statuses
<1>7. size \in Int
  <2>1. Cardinality(DOMAIN append) \in Int
    <3> DEFINE e == [cmds |-> append]
    <3>1. e.cmds = append
      OBVIOUS
    <3>2. IsFiniteSet(DOMAIN append)
      BY <1>1, <3>1, FiniteEntries
    <3> QED BY <3>2, FS_CardinalityType
  <2> QED BY <2>1 DEF AtsBuffer
<1>8. Appended(i) = [cmds |-> cmds, status |-> status, size |-> size]
  BY DEF Appended
<1>9. /\ \A c \in DOMAIN i.cmds \ DOMAIN append :
           c \in DOMAIN cmds /\ cmds[c] = i.cmds[c]
      /\ \A c \in CmdNums \ DOMAIN append : status[c] = i.status[c]
  OBVIOUS
<1> HIDE DEF cmds, status, size
<1> QED BY <1>5, <1>6, <1>7, <1>8, <1>9 DEF AtsBuffer

LEMMA AppendEffect ==
  ASSUME TypeOK, NEW a \in ATSs, AppendAts(a)
  PROVE  /\ TypeOK'
         /\ \A x \in ATSs \ {a} : ats'[x] = ats[x]
         /\ \A c \in DOMAIN ats[a].cmds \ DOMAIN append :
              c \in DOMAIN ats'[a].cmds /\ ats'[a].cmds[c] = ats[a].cmds[c]
         /\ \A c \in CmdNums \ DOMAIN append :
              ats'[a].status[c] = "LOADED" => ats[a].status[c] = "LOADED"
         /\ \/ Restarts \/ Stops
            \/ UNCHANGED atp /\ atp.ats # a
<1> DEFINE i == Appended(ats[a])
           j == WithSkipped(i, Past(i, now))
<1>1. ats[a] \in AtsBuffer /\ now \in 0 .. Horizon + 1 /\ UNCHANGED <<append, now>>
  BY TimesAreNumbers DEF TypeOK, AppendAts
<1>2. /\ i \in AtsBuffer
      /\ \A c \in DOMAIN ats[a].cmds \ DOMAIN append :
           c \in DOMAIN i.cmds /\ i.cmds[c] = ats[a].cmds[c]
      /\ \A c \in CmdNums \ DOMAIN append : i.status[c] = ats[a].status[c]
  BY <1>1, Appending
<1> HIDE DEF i
<1>3. CASE atp.state = "EXECUTING" /\ atp.ats = a
  <2>1. atp' = Begun(atp, a, i, now) /\ ats' = [ats EXCEPT ![a] = j]
    BY <1>3 DEF AppendAts, i
  <2>2. /\ BlockOK(atp')
        /\ j \in AtsBuffer /\ j.cmds = i.cmds
        /\ \A c \in CmdNums : j.status[c] = "LOADED" => i.status[c] = "LOADED"
        /\ \/ atp'.state = "IDLE"
           \/ /\ atp'.state = "EXECUTING" /\ atp'.ats = a
              /\ AimedRight(atp', j) /\ NothingBehind(atp', j)
    BY <1>1, <1>2, <2>1, Starting DEF TypeOK
  <2> HIDE DEF j
  <2>3. ats' \in [ATSs -> AtsBuffer] /\ ats'[a] = j
        /\ \A x \in ATSs \ {a} : ats'[x] = ats[x]
    BY <2>1, <2>2 DEF TypeOK
  <2>4. TypeOK'
    BY <1>1, <2>2, <2>3 DEF TypeOK, BlockOK, Names
  <2>5. \A c \in CmdNums \ DOMAIN append :
          ats'[a].status[c] = "LOADED" => ats[a].status[c] = "LOADED"
    BY <1>2, <2>2, <2>3
  <2>6. Restarts \/ Stops
    BY <2>2, <2>3 DEF Restarts, Stops
  <2> QED BY <1>2, <2>2, <2>3, <2>4, <2>5, <2>6
<1>4. CASE ~(atp.state = "EXECUTING" /\ atp.ats = a)
  <2>1. ats' = [ats EXCEPT ![a] = i] /\ UNCHANGED atp
    BY <1>4 DEF AppendAts, i
  <2>2. ats' \in [ATSs -> AtsBuffer] /\ ats'[a] = i
        /\ \A x \in ATSs \ {a} : ats'[x] = ats[x]
    BY <1>2, <2>1 DEF TypeOK
  <2>3. TypeOK'
    BY <1>1, <2>1, <2>2 DEF TypeOK, BlockOK, Names
  <2>4. Stops \/ atp.ats # a
    BY <1>4, <2>1 DEF Stops, TypeOK, BlockOK, ControlBlock
  <2> QED BY <1>2, <2>1, <2>2, <2>3, <2>4
<1> QED BY <1>3, <1>4

LEMMA LoadEffect ==
  ASSUME TypeOK, NEW a \in ATSs, NEW t \in AtsTables, LoadAts(a, t)
  PROVE  /\ TypeOK' /\ UNCHANGED atp
         /\ \A x \in ATSs \ {a} : ats'[x] = ats[x]
<1> DEFINE status == [c \in CmdNums |-> IF c \in DOMAIN t THEN "LOADED" ELSE "EMPTY"]
           size == Cardinality(DOMAIN t)
           new == [cmds |-> t, status |-> status, size |-> size]
<1>1. t \in Entries
  BY ConstantsAreNumbers
<1>2. size \in Int
  <2> DEFINE e == [cmds |-> t]
  <2>1. e.cmds = t
    OBVIOUS
  <2>2. IsFiniteSet(DOMAIN t)
    BY <1>1, <2>1, FiniteEntries
  <2> QED BY <2>2, FS_CardinalityType
<1>3. status \in [CmdNums -> Statuses]
  BY DEF Statuses
<1>4. ats' = [ats EXCEPT ![a] = new] /\ UNCHANGED <<atp, append, now>>
  BY DEF LoadAts
<1>5. new \in AtsBuffer
  <2> HIDE DEF status, size
  <2> QED BY <1>1, <1>2, <1>3 DEF AtsBuffer
<1>6. ats' \in [ATSs -> AtsBuffer] /\ \A x \in ATSs \ {a} : ats'[x] = ats[x]
  <2> HIDE DEF new
  <2> QED BY <1>4, <1>5 DEF TypeOK
<1>7. TypeOK'
  BY <1>4, <1>6 DEF TypeOK, BlockOK, Names
<1> QED BY <1>4, <1>6, <1>7

LEMMA StopEffect ==
  ASSUME TypeOK, StopAts
  PROVE  TypeOK' /\ NothingRevived /\ Stops /\ ~atp'.pend
<1>1. atp' = Ended(atp) /\ UNCHANGED <<ats, append, now>>
  BY DEF StopAts
<1>2. BlockOK(atp') /\ atp'.state = "IDLE" /\ ~atp'.pend
  BY <1>1, Ending DEF TypeOK
<1> QED BY <1>1, <1>2 DEF TypeOK, BlockOK, Names, NothingRevived, Stops

LEMMA SwitchEffect ==
  ASSUME TypeOK, SwitchAts
  PROVE  /\ TypeOK' /\ StaysPut /\ UNCHANGED ats
         /\ atp'.pend => atp'.state = "EXECUTING"
<1> DEFINE p == atp.state = "EXECUTING" /\ ats[Other(atp.ats)].cmds # <<>>
<1>1. atp' = [atp EXCEPT !.pend = p] /\ UNCHANGED <<ats, append, now>>
  BY DEF SwitchAts
<1>2. p \in BOOLEAN /\ (p => atp.state = "EXECUTING")
  OBVIOUS
<1> HIDE DEF p
<1>3. atp \in ControlBlock
  BY DEF TypeOK, BlockOK
<1>4. /\ atp' \in ControlBlock /\ StaysPut /\ atp'.pend = p
  BY <1>1, <1>2, <1>3 DEF ControlBlock, StaysPut
<1>5. BlockOK(atp')
  BY <1>4 DEF TypeOK, BlockOK, Names, StaysPut
<1>6. TypeOK'
  BY <1>1, <1>5 DEF TypeOK, BlockOK, Names
<1> QED BY <1>1, <1>2, <1>4, <1>6 DEF StaysPut

LEMMA ServiceEffect ==
  ASSUME TypeOK, ServiceSwitchPend
  PROVE  /\ TypeOK' /\ NothingRevived
         /\ Restarts \/ Stops \/ (StaysPut /\ UNCHANGED ats)
         /\ atp'.pend => UNCHANGED atp
<1> DEFINE a == Other(atp.ats)
           i == ats[a]
           j == WithSkipped(i, Past(i, SwitchStart))
           n == Begun(Killed(atp), a, i, SwitchStart)
<1>1. atp \in ControlBlock /\ UNCHANGED <<append, now>>
  BY DEF TypeOK, BlockOK, ServiceSwitchPend
<1>2. CASE ~Later(atp.next, now)
  <2>1. UNCHANGED <<atp, ats>>
    BY <1>2 DEF ServiceSwitchPend
  <2> QED BY <1>1, <2>1 DEF TypeOK, BlockOK, Names, NothingRevived, StaysPut
<1>3. CASE Later(atp.next, now) /\ atp.state = "EXECUTING" /\ i.cmds # <<>>
  <2>1. atp' = [n EXCEPT !.pend = FALSE] /\ ats' = [ats EXCEPT ![a] = j]
    BY <1>3 DEF ServiceSwitchPend
  <2>2. a \in ATSs /\ i \in AtsBuffer
    BY <1>3 DEF TypeOK, BlockOK, Names, Other, ATSs
  <2>3. SwitchStart \in 0 .. Horizon + 1
    BY TimesAreNumbers DEF SwitchStart, TypeOK
  <2>4. /\ BlockOK(n)
        /\ j \in AtsBuffer /\ j.cmds = i.cmds
        /\ \A c \in CmdNums : j.status[c] = "LOADED" => i.status[c] = "LOADED"
        /\ \/ n.state = "IDLE"
           \/ /\ n.state = "EXECUTING" /\ n.ats = a
              /\ AimedRight(n, j) /\ NothingBehind(n, j)
    BY <2>2, <2>3, Killing, Starting DEF TypeOK
  <2> HIDE DEF n, j
  <2>5. /\ atp' \in ControlBlock /\ ~atp'.pend
        /\ atp'.state = n.state /\ atp'.ats = n.ats /\ atp'.cmd = n.cmd
        /\ atp'.pos = n.pos /\ atp'.next = n.next
    BY <2>1, <2>4 DEF BlockOK, ControlBlock
  <2>6. /\ BlockOK(atp')
        /\ \/ atp'.state = "IDLE"
           \/ /\ atp'.state = "EXECUTING" /\ atp'.ats = a
              /\ AimedRight(atp', j) /\ NothingBehind(atp', j)
    BY <2>4, <2>5 DEF BlockOK, Names, AimedRight, NothingBehind
  <2>7. ats' \in [ATSs -> AtsBuffer] /\ ats'[a] = j
        /\ \A x \in ATSs \ {a} : ats'[x] = ats[x]
    BY <2>1, <2>2, <2>4 DEF TypeOK
  <2>8. TypeOK'
    BY <1>1, <2>6, <2>7 DEF TypeOK, BlockOK, Names
  <2>9. NothingRevived
    BY <2>4, <2>7 DEF NothingRevived
  <2>10. Restarts \/ Stops
    BY <2>6, <2>7 DEF Restarts, Stops
  <2> QED BY <2>5, <2>8, <2>9, <2>10
<1>4. CASE Later(atp.next, now) /\ ~(atp.state = "EXECUTING" /\ i.cmds # <<>>)
  <2>1. atp' = [atp EXCEPT !.pend = FALSE] /\ UNCHANGED ats
    BY <1>4 DEF ServiceSwitchPend
  <2>2. /\ atp' \in ControlBlock /\ ~atp'.pend /\ StaysPut
    BY <1>1, <2>1 DEF ControlBlock, StaysPut
  <2>3. TypeOK'
    BY <1>1, <2>1, <2>2 DEF TypeOK, BlockOK, Names, StaysPut
  <2> QED BY <2>1, <2>2, <2>3 DEF NothingRevived
<1> QED BY <1>2, <1>3, <1>4

\* A command that the ATP has in hand, marked s, while it goes on or stops.
LEMMA ProcessedEffect ==
  ASSUME TypeOK, AtpDue, NEW s \in Statuses \ {"LOADED"},
         ats' = Marked(s), UNCHANGED <<append, now>>,
         atp' = Advanced(atp) \/ atp' = Ended(atp)
  PROVE  /\ TypeOK' /\ NothingRevived
         /\ Advances \/ Stops
         /\ atp'.pend => atp'.state = "EXECUTING"
<1>1. atp.state = "EXECUTING" /\ atp.ats \in ATSs /\ atp.cmd \in CmdNums
  BY DEF AtpDue, TypeOK, BlockOK, Names
<1>2. /\ ats' \in [ATSs -> AtsBuffer]
      /\ \A a \in ATSs :
           /\ ats'[a].cmds = ats[a].cmds
           /\ \A c \in CmdNums :
                ats'[a].status[c] =
                  IF a = atp.ats /\ c = atp.cmd THEN s ELSE ats[a].status[c]
  BY <1>1, Marking
<1>3. NothingRevived
  BY <1>2 DEF NothingRevived
<1>4. ats'[atp.ats].status[atp.cmd] # "LOADED"
  BY <1>1, <1>2
<1>5. BlockOK(atp) /\ ats \in [ATSs -> AtsBuffer]
  BY DEF TypeOK
<1>6. /\ BlockOK(atp')
      /\ \/ atp'.state = "IDLE" /\ ~atp'.pend
         \/ /\ atp'.state = "EXECUTING" /\ atp'.ats = atp.ats
            /\ atp'.pos = atp.pos + 1
            /\ AimedRight(atp', ats[atp.ats])
  <2>1. CASE atp' = Advanced(atp)
    BY <1>1, <1>5, <2>1, Advancing
  <2>2. CASE atp' = Ended(atp)
    BY <1>5, <2>2, Ending
  <2> QED BY <2>1, <2>2
<1>7. TypeOK'
  BY <1>2, <1>6 DEF TypeOK, BlockOK, Names
<1>8. Advances \/ Stops
  BY <1>1, <1>4, <1>6 DEF Advances, Stops
<1> QED BY <1>3, <1>6, <1>7, <1>8

\* A command in hand was to be sent, and it is due.
InHand == AtpDue /\ ats[atp.ats].status[atp.cmd] = "LOADED"

LEMMA SendEffect ==
  ASSUME TypeOK, SendCommand
  PROVE  /\ TypeOK' /\ NothingRevived
         /\ Advances \/ Stops
         /\ atp'.pend => atp'.state = "EXECUTING"
         /\ InHand /\ sent' = {<<atp.ats, atp.cmd>>}
         /\ ats'[atp.ats].status[atp.cmd] # "LOADED"
<1>1. /\ InHand /\ UNCHANGED <<append, now>> /\ ats' = Marked("EXECUTED")
      /\ atp' = Advanced(atp) /\ sent' = {<<atp.ats, atp.cmd>>}
  BY DEF SendCommand, Processing, InHand
<1>2. "EXECUTED" \in Statuses \ {"LOADED"}
  BY DEF Statuses
<1>3. /\ TypeOK' /\ NothingRevived
      /\ Advances \/ Stops
      /\ atp'.pend => atp'.state = "EXECUTING"
  BY <1>1, <1>2, ProcessedEffect DEF InHand
<1>4. atp.state = "EXECUTING" /\ atp.ats \in ATSs /\ atp.cmd \in CmdNums
  BY <1>1 DEF InHand, AtpDue, TypeOK, BlockOK, Names
<1>5. ats'[atp.ats].status[atp.cmd] # "LOADED"
  BY <1>1, <1>2, <1>4, Marking
<1> QED BY <1>1, <1>3, <1>5

LEMMA InlineEffect ==
  ASSUME TypeOK, InlineSwitch
  PROVE  /\ TypeOK' /\ NothingRevived
         /\ Advances \/ Stops \/ (Restarts /\ atp'.ats # atp.ats)
         /\ atp'.pend => atp'.state = "EXECUTING"
         /\ InHand /\ sent' \subseteq {<<atp.ats, atp.cmd>>}
         /\ ats'[atp.ats].status[atp.cmd] # "LOADED"
<1> DEFINE b == Other(atp.ats)
           i == ats[b]
           j == WithSkipped(i, Past(i, now))
           starts == First(i, now) <= NumberOfCommands(i)
           n == Begun(Killed(atp), b, i, now)
           s == IF starts THEN "EXECUTED" ELSE "FAILED_DISTRIB"
<1>1. /\ InHand /\ UNCHANGED <<append, now>>
      /\ sent' \subseteq {<<atp.ats, atp.cmd>>}
  BY DEF InlineSwitch, Processing, InHand
<1>2. /\ atp.state = "EXECUTING" /\ atp.ats \in ATSs /\ atp.cmd \in CmdNums
      /\ atp \in ControlBlock /\ now \in 0 .. Horizon + 1
  BY <1>1, TimesAreNumbers DEF InHand, AtpDue, TypeOK, BlockOK, Names
<1>3. b \in ATSs /\ b # atp.ats /\ i \in AtsBuffer
  BY <1>2 DEF TypeOK, Other, ATSs
<1>4. CASE i.cmds = <<>>
  <2> DEFINE m == [atp EXCEPT !.pend = FALSE]
  <2>1. ats' = Marked("FAILED_DISTRIB") /\ atp' = Advanced(m)
    BY <1>4 DEF InlineSwitch
  <2>2. /\ m \in ControlBlock /\ ~m.pend /\ m.state = "EXECUTING"
        /\ m.ats = atp.ats /\ m.pos = atp.pos /\ m.cmd = atp.cmd /\ m.next = atp.next
    BY <1>2 DEF ControlBlock
  <2>3. BlockOK(m) /\ ats \in [ATSs -> AtsBuffer]
    BY <2>2 DEF TypeOK, BlockOK, Names
  <2> HIDE DEF m
  <2>4. /\ BlockOK(atp') /\ ~atp'.pend
        /\ \/ atp'.state = "IDLE"
           \/ /\ atp'.state = "EXECUTING" /\ atp'.ats = atp.ats
              /\ atp'.pos = atp.pos + 1
              /\ AimedRight(atp', ats[atp.ats])
    BY <2>1, <2>2, <2>3, Advancing
  <2>5. "FAILED_DISTRIB" \in Statuses
    BY DEF Statuses
  <2>6. /\ ats' \in [ATSs -> AtsBuffer]
        /\ \A a \in ATSs :
             /\ ats'[a].cmds = ats[a].cmds
             /\ \A c \in CmdNums :
                  ats'[a].status[c] =
                    IF a = atp.ats /\ c = atp.cmd THEN "FAILED_DISTRIB"
                                                  ELSE ats[a].status[c]
    BY <1>2, <2>1, <2>5, Marking
  <2>7. NothingRevived /\ ats'[atp.ats].status[atp.cmd] # "LOADED"
    BY <1>2, <2>6 DEF NothingRevived
  <2>8. TypeOK'
    BY <1>1, <2>4, <2>6 DEF TypeOK, BlockOK, Names
  <2>9. Advances \/ Stops
    BY <1>2, <2>4, <2>7 DEF Advances, Stops
  <2> QED BY <1>1, <2>4, <2>7, <2>8, <2>9
<1>5. CASE i.cmds # <<>>
  <2>1. /\ ats' = [Marked(s) EXCEPT ![b] = WithSkipped(@, Past(i, now))]
        /\ atp' = [n EXCEPT !.pend = FALSE]
    BY <1>5 DEF InlineSwitch
  <2>2. s \in Statuses \ {"LOADED"}
    BY DEF Statuses
  <2> HIDE DEF s, n, j
  <2>3. /\ Marked(s) \in [ATSs -> AtsBuffer]
        /\ \A a \in ATSs :
             /\ Marked(s)[a].cmds = ats[a].cmds
             /\ \A c \in CmdNums :
                  Marked(s)[a].status[c] =
                    IF a = atp.ats /\ c = atp.cmd THEN s ELSE ats[a].status[c]
    BY <1>2, <2>2, Marking
  <2>4. Marked(s)[b] = i
    BY <1>2, <1>3 DEF Marked, TypeOK
  <2>5. ats' = [Marked(s) EXCEPT ![b] = j]
    BY <1>3, <2>1, <2>3, <2>4 DEF j
  <2>6. /\ BlockOK(n)
        /\ j \in AtsBuffer /\ j.cmds = i.cmds
        /\ \A c \in CmdNums : j.status[c] = "LOADED" => i.status[c] = "LOADED"
        /\ \/ n.state = "IDLE"
           \/ /\ n.state = "EXECUTING" /\ n.ats = b
              /\ AimedRight(n, j) /\ NothingBehind(n, j)
    BY <1>2, <1>3, Killing, Starting DEF TypeOK, n, j
  <2>7. /\ ats' \in [ATSs -> AtsBuffer] /\ ats'[b] = j
        /\ \A x \in ATSs \ {b} : ats'[x] = Marked(s)[x]
    BY <1>3, <2>3, <2>5, <2>6
  <2>8. /\ atp' \in ControlBlock /\ ~atp'.pend
        /\ atp'.state = n.state /\ atp'.ats = n.ats /\ atp'.cmd = n.cmd
        /\ atp'.pos = n.pos /\ atp'.next = n.next
    BY <2>1, <2>6 DEF BlockOK, ControlBlock
  <2>9. /\ BlockOK(atp')
        /\ \/ atp'.state = "IDLE"
           \/ /\ atp'.state = "EXECUTING" /\ atp'.ats = b
              /\ AimedRight(atp', j) /\ NothingBehind(atp', j)
    BY <2>6, <2>8 DEF BlockOK, Names, AimedRight, NothingBehind
  <2>10. TypeOK'
    BY <1>1, <2>7, <2>9 DEF TypeOK, BlockOK, Names
  <2>11. NothingRevived /\ ats'[atp.ats].status[atp.cmd] # "LOADED"
    BY <1>2, <1>3, <2>2, <2>3, <2>6, <2>7 DEF NothingRevived
  <2>12. Stops \/ (Restarts /\ atp'.ats # atp.ats)
    BY <1>3, <2>7, <2>9 DEF Stops, Restarts
  <2> QED BY <1>1, <2>8, <2>10, <2>11, <2>12
<1> QED BY <1>4, <1>5

LEMMA PassEffect ==
  ASSUME TypeOK, PassOver \/ ChecksumFails \/ DistributionFails
  PROVE  /\ TypeOK' /\ NothingRevived
         /\ Advances \/ Stops
         /\ atp'.pend => atp'.state = "EXECUTING"
<1>1. CASE PassOver
  <2>1. /\ AtpDue /\ atp' = Advanced(atp) /\ UNCHANGED <<ats, append, now>>
        /\ ats[atp.ats].status[atp.cmd] # "LOADED"
    BY <1>1 DEF PassOver
  <2>2. /\ atp.state = "EXECUTING" /\ BlockOK(atp) /\ ats \in [ATSs -> AtsBuffer]
    BY <2>1 DEF AtpDue, TypeOK
  <2>3. /\ BlockOK(atp')
        /\ \/ atp'.state = "IDLE" /\ ~atp'.pend
           \/ /\ atp'.state = "EXECUTING" /\ atp'.ats = atp.ats
              /\ atp'.pos = atp.pos + 1
              /\ AimedRight(atp', ats[atp.ats])
    BY <2>1, <2>2, Advancing
  <2>4. TypeOK'
    BY <2>1, <2>3 DEF TypeOK, BlockOK, Names
  <2> QED BY <2>1, <2>2, <2>3, <2>4 DEF NothingRevived, Advances, Stops
<1>2. CASE ChecksumFails
  <2>1. /\ AtpDue /\ ats' = Marked("FAILED_CHECKSUM") /\ UNCHANGED <<append, now>>
        /\ atp' = Advanced(atp) \/ atp' = Ended(atp)
    BY <1>2 DEF ChecksumFails, Processing
  <2>2. "FAILED_CHECKSUM" \in Statuses \ {"LOADED"}
    BY DEF Statuses
  <2> QED BY <2>1, <2>2, ProcessedEffect
<1>3. CASE DistributionFails
  <2>1. /\ AtpDue /\ ats' = Marked("FAILED_DISTRIB") /\ UNCHANGED <<append, now>>
        /\ atp' = Ended(atp)
    BY <1>3 DEF DistributionFails, Processing
  <2>2. "FAILED_DISTRIB" \in Statuses \ {"LOADED"}
    BY DEF Statuses
  <2> QED BY <2>1, <2>2, ProcessedEffect
<1> QED BY <1>1, <1>2, <1>3

\* What is left leaves the control block and the two sequences alone.
LEMMA WaitEffect ==
  ASSUME TypeOK,
         \/ \E t \in AtsTables : UpdateAppend(t)
         \/ \E flag \in BOOLEAN : ContinueAtsOnFailure(flag)
         \/ Tick \/ Wakeup \/ AtpIdle \/ RtpTurn
  PROVE  TypeOK' /\ UNCHANGED <<atp, ats>> /\ now <= now'
<1>1. UNCHANGED <<atp, ats>> /\ (UNCHANGED append \/ append' \in AtsTables)
  BY DEF UpdateAppend, ContinueAtsOnFailure, Tick, Wakeup, AtpIdle, RtpTurn
<1>2. UNCHANGED now \/ (now' \in Times /\ now' > now)
  BY DEF UpdateAppend, ContinueAtsOnFailure, Tick, Wakeup, AtpIdle, RtpTurn
<1>3. append' \in Entries /\ now' \in Times
  BY <1>1, <1>2, ConstantsAreNumbers DEF TypeOK
<1>4. now <= now'
  BY <1>2, <1>3, ConstantsAreNumbers DEF TypeOK, Times
<1> QED BY <1>1, <1>3, <1>4 DEF TypeOK, BlockOK, Names

-----------------------------------------------------------------------------
(* Types, and the agreement of the control block.                          *)

LEMMA TypeInit == HInit => TypeOK
<1> SUFFICES ASSUME HInit PROVE TypeOK
  OBVIOUS
<1>1. /\ atp = [state |-> "IDLE", ats |-> NoAts, cmd |-> NoCmd, pos |-> 0,
                next |-> MaxTime, pend |-> FALSE]
      /\ ats = [a \in ATSs |-> EmptyAts] /\ append = <<>> /\ now \in Times
  BY DEF HInit, Init
<1>2. BlockOK(atp)
  BY <1>1 DEF BlockOK, ControlBlock
<1>3. EmptyAts \in AtsBuffer
  BY EmptyTable DEF EmptyAts, AtsBuffer, Statuses
<1> QED BY <1>1, <1>2, <1>3, EmptyTable DEF TypeOK

LEMMA TypeStep ==
  ASSUME TypeOK, [HNext]_hvars
  PROVE  TypeOK'
<1>1. CASE \E a \in ATSs : HAppendAts(a)
  BY <1>1, AppendEffect DEF HAppendAts
<1>2. CASE \E a \in ATSs : \E t \in AtsTables : HLoadAts(a, t)
  BY <1>2, LoadEffect DEF HLoadAts
<1>3. CASE \E t \in Times : HJumpAts(t)
  BY <1>3, JumpEffect DEF HJumpAts
<1>4. CASE HStart
  BY <1>4, StartEffect DEF HStart
<1>5. CASE HStop
  BY <1>5, StopEffect DEF HStop
<1>6. CASE HSwitch
  BY <1>6, SwitchEffect DEF HSwitch
<1>7. CASE HServiceSwitchPend
  BY <1>7, ServiceEffect DEF HServiceSwitchPend
<1>8. CASE HTake
  BY <1>8, SendEffect, InlineEffect DEF HTake
<1>9. CASE HPass
  BY <1>9, PassEffect DEF HPass
<1>10. CASE HWait
  BY <1>10, WaitEffect DEF HWait
<1>11. CASE UNCHANGED hvars
  BY <1>11 DEF hvars, vars, TypeOK, BlockOK, Names
<1> QED BY <1>1, <1>2, <1>3, <1>4, <1>5, <1>6, <1>7, <1>8, <1>9, <1>10, <1>11
        DEF HNext

LEMMA TypesHold == HSpec => []TypeOK
<1>1. TypeOK /\ [HNext]_hvars => TypeOK'
  BY TypeStep
<1> QED BY TypeInit, <1>1, PTL DEF HSpec

\* What ControlBlockAgrees says of an ATS that executes.
LEMMA AgreesMeans ==
  ControlBlockAgrees <=>
    (atp.state = "EXECUTING" /\ atp.ats \notin reloaded =>
       AimedRight(atp, ats[atp.ats]) /\ NothingBehind(atp, ats[atp.ats]))
BY DEF ControlBlockAgrees, AimedRight, NothingBehind

LEMMA AgreesMeansNext ==
  ControlBlockAgrees' <=>
    (atp'.state = "EXECUTING" /\ atp'.ats \notin reloaded' =>
       AimedRight(atp', ats'[atp'.ats]) /\ NothingBehind(atp', ats'[atp'.ats]))
BY DEF ControlBlockAgrees, AimedRight, NothingBehind

\* An ATP that goes on leaves the command that it is done with behind, and
\* nothing that is still to be sent.
LEMMA AdvanceAgrees ==
  ASSUME TypeOK, NothingRevived, Advances,
         AimedRight(atp, ats[atp.ats]), NothingBehind(atp, ats[atp.ats])
  PROVE  AimedRight(atp', ats'[atp'.ats]) /\ NothingBehind(atp', ats'[atp'.ats])
<1> DEFINE a == atp.ats
           i == ats[a]
           j == ats'[a]
<1>1. a \in ATSs /\ i \in AtsBuffer /\ atp.pos \in Nat
  BY DEF TypeOK, BlockOK, Names, Advances, ControlBlock
<1>2. /\ j.cmds = i.cmds
      /\ \A c \in CmdNums : j.status[c] = "LOADED" => i.status[c] = "LOADED"
      /\ atp'.ats = a /\ atp'.pos = atp.pos + 1
      /\ AimedRight(atp', i) /\ j.status[atp.cmd] # "LOADED"
  BY <1>1 DEF NothingRevived, Advances
<1>3. \A c : Position(j, c) = Position(i, c)
  BY <1>2, SameEntries
<1>4. AimedRight(atp', j)
  BY <1>2, <1>3 DEF AimedRight
<1>5. ASSUME NEW c \in DOMAIN j.cmds, Position(j, c) < atp'.pos
      PROVE  j.status[c] # "LOADED"
  <2>1. i.cmds \in Entries /\ c \in DOMAIN i.cmds
    BY <1>1, <1>2, <1>5 DEF AtsBuffer
  <2>2. c \in CmdNums
    BY <2>1, EntriesType
  <2>3. Position(i, c) \in Int /\ Position(i, c) < atp.pos + 1
    BY <1>2, <1>3, <1>5, <2>1, PositionType, FiniteEntries
  <2>4. CASE Position(i, c) < atp.pos
    BY <1>2, <2>1, <2>2, <2>4 DEF NothingBehind
  <2>5. CASE Position(i, c) = atp.pos
    <3>1. atp.cmd \in DOMAIN i.cmds /\ Position(i, atp.cmd) = atp.pos
      BY DEF AimedRight
    <3>2. c = atp.cmd
      BY <2>1, <2>5, <3>1, PositionDecides
    <3> QED BY <1>2, <3>2
  <2> QED BY <1>1, <2>3, <2>4, <2>5
<1> QED BY <1>2, <1>4, <1>5 DEF NothingBehind

LEMMA AgreesStep ==
  ASSUME TypeOK, ControlBlockAgrees, [HNext]_hvars
  PROVE  ControlBlockAgrees'
<1>1. Restarts => ControlBlockAgrees'
  BY AgreesMeansNext DEF Restarts
<1>2. Stops => ControlBlockAgrees'
  BY AgreesMeansNext DEF Stops
<1>3. NothingRevived /\ Advances /\ UNCHANGED reloaded => ControlBlockAgrees'
  BY AgreesMeans, AgreesMeansNext, AdvanceAgrees DEF Advances
<1>4. ASSUME StaysPut, ats'[atp.ats] = ats[atp.ats],
             atp.ats \in reloaded => atp.ats \in reloaded'
      PROVE  ControlBlockAgrees'
  BY <1>4, AgreesMeans, AgreesMeansNext
     DEF StaysPut, AimedRight, NothingBehind
<1>5. CASE \E a \in ATSs : HAppendAts(a)
  <2>1. PICK a \in ATSs : HAppendAts(a)
    BY <1>5
  <2>2. UNCHANGED reloaded /\ AppendAts(a)
    BY <2>1 DEF HAppendAts
  <2>3. CASE UNCHANGED atp /\ atp.ats # a
    <3>1. atp.state = "EXECUTING" => ats'[atp.ats] = ats[atp.ats]
      BY <2>2, <2>3, AppendEffect DEF TypeOK, BlockOK, Names
    <3>2. CASE atp.state = "EXECUTING"
      BY <1>4, <2>2, <2>3, <3>1, <3>2 DEF StaysPut
    <3>3. CASE atp.state # "EXECUTING"
      BY <2>3, <3>3, AgreesMeansNext
    <3> QED BY <3>2, <3>3
  <2> QED BY <1>1, <1>2, <2>2, <2>3, AppendEffect
<1>6. CASE \E a \in ATSs : \E t \in AtsTables : HLoadAts(a, t)
  <2>1. PICK a \in ATSs, t \in AtsTables : HLoadAts(a, t)
    BY <1>6
  <2>2. UNCHANGED atp /\ \A x \in ATSs \ {a} : ats'[x] = ats[x]
    BY <2>1, LoadEffect DEF HLoadAts
  <2>3. reloaded' = IF atp.state = "EXECUTING" /\ atp.ats = a THEN reloaded \cup {a}
                    ELSE reloaded \ {a}
    BY <2>1 DEF HLoadAts
  <2>4. CASE atp.state # "EXECUTING"
    BY <2>2, <2>4, AgreesMeansNext
  <2>5. CASE atp.state = "EXECUTING" /\ atp.ats = a
    BY <2>2, <2>3, <2>5, AgreesMeansNext
  <2>6. CASE atp.state = "EXECUTING" /\ atp.ats # a
    <3>1. ats'[atp.ats] = ats[atp.ats]
      BY <2>2, <2>6 DEF TypeOK, BlockOK, Names
    <3> QED BY <1>4, <2>2, <2>3, <2>6, <3>1 DEF StaysPut
  <2> QED BY <2>4, <2>5, <2>6
<1>7. CASE \E t \in Times : HJumpAts(t)
  BY <1>1, <1>2, <1>7, JumpEffect DEF HJumpAts
<1>8. CASE HStart
  BY <1>1, <1>2, <1>8, StartEffect DEF HStart
<1>9. CASE HStop
  BY <1>2, <1>9, StopEffect DEF HStop
<1>10. CASE HSwitch
  BY <1>4, <1>10, SwitchEffect DEF HSwitch
<1>11. CASE HServiceSwitchPend
  <2>1. ServiceSwitchPend /\ UNCHANGED reloaded
    BY <1>11 DEF HServiceSwitchPend
  <2> QED BY <1>1, <1>2, <1>4, <2>1, ServiceEffect
<1>12. CASE HTake
  BY <1>1, <1>2, <1>3, <1>12, SendEffect, InlineEffect DEF HTake
<1>13. CASE HPass
  BY <1>2, <1>3, <1>13, PassEffect DEF HPass
<1>14. CASE HWait
  <2>1. UNCHANGED <<atp, ats, reloaded>>
    BY <1>14, WaitEffect DEF HWait
  <2> QED BY <1>4, <2>1 DEF StaysPut
<1>15. CASE UNCHANGED hvars
  BY <1>4, <1>15 DEF hvars, vars, StaysPut
<1> QED BY <1>5, <1>6, <1>7, <1>8, <1>9, <1>10, <1>11, <1>12, <1>13, <1>14, <1>15
        DEF HNext

\* While an ATS executes, the control block's copies of number and time are
\* those of the entry it points to, and every command before that entry has
\* been sent, skipped or refused: for any tables, appended ones included.
THEOREM NoneIsMissed == HSpec => []ControlBlockAgrees
<1>1. HInit => ControlBlockAgrees
  BY DEF HInit, Init, ControlBlockAgrees
<1>2. TypeOK /\ ControlBlockAgrees /\ [HNext]_hvars => ControlBlockAgrees'
  BY AgreesStep
<1> QED BY <1>1, <1>2, TypesHold, PTL DEF HSpec

-----------------------------------------------------------------------------
(* Each command once, and none early.                                      *)

\* A command that was taken is not to be sent again before it is loaded or
\* appended anew; and unless its ATS was loaded over, it is still the one
\* that was taken, and its second has come.
SpentOK(a, c) ==
  <<a, c>> \in spent =>
    /\ ats[a].status[c] # "LOADED"
    /\ a \notin reloaded => /\ c \in DOMAIN ats[a].cmds
                            /\ ats[a].cmds[c].time <= now

SpentInv == \A a \in ATSs, c \in CmdNums : SpentOK(a, c)

\* A command that is due: its second is not after the present one.
LEMMA DueIsNotLate ==
  ASSUME TypeOK, AtpDue
  PROVE  atp.next \in Nat /\ now \in Nat /\ atp.next <= now
<1>1. atp.next \in Times /\ now \in Times
  BY DEF AtpDue, TypeOK, BlockOK, Names
<1>2. ~(atp.next > now)
  BY <1>1, TimesAreNumbers, LaterIsGreater DEF AtpDue
<1> QED BY <1>1, <1>2, ConstantsAreNumbers DEF Times

\* A step that revives nothing and takes nothing.
LEMMA NothingTaken ==
  ASSUME TypeOK, TypeOK', SpentInv, NothingRevived,
         spent' \subseteq spent, UNCHANGED reloaded, now <= now'
  PROVE  SpentInv'
<1> SUFFICES ASSUME NEW a \in ATSs, NEW c \in CmdNums, <<a, c>> \in spent'
             PROVE  SpentOK(a, c)'
  BY DEF SpentInv, SpentOK
<1>1. SpentOK(a, c) /\ <<a, c>> \in spent
  BY DEF SpentInv
<1>2. /\ ats'[a].cmds = ats[a].cmds
      /\ ats'[a].status[c] = "LOADED" => ats[a].status[c] = "LOADED"
  BY DEF NothingRevived
<1>3. c \in DOMAIN ats[a].cmds => ats[a].cmds[c].time \in Int
  BY EntriesType DEF TypeOK, AtsBuffer, Times
<1>4. now \in Int /\ now' \in Int
  BY DEF TypeOK, Times
<1>5. ats[a].status[c] # "LOADED" /\ ats'[a].status[c] # "LOADED"
  BY <1>1, <1>2 DEF SpentOK
<1>6. ASSUME a \notin reloaded'
      PROVE  c \in DOMAIN ats'[a].cmds /\ ats'[a].cmds[c].time <= now'
  <2>1. c \in DOMAIN ats[a].cmds /\ ats[a].cmds[c].time <= now
    BY <1>1, <1>6 DEF SpentOK
  <2> QED BY <1>2, <1>3, <1>4, <2>1
<1> QED BY <1>5, <1>6 DEF SpentOK

\* A command taken out of an ATS is spent from then on.
LEMMA TakenIsSpent ==
  ASSUME TypeOK, TypeOK', SpentInv, ControlBlockAgrees, HTake
  PROVE  SpentInv'
<1>1. /\ NothingRevived /\ InHand /\ sent' \subseteq {<<atp.ats, atp.cmd>>}
      /\ ats'[atp.ats].status[atp.cmd] # "LOADED"
  BY SendEffect, InlineEffect DEF HTake
<1>2. spent' = spent \cup sent' /\ UNCHANGED <<reloaded, now>>
  BY DEF HTake, SendCommand, InlineSwitch, Processing
<1>3. AtpDue /\ atp.state = "EXECUTING" /\ atp.ats \in ATSs /\ atp.cmd \in CmdNums
  BY <1>1 DEF InHand, AtpDue, TypeOK, BlockOK, Names
<1> SUFFICES ASSUME NEW a \in ATSs, NEW c \in CmdNums, <<a, c>> \in spent'
             PROVE  SpentOK(a, c)'
  BY DEF SpentInv, SpentOK
<1>4. /\ ats'[a].cmds = ats[a].cmds
      /\ ats'[a].status[c] = "LOADED" => ats[a].status[c] = "LOADED"
  BY <1>1 DEF NothingRevived
<1>5. CASE <<a, c>> \in spent
  <2>1. SpentOK(a, c)
    BY DEF SpentInv
  <2> QED BY <1>2, <1>4, <1>5, <2>1 DEF SpentOK
<1>6. CASE a = atp.ats /\ c = atp.cmd
  <2>1. ats'[a].status[c] # "LOADED"
    BY <1>1, <1>6
  <2>2. ASSUME a \notin reloaded'
        PROVE  c \in DOMAIN ats'[a].cmds /\ ats'[a].cmds[c].time <= now'
    <3>1. AimedRight(atp, ats[a])
      BY <1>2, <1>3, <1>6, <2>2, AgreesMeans
    <3>2. c \in DOMAIN ats[a].cmds /\ ats[a].cmds[c].time = atp.next
      BY <1>6, <3>1 DEF AimedRight
    <3>3. atp.next <= now
      BY <1>3, DueIsNotLate
    <3> QED BY <1>2, <1>4, <3>2, <3>3
  <2> QED BY <2>1, <2>2 DEF SpentOK
<1> QED BY <1>1, <1>2, <1>5, <1>6

LEMMA SpentStep ==
  ASSUME TypeOK, ControlBlockAgrees, SpentInv, [HNext]_hvars
  PROVE  SpentInv'
<1>1. TypeOK'
  BY TypeStep
<1>2. now \in Int
  BY DEF TypeOK, Times
<1>3. CASE \E a \in ATSs : HAppendAts(a)
  <2>1. PICK a \in ATSs : HAppendAts(a)
    BY <1>3
  <2>2. /\ AppendAts(a) /\ spent' = spent \ ({a} \X DOMAIN append)
        /\ UNCHANGED <<reloaded, now>>
    BY <2>1 DEF HAppendAts, AppendAts
  <2>3. /\ \A x \in ATSs \ {a} : ats'[x] = ats[x]
        /\ \A c \in DOMAIN ats[a].cmds \ DOMAIN append :
             c \in DOMAIN ats'[a].cmds /\ ats'[a].cmds[c] = ats[a].cmds[c]
        /\ \A c \in CmdNums \ DOMAIN append :
             ats'[a].status[c] = "LOADED" => ats[a].status[c] = "LOADED"
    BY <2>2, AppendEffect
  <2> SUFFICES ASSUME NEW x \in ATSs, NEW c \in CmdNums, <<x, c>> \in spent'
               PROVE  SpentOK(x, c)'
    BY DEF SpentInv, SpentOK
  <2>4. SpentOK(x, c) /\ <<x, c>> \in spent /\ (x = a => c \notin DOMAIN append)
    BY <2>2 DEF SpentInv
  <2>5. CASE x # a
    BY <2>2, <2>3, <2>4, <2>5 DEF SpentOK
  <2>6. CASE x = a
    BY <2>2, <2>3, <2>4, <2>6 DEF SpentOK
  <2> QED BY <2>5, <2>6
<1>4. CASE \E a \in ATSs : \E t \in AtsTables : HLoadAts(a, t)
  <2>1. PICK a \in ATSs, t \in AtsTables : HLoadAts(a, t)
    BY <1>4
  <2>2. /\ spent' = spent \ ({a} \X CmdNums) /\ UNCHANGED now
        /\ \A x \in ATSs \ {a} : ats'[x] = ats[x]
        /\ \A x \in ATSs \ {a} : x \notin reloaded' => x \notin reloaded
    BY <2>1, LoadEffect DEF HLoadAts, LoadAts
  <2> SUFFICES ASSUME NEW x \in ATSs, NEW c \in CmdNums, <<x, c>> \in spent'
               PROVE  SpentOK(x, c)'
    BY DEF SpentInv, SpentOK
  <2>3. SpentOK(x, c) /\ <<x, c>> \in spent /\ x # a
    BY <2>2 DEF SpentInv
  <2> QED BY <2>2, <2>3 DEF SpentOK
<1>5. CASE HTake
  BY <1>1, <1>5, TakenIsSpent
<1>6. CASE \/ \E t \in Times : HJumpAts(t)
           \/ HStart \/ HStop \/ HSwitch \/ HServiceSwitchPend \/ HPass
           \/ HWait \/ UNCHANGED hvars
  <2>1. UNCHANGED <<spent, reloaded>>
    BY <1>6 DEF HJumpAts, HStart, HStop, HSwitch, HServiceSwitchPend, HPass, HWait,
                hvars
  <2>2. NothingRevived
    <3>1. (\E t \in Times : HJumpAts(t)) => NothingRevived
      BY JumpEffect DEF HJumpAts
    <3>2. HStart => NothingRevived
      BY StartEffect DEF HStart
    <3>3. HStop => NothingRevived
      BY StopEffect DEF HStop
    <3>4. HSwitch => NothingRevived
      BY SwitchEffect DEF HSwitch, NothingRevived
    <3>5. HServiceSwitchPend => NothingRevived
      BY ServiceEffect DEF HServiceSwitchPend
    <3>6. HPass => NothingRevived
      BY PassEffect DEF HPass
    <3>7. HWait => NothingRevived
      BY WaitEffect DEF HWait, NothingRevived
    <3>8. UNCHANGED hvars => NothingRevived
      BY DEF hvars, vars, NothingRevived
    <3> QED BY <1>6, <3>1, <3>2, <3>3, <3>4, <3>5, <3>6, <3>7, <3>8
  <2>3. now <= now'
    <3>1. HWait => now <= now'
      BY WaitEffect DEF HWait
    <3>2. ~HWait => UNCHANGED now
      BY <1>6 DEF HJumpAts, JumpAts, HStart, StartAts, HStop, StopAts, HSwitch,
                  SwitchAts, HServiceSwitchPend, ServiceSwitchPend, HPass, PassOver,
                  ChecksumFails, DistributionFails, Processing, hvars, vars
    <3> QED BY <1>2, <3>1, <3>2
  <2> QED BY <1>1, <2>1, <2>2, <2>3, NothingTaken
<1> QED BY <1>3, <1>4, <1>5, <1>6 DEF HNext

LEMMA SpentHolds == HSpec => []SpentInv
<1>1. HInit => SpentInv
  BY DEF HInit, SpentInv, SpentOK
<1>2. TypeOK /\ ControlBlockAgrees /\ SpentInv /\ [HNext]_hvars => SpentInv'
  BY SpentStep
<1> QED BY <1>1, <1>2, TypesHold, NoneIsMissed, PTL DEF HSpec

\* A step that sends a command is one that takes it, and it was in hand.
LEMMA SendingTakes ==
  ASSUME TypeOK, [HNext]_hvars, sent' # {}, ~UNCHANGED hvars
  PROVE  HTake /\ InHand /\ sent' = {<<atp.ats, atp.cmd>>}
<1>1. HTake
  BY DEF HNext, HAppendAts, AppendAts, HLoadAts, LoadAts, HJumpAts, JumpAts, HStart,
         StartAts, HStop, StopAts, HSwitch, SwitchAts, Between, HServiceSwitchPend,
         ServiceSwitchPend, HPass, PassOver, ChecksumFails, DistributionFails, HWait,
         UpdateAppend, ContinueAtsOnFailure, Tick, Wakeup, AtpIdle, RtpTurn
<1>2. InHand /\ sent' \subseteq {<<atp.ats, atp.cmd>>}
  BY <1>1, SendEffect, InlineEffect DEF HTake
<1> QED BY <1>1, <1>2

\* No command is sent twice out of one load, after any jumps back, restarts,
\* switches and appends.
THEOREM EachCommandOnce == HSpec => ExecutedOnce
<1>1. TypeOK /\ SpentInv /\ [HNext]_hvars => [sent' \cap spent = {}]_hvars
  <2> SUFFICES ASSUME TypeOK, SpentInv, [HNext]_hvars, ~UNCHANGED hvars, sent' # {}
               PROVE  sent' \cap spent = {}
    OBVIOUS
  <2>1. InHand /\ sent' = {<<atp.ats, atp.cmd>>}
    BY SendingTakes
  <2>2. atp.ats \in ATSs /\ atp.cmd \in CmdNums
    BY <2>1 DEF InHand, AtpDue, TypeOK, BlockOK, Names
  <2>3. SpentOK(atp.ats, atp.cmd)
    BY <2>2 DEF SpentInv
  <2> QED BY <2>1, <2>3 DEF InHand, SpentOK
<1> QED BY <1>1, TypesHold, SpentHolds, PTL DEF HSpec, ExecutedOnce

\* No command leaves before its second, however the control block got there.
THEOREM NoneIsEarly == HSpec => NeverEarly
<1>1. TypeOK /\ ControlBlockAgrees /\ [HNext]_hvars
        => [Sends /\ atp.ats \notin reloaded => Tag <= now]_hvars
  <2> SUFFICES ASSUME TypeOK, ControlBlockAgrees, [HNext]_hvars, ~UNCHANGED hvars,
                      Sends, atp.ats \notin reloaded
               PROVE  Tag <= now
    OBVIOUS
  <2>1. AtpDue
    BY SendingTakes DEF Sends, InHand
  <2>2. AimedRight(atp, ats[atp.ats])
    BY <2>1, AgreesMeans DEF AtpDue
  <2> QED BY <2>1, <2>2, DueIsNotLate DEF AimedRight, Tag
<1> QED BY <1>1, TypesHold, NoneIsMissed, PTL DEF HSpec, NeverEarly

-----------------------------------------------------------------------------
(* The order in which the commands leave.                                  *)

\* Time and number m come before time and number n.
Precedes(m, n) == m[1] < n[1] \/ (m[1] = n[1] /\ m[2] < n[2])

\* The last command of this run comes before the one the ATP is aimed at.
OrderInv ==
  atp.state = "EXECUTING" /\ atp.ats \notin reloaded =>
    last[1] \in Nat /\ last[2] \in Nat /\ Precedes(last, <<atp.next, atp.cmd>>)

\* A new run begins with no command before it.
LEMMA NewRunInOrder ==
  ASSUME TypeOK', last' = NoneYet
  PROVE  OrderInv'
<1>1. atp'.state = "EXECUTING" => atp'.next \in Times /\ atp'.cmd \in CmdNums
  BY DEF TypeOK, BlockOK, Names
<1>2. last'[1] = 0 /\ last'[2] = 0
  BY DEF NoneYet, NoCmd
<1> QED BY <1>1, <1>2 DEF OrderInv, Precedes, Times, CmdNums

\* The next position holds a command that comes after the present one.
LEMMA NextComesAfter ==
  ASSUME TypeOK, TypeOK', Advances, AimedRight(atp, ats[atp.ats])
  PROVE  /\ Precedes(<<atp.next, atp.cmd>>, <<atp'.next, atp'.cmd>>)
         /\ atp.next \in Nat /\ atp.cmd \in Nat
         /\ atp'.next \in Nat /\ atp'.cmd \in Nat
<1> DEFINE i == ats[atp.ats]
<1>1. i.cmds \in Entries /\ atp.pos \in Nat
  BY DEF TypeOK, BlockOK, Names, Advances, ControlBlock, AtsBuffer
<1>2. /\ atp.cmd \in DOMAIN i.cmds /\ Position(i, atp.cmd) = atp.pos
      /\ i.cmds[atp.cmd].time = atp.next
      /\ atp'.cmd \in DOMAIN i.cmds /\ Position(i, atp'.cmd) = atp.pos + 1
      /\ i.cmds[atp'.cmd].time = atp'.next
  BY DEF Advances, AimedRight
<1> HIDE DEF i
<1>3. Before(i, atp.cmd, atp'.cmd)
  BY <1>1, <1>2, PositionDecides
<1> QED BY <1>1, <1>2, <1>3, BeforeIsByTime DEF Precedes

\* The ATP goes on after a command that is not after the present one.
LEMMA RunInOrder ==
  ASSUME TypeOK, TypeOK', Advances, ControlBlockAgrees, OrderInv, UNCHANGED reloaded,
         UNCHANGED last \/ last' = <<Tag, atp.cmd>>
  PROVE  OrderInv'
<1> SUFFICES ASSUME atp.ats \notin reloaded
             PROVE  OrderInv'
  BY DEF Advances, OrderInv
<1>1. AimedRight(atp, ats[atp.ats]) /\ atp.state = "EXECUTING"
  BY AgreesMeans DEF Advances
<1> DEFINE t == atp.next
           c == atp.cmd
           u == atp'.next
           d == atp'.cmd
<1>2. /\ t < u \/ (t = u /\ c < d)
      /\ t \in Nat /\ c \in Nat /\ u \in Nat /\ d \in Nat
  BY <1>1, NextComesAfter DEF Precedes
<1>3. last[1] \in Nat /\ last[2] \in Nat
      /\ (last[1] < t \/ (last[1] = t /\ last[2] < c))
  BY <1>1 DEF OrderInv, Precedes
<1>4. Tag = t
  BY <1>1 DEF Tag, AimedRight
<1> HIDE DEF t, c, u, d
<1>5. CASE UNCHANGED last
  <2>1. last'[1] < u \/ (last'[1] = u /\ last'[2] < d)
    BY <1>2, <1>3, <1>5
  <2> QED BY <1>3, <1>5, <2>1 DEF OrderInv, Precedes, u, d
<1>6. CASE last' = <<Tag, atp.cmd>>
  <2>1. last'[1] = t /\ last'[2] = c
    BY <1>4, <1>6 DEF c
  <2> QED BY <1>2, <2>1 DEF OrderInv, Precedes, u, d
<1> QED BY <1>5, <1>6

LEMMA OrderStep ==
  ASSUME TypeOK, ControlBlockAgrees, OrderInv, [HNext]_hvars
  PROVE  OrderInv'
<1>1. TypeOK'
  BY TypeStep
<1>2. Stops => OrderInv'
  BY DEF Stops, OrderInv
<1>3. StaysPut /\ UNCHANGED <<last, reloaded>> => OrderInv'
  BY DEF StaysPut, OrderInv
<1>4. CASE \/ \E a \in ATSs : HAppendAts(a) \/ \E t \in AtsTables : HLoadAts(a, t)
           \/ \E t \in Times : HJumpAts(t)
           \/ HStart \/ HStop \/ HServiceSwitchPend
  <2>1. last' = NoneYet
    BY <1>4 DEF HAppendAts, HLoadAts, HJumpAts, HStart, HStop, HServiceSwitchPend, Aims
  <2> QED BY <1>1, <2>1, NewRunInOrder
<1>5. CASE HSwitch
  BY <1>3, <1>5, SwitchEffect DEF HSwitch
<1>6. CASE HTake
  <2>1. /\ UNCHANGED reloaded
        /\ last' = IF atp'.ats = atp.ats /\ atp'.state = "EXECUTING"
                   THEN <<Tag, atp.cmd>> ELSE NoneYet
    BY <1>6 DEF HTake, Tag
  <2>2. Advances \/ Stops \/ (Restarts /\ atp'.ats # atp.ats)
    BY <1>6, SendEffect, InlineEffect DEF HTake
  <2>3. CASE Advances
    BY <1>1, <2>1, <2>3, RunInOrder DEF Advances
  <2>4. CASE Restarts /\ atp'.ats # atp.ats
    BY <1>1, <2>1, <2>4, NewRunInOrder
  <2> QED BY <1>2, <2>2, <2>3, <2>4
<1>7. CASE HPass
  <2>1. /\ UNCHANGED reloaded
        /\ atp'.state = "EXECUTING" => UNCHANGED last
    BY <1>7 DEF HPass
  <2>2. Advances \/ Stops
    BY <1>7, PassEffect DEF HPass
  <2>3. CASE Advances
    BY <1>1, <2>1, <2>3, RunInOrder DEF Advances
  <2> QED BY <1>2, <2>2, <2>3
<1>8. CASE HWait
  <2>1. StaysPut /\ UNCHANGED <<last, reloaded>>
    BY <1>8, WaitEffect DEF HWait, StaysPut
  <2> QED BY <1>3, <2>1
<1>9. CASE UNCHANGED hvars
  BY <1>3, <1>9 DEF hvars, vars, StaysPut
<1> QED BY <1>4, <1>5, <1>6, <1>7, <1>8, <1>9 DEF HNext

LEMMA OrderHolds == HSpec => []OrderInv
<1>1. HInit => OrderInv
  BY DEF HInit, Init, OrderInv
<1>2. TypeOK /\ ControlBlockAgrees /\ OrderInv /\ [HNext]_hvars => OrderInv'
  BY OrderStep
<1> QED BY <1>1, <1>2, TypesHold, NoneIsMissed, PTL DEF HSpec

\* Between two moves of the ATP the commands leave by time, and those of one
\* second by number, however the buffer was filled.
THEOREM CommandsInOrder == HSpec => InTimeOrder
<1>1. TypeOK /\ ControlBlockAgrees /\ OrderInv /\ [HNext]_hvars
        => [Sends /\ atp.ats \notin reloaded
              => \/ last[1] < Tag
                 \/ last[1] = Tag /\ last[2] < atp.cmd]_hvars
  <2> SUFFICES ASSUME TypeOK, ControlBlockAgrees, OrderInv, [HNext]_hvars,
                      ~UNCHANGED hvars, Sends, atp.ats \notin reloaded
               PROVE  last[1] < Tag \/ (last[1] = Tag /\ last[2] < atp.cmd)
    OBVIOUS
  <2>1. atp.state = "EXECUTING"
    BY SendingTakes DEF Sends, InHand, AtpDue
  <2>2. Tag = atp.next
    BY <2>1, AgreesMeans DEF AimedRight, Tag
  <2>3. Precedes(last, <<atp.next, atp.cmd>>)
    BY <2>1 DEF OrderInv
  <2> QED BY <2>2, <2>3 DEF Precedes
<1> QED BY <1>1, TypesHold, NoneIsMissed, OrderHolds, PTL DEF HSpec, InTimeOrder

-----------------------------------------------------------------------------
(* The switch from one ATS to the other.                                   *)

\* A switch by the ground goes to the other ATS, past the present second.
LEMMA SwitchBegins ==
  ASSUME TypeOK, GroundSwitch, NEW b \in ATSs, b = Other(atp.ats),
         NEW d \in DOMAIN ats[b].cmds
  PROVE  LET start == Begun(Killed(atp), b, ats[b], SwitchStart)
         IN  /\ atp.ats \in ATSs /\ atp.next > now
             /\ atp' = [start EXCEPT !.pend = FALSE]
             /\ ats' = [ats EXCEPT ![b] =
                          WithSkipped(ats[b], Past(ats[b], SwitchStart))]
<1>1. atp.state = "EXECUTING" /\ ~atp'.pend /\ atp.pend /\ ServiceSwitchPend
  BY DEF GroundSwitch, ServiceSwitchPend
<1>2. atp.ats \in ATSs /\ atp.next \in Times /\ now \in Times
  BY <1>1 DEF TypeOK, BlockOK, Names
<1>3. Later(atp.next, now)
  BY <1>1 DEF ServiceSwitchPend
<1>4. atp.next > now
  BY <1>2, <1>3, TimesAreNumbers, LaterIsGreater
<1>5. ats[b].cmds # <<>>
  BY EmptyTable
<1> QED BY <1>1, <1>2, <1>3, <1>4, <1>5 DEF ServiceSwitchPend

\* Where the two buffers overlap, a switch by the ground neither repeats nor
\* misses a command, whatever the two hold.
THEOREM SwitchNeitherRepeatsNorMisses == HSpec => SwitchSeamless
<1>1. TypeOK /\ ControlBlockAgrees /\ SpentInv /\ [HNext]_hvars
        => [\A a, b \in ATSs :
              GroundSwitch /\ a = atp.ats /\ a \notin reloaded /\ b = Other(a) =>
                \A c \in DOMAIN ats[a].cmds, d \in DOMAIN ats[b].cmds :
                  ats[a].cmds[c].time = ats[b].cmds[d].time =>
                    /\ <<a, c>> \in spent => ~ToBeSent(b, d)'
                    /\ ats[a].status[c] = "LOADED" /\ ats[b].status[d] = "LOADED"
                         => ToBeSent(b, d)']_hvars
  <2> SUFFICES ASSUME TypeOK, ControlBlockAgrees, SpentInv,
                      NEW a \in ATSs, NEW b \in ATSs,
                      GroundSwitch, a = atp.ats, a \notin reloaded, b = Other(a),
                      NEW c \in DOMAIN ats[a].cmds, NEW d \in DOMAIN ats[b].cmds,
                      ats[a].cmds[c].time = ats[b].cmds[d].time
               PROVE  /\ <<a, c>> \in spent => ~ToBeSent(b, d)'
                      /\ ats[a].status[c] = "LOADED" /\ ats[b].status[d] = "LOADED"
                           => ToBeSent(b, d)'
    OBVIOUS
  <2> DEFINE i == ats[b]
             t == SwitchStart
             j == WithSkipped(i, Past(i, t))
             n == Begun(Killed(atp), b, i, t)
             T == ats[a].cmds[c].time
  <2>1. /\ atp.next > now /\ atp' = [n EXCEPT !.pend = FALSE]
        /\ ats' = [ats EXCEPT ![b] = j]
    BY SwitchBegins
  <2>2. /\ i \in AtsBuffer /\ i.cmds \in Entries
        /\ ats[a] \in AtsBuffer /\ ats[a].cmds \in Entries
        /\ c \in CmdNums /\ d \in CmdNums /\ T \in Nat /\ now \in Nat
        /\ t \in 0 .. Horizon + 1 /\ t = now + 1
        /\ BlockOK(Killed(atp))
    BY EntriesType, TimesAreNumbers, Killing
       DEF TypeOK, AtsBuffer, Times, SwitchStart
  <2>3. d \in Past(i, t) <=> T < t
    BY <2>2, FirstSplits
  <2>4. /\ j.cmds = i.cmds /\ j \in AtsBuffer
        /\ j.status[d] = IF d \in Past(i, t) THEN "SKIPPED" ELSE i.status[d]
    BY <2>2, Skipping
  <2>5. ats'[b] = j
    <3> HIDE DEF j
    <3> QED BY <2>1 DEF TypeOK
  <2>6. ASSUME <<a, c>> \in spent
        PROVE  ~ToBeSent(b, d)'
    <3>1. T <= now
      BY <2>2, <2>6 DEF SpentInv, SpentOK
    <3>2. ats'[b].status[d] # "LOADED"
      BY <2>2, <2>3, <2>4, <2>5, <3>1
    <3> QED BY <3>2 DEF ToBeSent
  <2>7. ASSUME ats[a].status[c] = "LOADED", ats[b].status[d] = "LOADED"
        PROVE  ToBeSent(b, d)'
    <3>1. AimedRight(atp, ats[a]) /\ NothingBehind(atp, ats[a])
      BY AgreesMeans DEF GroundSwitch
    <3>2. /\ atp.cmd \in DOMAIN ats[a].cmds
          /\ Position(ats[a], atp.cmd) = atp.pos
          /\ ats[a].cmds[atp.cmd].time = atp.next
          /\ ~(Position(ats[a], c) < Position(ats[a], atp.cmd))
      BY <2>7, <3>1 DEF AimedRight, NothingBehind
    <3>3. ~Before(ats[a], c, atp.cmd)
      BY <2>2, <3>2, PositionDecides
    <3>4. atp.next \in Nat /\ ~(T < atp.next)
      BY <2>2, <3>2, <3>3, BeforeIsByTime
    <3>5. d \notin Past(i, t)
      BY <2>1, <2>2, <2>3, <3>4
    <3>6. First(i, t) <= Position(i, d)
      BY <2>2, <3>5, FirstSplits
    <3>7. /\ Position(i, d) \in 1 .. NumberOfCommands(i)
          /\ NumberOfCommands(i) \in Nat
          /\ First(i, t) \in 1 .. NumberOfCommands(i) + 1
      BY <2>2, PositionType, FiniteEntries, FirstSplits
    <3>8. ~(First(i, t) > NumberOfCommands(i))
      BY <3>6, <3>7
    <3>9. /\ BlockOK(n) /\ n.state = "EXECUTING" /\ n.ats = b
          /\ n.pos = First(i, t)
      BY <2>2, <3>8, Beginning
    <3>10. atp'.state = "EXECUTING" /\ atp'.ats = b /\ atp'.pos = First(i, t)
      <4> HIDE DEF n
      <4> QED BY <2>1, <3>9 DEF BlockOK, ControlBlock
    <3>11. ats'[b].status[d] = "LOADED"
      BY <2>4, <2>5, <2>7, <3>5
    <3>12. Position(ats'[b], d) = Position(i, d)
      BY <2>4, <2>5, SameEntries
    <3> QED BY <3>6, <3>7, <3>10, <3>11, <3>12 DEF ToBeSent
  <2> QED BY <2>6, <2>7
<1> QED BY <1>1, TypesHold, NoneIsMissed, SpentHolds, PTL DEF HSpec, SwitchSeamless

\* An idle ATP has a switch pending only if a jump or an append that left no
\* command stopped it.
THEOREM OnlyOrphansPend == HSpec => []PendExplained
<1>1. HInit => PendExplained
  BY DEF HInit, Init, PendExplained
<1>2. TypeOK /\ PendExplained /\ [HNext]_hvars => PendExplained'
  <2> SUFFICES ASSUME TypeOK, PendExplained, [HNext]_hvars,
                      atp'.pend, atp'.state = "IDLE"
               PROVE  orphan'
    BY DEF PendExplained
  <2>1. CASE (\E a \in ATSs : HAppendAts(a)) \/ (\E t \in Times : HJumpAts(t))
    BY <2>1 DEF HAppendAts, HJumpAts, Orphans
  <2>2. CASE \E a \in ATSs : \E t \in AtsTables : HLoadAts(a, t)
    BY <2>2 DEF HLoadAts, LoadAts, PendExplained
  <2>3. CASE HStart
    BY <2>3, StartEffect DEF HStart, PendExplained
  <2>4. CASE HStop
    BY <2>4, StopEffect DEF HStop
  <2>5. CASE HSwitch
    BY <2>5, SwitchEffect DEF HSwitch
  <2>6. CASE HServiceSwitchPend
    BY <2>6, ServiceEffect DEF HServiceSwitchPend, PendExplained
  <2>7. CASE HTake
    BY <2>7, SendEffect, InlineEffect DEF HTake
  <2>8. CASE HPass
    BY <2>8, PassEffect DEF HPass
  <2>9. CASE HWait
    BY <2>9, WaitEffect DEF HWait, PendExplained
  <2>10. CASE UNCHANGED hvars
    BY <2>10 DEF hvars, vars, PendExplained
  <2> QED BY <2>1, <2>2, <2>3, <2>4, <2>5, <2>6, <2>7, <2>8, <2>9, <2>10 DEF HNext
<1> QED BY <1>1, <1>2, TypesHold, PTL DEF HSpec

-----------------------------------------------------------------------------
(* The loop of a wakeup.                                                   *)

\* A turn without a command of the ATP that counted, while one is due, went
\* past another one.
TurnInv == pc = "rtp" /\ AtpDue => passedOver

\* Only a turn of the ATP that did not count leads to a turn of the RTP.
LEMMA TurnStep ==
  ASSUME TurnInv, [HNext]_hvars
  PROVE  TurnInv'
<1> SUFFICES ASSUME pc' = "rtp", AtpDue' PROVE passedOver'
  BY DEF TurnInv
<1>1. CASE HPass
  BY <1>1 DEF HPass
<1>2. CASE AtpIdle
  <2>1. ~AtpDue /\ UNCHANGED <<atp, now>>
    BY <1>2 DEF AtpIdle
  <2> QED BY <2>1 DEF AtpDue, Later
<1>3. CASE UNCHANGED hvars
  <2>1. UNCHANGED <<pc, atp, now, passedOver>>
    BY <1>3 DEF hvars, vars
  <2> QED BY <2>1 DEF TurnInv, AtpDue, Later
<1>4. CASE \/ \E a \in ATSs : HAppendAts(a) \/ \E t \in AtsTables : HLoadAts(a, t)
           \/ \E t \in Times : HJumpAts(t)
           \/ HStart \/ HStop \/ HSwitch
           \/ \E t \in AtsTables : UpdateAppend(t)
           \/ \E flag \in BOOLEAN : ContinueAtsOnFailure(flag)
           \/ Tick
  BY <1>4 DEF HAppendAts, AppendAts, HLoadAts, LoadAts, HJumpAts, JumpAts, HStart,
              StartAts, HStop, StopAts, HSwitch, SwitchAts, UpdateAppend,
              ContinueAtsOnFailure, Tick, Between
<1>5. CASE HServiceSwitchPend \/ Wakeup
  BY <1>5 DEF HServiceSwitchPend, ServiceSwitchPend, Wakeup
<1>6. CASE HTake \/ RtpTurn
  BY <1>6 DEF HTake, SendCommand, InlineSwitch, AtpCounts, RtpTurn, Counted
<1> QED BY <1>1, <1>2, <1>3, <1>4, <1>5, <1>6 DEF HNext, HWait

\* The loop of a wakeup leaves a command of the ATP behind, with turns to
\* spare, only if the ATP went past another one without sending it.
THEOREM NoneIsLeftBehind == HSpec => DueCommandsLeave
<1>1. HInit => TurnInv
  BY DEF HInit, Init, TurnInv
<1>2. TurnInv /\ [HNext]_hvars => TurnInv'
  BY TurnStep
<1>3. TurnInv => [pc = "rtp" /\ pc' = "idle" /\ numCmdsWakeup + 1 < Slots /\ AtpDue
                    => passedOver]_hvars
  BY DEF TurnInv
<1> QED BY <1>1, <1>2, <1>3, PTL DEF HSpec, DueCommandsLeave

=============================================================================
