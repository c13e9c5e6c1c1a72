----------------------------- MODULE RtsHistory ----------------------------
(***************************************************************************)
(* The Relative Time Processor with a memory of what it has sent, and the  *)
(* properties that relate its tables to that memory.                       *)
(***************************************************************************)
EXTENDS RtsEngine

VARIABLES
  since,      \* per RTS: the wakeup of its start or of its last command
  ran,        \* per RTS: the commands sent since its start
  started,    \* per RTS: the table it was started with
  last        \* due wakeup and number of the last command sent in this wakeup

hvars == <<vars, since, ran, started, last>>

NoneYet == <<0, NoRts>>

HInit == /\ Init
         /\ since = [r \in RTSs |-> 0]
         /\ ran = [r \in RTSs |-> 0]
         /\ started = [r \in RTSs |-> <<>>]
         /\ last = NoneYet

\* What a step starts and sends, and what goes on executing.
Starts(r) == rts[r].status # "EXECUTING" /\ rts'[r].status = "EXECUTING"
Sends(r) == sent' = {<<r, rts[r].next>>}

\* Nothing is remembered of a sequence that does not execute.
Remember(r, onStart, onSend, else, idle) ==
  CASE rts'[r].status # "EXECUTING"                    -> idle
    [] rts'[r].status = "EXECUTING" /\ Starts(r)       -> onStart
    [] rts'[r].status = "EXECUTING" /\ ~Starts(r) /\ Sends(r)  -> onSend
    [] rts'[r].status = "EXECUTING" /\ ~Starts(r) /\ ~Sends(r) -> else

HNext ==
  /\ Next
  /\ since' = [r \in RTSs |-> Remember(r, wakeups, wakeups, since[r], 0)]
  /\ ran' = [r \in RTSs |-> Remember(r, 0, ran[r] + 1, ran[r], 0)]
  /\ started' = [r \in RTSs |->
                   Remember(r, table[r], started[r], started[r], <<>>)]
  /\ last' = IF \E r \in RTSs : Sends(r)
             THEN LET r == CHOOSE r \in RTSs : Sends(r) IN <<rts[r].target, r>>
             ELSE IF inWakeup' THEN last ELSE NoneYet

HSpec == HInit /\ [][HNext]_hvars

-----------------------------------------------------------------------------
\* The tables hold what their types say, and a wakeup never takes more turns
\* than SC_MAX_CMDS_PER_WAKEUP.
HTypeOK ==
  /\ rts \in [RTSs -> RtsInfo]
  /\ table \in [RTSs -> RtsTables \cup {<<>>}]
  /\ numRtsActive \in Nat
  /\ wakeups \in Counts
  /\ inWakeup \in BOOLEAN
  /\ numCmdsWakeup \in 0 .. Slots
  /\ autoStartRts \in RTSs \cup {NoRts}
  /\ sent \in SUBSET (RTSs \X Nat)
  /\ since \in [RTSs -> Counts]
  /\ ran \in [RTSs -> Nat]
  /\ started \in [RTSs -> RtsTables \cup {<<>>}]
  /\ last \in Counts \X (RTSs \cup {NoRts})

\* Housekeeping never reports fewer active sequences than there are: every
\* start, of one or of a group, is counted once, and every end at most once.
ActiveCountCovers == Cardinality(Executing) <= numRtsActive

\* A sequence that executes executes the table it was started with, and has
\* sent exactly the commands before the next one: no command of a start is
\* skipped or sent twice, and no other load creeps in below it.
RunsWhatItStarted ==
  \A r \in Executing : table[r] = started[r] /\ ran[r] = rts[r].next - 1

\* The wait of the command an executing sequence sends next.
NextWait(r) == IF rts[r].next <= Len(table[r]) THEN table[r][rts[r].next].wait ELSE 0

\* A command leaves no earlier than its wait after the command before it (or
\* the start), unless the sum does not fit the wakeup counter.
DelaysHonoured ==
  [][\A r \in RTSs :
       Sends(r) /\ since[r] + NextWait(r) <= MaxWakeup
         => wakeups >= since[r] + NextWait(r)]_hvars

\* No wait of any table runs past the end of the wakeup counter yet.
Horizon ==
  \A t \in RtsTables : \A k \in 1 .. Len(t) : wakeups + t[k].wait <= MaxWakeup

\* Within a wakeup, commands of sequences leave in the order in which they
\* fell due, the lower number first among those of one wakeup.
DispatchOrdered ==
  [][\A r \in RTSs :
       Sends(r) /\ Horizon
         => \/ last[1] < rts[r].target
            \/ last[1] = rts[r].target /\ last[2] <= r]_hvars

\* With turns enough for every sequence beside the ATP, a command is sent in
\* the wakeup it falls due or in the one after: sequences do not starve each
\* other however their waits are chosen.
Punctual ==
  Horizon /\ ~inWakeup /\ NumRts + AtsShare <= Slots
    => \A r \in Executing : rts[r].target >= wakeups

=============================================================================
