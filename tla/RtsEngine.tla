----------------------------- MODULE RtsEngine -----------------------------
(***************************************************************************)
(* The Relative Time Processor of the Stored Command application           *)
(* (apps/sc/fsw/src): the RTS information table, the commands that start,  *)
(* stop, enable, disable and reload relative time sequences, and the       *)
(* wakeup that sends the commands that are due.                            *)
(*                                                                         *)
(* SC is one task that takes one message at a time, so a command is one    *)
(* atomic action.  A wakeup is split into one action per turn of its loop, *)
(* because each turn puts a command on the software bus where a task of    *)
(* higher priority may take it at once.                                    *)
(*                                                                         *)
(* The ATP goes first in every turn and the time it works with is taken    *)
(* once per message, so what it takes of a wakeup is a number of turns at  *)
(* the start.  Counters that only telemetry reads are left out, NumRtsActive *)
(* excepted, so a rejected command is a stuttering step.                   *)
(***************************************************************************)
EXTENDS Integers, Sequences, FiniteSets

CONSTANTS
  NumRts,           \* SC_NUMBER_OF_RTS
  Slots,            \* SC_MAX_CMDS_PER_WAKEUP
  AtsShare,         \* the most commands the ATP sends in one wakeup
  MaxWakeup,        \* SC_MAX_WAKEUP_CNT, the largest 32 bit count
  RtsTables,        \* the tables that may be loaded
  AutoRts           \* RTS_ID_AUTO_POWER_ON or RTS_ID_AUTO_PROCESSOR

RTSs == 1 .. NumRts
NoRts == 0                 \* SC_RTS_NUM_NULL
Counts == 0 .. MaxWakeup

\* An entry of a table: how long to wait, and whether its checksum is good.
\* An empty sequence is a table of zeroes, which the table services accept.
RtsCommand == [wait : Counts, good : BOOLEAN]

ASSUME RtsEngineAssumption ==
  /\ NumRts \in Nat \ {0}
  /\ Slots \in Nat \ {0}
  /\ AtsShare \in 0 .. Slots
  /\ MaxWakeup \in Nat
  /\ RtsTables # {} /\ RtsTables \subseteq Seq(RtsCommand)
  /\ AutoRts \in RTSs

VARIABLES
  rts,              \* SC_RtsInfoEntry_t per RTS
  table,            \* the commands in the buffer of each RTS
  numRtsActive,     \* RtsCtrlBlckAddr->NumRtsActive
  wakeups,          \* CurrentWakeupCount
  inWakeup,         \* SC_WakeupCmd is in its loop
  numCmdsWakeup,    \* NumCmdsWakeup
  autoStartRts,     \* AutoStartRTS
  sent              \* the command the last step put on the bus, if any

vars == <<rts, table, numRtsActive, wakeups, inWakeup, numCmdsWakeup,
          autoStartRts, sent>>

RtsStatus == {"EMPTY", "LOADED", "EXECUTING"}
RtsInfo == [status : RtsStatus, disabled : BOOLEAN, next : Nat \ {0},
            target : Counts]

Executing == {r \in RTSs : rts[r].status = "EXECUTING"}

\* Fault: a sequence that executes goes on with what was loaded over it.
FaultyLoaded(i) ==
  IF i.status = "EXECUTING" THEN [i EXCEPT !.disabled = TRUE]
  ELSE [i EXCEPT !.status = "LOADED", !.next = 1, !.target = 0, !.disabled = TRUE]

\* SC_LoadRts
Loaded(i) == [i EXCEPT !.status = "LOADED", !.next = 1, !.target = 0,
                       !.disabled = TRUE]

EmptyRts == [status |-> "EMPTY", disabled |-> TRUE, next |-> 1, target |-> MaxWakeup]

\* SC_InitTables: some of the sequences have a default table that loads.
Init == /\ \E loaded \in SUBSET RTSs :
             /\ rts = [r \in RTSs |-> IF r \in loaded THEN Loaded(EmptyRts)
                                                     ELSE EmptyRts]
             /\ table \in [RTSs -> RtsTables \cup {<<>>}]
             /\ \A r \in RTSs : IF r \in loaded THEN table[r] \in RtsTables
                                                ELSE table[r] = <<>>
        /\ numRtsActive = 0
        /\ wakeups = 0
        /\ inWakeup = FALSE
        /\ numCmdsWakeup = 0
        /\ autoStartRts = AutoRts
        /\ sent = {}

-----------------------------------------------------------------------------
\* Fault: the wait is counted from the start of SC.
FaultyAbsWakeup(relWakeup) == relWakeup % (MaxWakeup + 1)

\* SC_ComputeAbsWakeup adds in 32 bits.
ComputeAbsWakeup(relWakeup) == (wakeups + relWakeup) % (MaxWakeup + 1)

\* SC_KillRts on an executing RTS.
Killed(i) == [i EXCEPT !.status = "LOADED", !.target = MaxWakeup]

Started(r) == [rts[r] EXCEPT !.status = "EXECUTING", !.next = 1,
                !.target = ComputeAbsWakeup(IF table[r] = <<>> THEN 0
                                            ELSE table[r][1].wait)]

\* Fault: a group start does not count the sequences it starts.
FaultyStart(rs) ==
  /\ rts' = [r \in RTSs |-> IF r \in rs THEN Started(r) ELSE rts[r]]
  /\ numRtsActive' = IF rs = {} THEN numRtsActive ELSE numRtsActive + 1
  /\ sent' = {}
  /\ UNCHANGED <<table, wakeups, inWakeup, numCmdsWakeup, autoStartRts>>

Start(rs) ==
  /\ rts' = [r \in RTSs |-> IF r \in rs THEN Started(r) ELSE rts[r]]
  /\ numRtsActive' = numRtsActive + Cardinality(rs)
  /\ sent' = {}
  /\ UNCHANGED <<table, wakeups, inWakeup, numCmdsWakeup, autoStartRts>>

\* SC_KillRts for the executing sequences rs: NumRtsActive stops at zero.
Less(n, k) == IF n >= k THEN n - k ELSE 0

Stop(rs) ==
  /\ rts' = [r \in RTSs |-> IF r \in rs THEN Killed(rts[r]) ELSE rts[r]]
  /\ numRtsActive' = Less(numRtsActive, Cardinality(rs))
  /\ sent' = {}
  /\ UNCHANGED <<table, wakeups, inWakeup, numCmdsWakeup, autoStartRts>>

Startable(r) == ~rts[r].disabled /\ rts[r].status = "LOADED"

\* SC_StartRtsCmd: the length of an absent first command is no valid length.
StartRts(r) == ~inWakeup /\ Startable(r) /\ table[r] # <<>> /\ Start({r})

\* SC_StartRtsGrpCmd starts those of the group that can be; it does not look
\* at the first command.
StartRtsGrp(first, last) ==
  /\ ~inWakeup /\ first <= last
  /\ Start({r \in first .. last : Startable(r)})

\* SC_StopRtsCmd, SC_StopRtsGrpCmd.
StopRtsGrp(first, last) ==
  /\ ~inWakeup /\ first <= last
  /\ Stop(Executing \cap first .. last)

\* SC_EnableRtsCmd, SC_DisableRtsCmd and their group forms.  A sequence that
\* executes is left to finish.
SetDisabled(first, last, flag) ==
  /\ ~inWakeup /\ first <= last
  /\ rts' = [r \in RTSs |-> IF r \in first .. last
                            THEN [rts[r] EXCEPT !.disabled = flag] ELSE rts[r]]
  /\ sent' = {}
  /\ UNCHANGED <<table, numRtsActive, wakeups, inWakeup, numCmdsWakeup,
                 autoStartRts>>

\* SC_ManageTable for RTS r: the table services have accepted the table t.
ManageRtsTable(r, t) ==
  /\ ~inWakeup
  /\ table' = [table EXCEPT ![r] = t]
  /\ rts' = [rts EXCEPT ![r] = Loaded(@)]
  /\ sent' = {}
  /\ UNCHANGED <<numRtsActive, wakeups, inWakeup, numCmdsWakeup, autoStartRts>>

\* SC_SendHkCmd: the first request enables the auto-start RTS if it is loaded
\* and sends SC the command to start it, which arrives as any other start.
SendHk ==
  /\ ~inWakeup
  /\ rts' = [r \in RTSs |-> IF r = autoStartRts /\ rts[r].status = "LOADED"
                            THEN [rts[r] EXCEPT !.disabled = FALSE] ELSE rts[r]]
  /\ autoStartRts' = NoRts
  /\ sent' = {}
  /\ UNCHANGED <<table, numRtsActive, wakeups, inWakeup, numCmdsWakeup>>

-----------------------------------------------------------------------------
(* The wakeup.                                                             *)

\* SC_WakeupCmd begins; the ATP takes ats turns.  The count is not explored
\* beyond its last value.
Wakeup(ats) ==
  /\ ~inWakeup /\ wakeups < MaxWakeup
  /\ wakeups' = wakeups + 1
  /\ inWakeup' = TRUE
  /\ numCmdsWakeup' = ats
  /\ sent' = {}
  /\ UNCHANGED <<rts, table, numRtsActive, autoStartRts>>

\* Fault: the number decides before the wakeup does.
FaultyBefore(q, r) == q < r

\* Fault: the scan of SC_GetNextRtsTime prefers the higher number.
FaultyTie(q, r) ==
  \/ rts[q].target < rts[r].target
  \/ rts[q].target = rts[r].target /\ q > r

\* Among executing sequences: the earlier wakeup, then the lower number.
Before(q, r) ==
  \/ rts[q].target < rts[r].target
  \/ rts[q].target = rts[r].target /\ q < r

\* SC_GetNextRtsTime: r becomes CurrRtsNum.
IsNextRts(r) ==
  r \in Executing /\ \A q \in Executing \ {r} : Before(r, q)

Due(r) == rts[r].target <= wakeups

\* SC_GetNextRtsCommand after command k of r: the next one, or the end.
Advanced(r) ==
  LET k == rts[r].next
  IN IF k < Len(table[r])
     THEN [rts[r] EXCEPT !.next = k + 1,
                         !.target = ComputeAbsWakeup(table[r][k + 1].wait)]
     ELSE Killed(rts[r])

\* The command that r would send; behind an empty table there is none whose
\* checksum or message ID would do.
Sendable(r) == rts[r].next <= Len(table[r]) /\ table[r][rts[r].next].good

\* Fault: one turn too many.
FaultyTurn(r) ==
  /\ inWakeup /\ numCmdsWakeup <= Slots
  /\ IsNextRts(r) /\ Due(r)
  /\ numCmdsWakeup' = numCmdsWakeup + 1
  /\ UNCHANGED <<table, wakeups, inWakeup, autoStartRts>>

Turn(r) ==
  /\ inWakeup /\ numCmdsWakeup < Slots
  /\ IsNextRts(r) /\ Due(r)
  /\ numCmdsWakeup' = numCmdsWakeup + 1
  /\ UNCHANGED <<table, wakeups, inWakeup, autoStartRts>>

\* SC_ProcessRtpCommand, the command sent.
RtpCommand(r) ==
  /\ Turn(r) /\ Sendable(r)
  /\ rts' = [rts EXCEPT ![r] = Advanced(r)]
  /\ numRtsActive' = IF Advanced(r).status = "EXECUTING" THEN numRtsActive
                     ELSE Less(numRtsActive, 1)
  /\ sent' = {<<r, rts[r].next>>}

\* SC_ProcessRtpCommand, a bad checksum or an error of the software bus.
RtpFailure(r) ==
  /\ Turn(r)
  /\ rts' = [rts EXCEPT ![r] = Killed(@)]
  /\ numRtsActive' = Less(numRtsActive, 1)
  /\ sent' = {}

\* The loop of SC_WakeupCmd ends: no turn left, or the next command
\* is not due.
EndWakeup ==
  /\ inWakeup
  /\ numCmdsWakeup = Slots \/ \A r \in RTSs : ~(IsNextRts(r) /\ Due(r))
  /\ inWakeup' = FALSE
  /\ numCmdsWakeup' = 0
  /\ sent' = {}
  /\ UNCHANGED <<rts, table, numRtsActive, wakeups, autoStartRts>>

Command ==
  \E r \in RTSs :
    \/ StartRts(r)
    \/ \E t \in RtsTables : ManageRtsTable(r, t)
    \/ \E last \in RTSs :
         \/ StartRtsGrp(r, last)
         \/ StopRtsGrp(r, last)
         \/ \E flag \in BOOLEAN : SetDisabled(r, last, flag)

Loop == EndWakeup \/ \E r \in RTSs : RtpCommand(r) \/ RtpFailure(r)

Next == Command \/ SendHk \/ (\E ats \in 0 .. AtsShare : Wakeup(ats)) \/ Loop

Spec == Init /\ [][Next]_vars

=============================================================================
