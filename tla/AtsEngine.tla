----------------------------- MODULE AtsEngine -----------------------------
(***************************************************************************)
(* The Absolute Time Processor of the Stored Command application           *)
(* (apps/sc/fsw/src): the two absolute time sequences (ATS), the table     *)
(* that is appended to them, the commands that start, stop, switch, jump   *)
(* and append, and the part of a wakeup that sends what is due.            *)
(*                                                                         *)
(* SC reads the clock once per message, so `now' moves only between        *)
(* messages.  A wakeup is a loop; each turn services a pending switch,     *)
(* gives the ATP a command to process, and the Relative Time Processor     *)
(* one if the ATP did not count its own.                                   *)
(*                                                                         *)
(* An entry of an ATS stands for its packet in the buffer; the offset      *)
(* table, NumberOfCommands and the time index table are functions of the   *)
(* entries, rebuilt whenever those change.  That an entry carries another  *)
(* number than the one it was indexed by takes a corrupted memory and is   *)
(* left out.  Counters that only telemetry reads are left out.             *)
(***************************************************************************)
EXTENDS Integers, FiniteSets

CONSTANTS
  MaxCmds,          \* SC_MAX_ATS_CMDS
  Slots,            \* SC_MAX_CMDS_PER_WAKEUP
  BuffSize,         \* SC_ATS_BUFF_SIZE32, in entries
  MaxTime,          \* SC_MAX_TIME, the largest 32 bit time
  HalfTime,         \* CFE_TIME_NEGATIVE, half the range of time
  Horizon,          \* the last second of the mission
  AtsTables         \* the tables that may be loaded, appended ones included

ATSs == {1, 2}                        \* SC_NUMBER_OF_ATS
NoAts == 0                            \* SC_ATS_NUM_NULL
CmdNums == 1 .. MaxCmds
NoCmd == 0                            \* SC_INVALID_CMD_NUMBER
Times == 0 .. Horizon

\* A command of another task, one with a bad checksum, or SWITCH_ATS to SC.
Kinds == {"command", "corrupt", "switch"}
AtsEntry == [time : Times, kind : Kinds]
Entries == UNION {[nums -> AtsEntry] : nums \in SUBSET CmdNums}

ASSUME AtsEngineAssumption ==
  /\ MaxCmds \in Nat \ {0} /\ Slots \in Nat \ {0} /\ BuffSize \in Nat
  /\ Horizon \in Nat /\ HalfTime \in Nat /\ MaxTime \in Nat
  /\ Horizon < HalfTime /\ HalfTime < MaxTime - Horizon
  /\ AtsTables \subseteq Entries
  /\ \A t \in AtsTables : DOMAIN t # {} /\ Cardinality(DOMAIN t) <= BuffSize

VARIABLES
  atp,              \* SC_AtpControlBlock_t, and NextCmdTime[SC_Process_ATP]
  ats,              \* per ATS: entries, command status table, AtsSize
  append,           \* the entries of the Append table
  continue,         \* ContinueAtsOnFailureFlag
  now,              \* CurrentTime
  pc,               \* where SC is in SC_WakeupCmd
  numCmdsWakeup,    \* NumCmdsWakeup
  sent              \* the command the last step took out of an ATS, if any

vars == <<atp, ats, append, continue, now, pc, numCmdsWakeup, sent>>

EmptyAts == [cmds |-> <<>>, status |-> [c \in CmdNums |-> "EMPTY"], size |-> 0]

\* SC_InitTables: no ATS is loaded by default.
Init == /\ atp = [state |-> "IDLE", ats |-> NoAts, cmd |-> NoCmd, pos |-> 0,
                  next |-> MaxTime, pend |-> FALSE]
        /\ ats = [a \in ATSs |-> EmptyAts]
        /\ append = <<>>
        /\ continue = TRUE
        /\ now \in Times
        /\ pc = "idle"
        /\ numCmdsWakeup = 0
        /\ sent = {}

-----------------------------------------------------------------------------
\* SC_CompareAbsTime: a difference of more than half the range is a rollover.
Later(t, u) == IF t > u THEN t - u <= HalfTime ELSE u - t > HalfTime

\* Fault: of the commands of one second, the higher number goes first.
FaultyBefore(i, c, d) ==
  \/ Later(i.cmds[d].time, i.cmds[c].time)
  \/ i.cmds[d].time = i.cmds[c].time /\ c > d

\* SC_Insert, one command number after the other: by time, then by number.
Before(i, c, d) ==
  \/ Later(i.cmds[d].time, i.cmds[c].time)
  \/ i.cmds[d].time = i.cmds[c].time /\ c < d

\* SC_BuildTimeIndexTable: the command at position k of the time index table.
NumberOfCommands(i) == Cardinality(DOMAIN i.cmds)
Position(i, c) == 1 + Cardinality({d \in DOMAIN i.cmds : Before(i, d, c)})
CmdAt(i, k) == CHOOSE c \in DOMAIN i.cmds : Position(i, c) = k

\* The commands that a start or a jump to time t leaves behind, and the
\* position of the first that it does not.
Past(i, t) == {c \in DOMAIN i.cmds : Later(t, i.cmds[c].time)}
First(i, t) == 1 + Cardinality(Past(i, t))

\* Fault: the time of the next command is not brought up to date.
FaultyAimedAt(b, i, k) == [b EXCEPT !.pos = k, !.cmd = CmdAt(i, k)]

\* The control block aimed at position k of the ATS i.
AimedAt(b, i, k) ==
  [b EXCEPT !.pos = k, !.cmd = CmdAt(i, k), !.next = i.cmds[CmdAt(i, k)].time]

\* SC_KillAts
Killed(b) == [b EXCEPT !.state = "IDLE", !.next = MaxTime]

\* SC_BeginAts: what it does to the control block and to the status table.
Begun(b, a, i, start) ==
  IF First(i, start) > NumberOfCommands(i) THEN Killed(b)
  ELSE AimedAt([b EXCEPT !.ats = a, !.state = "EXECUTING"], i, First(i, start))

WithSkipped(i, skipped) ==
  [i EXCEPT !.status = [c \in CmdNums |-> IF c \in skipped THEN "SKIPPED"
                                                           ELSE @[c]]]

\* Fault: the end of an ATS does not cancel the switch.
FaultyEnded(b) == Killed(b)

\* The ATP stops an ATS: its end, or a command that aborts it.
Ended(b) == [Killed(b) EXCEPT !.pend = FALSE]

\* SC_GetNextAtsCommand on an ATS that executes.
Advanced(b) ==
  LET i == ats[b.ats]
  IN IF b.pos + 1 <= NumberOfCommands(i) THEN AimedAt(b, i, b.pos + 1)
     ELSE Ended(b)

Other(a) == 3 - a                     \* SC_ToggleAtsIndex

-----------------------------------------------------------------------------
(* Commands of the ground, table services and the clock.                   *)

Between == pc = "idle" /\ sent' = {} /\ UNCHANGED <<pc, numCmdsWakeup>>

\* SC_StartAtsCmd
StartAts(a) ==
  /\ Between
  /\ atp.state = "IDLE" /\ ats[a].cmds # <<>>
  /\ atp' = Begun(atp, a, ats[a], now)
  /\ ats' = [ats EXCEPT ![a] = WithSkipped(@, Past(@, now))]
  /\ UNCHANGED <<append, continue, now>>

\* SC_StopAtsCmd
StopAts ==
  /\ Between
  /\ atp' = Ended(atp)
  /\ UNCHANGED <<ats, append, continue, now>>

\* SC_SwitchAtsCmd
SwitchAts ==
  /\ Between
  /\ atp' = [atp EXCEPT !.pend = /\ atp.state = "EXECUTING"
                                 /\ ats[Other(atp.ats)].cmds # <<>>]
  /\ UNCHANGED <<ats, append, continue, now>>

\* SC_JumpAtsCmd: only what is still to be sent is skipped.
JumpAts(t) ==
  LET a == atp.ats
      i == ats[a]
  IN /\ Between
     /\ atp.state = "EXECUTING"
     /\ ats' = [ats EXCEPT ![a] =
                  WithSkipped(i, {c \in Past(i, t) : i.status[c] = "LOADED"})]
     /\ atp' = IF First(i, t) > NumberOfCommands(i) THEN Killed(atp)
               ELSE AimedAt(atp, i, First(i, t))
     /\ UNCHANGED <<append, continue, now>>

\* SC_ContinueAtsOnFailureCmd
ContinueAtsOnFailure(flag) ==
  /\ Between
  /\ continue' = flag
  /\ UNCHANGED <<atp, ats, append, now>>

\* SC_ProcessAppend: replaced or new, an appended command is to be sent.
Appended(i) ==
  [cmds   |-> [c \in DOMAIN i.cmds \cup DOMAIN append |->
                 IF c \in DOMAIN append THEN append[c] ELSE i.cmds[c]],
   status |-> [c \in CmdNums |-> IF c \in DOMAIN append THEN "LOADED"
                                 ELSE i.status[c]],
   size   |-> i.size + Cardinality(DOMAIN append)]

\* Fault: an executing ATS is left where it was.
FaultyAppendAts(a) ==
  /\ Between
  /\ ats[a].cmds # <<>> /\ append # <<>>
  /\ Appended(ats[a]).size <= BuffSize
  /\ ats' = [ats EXCEPT ![a] = Appended(@)]
  /\ UNCHANGED <<atp, append, continue, now>>

\* SC_AppendAtsCmd: an ATS that executes is started over.
AppendAts(a) ==
  LET new == Appended(ats[a])
  IN /\ Between
     /\ ats[a].cmds # <<>> /\ append # <<>>
     /\ new.size <= BuffSize
     /\ IF atp.state = "EXECUTING" /\ atp.ats = a
        THEN /\ atp' = Begun(atp, a, new, now)
             /\ ats' = [ats EXCEPT ![a] = WithSkipped(new, Past(new, now))]
        ELSE /\ ats' = [ats EXCEPT ![a] = new]
             /\ UNCHANGED atp
     /\ UNCHANGED <<append, continue, now>>

\* SC_LoadAts through SC_ManageTable.  The ATP is not told.
LoadAts(a, t) ==
  /\ Between
  /\ ats' = [ats EXCEPT ![a] =
               [cmds   |-> t,
                status |-> [c \in CmdNums |-> IF c \in DOMAIN t THEN "LOADED"
                                              ELSE "EMPTY"],
                size   |-> Cardinality(DOMAIN t)]]
  /\ UNCHANGED <<atp, append, continue, now>>

\* SC_UpdateAppend through SC_ManageTable.
UpdateAppend(t) ==
  /\ Between
  /\ append' = t
  /\ UNCHANGED <<atp, ats, continue, now>>

\* The clock between two messages.
Tick ==
  /\ Between
  /\ now' \in {t \in Times : t > now}
  /\ UNCHANGED <<atp, ats, append, continue>>

-----------------------------------------------------------------------------
(* SC_WakeupCmd.                                                           *)

Wakeup ==
  /\ pc = "idle"
  /\ pc' = "turn"
  /\ sent' = {}
  /\ UNCHANGED <<atp, ats, append, continue, now, numCmdsWakeup>>

\* Fault: the new ATS starts with the current second.
FaultySwitchStart == now

\* The second the new ATS starts with after a switch by the ground.
SwitchStart == now + 1

\* SC_ServiceSwitchPend: a pending switch waits for what is due of the old ATS.
ServiceSwitchPend ==
  LET b == Other(atp.ats)
  IN /\ pc = "turn" /\ atp.pend
     /\ pc' = "atp"
     /\ IF ~Later(atp.next, now) THEN UNCHANGED <<atp, ats>>
        ELSE IF atp.state = "EXECUTING" /\ ats[b].cmds # <<>>
        THEN /\ atp' = [Begun(Killed(atp), b, ats[b], SwitchStart)
                          EXCEPT !.pend = FALSE]
             /\ ats' = [ats EXCEPT ![b] = WithSkipped(@, Past(@, SwitchStart))]
        ELSE /\ atp' = [atp EXCEPT !.pend = FALSE]
             /\ UNCHANGED ats
     /\ sent' = {}
     /\ UNCHANGED <<append, continue, now, numCmdsWakeup>>

AtAtp == pc = "atp" \/ (pc = "turn" /\ ~atp.pend)

AtpDue == atp.state = "EXECUTING" /\ ~Later(atp.next, now)

\* A turn that counts, and whether there is another.
Counted ==
  IF numCmdsWakeup + 1 < Slots
  THEN pc' = "turn" /\ numCmdsWakeup' = numCmdsWakeup + 1
  ELSE pc' = "idle" /\ numCmdsWakeup' = 0

Uncounted == pc' = "rtp" /\ UNCHANGED numCmdsWakeup

\* Fault: the loop goes on only after a command of the RTP.
FaultyAtpCounts == Uncounted

AtpCounts == Counted

\* SC_ProcessAtpCmd has a command to look at, of this kind and status.
Processing(kind) ==
  /\ AtAtp /\ AtpDue
  /\ ats[atp.ats].status[atp.cmd] = "LOADED"
  /\ ats[atp.ats].cmds[atp.cmd].kind = kind
  /\ UNCHANGED <<append, continue, now>>

\* Fault: a command is not marked when it has been sent.
FaultyMarked(status) ==
  IF status = "EXECUTED" THEN ats
  ELSE [ats EXCEPT ![atp.ats].status[atp.cmd] = status]

Marked(status) == [ats EXCEPT ![atp.ats].status[atp.cmd] = status]

SendCommand ==
  /\ Processing("command")
  /\ ats' = Marked("EXECUTED")
  /\ atp' = Advanced(atp)
  /\ sent' = {<<atp.ats, atp.cmd>>}
  /\ AtpCounts

\* The software bus refuses the command.
DistributionFails ==
  /\ Processing("command")
  /\ ats' = Marked("FAILED_DISTRIB")
  /\ atp' = Ended(atp)
  /\ sent' = {}
  /\ AtpCounts

ChecksumFails ==
  /\ Processing("corrupt")
  /\ ats' = Marked("FAILED_CHECKSUM")
  /\ atp' = IF continue THEN Advanced(atp) ELSE Ended(atp)
  /\ sent' = {}
  /\ Uncounted

\* SC_InlineSwitch.  The old ATS is stopped before the new one is found to
\* have no command left.  The state STARTING lasts until the next call.
InlineSwitch ==
  LET b == Other(atp.ats)
      skips == Past(ats[b], now)
      starts == First(ats[b], now) <= NumberOfCommands(ats[b])
  IN /\ Processing("switch")
     /\ IF ats[b].cmds = <<>>
        THEN /\ ats' = Marked("FAILED_DISTRIB")
             /\ atp' = Advanced([atp EXCEPT !.pend = FALSE])
        ELSE /\ ats' = [Marked(IF starts THEN "EXECUTED" ELSE "FAILED_DISTRIB")
                          EXCEPT ![b] = WithSkipped(@, skips)]
             /\ atp' = [Begun(Killed(atp), b, ats[b], now) EXCEPT !.pend = FALSE]
     /\ sent' = IF starts THEN {<<atp.ats, atp.cmd>>} ELSE {}
     /\ AtpCounts

\* The command has been executed, skipped or was not in the last load.
PassOver ==
  /\ AtAtp /\ AtpDue
  /\ ats[atp.ats].status[atp.cmd] # "LOADED"
  /\ atp' = Advanced(atp)
  /\ sent' = {}
  /\ Uncounted
  /\ UNCHANGED <<ats, append, continue, now>>

AtpIdle ==
  /\ AtAtp /\ ~AtpDue
  /\ sent' = {}
  /\ Uncounted
  /\ UNCHANGED <<atp, ats, append, continue, now>>

\* The Relative Time Processor has a command for this turn, or the loop ends.
RtpTurn ==
  /\ pc = "rtp"
  /\ \/ Counted
     \/ pc' = "idle" /\ numCmdsWakeup' = 0
  /\ sent' = {}
  /\ UNCHANGED <<atp, ats, append, continue, now>>

Command ==
  \/ \E a \in ATSs : StartAts(a) \/ AppendAts(a)
  \/ StopAts \/ SwitchAts
  \/ \E t \in Times : JumpAts(t)
  \/ \E flag \in BOOLEAN : ContinueAtsOnFailure(flag)

Manage == \E t \in AtsTables : UpdateAppend(t) \/ \E a \in ATSs : LoadAts(a, t)

ProcessAtpCmd ==
  SendCommand \/ DistributionFails \/ ChecksumFails \/ InlineSwitch
    \/ PassOver \/ AtpIdle

Next == Command \/ Manage \/ Tick \/ Wakeup \/ ServiceSwitchPend
          \/ ProcessAtpCmd \/ RtpTurn

Spec == Init /\ [][Next]_vars

=============================================================================
