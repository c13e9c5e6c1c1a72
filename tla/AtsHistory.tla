----------------------------- MODULE AtsHistory ----------------------------
(***************************************************************************)
(* The Absolute Time Processor with a memory of what it has taken out of   *)
(* the two sequences, and the properties that relate its control block and *)
(* tables to that memory.                                                  *)
(***************************************************************************)
EXTENDS AtsEngine

VARIABLES
  spent,        \* the commands taken since they were loaded or appended
  reloaded,     \* the ATSs whose last load came while they executed
  last,         \* time and number of the last command of this run
  orphan,       \* a jump or an append stopped the ATP with a switch pending
  passedOver    \* in this turn the ATP went past a command without sending

hvars == <<vars, spent, reloaded, last, orphan, passedOver>>

NoneYet == <<0, NoCmd>>

HInit == /\ Init
         /\ spent = {}
         /\ reloaded = {}
         /\ last = NoneYet
         /\ orphan = FALSE
         /\ passedOver = FALSE

\* The last step stopped the ATP without cancelling the switch.
Orphans == orphan' = (atp'.pend /\ atp'.state = "IDLE")

\* The ATP is aimed at another place of an ATS, and a new run begins.
Aims == last' = NoneYet /\ passedOver' = FALSE

HLoadAts(a, t) ==
  /\ LoadAts(a, t)
  /\ spent' = spent \ ({a} \X CmdNums)
  /\ reloaded' = IF atp.state = "EXECUTING" /\ atp.ats = a THEN reloaded \cup {a}
                 ELSE reloaded \ {a}
  /\ UNCHANGED orphan
  /\ Aims

HAppendAts(a) ==
  /\ AppendAts(a)
  /\ spent' = spent \ ({a} \X DOMAIN append)
  /\ UNCHANGED reloaded
  /\ Orphans
  /\ Aims

HJumpAts(t) ==
  /\ JumpAts(t)
  /\ UNCHANGED <<spent, reloaded>>
  /\ Orphans
  /\ Aims

HStart == /\ \E a \in ATSs : StartAts(a)
          /\ UNCHANGED <<spent, reloaded>>
          /\ orphan' = (orphan /\ atp'.state = "IDLE")
          /\ Aims

HStop == /\ StopAts
         /\ UNCHANGED <<spent, reloaded>>
         /\ orphan' = FALSE
         /\ Aims

HSwitch == /\ SwitchAts
           /\ UNCHANGED <<spent, reloaded, last>>
           /\ orphan' = FALSE
           /\ passedOver' = FALSE

HServiceSwitchPend == /\ ServiceSwitchPend
                      /\ UNCHANGED <<spent, reloaded>>
                      /\ orphan' = (orphan /\ atp'.pend)
                      /\ Aims

\* What the ATP takes out of an ATS is spent, an inline switch included.
HTake == /\ SendCommand \/ InlineSwitch
         /\ spent' = spent \cup sent'
         /\ last' = IF atp'.ats = atp.ats /\ atp'.state = "EXECUTING"
                    THEN <<ats[atp.ats].cmds[atp.cmd].time, atp.cmd>> ELSE NoneYet
         /\ orphan' = FALSE
         /\ passedOver' = FALSE
         /\ UNCHANGED reloaded

HPass == /\ PassOver \/ ChecksumFails \/ DistributionFails
         /\ passedOver' = (pc' = "rtp")
         /\ last' = IF atp'.state = "EXECUTING" THEN last ELSE NoneYet
         /\ UNCHANGED <<spent, reloaded, orphan>>

HWait == /\ \/ \E t \in AtsTables : UpdateAppend(t)
            \/ \E flag \in BOOLEAN : ContinueAtsOnFailure(flag)
            \/ Tick \/ Wakeup \/ AtpIdle \/ RtpTurn
         /\ UNCHANGED <<spent, reloaded, last, orphan>>
         /\ passedOver' = FALSE

HNext ==
  \/ \E a \in ATSs : HAppendAts(a) \/ \E t \in AtsTables : HLoadAts(a, t)
  \/ \E t \in Times : HJumpAts(t)
  \/ HStart \/ HStop \/ HSwitch \/ HServiceSwitchPend \/ HTake \/ HPass \/ HWait

HSpec == HInit /\ [][HNext]_hvars

-----------------------------------------------------------------------------

Sends == sent' # {}
Tag == ats[atp.ats].cmds[atp.cmd].time

\* No command is sent twice out of one load: not after a jump back, a restart,
\* a switch to and fro or an append that starts the ATS over.
ExecutedOnce == [][sent' \cap spent = {}]_hvars

\* No command leaves before its second, however the control block got there,
\* as long as the ATS was not loaded over while it executed.
NeverEarly == [][Sends /\ atp.ats \notin reloaded => Tag <= now]_hvars

\* Between two moves of the ATP (start, switch, jump, append) the commands
\* leave by time, and those of one second by number.
InTimeOrder ==
  [][Sends /\ atp.ats \notin reloaded
       => \/ last[1] < Tag
          \/ last[1] = Tag /\ last[2] < atp.cmd]_hvars

\* While an ATS executes, the copies of number and time in the control block
\* are those of the entry it points to, and no command before that entry is
\* still to be sent: none is missed.
ControlBlockAgrees ==
  LET i == ats[atp.ats]
  IN atp.state = "EXECUTING" /\ atp.ats \notin reloaded
       => /\ atp.cmd \in DOMAIN i.cmds
          /\ Position(i, atp.cmd) = atp.pos
          /\ i.cmds[atp.cmd].time = atp.next
          /\ \A c \in DOMAIN i.cmds :
               Position(i, c) < atp.pos => i.status[c] # "LOADED"

\* The ATP is on its way to send command c of ATS a.
ToBeSent(a, c) ==
  /\ atp.state = "EXECUTING" /\ atp.ats = a
  /\ ats[a].status[c] = "LOADED"
  /\ Position(ats[a], c) >= atp.pos

GroundSwitch == ServiceSwitchPend /\ atp.state = "EXECUTING" /\ ~atp'.pend

\* "sending the Switch ATS command from the ground will not cause any
\* duplicate commands to be sent out to the data system, nor any missed
\* commands" (cfs_sc.dox): where the two buffers overlap, the new one sends
\* what the old one did not, and nothing that it did.
SwitchSeamless ==
  [][\A a, b \in ATSs :
       GroundSwitch /\ a = atp.ats /\ a \notin reloaded /\ b = Other(a) =>
         \A c \in DOMAIN ats[a].cmds, d \in DOMAIN ats[b].cmds :
           ats[a].cmds[c].time = ats[b].cmds[d].time =>
             /\ <<a, c>> \in spent => ~ToBeSent(b, d)'
             /\ ats[a].status[c] = "LOADED" /\ ats[b].status[d] = "LOADED"
                  => ToBeSent(b, d)']_hvars

\* An idle ATP has a switch pending only if a jump or an append that left no
\* command stopped it: a stop by the ground, the end of the ATS and an abort
\* all cancel the switch.
PendExplained == atp.pend /\ atp.state = "IDLE" => orphan

\* The loop of a wakeup leaves a command of the ATP behind, with turns to
\* spare, only if the ATP went past another one without sending it.
DueCommandsLeave ==
  [][pc = "rtp" /\ pc' = "idle" /\ numCmdsWakeup + 1 < Slots /\ AtpDue
       => passedOver]_hvars

-----------------------------------------------------------------------------
(* What the documentation says, and the code does not do.                  *)

\* A pending switch means that an ATS executes: "this should only happen if
\* the switch flag gets corrupted" (sc_atsrq.c, of the other case).
PendOnlyWhileExecuting == atp.pend => atp.state = "EXECUTING"

=============================================================================
