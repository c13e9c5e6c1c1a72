----------------------------- MODULE FdirLoop -----------------------------
(***************************************************************************)
(* The fault detection and recovery loop of this project: the scheduler    *)
(* wakes SC every second; RTS 1 starts RTS 3, which has LC sample its two  *)
(* actionpoints and then starts itself again; an actionpoint that fires    *)
(* has SC start RTS 4, which arms both actionpoints again.                 *)
(*                                                                         *)
(* LC, SC and the ground are concurrent; each application takes one        *)
(* message at a time from a bounded pipe, and a message that finds no room *)
(* is dropped while its sender is told that it was sent.  The tables are   *)
(* those of the project, the engines are RtsEngine and LimitChecker with   *)
(* what the loop does not use left out.                                    *)
(***************************************************************************)
EXTENDS Integers, Sequences, FiniteSets

CONSTANTS
  StartupWait,      \* wait before the commands 2 to 4 of RTS 1
  MaxFails,         \* MaxFailsBeforeRTS of both actionpoints
  PipeDepth,        \* LC_PIPE_DEPTH, SC_PIPE_DEPTH
  MsgLimit,         \* per kind, the messages that a pipe holds
  GroundCommands,   \* commands of the ground that are explored,
  GroundBound       \* and how many of them

AP == {0, 1}
RTSs == {1, 3, 4}

VARIABLES
  lcState,          \* LC_AppData.CurrentLCState
  ap,               \* CurrentState and ConsecutiveFailCount of each actionpoint
  lcOut,            \* actionpoints whose request the present sample still sends
  lcPipe,
  rts,              \* SC_RtsInfoEntry_t per sequence
  inWakeup,         \* SC_WakeupCmd is in its loop
  scPipe,
  ground,           \* commands the ground has sent
  silenced,         \* actionpoints made PASSIVE without a request
  lost              \* kinds of messages of the loop that were dropped

lcVars == <<lcState, ap, lcOut, silenced>>
scVars == <<rts, inWakeup>>
vars == <<lcVars, lcPipe, scVars, scPipe, ground, lost>>

-----------------------------------------------------------------------------
(* Messages and pipes.                                                     *)

Sample == [kind |-> "SAMPLE"]
Tlm == [kind |-> "TLM"]
SetAP(a, s, by) == [kind |-> "LC_CMD", ap |-> a, state |-> s, by |-> by]
SetLC(s) == [kind |-> "LC_CMD", state |-> s]

Kinds == {"SAMPLE", "TLM", "LC_CMD", "WAKEUP", "SC_CMD"}

\* The kind is the message ID; what SC and LC are commanded to do is told
\* by the function code, which a pipe does not look at.
WakeupMsg == [kind |-> "WAKEUP"]
Noop == [kind |-> "SC_CMD", code |-> "NOOP"]
Enable(r) == [kind |-> "SC_CMD", code |-> "ENABLE", rts |-> r]
StartMsg(r) == [kind |-> "SC_CMD", code |-> "START", rts |-> r]
Request == StartMsg(4)
Arm(a) == SetAP(a, "ACTIVE", "RTS")

LCStates == {"ACTIVE", "PASSIVE", "DISABLED"}
APStates == {"ACTIVE", "PASSIVE", "DISABLED"}
FromGround == {SetLC(s) : s \in LCStates}
                \cup {SetAP(a, s, "GROUND") : a \in AP, s \in APStates}

ASSUME FdirLoopAssumption ==
  /\ StartupWait \in Nat /\ MaxFails \in Nat \ {0}
  /\ PipeDepth \in Nat \ {0} /\ MsgLimit \in [Kinds -> Nat]
  /\ GroundCommands \subseteq FromGround /\ GroundBound \in Nat

Room(pipe, msg) ==
  /\ Len(pipe) < PipeDepth
  /\ Cardinality({i \in DOMAIN pipe : pipe[i].kind = msg.kind}) < MsgLimit[msg.kind]

Sent(pipe, msg) == IF Room(pipe, msg) THEN Append(pipe, msg) ELSE pipe

\* The messages whose loss matters to the loop, by what they do.
Losses == {"START", "ENABLE", "REQUEST", "ARM"}
Loss(pipe, msg, what) == IF Room(pipe, msg) THEN {} ELSE {what} \cap Losses

-----------------------------------------------------------------------------
(* The tables.                                                             *)

Cmd(wait, msg) == [wait |-> wait, msg |-> msg]

\* Fault: RTS 3 is started before it is enabled.
FaultyRts001 == <<Cmd(0, Noop), Cmd(StartupWait, StartMsg(3)),
                  Cmd(StartupWait, Enable(3)), Cmd(StartupWait, Enable(4))>>

Rts001 == <<Cmd(0, Noop), Cmd(StartupWait, Enable(3)),
            Cmd(StartupWait, StartMsg(3)), Cmd(StartupWait, Enable(4))>>

\* Fault: the loop is not closed.
FaultyRts003 == <<Cmd(0, Sample)>>

Rts003 == <<Cmd(0, Sample), Cmd(2, StartMsg(3))>>

\* Fault: both commands arm actionpoint 0.
FaultyRts004 == <<Cmd(0, Arm(0)), Cmd(1, Arm(0))>>

Rts004 == <<Cmd(0, Arm(0)), Cmd(1, Arm(1))>>

Table(r) == CASE r = 1 -> Rts001 [] r = 3 -> Rts003 [] r = 4 -> Rts004

\* The command of RTS 4 that arms a.
ArmPos(a) == a + 1

-----------------------------------------------------------------------------
Idle == [executing |-> FALSE, disabled |-> TRUE, next |-> 1, due |-> 0]

\* The first housekeeping request has enabled RTS 1 and sent its start; all
\* other sequences are loaded and disabled, and LC starts DISABLED.
Init == /\ lcState = "DISABLED"
        /\ ap = [a \in AP |-> [state |-> "ACTIVE", fails |-> 0]]
        /\ lcOut = <<>> /\ lcPipe = <<>>
        /\ rts = [r \in RTSs |-> [Idle EXCEPT !.disabled = r # 1]]
        /\ inWakeup = FALSE
        /\ scPipe = <<StartMsg(1)>>
        /\ ground = 0
        /\ silenced = {} /\ lost = {}

-----------------------------------------------------------------------------
(* What reaches the pipes from outside.                                    *)

\* SCH_LAB_ProcessTable: once a second, whatever SC is doing.
SchWakeup == /\ scPipe' = Sent(scPipe, WakeupMsg)
             /\ UNCHANGED <<lcVars, lcPipe, scVars, ground, lost>>

\* The bridge publishes, or a housekeeping request arrives.
Telemetry == /\ Room(lcPipe, Tlm)
             /\ lcPipe' = Append(lcPipe, Tlm)
             /\ UNCHANGED <<lcVars, scVars, scPipe, ground, lost>>

GroundCommand(msg) ==
  /\ ground < GroundBound
  /\ ground' = ground + 1
  /\ lcPipe' = Sent(lcPipe, msg)
  /\ UNCHANGED <<lcVars, scVars, scPipe, lost>>

Ground == \E msg \in GroundCommands : GroundCommand(msg)

-----------------------------------------------------------------------------
(* LC.                                                                     *)

LcTakes(msg) ==
  /\ lcOut = <<>> /\ lcPipe # <<>>
  /\ Head(lcPipe) = msg
  /\ lcPipe' = Tail(lcPipe)
  /\ UNCHANGED <<scVars, scPipe, ground, lost>>

\* A stale result clears the count as a pass does.
Verdicts == {"FAIL", "PASS", "ERROR"}

FailsAfter(a, v) ==
  CASE v = "FAIL" -> IF ap[a].fails < MaxFails THEN ap[a].fails + 1 ELSE MaxFails
    [] v = "PASS" -> 0
    [] v = "ERROR" -> ap[a].fails

\* Counted by this sample of a (LC_SampleSingleAP), which fires if it fills
\* the count of an ACTIVE actionpoint.
Sampled(a) == ap[a].state \in {"ACTIVE", "PASSIVE"}
Fires(a, v) ==
  ap[a].state = "ACTIVE" /\ v = "FAIL" /\ FailsAfter(a, v) = MaxFails

\* The requests of a sample, in the order of its loop.
Requests(fired) ==
  IF lcState # "ACTIVE" THEN <<>>
  ELSE (IF 0 \in fired THEN <<0>> ELSE <<>>) \o (IF 1 \in fired THEN <<1>> ELSE <<>>)

\* LC_SampleAPReq for the actionpoints 0 to 1; v is what their equations yield.
\* The counter stops at MaxFails here: it is only compared with it.
LcSample(v) ==
  /\ LcTakes(Sample)
  /\ lcState # "DISABLED"
  /\ LET fired == {a \in AP : Fires(a, v[a])}
     IN /\ ap' = [a \in AP |->
                   IF ~Sampled(a) THEN ap[a]
                   ELSE [state |-> IF a \in fired THEN "PASSIVE" ELSE ap[a].state,
                         fails |-> FailsAfter(a, v[a])]]
        /\ lcOut' = Requests(fired)
        /\ silenced' = IF lcState = "ACTIVE" THEN silenced ELSE silenced \cup fired
  /\ UNCHANGED lcState

LcSampleIgnored ==
  /\ LcTakes(Sample)
  /\ lcState = "DISABLED"
  /\ UNCHANGED lcVars

\* A packet changes watchpoint results, which the verdicts stand for.
LcTelemetry == LcTakes(Tlm) /\ UNCHANGED lcVars

\* LC_SetAPStateCmd leaves the count of failures alone.
LcSetAPState ==
  \E a \in AP, s \in APStates, by \in {"RTS", "GROUND"} :
    /\ LcTakes(SetAP(a, s, by))
    /\ ap' = [ap EXCEPT ![a].state = s]
    /\ silenced' = IF s # "PASSIVE" THEN silenced \ {a}
                   ELSE IF ap[a].state # "PASSIVE" THEN silenced \cup {a}
                   ELSE silenced
    /\ UNCHANGED <<lcState, lcOut>>

LcSetState ==
  \E s \in LCStates :
    /\ LcTakes(SetLC(s))
    /\ lcState' = s
    /\ UNCHANGED <<ap, lcOut, silenced>>

\* LC_ExecuteRTS, from within the loop of the sample.
LcExecuteRTS ==
  /\ lcOut # <<>>
  /\ lcOut' = Tail(lcOut)
  /\ scPipe' = Sent(scPipe, Request)
  /\ lost' = lost \cup Loss(scPipe, Request, "REQUEST")
  /\ UNCHANGED <<lcState, ap, silenced, lcPipe, scVars, ground>>

Lc == \/ \E v \in [AP -> Verdicts] : LcSample(v)
      \/ LcSampleIgnored \/ LcTelemetry \/ LcSetAPState \/ LcSetState
      \/ LcExecuteRTS

-----------------------------------------------------------------------------
(* SC.  Due times are counted from the present wakeup.                     *)

ScTakes(msg) ==
  /\ ~inWakeup /\ scPipe # <<>>
  /\ Head(scPipe) = msg
  /\ scPipe' = Tail(scPipe)
  /\ UNCHANGED <<lcVars, lcPipe, ground, lost>>

Executing == {r \in RTSs : rts[r].executing}

\* SC_StartRtsCmd, SC_EnableRtsCmd, SC_NoopCmd.
ScStart(r) ==
  /\ ScTakes(StartMsg(r))
  /\ rts' = IF rts[r].disabled \/ rts[r].executing THEN rts
            ELSE [rts EXCEPT ![r].executing = TRUE, ![r].next = 1,
                             ![r].due = Table(r)[1].wait]
  /\ UNCHANGED inWakeup

ScEnable(r) ==
  /\ ScTakes(Enable(r))
  /\ rts' = [rts EXCEPT ![r].disabled = FALSE]
  /\ UNCHANGED inWakeup

ScNoop == ScTakes(Noop) /\ UNCHANGED scVars

ScWakeup ==
  /\ ScTakes(WakeupMsg)
  /\ inWakeup' = TRUE
  /\ rts' = [r \in RTSs |-> IF r \in Executing THEN [rts[r] EXCEPT !.due = @ - 1]
                                              ELSE rts[r]]

\* Fault: the scan of SC_GetNextRtsTime prefers the higher number.
FaultyBefore(q, r) ==
  \/ rts[q].due < rts[r].due
  \/ rts[q].due = rts[r].due /\ q > r

Before(q, r) ==
  \/ rts[q].due < rts[r].due
  \/ rts[q].due = rts[r].due /\ q < r

IsNextRts(r) == r \in Executing /\ \A q \in Executing \ {r} : Before(r, q)

\* SC_GetNextRtsCommand after command k of r.
Advanced(r) ==
  LET k == rts[r].next
  IN IF k < Len(Table(r))
     THEN [rts[r] EXCEPT !.next = k + 1, !.due = Table(r)[k + 1].wait]
     ELSE [rts[r] EXCEPT !.executing = FALSE, !.next = 1, !.due = 0]

LossName(msg) == IF msg.kind = "LC_CMD" THEN "ARM"
                 ELSE IF msg.kind = "SC_CMD" THEN msg.code ELSE msg.kind

\* SC_ProcessRtpCommand.  At most three sequences execute, with one command
\* each in a wakeup or two, so the limit on commands per wakeup never binds.
ScTurn(r) ==
  LET msg == Table(r)[rts[r].next].msg
      toLc == msg.kind \in {"SAMPLE", "LC_CMD"}
  IN /\ inWakeup /\ IsNextRts(r) /\ rts[r].due <= 0
     /\ rts' = [rts EXCEPT ![r] = Advanced(r)]
     /\ lcPipe' = IF toLc THEN Sent(lcPipe, msg) ELSE lcPipe
     /\ scPipe' = IF toLc THEN scPipe ELSE Sent(scPipe, msg)
     /\ lost' = lost \cup Loss(IF toLc THEN lcPipe ELSE scPipe, msg, LossName(msg))
     /\ UNCHANGED <<lcVars, inWakeup, ground>>

ScEndWakeup ==
  /\ inWakeup
  /\ \A r \in RTSs : ~(IsNextRts(r) /\ rts[r].due <= 0)
  /\ inWakeup' = FALSE
  /\ UNCHANGED <<lcVars, lcPipe, rts, scPipe, ground, lost>>

Sc == \/ \E r \in RTSs : ScStart(r) \/ ScEnable(r) \/ ScTurn(r)
      \/ ScNoop \/ ScWakeup \/ ScEndWakeup

Next == SchWakeup \/ Telemetry \/ Ground \/ Lc \/ Sc

\* Every task runs again and again: the scheduler by its timer, LC and SC
\* whenever something is left for them to do.  The ground and the bridge owe
\* nothing.
Fairness == WF_vars(SchWakeup) /\ WF_vars(Lc) /\ WF_vars(Sc)

Spec == Init /\ [][Next]_vars /\ Fairness

-----------------------------------------------------------------------------
(* Properties.                                                             *)

Places(pipe, msg) == {i \in DOMAIN pipe : pipe[i] = msg}
Pending(pipe, msg) == Cardinality(Places(pipe, msg))
One(condition) == IF condition THEN 1 ELSE 0

\* What keeps the sampling alive is in exactly one place: RTS 1 that has not
\* started RTS 3 yet, the start on its way, or RTS 3 executing; it goes
\* astray only with a lost command of SC to itself.  Two of them would have
\* one start rejected and the loop stop after it.
SamplingAlive ==
  lost \cap {"START", "ENABLE"} = {} =>
    One(rts[1].executing /\ rts[1].next <= 3) + Pending(scPipe, StartMsg(1))
      + Pending(scPipe, StartMsg(3)) + One(rts[3].executing) = 1

\* The command that arms a is on its way: in the pipe of LC, still to be sent
\* by RTS 4, or to come of a request that LC sends or SC has yet to take.
AnswerComing(a) ==
  \/ Pending(lcPipe, Arm(a)) > 0
  \/ rts[4].executing /\ rts[4].next <= ArmPos(a)
  \/ Pending(scPipe, Request) > 0
  \/ \E i \in DOMAIN lcOut : lcOut[i] = a

StatusOf(a) ==
  CASE ap[a].state = "ACTIVE" -> "watching"
    [] ap[a].state = "DISABLED" -> "off"
    [] ap[a].state = "PASSIVE" /\ a \in silenced -> "muted"
    [] OTHER -> IF AnswerComing(a) THEN "answering" ELSE "unanswered"

Promise == INSTANCE RearmService
             WITH status <- [a \in AP |-> StatusOf(a)], lost <- lost # {}

\* The loop implements the promise: an actionpoint that asked for RTS 4 has
\* the command that arms it on its way until it is armed or taken off by
\* the ground, although the second request of a sample may be rejected and
\* both share one sequence; only a dropped message ends that.
ImplementsRearm == Promise!Spec

\* And the answer arrives.
EveryRequestAnswered == \A a \in AP : Promise!Answered(a)

\* LC samples for ever, although nothing but RTS 3 itself starts RTS 3 again,
\* unless a message of the loop was lost.
SamplingGoesOn ==
  \/ []<><<LcTakes(Sample)>>_vars
  \/ <>(lost # {})

=============================================================================
