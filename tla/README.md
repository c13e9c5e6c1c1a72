# Verification of the cFS ESP32 telemetry system

A temperature and humidity sensor on an ESP32 sends packets over a serial
line; a NASA core Flight System (cFS) on Linux puts them on its software bus,
checks them against limits, answers a violation with a stored command
sequence, logs them and watches over itself. This directory holds TLA+ models
of the parts that decide something, TLC configurations that check them on
small instances, and TLAPS proofs for every size. Paths below are relative to
`src/`.

- [1. The system](#1-the-system)
- [2. The modules](#2-the-modules)
- [3. State and actions against the code](#3-state-and-actions-against-the-code)
- [4. What the runs check](#4-what-the-runs-check)
- [5. What is proved](#5-what-is-proved)
- [6. Where code and documentation part](#6-where-code-and-documentation-part)
- [7. What is not modelled, and the plan](#7-what-is-not-modelled-and-the-plan)

## 1. The system

```
 DHT11 -> ESP32 firmware --serial--> ESP32_BRIDGE_APP --MID 0x0895--+--> DS (log files)
                                        ^ restarts                  +--> TO_LAB (UDP)
                                        HS                          +--> LC
   SCH_LAB --wakeup 1 Hz, HK--> SC <--request RTS 4-- LC <--sample request, re-arm-- SC
   CI_LAB --ground commands--> every application            FM -- files, child task
```

Every cFS application is one task that takes one message at a time from its
pipe, so a handler runs without being interrupted by another handler of the
same application; what other tasks do shows up as messages in a pipe, tables
that take effect at a table-management call, and the return values of the bus.

| Component | State | Operations | What is hard | What makes it correct |
|---|---|---|---|---|
| **LC**, Limit Checker (`apps/lc`) | application state; definition tables WDT, ADT; results tables WRT, ART | check a message, sample actionpoints and age results, set states, reset statistics, load tables, save to CDS | counters that three handlers move; results that outlive their data or their table; a response exactly once | one RTS request per arming; no late response; no result beyond its age; counters that agree; OFF is off |
| **LC equations** (`lc_action.c`) | operand stack | evaluate, validate | four-valued logic, malformed equations | the value of the expression; unknown data never decides; what validation refuses never decides |
| **SC, relative time** (`apps/sc`, RTP) | per sequence: status, position, target wakeup, disabled flag; count of active ones | start, stop, enable, disable, singly or by group; load; auto-start; wakeup | a load over a running sequence; bounded turns; commands to SC itself; 32 bit sums | a start sends a prefix of one table, in order, neither early nor late |
| **SC, absolute time** (ATP) | control block, two sequences with a status per command, an append table, a pending switch | start, stop, switch (ground, inline), jump, append, continue flag, load; wakeup | copies of the same fact in the control block; revisited commands; overlap of two sequences | nothing twice, nothing missed, nothing early, in order, across a switch |
| **Recovery loop** (RTS 1, 3, 4, ADT, schedule) | positions of the sequences, actionpoint states, pipes | sample every 3 s, request, re-arm | lost messages, rejected starts, two actionpoints sharing one sequence | sampling never ends; a fired actionpoint is armed again |
| **ESP32_BRIDGE_APP** | descriptor, sync window | scan, read length and packet, publish, reopen | short reads, resynchronisation, a blocking read | what is published was sent, but for one reading per loss or unplug; what arrived whole is published |
| **ESP32 firmware** | two one-place queues | sensor, display and sender tasks | torn pairs, empty queues | a packet holds one reading |
| **HS** | countdown per monitored application, enable bits, subscriptions, cooldowns, reset count (CDS) | monitor, restart, reset, enable, disable, load | two tasks sampled by a third; a reset between saving a count and using it | every silence is answered in time, no running application is acted on, resets stay within the limit |
| **FM** | ring of commands, count, semaphore; one flag for open files | check, hand over, carry out in a child task | count, index and semaphore in step; a flag that two tasks share | no command lost or run twice; open files are kept |
| **DS** | destination file per table entry | filter, write, close by size or age | failing writes | file sizes within limits |
| SCH_LAB, CI_LAB, TO_LAB | subscriptions, sockets | forward | - | - |
| cFE, OSAL, PSP (vendored) | pipes, tables, counts of resets, files | put into a pipe, hold a table load, restart, reset, open, close | a message dropped without its sender knowing | part of the models of those that rely on it |
| the other apps of the tree (CF, CS, HK, MD, MM, SBN) | - | not among the applications the project runs | - | - |

Interactions that the models keep: LC requests an RTS from SC by a bus message
(`lc_custom.c`); SC sends commands to LC and to itself from its tables; the
ground reaches both through CI_LAB; SCH_LAB sends the wakeup and housekeeping
requests; the table services replace a table while its owner works with it.

## 2. The modules

| Module | Kind | About |
|---|---|---|
| `LcRpn` | algorithms | `LC_EvaluateRPN`, `LC_ValidateRPN`, turn by turn over an equation |
| `LcEquation` | environment, properties | an equation as its author writes it, and what it means |
| `LcRpnProofs` | proofs | six theorems about equations of any length |
| `LimitChecker` | component | LC: watchpoints, actionpoints, commands, tables |
| `LimitCheckerHistory` | history, properties | `LimitChecker` with what it forgets: who fired since armed, failures in a row, age of a result |
| `LimitCheckerProofs` | proofs | nine theorems about `LimitCheckerHistory` |
| `RtsEngine` | component | SC's Relative Time Processor and its commands |
| `RtsHistory` | history, properties | with: last event, commands sent and table of each start, last command of the wakeup |
| `RtsProofs` | proofs | six theorems about `RtsHistory` |
| `AtsEngine` | component | SC's Absolute Time Processor and its commands |
| `AtsHistory` | history, properties | with: commands spent, reloads, last command of a run, orphaned switches |
| `AtsProofs` | proofs | seven theorems about `AtsHistory` |
| `FdirLoop` | composition | LC, SC, scheduler and ground over bounded pipes, with the project's own tables |
| `RearmService` | abstract specification | what the recovery loop promises to an actionpoint that fired |
| `FdirProofs` | proofs | the sampling loop stays alive; `FdirLoop` implements `RearmService` |
| `HsMonitor` | component | HS: application and event monitor, message actions, reset limit, restarts; the executive it asks |
| `HsHistory` | history, properties | with: silence of the applications, resets ordered, cooldowns |
| `HsProofs` | proofs | six theorems about `HsHistory` |
| `SerialBridge` | component | the frames of the firmware, the line, and the bridge that reads them |
| `SerialProofs` | proofs | how many wrong readings the bridge can publish, and how many whole frames it can fail to |
| `FmTasks` | component | FM's two tasks: checks of file names, the queue, the files |
| `FmQueue` | abstract specification | a bounded FIFO of commands |
| `FmProofs` | proofs | the queue of `FmTasks` implements `FmQueue`; the child survives; DELETE_ALL is exact |
| `MCLcRpn`, `MCLimitChecker`, `MCRtsEngine`, `MCAtsEngine`, `MCFdirLoop`, `MCHsMonitor`, `MCSerialBridge`, `MCFmTasks` | instances | the values and bounds of the runs |

`FdirLoop` and `FmTasks` implement their abstract specifications by
`INSTANCE ... WITH`: an actionpoint's status is derived from its state and from
where the command that arms it is (`StatusOf`, `AnswerComing`); the pending
commands are the counted slots from the read index on, without the one that the
child is done with.

A history module adds variables that no action of the component reads, and
repeats the component's actions only where the memory differs, so every
behaviour of the component is a behaviour of it and the reverse. `RtsHistory`
takes the component's `Next` whole.

Definitions that begin with `Faulty` are seeded faults. They are used by no
action; each is a plausible mistake in the definition that follows it, and
substituting it must violate one property, which `PROJECT.json` names.

## 3. State and actions against the code

`PROJECT.json` maps each definition to its lines. The abstractions:

**Equations.** `EvaluateItem` and `ValidateItem` are one turn of the two loops,
`Evaluation` and `Validation` what the loops hold after each number of turns. The
state of `LcEquation` is not LC's but the author's who writes the table: `eq` is the
`RPNEquation` of an entry up to where it is written, `operands` the meanings of
the expressions that its items are the postfix form of. The meaning of an expression is
the set of Boolean values it may have under each assignment of watch results.

**Limit Checker.** `lcState` is `LC_AppData.CurrentLCState`, `wdt`/`adt` the
definition tables, `wrt` and `art` the results tables by entry. A watchpoint's
reading is what its comparison yields: TRUE, FALSE, or ERROR for a float that
is no number, data outside the message and an invalid data type, which all
leave the same result. The statistics and snapshots of the WRT and the
housekeeping counters are read by no decision and left out, so a command that
is refused changes nothing. `art` keeps all counters that decide anything, and
`events` counts the event messages that `LC_SampleSingleAP` sends. `requests`
is the set of actionpoints whose RTS the last step requested. The events a
sample of several actionpoints sends leave in ascending order within one
handler; actionpoints do not read each other, so the loop is one step. Table
maintenance (`LC_PerformMaintenance`) may find either table reloaded, also
with the contents it had.

**Relative Time Processor.** `rts` is `SC_RtsInfoEntry_t`, `table` the buffers
as sequences of (wait, checksum good). A command of the ground is one step; a
wakeup is one step per turn of the loop of `SC_WakeupCmd`, because each turn
puts a command on the bus. The ATP takes its turns first and reads the clock
once per message, so it appears as a number of turns at the start, up to
`AtsShare`. Sums of waits are modulo `MaxWakeup + 1`. A command that SC sends
to itself arrives later as any command of the ground does.

**Absolute Time Processor.** `atp` is `SC_AtpControlBlock_t` with
`NextCmdTime`; `ats` holds per sequence the entries, the status table and the
used size. The offset and time index tables are functions of the entries,
rebuilt by the code whenever those change (`SC_BuildTimeIndexTable`,
`SC_Insert` are `Before` and `Position`). `Later` is `SC_CompareAbsTime` with
its rollover: `SC_MAX_TIME` compares as earlier than the present, and the
model reproduces what follows from it. The clock moves between messages only,
forward, by any amount. The RTP appears as a turn that may count. That a
command in the buffer carries another number than the one it is indexed by
needs corrupted memory and is left out; a bad checksum is a kind of command,
since such a table can be loaded (header update is off by default).

**Recovery loop.** The pipes of LC and SC are sequences with the two limits
the software bus has, a depth and a number of messages per ID; a message that
finds no room is dropped and its sender told that it was sent
(`CFE_SB_TransmitMsg`, whose two helpers in `cfe_sb_priv.c` are `Room` and
`Sent`, reports success, and `LC_ExecuteRTS` ignores the result anyway). `lost` remembers which messages of the loop were dropped. LC and SC
take one message at a time, SC's wakeup is one step per command it sends, and a
sample of LC is one step for the counts and one per request it sends, because
that is where the other task's pipe may change. Due times count from the
present wakeup, so nothing in the model grows. Watchpoints appear as the
verdict of the equation, any at each sample; a stale one clears the count as a
pass does and needs no value of its own. `silenced` names actionpoints that
are PASSIVE without having asked for an answer: fired while LC was passive, or
set so by the ground.

**Health and Safety.** A step is one table entry, one event or one command;
ES, the applications and resets from outside move between any two. `countdown`,
`lastCount`, `enables`, `cooldown` are the arrays of `HS_AppData`; the guarded
numbers of the CDS are one record, whole or not there. ES counts processor
resets and turns one beyond its maximum into a power-on, which clears both
stores. A refused subscription may leave either half. The ground sets the maximum of
resets to a member of `Maxima`, any set of numbers; the code takes a 16 bit one.

**Serial bridge.** Bytes are known by frame and place, and their values are
those that `createPacketAndSend` writes. The readings are values in the range
of a DHT11 (0 to 50 degrees, at most 100 % humidity, times 100), which
`SerialAssumption` states: the high byte of each is below 40, so that no marker
stands inside a whole frame. `tty` is the terminal driver with
VMIN 1: a read returns what is there. The bridge scans one byte at a time,
then reads length and packet, each with one call. The window of the scan
survives the closing of the port, as in the code.

**File Manager.** A step is an access to what both tasks share: the flag
`FileIsOpen` cleared, set, read; a slot written; the count moved; the semaphore
given or taken, or an opening or closing by another application (`OtherOpens`,
`OtherCloses`; others create no file). The count moves under a mutex in the code and so in one step.
File contents are the name they had at first, or empty while a copy has
truncated its target. The child's commands are those whose checks and effects
differ; the others pass through the same queue.

## 4. What the runs check

Twelve runs; each property of a passing run is violated by the seeded fault
that `PROJECT.json` lists for it.

| Run | Instance | Properties |
|---|---|---|
| `rpn_equations` | every sequence of up to 5 items over 2 watchpoints and a bad item; every expression of up to 8 items in postfix, RPN_EQUAL included; all 16 assignments of results | `RejectedNeverDecides`, `AcceptedDecides`, `EvaluationMatchesReference`, `WellFormedAccepted` |
| `lc_one_actionpoint` | 2 watchpoints under 2 watch tables with different ages, 1 actionpoint (request at the 2nd failure, quota 1 per kind) | `HTypeOK`, `EventsAccounted`, `ResultsAreFresh`, `OneRequestPerArming`, `NoLateResponse` |
| `lc_two_actionpoints` | 2 actionpoints, 2 tables one of which leaves the first unused | `SamplingDisarmsOnlyOnRequest`, `OffUntilTableLoad` |
| `sc_two_sequences` | 2 sequences, 4 tables, 3 turns of which the ATP may take 1 | `HTypeOK`, `ActiveCountCovers`, `RunsWhatItStarted`, `Punctual`, `DelaysHonoured`, `DispatchOrdered` |
| `sc_ats_overlap` | 2 overlapping sequences, one command per wakeup | `ControlBlockAgrees`, `NeverEarly`, `InTimeOrder`, `SwitchSeamless` |
| `sc_ats_trouble` | inline switches, bad checksums, failing bus, 2 commands per wakeup | `PendExplained`, `ExecutedOnce`, `DueCommandsLeave` |
| `fdir_loop` | both actionpoints, RTS 1, 3 and 4, pipes of 2, one command of the ground | `SamplingAlive`, `ImplementsRearm`, `EveryRequestAnswered`, `SamplingGoesOn` |
| `hs_monitor` | 1 application under 2 entries of each monitor, 1 message action, 2 commands or loads, 1 reset or exit from outside | `EnablesTellTheTruth`, `ResetsWithinLimit`, `SilenceIsActedOn`, `NeverBlindUnasked`, `NoHealthyAppActedOn`, `CooldownKept` |
| `serial_line` | 3 frames, one split transfer, one lost byte, one unplug or restart | `WrongReadingsBounded`, `WholeFramesPublished` |
| `fm_tasks` | 3 commands out of 6 kinds, 3 names, 2 slots, 2 openings or closings by others | `ChildSurvives`, `ImplementsQueue`, `EveryCommandServed`, `DeleteAllExact` |
| `sc_switch_pend_doc`, `fm_open_files_doc` | | one documented statement each, violated (section 6) |

What they show, in words. An actionpoint that fires asks for its RTS once per
arming; the sample that completes the failures asks for it itself; every event
and counter is accounted for; a result is used for exactly its age; an equation
means what it says and missing data never decides. A relative sequence sends a
prefix of the table it was started with, no command before its wait is over,
all in the order in which they fall due, and, with turns enough, at most one
wakeup late. An absolute sequence sends each command of a load once, at its
second or later, in order, and a switch by the ground neither repeats nor loses
a command of the overlap.

The recovery loop keeps exactly one of: RTS 1 about to start RTS 3, a start on
its way, RTS 3 executing. So sampling goes on for ever, and an actionpoint that
fired has the command that arms it on its way until it is armed, although the
second of two requests is rejected while RTS 4 executes. What makes the latter
true is that RTS 4 arms the second actionpoint a second after the first, that a
sequence with the lower number goes first within a wakeup, and that a sample
comes every third second; the seeded fault in `Before` breaks it. Each of
the four properties has one exception, a message dropped by a full pipe.
Neither LC nor SC would notice: nothing starts RTS 3 again, and nothing arms an
actionpoint whose arming was dropped.

HS never orders more resets than its stored maximum, whatever restarts in
between; it acts on silence in as many looks as the table says and on nothing
that it saw run. The executive's own limit (2,
`CFE_PLATFORM_ES_MAX_PROCESSOR_RESETS`) is below HS's (3,
`HS_MAX_RESTART_ACTIONS`): beyond it a processor reset becomes a power-on, which
clears the stored count, and the limit starts anew. The bridge sleeps two
seconds per packet, and a cycle of HS lasts at most 1200 ms
(`HS_WAKEUP_TIMEOUT`), so its entry of two cycles (`hs_amt.c:46`) leaves little
margin; `NoHealthyAppActedOn` says what HS saw, not that the bridge makes it in
time.

A lost byte spoils at most one reading, because the length and the marker are
looked for anew; no checksum tells the spoilt one. An unplug may spoil one as
well: the window of the scan outlives the port, so the last byte before the
cable was pulled and the first after it can make a marker that nobody sent. A
short read costs a frame that arrived whole, and so does a false marker for
every frame that the body after it takes in. FM's queue loses, repeats and reorders nothing, and never
ends its child; a DELETE_ALL is exact unless the main task checks a name while
the child does, and but for files that another application opens or closes after
the child's last look at them: nothing locks a file between the check and the
removal (`fm_child.c:548`-`576`).

**Bounds.** Equations: 8 items hold a binary operator over two binary ones, and 5
every way to go wrong: too few operands, too many, a bad item, no end; the proofs
hold for any length. Limit Checker: `FailBound` = 3, `ChangeBound` = 3 and `AgeBound` = 2 (in
`MCLimitChecker`) stop exploring beyond 3 counted failures, 3 counted changes
and 2 agings: every comparison in the code is with `MaxFailsBeforeRTS` (2), a
quota (1) or an age (at most 2), so each is passed by at least one on both
sides. The counters are 32 bit and never wrap in service.
`lc_two_actionpoints` has every sample reach its limit at once, since what it
asks is about ranges and states. Relative time: `MaxWakeup` = 5 gives room for
a start, two waits of 1 and 2, a stop and a restart, and for sums beyond the end
of the counter; the count itself is not explored past its last value.
`ActiveBound` = 3 stops the count of active sequences one above what two
sequences can make, which is enough for the reload that leaves it too high.
Absolute time: `Horizon` = 2 with commands at seconds 1 and 2 lets every start,
jump and switch fall before, on and after a command; `MaxTime` 12 and
`HalfTime` 6 keep the proportions of the 32 bit clock and its rollover
comparison. `BuffSize` = 4 entries lets an append of two fit once and be refused
the second time. `sc_ats_overlap` has one turn per wakeup so that every turn
boundary is also a wakeup boundary, `sc_ats_trouble` two. In `sc_ats_overlap`
the continue flag stays as it is, since no checksum of its tables fails.

Recovery loop: no variable grows but `ground` (`GroundBound` = 1), so the run is
complete for its pipes. Pipes of 2 with 1 message per ID, 2 for commands, are as
small as the loop can use, so that drops are frequent; the code's are larger, and
the properties do not mention a size. RTS 1 starts
RTS 3, and with it the sampling, one wait before it enables RTS 4; a request in
that time is rejected, and nothing repeats it. What protects the loop is that
`MaxFailsBeforeRTS` outlasts that wait: RTS 3 samples every third wakeup, so two
samples fall into the 5 wakeups of the table, and the project's actionpoints ask
for 5 failures.
`StartupWait` = 3 with `MaxFails` = 2 keeps that margin as narrow as it can be.
`FdirProofs` proves the promise for every wait of at most
`3 * (MaxFails - 1)` wakeups, 12 for the project's 5 failures, and the bound is exact: with 4
and 2 TLC finds an actionpoint that fires too early and stays unanswered although
nothing was lost. HS: one maximum of 1 for HS and one of 1 for
ES let both be reached, and `Maxima` has one below, one equal and one above; one event slot fills at once; one counted run (`CountBound`)
per look is enough to tell moving from standing, and a restart starts the count
anew. With one command
fewer, two resets from outside, two counted runs under maxima of 2, two event slots,
and cycles of 3 and 4 were explored one by one and hold. Serial line: `TtyDepth` = 24 holds one frame and a part of the next, so
the driver overflows; the first sequence count 84 makes the second of the three
frames carry 85, 0x55, behind a reading that ends in 0xAA. The second
reading holds 55 0E 00, the second half of a marker and a length that is accepted: after
an 0xAA that lost what followed it, they begin a false frame. The number of splits, losses and
cuts matters only to the run: `SerialProofs` holds for any. FM: `Depth` = 2 (3 in the code) comes round under
`CommandBound` = 3, and `ChangeBound` = 2 lets others open and close one file, or two,
at any point of a check; the proofs hold for any bounds. `fm_open_files_doc` has no such
changes, so that what it finds is the flag's doing alone. Without changes by others,
4 commands were explored for all four properties, and 3 slots with 5 commands for
`DeleteAllExact`; they hold.

**Fairness.** `fdir_loop` and `fm_tasks` assume weak fairness and no more.
SCH_LAB runs off a timer: `SchWakeup` happens again and again. LC and SC loop on
their pipes: whenever one has a message, or is in the middle of a handler, it
goes on. Telemetry and the ground owe nothing. FM's main task finishes a
handler that it has begun; the ground owes no command; the child takes a
semaphore that is given. Strong fairness is nowhere needed, since a pipe that
is not empty stays so until its reader takes from it. The other runs state
timeliness as safety: `NoLateResponse`, `Punctual`, `DueCommandsLeave` and
`SilenceIsActedOn` say by which step something has happened.

Deadlock is checked everywhere but in `rpn_equations`, `serial_line` and
`fm_tasks`, which stop when the equation, the frames or the commands run out.

## 5. What is proved

For any number of watchpoints, actionpoints, sequences, turns, applications and
readings (each in the sensor's range), and any tables, depths and limits; the only assumptions are the named
ones on the constants (`NumWPAssumption`, `LimitCheckerAssumption`,
`RtsEngineAssumption`, `AtsEngineAssumption`, `FmAssumption`, `HsAssumption`,
`FdirLoopAssumption`, `SerialAssumption`, `ItemsAssumption`), which TLC evaluates in the runs, and
the margin `EnabledInTime` that one theorem has as its hypothesis.

*`LcRpnProofs`.* Both algorithms are recursive functions of the number of turns.
The induction theorems of the library take an operator as a parameter, which the
provers cannot instantiate; here the induction goes through a set of numbers instead:
one that contains 0 and with each number the next contains them all, since the least
number outside it (`WFMin`, with `<` on `Nat` well founded) would have a predecessor
(`NatSetInduction`). By it the recursive definitions have a solution (`EvaluationTurns`,
`ValidationTurns`), and what is written behind an equation leaves the turns over it
as they are (`EndMachineAppend`, `EndDepthAppend`). `Agree` relates the two passes after
any number of turns: while the scan of `LC_ValidateRPN` goes on, it knows the depth
of the stack of `LC_EvaluateRPN`; when it has failed, the evaluation is stuck or has
ended on an unknown operand; when it has succeeded, one operand is left.
`RejectedIsHarmless` and `AcceptedIsDecided` follow for every sequence of numbers,
and so the two properties of the run. `MeaningInv` holds the stack against the
expressions written: each operand is TRUE when its expression can only be true,
FALSE when it can only be false, and unknown otherwise (`Means`, kept by the operators in
`NotMeans` and `JoinedMeans`). `EvaluationMeansIt` and `WellFormedIsAccepted` follow.

*`LimitCheckerProofs`.* `TypeCorrect` is inductive as it stands and is proved
first: one lemma per branch of a sample (`FailedType`, `LimitReachedType`, ...),
one step per action. `FiredStayDisarmed` (and from it `RequestedOnce`) rests on
`SampledState`: a sample moves an actionpoint from ACTIVE to PASSIVE or not at
all. `ResultsStayFresh` needs both conjuncts together: that the countdown
holds what is left of the age is only preserved by aging because an unknown
result has none. `StreakIsCounted` gives `ResponseInTime`: the table's counter
is never behind the true number of failures in a row, so when that number
reaches the limit, the test on the counter succeeds. `CountersAgree` proves
`StatisticsAgree` together with the account of events, branch by branch.
`OffStaysOff` is an action property, from the types alone, and so is
`DisarmedOnlyOnRequest`, branch by branch of a sample.

*`RtsProofs`.* `ActiveCountIsCovering` compares what a step does to the number
of executing sequences with what it does to `NumRtsActive`, by cardinalities
of finite sets (`CountGrows`, `CountShrinks`). `RunsOneTable` follows the fate
of one sequence through each action. `NoCommandEarly` strengthens the property
by `DelayInv`: the target wakeup of an executing sequence is the last event
plus the wait of the next command, if that sum fits. `SequencesInOrder` uses
`OrderInv`: what was sent last in this wakeup is not after anything that still
executes. `SequencesPunctual` needs the strongest invariant, `LateInv`: within
a wakeup, the sequences whose target is before the present wakeup and the turns
already taken never exceed the turns there are, and between wakeups none is
late, because each turn serves the least target
and moves it to the present or beyond.

*`AtsProofs`.* Every property of the two ATS runs, for any tables and any number
of commands. The first part is about the time index table: within the mission
`SC_CompareAbsTime` never sees a rollover (`LaterIsGreater`, the one place where
the range of time matters), so the order of insertion is a strict
total order, positions are an injection of the entries into `1 .. N`, hence by
cardinality onto it (`TimeIndexTable`), and what a start finds past lies before
everything else (`FirstSplits`). The second part gives each step an effect: the ATP
restarts, advances by one position, stays or stops, and, but for a load or an
append, no command that was done becomes one to be sent (`NothingRevived`). From
the effects, `NoneIsMissed` is inductive: its two halves, the copies and the
commands behind them, need each other, since the one command that an advance newly
leaves behind is the one the copies name. `SpentInv` gives `EachCommandOnce`; with
the date of what was taken added it also gives the half of
`SwitchNeitherRepeatsNorMisses` that forbids a repetition, and `NoneIsMissed` the
other half. `OrderInv` places the last command before the one the ATP is aimed at.

*`FmProofs`.* `Handshake` accounts for every counted command: announced by the
semaphore, about to be announced by the main task, or in the child's hands.
Since the count is raised before the semaphore is given, a child that gets the
semaphore finds a command, and `ChildNeverEnds` follows. The same equation
bounds the count, because between the unlocked reading of the count and its
increment only the child moves it, downwards. `Ring` adds where the indices
are; `QueueImplemented` shows for each step what it does to the pending
commands: `CountUpAccepts` one more at the end, `DoneCarriesOut` the first one
gone, `FillStays` and `RetireStays` nothing, for the slot written is not among
those counted and the next slot is the next command. The remainders are those
of sums below twice the depth (`WrapIsMod`). `DeleteAllIsExact` rests on
`DeleteInv`: while no check of the main task overlaps one of the child, the flag
that both share says what the file that the child is looking at is, and what is left
of the directory behind the child is what was open, each but for the names in
`changed`, which others opened or closed since the child looked. A check of the main task starts
with clearing the flag, which is what ends that.

*`HsProofs`.* `MonitorInv` says of every entry whether it is in use, reported and
counting, and `Watched` that its countdown plus the looks without a run is never
more than its cycles. It gives `WatchedIsReported` and `StandstillIsActedOn`, and the
countdown's own step gives the action property `HealthyIsLeftAlone`. During the
walk through the table the entries before `idx` have been looked at and those behind
have not, so each conjunct holds entry by entry, and only a table load moves them all.
`ResetsAreCounted` needs `ResetInv`: the count in the store is raised before the
reset is ordered, so a restart in between finds it, and while HS trusts the store
the two agree. `NotRepeatedTooSoon` needs `RestInv`, the cooldown of the code being
never below what is left of the rest. `EnabledMeansSubscribed` is inductive as it stands.

*`FdirProofs`.* `LoopIsAlive` counts: RTS 1 still to start RTS 3, the starts on
their way and RTS 3 executing add up to one (`LoopInv`). That a start is not
rejected needs an order in the pipe, the enabling of RTS 3 before its
start (`Leads`), which appends and heads of a sequence preserve. `LoopKeepsPromise`
is the refinement of `RearmService`, and needs four invariants more. `ClockInv`
bounds what each sequence still waits and has RTS 3 sample before RTS 4 sends its
first command in the wakeup where both are due: the order of `IsNextRts`. `MarginInv` bounds the failures
counted while RTS 1 still executes, three wakeups to a sample; with `EnabledInTime`
no actionpoint fires before RTS 4 is enabled (`StartupInv`). `GapInv` says that between
the two commands of RTS 4 actionpoint 0 cannot need a new answer, so the request
that would be rejected then is not missed. From them `AnswerInv`: whoever needs an answer has one
coming; each step of the loop is then a step of `RearmService` or a stutter.

*`SerialProofs`.* Bytes that do not follow each other in what the reader has still
to come to are breaks (`Breaks`), and each was made by a loss of bytes. A sequence of bytes
joined to another has the breaks of both and at most one more
(`BreaksConcat`), so that the driver's and the line's doings cost at most one for each loss (`LineStep`). The
values of a frame hold the marker at the head only (`MarkerWithin`), and the first byte of the
next cannot complete one, so that a marker of two bytes that follow each
other is a head (`MarkerIsHead`). `AccountInv` is the inductive part: the wrong readings
and the breaks to come are at most the losses and cuts, with one to spare whenever what is
being read may be wrong; otherwise the reader is on the track of a byte, and
what follows it without a break is the length 14 (`LengthIs`) and the body of one
frame (`BodyIsWhole`). The property alone is not inductive, since it does not say whether
the body being read will be paid for. `WrongReadingsCounted` follows.

`WholeFramesArePublished` counts the frames that are gone: written, no byte missed,
neither published nor with their head still on the way (`Gone`). The bytes of such a frame are
together in what is still to be read (`StreamInv`, by `Whole`), so that the heads of two
are 18 bytes apart and one read takes in at most `TakenIn` of them
(`HeadsFew`). `FramesInv` accounts for each one by a short read or
by a break that has been read, `TakenIn` for each, in three cases: one break is to spare; or the scan has
seen nothing of a marker (`Idle`); or the reader is on the track of a byte (`OnTrack`),
whose own frame is not gone as long as it is in hand (`InHand`).
A body that no break precedes is that of one frame, which is published
or came up short; any other was reached over a break,
and it is the break that pays for what the body takes in, though the frames are
lost only at the read. That delay is why the property alone is not inductive:
between the break and the read nothing in it holds the payment back.

Four invariants of `LimitCheckerHistory` are proved and not among the runs,
because they are steps towards properties that are: `FiredDisarmed`,
`NoLeftoverCountdown`, `StreakCounted` and `StatisticsAgree`.

Every invariant and action property of the runs, and both refinements, are proved.
Model-checked only is liveness (`EveryRequestAnswered`, `SamplingGoesOn`,
`EveryCommandServed`): fairness and ENABLED are out of the provers' reach.

## 6. Where code and documentation part

Two disagreements are shown by a run whose property states the text's words and
which TLC violates.

| Run | The text says | The code does |
|---|---|---|
| `sc_switch_pend_doc` | a pending switch without an executing ATS needs corruption (`sc_atsrq.c:435`) | a jump past the end, or an append that leaves nothing, stops the ATS with the switch pending, and the next ATS started is switched away from |
| `fm_open_files_doc` | FM2007.1: DELETE_ALL shall not delete an open file | both tasks collect "open" in one variable without a lock; a check by the main task at the wrong moment clears what the child found |

Found in the same way and kept as text, for a run each would add nothing:

- `cfs_lc.dox:178`: an RTS is requested after consecutive failures; a sample in
  ERROR between failures does not break the count (`lc_action.c:266`).
- `default_sc_msgdefs.h:156`: "Number of RTSs currently active"; loading over a
  running sequence leaves it counted until restart (`sc_loads.c:396`).
- `cfs_sc.dox:122`: due commands go out up to the limit per wakeup; after a
  failed checksum, or a command not LOADED, and no RTS command in that turn,
  the loop ends early (`sc_cmds.c:574`).
- `cfs_hs.dox:151`: an entry that expired comes back when application monitoring
  is commanded to be enabled, "it does not matter if Application Monitoring is
  disabled first"; enabling what is enabled does nothing (`hs_cmds.c:248`).
- `sc_rts004.c:26`: arming is a "harmless no-op" for an actionpoint that did
  not fire; one that the ground disabled is armed by it.
- FM2002.1, FM2004.1, FM2005.1: a target is checked when the command arrives and
  used when the child comes to it, so two queued commands may overwrite.
- `esp32_bridge_app_serial.c:63`: the read is said to time out; with VMIN 1 it
  waits for a first byte for ever.

Noted while reading: a range of actionpoints is refused whole when its first is
permanently off (`lc_action.c:50`, against "all actionpoints can be
evaluated"); a wait that overflows the 32 bit wakeup count is no wait
(`sc_utils.c:138`); an ATS loaded over while it executes sends the new entry at
the old entry's time, which the SC documentation calls "unexpected results"; an
append may replace a command that was executed (`sc_loads.c:718`).
`NeverEarly`, `InTimeOrder` and `ControlBlockAgrees` therefore except an ATS
whose last load came while it executed, `DelaysHonoured` excepts sums that do
not fit, and `ExecutedOnce` counts an appended command as a new one. Enabling HS's
application monitor while its table was never loaded reads through a null
pointer (`HS_AppMonStatusRefresh`), so the model has that command with a table
only. A failed disable of its event monitor leaves it half subscribed (`hs_cmds.c:372`), which
`NeverBlindUnasked` excepts, and events stay in its pipe while it is off. The
bridge keeps `sync_window` when it closes the port and opens it anew
(`esp32_bridge_app.c:89`), which `WrongReadingsBounded` counts as a cut. The
firmware may pair the temperature of one reading with the humidity of another
(`main.cpp:137`), and converts a failed reading, NaN, to an integer
(`main.cpp:142`); neither leaves a trace in the packet. What NaN or a negative
temperature becomes may lie outside the range that `SerialBridge` assumes; then
the bytes of a marker could stand inside a frame, and what is shown about the
serial line does not apply to it.

## 7. What is not modelled, and the plan

Not modelled: the comparison of raw telemetry with thresholds and the
watchpoint statistics of LC; its Critical Data Store, which is compiled out
(`LC_SAVE_TO_CDS` in `lc_internal_cfg.h`); the table validation of SC (parsing);
the ground commands of the bridge (counters only); the queues of the firmware and
its readings that failed;
HS's CPU utilization, aliveness and execution counters; the commands of FM that
differ in file operations only; DS (filters and file output). Not planned: the rest of
cFE, OSAL and PSP (vendored; the helpers that the applications rely on are in the models), CI_LAB, TO_LAB
(forwarding), the tools, and the applications of the tree that the project does
not run (CF, CS, HK, MD, MM, SBN, sample_app). The tree is the whole framework:
most of its lines are those, their unit tests and a second copy of the
framework under `tools/`.

Order of what comes next:

1. **`LcWatchpoint`**: comparisons by type and width, statistics and snapshots.
2. **`DsFiles`**: the size and age limits of a destination file under failing
   writes.
