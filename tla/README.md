# prism-kit: a TLA+ model of the LED firmware

prism-kit is firmware for an addressable LED strip. A host sends framed
commands over a UART; the firmware keeps a *program* of instructions (set a
colour, fade, gradient, run a group), and a *controller* plays it against the
strip. This directory holds a TLA+ model of it, the TLC configurations that
check the model on small instances, and TLAPS proofs for every instance.

## 1. Inventory

| Component (source) | State | Operations | Interacts with | Module |
|---|---|---|---|---|
| Program preflight (`app/controller/controller.cpp:55-266`) | none: a function of the stored program | group table, index pool, call graph, closure, boundary propagation | called by `Controller::Start` | `GroupProgram` |
| Controller runtime (`controller.cpp:268-688`, `include/prism/controller.hpp`) | stored program, one runtime per group, executing list, show flag, refresh period, program state | `AddInstruction`, `SetRefreshPeriodMs`, `Start`, `Run`, `ResetInstructions` | calls instructions, the strip's `Show`, the schedule callback; called by the APP task | `Controller` |
| Instructions (`app/controller/instructions/`) | per timed instruction: started, start time, captured colours | `Execute`, `ResetForReplay` | write LEDs, `RequestShow` | `Controller` (when), `Effects` (what) |
| Colour arithmetic (`oklab.cpp`, `color.hpp`) | none | OKLab, HSV conversion | used by instructions | `Color`, `Oklab` |
| Protocol engine (`protocol/`) | parser state, receive buffer, read-ahead, pending transmit frame, handlers | `Run`, `Send`, `AddHandler`, loopback | reads and writes the UART; calls handlers | `Frame`, `Protocol` |
| Command sink (`app/src/hw/controller_command_sink.cpp`) | mailbox pointer | one handler per tag | called by the protocol on the HW task, sends to the command mailbox | `CommandPath` |
| Command dispatch (`app/src/controller_command_dispatch.cpp`) | none | one controller call per command; `Start` and a first `Run` | called by the APP task | `CommandPath` |
| APP task (`app/src/blink_app.cpp`) | controller, command mailbox, one-shot timer | `Setup`, `Loop` | waits for commands and for the timer | `Firmware` |
| HW task (`app/src/hw/hw_task.cpp`), command manager, strip manager, status LED | event group, staged frame, one-slot frame mailbox, blink state | `Setup`, `Loop`, `Show`, `TryApplyLatest`, `Blink` | feeds the protocol, applies frames to the strip | `Firmware`, `Protocol` |
| Boot (`app_hw.cpp`, `prism_hw_backend.cpp`, `boot_handoff_zephyr.cpp`) | initialised flag | start of the tasks | `bal/` and `oshal/` (external, not in the repository) | `Firmware` |
| Host tools (`scripts/`) | serial port, build records | effects, smoke test, build, flash, checks | the other end of the UART; the file system | builders only, in `CommandPath` |

What is hard in this system:

* one `Run` of the controller is a fixpoint loop over three interacting phases
  at a single sampled time; groups repeat, call each other, conflict over a
  callee;
* everything waits on one re-armed one-shot timer, so one missing wake-up
  stalls a program for good;
* unsigned time wraps; a `Run` may be late and takes time itself;
* programs are aborted and replaced while a wake-up is armed;
* two tasks share a strip, event flags and two bounded mailboxes whose send
  results are ignored or only logged, and boot order depends on priorities;
* the parser meets partial, corrupt and over-long frames, sync bytes inside
  frames, bytes that arrive while it works, and a transmit path that retries
  from the start;
* colours pass through integer arithmetic again and again, in passes that repeat
  forever.

`PROJECT.json` lists these as hazards, each at its line, with the properties
that cover it.

What makes each component correct:

* preflight accepts exactly the programs that resolve, have no cyclic call and
  whose repeats can take time; its table and pool keep label and mark order;
* runtime: counts agree with what they count; active groups form a tree; the
  root ends last; `Run` returns and leaves nothing due; an active program has
  a wake-up in time; timed work takes its duration in every pass; a rejected
  call disturbs nothing; writes are shown; finite programs end; all of it
  implements a simple lifecycle of programs;
* effects end in exactly the colour they promise and do not flicker, and the
  loops the host tools repeat forever do not drift;
* protocol: a valid frame is dispatched once and in order, a bad one is not
  dispatched, the parser is back in sync after it, what was queued is sent;
* command path: the controller is called with the fields the host packed;
* tasks: no wake-up is lost, the program that runs is the one that was sent (or,
  when it is too long for the controller, its beginning), the last committed frame
  reaches the strip.

## 2. Modules

| Module | Models | Kind |
|---|---|---|
| `GroupProgram` | programs and `BuildAndValidateGroups` with its five stages | operators |
| `MCGroupProgram` | every small program as a behaviour; the preflight contract | TLC |
| `GroupProgramProofs` | the loops of the preflight accept exactly the well-formed programs | TLAPS |
| `MCGroupProgramProofs` | table, index pool and acceptance for every bound | TLAPS |
| `Controller` | the controller runtime and the clock it sees | specification |
| `ProgramLifecycle` | what the controller promises its callers | abstract specification |
| `ControllerRefinement` | the mapping from `Controller` to `ProgramLifecycle` | refinement |
| `MCController` | the instructions offered to `Controller` | TLC |
| `ControllerProofs` | type correctness; the structural invariant and its consequences; what one `Run` leaves behind; wake-ups and the duration of timed work, across the wrap of the clock | TLAPS |
| `ControllerRefinementProofs` | `Controller` implements `ProgramLifecycle`; reported failures and rejected calls | TLAPS |
| `Color`, `Oklab` | HSV and OKLab conversion | operators |
| `Effects` | `Execute` of the colour instructions over time | specification |
| `MCEffects` | the scenes played | TLC |
| `EffectsProofs` | how effects end and move; brightness of colours given by hue | TLAPS |
| `Frame` | the wire format | operators |
| `Protocol` | the protocol engine between a line and its handlers | specification |
| `FrameQueue` | what the engine promises on an undamaged line | abstract specification |
| `MCProtocol` | lines, peers and applications around `Protocol` | TLC |
| `ProtocolProofs` | the parser, the frames it finds and the ones it misses, the transmit side, the queue | TLAPS |
| `CommandPath` | host builders, sink, mailbox, dispatch | specification |
| `MCCommandPath` | the commands and values the host sends | TLC |
| `CommandPathProofs` | what the host packs is what the controller is called with | TLAPS |
| `Firmware` | the two tasks, their flags, mailboxes and timer | specification |
| `MCFirmware` | hosts and schedulers around `Firmware` | TLC |
| `FirmwareProofs` | wake-ups, frames, commands, boot and the program that runs | TLAPS |

`Protocol`, `Firmware` and `Effects` have a variable `setup` or `scene` that is
chosen in `Init` from a constant set and never changes. It holds the
circumstances (configuration, peer, faults, program), so that one run covers
several of them and every property states the circumstances it needs.

The whole is cut at interfaces that are data, not at shared steps. A byte
stream becomes frames in `Protocol`; a frame becomes a controller call in
`CommandPath`; the calls go through both tasks in `Firmware`; what a call does
to a program is `Controller`; what a due instruction does to a pixel is
`Effects`. `Firmware` uses a controller that is only a list of marked pixel
writes, because the races of the tasks do not depend on groups, and one command
stands there for its frame.

### GroupProgram

A program is a sequence of records; a record keeps what scheduling depends on
(group label, mark, operation, callee and repeats, duration, whether the
addressed LED exists). Colours are left out. `BuildGroupTable`, `GroupRange`
and `IndexBegin` (`BuildGroupIndexPool`), `CallGraph`, `ClosedCallGraph`
(Warshall in table order, in place, as in the code), `OwnBoundary` and
`BoundaryPass` (`ValidateRepeatBoundaries`) are recursive functions of the loop
counters, in the order of the code's loops; `GroupRange` is the insertion of one
group's slots by mark. Group labels stand for table indices; the bit mask of a
table row is a set of labels.

### Controller

Variables have the names of the fields they model (without the trailing
underscore); `status` is the last value a public call returned and, inside
`Run`, the latched `run_status`. Abstractions:

* a runtime is indexed by its label, and its cursor is the set `pending` of the
  slots it has not passed: the slot at the cursor is the earliest of them in
  (mark, insertion) order, which is the order of the group's range of the index
  pool (checked by `PoolIsStableMarkOrder`);
* the committed table is a function of the stored program, which cannot change
  while it is used: `Labels` and `Members` are read off the program;
* the public calls are atomic; `Run` takes one step per iteration that changes
  state (`DrainResumes`, `DrainRemoves`, `RestartGroup`, `EndGroup`,
  `PickStartsChild`, `PickRejectsCall`, `PickExecutes`) and one per loop end.
  One task owns the controller, so no other call comes in between, but time
  does;
* `min_scheduled_timeout_` is the minimum of the set `WakeUps`;
* the strip, the clock and the schedule callback are always attached, as
  `AppTask::Setup` does before the first call;
* the timer is `alarm`, the time left until the requested wake-up. It is
  external, modelled from its use: re-arming replaces it, `ResetInstructions`
  does not cancel it;
* the clock is modulo `2 * HalfRange`, runs start just before the wrap.
  `MaxLate` bounds how late a wake-up is served and how long a `Run` takes, and
  `TimeAssumption` keeps marks and durations under half the range, as
  `uint16_t` marks are under half of `uint32_t`. The clock stands still while
  nothing waits for it;
* the defensive paths (orphaned entries, count underflow, missing parent, full
  list) are in the actions with the statuses the code latches; the invariants
  show they are never taken;
* `unshown` and `fresh` are history variables for two properties.

`ProgramLifecycle` has three variables: the state, the program and the set of
outstanding instructions. Under the mapping of `ControllerRefinement` the
outstanding set is what the cursors of the active groups have not passed and
what is in the executing list. Every step of `Run` then finishes one
instruction, launches a group that has nothing outstanding, brings a finished
group back, completes the program, or is invisible.

### Effects, Color, Oklab

`Effects` plays a sequence of instructions over and over. `StartFade`,
`UpdateFade`, `StartGradient` and `UpdateGradient` are the first and the later
calls of `Execute`; they keep the transient members (`started_`, `start_time_`,
captured colours, OKLab end points), and the delay they return decides when the
next call is due. The controller is reduced to what it promises: a run is on
time or up to `late` milliseconds later, with one timestamp, and a new pass
calls `ResetForReplay` on all instructions. `Overwrite` is another instruction
that writes a pixel in between. Casts to `uint8_t` are `% 256`, C++ division is
`Divide`; the tables, matrices and scales of `oklab.cpp` are copied as numbers,
its static assertions are the assumption `MatrixProductsFit`. The bisections
over the monotone table and over roots are the same loops as recursive functions.

### Frame, Protocol, FrameQueue

The width of a byte is a constant, so that with two bits every field (tag,
length, data, checksum) can take the value of the sync byte. `Run` is an action
for its head (`RunBegins`: `TxPhase`, frame timeout), one per byte (`RunByte`,
with one disjunct per parser state), one for the read that finds nothing and one
for its tail (`RunEnds`); bytes arrive and time passes in between. The line may
change, lose or cut bytes. Writes may fail at every chunk. The task calls `Run`
periodically (`setup.periodic`, as `protocol.hpp` asks) or only on the receive
event (as `HwTask::Loop` does). `Tick` is the passing of time: bytes are no
longer than `AirTime` on the line, and a Run that is due (`RunIsDue`: bytes are
there, a Run is under way, or the task calls it periodically) reads within
`RunLatency`. `sent`, `heard`, `parsed` and `queued` are
histories.

`FrameQueue` says what a user of the engine relies on: frames are taken once, in
order, by the handler registered for their tag at that moment, and in the end
all of them are.

### CommandPath

`HostValues` is what the fields of a command can hold, `HostPayload` what the
builders of `scripts/device/modules/protocol.py` pack (the two grouped HSV
commands have no builder and are taken from the comments of `tags.hpp`); each
`Handle...` operator lists the offsets at which the handler of the sink reads;
`DispatchControllerCommand` is the switch of the dispatcher. `calls` holds the
calls made for each message. The commands the host may send are a constant: the
proof is for all values, the run takes two choices. A byte behind the payload is a value no byte can
have, so that a handler that read too far would be noticed. Commands are sent
whole and ill-sized, before and after the mailbox exists, into a mailbox that
may be full.

### Firmware

`app` and `hw` are the program counters of the two tasks. A step is what lies
between two points at which the other task can interfere: one call that touches
a mailbox, a flag or the strip. `oshal/` is external and taken from its use:
`EventMailbox::Send` stores and posts the flag or fails when full, `Receive`
clears the flag with the last message, `WaitAny` returns and clears flags, the
timer is one-shot and restarting replaces it. Two circumstances of the platform
are not in the repository and are therefore parameters: whether the HW task
(priority 0, the higher one) preempts the APP task (`preempts`), and whether
writing the strip blocks the HW task (`blocks`).

`AddInstruction` refuses when the program is locked and when its
`kMaxInstruction` slots are taken, as the code does; the APP task only logs that.
`SetupStartsDefault` is one step, although the code adds the instructions one by
one: the HW task shares nothing with them before the `Show` at the end.
`strip.count` stands for `led_count_` and for `ready_`, which the code sets a few
statements apart.

## 3. Runs

| Run | Instance | Shows |
|---|---|---|
| `preflight` | four groups; programs of four calls and marks, and of three plain, timed and call instructions | call chains of every table order, table order, stable mark order of the pool, acceptance |
| `groups` | three groups, three instructions, repeats, shared callees | call tree, depth, fixpoint of `Run`, rejected calls, reported failures |
| `timed` | two groups, three instructions, gradients, `ResetInstructions` at any time | executing list and counts, completion order, duration of timed work, types, stale wake-ups, `Controller` implements `ProgramLifecycle` |
| `late` | two groups, two instructions, late and slow Runs, missing LEDs, changed refresh period, rejected calls of `SetRefreshPeriodMs` and `AddInstruction` | wake-ups in time, shows, no repeat in zero time |
| `live` | two groups, three instructions, fair | every `Run` returns, finite programs complete |
| `effects` | five families of scenes, below | end colours, no flicker, no drift, hues, greys, gamut border |
| `commandpath` | 14 commands, two choices of field values, three frames, mailbox of two | controller calls are what the host packed |
| `protocol_damaged` | three lines, below; one damaged frame each | parser state, no invented frame, bounded loss, resynchronisation |
| `protocol_sound` | an event-driven receiver and a periodic sender, fair | `Protocol` implements `FrameQueue`; whole frames in order on the wire; retries succeed |
| `firmware` | four circumstances, below, fair | wake-ups, boot, whole programs, frames, completion |
| `protocol_on_event` | the firmware's calling pattern, one write error | **violation**, see below |
| `protocol_create` | requests no frame can carry | **violation**, see below |

Bounds. Three groups are enough for a chain root, child, grandchild and for two
callers of one callee; three instructions for two concurrent timed entries next
to a call, so that the swap of `DrainExecuting` moves an entry; `Forever = 2`
tells forever from a finite count; marks 0 and 1 and durations up to 2 with
refresh periods 1 and 2 give work that is instant, single and several samples
long. Boot times put the wrap inside the first pass. Labels other than the root
are symmetric in the runs without liveness.

Scenes of `effects`: the loop of `rainbow4` (`rainbow4.py:42-43`: 33 % and then
303 %, which do not cancel) over all its colours, every start on the refresh grid
and the timestamp wrap, runs up to 2 ms late; the same loop and the one
`fade_instruction.md:138` plans (25 % and 400 %) on every brightness and every
value a channel can have below it, which covers every colour because channels are
scaled independently; a program with every instruction, zero durations and pixels beyond
the strip, with another writer; every hue at six saturations and six values;
gradients between all pairs of twelve greys; gradients from 125 colours to
themselves. The tolerances are constants of the run: a hue comes back within one
step when its channels differ by at least 64, a grey stays grey within 3 codes
(a tint of that size is what the fixed-point matrices leave at dark greys), a
still gradient keeps its light within 300 of 65535, which is several codes in the
dark range, where a code is little light. `gradient_instruction.md:66` asks for one
code, of a fixed matrix of test colours. Durations stay below 2^15 for
TLC's integers.

Lines of `protocol_damaged`: frames full of sync bytes (*Noise*), frames
without (*Clear*, three frames, for the bound on loss), and a pausing peer with
a frame timeout across the timestamp wrap (*Paused*; five timestamps are the
fewest that tell the ages such a frame can reach apart). One damaged frame is
enough because after it the parser is in an arbitrary state, two whole ones
show that it recovers. A read-ahead of 3 bytes and chunks of 4 are smaller than
a frame, so refills and chunk borders fall everywhere in it.

Circumstances of `firmware`: no priorities, impatient host and failing devices
(*Anyhow*); the HW task first, with blocking and with non-blocking strip
(*Preempted*); a host that waits for the boot and sends at once (*Burst*); the same
with one instruction more than the controller stores (*Overlong*). The mailbox
holds four commands, so that it runs full under hosts that send six or seven, and
the controller stores two instructions: as in the code (32 and 28) the mailbox
takes programs the controller does not. Two programs let the second replace one
that waits for its mark, and in one script an instruction is refused and a start repeated while the program runs.

In the controller's and the effects' runs something can always happen, so
deadlock is checked. The others end when their bound of programs, frames or
commands is used up and everyone waits, hence their `CHECK_DEADLOCK FALSE`.

### Fairness

* `live`: weak fairness of the steps of `Run` (its task keeps running) and of a
  requested `Run` (the APP task waits for the timer event and serves it), strong
  fairness of the clock (time passes although Run steps interleave with it).
* `Protocol`: weak fairness of arriving bytes and of the steps of `Run` and of
  its start, which is enabled periodically or by the event. The peer, the
  application and the clock owe nothing.
* `Firmware`: weak fairness of the HW task and of the timer, strong fairness of
  the APP task: where it runs only while the HW task is blocked, it is enabled
  again and again and not for good, and the scheduler gives it the processor
  whenever the HW task sleeps. The host owes nothing.

### What the runs found

* `protocol_on_event`: `protocol.hpp:122` asks to call `Run` periodically, and a
  failed write is "retried on the next call". `HwTask::Loop` calls it only when
  bytes were received (`hw_task.cpp:93`). A loopback answer whose write failed
  stays pending while the host waits for it. With periodic calls the same
  property holds (`protocol_sound`).
* `protocol_create`: `Frame::Create` documents "an invalid frame" for unusable
  arguments (`frame.hpp:51`), but a value-initialised frame has length 0 and is
  valid; `Send` queues it as an empty loopback frame.

Other places where a text and the code differ, met while modelling:

* `tags.hpp:26,30,45,49` give payloads of 4 and 5 bytes without a mark; the
  handlers want 6 and 7 bytes with one, which is what the builders send. The
  model follows the code.
* `protocol/readme.md:143` says any loopback frame is echoed; one that arrives
  while a frame is pending is dropped (`protocol.cpp:360`, with a comment).
* `color.hpp:173` says that 359 degrees map to 255; the expression gives 254.
* `controller.hpp:86-87` permits forever repeats for the root only, and
  `fade_instruction.md:58-62` says that preflight rejects them in a child. The code
  accepts them when the child can take time, as `instruction_groups.md:244-247`
  says; the model follows the code.
* `status_led.hpp:12` names a fixed rate of 0.5 Hz; `Blink` counts iterations of
  the loop, which events shorten.

Facts the firmware run makes explicit: without priorities `AppTask::Setup` may
read a pixel count of 0 and start an empty default program; a frame committed
while the one-frame mailbox is full is lost, which matters only when it is the
last one; `RestShowsStaged` and `BootLightsEveryPixel` state under which
circumstances neither happens. A program longer than the controller's slots is
not rejected: its first `kMaxInstruction` instructions run, and the host is not
told (`StartedProgramIsWhole`). `fade_instruction.md:68` sizes the mailbox for the
30 messages of `rainbow4`, whose 28 instructions just fit the controller. The run
`groups` has no timed instruction, so that a missing LED makes a Run fail is
covered by `late` (as far as wake-ups and repeats go) and by `FailuresHaveCauses`.

Each property has a mutant: a definition mutated the way a plausible bug would,
under which TLC finds the property violated.

## 4. Proofs

Every theorem holds for all values of the constants that satisfy the named
assumptions; each rests on an inductive invariant, which TLC checked on the
instances of section 3 before it was proved.

### Preflight

`GroupProgramProofs`: `PreflightIsExact`. For every program that
`AddInstruction` can store, `BuildAndValidateGroups` succeeds exactly when the
program is `WellFormed`, a definition that knows nothing of tables, bits or
passes. A loop is a recursive function of its counter; `Iterates` gives its
equations once, and `UpTo` turns "holds before the loop and after each round"
into "holds at the end" (both from the well-foundedness of the naturals). Then
one loop invariant per stage:

* the table holds every label met so far once (`Entered`);
* after closing through the labels `t`, the in-place matrix contains the direct
  calls, nothing unreachable, and is transitive through each `t`
  (`Keeps`, `Sound`, `ClosedAt`); at the end it is reachability, the least set
  closed under calls (`ClosureIsReach`);
* a boundary pass adds only groups that own or reach a boundary, and as the
  closure is transitive already the passes end with exactly those
  (`BoundaryIsExact`).

`MCGroupProgramProofs` states three properties of the run for every bound:
`TableIsInOrder` (`Ordered`: labels appear by their first slot, and the table
does not overflow), `PoolIsSorted` (`Ranged`: inserting behind the last slot
with a mark not larger keeps a range sorted by mark and slot; `Laid`: ranges lie
side by side and their sizes add up) and `AcceptsWellFormed`.

Assumptions: `GroupAssumption`, `BoundAssumption`, and that the table has more
entries than there are instructions (`kMaxGroups`), in `EnumerationAssumption`.

### Controller

`ControllerProofs`: `TypeCorrect == Spec => []TypeOK`. `TypeOK` is not
inductive: that the slot at a cursor exists needs `PendingInGroup`, that a
cursor holds slots of its own group only. Underneath are lemmas about
`EarliestOf` (a least mark and then a least slot exist, from the
well-foundedness of the naturals), modular time, `SwapRemove`, `CursorMoved`
and `ObservePositiveBoundary` (it changes boundary flags only).

It also has `StructureCorrect == Spec => []StructInv` with

    StructInv == TypeInv /\ ExecutingIsSound /\ CallTreeIsSound /\ RootOutlivesItsWork

and from it `ExecutingSound`, `CallTreeSound` and `RootOutlives`. The conjuncts
need each other: a group may end because its counts are exact, so no entry and
no child loses its runtime; the root ends last because an active group of least
depth other than the root would be one of its children (`LoneRoot`); and the
program can be edited because nothing is active without the root. As a
consequence the discard, underflow and missing-parent paths of
`DrainExecuting` and `CompleteReadyGroups` are dead code for every program.

What a `Run` leaves behind: `ControllerProofs` first states the effect of each step of `Run` on the
runtimes, field by field (`Drains`, `Restarts`, `Ends`, `MovesCursor`,
`Launches`), and then argues with those only:

* `DepthScanned` (`DepthIsScanned`): active groups are labels of the program
  and every depth below an active group's is taken, so a depth is smaller than
  the number of labels;
* `WritesShown` (`WritesAreShown`): a write that is not shown yet has its show
  request pending, in every step up to the end of `Run`;
* `NothingDueWhenRunReturns` (`NothingDueAtRest`): `RoundIsExhaustive` says
  what each of the three phases has ruled out so far in a round that made no
  progress: entries before `position` are drained, groups outside `scan` are
  not ready, and nothing those depend on changes;
* `NoZeroTimeRepeat` (the action property `NoRepeatInZeroTime`): a group that
  began at the current timestamp started now, its remaining work lies ahead and
  the groups it called are fresh too (`FreshIsNew`). What sets a boundary flag
  is due now and has a positive mark or delay, hence is not fresh, and neither
  are its callers. A group without the flag does not repeat.

When `Run` is called again: `WakeUpInTime` (`WakeUpIsInTime`). `Since` and `Later`
are first reduced to their two cases (wrapped or not), then everything is
linear arithmetic over distances from the sampled timestamp. The invariant is
`DeadlinesAreNear` (no deadline or mark of an active program is further than
half the range from the clock, in either direction, which is what
`TimeAssumption` leaves room for) and `AlarmCovers` (the armed wake-up is not
later than any of them, up to the lateness used so far).

`TimedWorkIsWhole` (`TimedWorkTakesItsDuration`) adds `DurationInv`: a pass with
work ahead of its cursor is no older than the largest mark and two late Runs
(`PassesAreYoung`), that work has no start time left from an earlier pass
(`PendingIsUnstarted`), and an executing entry was begun in this pass once its
mark had come, with a deadline at most a duration later (`EntriesAreTimely`).
Two distances on the clock add up as long as the sum stays below its range
(`SinceAdds`), which `TimeAssumption` provides.

`ControllerRefinementProofs`: `Refinement == Spec => ImplementsLifecycle`. The
outstanding work of the abstraction is split by group (`WorkIsSplit`); each
action changes the work of one group (`SameWork`, `FinishedWork`, `BegunWork`),
and one lemma per action shows that this is a step of `ProgramLifecycle` or a
stutter. Beyond `StructInv` it needs `CallInv`: the call that launched an active
group is behind its caller's cursor and not in the executing list.

The same module relates the runtime to what preflight accepted:

* `FailuresHaveCauses` (`RunFailureHasCause`): an active program is one that
  `PreflightIsExact` describes (`ProgramIsAccepted`), and only groups that can
  take time have passes left. Where every LED exists and no two calls share a
  target, a group without its boundary flag has lost nothing that would raise
  it: work that takes time and is behind its cursor is still in the executing
  list, or is a call whose group is still active (`Promises`). So a group that
  is ready to repeat has the flag.
* `RejectionIsQuiet` (the action property `RejectedCallDisturbsNothing`): a
  rejected call raises the flags of its callers, and its busy target is none of
  them: a caller reaches every group above itself in the tree
  (`ChainReaches`), so a target above its caller would reach itself, which
  preflight excludes.

Assumptions: `GroupAssumption` (finitely many labels, the root among them),
`BoundAssumption`, `TimeAssumption`, `CallAssumption`, `NullAssumption`; they
state the ranges of the C++ types and that null values differ from real ones.
Nothing is assumed of what preflight accepts; where it matters it is proved.

### Protocol

`ProtocolProofs` holds for every byte width, frame size, read-ahead, chunk and
line. What the checksum computes plays no part: both ends obtain it from the
same header and data.

* `ParserHolds` (`ParserHoldsLastBytes`): with the ranges of the index and the
  length in each parser state (`ParserInv`); one more byte behind those held
  gives one more byte held (`OneMoreHeld`).
* `ParsedWereHeard` (`ParsedFramesWereHeard`): a frame with a good checksum is
  byte for byte `WireOf` its tag and data (`FrameIsWhole`), because a two-byte
  number has one low and one high byte (`TwoBytes`); the next frame begins
  behind it (`FrameInv`).
* `LossBounded` (`LossIsBounded`, without a frame timeout, as the firmware
  configures the engine, and with one that leaves time for a frame): the bytes
  read, cached, received and on their way are one line that no step changes but
  a new frame's (`LineKept`, `LineSend`), on which the sent frames lie side by
  side (`LineInv`). A parser that began with a whole frame ends with it
  (`ReadsToTheEnd`, `FrameGoesOn`, `FrameIsTaken`). Where no frame holds the
  sync byte inside, the frame being read began with a whole frame or in a
  damaged one, and that one ends before a frame that is far enough away
  (`WaitsForFrame`). No timeout hits the frame on its way: while its bytes are
  read it is no older than the line and a Run may take (`FrameIsYoung`), and the
  age the engine computes is the true one modulo the range (`ClockInv`), so also
  where it wraps it is no larger (`YoungIsInTime`).
* `PauseRecovers` (`PauseResynchronises`): a pause is long enough for everything
  on the line to be read before the next frame is sent (`ReadInPause`). So a
  frame being read began in the latest frame, or it has waited longer than the
  timeout and the next Run drops it (`InLatest`, `WillTimeOut`). Run comes back
  before the age could wrap past the timeout (`StartIsTimed`), and the parser
  waits when a frame begins (`WaitsAfterPause`); a whole frame is then read from
  its first byte to its last (`WholeStays`). The hypothesis on the range of the
  timestamps is part of the property: with a timeout close to the range an old
  frame could look young again.
* `WireCarries` (`WireCarriesQueuedFrames`): what is on the wire behind the last
  whole frame is a beginning of the pending frame, cut at a chunk or given up
  after an error (`WireInv`).
* `EngineIsQueue`: without damage and without a frame timeout every step of the
  engine is a step of `FrameQueue` or a stutter (the `Safety` of
  `ImplementsFrameQueue`; its fairness is checked by TLC). The frames parsed are
  the first frames sent, and the parser is inside the next one or waits in front
  of it (`QueueInv`); the handler called is the one the table holds
  (`TableInv`, `LookupIs`).

Assumptions: `FrameAssumption`, `EngineAssumption` (ranges of the sizes; a
frame takes some time on the line; frames of the peer have a two-byte tag and
fit). That `2 ^ ByteBits` is a natural number is stated there because the
provers know nothing of exponentiation.

### Command path

`CommandPathProofs`: `HostIsServed` (`CallsServeTheHost`), for every command,
every value of its fields, every width of a byte and size of the mailbox. A
number of two or four bytes is read back as it was packed (`TwoDigits`,
`HalvesOf`, `Reads16`, `Reads32`), the parts of a payload stand one behind the
other (`Holds`, `HoldsParts`), and so each of the fourteen handlers reads the
arguments of its builder, also when a byte follows (`IsReadBack`, one lemma per
command). Handlers ask for the length that is packed (`LengthIsAsked`), so no
other frame is queued but a legacy one with bytes behind it. The invariant
(`PathInv`) says which command each waiting message and each round of calls
stems from; the property alone is not inductive, as it says nothing of messages
that wait.

Assumptions: `PathAssumption` (ranges of the sizes), `CommandAssumption` (the
host sends known commands with values that fit, as `to_bytes` enforces).

### Firmware

`FirmwareProofs` holds for every script, mailbox and program size, strip length, default
program, priority and fault.

* `WakeUpsPosted` (`WakeUpsArePosted`): pending work is announced by a flag, or
  by one `WaitAny` has handed to the loop and that the loop has not used up
  (`WakeInv`); without the second part the invariant is not inductive.
* `RestShows` (`RestShowsStaged`): the last frame committed is in the mailbox,
  in the hands of the HW task or on the LEDs (`StagedIsOnItsWay`).
* `BootLights` (`BootLightsEveryPixel`): with the HW task first and no fault,
  the strip is configured when its pixels are counted, and the writes of the
  default program make up the boot frame (`BootInv`, `DefaultFrame`).
* `PatientHostIsServed` (`PatientHostLosesNothing`, a conjunct of
  `StartedProgramIsWhole`): commands received and queued are never more than
  those sent (`NoCommandInvented`).
* `ProgramIsWhole` (all of `StartedProgramIsWhole`): as long as nothing was
  dropped, the commands under way are the next ones of the script
  (`Delivered`), and the controller holds the first `kMaxInstruction` writes since
  the last reset that it served, each inserted behind those with a mark not larger
  (`HoldsProgram`, `AddKeepsProgram`). Which add is refused follows from counting:
  the program is as long as the adds served or as there are slots, whichever is
  less (`FillsUp`, `AddFillsUp`); a program that was started is the one
  between that reset and that start (`RunsSince`).

Assumption: `FirmwareAssumption` (positive sizes; the default program, of seven
colours, fits the 28 slots; scripts of known commands with
natural marks, in which a start carries its place for the history variable).

### Effects

`EffectsProofs` proves `EffectsEnd` (`EffectsEndExactly`) and
`FadesAreMonotone` (the action property `FadeIsMonotone`) for every program,
strip, refresh period, clock and lateness. The inductive invariant is
`EffectsInv`: instructions the pass has not reached are reset (otherwise a
repeated effect would go on from an old start), the replay state of the one that
runs is a function of its start and of the colour it started from (`FadeState`,
`GradientState`), its next run is due within its duration counted from that
start (`OnTime`), and every pixel but that of a gradient in progress shows a
colour somebody gave it. `ElapsedIs` turns the difference of two wrapped
timestamps into the time that passed. The arithmetic of a fade is in
`ScaledColor` (a scaled colour has the brightness asked for, its channels
rounded to the nearest), `TargetValueIs` and `InterpolatedValue` (a later value
lies between an earlier one and the target, and all are bytes).

The invariant also gives `GradientsFollowTime`: a sample depends on the end
points and the time since the start only, not on the samples before it. A run
never comes at elapsed time zero, because delays are positive; with it the first
sample would be the rounded start colour instead of the colour itself.
`ValueSurvives` says for all colours that HSV to RGB keeps the value.

Assumption: `EffectsAssumption` (well-typed scenes; duration and lateness of a
run together are shorter than a turn of the clock: in the code durations have 16
bits and timestamps 32, so a run would have to be weeks late).

### Only model-checked

* Liveness and fairness (`live`, the fairness of `FrameQueue`, the temporal
  properties of `Firmware` and `Protocol`): out of the provers' reach.
* `Protocol.TypeOK`: one conjunct says that a checksum is a byte, that is, what
  repeated exclusive-or computes below a power of two. `ParserInv` proves the
  other ranges the parser depends on.
* `ColourSurvives`, `GrayPathIsGray` and `StillGradientKeepsLight`: how far a
  hue, a grey or the light of a channel may be off are facts about the numbers of
  the tables and matrices, not consequences of an argument. What they say
  beyond those tolerances is proved: `ValueSurvives` and `GradientsFollowTime`.
* `PassesDoNotDrift`: true of the loops that are played, with the percentages of
  `rainbow4.py` and of `fade_instruction.md` over every colour, and false of others
  (a loop that dims to one half ends black), so it is a statement about scenes.

## 5. Not modelled

Not modelled:

* `PendingInstructionQueueView`: nothing but its unit tests constructs it.
* `StripManager::Fill`: no caller.
* Short writes of the command port: `WriteAdapter` (`command_manager.cpp:63`) takes
  any result that is not negative for success, so a port that accepted only a part
  of a chunk would lose the rest. Whether the port does that is up to `bal/`;
  `Protocol` writes a chunk whole or not at all.
* The blink period of the status LED: it needs the length of every iteration of
  the HW loop; only whether `Blink` ends the task matters to the others.
* `bal/`, `oshal/`: submodules that are not in the repository, seen through
  their use. A command port that is absent (`command_port == nullptr`) is a
  firmware that never receives.
* Serial transport and command line of the device tools, build, provenance and
  flash tools, checks, maintenance scripts, logging: I/O of one process.
