------------------------------ MODULE Firmware ------------------------------
(***************************************************************************)
(* The two tasks of the firmware and what they share: the APP task         *)
(* (app/src/blink_app.cpp) that drives the controller, the HW task         *)
(* (app/src/hw/hw_task.cpp) that serves the command port and the strip,    *)
(* the command mailbox between the sink and the APP task, the one-frame    *)
(* mailbox of the strip manager, their event flags and the run timer.      *)
(*                                                                         *)
(* The mailboxes and event groups are the operating system's (external):   *)
(* Send posts the event, fails when the box is full; Receive clears the    *)
(* event with the last message; WaitAny clears the flags it returns.  The  *)
(* controller, modelled in full in Controller, is here a list of pixel     *)
(* writes with marks, run in order of their marks.                         *)
(***************************************************************************)
EXTENDS Naturals, Sequences, SequencesExt, FiniteSets

CONSTANTS LedCount,     \* pixels of the board's strip
          Rainbow,      \* kRainbowColors: sequence of colours
          kMailboxCapacity,  \* messages of the command mailbox, 32 in the code
          kMaxInstruction,   \* instructions the controller stores, 28 in the code
          Setups
          \* Setups is a set of circumstances the firmware may run in:
          \*   script    commands the host sends, in order
          \*   patient   the host sends nothing before the APP task waits
          \*   preempts  the APP task runs only while the HW task is blocked
          \*   blocks    the HW task is blocked while the strip is written
          \*   faults    devices may fail

\* The commands the hosts send
Commands == UNION {Range(c.script) : c \in Setups}

ASSUME FirmwareAssumption ==
    /\ LedCount \in Nat \ {0}
    /\ kMailboxCapacity \in Nat \ {0}
    /\ kMaxInstruction \in Nat \ {0}
    \* The default program fits: seven colours
    /\ Len(Rainbow) <= kMaxInstruction
    /\ Rainbow \in Seq(Range(Rainbow))
    /\ \A c \in Setups : c.script \in Seq(Commands)
    /\ \A m \in Commands : /\ m.cmd \in {"add", "reset", "run", "start"}
                           /\ m.cmd = "add" => m.write.mark \in Nat
    \* A start carries its place in the script, for the history variable started
    /\ \A c \in Setups : \A i \in DOMAIN c.script :
           c.script[i].cmd \in {"run", "start"} => c.script[i].number = i

VARIABLES setup,     \* the member of Setups that applies, never changed
          app,       \* where the APP task is
          appEvents, \* flags of app_event_group_
          appTaken,  \* flags WaitAny returned to AppTask::Loop
          led_count_,  \* AppTask's copy of the strip's pixel count
          ctl,       \* controller: state, instructions, cursor, reached
          timer,     \* run_timer_ is armed
          hw,        \* where the HW task is
          hwEvents,  \* flags of HwTask's event_group_
          hwTaken,
          strip,     \* StripManager: count (0 until Configure), staged frame
          frames,    \* StripManager::mailbox_, one frame at most
          frame,     \* the frame TryApplyLatest works on
          pixels,    \* what the LEDs show
          mailbox,   \* command mailbox
          mailboxSet,  \* ControllerCommandSink::mailbox_ is not null
          rx,        \* commands received by the port, not yet parsed
          sent,      \* how many commands the host has sent
          dropped,   \* history: a command was dropped
          lost,      \* history: the last Show failed
          started    \* history: the last command that started a program

appVars == <<app, appEvents, appTaken, led_count_, ctl, timer>>

hwVars == <<hw, hwEvents, hwTaken, frame, pixels, rx, sent>>

shared == <<strip, frames, mailbox, mailboxSet, dropped, lost, started>>

vars == <<setup, appVars, hwVars, shared>>

Leds == 0 .. LedCount - 1

Off == "off"

Dark == [i \in Leds |-> Off]

Init ==
    /\ setup \in Setups
    /\ app = "initialize" /\ appEvents = {} /\ appTaken = {} /\ led_count_ = 0
    /\ ctl = [state |-> "editable", instructions |-> <<>>, cursor |-> 1, reached |-> FALSE]
    /\ timer = FALSE
    /\ hw = "none" /\ hwEvents = {} /\ hwTaken = {}
    /\ strip = [count |-> 0, staged |-> Dark]
    /\ frames = <<>> /\ frame = Dark /\ pixels = Dark
    /\ mailbox = <<>> /\ mailboxSet = FALSE
    /\ rx = <<>> /\ sent = 0
    /\ dropped = FALSE /\ lost = FALSE /\ started = 0
-----------------------------------------------------------------------------
(* The controller and the strip manager, as the APP task calls them *)

\* Led(index)->SetColor for each write in turn: the last one of a pixel stands,
\* and nothing happens for a pixel the strip manager does not have
SetLedColors(staged, writes) ==
    LET of(i) == {j \in DOMAIN writes : writes[j].index = i}
    IN  [i \in Leds |-> IF i < strip.count /\ of(i) # {} THEN writes[Max(of(i))].color
                                                      ELSE staged[i]]

\* Mutant: the frame is committed as it was before this run's writes
ShowBeforeWrites(staged) ==
    /\ strip' = [strip EXCEPT !.staged = staged]
    /\ IF strip.count > 0 /\ frames = <<>>
       THEN frames' = <<strip.staged>> /\ hwEvents' = hwEvents \cup {"frame"} /\ lost' = FALSE
       ELSE lost' = TRUE /\ UNCHANGED <<frames, hwEvents>>

\* Show fails before Configure and when the mailbox still holds a frame; the
\* controller does not look at the result
Show(staged) ==
    /\ strip' = [strip EXCEPT !.staged = staged]
    /\ IF strip.count > 0 /\ frames = <<>>
       THEN /\ frames' = <<staged>>
            /\ hwEvents' = hwEvents \cup {"frame"}
            /\ lost' = FALSE
       ELSE /\ lost' = TRUE
            /\ UNCHANGED <<frames, hwEvents>>

\* Run: what is due is written, the timer is set to the next mark, then the
\* strip is shown.  Instructions due are those of mark 0 and, once the timer has
\* run out, those of the next mark.
Run(c) ==
    LET n     == Len(c.instructions)
        next  == IF c.cursor <= n THEN c.instructions[c.cursor].mark ELSE 0
        mark  == IF next = 0 \/ c.reached THEN next ELSE 0
        due   == {i \in c.cursor .. n : c.instructions[i].mark <= mark}
        after == c.cursor + Cardinality(due)
        write == SubSeq(c.instructions, c.cursor, after - 1)
    IN  IF c.state # "active"
        THEN ctl' = c /\ UNCHANGED <<timer, strip, frames, hwEvents, lost>>
        ELSE /\ ctl' = [c EXCEPT !.cursor = after,
                                 !.reached = IF due = {} THEN @ ELSE FALSE,
                                 !.state = IF after > n THEN "completed" ELSE @]
             /\ timer' = IF after <= n THEN TRUE ELSE timer
             /\ IF due = {} THEN UNCHANGED <<strip, frames, hwEvents, lost>>
                ELSE Show(SetLedColors(strip.staged, write))

\* Start, then the first Run.  A program without instructions is complete, one
\* that is active stays as it is.
StartAndTick(c, by) ==
    IF c.state = "active"
    THEN ctl' = c /\ UNCHANGED <<timer, strip, frames, hwEvents, lost, started>>
    ELSE /\ started' = by
         /\ Run([c EXCEPT !.cursor = 1, !.reached = FALSE,
                          !.state = IF c.instructions = <<>> THEN "completed" ELSE "active"])

ResetInstructions(c) ==
    [state |-> "editable", instructions |-> <<>>, cursor |-> 1, reached |-> FALSE]

\* Mutant: one instruction more than there are slots
AddPastLimit(c, w) ==
    LET notAfter == {i \in DOMAIN c.instructions : c.instructions[i].mark <= w.mark}
    IN  IF c.state # "editable" \/ Len(c.instructions) > kMaxInstruction THEN c
        ELSE [c EXCEPT !.instructions = InsertAt(@, Cardinality(notAfter) + 1, w)]

\* Refused (kBusy, kCapacityExhausted) unless the program can be edited and has a
\* slot left; the APP task only logs that.  The instructions are kept in the order
\* of their marks, which is the order in which the controller's index pool runs them.
AddInstruction(c, w) ==
    LET notAfter == {i \in DOMAIN c.instructions : c.instructions[i].mark <= w.mark}
    IN  IF c.state # "editable" \/ Len(c.instructions) >= kMaxInstruction THEN c
        ELSE [c EXCEPT !.instructions = InsertAt(@, Cardinality(notAfter) + 1, w)]
-----------------------------------------------------------------------------
(* The APP task *)

\* prism::Initialize creates the HW task when every device is ready
InitializeSucceeds ==
    /\ app = "initialize"
    /\ app' = "count"
    /\ hw' = "setup"
    /\ UNCHANGED <<appEvents, appTaken, led_count_, ctl, timer, hwEvents, hwTaken, frame,
                   pixels, rx, sent, shared>>

InitializeFails ==
    /\ setup.faults
    /\ app = "initialize"
    /\ app' = "stopped"
    /\ UNCHANGED <<appEvents, appTaken, led_count_, ctl, timer, hwVars, shared>>

SetupReadsLedCount ==
    /\ app = "count"
    /\ app' = "wire"
    /\ led_count_' = strip.count
    /\ UNCHANGED <<appEvents, appTaken, ctl, timer, hwVars, shared>>

SetMailbox ==
    /\ app = "wire"
    /\ app' = "default"
    /\ mailboxSet' = TRUE
    /\ UNCHANGED <<appEvents, appTaken, led_count_, ctl, timer, hwVars,
                   strip, frames, mailbox, dropped, lost, started>>

\* Mutant: the last pixel is left out
DefaultProgramShort(count) ==
    [i \in 1 .. (IF count < Len(Rainbow) THEN count - 1 ELSE Len(Rainbow) - 1) |->
        [index |-> i - 1, color |-> Rainbow[i], mark |-> 0]]

\* The default program: one colour per pixel, as many as there are colours
DefaultProgram(count) ==
    [i \in 1 .. (IF count < Len(Rainbow) THEN count ELSE Len(Rainbow)) |->
        [index |-> i - 1, color |-> Rainbow[i], mark |-> 0]]

SetupStartsDefault ==
    /\ app = "default"
    /\ app' = "wait"
    /\ StartAndTick([ctl EXCEPT !.instructions = DefaultProgram(led_count_)], 0)
    /\ UNCHANGED <<appEvents, appTaken, led_count_, hw, hwTaken, frame, pixels, rx, sent,
                   mailbox, mailboxSet, dropped>>

LoopWaits ==
    /\ app = "wait" /\ appEvents # {}
    /\ appTaken' = appEvents
    /\ appEvents' = {}
    /\ app' = "commands"
    /\ UNCHANGED <<led_count_, ctl, timer, hwVars, shared>>

ReceivesCommand == "command" \in appTaken /\ mailbox # <<>>

\* Mutant: one command for every wake-up
AfterOneCommand == "timeout"

\* UpdateInstructions goes on until the mailbox is empty
AfterCommand == "commands"

DispatchControllerCommand ==
    LET msg == Head(mailbox)
    IN  /\ app = "commands" /\ ReceivesCommand
        /\ app' = AfterCommand
        /\ mailbox' = Tail(mailbox)
        /\ appEvents' = IF Len(mailbox) = 1 THEN appEvents \ {"command"} ELSE appEvents
        /\ CASE msg.cmd = "add" ->
                  /\ ctl' = AddInstruction(ctl, msg.write)
                  /\ UNCHANGED <<timer, strip, frames, hwEvents, lost, started>>
             [] msg.cmd = "reset" ->
                  /\ ctl' = ResetInstructions(ctl)
                  /\ UNCHANGED <<timer, strip, frames, hwEvents, lost, started>>
             [] msg.cmd \in {"run", "start"} ->
                  StartAndTick(ctl, msg.number)
        /\ UNCHANGED <<appTaken, led_count_, hw, hwTaken, frame, pixels, rx, sent,
                       mailboxSet, dropped>>

CommandsDone ==
    /\ app = "commands" /\ ~ReceivesCommand
    /\ app' = "timeout"
    /\ UNCHANGED <<appEvents, appTaken, led_count_, ctl, timer, hwVars, shared>>

\* Mutant: the timer counts only for a wake-up that brought no command
TimesOutAlone == appTaken = {"timeout"}

TimesOut == "timeout" \in appTaken

LoopRuns ==
    /\ app = "timeout"
    /\ app' = "wait"
    /\ IF TimesOut THEN Run(ctl)
       ELSE UNCHANGED <<ctl, timer, strip, frames, hwEvents, lost>>
    /\ UNCHANGED <<appEvents, appTaken, led_count_, hw, hwTaken, frame, pixels, rx, sent,
                   mailbox, mailboxSet, dropped, started>>

\* The one-shot timer runs out (external): the next mark has come
TimerFires ==
    /\ timer
    /\ timer' = FALSE
    /\ appEvents' = appEvents \cup {"timeout"}
    /\ ctl' = [ctl EXCEPT !.reached = TRUE]
    /\ UNCHANGED <<setup, app, appTaken, led_count_, hwVars, shared>>
-----------------------------------------------------------------------------
(* The HW task *)

SetupConfigures ==
    /\ hw = "setup"
    /\ hw' = "register"
    /\ strip' = [strip EXCEPT !.count = LedCount]
    /\ UNCHANGED <<appVars, hwEvents, hwTaken, frame, pixels, rx, sent,
                   frames, mailbox, mailboxSet, dropped, lost, started>>

\* Handlers registered and banner printed, or the task ends
SetupRegisters ==
    /\ hw = "register"
    /\ hw' \in {"wait"} \cup (IF setup.faults THEN {"exited"} ELSE {})
    /\ UNCHANGED <<appVars, hwEvents, hwTaken, frame, pixels, rx, sent, shared>>

\* WaitAny returns without events when the idle sleep ends
HwIdles ==
    /\ hw = "wait" /\ hwEvents = {}
    /\ hw' = "blink"
    /\ hwTaken' = {}
    /\ UNCHANGED <<appVars, hwEvents, frame, pixels, rx, sent, shared>>

HwWaits ==
    /\ hw = "wait" /\ hwEvents # {}
    /\ hwTaken' = hwEvents
    /\ hwEvents' = {}
    /\ hw' = "receive"
    /\ UNCHANGED <<appVars, frame, pixels, rx, sent, shared>>

MailboxAccepts == mailboxSet /\ Len(mailbox) < kMailboxCapacity

\* CommandManager::Run parses what the port has received; the sink drops a
\* command when the APP task has not set its mailbox or the mailbox is full
QueueCommand ==
    /\ hw = "receive" /\ "rx" \in hwTaken /\ rx # <<>>
    /\ rx' = Tail(rx)
    /\ IF MailboxAccepts
       THEN /\ mailbox' = Append(mailbox, Head(rx))
            /\ appEvents' = appEvents \cup {"command"}
            /\ UNCHANGED dropped
       ELSE /\ dropped' = TRUE
            /\ UNCHANGED <<mailbox, appEvents>>
    /\ UNCHANGED <<app, appTaken, led_count_, ctl, timer, hw, hwEvents, hwTaken, frame,
                   pixels, sent, strip, frames, mailboxSet, lost, started>>

RunEnds ==
    /\ hw = "receive" /\ ~("rx" \in hwTaken /\ rx # <<>>)
    /\ hw' = "frames"
    /\ UNCHANGED <<appVars, hwEvents, hwTaken, frame, pixels, rx, sent, shared>>

\* Mutant: frames are looked at only when no command came with them
ServesFramesAlone == hwTaken = {"frame"}

ServesFrames == "frame" \in hwTaken

\* TryApplyLatest receives a frame, as long as there is one
ReceivesFrame ==
    /\ hw = "frames" /\ ServesFrames /\ frames # <<>>
    /\ frame' = Head(frames)
    /\ frames' = <<>>
    /\ hwEvents' = hwEvents \ {"frame"}
    /\ hw' = "apply"
    /\ UNCHANGED <<appVars, hwTaken, pixels, rx, sent, strip, mailbox, mailboxSet, dropped,
                   lost, started>>

ApplyFrame ==
    /\ hw = "apply"
    /\ pixels' = frame
    /\ hw' = "frames"
    /\ UNCHANGED <<appVars, hwEvents, hwTaken, frame, rx, sent, shared>>

\* A pixel is not ready, cannot be set, or the strip cannot be flushed
ApplyFrameFails ==
    /\ setup.faults
    /\ hw = "apply"
    /\ hw' = "exited"
    /\ UNCHANGED <<appVars, hwEvents, hwTaken, frame, pixels, rx, sent, shared>>

FramesDone ==
    /\ hw = "frames" /\ ~(ServesFrames /\ frames # <<>>)
    /\ hw' = "blink"
    /\ UNCHANGED <<appVars, hwEvents, hwTaken, frame, pixels, rx, sent, shared>>

\* StatusLed::Blink.  A status LED that cannot be toggled ends the task.
Blink ==
    /\ hw = "blink"
    /\ hw' \in {"wait"} \cup (IF setup.faults THEN {"exited"} ELSE {})
    /\ UNCHANGED <<appVars, hwEvents, hwTaken, frame, pixels, rx, sent, shared>>

\* The next command of the host arrives at the port (external), which posts its
\* event once HwTask::Setup has configured it
HostSends ==
    /\ sent < Len(setup.script)
    /\ hw \notin {"none", "setup"}
    /\ setup.patient => app \in {"wait", "commands", "timeout"}
    /\ sent' = sent + 1
    /\ rx' = Append(rx, setup.script[sent + 1])
    /\ hwEvents' = hwEvents \cup {"rx"}
    /\ UNCHANGED <<setup, appVars, hw, hwTaken, frame, pixels, shared>>
-----------------------------------------------------------------------------
HwIsBlocked ==
    \/ hw \in {"none", "exited"}
    \/ hw = "wait" /\ hwEvents = {}
    \/ setup.blocks /\ hw = "apply"

AppStep ==
    /\ UNCHANGED setup
    /\ setup.preempts => HwIsBlocked
    /\ \/ InitializeSucceeds
       \/ InitializeFails
       \/ SetupReadsLedCount
       \/ SetMailbox
       \/ SetupStartsDefault
       \/ LoopWaits
       \/ DispatchControllerCommand
       \/ CommandsDone
       \/ LoopRuns

HwStep ==
    /\ UNCHANGED setup
    /\ \/ SetupConfigures
       \/ SetupRegisters
       \/ HwIdles
       \/ HwWaits
       \/ QueueCommand
       \/ RunEnds
       \/ ReceivesFrame
       \/ ApplyFrame
       \/ ApplyFrameFails
       \/ FramesDone
       \/ Blink

Next == AppStep \/ HwStep \/ TimerFires \/ HostSends

Spec == Init /\ [][Next]_vars

\* The scheduler runs a task that is not blocked, and the timer runs out.  The
\* APP task gets its turn again and again also when it runs only while the HW
\* task sleeps, because that sleep lasts and the HW task does little else.
FairSpec == Spec /\ SF_vars(AppStep) /\ WF_vars(HwStep) /\ WF_vars(TimerFires)
-----------------------------------------------------------------------------
\* Nothing is left to do but to wait for the host
Settled ==
    /\ app = "wait" /\ appEvents = {} /\ ~timer
    /\ hw \in {"wait", "blink"} /\ hwEvents = {}

\* The last command of the script up to n that is not an add is a reset
Editing(script, n) ==
    \E r \in 1 .. n : /\ script[r].cmd = "reset"
                      /\ \A i \in r + 1 .. n : script[i].cmd = "add"

HasReset(script, n) == \E r \in 1 .. n : script[r].cmd = "reset"

\* The commands that make up the program of the host after n commands: the adds
\* behind the last reset, up to the first command that is not an add
ProgramSlots(script, n) ==
    {k \in 1 .. n : /\ script[k].cmd = "add"
                    /\ Editing(script, k)
                    /\ \A i \in k .. n : script[i].cmd # "reset"}

\* As many of them as the controller has slots for
StoredSlots(script, n) ==
    LET slots == ProgramSlots(script, n)
    IN  {k \in slots : Cardinality({j \in slots : j < k}) < kMaxInstruction}

\* The writes of those commands, each once, by mark, and in the order they were
\* sent within a mark
IsProgramOf(program, script, n) ==
    \E slot \in [DOMAIN program -> StoredSlots(script, n)] :
        /\ \A k \in StoredSlots(script, n) : \E j \in DOMAIN program : slot[j] = k
        /\ \A j \in DOMAIN program : program[j] = script[slot[j]].write
        /\ \A i, j \in DOMAIN program : i < j =>
               \/ program[i].mark < program[j].mark
               \/ program[i].mark = program[j].mark /\ slot[i] < slot[j]

\* No wake-up is lost: a task that waits has its flag set whenever there is a
\* command, a frame or a due program for it, although WaitAny and Receive clear
\* flags that Send and the timer may be posting (blink_app.cpp Loop, hw_task.cpp
\* Loop).
WakeUpsArePosted ==
    /\ app = "wait" /\ mailbox # <<>> => "command" \in appEvents
    /\ app = "wait" /\ ctl.state = "active" => timer \/ "timeout" \in appEvents
    /\ hw = "wait" /\ frames # <<>> => "frame" \in hwEvents
    /\ hw = "wait" /\ rx # <<>> => "rx" \in hwEvents

\* When everything has come to rest the LEDs show the staged frame, whatever the
\* tasks' order was, unless the last Show was refused because the one-frame
\* mailbox was still full (strip_manager.cpp Show; the controller ignores it).
\* An earlier refusal is repaired: a frame is a copy of all pixels.  When the HW
\* task preempts the APP task and the strip is written without waiting, no frame
\* is ever refused.
RestShowsStaged == Settled =>
    /\ ~lost => pixels = strip.staged
    /\ setup.preempts /\ ~setup.blocks => ~lost

\* When the HW task preempts the APP task, after boot and before the first command
\* every pixel that has a default colour shows it ("one SetSingleColor instruction
\* per LED", blink_app.cpp:103).  Otherwise AppTask::Setup may read the pixel
\* count before the strip is configured.
BootLightsEveryPixel ==
    Settled /\ sent = 0 /\ setup.preempts /\ ~setup.faults =>
        \A i \in Leds : pixels[i] = IF i < Len(Rainbow) THEN Rainbow[i + 1] ELSE Off

\* A host that waits for the boot and sends no more than the mailbox holds has no
\* command dropped, whichever task runs first (the sizing argument of
\* app/controller/docs/fade_instruction.md:68).
PatientHostLosesNothing == setup.patient /\ sent <= kMailboxCapacity => ~dropped

\* The program that runs is the one the host sent before it started it, in the order
\* of its marks, although it was sent over, queued and added command by command;
\* without one it is the default program.  It is whole when it has no more than
\* kMaxInstruction instructions.  Of a longer one exactly the first kMaxInstruction
\* run: AddInstruction refuses the rest, UpdateInstructions logs that, and the start
\* behind them is served (blink_app.cpp:139-153).  It can be another only after the
\* sink has dropped a command, which a patient host does not meet: its commands
\* are all queued, also those that are then refused.
StartedProgramIsWhole ==
    /\ app \in {"wait", "commands", "timeout"} /\ ctl.state # "editable" /\ ~dropped =>
           IF HasReset(setup.script, started)
           THEN IsProgramOf(ctl.instructions, setup.script, started)
           ELSE ctl.instructions = DefaultProgram(led_count_)
    /\ PatientHostLosesNothing

\* Every committed frame is taken by the HW task, unless that task has ended
FramesAreTaken == frames # <<>> ~> (frames = <<>> \/ hw = "exited")

\* A program goes on to its last mark, even when the HW task has ended and none
\* of its frames is taken any more
ProgramsComplete == ctl.state = "active" ~> ctl.state # "active"
=============================================================================
