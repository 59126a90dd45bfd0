--------------------------- MODULE FirmwareProofs ---------------------------
(***************************************************************************)
(* No wake-up is lost between the two tasks, at rest the LEDs show what    *)
(* was staged, a host that waits loses no command, the program that runs   *)
(* is the one that was sent, and the default program reaches the LEDs      *)
(* before the first command: whatever the hosts send, the sizes of the     *)
(* strip and the mailbox, the task priorities and the faults.              *)
(***************************************************************************)
EXTENDS Firmware, TLAPS, FiniteSetTheorems, SequenceTheorems, WellFoundedInduction

Writes ==
    {[index |-> i - 1, color |-> Rainbow[i], mark |-> 0] : i \in DOMAIN Rainbow}
    \cup {m.write : m \in {c \in Commands : c.cmd = "add"}}

Program == [ state        : {"editable", "active", "completed"},
             instructions : Seq(Writes),
             cursor       : Nat,
             reached      : BOOLEAN ]

Booting == {"initialize", "stopped", "count", "wire", "default"}

TypeInv ==
    /\ setup \in Setups
    /\ app \in Booting \cup {"wait", "commands", "timeout"}
    /\ ctl \in Program
    /\ led_count_ \in Nat
    /\ strip.count \in Nat
    /\ strip = [count |-> strip.count, staged |-> strip.staged]
    /\ mailbox \in Seq(Commands)
    /\ rx \in Seq(Commands)
    /\ sent \in Nat
    /\ frames = <<>> \/ frames = <<frames[1]>>

(* Pending work is announced by a flag that is still set, or by one that   *)
(* WaitAny has handed to the loop and that the loop has not used up yet.   *)
CommandsAnnounced ==
    mailbox # <<>> => \/ "command" \in appEvents
                      \/ app = "commands" /\ "command" \in appTaken

ProgramAnnounced ==
    ctl.state = "active" => \/ timer
                            \/ "timeout" \in appEvents
                            \/ app \in {"commands", "timeout"} /\ "timeout" \in appTaken

FramesAnnounced ==
    frames # <<>> => \/ "frame" \in hwEvents
                     \/ hw \in {"receive", "frames"} /\ "frame" \in hwTaken

BytesAnnounced ==
    rx # <<>> => \/ "rx" \in hwEvents
                 \/ hw = "receive" /\ "rx" \in hwTaken

(* The HW task exists once the APP task is past prism::Initialize, and has *)
(* configured the strip before it serves anything.                         *)
BootOrder ==
    /\ app \in {"initialize", "stopped"} <=> hw = "none"
    /\ hw \notin {"none", "setup"} => strip.count > 0
    /\ app \notin {"initialize", "stopped", "count", "wire"} => mailboxSet

WakeInv ==
    /\ TypeInv
    /\ CommandsAnnounced
    /\ ProgramAnnounced
    /\ FramesAnnounced
    /\ BytesAnnounced
    /\ BootOrder

(* The last frame that left the APP task, wherever it is now               *)
Latest == IF frames # <<>> THEN frames[1] ELSE IF hw = "apply" THEN frame ELSE pixels

StagedIsOnItsWay == hw # "exited" =>
    /\ ~lost => Latest = strip.staged
    /\ setup.preempts /\ ~setup.blocks => ~lost

(* One default colour per pixel                                            *)
BootFrame == [i \in Leds |-> IF i < Len(Rainbow) THEN Rainbow[i + 1] ELSE Off]

(* A boot that nothing disturbs: the strip is configured when its pixels   *)
(* are counted, and the default program is shown whole and at once.        *)
BootInv == setup.preempts /\ ~setup.faults =>
    /\ hw # "exited"
    /\ strip.count \in {0, LedCount}
    /\ app \in Booting => /\ ctl.state = "editable" /\ frames = <<>> /\ ~lost
                          /\ strip.staged = Dark
    /\ app \in {"wire", "default"} => led_count_ = LedCount
    /\ app \notin Booting /\ sent = 0 => /\ ctl.state = "completed" /\ ~lost
                                        /\ strip.staged = BootFrame

(* Every command the host has sent is parsed or counted here at most once  *)
NoCommandInvented ==
    /\ Len(rx) + Len(mailbox) <= sent
    /\ setup.patient /\ sent > 0 => app \in {"wait", "commands", "timeout"}
    /\ PatientHostLosesNothing

(* How many commands the APP task has taken, when none was dropped         *)
Served == sent - Len(rx) - Len(mailbox)

(* Those behind are in the mailbox and those behind these at the port      *)
Delivered ==
    /\ sent <= Len(setup.script)
    /\ Len(rx) + Len(mailbox) <= sent
    /\ \A i \in 1 .. Len(mailbox) : mailbox[i] = setup.script[Served + i]
    /\ \A i \in 1 .. Len(rx) : rx[i] = setup.script[Served + Len(mailbox) + i]

(* The program of the host has not changed since command n started it      *)
RunsSince(script, by, n) ==
    /\ by \in 0 .. n
    /\ HasReset(script, n) => /\ by > 0
                              /\ ~Editing(script, by)
                              /\ \A i \in by .. n : script[i].cmd # "reset"

(* The controller has taken the adds it was sent, until it was full        *)
FillsUp(c, script, n) ==
    LET count == Cardinality(ProgramSlots(script, n))
    IN  Len(c.instructions) = IF count < kMaxInstruction THEN count ELSE kMaxInstruction

(* What the controller holds after n commands, if command by was the last  *)
(* to start a program                                                      *)
HoldsProgram(c, by, script, n, default) ==
    /\ c.state = "editable" <=> Editing(script, n)
    /\ Editing(script, n) => FillsUp(c, script, n)
    /\ IF HasReset(script, n) THEN IsProgramOf(c.instructions, script, n)
                              ELSE c.instructions = default
    /\ c.state # "editable" => RunsSince(script, by, n)

WholeInv == ~dropped =>
    /\ Delivered
    /\ app \in Booting => Served = 0 /\ ctl.state = "editable"
    /\ app \notin Booting =>
           HoldsProgram(ctl, started, setup.script, Served, DefaultProgram(led_count_))

-----------------------------------------------------------------------------
(* The controller and the strip manager.                                   *)

(* AddInstruction inserts a write into the program, wherever its mark puts *)
(* it.                                                                     *)
LEMMA AddType ==
    ASSUME NEW c \in Program, NEW w \in Writes
    PROVE  AddInstruction(c, w) \in Program
<1> DEFINE s == c.instructions
           n == Cardinality({i \in DOMAIN s : s[i].mark <= w.mark}) + 1
<1>1. s \in Seq(Writes) /\ Len(s) \in Nat /\ DOMAIN s = 1 .. Len(s)
  BY DEF Program
<1>2. n \in Nat /\ n - 1 \in 0 .. Len(s)
  <2>1. IsFiniteSet(1 .. Len(s)) /\ Cardinality(1 .. Len(s)) = Len(s)
    BY <1>1, FS_Interval
  <2>2. {i \in DOMAIN s : s[i].mark <= w.mark} \in SUBSET (1 .. Len(s))
    BY <1>1
  <2> QED
    BY <1>1, <2>1, <2>2, FS_Subset, FS_CardinalityType
<1>3. InsertAt(s, n, w) \in Seq(Writes)
  <2> HIDE DEF s, n
  <2>1. SubSeq(s, 1, n - 1) \in Seq(Writes)
    BY <1>1, <1>2
  <2>2. SubSeq(s, n, Len(s)) \in Seq(Writes)
    BY <1>1, <1>2
  <2>3. <<w>> \in Seq(Writes)
    OBVIOUS
  <2> QED
    BY <2>1, <2>2, <2>3 DEF InsertAt
<1>4. CASE c.state = "editable" /\ ~(Len(s) >= kMaxInstruction)
  <2>1. AddInstruction(c, w) = [c EXCEPT !.instructions = InsertAt(s, n, w)]
    BY <1>4 DEF AddInstruction
  <2> HIDE DEF s, n
  <2> QED
    BY <2>1, <1>3 DEF Program
<1>5. CASE c.state # "editable" \/ Len(s) >= kMaxInstruction
  BY <1>5 DEF AddInstruction
<1> QED
  BY <1>4, <1>5

(* A Run that leaves the program active has armed the timer, and touches   *)
(* the strip only through Show.                                            *)
LEMMA RunEffect ==
    ASSUME NEW c \in Program, Run(c)
    PROVE  /\ ctl' \in Program
           /\ ctl'.state = "active" => timer'
           /\ \/ UNCHANGED <<strip, frames, hwEvents, lost>>
              \/ \E staged : Show(staged)
<1> DEFINE n     == Len(c.instructions)
           next  == IF c.cursor <= n THEN c.instructions[c.cursor].mark ELSE 0
           mark  == IF next = 0 \/ c.reached THEN next ELSE 0
           due   == {i \in c.cursor .. n : c.instructions[i].mark <= mark}
           after == c.cursor + Cardinality(due)
           write == SubSeq(c.instructions, c.cursor, after - 1)
<1>1. CASE c.state # "active"
  BY <1>1 DEF Run
<1>2. CASE c.state = "active"
  <2>1. n \in Nat /\ c.cursor \in Nat
    BY DEF Program
  <2>2. Cardinality(due) \in Nat
    <3>1. due \in SUBSET (c.cursor .. n)
      OBVIOUS
    <3> HIDE DEF n, due
    <3>2. IsFiniteSet(c.cursor .. n)
      BY <2>1, FS_Interval
    <3> QED
      BY <3>1, <3>2, FS_Subset, FS_CardinalityType
  <2>3. after \in Nat
    BY <2>1, <2>2
  <2>4. /\ ctl' = [c EXCEPT !.cursor = after,
                            !.reached = IF due = {} THEN @ ELSE FALSE,
                            !.state = IF after > n THEN "completed" ELSE @]
        /\ timer' = IF after <= n THEN TRUE ELSE timer
        /\ IF due = {} THEN UNCHANGED <<strip, frames, hwEvents, lost>>
           ELSE Show(SetLedColors(strip.staged, write))
    BY <1>2 DEF Run
  <2> HIDE DEF n, due, after, write
  <2>5. ctl' \in Program
    BY <1>2, <2>3, <2>4 DEF Program
  <2>6. ctl'.state = "active" => timer'
    <3>1. ctl'.state = IF after > n THEN "completed" ELSE "active"
      BY <1>2, <2>4 DEF Program
    <3> QED
      BY <3>1, <2>1, <2>3, <2>4
  <2>7. UNCHANGED <<strip, frames, hwEvents, lost>> \/ \E staged : Show(staged)
    BY <2>4
  <2> QED
    BY <2>5, <2>6, <2>7
<1> QED
  BY <1>1, <1>2

(* A start leaves an active program alone, or runs it from its beginning.  *)
LEMMA StartEffect ==
    ASSUME NEW c \in Program, NEW by, StartAndTick(c, by)
    PROVE  /\ ctl' \in Program
           /\ ctl'.state = "active" => timer' \/ (c.state = "active" /\ UNCHANGED timer)
           /\ \/ UNCHANGED <<strip, frames, hwEvents, lost>>
              \/ \E staged : Show(staged)
<1> DEFINE fresh == [c EXCEPT !.cursor = 1, !.reached = FALSE,
                              !.state = IF c.instructions = <<>> THEN "completed" ELSE "active"]
<1>1. CASE c.state = "active"
  BY <1>1 DEF StartAndTick
<1>2. CASE c.state # "active"
  <2>1. fresh \in Program
    BY DEF Program
  <2>2. Run(fresh)
    BY <1>2 DEF StartAndTick
  <2> HIDE DEF fresh
  <2> QED
    BY <2>1, <2>2, RunEffect
<1> QED
  BY <1>1, <1>2

(* The default program is a sequence of writes.                            *)
LEMMA DefaultType ==
    ASSUME NEW count \in Nat
    PROVE  DefaultProgram(count) \in Seq(Writes)
<1> DEFINE n == IF count < Len(Rainbow) THEN count ELSE Len(Rainbow)
<1>1. Len(Rainbow) \in Nat /\ DOMAIN Rainbow = 1 .. Len(Rainbow)
  BY FirmwareAssumption
<1>2. n \in Nat /\ 1 .. n \subseteq DOMAIN Rainbow
  BY <1>1
<1>3. DefaultProgram(count) \in [1 .. n -> Writes]
  BY <1>2 DEF DefaultProgram, Writes
<1> QED
  BY <1>2, <1>3

(* The first message of the mailbox is a command the dispatcher knows.     *)
LEMMA MessageType ==
    ASSUME TypeInv, mailbox # <<>>
    PROVE  /\ Head(mailbox) \in Commands
           /\ Head(mailbox).cmd \in {"add", "reset", "run", "start"}
           /\ Head(mailbox).cmd = "add" => Head(mailbox).write \in Writes
           /\ Tail(mailbox) \in Seq(Commands)
           /\ Len(Tail(mailbox)) = Len(mailbox) - 1
           /\ Len(mailbox) \in Nat
           /\ Len(mailbox) = 1 => Tail(mailbox) = <<>>
<1>1. mailbox \in Seq(Commands)
  BY DEF TypeInv
<1>2. /\ Head(mailbox) \in Commands
      /\ Tail(mailbox) \in Seq(Commands)
      /\ Len(mailbox) \in Nat
      /\ Len(Tail(mailbox)) = Len(mailbox) - 1
  BY <1>1
<1>3. Len(mailbox) = 1 => Tail(mailbox) = <<>>
  <2> DEFINE t == Tail(mailbox)
  <2>1. t \in Seq(Commands) /\ Len(t) = Len(mailbox) - 1
    BY <1>2
  <2> HIDE DEF t
  <2>2. Len(mailbox) = 1 => t = <<>>
    BY <1>2, <2>1
  <2> QED
    BY <2>2 DEF t
<1>4. Head(mailbox).cmd \in {"add", "reset", "run", "start"}
  BY <1>2, FirmwareAssumption
<1>5. Head(mailbox).cmd = "add" => Head(mailbox).write \in Writes
  BY <1>2 DEF Writes
<1> QED
  BY <1>2, <1>3, <1>4, <1>5

-----------------------------------------------------------------------------
(* Wake-ups.                                                               *)

(* A Show, accepted or refused, keeps what is known about the frames.      *)
LEMMA ShowEffect ==
    ASSUME TypeInv, FramesAnnounced, NEW staged, Show(staged)
    PROVE  /\ strip'.count = strip.count /\ strip'.staged = staged
           /\ strip' = [count |-> strip'.count, staged |-> strip'.staged]
           /\ frames' = <<>> \/ frames' = <<frames'[1]>>
           /\ frames' # <<>> => "frame" \in hwEvents' \/ (frames' = frames /\ hwEvents' = hwEvents)
           /\ hwEvents \subseteq hwEvents'
           /\ ~lost' => frames' = <<staged>>
           /\ strip.count > 0 /\ frames = <<>> => ~lost'
BY DEF Show, TypeInv

(* Before the tasks start nothing is pending and no flag is needed.        *)
LEMMA WakeInit == Init => WakeInv
BY FirmwareAssumption DEF Init, WakeInv, TypeInv, Program, Booting, CommandsAnnounced,
   ProgramAnnounced, FramesAnnounced, BytesAnnounced, BootOrder

(* Every step of a task, the timer or the host keeps each pending piece of *)
(* work announced.                                                         *)
LEMMA WakeNext == WakeInv /\ [Next]_vars => WakeInv'
<1> SUFFICES ASSUME WakeInv, [Next]_vars
             PROVE  WakeInv'
  OBVIOUS
<1> USE DEF Booting
<1>a. /\ TypeInv /\ CommandsAnnounced /\ ProgramAnnounced /\ FramesAnnounced
      /\ BytesAnnounced /\ BootOrder
  BY DEF WakeInv
<1>1. CASE UNCHANGED vars
  BY <1>1, <1>a DEF vars, appVars, hwVars, shared, WakeInv, TypeInv, CommandsAnnounced,
     ProgramAnnounced, FramesAnnounced, BytesAnnounced, BootOrder
<1>2. CASE AppStep
  <2> USE <1>a DEF hwVars, shared
  <2>0. UNCHANGED setup
    BY <1>2 DEF AppStep
  <2>1. CASE InitializeSucceeds
    BY <2>0, <2>1 DEF InitializeSucceeds, WakeInv, TypeInv, CommandsAnnounced,
       ProgramAnnounced, FramesAnnounced, BytesAnnounced, BootOrder
  <2>2. CASE InitializeFails
    BY <2>0, <2>2 DEF InitializeFails, WakeInv, TypeInv, CommandsAnnounced,
       ProgramAnnounced, FramesAnnounced, BytesAnnounced, BootOrder
  <2>3. CASE SetupReadsLedCount
    BY <2>0, <2>3 DEF SetupReadsLedCount, WakeInv, TypeInv, CommandsAnnounced,
       ProgramAnnounced, FramesAnnounced, BytesAnnounced, BootOrder
  <2>4. CASE SetMailbox
    BY <2>0, <2>4 DEF SetMailbox, WakeInv, TypeInv, CommandsAnnounced,
       ProgramAnnounced, FramesAnnounced, BytesAnnounced, BootOrder
  <2>5. CASE SetupStartsDefault
    <3> DEFINE c == [ctl EXCEPT !.instructions = DefaultProgram(led_count_)]
    <3>1. StartAndTick(c, 0)
      BY <2>5 DEF SetupStartsDefault
    <3>2. c \in Program /\ c.state = ctl.state
      BY DefaultType DEF TypeInv, Program
    <3> HIDE DEF c
    <3>3. /\ ctl' \in Program
          /\ ctl'.state = "active" => timer' \/ (ctl.state = "active" /\ UNCHANGED timer)
          /\ \/ UNCHANGED <<strip, frames, hwEvents, lost>>
             \/ \E staged : Show(staged)
      BY <3>1, <3>2, StartEffect
    <3>4. /\ app = "default" /\ app' = "wait"
          /\ UNCHANGED <<appEvents, appTaken, led_count_, hw, hwTaken, frame, pixels, rx, sent,
                         mailbox, mailboxSet, dropped>>
      BY <2>5 DEF SetupStartsDefault
    <3>5. TypeInv' /\ FramesAnnounced' /\ BytesAnnounced' /\ BootOrder'
      <4>1. CASE UNCHANGED <<strip, frames, hwEvents, lost>>
        BY <2>0, <3>3, <3>4, <4>1 DEF TypeInv, FramesAnnounced, BytesAnnounced, BootOrder
      <4>2. CASE \E staged : Show(staged)
        BY <2>0, <3>3, <3>4, <4>2, ShowEffect DEF TypeInv, FramesAnnounced, BytesAnnounced,
           BootOrder
      <4> QED
        BY <3>3, <4>1, <4>2
    <3>6. CommandsAnnounced' /\ ProgramAnnounced'
      BY <3>3, <3>4 DEF CommandsAnnounced, ProgramAnnounced
    <3> QED
      BY <3>5, <3>6 DEF WakeInv
  <2>6. CASE LoopWaits
    BY <2>0, <2>6 DEF LoopWaits, WakeInv, TypeInv, CommandsAnnounced,
       ProgramAnnounced, FramesAnnounced, BytesAnnounced, BootOrder
  <2>7. CASE DispatchControllerCommand
    <3> DEFINE msg == Head(mailbox)
    <3>1. /\ app = "commands" /\ "command" \in appTaken /\ mailbox # <<>>
          /\ app' = "commands"
          /\ mailbox' = Tail(mailbox)
          /\ appEvents' = IF Len(mailbox) = 1 THEN appEvents \ {"command"} ELSE appEvents
          /\ UNCHANGED <<appTaken, led_count_, hw, hwTaken, frame, pixels, rx, sent,
                         mailboxSet, dropped>>
      BY <2>7 DEF DispatchControllerCommand, ReceivesCommand, AfterCommand
    <3>2. /\ ctl' \in Program
          /\ ctl'.state = "active" => timer' \/ (ctl.state = "active" /\ UNCHANGED timer)
          /\ \/ UNCHANGED <<strip, frames, hwEvents, lost>>
             \/ \E staged : Show(staged)
      <4>1. CASE msg.cmd = "add"
        <5>1. /\ ctl' = AddInstruction(ctl, msg.write)
              /\ UNCHANGED <<timer, strip, frames, hwEvents, lost, started>>
          BY <2>7, <4>1 DEF DispatchControllerCommand
        <5>2. ctl \in Program /\ msg.write \in Writes
          BY <3>1, <4>1, MessageType DEF TypeInv
        <5>3. AddInstruction(ctl, msg.write).state = ctl.state
          BY <5>2 DEF AddInstruction, Program
        <5> QED
          BY <5>1, <5>2, <5>3, AddType
      <4>2. CASE msg.cmd = "reset"
        <5>1. /\ ctl' = ResetInstructions(ctl)
              /\ UNCHANGED <<timer, strip, frames, hwEvents, lost, started>>
          BY <2>7, <4>2 DEF DispatchControllerCommand
        <5> QED
          BY <5>1 DEF ResetInstructions, Program
      <4>3. CASE msg.cmd \in {"run", "start"}
        <5>1. StartAndTick(ctl, msg.number)
          BY <2>7, <4>3 DEF DispatchControllerCommand
        <5> QED
          BY <5>1, StartEffect DEF TypeInv
      <4> QED
        BY <3>1, <4>1, <4>2, <4>3, MessageType
    <3>3. TypeInv' /\ FramesAnnounced' /\ BytesAnnounced' /\ BootOrder'
      <4>1. CASE UNCHANGED <<strip, frames, hwEvents, lost>>
        BY <2>0, <3>1, <3>2, <4>1, MessageType DEF TypeInv, FramesAnnounced, BytesAnnounced,
           BootOrder
      <4>2. CASE \E staged : Show(staged)
        BY <2>0, <3>1, <3>2, <4>2, ShowEffect, MessageType DEF TypeInv, FramesAnnounced,
           BytesAnnounced, BootOrder
      <4> QED
        BY <3>2, <4>1, <4>2
    <3>4. CommandsAnnounced' /\ ProgramAnnounced'
      BY <3>1, <3>2, MessageType DEF CommandsAnnounced, ProgramAnnounced
    <3> QED
      BY <3>3, <3>4 DEF WakeInv
  <2>8. CASE CommandsDone
    BY <2>0, <2>8 DEF CommandsDone, ReceivesCommand, WakeInv, TypeInv, CommandsAnnounced,
       ProgramAnnounced, FramesAnnounced, BytesAnnounced, BootOrder
  <2>9. CASE LoopRuns
    <3>1. /\ app = "timeout" /\ app' = "wait"
          /\ UNCHANGED <<appEvents, appTaken, led_count_, hw, hwTaken, frame, pixels, rx, sent,
                         mailbox, mailboxSet, dropped, started>>
      BY <2>9 DEF LoopRuns
    <3>2. CASE TimesOut
      <4>1. /\ ctl' \in Program
            /\ ctl'.state = "active" => timer'
            /\ \/ UNCHANGED <<strip, frames, hwEvents, lost>>
               \/ \E staged : Show(staged)
        BY <2>9, <3>2, RunEffect DEF LoopRuns, TypeInv
      <4>2. TypeInv' /\ FramesAnnounced' /\ BytesAnnounced' /\ BootOrder'
        <5>1. CASE UNCHANGED <<strip, frames, hwEvents, lost>>
          BY <2>0, <3>1, <4>1, <5>1 DEF TypeInv, FramesAnnounced, BytesAnnounced, BootOrder
        <5>2. CASE \E staged : Show(staged)
          BY <2>0, <3>1, <4>1, <5>2, ShowEffect DEF TypeInv, FramesAnnounced, BytesAnnounced,
             BootOrder
        <5> QED
          BY <4>1, <5>1, <5>2
      <4>3. CommandsAnnounced' /\ ProgramAnnounced'
        BY <3>1, <4>1 DEF CommandsAnnounced, ProgramAnnounced
      <4> QED
        BY <4>2, <4>3 DEF WakeInv
    <3>3. CASE ~TimesOut
      BY <2>0, <2>9, <3>3 DEF LoopRuns, TimesOut, WakeInv, TypeInv, CommandsAnnounced,
         ProgramAnnounced, FramesAnnounced, BytesAnnounced, BootOrder
    <3> QED
      BY <3>2, <3>3
  <2> QED
    BY <1>2, <2>1, <2>2, <2>3, <2>4, <2>5, <2>6, <2>7, <2>8, <2>9 DEF AppStep
<1>3. CASE HwStep
  <2> USE <1>a DEF appVars, shared
  <2>0. UNCHANGED setup
    BY <1>3 DEF HwStep
  <2>1. CASE SetupConfigures
    BY <2>0, <2>1, FirmwareAssumption DEF SetupConfigures, WakeInv, TypeInv, CommandsAnnounced,
       ProgramAnnounced, FramesAnnounced, BytesAnnounced, BootOrder
  <2>2. CASE SetupRegisters
    BY <2>0, <2>2 DEF SetupRegisters, WakeInv, TypeInv, CommandsAnnounced,
       ProgramAnnounced, FramesAnnounced, BytesAnnounced, BootOrder
  <2>3. CASE HwIdles
    BY <2>0, <2>3 DEF HwIdles, WakeInv, TypeInv, CommandsAnnounced,
       ProgramAnnounced, FramesAnnounced, BytesAnnounced, BootOrder
  <2>4. CASE HwWaits
    BY <2>0, <2>4 DEF HwWaits, WakeInv, TypeInv, CommandsAnnounced,
       ProgramAnnounced, FramesAnnounced, BytesAnnounced, BootOrder
  <2>5. CASE QueueCommand
    <3>1. Head(rx) \in Commands /\ Tail(rx) \in Seq(Commands)
      BY <2>5 DEF QueueCommand, TypeInv
    <3>2. Append(mailbox, Head(rx)) \in Seq(Commands)
      BY <3>1 DEF TypeInv
    <3> QED
      BY <2>0, <2>5, <3>1, <3>2 DEF QueueCommand, WakeInv, TypeInv, CommandsAnnounced,
         ProgramAnnounced, FramesAnnounced, BytesAnnounced, BootOrder
  <2>6. CASE RunEnds
    BY <2>0, <2>6 DEF RunEnds, WakeInv, TypeInv, CommandsAnnounced,
       ProgramAnnounced, FramesAnnounced, BytesAnnounced, BootOrder
  <2>7. CASE ReceivesFrame
    BY <2>0, <2>7 DEF ReceivesFrame, WakeInv, TypeInv, CommandsAnnounced,
       ProgramAnnounced, FramesAnnounced, BytesAnnounced, BootOrder
  <2>8. CASE ApplyFrame
    BY <2>0, <2>8 DEF ApplyFrame, WakeInv, TypeInv, CommandsAnnounced,
       ProgramAnnounced, FramesAnnounced, BytesAnnounced, BootOrder
  <2>9. CASE ApplyFrameFails
    BY <2>0, <2>9 DEF ApplyFrameFails, WakeInv, TypeInv, CommandsAnnounced,
       ProgramAnnounced, FramesAnnounced, BytesAnnounced, BootOrder
  <2>10. CASE FramesDone
    BY <2>0, <2>10 DEF FramesDone, ServesFrames, WakeInv, TypeInv, CommandsAnnounced,
       ProgramAnnounced, FramesAnnounced, BytesAnnounced, BootOrder
  <2>11. CASE Blink
    BY <2>0, <2>11 DEF Blink, WakeInv, TypeInv, CommandsAnnounced,
       ProgramAnnounced, FramesAnnounced, BytesAnnounced, BootOrder
  <2> QED
    BY <1>3, <2>1, <2>2, <2>3, <2>4, <2>5, <2>6, <2>7, <2>8, <2>9, <2>10, <2>11 DEF HwStep
<1>4. CASE TimerFires
  BY <1>a, <1>4 DEF TimerFires, hwVars, shared, Program, WakeInv, TypeInv, CommandsAnnounced,
     ProgramAnnounced, FramesAnnounced, BytesAnnounced, BootOrder
<1>5. CASE HostSends
  <2>1. setup.script[sent + 1] \in Commands
    <3>1. setup.script \in Seq(Commands) /\ sent \in Nat /\ sent < Len(setup.script)
      BY <1>5, <1>a, FirmwareAssumption DEF HostSends, TypeInv
    <3> QED
      BY <3>1
  <2> QED
    BY <1>5, <1>a, <2>1 DEF HostSends, appVars, shared, WakeInv, TypeInv, CommandsAnnounced,
       ProgramAnnounced, FramesAnnounced, BytesAnnounced, BootOrder
<1> QED
  BY <1>1, <1>2, <1>3, <1>4, <1>5 DEF Next

(* No wake-up is lost: a task that waits has its flag set whenever there   *)
(* is a command, a frame or a due program for it (blink_app.cpp Loop,      *)
(* hw_task.cpp Loop), for every script, capacity, priority and fault.      *)
THEOREM WakeUpsPosted == Spec => []WakeUpsArePosted
<1>1. WakeInv => WakeUpsArePosted
  BY DEF WakeInv, CommandsAnnounced, ProgramAnnounced, FramesAnnounced, BytesAnnounced,
     WakeUpsArePosted
<1> QED
  BY <1>1, WakeInit, WakeNext, PTL DEF Spec

-----------------------------------------------------------------------------
(* What the LEDs show.                                                     *)

(* The APP task touches the frames only through Show, and creates the HW   *)
(* task but never moves it on.                                             *)
LEMMA AppShows ==
    ASSUME WakeInv, AppStep
    PROVE  /\ UNCHANGED <<strip, frames, hwEvents, lost>> \/ \E staged : Show(staged)
           /\ UNCHANGED <<setup, frame, pixels, sent, rx>>
           /\ hw' = hw \/ (hw = "none" /\ hw' = "setup" /\ UNCHANGED <<strip, frames, lost>>)
<1> USE DEF hwVars, shared
<1>0. TypeInv /\ BootOrder /\ UNCHANGED setup
  BY DEF WakeInv, AppStep
<1>1. CASE InitializeSucceeds
  BY <1>0, <1>1 DEF InitializeSucceeds, BootOrder
<1>2. CASE InitializeFails \/ SetupReadsLedCount \/ SetMailbox \/ LoopWaits \/ CommandsDone
  BY <1>0, <1>2 DEF InitializeFails, SetupReadsLedCount, SetMailbox, LoopWaits, CommandsDone
<1>3. CASE SetupStartsDefault
  <2> DEFINE c == [ctl EXCEPT !.instructions = DefaultProgram(led_count_)]
  <2>1. StartAndTick(c, 0)
    BY <1>3 DEF SetupStartsDefault
  <2>2. c \in Program
    BY <1>0, DefaultType DEF TypeInv, Program
  <2> HIDE DEF c
  <2>3. UNCHANGED <<strip, frames, hwEvents, lost>> \/ \E staged : Show(staged)
    BY <2>1, <2>2, StartEffect
  <2> QED
    BY <1>0, <1>3, <2>3 DEF SetupStartsDefault
<1>4. CASE DispatchControllerCommand
  <2>1. CASE Head(mailbox).cmd \in {"add", "reset"}
    BY <1>0, <1>4, <2>1 DEF DispatchControllerCommand
  <2>2. CASE Head(mailbox).cmd \in {"run", "start"}
    <3>1. StartAndTick(ctl, Head(mailbox).number) /\ ctl \in Program
      BY <1>0, <1>4, <2>2 DEF DispatchControllerCommand, TypeInv
    <3>2. UNCHANGED <<strip, frames, hwEvents, lost>> \/ \E staged : Show(staged)
      BY <3>1, StartEffect
    <3> QED
      BY <1>0, <1>4, <3>2 DEF DispatchControllerCommand
  <2> QED
    BY <1>0, <1>4, <2>1, <2>2, MessageType DEF DispatchControllerCommand, ReceivesCommand
<1>5. CASE LoopRuns
  <2>1. UNCHANGED <<strip, frames, hwEvents, lost>> \/ \E staged : Show(staged)
    BY <1>0, <1>5, RunEffect DEF LoopRuns, TypeInv
  <2> QED
    BY <1>0, <1>5, <2>1 DEF LoopRuns
<1> QED
  BY <1>1, <1>2, <1>3, <1>4, <1>5 DEF AppStep

(* A frame that was staged is on the LEDs, in the one-frame mailbox, in    *)
(* the hands of the HW task, or known to be lost, after every step.        *)
LEMMA RestNext ==
    ASSUME WakeInv, StagedIsOnItsWay, [Next]_vars
    PROVE  StagedIsOnItsWay'
<1>a. TypeInv /\ FramesAnnounced /\ BootOrder
  BY DEF WakeInv
<1>1. CASE UNCHANGED vars
  BY <1>1 DEF vars, hwVars, shared, StagedIsOnItsWay, Latest
<1>2. CASE AppStep
  <2>1. CASE UNCHANGED <<strip, frames, hwEvents, lost>>
    BY <1>2, <2>1, AppShows DEF StagedIsOnItsWay, Latest
  <2>2. CASE \E staged : Show(staged)
    <3>1. PICK staged : Show(staged)
      BY <2>2
    <3>2. UNCHANGED <<setup, frame, pixels>>
      BY <1>2, AppShows
    <3>3. CASE hw' = hw
      <4>1. ~lost' => Latest' = strip'.staged
        BY <1>a, <3>1, ShowEffect DEF Latest
      <4>2. ASSUME setup.preempts, ~setup.blocks, hw # "exited"
            PROVE  ~lost'
        <5>1. CASE hw = "none"
          <6>1. app \in {"initialize", "stopped"}
            BY <1>a, <5>1 DEF BootOrder
          <6>2. UNCHANGED lost
            BY <1>2, <6>1 DEF AppStep, InitializeSucceeds, InitializeFails, SetupReadsLedCount,
               SetMailbox, SetupStartsDefault, LoopWaits, DispatchControllerCommand,
               CommandsDone, LoopRuns, shared
          <6> QED
            BY <4>2, <6>2 DEF StagedIsOnItsWay
        <5>2. CASE hw # "none"
          <6>1. hw = "wait" /\ hwEvents = {}
            BY <1>2, <4>2, <5>2 DEF AppStep, HwIsBlocked
          <6>2. frames = <<>> /\ strip.count > 0
            BY <1>a, <6>1 DEF FramesAnnounced, BootOrder
          <6> QED
            BY <1>a, <3>1, <6>2, ShowEffect
        <5> QED
          BY <5>1, <5>2
      <4> QED
        BY <3>2, <3>3, <4>1, <4>2 DEF StagedIsOnItsWay
    <3>4. CASE hw = "none" /\ hw' = "setup" /\ UNCHANGED <<strip, frames, lost>>
      BY <3>2, <3>4 DEF StagedIsOnItsWay, Latest
    <3> QED
      BY <1>2, <3>3, <3>4, AppShows
  <2> QED
    BY <1>2, <2>1, <2>2, AppShows
<1>3. CASE HwStep
  <2> USE DEF shared, StagedIsOnItsWay, Latest
  <2>0. UNCHANGED setup
    BY <1>3 DEF HwStep
  <2>1. CASE SetupConfigures
    BY <2>0, <2>1, <1>a DEF SetupConfigures, TypeInv
  <2>2. CASE SetupRegisters \/ HwIdles \/ HwWaits \/ RunEnds \/ FramesDone \/ Blink
    BY <2>0, <2>2 DEF SetupRegisters, HwIdles, HwWaits, RunEnds, FramesDone, Blink
  <2>3. CASE QueueCommand
    BY <2>0, <2>3 DEF QueueCommand
  <2>4. CASE ReceivesFrame
    <3>1. frames = <<frames[1]>> /\ Head(frames) = frames[1]
      BY <2>4, <1>a DEF ReceivesFrame, TypeInv
    <3> QED
      BY <2>0, <2>4, <3>1 DEF ReceivesFrame
  <2>5. CASE ApplyFrame
    BY <2>0, <2>5 DEF ApplyFrame
  <2>6. CASE ApplyFrameFails
    BY <2>6 DEF ApplyFrameFails
  <2> QED
    BY <1>3, <2>1, <2>2, <2>3, <2>4, <2>5, <2>6 DEF HwStep
<1>4. CASE TimerFires \/ HostSends
  BY <1>4 DEF TimerFires, HostSends, hwVars, shared, StagedIsOnItsWay, Latest
<1> QED
  BY <1>1, <1>2, <1>3, <1>4 DEF Next

(* When everything has come to rest the LEDs show the staged frame unless  *)
(* the last Show was refused, and under a preempting HW task that does not *)
(* block none is refused (strip_manager.cpp Show), for every order of the  *)
(* two tasks, every script and every strip.                                *)
THEOREM RestShows == Spec => []RestShowsStaged
<1>1. Init => StagedIsOnItsWay
  BY DEF Init, StagedIsOnItsWay, Latest
<1>2. WakeInv /\ StagedIsOnItsWay => RestShowsStaged
  <2> SUFFICES ASSUME WakeInv, StagedIsOnItsWay, Settled PROVE RestShowsStaged
    BY DEF RestShowsStaged
  <2>1. frames = <<>> /\ hw \notin {"exited", "apply"}
    BY DEF WakeInv, FramesAnnounced, Settled
  <2> QED
    BY <2>1 DEF StagedIsOnItsWay, Latest, RestShowsStaged
<1> QED
  BY <1>1, <1>2, RestNext, WakeInit, WakeNext, PTL DEF Spec

-----------------------------------------------------------------------------
(* What the mailbox loses.                                                 *)

(* No step makes up a command, and a host that waits for the boot and      *)
(* stays within the capacity of the mailbox has none refused.              *)
LEMMA CommandsNext ==
    ASSUME WakeInv, NoCommandInvented, [Next]_vars
    PROVE  NoCommandInvented'
<1> USE DEF NoCommandInvented, PatientHostLosesNothing
<1>a. /\ mailbox \in Seq(Commands) /\ rx \in Seq(Commands) /\ sent \in Nat /\ setup \in Setups
      /\ Len(mailbox) \in Nat /\ Len(rx) \in Nat
      /\ BootOrder
  BY DEF WakeInv, TypeInv
<1>1. CASE UNCHANGED vars
  BY <1>1 DEF vars, appVars, hwVars, shared
<1>2. CASE AppStep
  <2>0. UNCHANGED <<setup, rx, sent>>
    BY <1>2, AppShows
  <2>1. CASE DispatchControllerCommand
    <3>1. Len(mailbox') = Len(mailbox) - 1 /\ app' = "commands" /\ UNCHANGED dropped
      BY <2>1, MessageType DEF DispatchControllerCommand, ReceivesCommand, AfterCommand, WakeInv
    <3> QED
      BY <1>a, <2>0, <3>1
  <2>2. CASE ~DispatchControllerCommand
    <3>1. UNCHANGED <<mailbox, dropped>>
      BY <1>2, <2>2 DEF AppStep, InitializeSucceeds, InitializeFails, SetupReadsLedCount,
         SetMailbox, SetupStartsDefault, LoopWaits, CommandsDone, LoopRuns, shared
    <3>2. app \in {"wait", "commands", "timeout"} => app' \in {"wait", "commands", "timeout"}
      BY <1>2, <2>2 DEF AppStep, InitializeSucceeds, InitializeFails, SetupReadsLedCount,
         SetMailbox, SetupStartsDefault, LoopWaits, CommandsDone, LoopRuns
    <3> QED
      BY <2>0, <3>1, <3>2
  <2> QED
    BY <2>1, <2>2
<1>3. CASE HwStep
  <2>1. CASE QueueCommand
    <3>1. /\ rx # <<>> /\ rx' = Tail(rx) /\ UNCHANGED <<setup, app, sent>>
          /\ IF MailboxAccepts THEN mailbox' = Append(mailbox, Head(rx)) /\ UNCHANGED dropped
                               ELSE UNCHANGED mailbox
      BY <1>3, <2>1 DEF HwStep, QueueCommand
    <3>2. Len(rx') = Len(rx) - 1 /\ Len(rx) >= 1 /\ Head(rx) \in Commands
      BY <1>a, <3>1
    <3>3. CASE MailboxAccepts
      <4>1. Len(mailbox') = Len(mailbox) + 1
        BY <1>a, <3>1, <3>2, <3>3
      <4> QED
        BY <1>a, <3>1, <3>2, <3>3, <4>1
    <3>4. CASE ~MailboxAccepts
      <4>1. ~(setup.patient /\ sent <= kMailboxCapacity)
        BY <1>a, <3>2, <3>4, FirmwareAssumption DEF MailboxAccepts, BootOrder
      <4> QED
        BY <1>a, <3>1, <3>2, <3>4, <4>1
    <3> QED
      BY <3>3, <3>4
  <2>2. CASE ~QueueCommand
    BY <1>3, <2>2 DEF HwStep, SetupConfigures, SetupRegisters, HwIdles, HwWaits, RunEnds,
       ReceivesFrame, ApplyFrame, ApplyFrameFails, FramesDone, Blink, appVars, shared
  <2> QED
    BY <2>1, <2>2
<1>4. CASE TimerFires
  BY <1>4 DEF TimerFires, hwVars, shared
<1>5. CASE HostSends
  <2>1. /\ sent' = sent + 1 /\ Len(rx') = Len(rx) + 1
        /\ setup.patient => app \in {"wait", "commands", "timeout"}
        /\ UNCHANGED <<setup, app, mailbox, dropped>>
    BY <1>a, <1>5 DEF HostSends, appVars, shared
  <2> QED
    BY <1>a, <2>1, FirmwareAssumption
<1> QED
  BY <1>1, <1>2, <1>3, <1>4, <1>5 DEF Next

(* A host that waits for the boot and sends no more commands than the      *)
(* mailbox holds has none dropped, whichever task runs first and however   *)
(* slowly the APP task empties the mailbox (ControllerCommandSink,         *)
(* QueueCommand; the sizing of fade_instruction.md:68).                    *)
THEOREM PatientHostIsServed == Spec => []PatientHostLosesNothing
<1>1. Init => NoCommandInvented
  BY FirmwareAssumption DEF Init, NoCommandInvented, PatientHostLosesNothing
<1>2. NoCommandInvented => PatientHostLosesNothing
  BY DEF NoCommandInvented
<1> QED
  BY <1>1, <1>2, CommandsNext, WakeInit, WakeNext, PTL DEF Spec

-----------------------------------------------------------------------------
(* The boot.                                                               *)

(* The writes of the default program give the boot frame.                  *)
LEMMA DefaultFrame ==
    ASSUME strip.count = LedCount
    PROVE  SetLedColors(Dark, DefaultProgram(LedCount)) = BootFrame
<1> DEFINE n     == IF LedCount < Len(Rainbow) THEN LedCount ELSE Len(Rainbow)
           w     == DefaultProgram(LedCount)
           of(i) == {j \in DOMAIN w : w[j].index = i}
<1>1. n \in Nat /\ Len(Rainbow) \in Nat /\ LedCount \in Nat
  BY FirmwareAssumption
<1>2. w = [i \in 1 .. n |-> [index |-> i - 1, color |-> Rainbow[i], mark |-> 0]]
  BY DEF DefaultProgram
<1>3. ASSUME NEW i \in Leds
      PROVE  SetLedColors(Dark, w)[i] = BootFrame[i]
  <2>1. i \in Nat /\ i < LedCount
    BY <1>1, <1>3 DEF Leds
  <2>2. SetLedColors(Dark, w)[i] = IF of(i) # {} THEN w[Max(of(i))].color ELSE Off
    BY <2>1 DEF SetLedColors, Dark
  <2>3. CASE i < Len(Rainbow)
    <3>1. i + 1 \in 1 .. n
      BY <1>1, <2>1, <2>3
    <3>2. of(i) = {i + 1}
      <4> HIDE DEF n
      <4> QED
        BY <1>1, <1>2, <2>1, <3>1
    <3>3. Max(of(i)) = i + 1
      BY <2>1, <3>2 DEF Max
    <3>4. w[i + 1].color = Rainbow[i + 1]
      BY <1>2, <3>1
    <3> HIDE DEF of, w, n
    <3> QED
      BY <2>2, <2>3, <3>2, <3>3, <3>4 DEF BootFrame
  <2>4. CASE ~(i < Len(Rainbow))
    <3>1. of(i) = {}
      <4>1. ASSUME NEW j \in 1 .. n PROVE w[j].index # i
        BY <1>1, <1>2, <2>1, <2>4
      <4> HIDE DEF n
      <4> QED
        BY <1>2, <4>1
    <3> HIDE DEF of, w, n
    <3> QED
      BY <2>2, <2>4, <3>1 DEF BootFrame
  <2> QED
    BY <2>3, <2>4
<1>4. DOMAIN SetLedColors(Dark, w) = Leds /\ DOMAIN BootFrame = Leds
  BY DEF SetLedColors, BootFrame
<1>5. SetLedColors(Dark, w) = [i \in Leds |-> SetLedColors(Dark, w)[i]]
  BY DEF SetLedColors
<1>6. BootFrame = [i \in Leds |-> BootFrame[i]]
  BY DEF BootFrame
<1> HIDE DEF w
<1> QED
  BY <1>3, <1>5, <1>6 DEF w

(* Started on a dark strip, the default program completes at once.         *)
LEMMA DefaultShown ==
    ASSUME TypeInv, led_count_ = LedCount, strip.count = LedCount, strip.staged = Dark,
           frames = <<>>, ~lost, ctl.state = "editable",
           StartAndTick([ctl EXCEPT !.instructions = DefaultProgram(led_count_)], 0)
    PROVE  ctl'.state = "completed" /\ ~lost' /\ strip'.staged = BootFrame
<1> DEFINE n == IF LedCount < Len(Rainbow) THEN LedCount ELSE Len(Rainbow)
           w == DefaultProgram(LedCount)
           c == [ctl EXCEPT !.instructions = w]
           f == [c EXCEPT !.cursor = 1, !.reached = FALSE,
                          !.state = IF c.instructions = <<>> THEN "completed" ELSE "active"]
<1>1. n \in Nat /\ Len(Rainbow) \in Nat /\ LedCount \in Nat \ {0}
  BY FirmwareAssumption
<1>2. w \in Seq(Writes) /\ Len(w) = n /\ DOMAIN w = 1 .. n /\ \A i \in 1 .. n : w[i].mark = 0
  <2>1. w = [i \in 1 .. n |-> [index |-> i - 1, color |-> Rainbow[i], mark |-> 0]]
    BY DEF DefaultProgram
  <2>2. w \in Seq(Writes)
    BY <1>1, DefaultType
  <2> HIDE DEF n, w
  <2> QED
    BY <1>1, <2>1, <2>2
<1>3. StartAndTick(c, 0) /\ c.state = "editable" /\ c.instructions = w
  BY DEF TypeInv, Program
<1> HIDE DEF w, c
<1>4. Run(f)
  BY <1>3 DEF StartAndTick
<1>5. f.instructions = w /\ f.cursor = 1 /\ f.state = IF w = <<>> THEN "completed" ELSE "active"
  BY <1>2, <1>3 DEF TypeInv, Program, c
<1> HIDE DEF f
<1>6. CASE w = <<>>
  <2>1. n = 0
    BY <1>2, <1>6
  <2>2. Len(Rainbow) = 0
    BY <1>1, <2>1
  <2>3. BootFrame = Dark
    BY <2>2 DEF BootFrame, Dark, Leds
  <2>4. ctl' = f /\ UNCHANGED <<strip, lost>>
    BY <1>4, <1>5, <1>6 DEF Run
  <2> QED
    BY <1>5, <1>6, <2>3, <2>4
<1>7. CASE w # <<>>
  <2>1. n \in Nat \ {0}
    BY <1>1, <1>2, <1>7
  <2> HIDE DEF n
  <2> DEFINE next  == IF f.cursor <= Len(f.instructions)
                      THEN f.instructions[f.cursor].mark ELSE 0
             mark  == IF next = 0 \/ f.reached THEN next ELSE 0
             due   == {i \in f.cursor .. Len(f.instructions) : f.instructions[i].mark <= mark}
             after == f.cursor + Cardinality(due)
             write == SubSeq(f.instructions, f.cursor, after - 1)
  <2>2. mark = 0
    BY <1>2, <1>5, <2>1
  <2>3. due = 1 .. n
    <3> HIDE DEF mark
    <3> QED
      BY <1>2, <1>5, <2>1, <2>2
  <2>4. after = n + 1
    <3>1. Cardinality(1 .. n) = n
      BY <2>1, FS_Interval
    <3> HIDE DEF due
    <3> QED
      BY <1>5, <2>1, <2>3, <3>1
  <2>5. write = w
    <3> HIDE DEF after
    <3>1. write = SubSeq(w, 1, Len(w))
      BY <1>2, <1>5, <2>1, <2>4
    <3> QED
      BY <1>2, <3>1, SubSeqFull
  <2>6. /\ ctl' = [f EXCEPT !.cursor = after,
                            !.reached = IF due = {} THEN @ ELSE FALSE,
                            !.state = IF after > Len(f.instructions) THEN "completed" ELSE @]
        /\ IF due = {} THEN UNCHANGED <<strip, frames, hwEvents, lost>>
           ELSE Show(SetLedColors(strip.staged, write))
    BY <1>4, <1>5, <1>7 DEF Run
  <2> HIDE DEF due, after, write
  <2>7. ctl'.state = "completed"
    <3>1. "state" \in DOMAIN f
      BY DEF f, c, TypeInv, Program
    <3> QED
      BY <1>2, <1>5, <2>1, <2>4, <2>6, <3>1
  <2>8. Show(BootFrame)
    BY <2>1, <2>3, <2>5, <2>6, DefaultFrame DEF w
  <2> QED
    BY <1>1, <2>7, <2>8 DEF Show, TypeInv
<1> QED
  BY <1>6, <1>7

(* An undisturbed boot shows the default program and keeps it until the    *)
(* first command.                                                          *)
LEMMA BootNext ==
    ASSUME WakeInv, NoCommandInvented, BootInv, [Next]_vars
    PROVE  BootInv'
<1> USE DEF Booting
<1>a. TypeInv /\ BootOrder /\ ProgramAnnounced
  BY DEF WakeInv
<1>b. sent = 0 => mailbox = <<>> /\ rx = <<>>
  BY <1>a DEF NoCommandInvented, TypeInv
<1>1. CASE UNCHANGED vars
  BY <1>1 DEF vars, appVars, hwVars, shared, BootInv
<1> SUFFICES ASSUME setup.preempts, ~setup.faults, Next
             PROVE  BootInv'
  BY <1>1 DEF BootInv, Next, AppStep, HwStep, TimerFires, HostSends
<1>2. CASE AppStep
  <2>0. UNCHANGED <<setup, sent>> /\ HwIsBlocked
    BY <1>2, AppShows DEF AppStep
  <2>1. app # "initialize" /\ app # "stopped" => strip.count = LedCount
    <3>1. app # "initialize" /\ app # "stopped" => hw \in {"wait", "apply"}
      BY <1>a, <2>0 DEF HwIsBlocked, BootOrder, BootInv
    <3> QED
      BY <1>a, <3>1 DEF BootOrder, BootInv
  <2> USE DEF hwVars, shared
  <2>2. CASE InitializeSucceeds
    BY <2>0, <2>2 DEF InitializeSucceeds, BootInv
  <2>3. CASE InitializeFails
    BY <2>3 DEF InitializeFails
  <2>4. CASE SetupReadsLedCount
    BY <2>0, <2>1, <2>4 DEF SetupReadsLedCount, BootInv
  <2>5. CASE SetMailbox
    BY <2>0, <2>5 DEF SetMailbox, BootInv
  <2>6. CASE SetupStartsDefault
    <3>1. ctl'.state = "completed" /\ ~lost' /\ strip'.staged = BootFrame
      BY <1>a, <2>1, <2>6, DefaultShown DEF SetupStartsDefault, BootInv
    <3>2. strip'.count = strip.count
      BY <1>2, <1>a, AppShows, ShowEffect DEF WakeInv
    <3> QED
      BY <2>0, <2>1, <2>6, <3>1, <3>2 DEF SetupStartsDefault, BootInv
  <2>7. CASE LoopWaits
    BY <2>0, <2>7 DEF LoopWaits, BootInv
  <2>8. CASE DispatchControllerCommand
    <3>1. strip'.count = strip.count
      BY <1>2, <1>a, AppShows, ShowEffect DEF WakeInv
    <3> QED
      BY <1>b, <2>0, <2>8, <3>1 DEF DispatchControllerCommand, ReceivesCommand, AfterCommand,
         BootInv
  <2>9. CASE CommandsDone
    BY <2>0, <2>9 DEF CommandsDone, BootInv
  <2>10. CASE LoopRuns
    <3>1. strip'.count = strip.count
      BY <1>2, <1>a, AppShows, ShowEffect DEF WakeInv
    <3>2. sent = 0 => UNCHANGED <<ctl, strip, lost>>
      BY <2>10 DEF LoopRuns, Run, BootInv
    <3> QED
      BY <2>0, <2>10, <3>1, <3>2 DEF LoopRuns, BootInv
  <2> QED
    BY <1>2, <2>2, <2>3, <2>4, <2>5, <2>6, <2>7, <2>8, <2>9, <2>10 DEF AppStep
<1>3. CASE HwStep
  <2> USE DEF appVars, shared
  <2>0. UNCHANGED setup
    BY <1>3 DEF HwStep
  <2>1. CASE SetupConfigures
    BY <1>a, <2>0, <2>1 DEF SetupConfigures, BootInv, TypeInv
  <2>2. CASE SetupRegisters \/ HwIdles \/ HwWaits \/ RunEnds \/ FramesDone \/ Blink
             \/ ApplyFrame
    BY <2>0, <2>2 DEF SetupRegisters, HwIdles, HwWaits, RunEnds, FramesDone, Blink, ApplyFrame,
       BootInv
  <2>3. CASE QueueCommand
    BY <2>0, <2>3 DEF QueueCommand, BootInv
  <2>4. CASE ReceivesFrame
    BY <2>0, <2>4 DEF ReceivesFrame, BootInv
  <2>5. CASE ApplyFrameFails
    BY <2>5 DEF ApplyFrameFails
  <2> QED
    BY <1>3, <2>1, <2>2, <2>3, <2>4, <2>5 DEF HwStep
<1>4. CASE TimerFires
  <2>1. ctl'.state = ctl.state
    BY <1>a, <1>4 DEF TimerFires, TypeInv, Program
  <2> QED
    BY <1>4, <2>1 DEF TimerFires, hwVars, shared, BootInv
<1>5. CASE HostSends
  BY <1>a, <1>5 DEF HostSends, appVars, shared, BootInv, TypeInv
<1> QED
  BY <1>2, <1>3, <1>4, <1>5 DEF Next

(* When the HW task preempts the APP task and no device fails, after boot  *)
(* and before the first command every pixel shows its default colour       *)
(* (AppTask::Setup, blink_app.cpp:80-135), for every strip and palette and *)
(* whether writing the strip blocks or not.                                *)
THEOREM BootLights == Spec => []BootLightsEveryPixel
<1>1. Init => NoCommandInvented /\ StagedIsOnItsWay /\ BootInv
  BY FirmwareAssumption DEF Init, NoCommandInvented, PatientHostLosesNothing, StagedIsOnItsWay,
     Latest, BootInv, Booting
<1>2. WakeInv /\ StagedIsOnItsWay /\ BootInv => BootLightsEveryPixel
  <2> SUFFICES ASSUME WakeInv, StagedIsOnItsWay, BootInv, Settled, sent = 0,
                      setup.preempts, ~setup.faults, NEW i \in Leds
               PROVE  pixels[i] = IF i < Len(Rainbow) THEN Rainbow[i + 1] ELSE Off
    BY DEF BootLightsEveryPixel
  <2>1. frames = <<>> /\ hw \notin {"exited", "apply"}
    BY DEF WakeInv, FramesAnnounced, Settled
  <2>2. ~lost /\ strip.staged = BootFrame
    BY DEF BootInv, Settled, Booting
  <2>3. pixels = BootFrame
    BY <2>1, <2>2 DEF StagedIsOnItsWay, Latest
  <2> QED
    BY <2>3 DEF BootFrame
<1> QED
  BY <1>1, <1>2, RestNext, CommandsNext, BootNext, WakeInit, WakeNext, PTL DEF Spec
-----------------------------------------------------------------------------
(* The program that runs.                                                  *)

(* A Run takes nothing from the program and does not open it for editing.  *)
LEMMA RunKeeps ==
    ASSUME NEW c \in Program, Run(c)
    PROVE  /\ ctl'.instructions = c.instructions
           /\ ctl'.state = "editable" <=> c.state = "editable"
<1>1. CASE c.state # "active"
  BY <1>1 DEF Run
<1>2. CASE c.state = "active"
  <2>1. \E after, reached, done : ctl' = [c EXCEPT !.cursor = after, !.reached = reached,
                                                   !.state = IF done THEN "completed" ELSE @]
    BY <1>2 DEF Run
  <2> QED
    BY <1>2, <2>1 DEF Program
<1> QED
  BY <1>1, <1>2

(* A start keeps the program; it counts when none was active.              *)
LEMMA StartKeeps ==
    ASSUME NEW c \in Program, NEW by, StartAndTick(c, by)
    PROVE  /\ ctl'.instructions = c.instructions
           /\ ctl'.state # "editable"
           /\ started' = IF c.state = "active" THEN started ELSE by
<1> DEFINE fresh == [c EXCEPT !.cursor = 1, !.reached = FALSE,
                              !.state = IF c.instructions = <<>> THEN "completed" ELSE "active"]
<1>1. CASE c.state = "active"
  BY <1>1 DEF StartAndTick
<1>2. CASE c.state # "active"
  <2>1. fresh \in Program /\ fresh.instructions = c.instructions /\ fresh.state # "editable"
    BY DEF Program
  <2>2. Run(fresh) /\ started' = by
    BY <1>2 DEF StartAndTick
  <2> HIDE DEF fresh
  <2> QED
    BY <1>2, <2>1, <2>2, RunKeeps
<1> QED
  BY <1>1, <1>2

(* One more add is part of the program if the last other command was a     *)
(* reset.                                                                  *)
LEMMA AddGoesOn ==
    ASSUME NEW script, NEW n \in Nat, script[n + 1].cmd = "add"
    PROVE  /\ Editing(script, n + 1) <=> Editing(script, n)
           /\ HasReset(script, n + 1) <=> HasReset(script, n)
           /\ ProgramSlots(script, n + 1) =
                 IF Editing(script, n) THEN ProgramSlots(script, n) \cup {n + 1}
                                       ELSE ProgramSlots(script, n)
<1>1. Editing(script, n + 1) <=> Editing(script, n)
  <2>1. ASSUME Editing(script, n + 1) PROVE Editing(script, n)
    <3>1. PICK r \in 1 .. n + 1 : /\ script[r].cmd = "reset"
                                  /\ \A i \in r + 1 .. n + 1 : script[i].cmd = "add"
      BY <2>1 DEF Editing
    <3>2. r # n + 1
      BY <3>1
    <3> QED
      BY <3>1, <3>2 DEF Editing
  <2>2. ASSUME Editing(script, n) PROVE Editing(script, n + 1)
    <3>1. PICK r \in 1 .. n : /\ script[r].cmd = "reset"
                              /\ \A i \in r + 1 .. n : script[i].cmd = "add"
      BY <2>2 DEF Editing
    <3>2. \A i \in r + 1 .. n + 1 : i \in r + 1 .. n \/ i = n + 1
      OBVIOUS
    <3> QED
      BY <3>1, <3>2 DEF Editing
  <2> QED
    BY <2>1, <2>2
<1>2. HasReset(script, n + 1) <=> HasReset(script, n)
  <2>1. \A r \in 1 .. n + 1 : r \in 1 .. n \/ r = n + 1
    OBVIOUS
  <2> QED
    BY <2>1 DEF HasReset
<1>3. ASSUME NEW k \in 1 .. n + 1
      PROVE  k \in ProgramSlots(script, n + 1) <=>
                k \in ProgramSlots(script, n) \/ (k = n + 1 /\ Editing(script, n))
  <2>1. CASE k = n + 1
    <3>1. \A i \in k .. n + 1 : script[i].cmd # "reset"
      BY <2>1
    <3>2. k \notin ProgramSlots(script, n)
      BY <2>1 DEF ProgramSlots
    <3> QED
      BY <1>1, <2>1, <3>1, <3>2 DEF ProgramSlots
  <2>2. CASE k # n + 1
    <3>1. \A i \in k .. n + 1 : i \in k .. n \/ i = n + 1
      OBVIOUS
    <3>2. (\A i \in k .. n + 1 : script[i].cmd # "reset") <=>
             (\A i \in k .. n : script[i].cmd # "reset")
      BY <3>1
    <3> QED
      BY <2>2, <3>2 DEF ProgramSlots
  <2> QED
    BY <2>1, <2>2
<1>4. \A m \in Nat : ProgramSlots(script, m) \subseteq 1 .. m
  BY DEF ProgramSlots
<1>5. ProgramSlots(script, n + 1) =
         IF Editing(script, n) THEN ProgramSlots(script, n) \cup {n + 1}
                               ELSE ProgramSlots(script, n)
  <2> DEFINE old  == ProgramSlots(script, n)
             new  == ProgramSlots(script, n + 1)
             all  == 1 .. n + 1
             last == n + 1
  <2>1. old \subseteq all /\ new \subseteq all /\ last \in all
    BY <1>4
  <2>2. \A k \in all : k \in new <=> k \in old \/ (k = last /\ Editing(script, n))
    BY <1>3
  <2> HIDE DEF old, new, all, last
  <2>3. new = IF Editing(script, n) THEN old \cup {last} ELSE old
    <3>1. ASSUME Editing(script, n) PROVE new = old \cup {last}
      BY <2>1, <2>2, <3>1
    <3>2. ASSUME ~Editing(script, n) PROVE new = old
      BY <2>1, <2>2, <3>2
    <3> QED
      BY <3>1, <3>2
  <2> QED
    BY <2>3 DEF old, new, last
<1> QED
  BY <1>1, <1>2, <1>5

(* The add that goes on is stored when fewer than kMaxInstruction are.     *)
LEMMA AddIsStored ==
    ASSUME NEW script, NEW n \in Nat, script[n + 1].cmd = "add", Editing(script, n)
    PROVE  LET count == Cardinality(ProgramSlots(script, n))
           IN  /\ count \in Nat
               /\ Cardinality(ProgramSlots(script, n + 1)) = count + 1
               /\ StoredSlots(script, n + 1) =
                     IF count < kMaxInstruction THEN StoredSlots(script, n) \cup {n + 1}
                                                ELSE StoredSlots(script, n)
<1> DEFINE old == ProgramSlots(script, n)
           new == ProgramSlots(script, n + 1)
<1>1. new = old \cup {n + 1} /\ old \subseteq 1 .. n
  BY AddGoesOn DEF ProgramSlots
<1>2. IsFiniteSet(old) /\ Cardinality(old) \in Nat
  <2> HIDE DEF old
  <2>1. IsFiniteSet(1 .. n)
    BY FS_Interval
  <2> QED
    BY <1>1, <2>1, FS_Subset, FS_CardinalityType
<1>s. /\ StoredSlots(script, n) = {k \in old : Cardinality({j \in old : j < k}) < kMaxInstruction}
      /\ StoredSlots(script, n + 1)
            = {k \in new : Cardinality({j \in new : j < k}) < kMaxInstruction}
  BY DEF StoredSlots
<1> HIDE DEF old, new
<1>3. Cardinality(new) = Cardinality(old) + 1
  <2>1. n + 1 \notin old
    BY <1>1
  <2> QED
    BY <1>1, <1>2, <2>1, FS_AddElement
<1>4. {j \in new : j < n + 1} = old
  <2>1. old \subseteq {j \in new : j < n + 1}
    BY <1>1
  <2>2. {j \in new : j < n + 1} \subseteq old
    BY <1>1
  <2> QED
    BY <2>1, <2>2
<1>5. ASSUME NEW k \in old PROVE {j \in new : j < k} = {j \in old : j < k}
  BY <1>1
<1>6. ASSUME NEW k
      PROVE  k \in StoredSlots(script, n + 1) <=>
                \/ k \in StoredSlots(script, n)
                \/ k = n + 1 /\ Cardinality(old) < kMaxInstruction
  <2>1. CASE k \in old
    <3>1. k # n + 1 /\ k \in new
      BY <1>1, <2>1
    <3> QED
      BY <1>s, <1>5, <2>1, <3>1
  <2>2. CASE k = n + 1
    <3>1. k \notin old /\ k \in new
      BY <1>1, <2>2
    <3> QED
      BY <1>s, <1>4, <2>2, <3>1
  <2>3. CASE k \notin old /\ k # n + 1
    BY <1>s, <1>1, <2>3
  <2> QED
    BY <2>1, <2>2, <2>3
<1>7. StoredSlots(script, n + 1) =
         IF Cardinality(old) < kMaxInstruction THEN StoredSlots(script, n) \cup {n + 1}
                                               ELSE StoredSlots(script, n)
  <2>1. CASE Cardinality(old) < kMaxInstruction
    BY <1>6, <2>1
  <2>2. CASE ~(Cardinality(old) < kMaxInstruction)
    BY <1>6, <2>2
  <2> QED
    BY <2>1, <2>2
<1> QED
  BY <1>2, <1>3, <1>7 DEF old, new

(* A reset leaves nothing of the program before it.                        *)
LEMMA ResetBegins ==
    ASSUME NEW script, NEW n \in Nat, script[n + 1].cmd = "reset"
    PROVE  /\ Editing(script, n + 1)
           /\ HasReset(script, n + 1)
           /\ ProgramSlots(script, n + 1) = {}
BY DEF Editing, HasReset, ProgramSlots

(* A start ends the editing.                                               *)
LEMMA StartEnds ==
    ASSUME NEW script, NEW n \in Nat, script[n + 1].cmd \in {"run", "start"}
    PROVE  /\ ~Editing(script, n + 1)
           /\ HasReset(script, n + 1) <=> HasReset(script, n)
           /\ ProgramSlots(script, n + 1) = ProgramSlots(script, n)
<1>1. \A k \in 1 .. n + 1 : k \in 1 .. n \/ k = n + 1
  OBVIOUS
<1>2. ASSUME NEW k \in 1 .. n
      PROVE  (\A i \in k .. n + 1 : script[i].cmd # "reset") <=>
                (\A i \in k .. n : script[i].cmd # "reset")
  <2>1. \A i \in k .. n + 1 : i \in k .. n \/ i = n + 1
    OBVIOUS
  <2> QED
    BY <2>1
<1>3. ~Editing(script, n + 1)
  <2> SUFFICES ASSUME NEW r \in 1 .. n + 1, script[r].cmd = "reset",
                      \A i \in r + 1 .. n + 1 : script[i].cmd = "add"
               PROVE  FALSE
    BY DEF Editing
  <2>1. r # n + 1
    OBVIOUS
  <2>2. n + 1 \in r + 1 .. n + 1
    BY <2>1
  <2> QED
    BY <2>2
<1>4. HasReset(script, n + 1) <=> HasReset(script, n)
  BY <1>1 DEF HasReset
<1>5. ProgramSlots(script, n + 1) = ProgramSlots(script, n)
  BY <1>1, <1>2 DEF ProgramSlots
<1> QED
  BY <1>3, <1>4, <1>5

(* The program that was started is the one the host has sent since.        *)
LEMMA StartedIsServed ==
    ASSUME NEW script, NEW n \in Nat, NEW by, RunsSince(script, by, n)
    PROVE  /\ HasReset(script, by) <=> HasReset(script, n)
           /\ HasReset(script, n) => ProgramSlots(script, by) = ProgramSlots(script, n)
<1>0. by \in 0 .. n
  BY DEF RunsSince
<1>1. HasReset(script, by) => HasReset(script, n)
  BY <1>0 DEF HasReset
<1> SUFFICES ASSUME HasReset(script, n)
             PROVE  /\ HasReset(script, by)
                    /\ ProgramSlots(script, by) = ProgramSlots(script, n)
  BY <1>1
<1>2. /\ by \in 1 .. n
      /\ ~Editing(script, by)
      /\ \A i \in by .. n : script[i].cmd # "reset"
  BY <1>0 DEF RunsSince
<1>3. ASSUME NEW r \in 1 .. n, script[r].cmd = "reset" PROVE r \in 1 .. by - 1
  BY <1>2, <1>3
<1>4. HasReset(script, by)
  BY <1>2, <1>3 DEF HasReset
<1>5. ASSUME NEW k \in 1 .. n, k > by PROVE ~Editing(script, k)
  <2> SUFFICES ASSUME NEW r \in 1 .. k, script[r].cmd = "reset",
                      \A i \in r + 1 .. k : script[i].cmd = "add"
               PROVE  FALSE
    BY DEF Editing
  <2>1. r \in 1 .. by - 1
    BY <1>3, <1>5
  <2>2. \A i \in r + 1 .. by : script[i].cmd = "add"
    BY <1>2, <1>5
  <2>3. Editing(script, by)
    BY <1>2, <2>1, <2>2 DEF Editing
  <2> QED
    BY <1>2, <2>3
<1>6. ASSUME NEW k \in 1 .. by
      PROVE  (\A i \in k .. n : script[i].cmd # "reset") <=>
                (\A i \in k .. by : script[i].cmd # "reset")
  BY <1>2
<1>7. ProgramSlots(script, by) = ProgramSlots(script, n)
  BY <1>2, <1>5, <1>6 DEF ProgramSlots
<1> QED
  BY <1>4, <1>7

(* A set of naturals that is not empty has a least element.                *)
LEMMA FirstOf ==
    ASSUME NEW S, S \subseteq Nat, S # {}
    PROVE  \E m \in S : \A n \in S : m <= n
<1>1. PICK m \in S : \A n \in S : ~(<<n, m>> \in OpToRel(<, Nat))
  BY NatLessThanWellFounded, WFMin
<1>2. ASSUME NEW n \in S, n < m PROVE FALSE
  <2>1. <<n, m>> \in OpToRel(<, Nat)
    BY <1>2, Zenon DEF OpToRel
  <2> QED
    BY <1>1, <2>1
<1> QED
  BY <1>2

(* The marks of the program are in order, so those up to a mark come first. *)
LEMMA MarksUpTo ==
    ASSUME NEW s \in Seq(Writes), NEW mark \in Nat,
           \A i, j \in DOMAIN s : i < j => s[i].mark <= s[j].mark
    PROVE  \E k \in 0 .. Len(s) : /\ \A i \in DOMAIN s : s[i].mark <= mark <=> i <= k
                                  /\ Cardinality({i \in DOMAIN s : s[i].mark <= mark}) = k
<1> DEFINE later == {i \in DOMAIN s : ~(s[i].mark <= mark)}
<1>1. Len(s) \in Nat /\ DOMAIN s = 1 .. Len(s)
  OBVIOUS
<1>2. \A i \in DOMAIN s : s[i].mark \in Nat
  BY FirmwareAssumption DEF Writes
<1>3. \E k \in 0 .. Len(s) : \A i \in DOMAIN s : s[i].mark <= mark <=> i <= k
  <2>1. CASE later = {}
    BY <1>1, <2>1, SMTT(30)
  <2>2. CASE later # {}
    <3>1. PICK first \in later : \A i \in later : first <= i
      <4>1. later \subseteq Nat
        BY <1>1
      <4> HIDE DEF later
      <4> QED
        BY <2>2, <4>1, FirstOf
    <3>2. first \in 1 .. Len(s) /\ ~(s[first].mark <= mark)
      BY <1>1
    <3>3. ASSUME NEW i \in DOMAIN s PROVE s[i].mark <= mark <=> i <= first - 1
      <4>1. i \in Nat /\ first \in Nat
        BY <1>1, <3>2
      <4>2. CASE i < first
        BY <3>1, <4>1, <4>2
      <4>3. CASE i = first
        BY <3>2, <4>1, <4>3
      <4>4. CASE i > first
        <5>1. s[first].mark <= s[i].mark
          BY <1>1, <3>2, <4>4
        <5> QED
          BY <1>1, <1>2, <3>2, <4>1, <4>4, <5>1
      <4> QED
        BY <4>1, <4>2, <4>3, <4>4
    <3> QED
      BY <1>1, <3>2, <3>3, SMTT(30)
  <2> QED
    BY <2>1, <2>2
<1>4. PICK k \in 0 .. Len(s) : \A i \in DOMAIN s : s[i].mark <= mark <=> i <= k
  BY <1>3
<1>5. {i \in DOMAIN s : s[i].mark <= mark} = 1 .. k
  BY <1>1, <1>4
<1>6. Cardinality(1 .. k) = k
  BY FS_Interval
<1> QED
  BY <1>4, <1>5, <1>6

(* The controller puts a write behind those of its mark.                   *)
LEMMA WriteInserted ==
    ASSUME NEW s \in Seq(Writes), NEW k \in 0 .. Len(s), NEW w \in Writes
    PROVE  LET t == InsertAt(s, k + 1, w)
           IN  /\ DOMAIN t = 1 .. Len(s) + 1
               /\ \A j \in 1 .. Len(s) + 1 :
                      t[j] = IF j <= k THEN s[j] ELSE IF j = k + 1 THEN w ELSE s[j - 1]
<1> DEFINE head == SubSeq(s, 1, k)
           tail == SubSeq(s, k + 1, Len(s))
<1>1. /\ head \in Seq(Writes) /\ Len(head) = k /\ \A j \in 1 .. k : head[j] = s[j]
      /\ tail \in Seq(Writes) /\ Len(tail) = Len(s) - k
      /\ \A j \in 1 .. Len(s) - k : tail[j] = s[k + j]
  OBVIOUS
<1>2. InsertAt(s, k + 1, w) = (head \o <<w>>) \o tail
  <2>1. (k + 1) - 1 = k
    OBVIOUS
  <2> QED
    BY <2>1 DEF InsertAt
<1> HIDE DEF head, tail
<1> DEFINE front == head \o <<w>>
<1>3. /\ front \in Seq(Writes) /\ Len(front) = k + 1 /\ front[k + 1] = w
      /\ \A j \in 1 .. k : front[j] = s[j]
  BY <1>1
<1> HIDE DEF front
<1>4. Len(s) \in Nat
  OBVIOUS
<1>5. Len(front \o tail) = Len(s) + 1 /\ front \o tail \in Seq(Writes)
  BY <1>1, <1>3, <1>4
<1>6. ASSUME NEW j \in 1 .. Len(s) + 1
      PROVE  (front \o tail)[j] = IF j <= k THEN s[j] ELSE IF j = k + 1 THEN w ELSE s[j - 1]
  <2>1. CASE j <= k + 1
    <3>1. (front \o tail)[j] = front[j]
      BY <1>1, <1>3, <1>4, <2>1, ConcatProperties
    <3>2. j <= k => j \in 1 .. k
      OBVIOUS
    <3> QED
      BY <1>3, <2>1, <3>1, <3>2
  <2>2. CASE j > k + 1
    <3>1. (front \o tail)[j] = tail[j - (k + 1)]
      BY <1>1, <1>3, <1>4, <2>2, ConcatProperties
    <3>2. j - (k + 1) \in 1 .. Len(s) - k /\ k + (j - (k + 1)) = j - 1
      BY <1>4, <2>2
    <3>3. ~(j <= k) /\ j # k + 1
      BY <2>2
    <3> QED
      BY <1>1, <3>1, <3>2, <3>3
  <2>3. j <= k + 1 \/ j > k + 1
    OBVIOUS
  <2> QED
    BY <2>1, <2>2, <2>3
<1> QED
  BY <1>2, <1>5, <1>6, SMTT(30) DEF front

(* An instruction that is not refused takes one more slot.                 *)
LEMMA AddGrows ==
    ASSUME NEW c \in Program, c.state = "editable", ~(Len(c.instructions) >= kMaxInstruction),
           NEW w \in Writes
    PROVE  Len(AddInstruction(c, w).instructions) = Len(c.instructions) + 1
<1> DEFINE s == c.instructions
           k == Cardinality({i \in DOMAIN s : s[i].mark <= w.mark})
           t == InsertAt(s, k + 1, w)
<1>1. s \in Seq(Writes) /\ Len(s) \in Nat /\ DOMAIN s = 1 .. Len(s)
  BY DEF Program
<1>2. k \in 0 .. Len(s)
  <2>1. IsFiniteSet(1 .. Len(s)) /\ Cardinality(1 .. Len(s)) = Len(s)
    BY <1>1, FS_Interval
  <2>2. {i \in DOMAIN s : s[i].mark <= w.mark} \in SUBSET (1 .. Len(s))
    BY <1>1
  <2> QED
    BY <1>1, <2>1, <2>2, FS_Subset, FS_CardinalityType
<1>3. AddInstruction(c, w).instructions = t
  BY DEF AddInstruction, Program
<1>4. AddInstruction(c, w).instructions \in Seq(Writes)
  BY AddType DEF Program
<1> HIDE DEF s, k
<1>5. DOMAIN t = 1 .. Len(s) + 1
  BY <1>1, <1>2, WriteInserted
<1>6. t \in Seq(Writes)
  BY <1>3, <1>4
<1> HIDE DEF t
<1>7. Len(t) = Len(s) + 1
  BY <1>1, <1>5, <1>6
<1> QED
  BY <1>3, <1>7 DEF s

(* While it is edited the program takes one more write to its place.       *)
LEMMA AddKeepsProgram ==
    ASSUME NEW script \in Seq(Commands), NEW n \in Nat, n < Len(script),
           script[n + 1].cmd = "add", Editing(script, n),
           NEW c \in Program, c.state = "editable", IsProgramOf(c.instructions, script, n),
           FillsUp(c, script, n), ~(Len(c.instructions) >= kMaxInstruction)
    PROVE  IsProgramOf(AddInstruction(c, script[n + 1].write).instructions, script, n + 1)
<1> DEFINE s   == c.instructions
           w   == script[n + 1].write
           old == StoredSlots(script, n)
           new == StoredSlots(script, n + 1)
<1>1. s \in Seq(Writes) /\ Len(s) \in Nat /\ DOMAIN s = 1 .. Len(s)
  BY DEF Program
<1>2. w \in Writes /\ w.mark \in Nat /\ \A i \in DOMAIN s : s[i] \in Writes /\ s[i].mark \in Nat
  <2>1. n + 1 \in 1 .. Len(script)
    OBVIOUS
  <2>2. script[n + 1] \in Commands
    BY <2>1
  <2>3. w \in Writes
    BY <2>2 DEF Writes
  <2>4. \A v \in Writes : v.mark \in Nat
    BY FirmwareAssumption DEF Writes
  <2> QED
    BY <1>1, <2>3, <2>4
<1>3. PICK slot \in [DOMAIN s -> old] :
        /\ \A k \in old : \E j \in DOMAIN s : slot[j] = k
        /\ \A j \in DOMAIN s : s[j] = script[slot[j]].write
        /\ \A i, j \in DOMAIN s : i < j =>
               \/ s[i].mark < s[j].mark
               \/ s[i].mark = s[j].mark /\ slot[i] < slot[j]
  BY DEF IsProgramOf
<1>4. new = old \cup {n + 1} /\ old \subseteq 1 .. n
  <2>1. Cardinality(ProgramSlots(script, n)) < kMaxInstruction
    BY AddIsStored, FirmwareAssumption DEF FillsUp
  <2>2. old \subseteq 1 .. n
    BY DEF StoredSlots, ProgramSlots
  <2> QED
    BY <2>1, <2>2, AddIsStored
<1>5. PICK k \in 0 .. Len(s) : /\ \A i \in DOMAIN s : s[i].mark <= w.mark <=> i <= k
                               /\ Cardinality({i \in DOMAIN s : s[i].mark <= w.mark}) = k
  <2>1. \A i, j \in DOMAIN s : i < j => s[i].mark <= s[j].mark
    BY <1>2, <1>3
  <2> HIDE DEF s, w
  <2> QED
    BY <1>1, <1>2, <2>1, MarksUpTo
<1> DEFINE t     == InsertAt(s, k + 1, w)
           slotT == [j \in 1 .. Len(s) + 1 |-> IF j <= k THEN slot[j]
                                               ELSE IF j = k + 1 THEN n + 1 ELSE slot[j - 1]]
<1>6. AddInstruction(c, w).instructions = t
  BY <1>5 DEF AddInstruction, Program
<1>7. /\ DOMAIN t = 1 .. Len(s) + 1
      /\ \A j \in 1 .. Len(s) + 1 :
             t[j] = IF j <= k THEN s[j] ELSE IF j = k + 1 THEN w ELSE s[j - 1]
  <2> HIDE DEF s, w
  <2> QED
    BY <1>1, <1>2, WriteInserted
<1>w. w = script[n + 1].write
  OBVIOUS
<1> HIDE DEF s, w, t, old, new
<1>8. k \in Nat /\ k <= Len(s)
  BY <1>1
<1>9. ASSUME NEW j \in 1 .. Len(s) + 1
      PROVE  \/ j <= k /\ j \in DOMAIN s
             \/ j = k + 1
             \/ ~(j <= k) /\ j # k + 1 /\ j - 1 \in DOMAIN s /\ ~(j - 1 <= k)
  BY <1>1, <1>8
<1>10. slotT \in [DOMAIN t -> new]
  BY <1>3, <1>4, <1>7, <1>9
<1>11. ASSUME NEW i \in new PROVE \E j \in DOMAIN t : slotT[j] = i
  <2>1. CASE i \in old
    <3>1. PICK j \in DOMAIN s : slot[j] = i
      BY <1>3, <2>1
    <3>2. CASE j <= k
      BY <1>1, <1>7, <3>1, <3>2
    <3>3. CASE ~(j <= k)
      <4>1. j + 1 \in 1 .. Len(s) + 1 /\ ~(j + 1 <= k) /\ j + 1 # k + 1 /\ (j + 1) - 1 = j
        BY <1>1, <1>8, <3>3
      <4> QED
        BY <1>7, <3>1, <4>1
    <3> QED
      BY <3>2, <3>3
  <2>2. CASE i = n + 1
    <3>1. k + 1 \in 1 .. Len(s) + 1 /\ ~(k + 1 <= k)
      BY <1>1, <1>8
    <3> QED
      BY <1>7, <2>2, <3>1
  <2> QED
    BY <1>4, <2>1, <2>2
<1>12. ASSUME NEW j \in DOMAIN t PROVE t[j] = script[slotT[j]].write
  BY <1>3, <1>7, <1>9, <1>w
<1>13. ASSUME NEW i \in DOMAIN t, NEW j \in DOMAIN t, i < j
       PROVE  \/ t[i].mark < t[j].mark
              \/ t[i].mark = t[j].mark /\ slotT[i] < slotT[j]
  <2>1. i \in 1 .. Len(s) + 1 /\ j \in 1 .. Len(s) + 1
    BY <1>7
  <2>2. \A m \in DOMAIN s : slot[m] \in 1 .. n
    BY <1>3, <1>4
  <2>3. CASE j <= k
    <3>1. i <= k /\ i \in DOMAIN s /\ j \in DOMAIN s
      BY <1>1, <1>8, <1>13, <2>1, <2>3
    <3> QED
      BY <1>3, <1>7, <1>13, <2>1, <2>3, <3>1
  <2>4. CASE j = k + 1
    <3>1. i <= k /\ i \in DOMAIN s /\ ~(j <= k)
      BY <1>1, <1>8, <1>13, <2>1, <2>4
    <3>2. t[i] = s[i] /\ t[j] = w /\ slotT[i] = slot[i] /\ slotT[j] = n + 1
      BY <1>7, <2>1, <2>4, <3>1
    <3>3. s[i].mark <= w.mark /\ slot[i] < n + 1
      BY <1>5, <2>2, <3>1
    <3> QED
      BY <1>2, <3>1, <3>2, <3>3
  <2>5. CASE ~(j <= k) /\ j # k + 1
    <3>1. j - 1 \in DOMAIN s /\ ~(j - 1 <= k)
      BY <1>9, <2>1, <2>5
    <3>2. t[j] = s[j - 1] /\ slotT[j] = slot[j - 1]
      BY <1>7, <2>1, <2>5
    <3>3. CASE i <= k
      <4>1. i \in DOMAIN s /\ i < j - 1
        BY <1>1, <1>8, <2>1, <3>1, <3>3
      <4>2. t[i] = s[i] /\ slotT[i] = slot[i]
        BY <1>7, <2>1, <3>3
      <4> QED
        BY <1>3, <3>1, <3>2, <4>1, <4>2
    <3>4. CASE i = k + 1
      <4>1. t[i] = w /\ ~(s[j - 1].mark <= w.mark)
        BY <1>5, <1>7, <1>8, <2>1, <3>1, <3>4
      <4> QED
        BY <1>2, <3>1, <3>2, <4>1
    <3>5. CASE ~(i <= k) /\ i # k + 1
      <4>1. i - 1 \in DOMAIN s /\ i - 1 < j - 1
        BY <1>9, <1>13, <2>1, <3>5
      <4>2. t[i] = s[i - 1] /\ slotT[i] = slot[i - 1]
        BY <1>7, <2>1, <3>5
      <4> QED
        BY <1>3, <3>1, <3>2, <4>1, <4>2
    <3> QED
      BY <3>3, <3>4, <3>5
  <2> QED
    BY <2>3, <2>4, <2>5
<1>14. IsProgramOf(t, script, n + 1)
  <2> HIDE DEF slotT
  <2> QED
    BY <1>10, <1>11, <1>12, <1>13 DEF IsProgramOf, new
<1> QED
  BY <1>6, <1>14 DEF w

(* Only the slots of the program matter.                                   *)
LEMMA SameSlots ==
    ASSUME NEW program, NEW script, NEW m, NEW n,
           StoredSlots(script, m) = StoredSlots(script, n)
    PROVE  IsProgramOf(program, script, m) <=> IsProgramOf(program, script, n)
BY DEF IsProgramOf

LEMMA SameProgramSlots ==
    ASSUME NEW program, NEW script, NEW m, NEW n,
           ProgramSlots(script, m) = ProgramSlots(script, n)
    PROVE  IsProgramOf(program, script, m) <=> IsProgramOf(program, script, n)
<1>1. StoredSlots(script, m) = StoredSlots(script, n)
  BY DEF StoredSlots
<1> QED
  BY <1>1, SameSlots

(* One more add: stored if there is a slot left, refused if not, and so the *)
(* slots are used up in the order of the adds.                             *)
LEMMA AddFillsUp ==
    ASSUME NEW script \in Seq(Commands), NEW n \in Nat, n < Len(script),
           script[n + 1].cmd = "add", Editing(script, n),
           NEW c \in Program, c.state = "editable", IsProgramOf(c.instructions, script, n),
           FillsUp(c, script, n), NEW d, d = AddInstruction(c, script[n + 1].write)
    PROVE  /\ IsProgramOf(d.instructions, script, n + 1)
           /\ FillsUp(d, script, n + 1)
<1> DEFINE w     == script[n + 1].write
           count == Cardinality(ProgramSlots(script, n))
           after == Cardinality(ProgramSlots(script, n + 1))
<1>1. count \in Nat /\ after = count + 1
  BY AddIsStored
<1>2. kMaxInstruction \in Nat
  BY FirmwareAssumption
<1>3. Len(c.instructions) = IF count < kMaxInstruction THEN count ELSE kMaxInstruction
  BY DEF FillsUp
<1>4. CASE count < kMaxInstruction
  <2>1. ~(Len(c.instructions) >= kMaxInstruction)
    BY <1>1, <1>2, <1>3, <1>4
  <2>2. IsProgramOf(d.instructions, script, n + 1)
    BY <2>1, AddKeepsProgram
  <2>3. w \in Writes
    <3>1. n + 1 \in 1 .. Len(script)
      OBVIOUS
    <3>2. script[n + 1] \in Commands
      BY <3>1
    <3> QED
      BY <3>2 DEF Writes
  <2>4. Len(d.instructions) = Len(c.instructions) + 1
    BY <2>1, <2>3, AddGrows
  <2>5. Len(d.instructions) = IF after < kMaxInstruction THEN after ELSE kMaxInstruction
    <3> HIDE DEF count, after
    <3> QED
      BY <1>1, <1>2, <1>3, <1>4, <2>4
  <2> QED
    BY <2>2, <2>5 DEF FillsUp
<1>5. CASE ~(count < kMaxInstruction)
  <2>1. d = c
    BY <1>1, <1>2, <1>3, <1>5 DEF AddInstruction
  <2>2. StoredSlots(script, n + 1) = StoredSlots(script, n)
    BY <1>5, AddIsStored
  <2>3. IsProgramOf(d.instructions, script, n + 1)
    BY <2>1, <2>2, SameSlots
  <2>4. Len(d.instructions) = IF after < kMaxInstruction THEN after ELSE kMaxInstruction
    <3> HIDE DEF count, after
    <3> QED
      BY <1>1, <1>2, <1>3, <1>5, <2>1
  <2> QED
    BY <2>3, <2>4 DEF FillsUp
<1> QED
  BY <1>4, <1>5

(* One more command, served by the controller d after c.                   *)
LEMMA CommandServed ==
    ASSUME NEW script \in Seq(Commands), NEW n \in Nat, n < Len(script),
           NEW c \in Program, NEW by, NEW default, HoldsProgram(c, by, script, n, default),
           NEW d, NEW byNext, script[n + 1].cmd \in {"run", "start"} => script[n + 1].number = n + 1,
           \/ /\ script[n + 1].cmd = "add"
              /\ d = AddInstruction(c, script[n + 1].write)
              /\ byNext = by
           \/ /\ script[n + 1].cmd = "reset"
              /\ d = ResetInstructions(c)
              /\ byNext = by
           \/ /\ script[n + 1].cmd \in {"run", "start"}
              /\ d.instructions = c.instructions
              /\ d.state # "editable"
              /\ byNext = IF c.state = "active" THEN by ELSE script[n + 1].number
    PROVE  HoldsProgram(d, byNext, script, n + 1, default)
<1>1. Editing(script, n) => HasReset(script, n)
  BY DEF Editing, HasReset
<1>2. /\ c.state = "editable" <=> Editing(script, n)
      /\ HasReset(script, n) => IsProgramOf(c.instructions, script, n)
      /\ ~HasReset(script, n) => c.instructions = default
      /\ c.state # "editable" => RunsSince(script, by, n)
      /\ Editing(script, n) => FillsUp(c, script, n)
  BY DEF HoldsProgram
<1>3. ASSUME RunsSince(script, by, n), script[n + 1].cmd # "reset",
             HasReset(script, n + 1) <=> HasReset(script, n)
      PROVE  RunsSince(script, by, n + 1)
  <2>1. by \in 0 .. n /\ \A i \in by .. n + 1 : i \in by .. n \/ i = n + 1
    BY <1>3 DEF RunsSince
  <2> QED
    BY <1>3, <2>1 DEF RunsSince
<1>4. CASE /\ script[n + 1].cmd = "add"
           /\ d = AddInstruction(c, script[n + 1].write)
           /\ byNext = by
  <2>1. d.state = c.state
    BY <1>4 DEF AddInstruction, Program
  <2>2. CASE c.state = "editable"
    <3>1. IsProgramOf(d.instructions, script, n + 1) /\ FillsUp(d, script, n + 1)
      BY <1>1, <1>2, <1>4, <2>2, AddFillsUp
    <3> QED
      BY <1>1, <1>2, <1>4, <2>1, <2>2, <3>1, AddGoesOn DEF HoldsProgram
  <2>3. CASE c.state # "editable"
    <3>1. d = c
      BY <1>4, <2>3 DEF AddInstruction
    <3>2. ProgramSlots(script, n + 1) = ProgramSlots(script, n)
      BY <1>2, <1>4, <2>3, AddGoesOn
    <3>3. RunsSince(script, by, n + 1)
      BY <1>2, <1>3, <1>4, <2>3, AddGoesOn
    <3>4. IsProgramOf(c.instructions, script, n + 1) <=> IsProgramOf(c.instructions, script, n)
      BY <3>2, SameProgramSlots
    <3> QED
      BY <1>2, <1>4, <2>3, <3>1, <3>3, <3>4, AddGoesOn DEF HoldsProgram
  <2> QED
    BY <2>2, <2>3
<1>5. CASE /\ script[n + 1].cmd = "reset"
           /\ d = ResetInstructions(c)
           /\ byNext = by
  <2>1. d.instructions = <<>> /\ d.state = "editable"
    BY <1>5 DEF ResetInstructions
  <2>2. ProgramSlots(script, n + 1) = {}
    BY <1>5, ResetBegins
  <2>3. IsProgramOf(<<>>, script, n + 1)
    <3>1. <<>> \in [DOMAIN <<>> -> {}] /\ DOMAIN <<>> = {}
      OBVIOUS
    <3>2. StoredSlots(script, n + 1) = {}
      BY <2>2 DEF StoredSlots
    <3> QED
      BY <3>1, <3>2 DEF IsProgramOf
  <2>4. FillsUp(d, script, n + 1)
    <3>1. Len(d.instructions) = 0
      BY <2>1
    <3>2. Cardinality(ProgramSlots(script, n + 1)) = 0
      BY <2>2, FS_EmptySet
    <3> QED
      BY <3>1, <3>2, FirmwareAssumption DEF FillsUp
  <2> QED
    BY <1>5, <2>1, <2>3, <2>4, ResetBegins DEF HoldsProgram
<1>6. CASE /\ script[n + 1].cmd \in {"run", "start"}
           /\ d.instructions = c.instructions
           /\ d.state # "editable"
           /\ byNext = IF c.state = "active" THEN by ELSE script[n + 1].number
  <2>1. /\ ~Editing(script, n + 1)
        /\ HasReset(script, n + 1) <=> HasReset(script, n)
        /\ ProgramSlots(script, n + 1) = ProgramSlots(script, n)
    BY <1>6, StartEnds
  <2>2. IsProgramOf(c.instructions, script, n + 1) <=> IsProgramOf(c.instructions, script, n)
    BY <2>1, SameProgramSlots
  <2>3. RunsSince(script, byNext, n + 1)
    <3>1. CASE c.state = "active"
      BY <1>2, <1>3, <1>6, <2>1, <3>1
    <3>2. CASE c.state # "active"
      <4>1. byNext = n + 1
        BY <1>6, <3>2
      <4> QED
        BY <1>6, <2>1, <4>1 DEF RunsSince
    <3> QED
      BY <3>1, <3>2
  <2> QED
    BY <1>2, <1>6, <2>1, <2>2, <2>3 DEF HoldsProgram
<1> QED
  BY <1>4, <1>5, <1>6

(* Only the instructions matter and whether they can be edited.            *)
LEMMA SameProgram ==
    ASSUME NEW c, NEW d, NEW by, NEW script, NEW n, NEW default,
           HoldsProgram(c, by, script, n, default),
           d.instructions = c.instructions, d.state = "editable" <=> c.state = "editable"
    PROVE  HoldsProgram(d, by, script, n, default)
BY DEF HoldsProgram, FillsUp

(* The commands move on from the port to the mailbox, none is skipped.     *)
LEMMA CommandQueued ==
    ASSUME WakeInv, Delivered, QueueCommand, MailboxAccepts, UNCHANGED setup
    PROVE  Delivered' /\ Served' = Served
<1>1. /\ rx # <<>> /\ rx' = Tail(rx) /\ mailbox' = Append(mailbox, Head(rx)) /\ UNCHANGED sent
      /\ rx \in Seq(Commands) /\ mailbox \in Seq(Commands) /\ sent \in Nat
  BY DEF QueueCommand, WakeInv, TypeInv
<1> DEFINE r == Len(rx)
           m == Len(mailbox)
<1>2. /\ r \in Nat /\ r > 0 /\ m \in Nat /\ Len(rx') = r - 1 /\ Len(mailbox') = m + 1
      /\ \A i \in 1 .. r - 1 : rx'[i] = rx[i + 1]
      /\ \A i \in 1 .. m : mailbox'[i] = mailbox[i]
      /\ mailbox'[m + 1] = rx[1]
  BY <1>1
<1>3. Served' = Served
  BY <1>1, <1>2 DEF Served
<1>4. Served \in Int
  BY <1>1, <1>2 DEF Served
<1>5. ASSUME NEW i \in 1 .. Len(mailbox') PROVE mailbox'[i] = setup.script[Served + i]
  <2>1. CASE i = m + 1
    <3>1. rx[1] = setup.script[Served + m + 1] /\ Served + m + 1 = Served + (m + 1)
      BY <1>2, <1>4 DEF Delivered
    <3> QED
      BY <1>2, <2>1, <3>1
  <2>2. CASE i \in 1 .. m
    BY <1>2, <2>2 DEF Delivered
  <2> QED
    BY <1>2, <2>1, <2>2
<1>6. ASSUME NEW i \in 1 .. Len(rx')
      PROVE  rx'[i] = setup.script[Served + Len(mailbox') + i]
  <2>1. i \in 1 .. r - 1 /\ i + 1 \in 1 .. r
    BY <1>2
  <2>2. rx[i + 1] = setup.script[Served + m + (i + 1)]
    BY <2>1 DEF Delivered
  <2>3. Served + m + (i + 1) = Served + (m + 1) + i
    BY <1>2, <1>4, <2>1
  <2> QED
    BY <1>2, <2>1, <2>2, <2>3
<1>7. sent' <= Len(setup.script) /\ Len(rx') + Len(mailbox') <= sent'
  BY <1>1, <1>2 DEF Delivered
<1> HIDE DEF r, m
<1> QED
  BY <1>3, <1>5, <1>6, <1>7 DEF Delivered

(* The next command of the mailbox is the next of the script.              *)
LEMMA CommandTaken ==
    ASSUME WakeInv, Delivered, mailbox # <<>>, mailbox' = Tail(mailbox),
           UNCHANGED <<setup, sent, rx>>
    PROVE  /\ Delivered' /\ Served' = Served + 1
           /\ Served \in Nat /\ Served < Len(setup.script)
           /\ Head(mailbox) = setup.script[Served + 1]
<1>1. rx \in Seq(Commands) /\ mailbox \in Seq(Commands) /\ sent \in Nat
  BY DEF WakeInv, TypeInv
<1> DEFINE m == Len(mailbox)
<1>2. /\ Len(rx) \in Nat /\ m \in Nat /\ m > 0 /\ Len(mailbox') = m - 1
      /\ \A i \in 1 .. m - 1 : mailbox'[i] = mailbox[i + 1]
      /\ Head(mailbox) = mailbox[1]
  BY <1>1
<1>3. /\ Served \in Nat /\ Served < Len(setup.script) /\ Served' = Served + 1
  <2>1. setup.script \in Seq(Commands)
    BY FirmwareAssumption DEF WakeInv, TypeInv
  <2>2. Len(setup.script) \in Nat
    BY <2>1
  <2> QED
    BY <1>1, <1>2, <2>2 DEF Served, Delivered
<1>4. ASSUME NEW i \in 1 .. Len(mailbox') PROVE mailbox'[i] = setup.script[Served' + i]
  <2>1. i + 1 \in 1 .. m /\ mailbox'[i] = mailbox[i + 1]
    BY <1>2
  <2>2. Served + (i + 1) = Served' + i
    BY <1>3
  <2> QED
    BY <2>1, <2>2 DEF Delivered
<1>5. Served' + Len(mailbox') = Served + m
  BY <1>2, <1>3
<1>6. Len(rx) + Len(mailbox') <= sent
  BY <1>1, <1>2 DEF Delivered
<1>7. Head(mailbox) = setup.script[Served + 1]
  BY <1>2 DEF Delivered
<1>8. Delivered'
  BY <1>4, <1>5, <1>6 DEF Delivered
<1> QED
  BY <1>3, <1>7, <1>8

(* The host's next command arrives behind the others.                      *)
LEMMA CommandSent ==
    ASSUME WakeInv, Delivered, HostSends
    PROVE  Delivered' /\ Served' = Served
<1>1. /\ rx \in Seq(Commands) /\ mailbox \in Seq(Commands) /\ sent \in Nat
      /\ sent < Len(setup.script) /\ sent' = sent + 1
      /\ rx' = Append(rx, setup.script[sent + 1]) /\ UNCHANGED <<setup, mailbox>>
      /\ Len(setup.script) \in Nat
  <2>1. setup.script \in Seq(Commands)
    BY FirmwareAssumption DEF WakeInv, TypeInv
  <2> QED
    BY <2>1 DEF WakeInv, TypeInv, HostSends, shared
<1> DEFINE r == Len(rx)
<1>2. /\ r \in Nat /\ Len(mailbox) \in Nat /\ Len(rx') = r + 1
      /\ \A i \in 1 .. r : rx'[i] = rx[i]
      /\ rx'[r + 1] = setup.script[sent + 1]
  BY <1>1
<1>3. Served' = Served /\ Served \in Int
  BY <1>1, <1>2 DEF Served
<1>4. ASSUME NEW i \in 1 .. Len(rx')
      PROVE  rx'[i] = setup.script[Served + Len(mailbox) + i]
  <2>1. CASE i = r + 1
    <3>1. Served + Len(mailbox) + (r + 1) = sent + 1
      BY <1>1, <1>2 DEF Served
    <3> QED
      BY <1>2, <2>1, <3>1
  <2>2. CASE i \in 1 .. r
    BY <1>2, <2>2 DEF Delivered
  <2> QED
    BY <1>2, <2>1, <2>2
<1>5. sent' <= Len(setup.script) /\ Len(rx') + Len(mailbox) <= sent'
  BY <1>1, <1>2 DEF Delivered
<1> HIDE DEF r
<1> QED
  BY <1>1, <1>3, <1>4, <1>5 DEF Delivered

(* Nothing of WholeInv changes but the program.                            *)
LEMMA WholeKept ==
    ASSUME WholeInv, UNCHANGED <<setup, sent, rx, mailbox, dropped, started, led_count_>>,
           ctl'.state = "editable" <=> ctl.state = "editable",
           ctl'.instructions = ctl.instructions,
           app' \in Booting <=> app \in Booting
    PROVE  WholeInv'
<1> SUFFICES ASSUME ~dropped PROVE WholeInv'
  BY DEF WholeInv
<1>1. Delivered' /\ Served' = Served
  BY DEF WholeInv, Delivered, Served
<1>2. app' \in Booting => Served' = 0 /\ ctl'.state = "editable"
  BY <1>1 DEF WholeInv
<1>3. ASSUME app \notin Booting
      PROVE  HoldsProgram(ctl', started, setup.script, Served, DefaultProgram(led_count_))
  BY <1>3, SameProgram DEF WholeInv
<1> QED
  BY <1>1, <1>2, <1>3 DEF WholeInv

(* Every step keeps what is known about the program of the host.           *)
LEMMA WholeNext ==
    ASSUME WakeInv, WholeInv, [Next]_vars
    PROVE  WholeInv'
<1>a. /\ TypeInv /\ BootOrder
      /\ setup.script \in Seq(Commands)
      /\ \A i \in DOMAIN setup.script :
             setup.script[i].cmd \in {"run", "start"} => setup.script[i].number = i
      /\ ctl \in Program
  BY FirmwareAssumption DEF WakeInv, TypeInv
<1>1. CASE UNCHANGED vars
  BY <1>1, WholeKept DEF vars, appVars, hwVars, shared
<1>2. CASE AppStep
  <2>0. UNCHANGED <<setup, sent, rx>>
    BY <1>2, AppShows
  <2>1. CASE InitializeSucceeds
    BY <2>0, <2>1, WholeKept DEF InitializeSucceeds, shared, Booting
  <2>2. CASE InitializeFails
    BY <2>0, <2>2, WholeKept DEF InitializeFails, shared, Booting
  <2>3. CASE SetupReadsLedCount
    <3>1. /\ app \in Booting /\ app' \in Booting
          /\ UNCHANGED <<ctl, mailbox, dropped>>
      BY <2>3 DEF SetupReadsLedCount, shared, Booting
    <3>2. ~dropped => Delivered' /\ Served' = Served
      BY <2>0, <3>1 DEF WholeInv, Delivered, Served
    <3> QED
      BY <3>1, <3>2 DEF WholeInv
  <2>4. CASE SetMailbox
    BY <2>0, <2>4, WholeKept DEF SetMailbox, Booting
  <2>5. CASE SetupStartsDefault
    <3> DEFINE c == [ctl EXCEPT !.instructions = DefaultProgram(led_count_)]
    <3>1. /\ StartAndTick(c, 0) /\ app = "default" /\ app' = "wait"
          /\ UNCHANGED <<led_count_, mailbox, dropped>>
      BY <2>5 DEF SetupStartsDefault
    <3>2. c \in Program /\ c.state = ctl.state /\ c.instructions = DefaultProgram(led_count_)
      BY <1>a, DefaultType DEF TypeInv, Program
    <3> HIDE DEF c
    <3>3. /\ ctl'.instructions = DefaultProgram(led_count_) /\ ctl'.state # "editable"
          /\ started' = IF ctl.state = "active" THEN started ELSE 0
      BY <3>1, <3>2, StartKeeps
    <3> SUFFICES ASSUME ~dropped PROVE WholeInv'
      BY <3>1 DEF WholeInv
    <3>4. Delivered' /\ Served' = 0 /\ started' = 0
      BY <2>0, <3>1, <3>3 DEF WholeInv, Delivered, Served, Booting
    <3>5. ~Editing(setup.script, 0) /\ ~HasReset(setup.script, 0)
      BY DEF Editing, HasReset
    <3>6. HoldsProgram(ctl', 0, setup.script, 0, DefaultProgram(led_count_))
      BY <3>3, <3>5 DEF HoldsProgram, RunsSince
    <3> QED
      BY <2>0, <3>1, <3>4, <3>6 DEF WholeInv, Booting
  <2>6. CASE LoopWaits
    BY <2>0, <2>6, WholeKept DEF LoopWaits, shared, Booting
  <2>7. CASE DispatchControllerCommand
    <3> DEFINE msg == Head(mailbox)
    <3>1. /\ app = "commands" /\ app' = "commands"
          /\ mailbox # <<>> /\ mailbox' = Tail(mailbox)
          /\ UNCHANGED <<led_count_, dropped>>
      BY <2>7 DEF DispatchControllerCommand, ReceivesCommand, AfterCommand
    <3> SUFFICES ASSUME ~dropped PROVE WholeInv'
      BY <3>1 DEF WholeInv
    <3>2. /\ Delivered
          /\ HoldsProgram(ctl, started, setup.script, Served, DefaultProgram(led_count_))
      BY <3>1 DEF WholeInv, Booting
    <3>3. /\ Delivered' /\ Served' = Served + 1
          /\ Served \in Nat /\ Served < Len(setup.script)
          /\ msg = setup.script[Served + 1]
      BY <2>0, <3>1, <3>2, CommandTaken
    <3>4. msg.cmd \in {"run", "start"} => msg.number = Served + 1
      BY <1>a, <3>3
    <3>5. msg.cmd \in {"add", "reset", "run", "start"}
      BY <1>a, <3>1, MessageType
    <3>6. \/ /\ msg.cmd = "add"
             /\ ctl' = AddInstruction(ctl, msg.write)
             /\ started' = started
          \/ /\ msg.cmd = "reset"
             /\ ctl' = ResetInstructions(ctl)
             /\ started' = started
          \/ /\ msg.cmd \in {"run", "start"}
             /\ ctl'.instructions = ctl.instructions
             /\ ctl'.state # "editable"
             /\ started' = IF ctl.state = "active" THEN started ELSE msg.number
      <4>1. CASE msg.cmd = "add"
        BY <2>7, <4>1 DEF DispatchControllerCommand
      <4>2. CASE msg.cmd = "reset"
        BY <2>7, <4>2 DEF DispatchControllerCommand
      <4>3. CASE msg.cmd \in {"run", "start"}
        <5>1. StartAndTick(ctl, msg.number)
          BY <2>7, <4>3 DEF DispatchControllerCommand
        <5> QED
          BY <1>a, <4>3, <5>1, StartKeeps
      <4> QED
        BY <3>5, <4>1, <4>2, <4>3
    <3> HIDE DEF msg
    <3>7. HoldsProgram(ctl', started', setup.script, Served + 1, DefaultProgram(led_count_))
      BY <1>a, <3>2, <3>3, <3>4, <3>6, CommandServed
    <3> QED
      BY <2>0, <3>1, <3>3, <3>7 DEF WholeInv, Booting
  <2>8. CASE CommandsDone
    BY <2>0, <2>8, WholeKept DEF CommandsDone, shared, Booting
  <2>9. CASE LoopRuns
    <3>1. /\ ctl'.instructions = ctl.instructions
          /\ ctl'.state = "editable" <=> ctl.state = "editable"
      BY <1>a, <2>9, RunKeeps DEF LoopRuns
    <3> QED
      BY <2>0, <2>9, <3>1, WholeKept DEF LoopRuns, Booting
  <2> QED
    BY <1>2, <2>1, <2>2, <2>3, <2>4, <2>5, <2>6, <2>7, <2>8, <2>9 DEF AppStep
<1>3. CASE HwStep
  <2>0. UNCHANGED setup
    BY <1>3 DEF HwStep
  <2>1. CASE QueueCommand
    <3>1. UNCHANGED <<app, ctl, started, led_count_>>
      BY <2>1 DEF QueueCommand
    <3>2. CASE MailboxAccepts
      <4>1. UNCHANGED dropped
        BY <2>1, <3>2 DEF QueueCommand
      <4>2. ~dropped => Delivered' /\ Served' = Served
        BY <2>0, <2>1, <3>2, CommandQueued DEF WholeInv
      <4> QED
        BY <2>0, <3>1, <4>1, <4>2 DEF WholeInv
    <3>3. CASE ~MailboxAccepts
      BY <2>1, <3>3 DEF QueueCommand, WholeInv
    <3> QED
      BY <3>2, <3>3
  <2>2. CASE ~QueueCommand
    <3>1. UNCHANGED <<sent, rx, mailbox, dropped, started, led_count_, ctl, app>>
      BY <1>3, <2>2 DEF HwStep, SetupConfigures, SetupRegisters, HwIdles, HwWaits, RunEnds,
         ReceivesFrame, ApplyFrame, ApplyFrameFails, FramesDone, Blink, appVars, shared
    <3> QED
      BY <2>0, <3>1, WholeKept
  <2> QED
    BY <2>1, <2>2
<1>4. CASE TimerFires
  <2>1. ctl'.state = ctl.state /\ ctl'.instructions = ctl.instructions
    BY <1>a, <1>4 DEF TimerFires, Program
  <2> QED
    BY <1>4, <2>1, WholeKept DEF TimerFires, hwVars, shared
<1>5. CASE HostSends
  <2>1. UNCHANGED <<setup, app, ctl, started, led_count_, dropped>>
    BY <1>5 DEF HostSends, appVars, shared
  <2>2. ~dropped => Delivered' /\ Served' = Served
    BY <1>5, CommandSent DEF WholeInv
  <2> QED
    BY <2>1, <2>2 DEF WholeInv
<1> QED
  BY <1>1, <1>2, <1>3, <1>4, <1>5 DEF Next

(* The program that runs is the one the host sent before it started it, in *)
(* the order of its marks, as long as the sink has dropped no command      *)
(* (ControllerCommandSink, UpdateInstructions, DispatchControllerCommand,  *)
(* AddInstruction): whole if it has at most kMaxInstruction instructions,  *)
(* and otherwise the first kMaxInstruction of them, for every script,      *)
(* capacity, priority and fault; and a patient host has none dropped.      *)
THEOREM ProgramIsWhole == Spec => []StartedProgramIsWhole
<1>1. Init => WholeInv
  <2> SUFFICES ASSUME Init PROVE WholeInv
    OBVIOUS
  <2>1. setup.script \in Seq(Commands)
    BY FirmwareAssumption DEF Init
  <2>2. /\ sent = 0 /\ rx = <<>> /\ mailbox = <<>> /\ app \in Booting
        /\ ctl.state = "editable" /\ Len(setup.script) \in Nat
    BY <2>1 DEF Init, Booting
  <2>3. sent = 0 /\ Len(rx) = 0 /\ Len(mailbox) = 0 /\ Len(setup.script) \in Nat
    BY <2>2
  <2>4. Delivered /\ Served = 0
    <3>1. Served = 0
      BY <2>3 DEF Served
    <3>2. \A i \in 1 .. 0 : FALSE
      OBVIOUS
    <3>3. sent <= Len(setup.script) /\ Len(rx) + Len(mailbox) <= sent
      BY <2>3
    <3> QED
      BY <2>3, <3>1, <3>2, <3>3 DEF Delivered
  <2> QED
    BY <2>2, <2>4 DEF WholeInv
<1>2. WakeInv /\ WholeInv /\ PatientHostLosesNothing => StartedProgramIsWhole
  <2> SUFFICES ASSUME WakeInv, WholeInv, app \in {"wait", "commands", "timeout"},
                      ctl.state # "editable", ~dropped
               PROVE  IF HasReset(setup.script, started)
                      THEN IsProgramOf(ctl.instructions, setup.script, started)
                      ELSE ctl.instructions = DefaultProgram(led_count_)
    BY DEF StartedProgramIsWhole
  <2> DEFINE script == setup.script
  <2>1. /\ HoldsProgram(ctl, started, script, Served, DefaultProgram(led_count_))
        /\ Delivered
    BY DEF WholeInv, Booting
  <2>2. Served \in Nat
    <3>1. rx \in Seq(Commands) /\ mailbox \in Seq(Commands) /\ sent \in Nat
      BY DEF WakeInv, TypeInv
    <3>2. Len(rx) \in Nat /\ Len(mailbox) \in Nat
      BY <3>1
    <3> QED
      BY <2>1, <3>1, <3>2 DEF Delivered, Served
  <2> HIDE DEF script
  <2>3. RunsSince(script, started, Served)
    BY <2>1 DEF HoldsProgram
  <2>4. /\ HasReset(script, started) <=> HasReset(script, Served)
        /\ HasReset(script, Served) =>
              ProgramSlots(script, started) = ProgramSlots(script, Served)
    BY <2>2, <2>3, StartedIsServed
  <2>5. IF HasReset(script, started) THEN IsProgramOf(ctl.instructions, script, started)
                                     ELSE ctl.instructions = DefaultProgram(led_count_)
    BY <2>1, <2>4, SameProgramSlots DEF HoldsProgram
  <2> QED
    BY <2>5 DEF script
<1> QED
  BY <1>1, <1>2, WakeInit, WakeNext, WholeNext, PatientHostIsServed, PTL DEF Spec
=============================================================================
