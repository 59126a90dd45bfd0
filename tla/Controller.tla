----------------------------- MODULE Controller -----------------------------
(***************************************************************************)
(* The program runtime of prism::Controller (app/controller/controller.cpp *)
(* and include/prism/controller.hpp): a retained program is edited,        *)
(* started and advanced by progress ticks.  One call of Run samples the    *)
(* clock once and then drains timed work, completes groups and picks due   *)
(* instructions until a round makes no progress.                           *)
(*                                                                         *)
(* The public calls are atomic, except Run, whose loops take one step per  *)
(* iteration that changes state; pc is the loop Run is in.  A caller uses  *)
(* the controller from one task, so no other call starts before Run        *)
(* returns, but the clock may advance while it works.                      *)
(*                                                                         *)
(* A group runtime is indexed by its label.  Its cursor into the group's   *)
(* mark-sorted range is kept as the set of slots the cursor has not passed *)
(* yet; the slot at the cursor is the earliest of them.                    *)
(***************************************************************************)
EXTENDS GroupProgram

CONSTANTS
    Instructions,     \* the instructions callers may offer
    NoInstruction,    \* a null instruction pointer
    NoGroup,          \* parent_group_index = kMaxGroups
    NoAlarm,          \* no wake-up was requested
    HalfRange,        \* kTimestampHalfRange; timestamps are modulo twice this
    RootRepeats,      \* the arguments of Start
    RefreshPeriods,   \* the arguments of SetRefreshPeriodMs, invalid ones too
    InitialRefresh,   \* kDefaultRefreshPeriodMs
    MayReset,         \* whether callers use ResetInstructions
    BootTimes,        \* the clock when the controller is constructed
    MaxLate           \* bound: how long Run may take, or be called late

TimestampRange == 2 * HalfRange

Time == 0 .. TimestampRange - 1

ASSUME TimeAssumption ==
    /\ HalfRange \in Nat \ {0}
    /\ MaxLate \in Nat
    /\ MaxMark + 2 * MaxLate < HalfRange
    /\ MaxDuration + 2 * MaxLate < HalfRange
ASSUME CallAssumption ==
    /\ \A instr \in Instructions : instr.op \in SupportedOps => instr \in Instruction
    /\ RootRepeats \subseteq 0 .. Forever
    /\ RefreshPeriods \subseteq Nat
    /\ InitialRefresh \in 1 .. HalfRange - 1
    /\ BootTimes \subseteq Time
    /\ MayReset \in BOOLEAN
ASSUME NullAssumption == NoGroup \notin GroupIds /\ NoAlarm \notin Int

VARIABLES
    state,            \* ProgramState
    instructions,     \* the stored program
    replay,           \* per slot: started_ and start_time_ of a timed instruction
    runtimes,         \* GroupRuntime of every label
    executing,        \* executing_[0 .. executing_count_)
    show_requested,
    refresh_period_ms,
    status,           \* the last ControllerStatus; during Run, run_status
    pc,               \* which loop of Run is at work, "idle" outside Run
    timestamp,        \* the clock sample of Start or of the current Run
    position,         \* i of DrainExecuting
    scan,             \* the labels CompleteReadyGroups has still to visit
    progressed,
    now,              \* the millisecond clock
    alarm,            \* time left to the requested wake-up, negative when late
    unshown,          \* history: an LED was written and not yet shown
    fresh             \* history: the labels whose pass began at timestamp

programVars == <<state, instructions, replay, runtimes, executing,
                 show_requested, refresh_period_ms, status>>
runVars     == <<pc, timestamp, position, scan, progressed>>
worldVars   == <<now, alarm, unshown, fresh>>
vars        == <<programVars, runVars, worldVars>>

Slots == 1 .. MaxInstructions

Statuses == {"kSuccess", "kInvalidArgument", "kBusy", "kCapacityExhausted",
             "kInvalidProgram", "kAlreadyActiveGroup"}

Runtime ==
    [ active                     : BOOLEAN,
      pending                    : SUBSET Slots,
      start_time                 : Time,
      repeats_remaining          : 0 .. Forever,
      active_count               : Nat,
      child_count                : Nat,
      positive_boundary_observed : BOOLEAN,
      parent                     : GroupIds \cup {NoGroup},
      depth                      : Nat ]

Executing == [slot : Slots, runtime : GroupIds, deadline : Time]

Replay == [started : BOOLEAN, start_time : Time]

-----------------------------------------------------------------------------
(* Time: unsigned 32-bit subtraction and the half-range comparison.        *)

Since(t, s) == (t - s) % TimestampRange

(* Mutant of Later: the sum is not reduced to the timestamp's width.       *)
UnboundedLater(t, delay) == t + delay

Later(t, delay) == (t + delay) % TimestampRange

DeadlineReached(t, deadline) == Since(t, deadline) < HalfRange

-----------------------------------------------------------------------------
(* Group runtimes.                                                         *)

IdleRuntime ==
    [ active |-> FALSE, pending |-> {}, start_time |-> 0,
      repeats_remaining |-> 0, active_count |-> 0, child_count |-> 0,
      positive_boundary_observed |-> FALSE, parent |-> NoGroup, depth |-> 0 ]

NotStarted == [started |-> FALSE, start_time |-> 0]

IsActive(g) == runtimes[g].active

(* StartGroupRuntime refuses a parent that is not active.                  *)
ParentAllowsStart(parent) == parent = NoGroup \/ IsActive(parent)

(* Mutants of DepthBelow: the caller's own depth; one more every pass.     *)
SameDepth(g, parent) == IF parent = NoGroup THEN 0 ELSE runtimes[parent].depth

DepthPerPass(g, parent) == IF runtimes[g].depth > 3 THEN 0 ELSE runtimes[g].depth + 1

DepthBelow(g, parent) ==
    IF parent = NoGroup THEN 0 ELSE runtimes[parent].depth + 1

StartedRuntime(g, t, repeats, parent) ==
    [ active |-> TRUE, pending |-> Members(instructions, g), start_time |-> t,
      repeats_remaining |-> repeats, active_count |-> 0, child_count |-> 0,
      positive_boundary_observed |-> FALSE, parent |-> parent,
      depth |-> DepthBelow(g, parent) ]

(* Mutant of ResetGroupInstructionReplayState: a replayed fade is not reset. *)
KeepReplayState(g) == replay

ResetGroupInstructionReplayState(g) ==
    [k \in Slots |-> IF k \in Members(instructions, g) THEN NotStarted
                                                       ELSE replay[k]]

(* Mutant of BoundaryChain: the callers are not told.                      *)
OwnRuntimeOnly(g) == {h \in {g} : IsActive(h)}

(* The runtimes ObservePositiveBoundary walks over: g and, through the     *)
(* parent links, its active ancestors.  They are those in every set that   *)
(* has g and a parent with each active child; the bound of the walk, one   *)
(* step per group of the table, ends it no earlier.                        *)
HoldsParents(S) ==
    \A h \in S : IsActive(h) /\ runtimes[h].parent # NoGroup => runtimes[h].parent \in S

BoundaryChain(g) ==
    {h \in GroupIds :
       /\ IsActive(h)
       /\ \A S \in SUBSET GroupIds : g \in S /\ HoldsParents(S) => h \in S}

ObservePositiveBoundary(g) ==
    [h \in GroupIds |-> IF h \in BoundaryChain(g)
                          THEN [runtimes[h] EXCEPT !.positive_boundary_observed = TRUE]
                          ELSE runtimes[h]]

-----------------------------------------------------------------------------
(* InstructionMemorySlot::Execute at the current timestamp.  A plain       *)
(* instruction completes at once.  A timed one whose LED is missing does   *)
(* nothing and completes; otherwise its first execution captures the start *)
(* and later ones sample until the duration has elapsed, waking at the     *)
(* refresh grid: of the clock for a fade, of the elapsed time for a        *)
(* gradient.                                                               *)

Ran(k) == IF replay[k].started THEN Since(timestamp, replay[k].start_time) ELSE 0

Remaining(k) ==
    IF IsTimed(instructions[k]) /\ instructions[k].led
       /\ Ran(k) < instructions[k].duration
      THEN instructions[k].duration - Ran(k)
      ELSE 0

UntilGrid(k) ==
    LET phase == IF instructions[k].op = "fade" THEN timestamp ELSE Ran(k)
    IN  refresh_period_ms - (phase % refresh_period_ms)

ExecuteDelay(k) ==
    IF Remaining(k) < UntilGrid(k) THEN Remaining(k) ELSE UntilGrid(k)

ExecuteReplay(k) ==
    IF IsTimed(instructions[k]) /\ instructions[k].led /\ ~replay[k].started
      THEN [replay EXCEPT ![k] = [started |-> TRUE, start_time |-> timestamp]]
      ELSE replay

(* The execution writes LEDs and requests a show.                          *)
ExecuteWrites(k) ==
    \/ instructions[k].op = "set"
    \/ /\ IsTimed(instructions[k]) /\ instructions[k].led
       /\ replay[k].started \/ instructions[k].duration = 0

(* Mutant of Execute: the show request of an earlier instruction is lost.  *)
ExecuteOverwritingShow(k) ==
    /\ replay' = ExecuteReplay(k)
    /\ show_requested' = ExecuteWrites(k)
    /\ unshown' = (unshown \/ ExecuteWrites(k))

(* The effect of Execute on the instruction and the show flag.             *)
Execute(k) ==
    /\ replay' = ExecuteReplay(k)
    /\ show_requested' = (show_requested \/ ExecuteWrites(k))
    /\ unshown' = (unshown \/ ExecuteWrites(k))

LatchRunStatus(s) == IF status = "kSuccess" THEN s ELSE status

-----------------------------------------------------------------------------
Init ==
    /\ state = "kEditable"
    /\ instructions = <<>>
    /\ replay = [k \in Slots |-> NotStarted]
    /\ runtimes = [g \in GroupIds |-> IdleRuntime]
    /\ executing = <<>>
    /\ show_requested = FALSE
    /\ refresh_period_ms = InitialRefresh
    /\ status = "kSuccess"
    /\ pc = "idle"
    /\ timestamp = 0
    /\ position = 1
    /\ scan = {}
    /\ progressed = FALSE
    /\ now \in BootTimes
    /\ alarm = NoAlarm
    /\ unshown = FALSE
    /\ fresh = {}

(* AddInstruction(instr): the program can grow only while it is editable.  *)
AddInstruction(instr) ==
    /\ pc = "idle"
    /\ status' = IF instr = NoInstruction THEN "kInvalidArgument"
                 ELSE IF state # "kEditable" THEN "kBusy"
                 ELSE IF Len(instructions) >= MaxInstructions THEN "kCapacityExhausted"
                 ELSE IF instr.op \notin SupportedOps THEN "kInvalidArgument"
                 ELSE "kSuccess"
    /\ instructions' = IF status' = "kSuccess" THEN Append(instructions, instr)
                                               ELSE instructions
    /\ UNCHANGED <<state, replay, runtimes, executing, show_requested,
                   refresh_period_ms, runVars, worldVars>>

(* SetRefreshPeriodMs(period).                                             *)
SetRefreshPeriodMs(period) ==
    /\ pc = "idle"
    /\ status' = IF period = 0 \/ period >= HalfRange THEN "kInvalidArgument"
                 ELSE IF state = "kActive" THEN "kBusy"
                 ELSE "kSuccess"
    /\ refresh_period_ms' = IF status' = "kSuccess" THEN period
                                                    ELSE refresh_period_ms
    /\ UNCHANGED <<state, instructions, replay, runtimes, executing,
                   show_requested, runVars, worldVars>>

(* Start(repeats): validate the whole program, publish it and start the    *)
(* root, or complete at once when the root is empty.  The caller follows a *)
(* successful start with one Run: pc = "tick".                             *)
Start(repeats) ==
    LET outcome == BuildAndValidateGroups(instructions, repeats)
        accepted == state # "kActive" /\ outcome = "kSuccess"
    IN  /\ pc = "idle"
        /\ status' = IF state = "kActive" THEN "kBusy" ELSE outcome
        /\ \/ /\ ~accepted
              /\ UNCHANGED <<state, replay, runtimes, executing, show_requested,
                             pc, timestamp, fresh>>
           \/ /\ accepted
              /\ executing' = <<>>
              /\ show_requested' = FALSE
              /\ timestamp' = now
              /\ pc' = "tick"
              /\ fresh' = {Root}
              /\ \/ /\ Members(instructions, Root) = {}
                    /\ state' = "kCompleted"
                    /\ runtimes' = [g \in GroupIds |-> IdleRuntime]
                    /\ UNCHANGED replay
                 \/ /\ Members(instructions, Root) # {}
                    /\ state' = "kActive"
                    /\ runtimes' = [g \in GroupIds |->
                                      IF g = Root
                                        THEN StartedRuntime(Root, now, repeats, NoGroup)
                                        ELSE IdleRuntime]
                    /\ replay' = ResetGroupInstructionReplayState(Root)
        /\ UNCHANGED <<instructions, refresh_period_ms, position, scan,
                       progressed, now, alarm, unshown>>

(* ResetInstructions: abort and clear.  A requested wake-up stays armed.   *)
ResetInstructions ==
    /\ pc = "idle"
    /\ state' = "kEditable"
    /\ instructions' = <<>>
    /\ replay' = [k \in Slots |-> NotStarted]
    /\ runtimes' = [g \in GroupIds |-> IdleRuntime]
    /\ executing' = <<>>
    /\ show_requested' = FALSE
    /\ UNCHANGED <<refresh_period_ms, status, runVars, worldVars>>

-----------------------------------------------------------------------------
(* Run: called by the starter, by the wake-up or spuriously.               *)
AlarmConsumed ==
    alarm' = IF alarm # NoAlarm /\ alarm <= 0 THEN NoAlarm ELSE alarm

RunWhenNotActive ==
    /\ pc \in {"idle", "tick"}
    /\ state # "kActive"
    /\ status' = "kSuccess"
    /\ pc' = "idle"
    /\ AlarmConsumed
    /\ UNCHANGED <<state, instructions, replay, runtimes, executing,
                   show_requested, refresh_period_ms, timestamp, position, scan,
                   progressed, now, unshown, fresh>>

RunBegin ==
    /\ pc \in {"idle", "tick"}
    /\ state = "kActive"
    /\ timestamp' = now
    /\ show_requested' = FALSE
    /\ status' = "kSuccess"
    /\ progressed' = FALSE
    /\ position' = 1
    /\ pc' = "drain"
    /\ fresh' = IF now = timestamp THEN fresh ELSE {}
    /\ AlarmConsumed
    /\ UNCHANGED <<state, instructions, replay, runtimes, executing,
                   refresh_period_ms, scan, now, unshown>>

(* DrainExecuting.  An entry whose runtime is gone is discarded; a due one *)
(* is executed and keeps its place with a new deadline, or is replaced by  *)
(* the last entry, which is then examined at the same position.            *)
IsOrphan(e) ==
    \/ e.slot > Len(instructions)
    \/ ~IsActive(e.runtime)

NeedsDrain(e) == IsOrphan(e) \/ DeadlineReached(timestamp, e.deadline)

DrainsNext(k) ==
    /\ k \in position .. Len(executing)
    /\ NeedsDrain(executing[k])
    /\ \A j \in position .. (k - 1) : ~NeedsDrain(executing[j])

(* Mutant of SwapRemove: the last entry is dropped instead of moved.       *)
DropLast(s, k) == [j \in 1 .. Len(s) - 1 |-> s[j]]

SwapRemove(s, k) ==
    [j \in 1 .. Len(s) - 1 |-> IF j = k THEN s[Len(s)] ELSE s[j]]

DrainResumes ==
    /\ pc = "drain"
    /\ \E k \in DOMAIN executing :
         /\ DrainsNext(k)
         /\ ~IsOrphan(executing[k])
         /\ ExecuteDelay(executing[k].slot) # 0
         /\ Execute(executing[k].slot)
         /\ runtimes' = ObservePositiveBoundary(executing[k].runtime)
         /\ executing' = [executing EXCEPT ![k].deadline =
                            Later(timestamp, ExecuteDelay(executing[k].slot))]
         /\ position' = k + 1
    /\ progressed' = TRUE
    /\ UNCHANGED <<state, instructions, refresh_period_ms, status, pc, timestamp,
                   scan, now, alarm, fresh>>

DrainRemoves ==
    /\ pc = "drain"
    /\ \E k \in DOMAIN executing :
         /\ DrainsNext(k)
         /\ executing' = SwapRemove(executing, k)
         /\ position' = k
         /\ LET e == executing[k]
                observed == ObservePositiveBoundary(e.runtime)
            IN  IF IsOrphan(e)
                  THEN /\ status' = LatchRunStatus("kInvalidProgram")
                       /\ UNCHANGED <<replay, runtimes, show_requested, unshown>>
                  ELSE /\ ExecuteDelay(e.slot) = 0
                       /\ Execute(e.slot)
                       /\ status' = IF runtimes[e.runtime].active_count # 0
                                      THEN status
                                      ELSE LatchRunStatus("kInvalidProgram")
                       /\ runtimes' = IF runtimes[e.runtime].active_count = 0
                                        THEN observed
                                        ELSE [observed EXCEPT
                                                ![e.runtime].active_count = @ - 1]
    /\ progressed' = TRUE
    /\ UNCHANGED <<state, instructions, refresh_period_ms, pc, timestamp, scan,
                   now, alarm, fresh>>

DrainDone ==
    /\ pc = "drain"
    /\ \A k \in position .. Len(executing) : ~NeedsDrain(executing[k])
    /\ pc' = "complete"
    /\ scan' = Labels(instructions)
    /\ UNCHANGED <<programVars, timestamp, position, progressed, worldVars>>

-----------------------------------------------------------------------------
(* Mutant of IsReady: a group does not wait for the groups it called.      *)
ReadyDespiteChildren(g) ==
    IsActive(g) /\ runtimes[g].pending = {} /\ runtimes[g].active_count = 0

(* CompleteReadyGroups, in table order.                                    *)
IsReady(g) ==
    /\ IsActive(g)
    /\ runtimes[g].pending = {}
    /\ runtimes[g].active_count = 0
    /\ runtimes[g].child_count = 0

CompletesNext(g) ==
    /\ pc = "complete"
    /\ IsReady(g)
    /\ \A h \in scan : Before(instructions, h, g) => ~IsReady(h)
    /\ scan' = {h \in scan : Before(instructions, g, h)}
    /\ progressed' = TRUE

(* Mutant of MayRepeat: static preflight is taken as an observed boundary. *)
RepeatUnobserved(g) == runtimes[g].repeats_remaining # 0

MayRepeat(g) ==
    runtimes[g].repeats_remaining # 0 /\ runtimes[g].positive_boundary_observed

(* The group starts another pass at this timestamp, its parent unchanged.  *)
RestartGroup(g) ==
    LET repeats == runtimes[g].repeats_remaining
        next == IF repeats = Forever THEN Forever ELSE repeats - 1
    IN  /\ CompletesNext(g)
        /\ MayRepeat(g)
        /\ fresh' = fresh \cup {g}
        /\ IF ParentAllowsStart(runtimes[g].parent)
             THEN /\ runtimes' = [runtimes EXCEPT ![g] =
                        StartedRuntime(g, timestamp, next, runtimes[g].parent)]
                  /\ replay' = ResetGroupInstructionReplayState(g)
                  /\ UNCHANGED status
             ELSE /\ runtimes' = [runtimes EXCEPT ![g] = IdleRuntime]
                  /\ status' = LatchRunStatus("kInvalidProgram")
                  /\ UNCHANGED replay
        /\ UNCHANGED <<state, instructions, executing, show_requested,
                       refresh_period_ms, pc, timestamp, position, now, alarm,
                       unshown>>

(* The group ends: the root completes the program, another group is one    *)
(* child less for its parent.  Repeats left over without an observed       *)
(* boundary are given up with a failure.                                   *)
EndGroup(g) ==
    LET parent == runtimes[g].parent
        ended == [runtimes EXCEPT ![g] = IdleRuntime]
        counted == /\ parent # NoGroup
                   /\ ended[parent].active
                   /\ ended[parent].child_count # 0
    IN  /\ CompletesNext(g)
        /\ ~MayRepeat(g)
        /\ status' = IF runtimes[g].repeats_remaining # 0 \/ (g # Root /\ ~counted)
                       THEN LatchRunStatus("kInvalidProgram")
                       ELSE status
        /\ state' = IF g = Root THEN "kCompleted" ELSE state
        /\ runtimes' = IF g # Root /\ counted
                         THEN [ended EXCEPT ![parent].child_count = @ - 1]
                         ELSE ended
        /\ UNCHANGED <<instructions, replay, executing, show_requested,
                       refresh_period_ms, pc, timestamp, position, worldVars>>

CompleteDone ==
    /\ pc = "complete"
    /\ \A g \in scan : ~IsReady(g)
    /\ pc' = "pick"
    /\ scan' = {}
    /\ UNCHANGED <<programVars, timestamp, position, progressed, worldVars>>

-----------------------------------------------------------------------------
(* PickDueInstructions: deepest groups first, table order within a depth,  *)
(* every due instruction of a group before the next group.                 *)
NextSlot(g) == EarliestOf(instructions, runtimes[g].pending)

Elapsed(g) == Since(timestamp, runtimes[g].start_time)

IsDue(g) ==
    /\ IsActive(g)
    /\ runtimes[g].pending # {}
    /\ instructions[NextSlot(g)].mark <= Elapsed(g)

PicksNext(g) ==
    /\ pc = "pick"
    /\ IsDue(g)
    /\ \A h \in GroupIds : IsDue(h) =>
         \/ runtimes[h].depth < runtimes[g].depth
         \/ runtimes[h].depth = runtimes[g].depth /\ ~Before(instructions, h, g)

(* The cursor moves past slot k; a positive mark is an observed boundary.  *)
CursorMoved(g, k) ==
    LET observed == IF instructions[k].mark > 0 THEN ObservePositiveBoundary(g)
                                                ELSE runtimes
    IN  [observed EXCEPT ![g].pending = @ \ {k}]

(* Mutant of CanStart: a target that is active is started again.           *)
StartsEvenIfActive(child) == child \in Labels(instructions) \ {Root}

CanStart(child) == child \in Labels(instructions) \ {Root} /\ ~IsActive(child)

(* DispatchDueInstruction, RunGroup case, the target can start: another    *)
(* round of Run follows.                                                   *)
PickStartsChild(g) ==
    LET k == NextSlot(g)
        child == instructions[k].target
    IN  /\ PicksNext(g)
        /\ IsRunGroup(instructions[k])
        /\ CanStart(child)
        /\ runtimes' =
             [CursorMoved(g, k) EXCEPT
                ![child] = StartedRuntime(child, timestamp, instructions[k].repeats, g),
                ![g].child_count = @ + 1]
        /\ replay' = ResetGroupInstructionReplayState(child)
        /\ pc' = "drain"
        /\ position' = 1
        /\ progressed' = FALSE
        /\ fresh' = fresh \cup {child}
        /\ UNCHANGED <<state, instructions, executing, show_requested,
                       refresh_period_ms, status, timestamp, scan, now, alarm,
                       unshown>>

(* RunGroup case, the call is rejected and consumed.                       *)
PickRejectsCall(g) ==
    LET k == NextSlot(g)
        child == instructions[k].target
    IN  /\ PicksNext(g)
        /\ IsRunGroup(instructions[k])
        /\ ~CanStart(child)
        /\ runtimes' = CursorMoved(g, k)
        /\ status' = LatchRunStatus(IF child \in Labels(instructions) \ {Root}
                                      THEN "kAlreadyActiveGroup"
                                      ELSE "kInvalidProgram")
        /\ progressed' = TRUE
        /\ UNCHANGED <<state, instructions, replay, executing, show_requested,
                       refresh_period_ms, pc, timestamp, position, scan, worldVars>>

(* Any other instruction is executed and, if it asks for a delay, joins    *)
(* the executing list.                                                     *)
PickExecutes(g) ==
    LET k == NextSlot(g)
        delay == ExecuteDelay(k)
        full == Len(executing) >= MaxInstructions
    IN  /\ PicksNext(g)
        /\ ~IsRunGroup(instructions[k])
        /\ Execute(k)
        /\ \/ /\ delay = 0
              /\ runtimes' = CursorMoved(g, k)
              /\ UNCHANGED <<executing, status>>
           \/ /\ delay # 0
              /\ IF full
                   THEN /\ status' = LatchRunStatus("kCapacityExhausted")
                        /\ runtimes' = CursorMoved(g, k)
                        /\ UNCHANGED executing
                   ELSE /\ executing' =
                             Append(executing, [slot |-> k, runtime |-> g,
                                                deadline |-> Later(timestamp, delay)])
                        /\ runtimes' = [CursorMoved(g, k) EXCEPT
                                          ![g].active_count = @ + 1]
                        /\ UNCHANGED status
        /\ progressed' = TRUE
        /\ UNCHANGED <<state, instructions, refresh_period_ms, pc, timestamp,
                       position, scan, now, alarm, fresh>>

(* Mutant of NextLoop: there is never a second round.                      *)
NeverAgain == "schedule"

(* The end of a round: another one as long as something progressed.        *)
NextLoop == IF progressed THEN "drain" ELSE "schedule"

PickDone ==
    /\ pc = "pick"
    /\ \A g \in GroupIds : ~IsDue(g)
    /\ pc' = NextLoop
    /\ position' = 1
    /\ progressed' = FALSE
    /\ UNCHANGED <<programVars, timestamp, scan, worldVars>>

(* The delays ScheduleNextRun asks for: to the deadline of timed work and  *)
(* to the next mark of a group.                                            *)
DeadlineWakeUps ==
    {Since(executing[k].deadline, timestamp) :
       k \in {j \in DOMAIN executing : ~DeadlineReached(timestamp, executing[j].deadline)}}

MarkWakeUps ==
    {instructions[NextSlot(g)].mark - Elapsed(g) :
       g \in {h \in GroupIds : /\ IsActive(h)
                               /\ runtimes[h].pending # {}
                               /\ instructions[NextSlot(h)].mark > Elapsed(h)}}

(* ScheduleNextRun and the show that ends Run.                             *)
WakeUps == DeadlineWakeUps \cup MarkWakeUps

ScheduleNextRun ==
    /\ pc = "schedule"
    /\ alarm' = IF WakeUps = {} THEN alarm ELSE Min(WakeUps)
    /\ unshown' = (unshown /\ ~show_requested)
    /\ pc' = "idle"
    /\ UNCHANGED <<programVars, timestamp, position, scan, progressed, now, fresh>>

-----------------------------------------------------------------------------
(* The clock.  Bound: neither a Run in progress nor a due wake-up is late  *)
(* by more than MaxLate.  Time in which nothing waits is not counted.      *)
Tick ==
    /\ state = "kActive" \/ alarm # NoAlarm
    /\ pc # "idle" => Since(now, timestamp) < MaxLate
    /\ alarm # NoAlarm => alarm > -MaxLate
    /\ now' = Later(now, 1)
    /\ alarm' = IF alarm = NoAlarm THEN NoAlarm ELSE alarm - 1
    /\ fresh' = IF pc = "idle" THEN {} ELSE fresh
    /\ UNCHANGED <<programVars, runVars, unshown>>

RunStep ==
    \/ DrainResumes
    \/ DrainRemoves
    \/ DrainDone
    \/ \E g \in scan : RestartGroup(g) \/ EndGroup(g)
    \/ CompleteDone
    \/ \E g \in GroupIds : PickStartsChild(g) \/ PickRejectsCall(g) \/ PickExecutes(g)
    \/ PickDone
    \/ ScheduleNextRun

RunCall == RunWhenNotActive \/ RunBegin

(* A program that cannot grow refuses every instruction alike.             *)
Offers == IF state = "kEditable" /\ Len(instructions) < MaxInstructions
            THEN Instructions
            ELSE {CHOOSE instr \in Instructions : TRUE}

Call ==
    \/ \E instr \in Offers \cup {NoInstruction} : AddInstruction(instr)
    \/ \E period \in RefreshPeriods : SetRefreshPeriodMs(period)
    \/ \E repeats \in RootRepeats : Start(repeats)
    \/ MayReset /\ ResetInstructions

Next == Call \/ RunCall \/ RunStep \/ Tick

Spec == Init /\ [][Next]_vars

(* The task that owns the controller finishes a Run it began and makes the  *)
(* Run a start or an elapsed wake-up asks for; time passes.  Nothing is     *)
(* promised about the public calls.                                         *)
RequestedRun == RunCall /\ (pc = "tick" \/ (alarm # NoAlarm /\ alarm <= 0))

Fairness == WF_vars(RunStep) /\ WF_vars(RequestedRun) /\ SF_vars(Tick)

FairSpec == Spec /\ Fairness

-----------------------------------------------------------------------------
(* Every variable keeps its type: in particular counts never go below zero  *)
(* and stored deadlines and origins are timestamps.                         *)
TypeOK ==
    /\ state \in {"kEditable", "kActive", "kCompleted"}
    /\ instructions \in Seq(Instruction)
    /\ Len(instructions) <= MaxInstructions
    /\ replay \in [Slots -> Replay]
    /\ runtimes \in [GroupIds -> Runtime]
    /\ executing \in Seq(Executing)
    /\ show_requested \in BOOLEAN
    /\ refresh_period_ms \in 1 .. HalfRange - 1
    /\ status \in Statuses
    /\ pc \in {"idle", "tick", "drain", "complete", "pick", "schedule"}
    /\ timestamp \in Time
    /\ position \in Nat \ {0}
    /\ scan \subseteq GroupIds
    /\ progressed \in BOOLEAN
    /\ now \in Time
    /\ alarm \in Int \cup {NoAlarm}
    /\ unshown \in BOOLEAN
    /\ fresh \subseteq GroupIds

SlotsExecuting(g) == {executing[k].slot : k \in {j \in DOMAIN executing :
                                                  executing[j].runtime = g}}

(* The executing list of DrainExecuting and DispatchDueInstruction: no      *)
(* instruction is in it twice, every entry belongs to an active runtime     *)
(* whose cursor has passed it, and active_count counts a runtime's entries. *)
(* The list therefore never outgrows the program, and the discard and       *)
(* underflow guards of DrainExecuting are never taken.                      *)
ExecutingIsSound ==
    /\ \A j, k \in DOMAIN executing : executing[j].slot = executing[k].slot => j = k
    /\ \A k \in DOMAIN executing :
         /\ ~IsOrphan(executing[k])
         /\ executing[k].slot \in Members(instructions, executing[k].runtime)
         /\ executing[k].slot \notin runtimes[executing[k].runtime].pending
    /\ \A g \in GroupIds :
         runtimes[g].active_count = Cardinality(SlotsExecuting(g))

Children(g) == {h \in GroupIds : IsActive(h) /\ runtimes[h].parent = g}

(* The invocations of StartGroupRuntime form a tree below the root: an      *)
(* active group's caller is active and one level up, and child_count counts *)
(* the callees.                                                             *)
CallTreeIsSound ==
    /\ \A g \in GroupIds : runtimes[g].child_count = Cardinality(Children(g))
    /\ \A g \in GroupIds : IsActive(g) =>
         IF g = Root
           THEN runtimes[g].parent = NoGroup /\ runtimes[g].depth = 0
           ELSE /\ runtimes[g].parent \in GroupIds
                /\ IsActive(runtimes[g].parent)
                /\ runtimes[g].depth = runtimes[runtimes[g].parent].depth + 1

(* No group is nested deeper than the loop of PickDueInstructions looks.    *)
DepthIsScanned ==
    \A g \in GroupIds : IsActive(g) =>
        g \in Labels(instructions) /\ runtimes[g].depth < Cardinality(Labels(instructions))

(* The program is active exactly as long as its root is, and the root       *)
(* outlives every group and every timed instruction it launched.            *)
RootOutlivesItsWork ==
    /\ (state = "kActive") <=> IsActive(Root)
    /\ \A g \in GroupIds : IsActive(g) => IsActive(Root)
    /\ executing # <<>> => IsActive(Root)

(* Run leaves nothing to do at the timestamp it sampled, so that a second   *)
(* Run at the same time is idempotent (blink_app.cpp, Loop).                *)
NothingDueAtRest ==
    pc = "idle" /\ state = "kActive" =>
        /\ \A k \in DOMAIN executing : ~NeedsDrain(executing[k])
        /\ \A g \in GroupIds : ~IsReady(g) /\ ~IsDue(g)

DueTimes ==
    {executing[k].deadline : k \in DOMAIN executing} \cup
    {Later(runtimes[g].start_time, instructions[NextSlot(g)].mark) :
       g \in {h \in GroupIds : IsActive(h) /\ runtimes[h].pending # {}}}

TimeUntil(t) == IF Since(t, now) < HalfRange THEN Since(t, now)
                                             ELSE Since(t, now) - TimestampRange

(* ScheduleNextRun never leaves an active program without a wake-up, and    *)
(* the wake-up comes no later than the first deadline or mark, up to the    *)
(* time the Run itself took.                                                *)
WakeUpIsInTime ==
    pc = "idle" /\ state = "kActive" =>
        /\ alarm # NoAlarm
        /\ \A t \in DueTimes : alarm <= TimeUntil(t) + MaxLate

MissingLed == \E k \in DOMAIN instructions :
    IsTimed(instructions[k]) /\ ~instructions[k].led

SharedTarget == \E j, k \in DOMAIN instructions :
    /\ j # k
    /\ IsRunGroup(instructions[j]) /\ IsRunGroup(instructions[k])
    /\ instructions[j].target = instructions[k].target

(* What Run reports: a busy target only if two calls share it, and an       *)
(* invalid program only if a statically promised boundary can fail to       *)
(* happen, through a missing LED or a rejected call; never the exhaustion   *)
(* of the executing list.                                                   *)
RunFailureHasCause ==
    pc \in {"drain", "complete", "pick", "schedule"} =>
        /\ status \in {"kSuccess", "kAlreadyActiveGroup", "kInvalidProgram"}
        /\ status = "kAlreadyActiveGroup" => SharedTarget
        /\ status = "kInvalidProgram" => MissingLed \/ SharedTarget

(* Every LED write is handed to Strip::Show before Run returns.             *)
WritesAreShown == pc = "idle" => ~unshown

(* A pass never repeats within the timestamp it started at: the guard       *)
(* against an endless Run in CompleteReadyGroups.                           *)
NoRepeatInZeroTime ==
    [][\A g \in GroupIds :
         /\ IsActive(g) /\ runtimes'[g].active
         /\ ~(runtimes'[g].pending \subseteq runtimes[g].pending)
         => g \notin fresh]_vars

(* A rejected RunGroup leaves the invocation that is already active exactly *)
(* as it was, its boundary flag included.                                   *)
RejectedCallDisturbsNothing ==
    [][\A k \in DOMAIN instructions :
         /\ IsRunGroup(instructions[k])
         /\ k \in runtimes[instructions[k].group].pending
         /\ k \notin runtimes'[instructions[k].group].pending
         /\ IsActive(instructions[k].target)
         /\ state' = "kActive"
         => runtimes'[instructions[k].target] = runtimes[instructions[k].target]]_vars

Outstanding(k) ==
    LET g == instructions[k].group
    IN  k \in runtimes[g].pending \/ k \in SlotsExecuting(g)

(* A fade or gradient takes its whole duration in every pass: it leaves the *)
(* executing list only when its group has run for its mark and duration.    *)
TimedWorkTakesItsDuration ==
    [][\A k \in DOMAIN instructions :
         /\ pc \in {"drain", "pick"}
         /\ IsTimed(instructions[k]) /\ instructions[k].led
         /\ Outstanding(k) /\ ~Outstanding(k)'
         => Elapsed(instructions[k].group) >=
              instructions[k].mark + instructions[k].duration]_vars

-----------------------------------------------------------------------------
(* The loop of Run ends: no program makes progress for ever at one          *)
(* timestamp.                                                               *)
RunReturns == pc # "idle" ~> pc = "idle"

IsFinite ==
    /\ runtimes[Root].repeats_remaining # Forever
    /\ \A k \in DOMAIN instructions : instructions[k].repeats # Forever

(* A program without a forever loop completes, if it is not reset first.    *)
FiniteProgramCompletes == state = "kActive" /\ IsFinite ~> state # "kActive"
=============================================================================
