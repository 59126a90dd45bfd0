-------------------------- MODULE ControllerProofs --------------------------
(***************************************************************************)
(* Lemmas about the operators of Controller, the proof that every          *)
(* behaviour of Spec is well typed, the structural invariant of the group  *)
(* runtimes and of the executing list, and what one call of Run leaves     *)
(* behind: no group is too deep to be found, every LED write is shown,     *)
(* nothing is left to do at the sampled timestamp, and no group repeats a  *)
(* pass within the timestamp it began at; then when Run is called again,   *)
(* and how long timed work takes.  All this whatever the labels, the       *)
(* programs, the bounds, the width of the clock and the schedule.          *)
(***************************************************************************)
EXTENDS Controller, GroupProgramProofs

(* Min of a set of naturals that is not empty is in the set.               *)
LEMMA MinInSet ==
    ASSUME NEW S, S \subseteq Nat, S # {}
    PROVE  Min(S) \in S
BY LeastNat DEF Min

(* EarliestOf finds the slot at a cursor: least mark, then least index.    *)
LEMMA EarliestInSet ==
    ASSUME NEW p, NEW S, S \subseteq Nat, S # {}, \A k \in S : p[k].mark \in Nat
    PROVE  EarliestOf(p, S) \in S
<1> DEFINE marks == {p[k].mark : k \in S}
<1>1. PICK m \in marks : \A n \in marks : m <= n
  <2>1. marks \subseteq Nat /\ marks # {}
    OBVIOUS
  <2> HIDE DEF marks
  <2> QED
    BY <2>1, LeastNat
<1> DEFINE T == {k \in S : p[k].mark = m}
<1>2. PICK k \in T : \A j \in T : k <= j
  <2>1. T \subseteq Nat /\ T # {}
    BY <1>1
  <2> HIDE DEF T
  <2> QED
    BY <2>1, LeastNat
<1>3. k \in S /\ \A j \in S \ {k} : Earlier(p, k, j)
  <2>1. k \in S /\ k \in Nat /\ p[k].mark = m /\ m \in Nat
    BY <1>1, <1>2
  <2>2. ASSUME NEW j \in S \ {k} PROVE Earlier(p, k, j)
    <3>1. m <= p[j].mark /\ p[j].mark \in Nat /\ j \in Nat
      BY <1>1, <2>2
    <3>2. CASE p[j].mark = m
      <4>1. k <= j
        BY <1>2, <3>2
      <4> QED
        BY <4>1, <3>1, <3>2, <2>1, <2>2 DEF Earlier
    <3>3. CASE p[j].mark # m
      BY <3>1, <3>3, <2>1 DEF Earlier
    <3> QED
      BY <3>2, <3>3
  <2> QED
    BY <2>1, <2>2
<1> QED
  BY <1>3 DEF EarliestOf

-----------------------------------------------------------------------------
(* Timestamps.                                                             *)

(* A remainder lies below its modulus.                                     *)
LEMMA ModType ==
    ASSUME NEW a \in Int, NEW n \in Nat \ {0}
    PROVE  a % n \in 0 .. n - 1
OBVIOUS

(* Timestamps are numbers and the modulus is positive.                     *)
LEMMA TimeIsInt ==
    /\ TimestampRange \in Nat \ {0}
    /\ \A t \in Time : t \in Nat /\ t \in Int
    /\ 0 \in Time
BY TimeAssumption DEF TimestampRange, Time

(* timestamp + delay wraps around to a timestamp.                          *)
LEMMA LaterType ==
    ASSUME NEW t \in Int, NEW d \in Int
    PROVE  Later(t, d) \in Time
<1>1. t + d \in Int
  OBVIOUS
<1> QED
  BY <1>1, TimeIsInt, ModType DEF Later, Time

(* An unsigned timestamp difference is a timestamp.                        *)
LEMMA SinceType ==
    ASSUME NEW t \in Int, NEW u \in Int
    PROVE  Since(t, u) \in Time
<1>1. t - u \in Int
  OBVIOUS
<1> QED
  BY <1>1, TimeIsInt, ModType DEF Since, Time

-----------------------------------------------------------------------------
(* A cursor only points into its own group's range of the index pool.      *)
PendingInGroup ==
    \A g \in GroupIds : runtimes[g].pending \subseteq Members(instructions, g)

TypeInv == TypeOK /\ PendingInGroup

(* The slots of a group are slots of the stored program.                   *)
LEMMA MembersType ==
    ASSUME TypeOK, NEW g
    PROVE  /\ Members(instructions, g) \subseteq Slots
           /\ Members(instructions, g) \subseteq DOMAIN instructions
BY BoundAssumption DEF TypeOK, Members, Slots

(* A stored instruction is a supported one.                                *)
LEMMA SlotType ==
    ASSUME TypeOK, NEW k \in DOMAIN instructions
    PROVE  k \in Slots /\ instructions[k] \in Instruction
BY BoundAssumption DEF TypeOK, Slots

(* The slot at a cursor that is not at the end exists and is its group's.  *)
LEMMA NextSlotType ==
    ASSUME TypeInv, NEW g \in GroupIds, runtimes[g].pending # {}
    PROVE  /\ NextSlot(g) \in runtimes[g].pending
           /\ NextSlot(g) \in Members(instructions, g)
           /\ NextSlot(g) \in DOMAIN instructions
           /\ NextSlot(g) \in Slots
           /\ instructions[NextSlot(g)] \in Instruction
<1> DEFINE S == runtimes[g].pending
<1>1. S \subseteq Members(instructions, g) /\ S # {}
  BY DEF TypeInv, PendingInGroup
<1>2. S \subseteq DOMAIN instructions /\ S \subseteq Slots /\ S \subseteq Nat
  BY <1>1, MembersType, BoundAssumption DEF TypeInv, Slots
<1>3. \A k \in S : instructions[k] \in Instruction
  BY <1>2, SlotType DEF TypeInv
<1>4. \A k \in S : instructions[k].mark \in Nat
  BY <1>3, BoundAssumption DEF Instruction
<1>5. EarliestOf(instructions, S) \in S
  BY <1>1, <1>2, <1>4, EarliestInSet
<1> QED
  BY <1>1, <1>2, <1>3, <1>5 DEF NextSlot

-----------------------------------------------------------------------------
(* What the helpers on group runtimes return.                              *)

(* The cleared runtime and replay state are well formed.                   *)
LEMMA IdleType == IdleRuntime \in Runtime /\ NotStarted \in Replay
BY TimeIsInt, BoundAssumption DEF IdleRuntime, Runtime, NotStarted, Replay

(* StartGroupRuntime fills in a well-formed runtime.                       *)
LEMMA StartedType ==
    ASSUME TypeOK, NEW g \in GroupIds, NEW t \in Time, NEW repeats \in 0 .. Forever,
           NEW parent \in GroupIds \cup {NoGroup}
    PROVE  StartedRuntime(g, t, repeats, parent) \in Runtime
<1>1. DepthBelow(g, parent) \in Nat
  BY NullAssumption DEF TypeOK, DepthBelow, Runtime
<1>2. Members(instructions, g) \in SUBSET Slots
  BY MembersType
<1> QED
  BY <1>1, <1>2 DEF StartedRuntime, Runtime

(* ResetGroupInstructionReplayState keeps the type of the replay state.    *)
LEMMA ReplayType ==
    ASSUME TypeOK, NEW g
    PROVE  ResetGroupInstructionReplayState(g) \in [Slots -> Replay]
BY IdleType DEF TypeOK, ResetGroupInstructionReplayState

(* ObservePositiveBoundary touches nothing but the boundary flags.         *)
LEMMA ObserveType ==
    ASSUME TypeOK, NEW g
    PROVE  /\ ObservePositiveBoundary(g) \in [GroupIds -> Runtime]
           /\ \A h \in GroupIds :
                /\ ObservePositiveBoundary(g)[h].active = runtimes[h].active
                /\ ObservePositiveBoundary(g)[h].pending = runtimes[h].pending
                /\ ObservePositiveBoundary(g)[h].start_time = runtimes[h].start_time
                /\ ObservePositiveBoundary(g)[h].active_count = runtimes[h].active_count
                /\ ObservePositiveBoundary(g)[h].child_count = runtimes[h].child_count
                /\ ObservePositiveBoundary(g)[h].parent = runtimes[h].parent
                /\ ObservePositiveBoundary(g)[h].depth = runtimes[h].depth
BY ZenonT(40) DEF TypeOK, ObservePositiveBoundary, Runtime

(* Moving a cursor takes one slot from it and may set boundary flags.      *)
LEMMA CursorMovedType ==
    ASSUME TypeOK, NEW g \in GroupIds, NEW k
    PROVE  /\ CursorMoved(g, k) \in [GroupIds -> Runtime]
           /\ CursorMoved(g, k)[g].pending = runtimes[g].pending \ {k}
           /\ \A h \in GroupIds \ {g} : CursorMoved(g, k)[h].pending = runtimes[h].pending
           /\ \A h \in GroupIds :
                /\ CursorMoved(g, k)[h].active = runtimes[h].active
                /\ CursorMoved(g, k)[h].start_time = runtimes[h].start_time
                /\ CursorMoved(g, k)[h].active_count = runtimes[h].active_count
                /\ CursorMoved(g, k)[h].child_count = runtimes[h].child_count
                /\ CursorMoved(g, k)[h].parent = runtimes[h].parent
                /\ CursorMoved(g, k)[h].depth = runtimes[h].depth
<1> DEFINE observed == IF instructions[k].mark > 0 THEN ObservePositiveBoundary(g)
                                                   ELSE runtimes
<1>1. /\ observed \in [GroupIds -> Runtime]
      /\ \A h \in GroupIds :
            /\ observed[h].active = runtimes[h].active
            /\ observed[h].pending = runtimes[h].pending
            /\ observed[h].start_time = runtimes[h].start_time
            /\ observed[h].active_count = runtimes[h].active_count
            /\ observed[h].child_count = runtimes[h].child_count
            /\ observed[h].parent = runtimes[h].parent
            /\ observed[h].depth = runtimes[h].depth
  BY ObserveType DEF TypeOK
<1>2. CursorMoved(g, k) = [observed EXCEPT ![g].pending = @ \ {k}]
  BY DEF CursorMoved
<1> HIDE DEF observed
<1> QED
  BY <1>1, <1>2 DEF Runtime

-----------------------------------------------------------------------------
(* What an execution returns and leaves behind.                            *)

(* The elapsed time of a timed instruction is a natural number.            *)
LEMMA RanType ==
    ASSUME TypeOK, NEW k \in Slots
    PROVE  Ran(k) \in Nat
<1>1. timestamp \in Time /\ replay[k] \in Replay
  BY DEF TypeOK
<1>2. replay[k].start_time \in Time
  BY <1>1 DEF Replay
<1>3. timestamp \in Int /\ replay[k].start_time \in Int
  BY <1>1, <1>2, TimeIsInt
<1> QED
  BY <1>3, SinceType, TimeIsInt DEF Ran

(* Execute returns a natural number of milliseconds.                       *)
LEMMA DelayType ==
    ASSUME TypeOK, NEW k \in DOMAIN instructions
    PROVE  ExecuteDelay(k) \in Nat
<1>1. Ran(k) \in Nat /\ timestamp \in Nat /\ instructions[k].duration \in Nat
  <2>1. k \in Slots /\ instructions[k] \in Instruction /\ timestamp \in Time
    BY SlotType DEF TypeOK
  <2>2. instructions[k].duration \in Nat
    BY <2>1, BoundAssumption DEF Instruction
  <2> QED
    BY <2>1, <2>2, RanType, TimeIsInt
<1>2. refresh_period_ms \in Nat \ {0}
  BY TimeAssumption DEF TypeOK
<1>3. UntilGrid(k) \in Nat
  <2> DEFINE phase == IF instructions[k].op = "fade" THEN timestamp ELSE Ran(k)
  <2>1. phase \in Int
    BY <1>1
  <2>2. phase % refresh_period_ms \in 0 .. refresh_period_ms - 1
    BY <1>2, <2>1, ModType
  <2> QED
    BY <1>2, <2>2 DEF UntilGrid
<1>4. Remaining(k) \in Nat
  BY <1>1 DEF Remaining
<1> QED
  BY <1>3, <1>4 DEF ExecuteDelay

(* Execute keeps the types of what it writes.                              *)
LEMMA ExecuteType ==
    ASSUME TypeOK, NEW k \in DOMAIN instructions, Execute(k)
    PROVE  /\ replay' \in [Slots -> Replay]
           /\ show_requested' \in BOOLEAN
           /\ unshown' \in BOOLEAN
<1>1. replay' \in [Slots -> Replay]
  BY DEF TypeOK, Execute, ExecuteReplay, Replay
<1>2. show_requested' \in BOOLEAN /\ unshown' \in BOOLEAN
  BY Zenon DEF Execute
<1> QED
  BY <1>1, <1>2

(* LatchRunStatus yields a ControllerStatus.                               *)
LEMMA LatchType ==
    ASSUME TypeOK, NEW s \in Statuses
    PROVE  LatchRunStatus(s) \in Statuses
BY DEF TypeOK, LatchRunStatus

(* The preflight yields a ControllerStatus.                                *)
LEMMA PreflightType ==
    ASSUME NEW p, NEW r
    PROVE  BuildAndValidateGroups(p, r) \in Statuses
BY DEF BuildAndValidateGroups, Statuses

(* Removing by swapping with the last entry shortens the list by one.      *)
LEMMA SwapRemoveType ==
    ASSUME NEW E, NEW s \in Seq(E), NEW k \in DOMAIN s
    PROVE  /\ SwapRemove(s, k) \in Seq(E)
           /\ Len(SwapRemove(s, k)) = Len(s) - 1
<1>1. Len(s) \in Nat \ {0}
  OBVIOUS
<1>2. SwapRemove(s, k) \in [1 .. Len(s) - 1 -> E]
  BY <1>1 DEF SwapRemove
<1> QED
  BY <1>1, <1>2

-----------------------------------------------------------------------------
(* Every step keeps the types, one lemma per group of actions.             *)

(* A constructed controller is well typed.                                 *)
LEMMA TypeInit == Init => TypeInv
<1> SUFFICES ASSUME Init PROVE TypeInv
  OBVIOUS
<1>1. TypeOK
  <2>1. /\ instructions \in Seq(Instruction)
        /\ Len(instructions) <= MaxInstructions
        /\ executing \in Seq(Executing)
    BY BoundAssumption DEF Init
  <2>2. replay \in [Slots -> Replay] /\ runtimes \in [GroupIds -> Runtime]
    BY IdleType DEF Init
  <2>3. /\ refresh_period_ms \in 1 .. HalfRange - 1
        /\ timestamp \in Time /\ now \in Time /\ position \in Nat \ {0}
    BY TimeIsInt, CallAssumption DEF Init
  <2>4. status \in Statuses
    BY DEF Init, Statuses
  <2> QED
    BY <2>1, <2>2, <2>3, <2>4 DEF Init, TypeOK
<1>2. PendingInGroup
  BY DEF Init, PendingInGroup, IdleRuntime
<1> QED
  BY <1>1, <1>2 DEF TypeInv

(* The public calls other than Run keep the types.                         *)
LEMMA TypeCall ==
    ASSUME TypeInv, Call
    PROVE  TypeInv'
<1>1. ASSUME NEW instr \in Offers \cup {NoInstruction}, AddInstruction(instr)
      PROVE  TypeInv'
  <2>1. status' \in Statuses
    BY <1>1 DEF AddInstruction, Statuses
  <2>2. /\ instructions' \in Seq(Instruction)
        /\ Len(instructions') <= MaxInstructions
        /\ \A g \in GroupIds : Members(instructions, g) \subseteq Members(instructions', g)
    <3>1. CASE status' = "kSuccess"
      <4>1. /\ state = "kEditable" /\ Len(instructions) < MaxInstructions
            /\ instr # NoInstruction /\ instr.op \in SupportedOps
            /\ instructions' = Append(instructions, instr)
        BY <1>1, <3>1, BoundAssumption DEF AddInstruction, TypeInv, TypeOK
      <4>2. instr \in Instructions
        BY <4>1, <1>1 DEF Offers
      <4>3. instr \in Instruction
        BY <4>1, <4>2, CallAssumption
      <4> QED
        BY <4>1, <4>3, BoundAssumption DEF TypeInv, TypeOK, Members
    <3>2. CASE status' # "kSuccess"
      BY <1>1, <3>2 DEF AddInstruction, TypeInv, TypeOK
    <3> QED
      BY <3>1, <3>2
  <2>3. PendingInGroup'
    BY <1>1, <2>2 DEF AddInstruction, TypeInv, PendingInGroup
  <2> QED
    BY <1>1, <2>1, <2>2, <2>3
    DEF AddInstruction, TypeInv, TypeOK, runVars, worldVars
<1>2. ASSUME NEW period \in RefreshPeriods, SetRefreshPeriodMs(period)
      PROVE  TypeInv'
  <2>1. status' \in Statuses /\ refresh_period_ms' \in 1 .. HalfRange - 1
    BY <1>2, CallAssumption, TimeAssumption
    DEF SetRefreshPeriodMs, Statuses, TypeInv, TypeOK
  <2> QED
    BY <1>2, <2>1
    DEF SetRefreshPeriodMs, TypeInv, TypeOK, PendingInGroup, Members, runVars, worldVars
<1>3. ASSUME NEW repeats \in RootRepeats, Start(repeats)
      PROVE  TypeInv'
  <2>1. status' \in Statuses
    BY <1>3, PreflightType DEF Start, Statuses
  <2>2. /\ runtimes' \in [GroupIds -> Runtime]
        /\ PendingInGroup'
    <3>1. repeats \in 0 .. Forever /\ now \in Time
      BY CallAssumption DEF TypeInv, TypeOK
    <3>2. StartedRuntime(Root, now, repeats, NoGroup) \in Runtime
      BY <3>1, StartedType, GroupAssumption DEF TypeInv
    <3>3. /\ StartedRuntime(Root, now, repeats, NoGroup).pending
                = Members(instructions, Root)
          /\ IdleRuntime.pending = {}
      BY DEF StartedRuntime, IdleRuntime
    <3>4. instructions' = instructions
      BY <1>3 DEF Start
    <3>5. \/ runtimes' = runtimes
          \/ runtimes' = [g \in GroupIds |-> IdleRuntime]
          \/ runtimes' = [g \in GroupIds |->
                            IF g = Root
                              THEN StartedRuntime(Root, now, repeats, NoGroup)
                              ELSE IdleRuntime]
      BY <1>3 DEF Start
    <3> QED
      BY <3>2, <3>3, <3>4, <3>5, IdleType DEF TypeInv, TypeOK, PendingInGroup
  <2>3. /\ replay' \in [Slots -> Replay]
        /\ executing' \in Seq(Executing)
        /\ show_requested' \in BOOLEAN
        /\ timestamp' \in Time
        /\ fresh' \subseteq GroupIds
        /\ pc' \in {"idle", "tick"}
        /\ state' \in {"kEditable", "kActive", "kCompleted"}
    <3>1. replay' = replay \/ replay' = ResetGroupInstructionReplayState(Root)
      BY <1>3 DEF Start
    <3>2. replay' \in [Slots -> Replay]
      BY <3>1, ReplayType DEF TypeInv, TypeOK
    <3>3. executing' = executing \/ executing' = <<>>
      BY <1>3 DEF Start
    <3>4. executing' \in Seq(Executing)
      <4>1. CASE executing' = executing
        BY <4>1 DEF TypeInv, TypeOK
      <4>2. CASE executing' = <<>>
        BY <4>2
      <4> QED
        BY <3>3, <4>1, <4>2
    <3>5. show_requested' \in BOOLEAN
      BY <1>3 DEF Start, TypeInv, TypeOK
    <3> QED
      BY <1>3, <3>2, <3>4, <3>5, GroupAssumption DEF Start, TypeInv, TypeOK
  <2> QED
    BY <1>3, <2>1, <2>2, <2>3 DEF Start, TypeInv, TypeOK
<1>4. ASSUME ResetInstructions PROVE TypeInv'
  <2>1. /\ instructions' \in Seq(Instruction)
        /\ Len(instructions') <= MaxInstructions
        /\ executing' \in Seq(Executing)
    BY <1>4, BoundAssumption DEF ResetInstructions
  <2>2. replay' \in [Slots -> Replay] /\ runtimes' \in [GroupIds -> Runtime]
    BY <1>4, IdleType DEF ResetInstructions
  <2>3. PendingInGroup'
    BY <1>4 DEF ResetInstructions, PendingInGroup, IdleRuntime
  <2> QED
    BY <1>4, <2>1, <2>2, <2>3
    DEF ResetInstructions, TypeInv, TypeOK, runVars, worldVars
<1> QED
  BY <1>1, <1>2, <1>3, <1>4 DEF Call

(* Entering Run and the passage of time keep the types.                    *)
LEMMA TypeRunCall ==
    ASSUME TypeInv, RunCall \/ Tick
    PROVE  TypeInv'
<1>1. CASE RunWhenNotActive
  BY <1>1 DEF RunWhenNotActive, AlarmConsumed, TypeInv, TypeOK, PendingInGroup, Statuses
<1>2. CASE RunBegin
  <2>1. alarm' \in Int \cup {NoAlarm}
    BY <1>2 DEF RunBegin, AlarmConsumed, TypeInv, TypeOK
  <2>2. fresh' \subseteq GroupIds /\ timestamp' \in Time /\ position' \in Nat \ {0}
    BY <1>2 DEF RunBegin, TypeInv, TypeOK
  <2>3. status' \in Statuses
    BY <1>2 DEF RunBegin, Statuses
  <2>4. PendingInGroup'
    BY <1>2 DEF RunBegin, TypeInv, PendingInGroup
  <2> QED
    BY <1>2, <2>1, <2>2, <2>3, <2>4 DEF RunBegin, TypeInv, TypeOK
<1>3. CASE Tick
  <2>1. now' \in Time
    BY <1>3, LaterType, TimeIsInt DEF Tick, TypeInv, TypeOK
  <2>2. alarm' \in Int \cup {NoAlarm}
    BY <1>3 DEF Tick, TypeInv, TypeOK
  <2> QED
    BY <1>3, <2>1, <2>2
    DEF Tick, TypeInv, TypeOK, PendingInGroup, programVars, runVars
<1> QED
  BY <1>1, <1>2, <1>3 DEF RunCall

(* DrainExecuting keeps the types.                                         *)
LEMMA TypeDrain ==
    ASSUME TypeInv, DrainResumes \/ DrainRemoves \/ DrainDone
    PROVE  TypeInv'
<1> USE DEF TypeInv
<1>1. ASSUME NEW k \in DOMAIN executing, ~IsOrphan(executing[k])
      PROVE  /\ executing[k] \in Executing
             /\ executing[k].runtime \in GroupIds
             /\ executing[k].slot \in DOMAIN instructions
  <2>1. executing[k] \in Executing
    BY DEF TypeOK
  <2>2. executing[k].slot \in Slots /\ executing[k].runtime \in GroupIds
    BY <2>1 DEF Executing
  <2>3. executing[k].slot <= Len(instructions)
    BY <1>1, <2>2, BoundAssumption DEF IsOrphan, Slots, TypeOK
  <2> QED
    BY <2>1, <2>2, <2>3, BoundAssumption DEF Slots, TypeOK
<1>2. CASE DrainResumes
  <2>1. PICK k \in DOMAIN executing :
          /\ ~IsOrphan(executing[k])
          /\ Execute(executing[k].slot)
          /\ runtimes' = ObservePositiveBoundary(executing[k].runtime)
          /\ executing' = [executing EXCEPT ![k].deadline =
                             Later(timestamp, ExecuteDelay(executing[k].slot))]
          /\ position' = k + 1
    BY <1>2 DEF DrainResumes
  <2>2. Later(timestamp, ExecuteDelay(executing[k].slot)) \in Time
    <3>1. ExecuteDelay(executing[k].slot) \in Int
      BY <2>1, <1>1, DelayType
    <3>2. timestamp \in Int
      BY TimeIsInt DEF TypeOK
    <3> QED
      BY <3>1, <3>2, LaterType
  <2>3. executing' \in Seq(Executing)
    <3>1. [executing[k] EXCEPT !.deadline =
             Later(timestamp, ExecuteDelay(executing[k].slot))] \in Executing
      BY <2>1, <2>2, <1>1 DEF Executing
    <3> QED
      BY <2>1, <3>1 DEF TypeOK
  <2>4. replay' \in [Slots -> Replay] /\ show_requested' \in BOOLEAN /\ unshown' \in BOOLEAN
    BY <2>1, <1>1, ExecuteType
  <2>5. position' \in Nat \ {0}
    BY <2>1 DEF TypeOK
  <2>6. runtimes' \in [GroupIds -> Runtime] /\ PendingInGroup'
    BY <1>2, <2>1, ObserveType DEF DrainResumes, PendingInGroup
  <2> QED
    BY <1>2, <2>3, <2>4, <2>5, <2>6 DEF DrainResumes, TypeOK
<1>3. CASE DrainRemoves
  <2>1. PICK k \in DOMAIN executing :
          /\ executing' = SwapRemove(executing, k)
          /\ position' = k
          /\ LET e == executing[k]
                 observed == ObservePositiveBoundary(e.runtime)
             IN  IF IsOrphan(e)
                   THEN /\ status' = LatchRunStatus("kInvalidProgram")
                        /\ UNCHANGED <<replay, runtimes, show_requested, unshown>>
                   ELSE /\ Execute(e.slot)
                        /\ status' = IF runtimes[e.runtime].active_count # 0
                                       THEN status
                                       ELSE LatchRunStatus("kInvalidProgram")
                        /\ runtimes' = IF runtimes[e.runtime].active_count = 0
                                         THEN observed
                                         ELSE [observed EXCEPT
                                                 ![e.runtime].active_count = @ - 1]
    BY <1>3 DEF DrainRemoves
  <2>2. executing' \in Seq(Executing)
    BY <2>1, SwapRemoveType DEF TypeOK
  <2>3. position' \in Nat \ {0}
    BY <2>1 DEF TypeOK
  <2>4. status' \in Statuses
    BY <2>1, LatchType DEF TypeOK, Statuses
  <2>5. /\ replay' \in [Slots -> Replay]
        /\ show_requested' \in BOOLEAN /\ unshown' \in BOOLEAN
    BY <2>1, <1>1, ExecuteType DEF TypeOK
  <2>6. runtimes' \in [GroupIds -> Runtime] /\ PendingInGroup'
    <3>1. instructions' = instructions
      BY <1>3 DEF DrainRemoves
    <3>2. CASE IsOrphan(executing[k])
      BY <2>1, <3>1, <3>2 DEF TypeOK, PendingInGroup
    <3>3. CASE ~IsOrphan(executing[k])
      <4> DEFINE r == executing[k].runtime
                 observed == ObservePositiveBoundary(r)
      <4>1. r \in GroupIds
        BY <3>3, <1>1
      <4>2. /\ observed \in [GroupIds -> Runtime]
            /\ \A h \in GroupIds : /\ observed[h].pending = runtimes[h].pending
                                   /\ observed[h].active_count = runtimes[h].active_count
        BY ObserveType
      <4>3. runtimes' = IF runtimes[r].active_count = 0 THEN observed
                        ELSE [observed EXCEPT ![r].active_count = @ - 1]
        BY <2>1, <3>3
      <4>4. runtimes[r].active_count \in Nat
        BY <4>1 DEF TypeOK, Runtime
      <4> HIDE DEF r, observed
      <4> QED
        BY <4>1, <4>2, <4>3, <4>4, <3>1 DEF PendingInGroup, Runtime
    <3> QED
      BY <3>2, <3>3
  <2> QED
    BY <1>3, <2>2, <2>3, <2>4, <2>5, <2>6 DEF DrainRemoves, TypeOK
<1>4. CASE DrainDone
  <2>1. Labels(instructions) \subseteq GroupIds
    <3>1. \A k \in DOMAIN instructions : instructions[k].group \in GroupIds
      BY SlotType DEF Instruction
    <3> QED
      BY <3>1, GroupAssumption DEF Labels
  <2> QED
    BY <1>4, <2>1 DEF DrainDone, TypeOK, PendingInGroup, programVars, worldVars
<1> QED
  BY <1>2, <1>3, <1>4

(* CompleteReadyGroups keeps the types.                                    *)
LEMMA TypeComplete ==
    ASSUME TypeInv,
           \/ \E g \in scan : RestartGroup(g) \/ EndGroup(g)
           \/ CompleteDone
    PROVE  TypeInv'
<1> USE DEF TypeInv
<1>1. ASSUME NEW g \in scan, RestartGroup(g) PROVE TypeInv'
  <2> DEFINE repeats == runtimes[g].repeats_remaining
             next == IF repeats = Forever THEN Forever ELSE repeats - 1
             parent == runtimes[g].parent
  <2>1. g \in GroupIds /\ runtimes[g] \in Runtime
    BY DEF TypeOK
  <2>2. repeats \in 0 .. Forever /\ parent \in GroupIds \cup {NoGroup}
    BY <2>1 DEF Runtime
  <2>3. repeats # 0
    BY <1>1 DEF RestartGroup, MayRepeat
  <2>4. next \in 0 .. Forever
    BY <2>2, <2>3, BoundAssumption
  <2>5. timestamp \in Time
    BY DEF TypeOK
  <2>6. StartedRuntime(g, timestamp, next, parent) \in Runtime
    BY <2>1, <2>2, <2>4, <2>5, StartedType
  <2>7. \/ /\ runtimes' = [runtimes EXCEPT ![g] = StartedRuntime(g, timestamp, next, parent)]
           /\ replay' = ResetGroupInstructionReplayState(g)
           /\ status' = status
        \/ /\ runtimes' = [runtimes EXCEPT ![g] = IdleRuntime]
           /\ status' = LatchRunStatus("kInvalidProgram")
           /\ replay' = replay
    BY <1>1 DEF RestartGroup
  <2>8. runtimes' \in [GroupIds -> Runtime]
    BY <2>1, <2>6, <2>7, IdleType DEF TypeOK
  <2>9. PendingInGroup'
    <3>1. /\ StartedRuntime(g, timestamp, next, parent).pending = Members(instructions, g)
          /\ IdleRuntime.pending = {}
      BY DEF StartedRuntime, IdleRuntime
    <3>2. instructions' = instructions
      BY <1>1 DEF RestartGroup
    <3>3. \A h \in GroupIds : \/ runtimes'[h] = runtimes[h]
                              \/ h = g /\ runtimes'[h].pending = Members(instructions, g)
                              \/ runtimes'[h].pending = {}
      BY <2>1, <2>7, <3>1 DEF TypeOK
    <3> QED
      BY <3>2, <3>3 DEF PendingInGroup
  <2>10. replay' \in [Slots -> Replay] /\ status' \in Statuses
    BY <2>7, ReplayType, LatchType DEF TypeOK, Statuses
  <2>11. scan' \subseteq GroupIds /\ progressed' \in BOOLEAN /\ fresh' \subseteq GroupIds
    BY <1>1, <2>1 DEF RestartGroup, CompletesNext, TypeOK
  <2> QED
    BY <1>1, <2>8, <2>9, <2>10, <2>11 DEF RestartGroup, TypeOK
<1>2. ASSUME NEW g \in scan, EndGroup(g) PROVE TypeInv'
  <2> DEFINE parent == runtimes[g].parent
             ended == [runtimes EXCEPT ![g] = IdleRuntime]
             counted == /\ parent # NoGroup
                        /\ ended[parent].active
                        /\ ended[parent].child_count # 0
  <2>1. g \in GroupIds /\ runtimes[g] \in Runtime
    BY DEF TypeOK
  <2>2. parent \in GroupIds \cup {NoGroup}
    BY <2>1 DEF Runtime
  <2>3. ended \in [GroupIds -> Runtime]
    BY <2>1, IdleType DEF TypeOK
  <2>4. \A h \in GroupIds : ended[h].pending = {} \/ ended[h] = runtimes[h]
    BY <2>1 DEF TypeOK, IdleRuntime
  <2>5. runtimes' = IF g # Root /\ counted
                      THEN [ended EXCEPT ![parent].child_count = @ - 1]
                      ELSE ended
    BY <1>2 DEF EndGroup
  <2>6. runtimes' \in [GroupIds -> Runtime] /\ PendingInGroup'
    <3>1. instructions' = instructions
      BY <1>2 DEF EndGroup
    <3> HIDE DEF ended, parent
    <3> QED
      BY <2>2, <2>3, <2>4, <2>5, <3>1 DEF PendingInGroup, Runtime
  <2>7. /\ status' \in Statuses
        /\ state' \in {"kEditable", "kActive", "kCompleted"}
    <3>1. status' = status \/ status' = LatchRunStatus("kInvalidProgram")
      BY <1>2 DEF EndGroup
    <3>2. state' = state \/ state' = "kCompleted"
      BY <1>2 DEF EndGroup
    <3> QED
      BY <3>1, <3>2, LatchType DEF TypeOK, Statuses
  <2>8. scan' \subseteq GroupIds /\ progressed' \in BOOLEAN
    BY <1>2 DEF EndGroup, CompletesNext, TypeOK
  <2> QED
    BY <1>2, <2>6, <2>7, <2>8 DEF EndGroup, TypeOK, worldVars
<1>3. CASE CompleteDone
  BY <1>3 DEF CompleteDone, TypeOK, PendingInGroup, programVars, worldVars
<1> QED
  BY <1>1, <1>2, <1>3

(* DispatchDueInstruction keeps the types.                                 *)
LEMMA TypePick ==
    ASSUME TypeInv, NEW g \in GroupIds,
           PickStartsChild(g) \/ PickRejectsCall(g) \/ PickExecutes(g)
    PROVE  TypeInv'
<1> USE DEF TypeInv
<1> DEFINE k == NextSlot(g)
           child == instructions[k].target
           delay == ExecuteDelay(k)
<1>1. /\ runtimes[g].pending # {}
      /\ instructions' = instructions
  BY DEF PickStartsChild, PickRejectsCall, PickExecutes, PicksNext, IsDue
<1>2. /\ k \in DOMAIN instructions /\ k \in Slots
      /\ instructions[k] \in Instruction
  BY <1>1, NextSlotType
<1>3. child \in GroupIds /\ instructions[k].repeats \in 0 .. Forever
  BY <1>2 DEF Instruction
<1>4. timestamp \in Time
  BY DEF TypeOK
<1>5. /\ CursorMoved(g, k) \in [GroupIds -> Runtime]
      /\ \A h \in GroupIds : CursorMoved(g, k)[h].pending \subseteq Members(instructions, h)
  <2>1. \A h \in GroupIds : CursorMoved(g, k)[h].pending \subseteq runtimes[h].pending
    BY CursorMovedType
  <2> QED
    BY <2>1, CursorMovedType DEF PendingInGroup
<1> HIDE DEF k
<1>6. CASE PickStartsChild(g)
  <2> DEFINE started == StartedRuntime(child, timestamp, instructions[k].repeats, g)
  <2>1. started \in Runtime
    BY <1>3, <1>4, StartedType
  <2>2. started.pending = Members(instructions, child)
    BY DEF StartedRuntime
  <2>3. runtimes' = [CursorMoved(g, k) EXCEPT ![child] = started, ![g].child_count = @ + 1]
    BY <1>6 DEF PickStartsChild, k
  <2>4. runtimes' \in [GroupIds -> Runtime] /\ PendingInGroup'
    <3> HIDE DEF started, child
    <3> QED
      BY <1>1, <1>3, <1>5, <2>1, <2>2, <2>3 DEF PendingInGroup, Runtime
  <2>5. replay' \in [Slots -> Replay]
    BY <1>6, ReplayType DEF PickStartsChild
  <2>6. fresh' \subseteq GroupIds
    BY <1>6, <1>3 DEF PickStartsChild, TypeOK, k
  <2>7. /\ pc' = "drain" /\ position' = 1 /\ progressed' = FALSE
        /\ UNCHANGED <<state, instructions, executing, show_requested,
                       refresh_period_ms, status, timestamp, scan, now, alarm,
                       unshown>>
    BY <1>6 DEF PickStartsChild
  <2>8. position' \in Nat \ {0}
    BY <2>7
  <2>9. progressed' \in BOOLEAN
    BY <2>7, Zenon
  <2> QED
    BY <2>4, <2>5, <2>6, <2>7, <2>8, <2>9 DEF TypeOK
<1>7. CASE PickRejectsCall(g)
  <2>1. runtimes' = CursorMoved(g, k)
    BY <1>7 DEF PickRejectsCall, k
  <2>2. runtimes' \in [GroupIds -> Runtime] /\ PendingInGroup'
    BY <2>1, <1>1, <1>5 DEF PendingInGroup
  <2>3. status' \in Statuses
    BY <1>7, LatchType DEF PickRejectsCall, Statuses
  <2> QED
    BY <1>7, <2>2, <2>3 DEF PickRejectsCall, TypeOK, worldVars
<1>8. CASE PickExecutes(g)
  <2> DEFINE entry == [slot |-> k, runtime |-> g, deadline |-> Later(timestamp, delay)]
  <2>1. delay \in Nat
    BY <1>2, DelayType
  <2>2. entry \in Executing
    <3>1. Later(timestamp, delay) \in Time
      BY <1>4, <2>1, TimeIsInt, LaterType
    <3> QED
      BY <1>2, <3>1 DEF Executing
  <2>3. \/ runtimes' = CursorMoved(g, k)
        \/ runtimes' = [CursorMoved(g, k) EXCEPT ![g].active_count = @ + 1]
    BY <1>8 DEF PickExecutes, k
  <2>4. runtimes' \in [GroupIds -> Runtime] /\ PendingInGroup'
    BY <1>1, <1>5, <2>3 DEF PendingInGroup, Runtime
  <2>5. executing' = executing \/ executing' = Append(executing, entry)
    BY <1>8 DEF PickExecutes, k
  <2>6. executing' \in Seq(Executing)
    <3> HIDE DEF entry
    <3>1. executing \in Seq(Executing)
      BY DEF TypeOK
    <3> QED
      BY <2>2, <2>5, <3>1
  <2>7. status' = status \/ status' = LatchRunStatus("kCapacityExhausted")
    BY <1>8 DEF PickExecutes
  <2>8. status' \in Statuses
    BY <2>7, LatchType DEF TypeOK, Statuses
  <2>9. Execute(k)
    BY <1>8 DEF PickExecutes, k
  <2>10. replay' \in [Slots -> Replay] /\ show_requested' \in BOOLEAN /\ unshown' \in BOOLEAN
    BY <1>2, <2>9, ExecuteType
  <2> QED
    BY <1>8, <2>4, <2>6, <2>8, <2>10 DEF PickExecutes, TypeOK
<1> QED
  BY <1>6, <1>7, <1>8

(* The delay asked of the timer is a positive number.                      *)
LEMMA WakeUpsType ==
    ASSUME TypeInv
    PROVE  WakeUps \subseteq Nat
<1> USE DEF TypeInv
<1>1. ASSUME NEW j \in DOMAIN executing
      PROVE  Since(executing[j].deadline, timestamp) \in Nat
  <2>1. executing[j] \in Executing /\ timestamp \in Time
    BY DEF TypeOK
  <2>2. executing[j].deadline \in Time
    BY <2>1 DEF Executing
  <2> QED
    BY <2>1, <2>2, TimeIsInt, SinceType
<1>2. ASSUME NEW g \in GroupIds, runtimes[g].pending # {},
             instructions[NextSlot(g)].mark > Elapsed(g)
      PROVE  instructions[NextSlot(g)].mark - Elapsed(g) \in Nat
  <2>1. runtimes[g] \in Runtime /\ timestamp \in Time
    BY DEF TypeOK
  <2>2. runtimes[g].start_time \in Time
    BY <2>1 DEF Runtime
  <2>3. Elapsed(g) \in Nat
    BY <2>1, <2>2, TimeIsInt, SinceType DEF Elapsed
  <2>4. instructions[NextSlot(g)] \in Instruction
    BY <1>2, NextSlotType
  <2>5. instructions[NextSlot(g)].mark \in Nat
    BY <2>4, BoundAssumption DEF Instruction
  <2> QED
    BY <1>2, <2>3, <2>5
<1>3. DeadlineWakeUps \subseteq Nat
  BY <1>1 DEF DeadlineWakeUps
<1>4. MarkWakeUps \subseteq Nat
  BY <1>2 DEF MarkWakeUps
<1> QED
  BY <1>3, <1>4 DEF WakeUps

(* The end of a round and of Run keep the types.                           *)
LEMMA TypeEndOfRound ==
    ASSUME TypeInv, PickDone \/ ScheduleNextRun
    PROVE  TypeInv'
<1> USE DEF TypeInv
<1>1. CASE PickDone
  <2>1. position' \in Nat \ {0}
    BY <1>1 DEF PickDone
  <2>2. pc' \in {"drain", "schedule"}
    BY <1>1 DEF PickDone, NextLoop
  <2>3. progressed' \in BOOLEAN
    BY <1>1, Zenon DEF PickDone
  <2> QED
    BY <1>1, <2>1, <2>2, <2>3 DEF PickDone, TypeOK, PendingInGroup, programVars, worldVars
<1>2. CASE ScheduleNextRun
  <2>1. alarm' \in Int \cup {NoAlarm}
    <3>1. CASE WakeUps = {}
      BY <1>2, <3>1 DEF ScheduleNextRun, TypeOK
    <3>2. CASE WakeUps # {}
      <4>1. Min(WakeUps) \in Nat
        BY <3>2, WakeUpsType, MinInSet
      <4> QED
        BY <1>2, <3>2, <4>1 DEF ScheduleNextRun
    <3> QED
      BY <3>1, <3>2
  <2>2. unshown' \in BOOLEAN
    BY <1>2, Zenon DEF ScheduleNextRun
  <2> QED
    BY <1>2, <2>1, <2>2 DEF ScheduleNextRun, TypeOK, PendingInGroup, programVars
<1> QED
  BY <1>1, <1>2

(* Every step keeps the types.                                             *)
LEMMA TypeNext ==
    ASSUME TypeInv, [Next]_vars
    PROVE  TypeInv'
<1>1. CASE Call
  BY <1>1, TypeCall
<1>2. CASE RunCall \/ Tick
  BY <1>2, TypeRunCall
<1>3. CASE RunStep
  <2>1. CASE DrainResumes \/ DrainRemoves \/ DrainDone
    BY <2>1, TypeDrain
  <2>2. CASE (\E g \in scan : RestartGroup(g) \/ EndGroup(g)) \/ CompleteDone
    BY <2>2, TypeComplete
  <2>3. CASE \E g \in GroupIds : PickStartsChild(g) \/ PickRejectsCall(g) \/ PickExecutes(g)
    BY <2>3, TypePick
  <2>4. CASE PickDone \/ ScheduleNextRun
    BY <2>4, TypeEndOfRound
  <2> QED
    BY <1>3, <2>1, <2>2, <2>3, <2>4, Zenon DEF RunStep
<1>4. CASE UNCHANGED vars
  BY <1>4 DEF vars, programVars, runVars, worldVars, TypeInv, TypeOK, PendingInGroup
<1> QED
  BY <1>1, <1>2, <1>3, <1>4 DEF Next

(* Every variable of the controller keeps its type in every behaviour, and *)
(* no cursor leaves the range of its own group.                            *)
THEOREM TypeCorrect == Spec => []TypeOK
<1>1. Init => TypeInv
  BY TypeInit
<1>2. TypeInv /\ [Next]_vars => TypeInv'
  BY TypeNext
<1>3. TypeInv => TypeOK
  BY DEF TypeInv
<1> QED
  BY <1>1, <1>2, <1>3, PTL DEF Spec

-----------------------------------------------------------------------------
(* The tree of invocations and the executing list.                         *)

(* The tree part of two runtime tables is the same.                        *)
SameTree ==
    \A h \in GroupIds :
        /\ runtimes'[h].active = runtimes[h].active
        /\ runtimes'[h].child_count = runtimes[h].child_count
        /\ runtimes'[h].parent = runtimes[h].parent
        /\ runtimes'[h].depth = runtimes[h].depth

(* A step that keeps the tree part of every runtime keeps the tree sound.  *)
LEMMA SameTreeIsSound ==
    ASSUME CallTreeIsSound, SameTree
    PROVE  CallTreeIsSound'
<1>1. \A g \in GroupIds : Children(g)' = Children(g)
  BY DEF SameTree, Children, IsActive
<1>2. ASSUME NEW g \in GroupIds
      PROVE  (runtimes[g].child_count = Cardinality(Children(g)))'
  BY <1>1 DEF CallTreeIsSound, SameTree
<1>3. ASSUME NEW g \in GroupIds, IsActive(g)'
      PROVE  IF g = Root
               THEN (runtimes[g].parent = NoGroup /\ runtimes[g].depth = 0)'
               ELSE /\ runtimes'[g].parent \in GroupIds
                    /\ runtimes'[runtimes'[g].parent].active
                    /\ runtimes'[g].depth = runtimes'[runtimes'[g].parent].depth + 1
  BY <1>3 DEF CallTreeIsSound, SameTree, IsActive
<1> QED
  BY <1>2, <1>3 DEF CallTreeIsSound, IsActive

(* A group has finitely many children.                                     *)
LEMMA ChildrenFinite ==
    ASSUME NEW g
    PROVE  IsFiniteSet(Children(g))
<1>1. Children(g) \subseteq GroupIds
  BY DEF Children
<1> QED
  BY <1>1, GroupAssumption, FS_Subset

(* A parent is another group, and a group that is not active has no        *)
(* children and is nobody's parent.                                        *)
LEMMA TreeFacts ==
    ASSUME TypeOK, CallTreeIsSound
    PROVE  /\ \A g \in GroupIds : IsActive(g) => runtimes[g].parent # g
           /\ \A g, h \in GroupIds : IsActive(h) /\ runtimes[h].parent = g => IsActive(g)
           /\ \A g \in GroupIds : ~IsActive(g) => Children(g) = {}
           /\ \A g \in GroupIds : runtimes[g].child_count = 0 => Children(g) = {}
<1>1. ASSUME NEW g \in GroupIds, IsActive(g) PROVE runtimes[g].parent # g
  <2>1. runtimes[g].depth \in Nat
    BY DEF TypeOK, Runtime
  <2> QED
    BY <1>1, <2>1, NullAssumption DEF CallTreeIsSound
<1>2. ASSUME NEW g \in GroupIds, NEW h \in GroupIds, IsActive(h), runtimes[h].parent = g
      PROVE  IsActive(g)
  BY <1>2, NullAssumption DEF CallTreeIsSound
<1>3. ASSUME NEW g \in GroupIds, ~IsActive(g) PROVE Children(g) = {}
  BY <1>2, <1>3 DEF Children
<1>4. ASSUME NEW g \in GroupIds, runtimes[g].child_count = 0 PROVE Children(g) = {}
  BY <1>4, ChildrenFinite, FS_EmptySet DEF CallTreeIsSound
<1> QED
  BY <1>1, <1>2, <1>3, <1>4

(* When the root has no child left, no other group is active: the active   *)
(* group of least depth among the others would be a child of the root.     *)
LEMMA LoneRoot ==
    ASSUME TypeOK, CallTreeIsSound, runtimes[Root].child_count = 0
    PROVE  \A g \in GroupIds : IsActive(g) => g = Root
<1> DEFINE others == {g \in GroupIds : IsActive(g) /\ g # Root}
           depths == {runtimes[g].depth : g \in others}
<1>1. SUFFICES ASSUME others # {} PROVE FALSE
  OBVIOUS
<1>2. depths \subseteq Nat /\ depths # {}
  BY <1>1 DEF TypeOK, Runtime
<1>3. PICK d \in depths : \A n \in depths : d <= n
  <2> HIDE DEF depths
  <2> QED
    BY <1>2, LeastNat
<1>4. PICK g \in others : runtimes[g].depth = d
  BY <1>3
<1>5. /\ runtimes[g].parent \in GroupIds
      /\ IsActive(runtimes[g].parent)
      /\ runtimes[g].depth = runtimes[runtimes[g].parent].depth + 1
  BY <1>4 DEF CallTreeIsSound
<1>6. CASE runtimes[g].parent = Root
  BY <1>4, <1>6, TreeFacts, GroupAssumption DEF Children
<1>7. CASE runtimes[g].parent # Root
  <2>1. runtimes[runtimes[g].parent].depth \in depths
    BY <1>5, <1>7
  <2>2. runtimes[runtimes[g].parent].depth \in Nat
    BY <2>1, <1>2
  <2>3. d <= runtimes[runtimes[g].parent].depth
    BY <1>3, <2>1
  <2> HIDE DEF depths, others
  <2> QED
    BY <1>4, <1>5, <2>2, <2>3
<1> QED
  BY <1>6, <1>7

-----------------------------------------------------------------------------
(* No group is active in a constructed controller.                         *)
LEMMA TreeInit == Init => CallTreeIsSound
<1> SUFFICES ASSUME Init PROVE CallTreeIsSound
  OBVIOUS
<1>1. \A g \in GroupIds : ~IsActive(g) /\ runtimes[g].child_count = 0
  BY DEF Init, IdleRuntime, IsActive
<1>2. \A g \in GroupIds : Children(g) = {}
  BY <1>1 DEF Children
<1> QED
  BY <1>1, <1>2, FS_EmptySet DEF CallTreeIsSound

(* Start publishes a tree that is the root alone, or empty.                *)
LEMMA TreeStart ==
    ASSUME TypeInv, CallTreeIsSound, NEW repeats, Start(repeats)
    PROVE  CallTreeIsSound'
<1>1. CASE runtimes' = runtimes
  BY <1>1, SameTreeIsSound DEF SameTree
<1>2. CASE runtimes' # runtimes
  <2>1. \A g \in GroupIds :
          \/ runtimes'[g] = IdleRuntime
          \/ g = Root /\ runtimes'[g] = StartedRuntime(Root, now, repeats, NoGroup)
    BY <1>2 DEF Start
  <2>2. \A g \in GroupIds :
          /\ runtimes'[g].child_count = 0
          /\ runtimes'[g].parent = NoGroup
          /\ runtimes'[g].depth = 0
          /\ runtimes'[g].active => g = Root
    BY <2>1 DEF StartedRuntime, IdleRuntime, DepthBelow
  <2>3. \A g \in GroupIds : Children(g)' = {}
    BY <2>2, NullAssumption DEF Children
  <2> QED
    BY <2>2, <2>3, FS_EmptySet DEF CallTreeIsSound, IsActive
<1> QED
  BY <1>1, <1>2

(* ResetInstructions leaves no group active.                               *)
LEMMA TreeReset ==
    ASSUME ResetInstructions
    PROVE  CallTreeIsSound'
<1>1. \A g \in GroupIds : ~runtimes'[g].active /\ runtimes'[g].child_count = 0
  BY DEF ResetInstructions, IdleRuntime
<1>2. \A g \in GroupIds : Children(g)' = {}
  BY <1>1 DEF Children, IsActive
<1> QED
  BY <1>1, <1>2, FS_EmptySet DEF CallTreeIsSound, IsActive

(* A restarted group keeps its place in the tree.                          *)
LEMMA TreeRestart ==
    ASSUME TypeInv, CallTreeIsSound, NEW g \in GroupIds, RestartGroup(g)
    PROVE  CallTreeIsSound'
<1> DEFINE repeats == runtimes[g].repeats_remaining
           next == IF repeats = Forever THEN Forever ELSE repeats - 1
           parent == runtimes[g].parent
           started == StartedRuntime(g, timestamp, next, parent)
<1>1. IsActive(g) /\ runtimes[g].child_count = 0
  BY DEF RestartGroup, CompletesNext, IsReady
<1>2. ParentAllowsStart(parent)
  BY <1>1 DEF CallTreeIsSound, ParentAllowsStart
<1>3. runtimes' = [runtimes EXCEPT ![g] = started]
  BY <1>2 DEF RestartGroup
<1>4. /\ started.active /\ started.child_count = 0 /\ started.parent = parent
      /\ started.depth = runtimes[g].depth
  BY <1>1, NullAssumption DEF StartedRuntime, DepthBelow, CallTreeIsSound
<1>5. SameTree
  <2> HIDE DEF started
  <2> QED
    BY <1>1, <1>3, <1>4 DEF SameTree, TypeInv, TypeOK, IsActive
<1> QED
  BY <1>5, SameTreeIsSound

(* A group that ends is taken from its parent, which is still there.       *)
LEMMA TreeEnd ==
    ASSUME TypeInv, CallTreeIsSound, NEW g \in GroupIds, EndGroup(g)
    PROVE  CallTreeIsSound'
<1> DEFINE parent == runtimes[g].parent
           ended == [runtimes EXCEPT ![g] = IdleRuntime]
<1>1. IsActive(g) /\ runtimes[g].child_count = 0 /\ Children(g) = {}
  BY TreeFacts DEF EndGroup, CompletesNext, IsReady, TypeInv
<1>2. /\ ended[g] = IdleRuntime
      /\ \A h \in GroupIds \ {g} : ended[h] = runtimes[h]
      /\ ended \in [GroupIds -> Runtime]
  BY IdleType DEF TypeInv, TypeOK
<1>3. ~IdleRuntime.active /\ IdleRuntime.child_count = 0
  BY DEF IdleRuntime
<1>4. CASE g = Root
  <2>1. runtimes' = ended
    BY <1>4 DEF EndGroup
  <2>2. \A h \in GroupIds : ~runtimes'[h].active
    BY <1>1, <1>2, <1>3, <1>4, <2>1, LoneRoot DEF TypeInv, IsActive
  <2>3. \A h \in GroupIds : Children(h)' = {} /\ Children(h) = {}
    <3>1. \A h \in GroupIds : Children(h)' = {}
      BY <2>2 DEF Children, IsActive
    <3>2. ASSUME NEW h \in GroupIds PROVE Children(h) = {}
      BY <1>1, <1>4, LoneRoot, TreeFacts DEF TypeInv
    <3> QED
      BY <3>1, <3>2
  <2>4. \A h \in GroupIds : runtimes'[h].child_count = 0
    BY <1>2, <1>3, <2>1, <2>3, FS_EmptySet DEF CallTreeIsSound
  <2> QED
    BY <2>2, <2>3, <2>4, FS_EmptySet DEF CallTreeIsSound, IsActive
<1>5. CASE g # Root
  <2>1. /\ parent \in GroupIds /\ IsActive(parent) /\ parent # g
        /\ parent # NoGroup
    BY <1>1, <1>5, TreeFacts, NullAssumption DEF CallTreeIsSound, TypeInv
  <2>2. g \in Children(parent)
    BY <1>1, <2>1 DEF Children
  <2>3. runtimes[parent].child_count = Cardinality(Children(parent))
    BY <2>1 DEF CallTreeIsSound
  <2>4. /\ Cardinality(Children(parent) \ {g}) = runtimes[parent].child_count - 1
        /\ runtimes[parent].child_count # 0
    BY <2>2, <2>3, ChildrenFinite, FS_RemoveElement, FS_EmptySet
  <2>5. runtimes' = [ended EXCEPT ![parent].child_count = @ - 1]
    BY <1>2, <1>5, <2>1, <2>4 DEF EndGroup, IsActive
  <2>6. /\ runtimes'[g] = IdleRuntime
        /\ runtimes'[parent].child_count = runtimes[parent].child_count - 1
        /\ \A h \in GroupIds \ {g} :
              /\ runtimes'[h].active = runtimes[h].active
              /\ runtimes'[h].parent = runtimes[h].parent
              /\ runtimes'[h].depth = runtimes[h].depth
              /\ h # parent => runtimes'[h].child_count = runtimes[h].child_count
    <3> HIDE DEF ended, parent
    <3> QED
      BY <1>2, <2>1, <2>5 DEF Runtime
  <2>7. \A h \in GroupIds : Children(h)' = Children(h) \ {g}
    BY <1>3, <2>6 DEF Children, IsActive
  <2>8. ASSUME NEW h \in GroupIds
        PROVE  (runtimes[h].child_count = Cardinality(Children(h)))'
    <3>1. CASE h = g
      BY <3>1, <1>1, <1>3, <2>6, <2>7, FS_EmptySet
    <3>2. CASE h = parent
      BY <3>2, <2>4, <2>6, <2>7
    <3>3. CASE h # g /\ h # parent
      <4>1. g \notin Children(h)
        BY <3>3 DEF Children
      <4>2. Children(h)' = Children(h)
        BY <2>7, <4>1
      <4> QED
        BY <3>3, <2>6, <4>2 DEF CallTreeIsSound
    <3> QED
      BY <3>1, <3>2, <3>3
  <2>9. ASSUME NEW h \in GroupIds, runtimes'[h].active
        PROVE  IF h = Root
                 THEN runtimes'[h].parent = NoGroup /\ runtimes'[h].depth = 0
                 ELSE /\ runtimes'[h].parent \in GroupIds
                      /\ runtimes'[runtimes'[h].parent].active
                      /\ runtimes'[h].depth = runtimes'[runtimes'[h].parent].depth + 1
    <3>1. h # g /\ IsActive(h)
      BY <2>9, <1>3, <2>6 DEF IsActive
    <3>2. runtimes[h].parent # g
      BY <1>1, <3>1 DEF Children
    <3> QED
      BY <3>1, <3>2, <2>6 DEF CallTreeIsSound, IsActive
  <2> QED
    BY <2>8, <2>9 DEF CallTreeIsSound, IsActive
<1> QED
  BY <1>4, <1>5

(* A group that is started is a new leaf below its caller.                 *)
LEMMA TreeStartsChild ==
    ASSUME TypeInv, CallTreeIsSound, NEW g \in GroupIds, PickStartsChild(g)
    PROVE  CallTreeIsSound'
<1> DEFINE k == NextSlot(g)
           child == instructions[k].target
           started == StartedRuntime(child, timestamp, instructions[k].repeats, g)
           moved == CursorMoved(g, k)
<1>1. IsActive(g) /\ runtimes[g].pending # {}
  BY DEF PickStartsChild, PicksNext, IsDue
<1>2. instructions[k] \in Instruction
  BY <1>1, NextSlotType
<1>3. child \in GroupIds
  BY <1>2 DEF Instruction
<1>4. child # Root /\ ~IsActive(child) /\ child # g
  BY <1>1 DEF PickStartsChild, CanStart
<1>5. /\ moved \in [GroupIds -> Runtime]
      /\ \A h \in GroupIds : /\ moved[h].active = runtimes[h].active
                             /\ moved[h].child_count = runtimes[h].child_count
                             /\ moved[h].parent = runtimes[h].parent
                             /\ moved[h].depth = runtimes[h].depth
  BY CursorMovedType DEF TypeInv
<1>6. runtimes' = [moved EXCEPT ![child] = started, ![g].child_count = @ + 1]
  BY DEF PickStartsChild
<1>7. /\ started.active /\ started.child_count = 0 /\ started.parent = g
      /\ started.depth = runtimes[g].depth + 1
  BY NullAssumption DEF StartedRuntime, DepthBelow
<1>8. /\ runtimes'[child] = started
      /\ runtimes'[g].child_count = runtimes[g].child_count + 1
      /\ \A h \in GroupIds \ {child} :
            /\ runtimes'[h].active = runtimes[h].active
            /\ runtimes'[h].parent = runtimes[h].parent
            /\ runtimes'[h].depth = runtimes[h].depth
            /\ h # g => runtimes'[h].child_count = runtimes[h].child_count
  <2> HIDE DEF started, moved, child
  <2> QED
    BY <1>3, <1>4, <1>5, <1>6 DEF Runtime
<1> HIDE DEF started, moved, child, k
<1>9. /\ child \notin Children(g)
      /\ Children(g)' = Children(g) \cup {child}
      /\ \A h \in GroupIds \ {g} : Children(h)' = Children(h)
  BY <1>3, <1>4, <1>7, <1>8 DEF Children, IsActive
<1>10. ASSUME NEW h \in GroupIds
       PROVE  (runtimes[h].child_count = Cardinality(Children(h)))'
  <2>1. CASE h = g
    BY <2>1, <1>8, <1>9, ChildrenFinite, FS_AddElement DEF CallTreeIsSound
  <2>2. CASE h = child
    <3>1. Children(h) = {}
      BY <2>2, <1>4, TreeFacts DEF TypeInv
    <3> QED
      BY <2>2, <3>1, <1>4, <1>7, <1>8, <1>9, FS_EmptySet
  <2>3. CASE h # g /\ h # child
    BY <2>3, <1>8, <1>9 DEF CallTreeIsSound
  <2> QED
    BY <2>1, <2>2, <2>3
<1>11. ASSUME NEW h \in GroupIds, runtimes'[h].active
       PROVE  IF h = Root
                THEN runtimes'[h].parent = NoGroup /\ runtimes'[h].depth = 0
                ELSE /\ runtimes'[h].parent \in GroupIds
                     /\ runtimes'[runtimes'[h].parent].active
                     /\ runtimes'[h].depth = runtimes'[runtimes'[h].parent].depth + 1
  <2>1. CASE h = child
    BY <2>1, <1>1, <1>4, <1>7, <1>8 DEF IsActive
  <2>2. CASE h # child
    <3>1. IsActive(h)
      BY <1>11, <2>2, <1>8 DEF IsActive
    <3>2. runtimes[h].parent # child
      BY <3>1, <1>3, <1>4, TreeFacts DEF TypeInv
    <3> QED
      BY <3>1, <3>2, <2>2, <1>8 DEF CallTreeIsSound, IsActive
  <2> QED
    BY <2>1, <2>2
<1> QED
  BY <1>10, <1>11 DEF CallTreeIsSound, IsActive

-----------------------------------------------------------------------------
(* Steps that leave the entries of the executing list in place: a runtime  *)
(* keeps its counts and moves its cursor forward only, or it is replaced   *)
(* while it has no entry.                                                  *)
EntriesKept ==
    /\ instructions' = instructions
    /\ DOMAIN executing' = DOMAIN executing
    /\ \A k \in DOMAIN executing :
         /\ executing'[k].slot = executing[k].slot
         /\ executing'[k].runtime = executing[k].runtime
    /\ \A h \in GroupIds :
         \/ /\ runtimes'[h].active = runtimes[h].active
            /\ runtimes'[h].active_count = runtimes[h].active_count
            /\ runtimes'[h].pending \subseteq runtimes[h].pending
         \/ runtimes'[h].active_count = 0 /\ SlotsExecuting(h) = {}

(* An entry is well typed and is one of its runtime's.                     *)
LEMMA EntryType ==
    ASSUME TypeOK, NEW k \in DOMAIN executing
    PROVE  /\ executing[k] \in Executing
           /\ executing[k].runtime \in GroupIds
           /\ executing[k].slot \in Slots
           /\ executing[k].slot \in SlotsExecuting(executing[k].runtime)
<1>1. executing[k] \in Executing
  BY DEF TypeOK
<1> QED
  BY <1>1 DEF Executing, SlotsExecuting

(* Such a step keeps the executing list sound.                             *)
LEMMA KeptEntriesAreSound ==
    ASSUME TypeOK, ExecutingIsSound, EntriesKept
    PROVE  ExecutingIsSound'
<1>1. \A h \in GroupIds : SlotsExecuting(h)' = SlotsExecuting(h)
  BY DEF EntriesKept, SlotsExecuting
<1>2. ASSUME NEW j \in DOMAIN executing', NEW k \in DOMAIN executing',
             executing'[j].slot = executing'[k].slot
      PROVE  j = k
  BY <1>2 DEF EntriesKept, ExecutingIsSound
<1>3. ASSUME NEW k \in DOMAIN executing'
      PROVE  (/\ ~IsOrphan(executing[k])
              /\ executing[k].slot \in Members(instructions, executing[k].runtime)
              /\ executing[k].slot \notin runtimes[executing[k].runtime].pending)'
  <2> DEFINE r == executing[k].runtime
  <2>1. k \in DOMAIN executing /\ executing'[k].slot = executing[k].slot
        /\ executing'[k].runtime = r
    BY DEF EntriesKept
  <2>2. r \in GroupIds /\ SlotsExecuting(r) # {}
    BY <2>1, EntryType
  <2>3. /\ runtimes'[r].active = runtimes[r].active
        /\ runtimes'[r].pending \subseteq runtimes[r].pending
    BY <2>2 DEF EntriesKept
  <2>4. /\ ~IsOrphan(executing[k])
        /\ executing[k].slot \in Members(instructions, r)
        /\ executing[k].slot \notin runtimes[r].pending
    BY <2>1 DEF ExecutingIsSound
  <2> HIDE DEF r
  <2> QED
    BY <2>1, <2>3, <2>4 DEF IsOrphan, IsActive, EntriesKept, Members, r
<1>4. ASSUME NEW g \in GroupIds
      PROVE  (runtimes[g].active_count = Cardinality(SlotsExecuting(g)))'
  BY <1>1, FS_EmptySet, ZenonT(40) DEF EntriesKept, ExecutingIsSound
<1> QED
  BY <1>2, <1>3, <1>4 DEF ExecutingIsSound

(* An empty list is sound when no runtime counts work.                     *)
LEMMA NoEntriesAreSound ==
    ASSUME executing' = <<>>, \A g \in GroupIds : runtimes'[g].active_count = 0
    PROVE  ExecutingIsSound'
<1>1. DOMAIN executing' = {}
  OBVIOUS
<1>2. \A g \in GroupIds : SlotsExecuting(g)' = {}
  BY <1>1 DEF SlotsExecuting
<1>3. \A g \in GroupIds : (runtimes[g].active_count = Cardinality(SlotsExecuting(g)))'
  BY <1>2, FS_EmptySet
<1> QED
  BY <1>1, <1>3, Zenon DEF ExecutingIsSound

(* A runtime has finitely many entries.                                    *)
LEMMA SlotsExecutingFinite ==
    ASSUME TypeOK, NEW g
    PROVE  IsFiniteSet(SlotsExecuting(g))
<1>1. SlotsExecuting(g) \subseteq Slots
  BY EntryType DEF SlotsExecuting
<1>2. IsFiniteSet(Slots)
  BY FS_Interval, BoundAssumption DEF Slots
<1> QED
  BY <1>1, <1>2, FS_Subset

(* A runtime without running work has no entry.                            *)
LEMMA NoRunningWork ==
    ASSUME TypeOK, ExecutingIsSound, NEW g \in GroupIds,
           runtimes[g].active_count = 0 \/ ~IsActive(g)
    PROVE  SlotsExecuting(g) = {}
<1>1. CASE runtimes[g].active_count = 0
  BY <1>1, SlotsExecutingFinite, FS_EmptySet DEF ExecutingIsSound
<1>2. CASE ~IsActive(g)
  BY <1>2 DEF ExecutingIsSound, SlotsExecuting, IsOrphan
<1> QED
  BY <1>1, <1>2

(* Removing an entry takes its slot out of the list and no other: the last *)
(* entry keeps its own when it moves.                                      *)
LEMMA SlotsRemoved ==
    ASSUME TypeInv, ExecutingIsSound, NEW k \in DOMAIN executing,
           executing' = SwapRemove(executing, k)
    PROVE  /\ \A j \in DOMAIN executing' : \E i \in DOMAIN executing :
                executing'[j] = executing[i]
           /\ \A i, j \in DOMAIN executing' :
                executing'[i].slot = executing'[j].slot => i = j
           /\ \A h \in GroupIds :
                SlotsExecuting(h)' = SlotsExecuting(h) \ {executing[k].slot}
<1> DEFINE x == executing[k].slot
           n == Len(executing)
           from == [j \in 1 .. n - 1 |-> IF j = k THEN n ELSE j]
<1>1. /\ n \in Nat \ {0} /\ DOMAIN executing = 1 .. n /\ k \in 1 .. n
  BY DEF TypeInv, TypeOK
<1>2. /\ DOMAIN executing' = 1 .. n - 1
      /\ \A j \in 1 .. n - 1 : executing'[j] = executing[from[j]]
  BY <1>1 DEF SwapRemove
<1> HIDE DEF n
<1>3. /\ \A j \in 1 .. n - 1 : from[j] \in (1 .. n) \ {k}
      /\ \A i, j \in 1 .. n - 1 : from[i] = from[j] => i = j
      /\ \A i \in (1 .. n) \ {k} : \E j \in 1 .. n - 1 : from[j] = i
  <2>1. \A j \in 1 .. n - 1 : from[j] \in (1 .. n) \ {k}
    BY <1>1
  <2>2. \A i, j \in 1 .. n - 1 : from[i] = from[j] => i = j
    BY <1>1
  <2>3. ASSUME NEW i \in (1 .. n) \ {k} PROVE \E j \in 1 .. n - 1 : from[j] = i
    <3>1. CASE i = n
      <4>1. k \in 1 .. n - 1 /\ from[k] = i
        BY <1>1, <3>1
      <4> QED
        BY <4>1
    <3>2. CASE i # n
      <4>1. i \in 1 .. n - 1 /\ from[i] = i
        BY <1>1, <3>2
      <4> QED
        BY <4>1
    <3> QED
      BY <3>1, <3>2
  <2> QED
    BY <2>1, <2>2, <2>3
<1> HIDE DEF from
<1>4. \A i, j \in 1 .. n : executing[i].slot = executing[j].slot => i = j
  BY <1>1 DEF ExecutingIsSound
<1>5. ASSUME NEW h \in GroupIds
      PROVE  SlotsExecuting(h)' = SlotsExecuting(h) \ {x}
  <2>1. SlotsExecuting(h)' = {executing[i].slot : i \in {j \in (1 .. n) \ {k} :
                                                         executing[j].runtime = h}}
    BY <1>2, <1>3 DEF SlotsExecuting
  <2>2. SlotsExecuting(h) = {executing[i].slot : i \in {j \in 1 .. n :
                                                         executing[j].runtime = h}}
    BY <1>1 DEF SlotsExecuting
  <2> QED
    BY <1>1, <1>4, <2>1, <2>2
<1>6. ASSUME NEW i \in DOMAIN executing', NEW j \in DOMAIN executing',
             executing'[i].slot = executing'[j].slot
      PROVE  i = j
  BY <1>2, <1>3, <1>4, <1>6
<1>7. ASSUME NEW j \in DOMAIN executing'
      PROVE  \E i \in DOMAIN executing : executing'[j] = executing[i]
  BY <1>1, <1>2, <1>3
<1> QED
  BY <1>5, <1>6, <1>7

(* The entry that DrainExecuting takes out, and only that one, is gone.    *)
LEMMA RemovedEntryIsSound ==
    ASSUME TypeInv, ExecutingIsSound, NEW k \in DOMAIN executing,
           instructions' = instructions,
           executing' = SwapRemove(executing, k),
           runtimes' = [ObservePositiveBoundary(executing[k].runtime) EXCEPT
                          ![executing[k].runtime].active_count = @ - 1]
    PROVE  ExecutingIsSound'
<1> DEFINE r == executing[k].runtime
           x == executing[k].slot
<1>1. r \in GroupIds /\ x \in SlotsExecuting(r)
  BY EntryType DEF TypeInv
<1>2. /\ runtimes'[r].active_count = runtimes[r].active_count - 1
      /\ \A h \in GroupIds :
            /\ runtimes'[h].active = runtimes[h].active
            /\ runtimes'[h].pending = runtimes[h].pending
            /\ h # r => runtimes'[h].active_count = runtimes[h].active_count
  <2> DEFINE observed == ObservePositiveBoundary(r)
  <2>1. /\ observed \in [GroupIds -> Runtime]
        /\ \A h \in GroupIds : /\ observed[h].active = runtimes[h].active
                               /\ observed[h].pending = runtimes[h].pending
                               /\ observed[h].active_count = runtimes[h].active_count
    BY ObserveType DEF TypeInv
  <2>2. runtimes' = [observed EXCEPT ![r].active_count = @ - 1]
    OBVIOUS
  <2> HIDE DEF observed, r
  <2> QED
    BY <1>1, <2>1, <2>2 DEF Runtime
<1>3. /\ \A j \in DOMAIN executing' : \E i \in DOMAIN executing :
           executing'[j] = executing[i]
      /\ \A i, j \in DOMAIN executing' : executing'[i].slot = executing'[j].slot => i = j
      /\ \A h \in GroupIds : SlotsExecuting(h)' = SlotsExecuting(h) \ {x}
  BY SlotsRemoved
<1>4. ASSUME NEW j \in DOMAIN executing'
      PROVE  (/\ ~IsOrphan(executing[j])
              /\ executing[j].slot \in Members(instructions, executing[j].runtime)
              /\ executing[j].slot \notin runtimes[executing[j].runtime].pending)'
  <2>1. PICK i \in DOMAIN executing : executing'[j] = executing[i]
    BY <1>3
  <2>2. executing[i].runtime \in GroupIds
    BY EntryType DEF TypeInv
  <2>3. /\ ~IsOrphan(executing[i])
        /\ executing[i].slot \in Members(instructions, executing[i].runtime)
        /\ executing[i].slot \notin runtimes[executing[i].runtime].pending
    BY DEF ExecutingIsSound
  <2> QED
    BY <2>1, <2>2, <2>3, <1>2 DEF IsOrphan, IsActive, Members
<1>5. ASSUME NEW g \in GroupIds
      PROVE  (runtimes[g].active_count = Cardinality(SlotsExecuting(g)))'
  <2>1. runtimes[g].active_count = Cardinality(SlotsExecuting(g))
    BY DEF ExecutingIsSound
  <2>2. CASE g = r
    <3>1. Cardinality(SlotsExecuting(r) \ {x}) = Cardinality(SlotsExecuting(r)) - 1
      BY <1>1, SlotsExecutingFinite, FS_RemoveElement DEF TypeInv
    <3> QED
      BY <2>1, <2>2, <3>1, <1>2, <1>3
  <2>3. CASE g # r
    <3>1. x \notin SlotsExecuting(g)
      BY <2>3 DEF SlotsExecuting, ExecutingIsSound
    <3>2. SlotsExecuting(g)' = SlotsExecuting(g)
      <4>1. SlotsExecuting(g)' = SlotsExecuting(g) \ {x}
        BY <1>3, Zenon
      <4>2. \A S : x \notin S => S \ {x} = S
        OBVIOUS
      <4> QED
        BY <3>1, <4>1, <4>2, Zenon
    <3> QED
      BY <2>1, <2>3, <3>2, <1>2
  <2> QED
    BY <2>2, <2>3
<1> QED
  BY <1>3, <1>4, <1>5 DEF ExecutingIsSound

(* Appending an entry puts its slot on the list of its runtime.            *)
LEMMA SlotsAdded ==
    ASSUME TypeInv, NEW k \in Slots, NEW g \in GroupIds, NEW deadline \in Time,
           executing' = Append(executing, [slot |-> k, runtime |-> g,
                                           deadline |-> deadline])
    PROVE  /\ DOMAIN executing' = 1 .. Len(executing) + 1
           /\ executing'[Len(executing) + 1].slot = k
           /\ executing'[Len(executing) + 1].runtime = g
           /\ \A j \in 1 .. Len(executing) : executing'[j] = executing[j]
           /\ SlotsExecuting(g)' = SlotsExecuting(g) \cup {k}
           /\ \A h \in GroupIds \ {g} : SlotsExecuting(h)' = SlotsExecuting(h)
<1> DEFINE entry == [slot |-> k, runtime |-> g, deadline |-> deadline]
           n == Len(executing)
<1>1. entry \in Executing /\ entry.slot = k /\ entry.runtime = g
  BY DEF Executing
<1>2. /\ n \in Nat /\ DOMAIN executing = 1 .. n
      /\ DOMAIN executing' = 1 .. n + 1
      /\ executing'[n + 1] = entry
      /\ \A j \in 1 .. n : executing'[j] = executing[j]
  <2> HIDE DEF entry
  <2> QED
    BY <1>1 DEF TypeInv, TypeOK, entry
<1> HIDE DEF entry, n
<1>3. ASSUME NEW h \in GroupIds
      PROVE  SlotsExecuting(h)' = IF h = g THEN SlotsExecuting(g) \cup {k}
                                          ELSE SlotsExecuting(h)
  <2>1. SlotsExecuting(h) = {executing[i].slot : i \in {j \in 1 .. n :
                                                         executing[j].runtime = h}}
    BY <1>2 DEF SlotsExecuting
  <2>2. SlotsExecuting(h)' = {executing'[i].slot : i \in {j \in 1 .. n + 1 :
                                                           executing'[j].runtime = h}}
    BY <1>2 DEF SlotsExecuting
  <2>3. \A j \in 1 .. n + 1 : j \in 1 .. n \/ j = n + 1
    BY <1>2
  <2>4. 1 .. n \subseteq 1 .. n + 1 /\ n + 1 \in 1 .. n + 1
    BY <1>2
  <2> QED
    BY <1>1, <1>2, <2>1, <2>2, <2>3, <2>4
<1> QED
  BY <1>1, <1>2, <1>3 DEF n

(* An instruction joins the list once: its cursor has just passed it.      *)
LEMMA AddedEntryIsSound ==
    ASSUME TypeInv, ExecutingIsSound, NEW g \in GroupIds, IsActive(g),
           runtimes[g].pending # {},
           NEW deadline \in Time,
           instructions' = instructions,
           executing' = Append(executing, [slot |-> NextSlot(g), runtime |-> g,
                                           deadline |-> deadline]),
           runtimes' = [CursorMoved(g, NextSlot(g)) EXCEPT ![g].active_count = @ + 1]
    PROVE  ExecutingIsSound'
<1> DEFINE k == NextSlot(g)
           n == Len(executing)
           moved == CursorMoved(g, k)
<1>1. k \in runtimes[g].pending /\ k \in Members(instructions, g) /\ k \in Slots
      /\ k \in DOMAIN instructions
  BY NextSlotType
<1>2. /\ executing'[n + 1].slot = k
      /\ executing'[n + 1].runtime = g
      /\ SlotsExecuting(g)' = SlotsExecuting(g) \cup {k}
      /\ \A h \in GroupIds \ {g} : SlotsExecuting(h)' = SlotsExecuting(h)
  BY <1>1, SlotsAdded
<1>3. /\ n \in Nat /\ DOMAIN executing = 1 .. n
      /\ DOMAIN executing' = 1 .. n + 1
      /\ \A j \in 1 .. n : executing'[j] = executing[j]
  BY <1>1, SlotsAdded DEF TypeInv, TypeOK
<1>4. /\ runtimes'[g].active_count = runtimes[g].active_count + 1
      /\ runtimes'[g].pending = runtimes[g].pending \ {k}
      /\ \A h \in GroupIds :
            /\ runtimes'[h].active = runtimes[h].active
            /\ runtimes'[h].pending \subseteq runtimes[h].pending
            /\ h # g => runtimes'[h].active_count = runtimes[h].active_count
  <2>1. /\ moved \in [GroupIds -> Runtime]
        /\ moved[g].pending = runtimes[g].pending \ {k}
        /\ \A h \in GroupIds \ {g} : moved[h].pending = runtimes[h].pending
        /\ \A h \in GroupIds : /\ moved[h].active = runtimes[h].active
                               /\ moved[h].active_count = runtimes[h].active_count
    BY CursorMovedType DEF TypeInv
  <2>2. runtimes' = [moved EXCEPT ![g].active_count = @ + 1]
    OBVIOUS
  <2>3. moved[g] \in Runtime
    BY <2>1
  <2> HIDE DEF moved, k
  <2>4. runtimes'[g] = [moved[g] EXCEPT !.active_count = @ + 1]
    BY <2>1, <2>2
  <2>5. /\ runtimes'[g].active_count = moved[g].active_count + 1
        /\ runtimes'[g].pending = moved[g].pending
        /\ runtimes'[g].active = moved[g].active
    BY <2>3, <2>4 DEF Runtime
  <2>6. \A h \in GroupIds \ {g} : runtimes'[h] = moved[h]
    BY <2>1, <2>2
  <2> QED
    BY <2>1, <2>5, <2>6
<1>5. \A j \in 1 .. n : executing[j].slot # k
  <2> SUFFICES ASSUME NEW j \in 1 .. n, executing[j].slot = k PROVE FALSE
    OBVIOUS
  <2>1. /\ k \in Members(instructions, executing[j].runtime)
        /\ k \notin runtimes[executing[j].runtime].pending
    BY <1>3 DEF ExecutingIsSound
  <2>2. executing[j].runtime = g
    BY <1>1, <2>1 DEF Members
  <2> QED
    BY <1>1, <2>1, <2>2
<1> HIDE DEF k, n, moved
<1>6. ASSUME NEW h \in GroupIds
      PROVE  SlotsExecuting(h)' = IF h = g THEN SlotsExecuting(g) \cup {k}
                                          ELSE SlotsExecuting(h)
  BY <1>2
<1>7. ASSUME NEW i \in 1 .. n + 1, NEW j \in 1 .. n + 1,
             executing'[i].slot = executing'[j].slot
      PROVE  i = j
  <2>1. \A a, b \in 1 .. n : executing[a].slot = executing[b].slot => a = b
    BY <1>3 DEF ExecutingIsSound
  <2>2. (i \in 1 .. n \/ i = n + 1) /\ (j \in 1 .. n \/ j = n + 1)
    BY <1>3
  <2> QED
    BY <1>2, <1>3, <1>5, <1>7, <2>1, <2>2
<1>8. ASSUME NEW j \in 1 .. n + 1
      PROVE  (/\ ~IsOrphan(executing[j])
              /\ executing[j].slot \in Members(instructions, executing[j].runtime)
              /\ executing[j].slot \notin runtimes[executing[j].runtime].pending)'
  <2>1. CASE j = n + 1
    <3>1. executing'[j].slot = k /\ executing'[j].runtime = g
      BY <2>1, <1>2, <1>3
    <3>2. k \in Nat /\ k <= Len(instructions)
      BY <1>1, BoundAssumption DEF Slots, TypeInv, TypeOK
    <3>3. runtimes'[g].active
      BY <1>4 DEF IsActive
    <3>4. ~IsOrphan(executing[j])'
      <4>1. Len(instructions) \in Nat
        BY DEF TypeInv, TypeOK
      <4>2. ~(k > Len(instructions))
        BY <3>2, <4>1
      <4>3. ~(executing'[j].slot > Len(instructions'))
        BY <3>1, <4>2
      <4> QED
        BY <3>1, <3>3, <4>3 DEF IsOrphan, IsActive
    <3> QED
      BY <3>1, <3>4, <1>1, <1>4 DEF Members
  <2>2. CASE j \in 1 .. n
    <3>1. executing'[j] = executing[j] /\ executing[j].runtime \in GroupIds
      BY <2>2, <1>3, EntryType DEF TypeInv
    <3>2. /\ ~IsOrphan(executing[j])
          /\ executing[j].slot \in Members(instructions, executing[j].runtime)
          /\ executing[j].slot \notin runtimes[executing[j].runtime].pending
      BY <2>2, <1>3 DEF ExecutingIsSound
    <3> QED
      BY <3>1, <3>2, <1>4 DEF IsOrphan, IsActive, Members
  <2> QED
    BY <1>3, <2>1, <2>2
<1>9. ASSUME NEW h \in GroupIds
      PROVE  (runtimes[h].active_count = Cardinality(SlotsExecuting(h)))'
  <2>1. runtimes[h].active_count = Cardinality(SlotsExecuting(h))
    BY DEF ExecutingIsSound
  <2>2. CASE h = g
    <3>1. k \notin SlotsExecuting(g)
      BY <1>3, <1>5 DEF SlotsExecuting
    <3>2. Cardinality(SlotsExecuting(g) \cup {k}) = Cardinality(SlotsExecuting(g)) + 1
      BY <3>1, SlotsExecutingFinite, FS_AddElement DEF TypeInv
    <3> QED
      BY <2>1, <2>2, <3>2, <1>4, <1>6
  <2>3. CASE h # g
    BY <2>1, <2>3, <1>4, <1>6
  <2> QED
    BY <2>2, <2>3
<1> QED
  BY <1>3, <1>7, <1>8, <1>9 DEF ExecutingIsSound

-----------------------------------------------------------------------------
(* The inductive invariant.  The parts need each other: the entries of the *)
(* list need the tree to know that their runtime is not ended, the root    *)
(* outlives the tree because its child count is exact, and the program     *)
(* can be edited only because nothing runs without the root.               *)
StructInv == TypeInv /\ ExecutingIsSound /\ CallTreeIsSound /\ RootOutlivesItsWork

(* The structural invariant holds in a constructed controller.             *)
LEMMA StructInit == Init => StructInv
<1> SUFFICES ASSUME Init PROVE StructInv
  OBVIOUS
<1>1. \A g \in GroupIds : ~IsActive(g) /\ runtimes[g].active_count = 0
  BY DEF Init, IdleRuntime, IsActive
<1>2. DOMAIN executing = {}
  BY DEF Init
<1>3. ExecutingIsSound
  <2>1. \A g \in GroupIds : SlotsExecuting(g) = {}
    BY <1>2 DEF SlotsExecuting
  <2>2. \A g \in GroupIds : runtimes[g].active_count = Cardinality(SlotsExecuting(g))
    BY <1>1, <2>1, FS_EmptySet
  <2> QED
    BY <1>2, <2>2, Zenon DEF ExecutingIsSound
<1>4. RootOutlivesItsWork
  BY <1>1, GroupAssumption DEF Init, RootOutlivesItsWork
<1> QED
  BY <1>3, <1>4, TypeInit, TreeInit DEF StructInv

(* Steps that change no runtime and no entry.                              *)
LEMMA StructIdle ==
    ASSUME StructInv, TypeInv',
           UNCHANGED <<state, instructions, runtimes, executing>>
    PROVE  StructInv'
<1> USE DEF StructInv
<1>1. CallTreeIsSound'
  BY SameTreeIsSound DEF SameTree
<1>2. EntriesKept
  BY DEF EntriesKept
<1>3. ExecutingIsSound'
  BY <1>2, KeptEntriesAreSound DEF TypeInv
<1>4. RootOutlivesItsWork'
  BY DEF RootOutlivesItsWork, IsActive
<1> QED
  BY <1>1, <1>3, <1>4

(* The public calls other than Run keep the structural invariant.          *)
LEMMA StructCall ==
    ASSUME StructInv, TypeInv', Call
    PROVE  StructInv'
<1> USE DEF StructInv
<1>1. ASSUME NEW instr, AddInstruction(instr) PROVE StructInv'
  <2>1. CASE status' = "kSuccess"
    <3>1. state = "kEditable"
      BY <1>1, <2>1 DEF AddInstruction
    <3>2. ~IsActive(Root) /\ executing = <<>>
      BY <3>1 DEF RootOutlivesItsWork
    <3>3. DOMAIN executing = {}
      BY <3>2
    <3>4. \A g \in GroupIds : SlotsExecuting(g) = {}
      BY <3>3 DEF SlotsExecuting
    <3>5. \A g \in GroupIds : runtimes[g].active_count = 0
      BY <3>4, FS_EmptySet DEF ExecutingIsSound
    <3>6. UNCHANGED <<state, runtimes, executing>>
      BY <1>1 DEF AddInstruction
    <3>7. ExecutingIsSound'
      BY <3>2, <3>5, <3>6, NoEntriesAreSound
    <3>8. CallTreeIsSound'
      BY <3>6, SameTreeIsSound DEF SameTree
    <3>9. RootOutlivesItsWork'
      BY <3>6 DEF RootOutlivesItsWork, IsActive
    <3> QED
      BY <3>7, <3>8, <3>9
  <2>2. CASE status' # "kSuccess"
    BY <1>1, <2>2, StructIdle DEF AddInstruction
  <2> QED
    BY <2>1, <2>2
<1>2. ASSUME NEW period, SetRefreshPeriodMs(period) PROVE StructInv'
  BY <1>2, StructIdle DEF SetRefreshPeriodMs
<1>3. ASSUME NEW repeats, Start(repeats) PROVE StructInv'
  <2>1. CASE UNCHANGED <<state, runtimes, executing>>
    BY <1>3, <2>1, StructIdle DEF Start
  <2>2. CASE ~UNCHANGED <<state, runtimes, executing>>
    <3>1. /\ executing' = <<>>
          /\ \/ /\ state' = "kCompleted"
                /\ runtimes' = [g \in GroupIds |-> IdleRuntime]
             \/ /\ state' = "kActive"
                /\ runtimes' = [g \in GroupIds |->
                                  IF g = Root
                                    THEN StartedRuntime(Root, now, repeats, NoGroup)
                                    ELSE IdleRuntime]
      BY <1>3, <2>2 DEF Start
    <3>2. /\ StartedRuntime(Root, now, repeats, NoGroup).active
          /\ StartedRuntime(Root, now, repeats, NoGroup).active_count = 0
          /\ ~IdleRuntime.active /\ IdleRuntime.active_count = 0
      BY DEF StartedRuntime, IdleRuntime
    <3>3. ExecutingIsSound'
      BY <3>1, <3>2, NoEntriesAreSound
    <3>4. CallTreeIsSound'
      BY <1>3, TreeStart
    <3>5. RootOutlivesItsWork'
      BY <3>1, <3>2, GroupAssumption DEF RootOutlivesItsWork, IsActive
    <3> QED
      BY <3>3, <3>4, <3>5
  <2> QED
    BY <2>1, <2>2
<1>4. CASE ResetInstructions
  <2>1. ~IdleRuntime.active /\ IdleRuntime.active_count = 0
    BY DEF IdleRuntime
  <2>2. ExecutingIsSound'
    BY <1>4, <2>1, NoEntriesAreSound DEF ResetInstructions
  <2>3. CallTreeIsSound'
    BY <1>4, TreeReset
  <2>4. RootOutlivesItsWork'
    BY <1>4, <2>1, GroupAssumption DEF ResetInstructions, RootOutlivesItsWork, IsActive
  <2> QED
    BY <2>2, <2>3, <2>4
<1> QED
  BY <1>1, <1>2, <1>3, <1>4 DEF Call

(* DrainExecuting keeps the structural invariant; the entry is never an orphan.*)
LEMMA StructDrain ==
    ASSUME StructInv, TypeInv', DrainResumes \/ DrainRemoves
    PROVE  StructInv'
<1> USE DEF StructInv
<1>1. CASE DrainResumes
  <2>1. PICK k \in DOMAIN executing :
          /\ runtimes' = ObservePositiveBoundary(executing[k].runtime)
          /\ executing' = [executing EXCEPT ![k].deadline =
                             Later(timestamp, ExecuteDelay(executing[k].slot))]
    BY <1>1 DEF DrainResumes
  <2>2. \A j \in DOMAIN executing : executing[j] \in Executing
    BY EntryType DEF TypeInv
  <2>3. /\ DOMAIN executing' = DOMAIN executing
        /\ \A j \in DOMAIN executing : /\ executing'[j].slot = executing[j].slot
                                       /\ executing'[j].runtime = executing[j].runtime
    BY <2>1, <2>2 DEF Executing
  <2>4. EntriesKept /\ SameTree
    BY <1>1, <2>1, <2>3, ObserveType
    DEF DrainResumes, EntriesKept, SameTree, TypeInv
  <2>5. executing' # <<>> => executing # <<>>
    BY <2>1
  <2>6. RootOutlivesItsWork'
    BY <1>1, <2>4, <2>5, GroupAssumption
    DEF DrainResumes, RootOutlivesItsWork, SameTree, IsActive
  <2> QED
    BY <2>4, <2>6, SameTreeIsSound, KeptEntriesAreSound DEF TypeInv
<1>2. CASE DrainRemoves
  <2>1. PICK k \in DOMAIN executing :
          /\ executing' = SwapRemove(executing, k)
          /\ ~IsOrphan(executing[k]) =>
               runtimes' = IF runtimes[executing[k].runtime].active_count = 0
                             THEN ObservePositiveBoundary(executing[k].runtime)
                             ELSE [ObservePositiveBoundary(executing[k].runtime) EXCEPT
                                     ![executing[k].runtime].active_count = @ - 1]
    BY <1>2 DEF DrainRemoves
  <2> DEFINE r == executing[k].runtime
             observed == ObservePositiveBoundary(r)
  <2>2. ~IsOrphan(executing[k]) /\ r \in GroupIds /\ SlotsExecuting(r) # {}
    BY EntryType DEF ExecutingIsSound, TypeInv
  <2>3. runtimes[r].active_count # 0
    BY <2>2, NoRunningWork DEF TypeInv
  <2>4. runtimes' = [observed EXCEPT ![r].active_count = @ - 1]
    BY <2>1, <2>2, <2>3
  <2>5. instructions' = instructions /\ state' = state
    BY <1>2 DEF DrainRemoves
  <2>6. ExecutingIsSound'
    BY <2>1, <2>4, <2>5, RemovedEntryIsSound
  <2>7. SameTree
    <3>1. /\ observed \in [GroupIds -> Runtime]
          /\ \A h \in GroupIds : /\ observed[h].active = runtimes[h].active
                                 /\ observed[h].child_count = runtimes[h].child_count
                                 /\ observed[h].parent = runtimes[h].parent
                                 /\ observed[h].depth = runtimes[h].depth
      BY ObserveType DEF TypeInv
    <3> HIDE DEF observed, r
    <3> QED
      BY <2>2, <2>4, <3>1 DEF SameTree, Runtime
  <2>8. executing # <<>>
    BY <2>1
  <2>9. RootOutlivesItsWork'
    BY <2>5, <2>7, <2>8, GroupAssumption DEF RootOutlivesItsWork, SameTree, IsActive
  <2> QED
    BY <2>6, <2>7, <2>9, SameTreeIsSound
<1> QED
  BY <1>1, <1>2

(* CompleteReadyGroups keeps the structural invariant.                     *)
LEMMA StructComplete ==
    ASSUME StructInv, TypeInv', NEW g \in GroupIds, RestartGroup(g) \/ EndGroup(g)
    PROVE  StructInv'
<1> USE DEF StructInv
<1>1. /\ IsActive(g) /\ runtimes[g].child_count = 0 /\ SlotsExecuting(g) = {}
      /\ instructions' = instructions /\ executing' = executing
  BY NoRunningWork DEF RestartGroup, EndGroup, CompletesNext, IsReady, TypeInv
<1>2. CASE RestartGroup(g)
  <2> DEFINE repeats == runtimes[g].repeats_remaining
             next == IF repeats = Forever THEN Forever ELSE repeats - 1
             started == StartedRuntime(g, timestamp, next, runtimes[g].parent)
  <2>1. ParentAllowsStart(runtimes[g].parent)
    BY <1>1 DEF CallTreeIsSound, ParentAllowsStart
  <2>2. runtimes' = [runtimes EXCEPT ![g] = started]
    BY <1>2, <2>1 DEF RestartGroup
  <2>3. started.active /\ started.active_count = 0
    BY DEF StartedRuntime
  <2> HIDE DEF started
  <2>4. /\ runtimes'[g] = started
        /\ \A h \in GroupIds \ {g} : runtimes'[h] = runtimes[h]
    BY <2>2 DEF TypeInv, TypeOK
  <2>5. EntriesKept
    BY <1>1, <2>3, <2>4 DEF EntriesKept
  <2>6. RootOutlivesItsWork'
    BY <1>1, <1>2, <2>3, <2>4, GroupAssumption
    DEF RestartGroup, RootOutlivesItsWork, IsActive
  <2> QED
    BY <1>2, <2>5, <2>6, KeptEntriesAreSound, TreeRestart DEF TypeInv
<1>3. CASE EndGroup(g)
  <2> DEFINE parent == runtimes[g].parent
             ended == [runtimes EXCEPT ![g] = IdleRuntime]
  <2>1. /\ ended[g] = IdleRuntime
        /\ \A h \in GroupIds \ {g} : ended[h] = runtimes[h]
        /\ ended \in [GroupIds -> Runtime]
    BY IdleType DEF TypeInv, TypeOK
  <2>2. ~IdleRuntime.active /\ IdleRuntime.active_count = 0
    BY DEF IdleRuntime
  <2>3. \/ runtimes' = ended
        \/ runtimes' = [ended EXCEPT ![parent].child_count = @ - 1] /\ ended[parent].active
    BY <1>3 DEF EndGroup
  <2>4. parent \in GroupIds \cup {NoGroup}
    BY DEF TypeInv, TypeOK, Runtime
  <2>5. parent = NoGroup => runtimes' = ended
    BY <1>3 DEF EndGroup
  <2> HIDE DEF ended, parent
  <2>6. \A h \in GroupIds : /\ runtimes'[h].active = ended[h].active
                            /\ runtimes'[h].active_count = ended[h].active_count
                            /\ runtimes'[h].pending = ended[h].pending
    BY <2>1, <2>3, <2>4, <2>5 DEF Runtime
  <2>7. EntriesKept
    BY <1>1, <2>1, <2>2, <2>6 DEF EntriesKept
  <2>8. RootOutlivesItsWork'
    <3>1. CASE g = Root
      <4>1. \A h \in GroupIds : IsActive(h) => h = Root
        BY <1>1, <3>1, LoneRoot DEF TypeInv
      <4>2. \A h \in GroupIds : ~runtimes'[h].active
        BY <3>1, <4>1, <2>1, <2>2, <2>6 DEF IsActive
      <4>3. executing = <<>>
        <5>1. \A k \in DOMAIN executing : FALSE
          BY <1>1, <3>1, <4>1, EntryType DEF ExecutingIsSound, IsOrphan, TypeInv
        <5>2. executing \in Seq(Executing)
          BY DEF TypeInv, TypeOK
        <5>3. Len(executing) \notin Nat \ {0}
          <6> SUFFICES ASSUME Len(executing) \in Nat \ {0} PROVE FALSE
            OBVIOUS
          <6>1. 1 \in DOMAIN executing
            BY <5>2
          <6> QED
            BY <5>1, <6>1
        <5> QED
          BY <5>2, <5>3, EmptySeq
      <4>4. state' = "kCompleted"
        BY <1>3, <3>1 DEF EndGroup
      <4> QED
        BY <1>1, <4>2, <4>3, <4>4, GroupAssumption DEF RootOutlivesItsWork, IsActive
    <3>2. CASE g # Root
      <4>1. state' = state
        BY <1>3, <3>2 DEF EndGroup
      <4>2. runtimes'[Root].active = runtimes[Root].active
        BY <3>2, <2>1, <2>6, GroupAssumption
      <4>3. \A h \in GroupIds : runtimes'[h].active => IsActive(h)
        BY <2>1, <2>2, <2>6 DEF IsActive
      <4> QED
        BY <1>1, <4>1, <4>2, <4>3 DEF RootOutlivesItsWork, IsActive
    <3> QED
      BY <3>1, <3>2
  <2> QED
    BY <1>3, <2>7, <2>8, KeptEntriesAreSound, TreeEnd DEF TypeInv
<1> QED
  BY <1>2, <1>3

(* DispatchDueInstruction keeps the structural invariant.                  *)
LEMMA StructPick ==
    ASSUME StructInv, TypeInv', NEW g \in GroupIds,
           PickStartsChild(g) \/ PickRejectsCall(g) \/ PickExecutes(g)
    PROVE  StructInv'
<1> USE DEF StructInv
<1> DEFINE k == NextSlot(g)
           moved == CursorMoved(g, k)
<1>1. /\ IsActive(g) /\ runtimes[g].pending # {}
      /\ instructions' = instructions /\ state' = state
  BY DEF PickStartsChild, PickRejectsCall, PickExecutes, PicksNext, IsDue
<1>2. IsActive(Root) /\ state = "kActive"
  BY <1>1 DEF RootOutlivesItsWork
<1>3. /\ moved \in [GroupIds -> Runtime]
      /\ \A h \in GroupIds :
            /\ moved[h].active = runtimes[h].active
            /\ moved[h].active_count = runtimes[h].active_count
            /\ moved[h].child_count = runtimes[h].child_count
            /\ moved[h].parent = runtimes[h].parent
            /\ moved[h].depth = runtimes[h].depth
            /\ moved[h].pending \subseteq runtimes[h].pending
  BY CursorMovedType DEF TypeInv
<1>4. ASSUME runtimes' = moved, executing' = executing PROVE StructInv'
  <2>1. EntriesKept /\ SameTree
    BY <1>1, <1>3, <1>4 DEF EntriesKept, SameTree
  <2>2. RootOutlivesItsWork'
    BY <1>1, <1>2, <2>1, GroupAssumption DEF RootOutlivesItsWork, SameTree, IsActive
  <2> QED
    BY <2>1, <2>2, KeptEntriesAreSound, SameTreeIsSound DEF TypeInv
<1>5. CASE PickRejectsCall(g)
  BY <1>4, <1>5 DEF PickRejectsCall
<1>6. CASE PickStartsChild(g)
  <2> DEFINE child == instructions[k].target
             started == StartedRuntime(child, timestamp, instructions[k].repeats, g)
  <2>1. instructions[k] \in Instruction
    BY <1>1, NextSlotType
  <2>2. child \in GroupIds /\ ~IsActive(child) /\ child # g /\ child # Root
    BY <1>1, <1>6, <2>1 DEF PickStartsChild, CanStart, Instruction
  <2>3. runtimes' = [moved EXCEPT ![child] = started, ![g].child_count = @ + 1]
    BY <1>6 DEF PickStartsChild
  <2>4. started.active_count = 0
    BY DEF StartedRuntime
  <2> HIDE DEF started, child, moved, k
  <2>5. /\ runtimes'[child] = started
        /\ \A h \in GroupIds \ {child} :
              /\ runtimes'[h].active = moved[h].active
              /\ runtimes'[h].active_count = moved[h].active_count
              /\ runtimes'[h].pending = moved[h].pending
    BY <1>3, <2>2, <2>3 DEF Runtime
  <2>6. SlotsExecuting(child) = {}
    BY <2>2, NoRunningWork DEF TypeInv
  <2>7. executing' = executing
    BY <1>6 DEF PickStartsChild
  <2>8. EntriesKept
    BY <1>1, <1>3, <2>4, <2>5, <2>6, <2>7 DEF EntriesKept
  <2>9. RootOutlivesItsWork'
    BY <1>1, <1>2, <1>3, <2>2, <2>5, GroupAssumption DEF RootOutlivesItsWork, IsActive
  <2> QED
    BY <1>6, <2>8, <2>9, KeptEntriesAreSound, TreeStartsChild DEF TypeInv
<1>7. CASE PickExecutes(g)
  <2> DEFINE deadline == Later(timestamp, ExecuteDelay(k))
  <2>1. \/ runtimes' = moved /\ executing' = executing
        \/ /\ runtimes' = [moved EXCEPT ![g].active_count = @ + 1]
           /\ executing' = Append(executing, [slot |-> k, runtime |-> g,
                                              deadline |-> deadline])
    BY <1>7 DEF PickExecutes
  <2>2. CASE runtimes' = moved /\ executing' = executing
    BY <1>4, <2>2
  <2>3. CASE /\ runtimes' = [moved EXCEPT ![g].active_count = @ + 1]
             /\ executing' = Append(executing, [slot |-> k, runtime |-> g,
                                                deadline |-> deadline])
    <3>1. deadline \in Time
      <4>1. k \in DOMAIN instructions
        BY <1>1, NextSlotType
      <4>2. ExecuteDelay(k) \in Int
        BY <4>1, DelayType DEF TypeInv
      <4>3. timestamp \in Int
        BY TimeIsInt DEF TypeInv, TypeOK
      <4> QED
        BY <4>2, <4>3, LaterType
    <3> HIDE DEF deadline
    <3>2. ExecutingIsSound'
      BY <1>1, <2>3, <3>1, AddedEntryIsSound
    <3>3. SameTree
      <4> HIDE DEF moved
      <4> QED
        BY <1>3, <2>3 DEF SameTree, Runtime
    <3>4. RootOutlivesItsWork'
      BY <1>1, <1>2, <3>3, GroupAssumption DEF RootOutlivesItsWork, SameTree, IsActive
    <3> QED
      BY <3>2, <3>3, <3>4, SameTreeIsSound
  <2> QED
    BY <2>1, <2>2, <2>3
<1> QED
  BY <1>5, <1>6, <1>7

(* Every step keeps the structural invariant.                              *)
LEMMA StructNext ==
    ASSUME StructInv, [Next]_vars
    PROVE  StructInv'
<1>1. TypeInv'
  BY TypeNext DEF StructInv
<1>2. CASE Call
  BY <1>1, <1>2, StructCall
<1>3. CASE RunStep
  <2>1. CASE DrainResumes \/ DrainRemoves
    BY <1>1, <2>1, StructDrain
  <2>2. CASE DrainDone \/ CompleteDone \/ PickDone \/ ScheduleNextRun
    BY <1>1, <2>2, StructIdle
    DEF DrainDone, CompleteDone, PickDone, ScheduleNextRun, programVars
  <2>3. CASE \E g \in scan : RestartGroup(g) \/ EndGroup(g)
    BY <1>1, <2>3, StructComplete DEF StructInv, TypeInv, TypeOK
  <2>4. CASE \E g \in GroupIds : PickStartsChild(g) \/ PickRejectsCall(g) \/ PickExecutes(g)
    BY <1>1, <2>4, StructPick
  <2> QED
    BY <1>3, <2>1, <2>2, <2>3, <2>4, Zenon DEF RunStep
<1>4. CASE RunCall
  BY <1>1, <1>4, StructIdle DEF RunCall, RunWhenNotActive, RunBegin
<1>5. CASE Tick
  BY <1>1, <1>5, StructIdle DEF Tick, programVars
<1>6. CASE UNCHANGED vars
  BY <1>1, <1>6, StructIdle DEF vars, programVars
<1> QED
  BY <1>2, <1>3, <1>4, <1>5, <1>6 DEF Next

(* The structural invariant holds in every behaviour of the controller.    *)
THEOREM StructureCorrect == Spec => []StructInv
<1>1. Init => StructInv
  BY StructInit
<1>2. StructInv /\ [Next]_vars => StructInv'
  BY StructNext
<1> QED
  BY <1>1, <1>2, PTL DEF Spec

(* The executing list of every behaviour holds no instruction twice, only  *)
(* work of active groups, and is what the groups' counts say it is.        *)
THEOREM ExecutingSound == Spec => []ExecutingIsSound
<1>1. StructInv => ExecutingIsSound
  BY DEF StructInv
<1> QED
  BY <1>1, StructureCorrect, PTL

(* The group invocations of every behaviour form a tree below the root,    *)
(* with exact child counts.                                                *)
THEOREM CallTreeSound == Spec => []CallTreeIsSound
<1>1. StructInv => CallTreeIsSound
  BY DEF StructInv
<1> QED
  BY <1>1, StructureCorrect, PTL

(* No behaviour completes the program while a group or a timed instruction *)
(* is still at work.                                                       *)
THEOREM RootOutlives == Spec => []RootOutlivesItsWork
<1>1. StructInv => RootOutlivesItsWork
  BY DEF StructInv
<1> QED
  BY <1>1, StructureCorrect, PTL

-----------------------------------------------------------------------------
(* The effect of each step of Run on the runtimes, field by field.         *)

(* The step keeps the invocation of h, up to its cursor, counts and flag.  *)
SameInvocation(h) ==
    /\ runtimes'[h].active = runtimes[h].active
    /\ runtimes'[h].start_time = runtimes[h].start_time
    /\ runtimes'[h].parent = runtimes[h].parent
    /\ runtimes'[h].depth = runtimes[h].depth

(* A boundary flag that the step sets belongs to r or one of its callers.  *)
FlagFrom(h, r) ==
    runtimes'[h].positive_boundary_observed =>
        runtimes[h].positive_boundary_observed \/ h \in BoundaryChain(r)

(* ObservePositiveBoundary sets the flags along the chain only.            *)
LEMMA ObserveFlags ==
    ASSUME TypeOK, NEW r, NEW h \in GroupIds,
           ObservePositiveBoundary(r)[h].positive_boundary_observed
    PROVE  runtimes[h].positive_boundary_observed \/ h \in BoundaryChain(r)
<1>1. CASE h \in BoundaryChain(r)
  BY <1>1
<1>2. CASE h \notin BoundaryChain(r)
  BY <1>2, Zenon DEF ObservePositiveBoundary
<1> QED
  BY <1>1, <1>2

(* CursorMoved sets the flags along the chain, and only for a positive     *)
(* mark.                                                                   *)
LEMMA CursorMovedFlags ==
    ASSUME TypeOK, NEW g \in GroupIds, NEW k, NEW h \in GroupIds,
           CursorMoved(g, k)[h].positive_boundary_observed
    PROVE  \/ runtimes[h].positive_boundary_observed
           \/ h \in BoundaryChain(g) /\ instructions[k].mark > 0
<1> DEFINE observed == IF instructions[k].mark > 0 THEN ObservePositiveBoundary(g)
                                                   ELSE runtimes
<1>1. observed \in [GroupIds -> Runtime]
  BY ObserveType DEF TypeOK
<1>2. CursorMoved(g, k) = [observed EXCEPT ![g].pending = @ \ {k}]
  BY DEF CursorMoved
<1> HIDE DEF observed
<1>3. CursorMoved(g, k)[h].positive_boundary_observed
        = observed[h].positive_boundary_observed
  BY <1>1, <1>2, ZenonT(40) DEF Runtime
<1>4. observed[h].positive_boundary_observed
  BY <1>3
<1>5. CASE instructions[k].mark > 0
  <2>1. ObservePositiveBoundary(g)[h].positive_boundary_observed
    BY <1>4, <1>5 DEF observed
  <2> QED
    BY <1>5, <2>1, ObserveFlags
<1>6. CASE ~(instructions[k].mark > 0)
  BY <1>4, <1>6 DEF observed
<1> QED
  BY <1>5, <1>6

(* DrainExecuting: the entry it handles belongs to an active group and is  *)
(* due; it keeps its place with a later deadline or leaves the list, and   *)
(* no cursor moves.                                                        *)
Drains(k) ==
    /\ k \in DOMAIN executing
    /\ executing[k] \in Executing
    /\ executing[k].slot \in DOMAIN instructions
    /\ executing[k].slot \in Members(instructions, executing[k].runtime)
    /\ IsActive(executing[k].runtime)
    /\ DeadlineReached(timestamp, executing[k].deadline)
    /\ Execute(executing[k].slot)
    /\ \A h \in GroupIds : /\ SameInvocation(h)
                           /\ FlagFrom(h, executing[k].runtime)
                           /\ runtimes'[h].pending = runtimes[h].pending
                           /\ runtimes'[h].child_count = runtimes[h].child_count
    /\ \/ /\ ExecuteDelay(executing[k].slot) # 0
          /\ executing' = [executing EXCEPT ![k].deadline =
                             Later(timestamp, ExecuteDelay(executing[k].slot))]
          /\ position' = k + 1
       \/ /\ ExecuteDelay(executing[k].slot) = 0
          /\ executing' = SwapRemove(executing, k)
          /\ position' = k

(* A step of DrainExecuting has this effect on some entry.                 *)
LEMMA DrainEffect ==
    ASSUME StructInv, DrainResumes \/ DrainRemoves
    PROVE  \E k \in DOMAIN executing : Drains(k)
<1> USE DEF StructInv
<1>1. ASSUME NEW k \in DOMAIN executing, DrainsNext(k)
      PROVE  /\ executing[k] \in Executing
             /\ executing[k].runtime \in GroupIds
             /\ executing[k].slot \in DOMAIN instructions
             /\ executing[k].slot \in Members(instructions, executing[k].runtime)
             /\ ~IsOrphan(executing[k])
             /\ IsActive(executing[k].runtime)
             /\ DeadlineReached(timestamp, executing[k].deadline)
  <2>1. executing[k] \in Executing /\ executing[k].runtime \in GroupIds
    BY EntryType DEF TypeInv
  <2>2. ~IsOrphan(executing[k])
        /\ executing[k].slot \in Members(instructions, executing[k].runtime)
    BY DEF ExecutingIsSound
  <2> QED
    BY <1>1, <2>1, <2>2, MembersType DEF DrainsNext, NeedsDrain, IsOrphan, TypeInv
<1>2. CASE DrainResumes
  <2>1. PICK k \in DOMAIN executing :
          /\ DrainsNext(k)
          /\ ExecuteDelay(executing[k].slot) # 0
          /\ Execute(executing[k].slot)
          /\ runtimes' = ObservePositiveBoundary(executing[k].runtime)
          /\ executing' = [executing EXCEPT ![k].deadline =
                             Later(timestamp, ExecuteDelay(executing[k].slot))]
          /\ position' = k + 1
    BY <1>2 DEF DrainResumes
  <2>2. \A h \in GroupIds : /\ SameInvocation(h)
                            /\ runtimes'[h].pending = runtimes[h].pending
                            /\ runtimes'[h].child_count = runtimes[h].child_count
    BY <2>1, ObserveType DEF SameInvocation, TypeInv
  <2>3. \A h \in GroupIds : FlagFrom(h, executing[k].runtime)
    BY <2>1, ObserveFlags, Zenon DEF FlagFrom, TypeInv
  <2> QED
    BY <1>1, <2>1, <2>2, <2>3, Zenon DEF Drains
<1>3. CASE DrainRemoves
  <2>1. PICK k \in DOMAIN executing :
          /\ DrainsNext(k)
          /\ executing' = SwapRemove(executing, k)
          /\ position' = k
          /\ ~IsOrphan(executing[k]) =>
               /\ ExecuteDelay(executing[k].slot) = 0
               /\ Execute(executing[k].slot)
               /\ runtimes' = IF runtimes[executing[k].runtime].active_count = 0
                                THEN ObservePositiveBoundary(executing[k].runtime)
                                ELSE [ObservePositiveBoundary(executing[k].runtime) EXCEPT
                                        ![executing[k].runtime].active_count = @ - 1]
    BY <1>3 DEF DrainRemoves
  <2> DEFINE r == executing[k].runtime
             observed == ObservePositiveBoundary(r)
  <2>2. ~IsOrphan(executing[k]) /\ r \in GroupIds
    BY <1>1, <2>1
  <2>3. \/ runtimes' = observed
        \/ runtimes' = [observed EXCEPT ![r].active_count = @ - 1]
    BY <2>1, <2>2
  <2>4. /\ observed \in [GroupIds -> Runtime]
        /\ \A h \in GroupIds : /\ observed[h].active = runtimes[h].active
                               /\ observed[h].start_time = runtimes[h].start_time
                               /\ observed[h].pending = runtimes[h].pending
                               /\ observed[h].child_count = runtimes[h].child_count
                               /\ observed[h].parent = runtimes[h].parent
                               /\ observed[h].depth = runtimes[h].depth
    BY ObserveType DEF TypeInv
  <2>5. \A h \in GroupIds :
          observed[h].positive_boundary_observed =>
            runtimes[h].positive_boundary_observed \/ h \in BoundaryChain(r)
    BY ObserveFlags DEF TypeInv
  <2> HIDE DEF observed, r
  <2>6. \A h \in GroupIds : /\ SameInvocation(h)
                            /\ runtimes'[h].pending = runtimes[h].pending
                            /\ runtimes'[h].child_count = runtimes[h].child_count
    BY <2>2, <2>3, <2>4 DEF SameInvocation, Runtime
  <2>7. \A h \in GroupIds : runtimes'[h].positive_boundary_observed
                              = observed[h].positive_boundary_observed
    BY <2>2, <2>3, <2>4 DEF Runtime
  <2>8. \A h \in GroupIds : FlagFrom(h, r)
    BY <2>5, <2>7, Zenon DEF FlagFrom
  <2> USE DEF r
  <2> QED
    BY <1>1, <2>1, <2>2, <2>6, <2>8, Zenon DEF Drains
<1> QED
  BY <1>2, <1>3

(* CompleteReadyGroups, another pass: a ready group of which a boundary    *)
(* was observed begins again at this timestamp, its place in the tree      *)
(* unchanged; nothing happens to the others.                               *)
Restarts(g) ==
    /\ IsReady(g)
    /\ runtimes[g].positive_boundary_observed
    /\ SlotsExecuting(g) = {}
    /\ Children(g) = {}
    /\ runtimes'[g].active
    /\ runtimes'[g].pending = Members(instructions, g)
    /\ runtimes'[g].start_time = timestamp
    /\ ~runtimes'[g].positive_boundary_observed
    /\ runtimes'[g].parent = runtimes[g].parent
    /\ runtimes'[g].depth = runtimes[g].depth
    /\ \A h \in GroupIds \ {g} : runtimes'[h] = runtimes[h]

(* RestartGroup has this effect: its parent is never gone.                 *)
LEMMA RestartEffect ==
    ASSUME StructInv, NEW g \in GroupIds, RestartGroup(g)
    PROVE  Restarts(g)
<1> USE DEF StructInv
<1>1. /\ IsReady(g) /\ IsActive(g)
      /\ runtimes[g].child_count = 0 /\ runtimes[g].active_count = 0
  BY DEF RestartGroup, CompletesNext, IsReady
<1>2. runtimes[g].positive_boundary_observed
  BY Zenon DEF RestartGroup, MayRepeat
<1>3. SlotsExecuting(g) = {} /\ Children(g) = {}
  BY <1>1, NoRunningWork, TreeFacts DEF TypeInv
<1> DEFINE repeats == runtimes[g].repeats_remaining
           next == IF repeats = Forever THEN Forever ELSE repeats - 1
           started == StartedRuntime(g, timestamp, next, runtimes[g].parent)
<1>4. ParentAllowsStart(runtimes[g].parent)
  BY <1>1 DEF CallTreeIsSound, ParentAllowsStart
<1>5. runtimes' = [runtimes EXCEPT ![g] = started]
  BY <1>4 DEF RestartGroup
<1>6. /\ started.active
      /\ started.pending = Members(instructions, g)
      /\ started.start_time = timestamp
      /\ ~started.positive_boundary_observed
      /\ started.parent = runtimes[g].parent
      /\ started.depth = DepthBelow(g, runtimes[g].parent)
  BY DEF StartedRuntime
<1>7. DepthBelow(g, runtimes[g].parent) = runtimes[g].depth
  BY <1>1, NullAssumption DEF DepthBelow, CallTreeIsSound
<1> HIDE DEF started
<1>8. /\ runtimes'[g] = started
      /\ \A h \in GroupIds \ {g} : runtimes'[h] = runtimes[h]
  BY <1>5 DEF TypeInv, TypeOK
<1> QED
  BY <1>1, <1>2, <1>3, <1>6, <1>7, <1>8, Zenon DEF Restarts

(* CompleteReadyGroups, the end of a group: its runtime is cleared, and    *)
(* the others keep all but their count of children.                        *)
Ends(g) ==
    /\ IsReady(g)
    /\ SlotsExecuting(g) = {}
    /\ Children(g) = {}
    /\ ~runtimes'[g].active
    /\ runtimes'[g].pending = {}
    /\ \A h \in GroupIds \ {g} :
         /\ SameInvocation(h)
         /\ runtimes'[h].pending = runtimes[h].pending
         /\ runtimes'[h].positive_boundary_observed = runtimes[h].positive_boundary_observed
         /\ runtimes'[h].repeats_remaining = runtimes[h].repeats_remaining

(* EndGroup has this effect.                                               *)
LEMMA EndEffect ==
    ASSUME StructInv, NEW g \in GroupIds, EndGroup(g)
    PROVE  Ends(g)
<1> USE DEF StructInv
<1>1. /\ IsReady(g) /\ IsActive(g)
      /\ runtimes[g].child_count = 0 /\ runtimes[g].active_count = 0
  BY DEF EndGroup, CompletesNext, IsReady
<1>2. SlotsExecuting(g) = {} /\ Children(g) = {}
  BY <1>1, NoRunningWork, TreeFacts DEF TypeInv
<1> DEFINE parent == runtimes[g].parent
           ended == [runtimes EXCEPT ![g] = IdleRuntime]
<1>3. /\ ended[g] = IdleRuntime
      /\ \A h \in GroupIds \ {g} : ended[h] = runtimes[h]
      /\ ended \in [GroupIds -> Runtime]
  BY IdleType DEF TypeInv, TypeOK
<1>4. ~IdleRuntime.active /\ IdleRuntime.pending = {}
  BY DEF IdleRuntime
<1>5. \/ runtimes' = ended
      \/ runtimes' = [ended EXCEPT ![parent].child_count = @ - 1] /\ parent # NoGroup
  BY DEF EndGroup
<1>6. parent \in GroupIds \cup {NoGroup}
  BY DEF TypeInv, TypeOK, Runtime
<1> HIDE DEF ended, parent
<1>7. \A h \in GroupIds :
        /\ runtimes'[h].active = ended[h].active
        /\ runtimes'[h].start_time = ended[h].start_time
        /\ runtimes'[h].parent = ended[h].parent
        /\ runtimes'[h].depth = ended[h].depth
        /\ runtimes'[h].pending = ended[h].pending
        /\ runtimes'[h].positive_boundary_observed = ended[h].positive_boundary_observed
        /\ runtimes'[h].repeats_remaining = ended[h].repeats_remaining
  BY <1>3, <1>5, <1>6 DEF Runtime
<1> QED
  BY <1>1, <1>2, <1>3, <1>4, <1>7, ZenonT(40) DEF Ends, SameInvocation

(* DispatchDueInstruction: the cursor of an active group moves past its    *)
(* slot k, which is due; other cursors and the invocations stay.           *)
MovesCursor(g, k, h) ==
    /\ SameInvocation(h)
    /\ runtimes'[h].pending = IF h = g THEN runtimes[g].pending \ {k}
                                       ELSE runtimes[h].pending
    /\ \/ FlagFrom(h, g) /\ instructions[k].mark > 0
       \/ runtimes'[h].positive_boundary_observed
            => runtimes[h].positive_boundary_observed

Picked(g, k) ==
    /\ IsActive(g)
    /\ k \in runtimes[g].pending
    /\ k \in Members(instructions, g)
    /\ k \in DOMAIN instructions
    /\ instructions[k] \in Instruction
    /\ instructions[k].mark <= Elapsed(g)

(* The instruction at the cursor that is picked is one of its group's.     *)
LEMMA PickedIsDue ==
    ASSUME TypeInv, NEW g \in GroupIds, PicksNext(g)
    PROVE  Picked(g, NextSlot(g))
BY NextSlotType DEF Picked, PicksNext, IsDue

(* Moving the cursor alone.                                                *)
LEMMA CursorMovedEffect ==
    ASSUME TypeOK, NEW g \in GroupIds, NEW k, NEW h \in GroupIds,
           runtimes'[h].active = CursorMoved(g, k)[h].active,
           runtimes'[h].start_time = CursorMoved(g, k)[h].start_time,
           runtimes'[h].parent = CursorMoved(g, k)[h].parent,
           runtimes'[h].depth = CursorMoved(g, k)[h].depth,
           runtimes'[h].pending = CursorMoved(g, k)[h].pending,
           runtimes'[h].positive_boundary_observed
             = CursorMoved(g, k)[h].positive_boundary_observed
    PROVE  MovesCursor(g, k, h)
<1> DEFINE moved == CursorMoved(g, k)
<1>3. /\ moved[g].pending = runtimes[g].pending \ {k}
      /\ h # g => moved[h].pending = runtimes[h].pending
      /\ moved[h].active = runtimes[h].active
      /\ moved[h].start_time = runtimes[h].start_time
      /\ moved[h].parent = runtimes[h].parent
      /\ moved[h].depth = runtimes[h].depth
  BY CursorMovedType
<1>1. /\ SameInvocation(h)
      /\ runtimes'[h].pending = IF h = g THEN runtimes[g].pending \ {k}
                                         ELSE runtimes[h].pending
  <2> HIDE DEF moved
  <2>1. h = g => runtimes'[h].pending = runtimes[g].pending \ {k}
    BY <1>3, Zenon DEF moved
  <2>2. h # g => runtimes'[h].pending = runtimes[h].pending
    BY <1>3, Zenon DEF moved
  <2>3. SameInvocation(h)
    BY <1>3, Zenon DEF moved, SameInvocation
  <2> QED
    BY <2>1, <2>2, <2>3
<1>2. runtimes'[h].positive_boundary_observed =>
         \/ runtimes[h].positive_boundary_observed
         \/ h \in BoundaryChain(g) /\ instructions[k].mark > 0
  BY CursorMovedFlags, Zenon
<1> QED
  BY <1>1, <1>2, Zenon DEF MovesCursor, FlagFrom

(* RunGroup, the target can start: it joins the tree with a whole pass to  *)
(* do, at this timestamp.                                                  *)
Launches(g, k, child) ==
    /\ Picked(g, k)
    /\ IsRunGroup(instructions[k])
    /\ child = instructions[k].target
    /\ child \in GroupIds \ {Root, g}
    /\ child \in Labels(instructions)
    /\ ~IsActive(child)
    /\ SlotsExecuting(child) = {}
    /\ Children(child) = {}
    /\ runtimes'[child].active
    /\ runtimes'[child].pending = Members(instructions, child)
    /\ runtimes'[child].start_time = timestamp
    /\ ~runtimes'[child].positive_boundary_observed
    /\ runtimes'[child].parent = g
    /\ \A h \in GroupIds \ {child} : MovesCursor(g, k, h)

(* PickStartsChild has this effect.                                        *)
LEMMA StartsChildEffect ==
    ASSUME StructInv, NEW g \in GroupIds, PickStartsChild(g)
    PROVE  Launches(g, NextSlot(g), instructions[NextSlot(g)].target)
<1> USE DEF StructInv
<1> DEFINE k == NextSlot(g)
           moved == CursorMoved(g, k)
           child == instructions[k].target
           started == StartedRuntime(child, timestamp, instructions[k].repeats, g)
<1>1. Picked(g, k)
  BY PickedIsDue DEF PickStartsChild
<1>2. IsRunGroup(instructions[k]) /\ CanStart(child)
  BY DEF PickStartsChild
<1>3. /\ child \in GroupIds \ {Root, g} /\ child \in Labels(instructions)
      /\ ~IsActive(child)
  BY <1>1, <1>2 DEF Picked, CanStart, Instruction
<1>4. SlotsExecuting(child) = {} /\ Children(child) = {}
  BY <1>3, NoRunningWork, TreeFacts DEF TypeInv
<1>5. runtimes' = [moved EXCEPT ![child] = started, ![g].child_count = @ + 1]
  BY DEF PickStartsChild
<1>6. /\ started.active
      /\ started.pending = Members(instructions, child)
      /\ started.start_time = timestamp
      /\ ~started.positive_boundary_observed
      /\ started.parent = g
  BY DEF StartedRuntime
<1>7. moved \in [GroupIds -> Runtime]
  BY CursorMovedType DEF TypeInv
<1>8. /\ runtimes'[child] = started
      /\ \A h \in GroupIds \ {child} :
           /\ runtimes'[h].active = moved[h].active
           /\ runtimes'[h].start_time = moved[h].start_time
           /\ runtimes'[h].parent = moved[h].parent
           /\ runtimes'[h].depth = moved[h].depth
           /\ runtimes'[h].pending = moved[h].pending
           /\ runtimes'[h].positive_boundary_observed = moved[h].positive_boundary_observed
  <2> HIDE DEF moved, child, started, k
  <2> QED
    BY <1>3, <1>5, <1>7 DEF Runtime
<1>9. \A h \in GroupIds \ {child} : MovesCursor(g, k, h)
  BY <1>8, CursorMovedEffect DEF TypeInv
<1> HIDE DEF started
<1> QED
  BY <1>1, <1>2, <1>3, <1>4, <1>6, <1>8, <1>9, Zenon DEF Launches

(* PickRejectsCall moves the cursor past the call and does nothing else.   *)
LEMMA RejectEffect ==
    ASSUME StructInv, NEW g \in GroupIds, PickRejectsCall(g)
    PROVE  /\ Picked(g, NextSlot(g))
           /\ \A h \in GroupIds : MovesCursor(g, NextSlot(g), h)
<1> USE DEF StructInv
<1>1. runtimes' = CursorMoved(g, NextSlot(g))
  BY DEF PickRejectsCall
<1> QED
  BY <1>1, PickedIsDue, CursorMovedEffect DEF PickRejectsCall, TypeInv

(* PickExecutes moves the cursor past the instruction; a timed one with    *)
(* time left joins the executing list.                                     *)
LEMMA ExecutesEffect ==
    ASSUME StructInv, NEW g \in GroupIds, PickExecutes(g)
    PROVE  /\ Picked(g, NextSlot(g))
           /\ ~IsRunGroup(instructions[NextSlot(g)])
           /\ \A h \in GroupIds : MovesCursor(g, NextSlot(g), h)
           /\ \/ executing' = executing
              \/ /\ ExecuteDelay(NextSlot(g)) # 0
                 /\ executing' =
                      Append(executing,
                             [slot |-> NextSlot(g), runtime |-> g,
                              deadline |-> Later(timestamp, ExecuteDelay(NextSlot(g)))])
<1> USE DEF StructInv
<1> DEFINE k == NextSlot(g)
           moved == CursorMoved(g, k)
           entry == [slot |-> k, runtime |-> g,
                     deadline |-> Later(timestamp, ExecuteDelay(k))]
<1>1. Picked(g, k) /\ ~IsRunGroup(instructions[k])
  BY PickedIsDue DEF PickExecutes
<1>2. \/ runtimes' = moved /\ executing' = executing
      \/ /\ runtimes' = [moved EXCEPT ![g].active_count = @ + 1]
         /\ executing' = Append(executing, entry)
         /\ ExecuteDelay(k) # 0
  BY DEF PickExecutes
<1>3. moved \in [GroupIds -> Runtime]
  BY CursorMovedType DEF TypeInv
<1>4. \A h \in GroupIds :
           /\ runtimes'[h].active = moved[h].active
           /\ runtimes'[h].start_time = moved[h].start_time
           /\ runtimes'[h].parent = moved[h].parent
           /\ runtimes'[h].depth = moved[h].depth
           /\ runtimes'[h].pending = moved[h].pending
           /\ runtimes'[h].positive_boundary_observed = moved[h].positive_boundary_observed
  <2> HIDE DEF moved, k, entry
  <2> QED
    BY <1>2, <1>3 DEF Runtime
<1>5. \A h \in GroupIds : MovesCursor(g, k, h)
  BY <1>4, CursorMovedEffect DEF TypeInv
<1> QED
  BY <1>1, <1>2, <1>5

(* The instruction at a cursor is not executing, so that there is a free   *)
(* entry in the executing list for it.                                     *)
LEMMA ListHasRoom ==
    ASSUME StructInv, NEW g \in GroupIds, NEW k, Picked(g, k)
    PROVE  Len(executing) < MaxInstructions
<1> USE DEF StructInv
<1> DEFINE n == Len(executing)
           free == Slots \ {k}
           f == [j \in 1 .. n |-> executing[j].slot]
<1>1. n \in Nat /\ DOMAIN executing = 1 .. n /\ MaxInstructions \in Nat /\ k \in Slots
  BY MembersType, BoundAssumption DEF TypeInv, TypeOK, Picked
<1>2. ASSUME NEW j \in 1 .. n PROVE executing[j].slot \in free
  <2>1. /\ executing[j].slot \in Slots
        /\ executing[j].slot \in Members(instructions, executing[j].runtime)
        /\ executing[j].slot \notin runtimes[executing[j].runtime].pending
    BY <1>1, EntryType DEF ExecutingIsSound, TypeInv, Executing
  <2>2. executing[j].slot = k => executing[j].runtime = g
    BY <2>1 DEF Members, Picked
  <2> QED
    BY <2>1, <2>2 DEF Picked
<1>3. f \in Injection(1 .. n, free)
  <2>1. f \in [1 .. n -> free]
    BY <1>2
  <2>2. \A i, j \in 1 .. n : f[i] = f[j] => i = j
    BY <1>1 DEF ExecutingIsSound
  <2> HIDE DEF f, free, n
  <2> QED
    BY <2>1, <2>2 DEF Injection, IsInjective
<1>4. IsFiniteSet(free) /\ Cardinality(free) = MaxInstructions - 1
  <2>1. IsFiniteSet(Slots) /\ Cardinality(Slots) = MaxInstructions
    <3>1. 1 \in Int /\ MaxInstructions \in Int /\ ~(1 > MaxInstructions)
      BY BoundAssumption
    <3> QED
      BY <3>1, FS_Interval DEF Slots
  <2> QED
    BY <1>1, <2>1, FS_RemoveElement
<1>5. Cardinality(1 .. n) = n
  <2> HIDE DEF n
  <2> QED
    BY <1>1, FS_Interval
<1>6. Cardinality(1 .. n) <= Cardinality(free)
  <2> HIDE DEF f, free, n
  <2> QED
    BY <1>3, <1>4, FS_Injection
<1> QED
  BY <1>1, <1>4, <1>5, <1>6

(* An instruction that the cursor has not passed has not been started.     *)
PendingIsUnstarted ==
    \A g \in GroupIds : IsActive(g) => \A k \in runtimes[g].pending : ~replay[k].started

-----------------------------------------------------------------------------
(* The labels of active groups.                                            *)

(* Every active group is one of the table's.                               *)
ActiveAreLabelled == \A g \in GroupIds : IsActive(g) => g \in Labels(instructions)

(* Steps that start no group and keep the program keep that.               *)
LEMMA NoneStarted ==
    ASSUME ActiveAreLabelled, instructions' = instructions,
           \A h \in GroupIds : runtimes'[h].active => IsActive(h)
    PROVE  ActiveAreLabelled'
BY DEF ActiveAreLabelled, IsActive

(* Every step keeps the active groups among the labels: the program only   *)
(* changes while no group is active, and RunGroup looks its target up.     *)
LEMMA LabelledNext ==
    ASSUME StructInv, ActiveAreLabelled, [Next]_vars
    PROVE  ActiveAreLabelled'
<1>1. CASE Call
  <2>1. ASSUME NEW instr, AddInstruction(instr) PROVE ActiveAreLabelled'
    <3>1. runtimes' = runtimes
      BY <2>1 DEF AddInstruction
    <3>2. CASE instructions' = instructions
      BY <3>1, <3>2 DEF ActiveAreLabelled, IsActive
    <3>3. CASE instructions' # instructions
      <4>1. state = "kEditable"
        BY <2>1, <3>3 DEF AddInstruction
      <4>2. \A g \in GroupIds : ~IsActive(g)
        BY <4>1 DEF StructInv, RootOutlivesItsWork
      <4> QED
        BY <3>1, <4>2 DEF ActiveAreLabelled, IsActive
    <3> QED
      BY <3>2, <3>3
  <2>2. ASSUME NEW period, SetRefreshPeriodMs(period) PROVE ActiveAreLabelled'
    BY <2>2 DEF SetRefreshPeriodMs, ActiveAreLabelled, IsActive
  <2>3. ASSUME NEW repeats, Start(repeats) PROVE ActiveAreLabelled'
    <3>1. instructions' = instructions
      BY <2>3 DEF Start
    <3>2. CASE runtimes' = runtimes
      BY <3>1, <3>2 DEF ActiveAreLabelled, IsActive
    <3>3. CASE runtimes' # runtimes
      <4>1. \A g \in GroupIds : runtimes'[g] = IdleRuntime \/ g = Root
        BY <2>3, <3>3 DEF Start
      <4>2. ~IdleRuntime.active
        BY DEF IdleRuntime
      <4> QED
        BY <4>1, <4>2 DEF ActiveAreLabelled, IsActive, Labels
    <3> QED
      BY <3>2, <3>3
  <2>4. CASE ResetInstructions
    <3>1. \A g \in GroupIds : ~runtimes'[g].active
      BY <2>4 DEF ResetInstructions, IdleRuntime
    <3> QED
      BY <3>1 DEF ActiveAreLabelled, IsActive
  <2> QED
    BY <1>1, <2>1, <2>2, <2>3, <2>4 DEF Call
<1>2. CASE RunStep
  <2>1. CASE DrainResumes \/ DrainRemoves
    <3>1. \A h \in GroupIds : runtimes'[h].active = runtimes[h].active
      BY <2>1, DrainEffect DEF Drains, SameInvocation
    <3>2. instructions' = instructions
      BY <2>1 DEF DrainResumes, DrainRemoves
    <3> QED
      BY <3>1, <3>2, NoneStarted DEF IsActive
  <2>2. CASE DrainDone \/ CompleteDone \/ PickDone \/ ScheduleNextRun
    BY <2>2, NoneStarted
    DEF DrainDone, CompleteDone, PickDone, ScheduleNextRun, programVars, IsActive
  <2>3. ASSUME NEW g \in GroupIds, RestartGroup(g) \/ EndGroup(g)
        PROVE  ActiveAreLabelled'
    <3>1. instructions' = instructions
      BY <2>3 DEF RestartGroup, EndGroup
    <3>2. CASE RestartGroup(g)
      <4>1. Restarts(g)
        BY <3>2, RestartEffect
      <4>2. \A h \in GroupIds : runtimes'[h].active => IsActive(h)
        BY <4>1 DEF Restarts, IsReady, IsActive
      <4> QED
        BY <3>1, <4>2, NoneStarted
    <3>3. CASE EndGroup(g)
      <4>1. Ends(g)
        BY <3>3, EndEffect
      <4>2. \A h \in GroupIds : runtimes'[h].active => IsActive(h)
        BY <4>1 DEF Ends, SameInvocation, IsReady, IsActive
      <4> QED
        BY <3>1, <4>2, NoneStarted
    <3> QED
      BY <2>3, <3>2, <3>3
  <2>4. ASSUME NEW g \in GroupIds, PickStartsChild(g) PROVE ActiveAreLabelled'
    <3>1. PICK child \in GroupIds : Launches(g, NextSlot(g), child)
      BY <2>4, StartsChildEffect DEF Launches
    <3>2. instructions' = instructions
      BY <2>4 DEF PickStartsChild
    <3> QED
      BY <3>1, <3>2 DEF Launches, MovesCursor, SameInvocation, ActiveAreLabelled, IsActive
  <2>5. ASSUME NEW g \in GroupIds, PickRejectsCall(g) \/ PickExecutes(g)
        PROVE  ActiveAreLabelled'
    <3>1. \A h \in GroupIds : MovesCursor(g, NextSlot(g), h)
      BY <2>5, RejectEffect, ExecutesEffect
    <3>2. instructions' = instructions
      BY <2>5 DEF PickRejectsCall, PickExecutes
    <3>3. \A h \in GroupIds : runtimes'[h].active => IsActive(h)
      BY <3>1 DEF MovesCursor, SameInvocation, IsActive
    <3> QED
      BY <3>2, <3>3, NoneStarted
  <2>6. scan \subseteq GroupIds
    BY DEF StructInv, TypeInv, TypeOK
  <2> QED
    BY <1>2, <2>1, <2>2, <2>3, <2>4, <2>5, <2>6, Zenon DEF RunStep
<1>3. CASE RunCall
  BY <1>3, NoneStarted DEF RunCall, RunWhenNotActive, RunBegin, IsActive
<1>4. CASE Tick
  BY <1>4, NoneStarted DEF Tick, programVars, IsActive
<1>5. CASE UNCHANGED vars
  BY <1>5, NoneStarted DEF vars, programVars, IsActive
<1> QED
  BY <1>1, <1>2, <1>3, <1>4, <1>5 DEF Next

(* No group is active in a constructed controller.                         *)
LEMMA LabelledInit == Init => ActiveAreLabelled
BY DEF Init, IdleRuntime, IsActive, ActiveAreLabelled
-----------------------------------------------------------------------------
(* Depth: PickDueInstructions looks as deep as the table has groups.       *)

(* There is an active group at every depth above an active group: the      *)
(* nearest depth without one would be that of the parent of a group.       *)
LEMMA EveryDepthIsTaken ==
    ASSUME TypeOK, CallTreeIsSound, NEW g \in GroupIds, IsActive(g),
           NEW d \in 0 .. runtimes[g].depth
    PROVE  \E h \in GroupIds : IsActive(h) /\ runtimes[h].depth = d
<1> DEFINE D == runtimes[g].depth
           Taken(n) == \E h \in GroupIds : IsActive(h) /\ runtimes[h].depth = n
           missing == {n \in 0 .. D : ~Taken(D - n)}
<1>1. \A h \in GroupIds : runtimes[h].depth \in Nat
  BY DEF TypeOK, Runtime
<1>2. missing \subseteq Nat
  BY <1>1
<1>3. ASSUME missing # {} PROVE FALSE
  <2>1. PICK m \in missing : \A n \in missing : m <= n
    <3> HIDE DEF missing
    <3> QED
      BY <1>2, <1>3, LeastNat
  <2>2. m \in 0 .. D /\ ~Taken(D - m)
    BY <2>1
  <2>3. m # 0
    <3>1. Taken(D)
      OBVIOUS
    <3>2. D - 0 = D
      BY <1>1
    <3> QED
      BY <2>2, <3>1, <3>2
  <2>4. m - 1 \in 0 .. D /\ m - 1 \notin missing
    <3> HIDE DEF missing, Taken
    <3> QED
      BY <1>1, <2>1, <2>2, <2>3
  <2>5. Taken(D - (m - 1))
    BY <2>4
  <2>6. PICK h \in GroupIds : IsActive(h) /\ runtimes[h].depth = D - (m - 1)
    BY <2>5
  <2>7. runtimes[h].depth # 0
    BY <1>1, <2>2, <2>3, <2>6
  <2>8. /\ runtimes[h].parent \in GroupIds
        /\ IsActive(runtimes[h].parent)
        /\ runtimes[h].depth = runtimes[runtimes[h].parent].depth + 1
    BY <2>6, <2>7 DEF CallTreeIsSound
  <2>9. runtimes[runtimes[h].parent].depth = D - m
    BY <1>1, <2>2, <2>6, <2>8
  <2> QED
    BY <2>2, <2>8, <2>9
<1>4. D - d \in 0 .. D /\ D - (D - d) = d
  BY <1>1
<1> QED
  BY <1>3, <1>4

(* The active groups are no more than the labels, and each depth down to   *)
(* the deepest takes one of them.                                          *)
LEMMA DepthsAreBounded ==
    ASSUME StructInv, ActiveAreLabelled
    PROVE  DepthIsScanned
<1> SUFFICES ASSUME NEW g \in GroupIds, IsActive(g)
             PROVE  runtimes[g].depth < Cardinality(Labels(instructions))
  BY DEF DepthIsScanned, ActiveAreLabelled
<1> DEFINE D == runtimes[g].depth
           upper == {h \in GroupIds : IsActive(h) /\ runtimes[h].depth \in 0 .. D}
           f == [h \in upper |-> runtimes[h].depth]
<1>1. D \in Nat
  BY DEF StructInv, TypeInv, TypeOK, Runtime
<1>2. IsFiniteSet(upper)
  <2>1. upper \in SUBSET GroupIds
    OBVIOUS
  <2> QED
    BY <2>1, GroupAssumption, FS_Subset
<1>3. f \in Surjection(upper, 0 .. D)
  <2>1. f \in [upper -> 0 .. D]
    OBVIOUS
  <2>2. ASSUME NEW d \in 0 .. D PROVE \E h \in upper : f[h] = d
    BY EveryDepthIsTaken DEF StructInv, TypeInv
  <2> QED
    BY <2>1, <2>2 DEF Surjection
<1>4. Cardinality(0 .. D) <= Cardinality(upper)
  <2> HIDE DEF f, upper
  <2> QED
    BY <1>2, <1>3, FS_Surjection
<1>5. Cardinality(0 .. D) = D + 1
  <2> HIDE DEF D
  <2> QED
    BY <1>1, FS_Interval
<1>6. Labels(instructions) \subseteq GroupIds
  <2>1. \A k \in DOMAIN instructions : instructions[k].group \in GroupIds
    BY SlotType DEF Instruction, StructInv, TypeInv
  <2> QED
    BY <2>1, GroupAssumption DEF Labels
<1>7. IsFiniteSet(Labels(instructions))
  BY <1>6, GroupAssumption, FS_Subset
<1>8. upper \in SUBSET Labels(instructions)
  BY DEF ActiveAreLabelled
<1>9. Cardinality(upper) <= Cardinality(Labels(instructions))
  <2> HIDE DEF upper
  <2> QED
    BY <1>7, <1>8, FS_Subset
<1>10. Cardinality(upper) \in Nat /\ Cardinality(Labels(instructions)) \in Nat
  <2> HIDE DEF upper
  <2> QED
    BY <1>2, <1>7, FS_CardinalityType
<1> HIDE DEF upper, D
<1>11. D < Cardinality(Labels(instructions))
  BY <1>1, <1>4, <1>5, <1>9, <1>10
<1> QED
  BY <1>11 DEF D

(* In every behaviour each active group is a label of the program and is   *)
(* nested less deep than PickDueInstructions looks, so that no group is    *)
(* ever passed over.                                                       *)
THEOREM DepthScanned == Spec => []DepthIsScanned
<1>1. StructInv /\ ActiveAreLabelled => DepthIsScanned
  BY DepthsAreBounded
<1>2. Init => ActiveAreLabelled
  BY LabelledInit
<1>3. StructInv /\ ActiveAreLabelled /\ [Next]_vars => ActiveAreLabelled'
  BY LabelledNext
<1> QED
  BY <1>1, <1>2, <1>3, StructureCorrect, PTL DEF Spec

-----------------------------------------------------------------------------
(* Shown writes.                                                           *)

(* Outside Run nothing is unshown, and inside it a write has asked for the *)
(* show that ends the Run.                                                 *)
WritesAskForShow ==
    /\ pc \in {"idle", "tick"} => ~unshown
    /\ unshown => show_requested

(* Executing an instruction keeps the request of an earlier one.           *)
LEMMA ExecuteAsks ==
    ASSUME NEW k, WritesAskForShow, Execute(k), pc \in {"drain", "pick"}, pc' = pc
    PROVE  WritesAskForShow'
<1>1. unshown' => show_requested'
  BY Zenon DEF Execute, WritesAskForShow
<1>2. pc' \notin {"idle", "tick"}
  OBVIOUS
<1> QED
  BY <1>1, <1>2 DEF WritesAskForShow

(* Every step keeps the request until the show.                            *)
LEMMA ShowNext ==
    ASSUME StructInv, WritesAskForShow, [Next]_vars
    PROVE  WritesAskForShow'
<1> USE DEF WritesAskForShow
<1>1. CASE Call
  <2>1. pc = "idle" /\ ~unshown /\ unshown' = unshown
    BY <1>1 DEF Call, AddInstruction, SetRefreshPeriodMs, Start, ResetInstructions, worldVars
  <2> QED
    BY <2>1
<1>2. CASE DrainResumes \/ DrainRemoves
  <2>1. PICK k \in DOMAIN executing : Execute(executing[k].slot)
    BY <1>2, DrainEffect DEF Drains
  <2>2. pc = "drain" /\ pc' = pc
    BY <1>2 DEF DrainResumes, DrainRemoves
  <2> QED
    BY <2>1, <2>2, ExecuteAsks
<1>3. ASSUME NEW g, PickExecutes(g) PROVE WritesAskForShow'
  BY <1>3, ExecuteAsks DEF PickExecutes, PicksNext
<1>4. CASE ScheduleNextRun
  <2>1. unshown' = (unshown /\ ~show_requested)
    BY <1>4, Zenon DEF ScheduleNextRun
  <2>2. ~unshown'
    BY <2>1, Zenon
  <2> QED
    BY <2>2
<1>5. CASE DrainDone \/ CompleteDone \/ PickDone
  <2>1. pc' \notin {"idle", "tick"} /\ unshown' = unshown /\ show_requested' = show_requested
    BY <1>5 DEF DrainDone, CompleteDone, PickDone, NextLoop, programVars, worldVars
  <2> QED
    BY <2>1
<1>6. ASSUME NEW g, RestartGroup(g) \/ EndGroup(g) PROVE WritesAskForShow'
  <2>1. pc = "complete" /\ pc' = pc /\ unshown' = unshown /\ show_requested' = show_requested
    BY <1>6 DEF RestartGroup, EndGroup, CompletesNext, worldVars
  <2> QED
    BY <2>1
<1>7. ASSUME NEW g, PickStartsChild(g) \/ PickRejectsCall(g) PROVE WritesAskForShow'
  <2>1. /\ pc' \in {"drain", "pick"}
        /\ unshown' = unshown /\ show_requested' = show_requested
    BY <1>7 DEF PickStartsChild, PickRejectsCall, PicksNext, worldVars
  <2> QED
    BY <2>1
<1>8. CASE RunCall
  <2>1. pc \in {"idle", "tick"} /\ ~unshown /\ unshown' = unshown
    BY <1>8 DEF RunCall, RunWhenNotActive, RunBegin
  <2> QED
    BY <2>1
<1>9. CASE Tick \/ UNCHANGED vars
  <2>1. pc' = pc /\ unshown' = unshown /\ show_requested' = show_requested
    BY <1>9 DEF Tick, vars, programVars, runVars, worldVars
  <2> QED
    BY <2>1
<1> HIDE DEF WritesAskForShow
<1> QED
  BY <1>1, <1>2, <1>3, <1>4, <1>5, <1>6, <1>7, <1>8, <1>9, Zenon DEF Next, RunStep

(* In every behaviour no Run returns with an LED written and not shown,    *)
(* whichever of its rounds wrote it.                                       *)
THEOREM WritesShown == Spec => []WritesAreShown
<1>1. WritesAskForShow => WritesAreShown
  BY DEF WritesAskForShow, WritesAreShown
<1>2. Init => WritesAskForShow
  BY DEF Init, WritesAskForShow
<1>3. StructInv /\ WritesAskForShow /\ [Next]_vars => WritesAskForShow'
  BY ShowNext
<1> QED
  BY <1>1, <1>2, <1>3, StructureCorrect, PTL DEF Spec
-----------------------------------------------------------------------------
(* Rest: what each loop of Run has established when no loop before it made *)
(* progress in this round.                                                 *)

NothingDrains == \A k \in DOMAIN executing : ~NeedsDrain(executing[k])

NothingReady == \A g \in GroupIds : ~IsReady(g)

NothingDue == \A g \in GroupIds : ~IsDue(g)

RoundIsExhaustive ==
    /\ pc = "drain" /\ ~progressed => position = 1
    /\ pc = "complete" /\ ~progressed => NothingDrains /\ scan = Labels(instructions)
    /\ pc = "pick" /\ ~progressed => NothingDrains /\ NothingReady
    /\ pc = "schedule" => NothingDrains /\ NothingReady /\ NothingDue
    /\ pc = "idle" /\ state = "kActive" => NothingDrains /\ NothingReady /\ NothingDue

(* A step that keeps what the three questions depend on keeps the answers. *)
LEMMA SameQuestions ==
    ASSUME instructions' = instructions, runtimes' = runtimes, executing' = executing,
           timestamp' = timestamp
    PROVE  /\ NothingDrains' <=> NothingDrains
           /\ NothingReady' <=> NothingReady
           /\ NothingDue' <=> NothingDue
BY DEF NothingDrains, NothingReady, NothingDue, NeedsDrain, IsOrphan, IsReady, IsDue,
       IsActive, NextSlot, Elapsed

(* A loop that makes progress owes nothing before the next round.          *)
LEMMA ProgressIsRecorded ==
    ASSUME pc' = pc, pc \in {"drain", "complete", "pick"}, progressed'
    PROVE  RoundIsExhaustive'
<1>1. pc' \notin {"schedule", "idle"}
  OBVIOUS
<1> QED
  BY <1>1, Zenon DEF RoundIsExhaustive

(* Every step keeps what the loops have established.                       *)
LEMMA RoundNext ==
    ASSUME StructInv, ActiveAreLabelled, RoundIsExhaustive, [Next]_vars
    PROVE  RoundIsExhaustive'
<1>1. CASE Call
  <2>1. CASE state' = "kActive" /\ pc' = "idle"
    <3>1. /\ pc = "idle" /\ state = "kActive"
          /\ instructions' = instructions /\ runtimes' = runtimes
          /\ executing' = executing /\ timestamp' = timestamp
      <4>1. ASSUME NEW instr, AddInstruction(instr)
            PROVE  /\ pc = "idle" /\ state = "kActive"
                   /\ instructions' = instructions /\ runtimes' = runtimes
                   /\ executing' = executing /\ timestamp' = timestamp
        BY <2>1, <4>1 DEF AddInstruction, runVars
      <4>2. ASSUME NEW period, SetRefreshPeriodMs(period)
            PROVE  /\ pc = "idle" /\ state = "kActive"
                   /\ instructions' = instructions /\ runtimes' = runtimes
                   /\ executing' = executing /\ timestamp' = timestamp
        BY <2>1, <4>2 DEF SetRefreshPeriodMs, runVars
      <4>3. ASSUME NEW repeats, Start(repeats)
            PROVE  /\ pc = "idle" /\ state = "kActive"
                   /\ instructions' = instructions /\ runtimes' = runtimes
                   /\ executing' = executing /\ timestamp' = timestamp
        BY <2>1, <4>3 DEF Start
      <4>4. ~ResetInstructions
        BY <2>1 DEF ResetInstructions
      <4> QED
        BY <1>1, <4>1, <4>2, <4>3, <4>4 DEF Call
    <3>2. NothingDrains /\ NothingReady /\ NothingDue
      BY <3>1 DEF RoundIsExhaustive
    <3> QED
      BY <2>1, <3>1, <3>2, SameQuestions DEF RoundIsExhaustive
  <2>2. CASE ~(state' = "kActive" /\ pc' = "idle")
    <3>1. pc' \in {"idle", "tick"}
      BY <1>1
      DEF Call, AddInstruction, SetRefreshPeriodMs, Start, ResetInstructions, runVars
    <3> QED
      BY <2>2, <3>1 DEF RoundIsExhaustive
  <2> QED
    BY <2>1, <2>2
<1>2. CASE \/ DrainResumes \/ DrainRemoves
           \/ \E g \in scan : RestartGroup(g) \/ EndGroup(g)
           \/ \E g \in GroupIds : PickRejectsCall(g) \/ PickExecutes(g)
  <2>1. pc' = pc /\ pc \in {"drain", "complete", "pick"} /\ progressed' = TRUE
    BY <1>2
    DEF DrainResumes, DrainRemoves, RestartGroup, EndGroup, CompletesNext,
        PickRejectsCall, PickExecutes, PicksNext
  <2> QED
    BY <2>1, ProgressIsRecorded
<1>3. ASSUME NEW g \in GroupIds, PickStartsChild(g) PROVE RoundIsExhaustive'
  BY <1>3 DEF PickStartsChild, RoundIsExhaustive
<1>4. CASE DrainDone
  <2>1. pc = "drain" /\ pc' = "complete" /\ scan' = Labels(instructions)
        /\ progressed' = progressed
        /\ instructions' = instructions /\ runtimes' = runtimes
        /\ executing' = executing /\ timestamp' = timestamp
    BY <1>4 DEF DrainDone, programVars
  <2>2. ASSUME ~progressed PROVE NothingDrains
    <3>1. position = 1
      BY <2>1, <2>2, Zenon DEF RoundIsExhaustive
    <3>2. executing \in Seq(Executing)
      BY DEF StructInv, TypeInv, TypeOK
    <3>3. DOMAIN executing = 1 .. Len(executing)
      BY <3>2
    <3> QED
      BY <1>4, <3>1, <3>3 DEF DrainDone, NothingDrains
  <2>3. NothingDrains' <=> NothingDrains
    BY <2>1, SameQuestions
  <2>4. ~progressed' => NothingDrains' /\ scan' = Labels(instructions')
    BY <2>1, <2>2, <2>3, Zenon
  <2> QED
    BY <2>1, <2>4 DEF RoundIsExhaustive
<1>5. CASE CompleteDone
  <2>1. pc = "complete" /\ pc' = "pick" /\ progressed' = progressed
        /\ instructions' = instructions /\ runtimes' = runtimes
        /\ executing' = executing /\ timestamp' = timestamp
    BY <1>5 DEF CompleteDone, programVars
  <2>2. ASSUME ~progressed PROVE NothingDrains /\ NothingReady
    <3>1. NothingDrains /\ scan = Labels(instructions)
      BY <2>1, <2>2, Zenon DEF RoundIsExhaustive
    <3> QED
      BY <1>5, <3>1 DEF CompleteDone, NothingReady, ActiveAreLabelled, IsReady
  <2>3. (NothingDrains' <=> NothingDrains) /\ (NothingReady' <=> NothingReady)
    BY <2>1, SameQuestions
  <2>4. ~progressed' => NothingDrains' /\ NothingReady'
    BY <2>1, <2>2, <2>3, Zenon
  <2> QED
    BY <2>1, <2>4 DEF RoundIsExhaustive
<1>6. CASE PickDone
  <2>1. pc = "pick" /\ pc' = NextLoop /\ progressed' = FALSE /\ position' = 1
        /\ instructions' = instructions /\ runtimes' = runtimes
        /\ executing' = executing /\ timestamp' = timestamp
    BY <1>6 DEF PickDone, programVars
  <2>2. CASE progressed
    <3>1. pc' = "drain"
      BY <2>1, <2>2 DEF NextLoop
    <3> QED
      BY <2>1, <3>1 DEF RoundIsExhaustive
  <2>3. CASE ~progressed
    <3>1. pc' = "schedule"
      BY <2>1, <2>3 DEF NextLoop
    <3>2. NothingDrains /\ NothingReady
      BY <2>1, <2>3, Zenon DEF RoundIsExhaustive
    <3>3. NothingDue
      BY <1>6 DEF PickDone, NothingDue
    <3> QED
      BY <2>1, <3>1, <3>2, <3>3, SameQuestions DEF RoundIsExhaustive
  <2> QED
    BY <2>2, <2>3
<1>7. CASE ScheduleNextRun
  <2>1. pc = "schedule" /\ pc' = "idle"
        /\ instructions' = instructions /\ runtimes' = runtimes
        /\ executing' = executing /\ timestamp' = timestamp
    BY <1>7 DEF ScheduleNextRun, programVars
  <2>2. NothingDrains /\ NothingReady /\ NothingDue
    BY <2>1 DEF RoundIsExhaustive
  <2> QED
    BY <2>1, <2>2, SameQuestions DEF RoundIsExhaustive
<1>8. CASE RunCall
  <2>1. CASE RunWhenNotActive
    BY <2>1 DEF RunWhenNotActive, RoundIsExhaustive
  <2>2. CASE RunBegin
    BY <2>2 DEF RunBegin, RoundIsExhaustive
  <2> QED
    BY <1>8, <2>1, <2>2 DEF RunCall
<1>9. CASE Tick \/ UNCHANGED vars
  <2>1. pc' = pc /\ state' = state /\ progressed' = progressed /\ position' = position
        /\ scan' = scan /\ instructions' = instructions /\ runtimes' = runtimes
        /\ executing' = executing /\ timestamp' = timestamp
    BY <1>9 DEF Tick, vars, programVars, runVars
  <2>2. /\ NothingDrains' <=> NothingDrains
        /\ NothingReady' <=> NothingReady
        /\ NothingDue' <=> NothingDue
    BY <2>1, SameQuestions
  <2> QED
    BY <2>1, <2>2, Zenon DEF RoundIsExhaustive
<1> QED
  BY <1>1, <1>2, <1>3, <1>4, <1>5, <1>6, <1>7, <1>8, <1>9, Zenon DEF Next, RunStep

(* In every behaviour a Run that returns has left nothing due at the       *)
(* timestamp it sampled: no deadline, no finished group, no mark.          *)
THEOREM NothingDueWhenRunReturns == Spec => []NothingDueAtRest
<1>1. RoundIsExhaustive => NothingDueAtRest
  BY DEF RoundIsExhaustive, NothingDueAtRest, NothingDrains, NothingReady, NothingDue
<1>2. Init => RoundIsExhaustive
  BY DEF Init, RoundIsExhaustive
<1>3. Init => ActiveAreLabelled
  BY LabelledInit
<1>4. StructInv /\ ActiveAreLabelled /\ [Next]_vars => ActiveAreLabelled'
  BY LabelledNext
<1>5. StructInv /\ ActiveAreLabelled /\ RoundIsExhaustive /\ [Next]_vars
        => RoundIsExhaustive'
  BY RoundNext
<1> QED
  BY <1>1, <1>2, <1>3, <1>4, <1>5, StructureCorrect, PTL DEF Spec
-----------------------------------------------------------------------------
(* Fresh passes: those that began at the timestamp of this Run.            *)

(* A remainder is what it should be for a number at most one period off.   *)
LEMMA ModNear ==
    ASSUME NEW n \in Nat \ {0}, NEW a \in 0 .. n - 1
    PROVE  a % n = a /\ (a - n) % n = a /\ (a + n) % n = a
<1>1. a % n = a
  OBVIOUS
<1>2. (a - n) % n = a
  OBVIOUS
<1>3. (a + n) % n = a
  OBVIOUS
<1> QED
  BY <1>1, <1>2, <1>3

(* A deadline less than half the clock's range ahead is not reached, also  *)
(* when it wraps around.                                                   *)
LEMMA AheadIsNotReached ==
    ASSUME NEW t \in Time, NEW d \in 1 .. HalfRange - 1
    PROVE  ~DeadlineReached(t, Later(t, d))
<1> DEFINE R == TimestampRange
<1>1. R \in Nat \ {0} /\ HalfRange \in Nat \ {0} /\ R = 2 * HalfRange /\ t \in 0 .. R - 1
  BY TimeAssumption DEF TimestampRange, Time
<1> HIDE DEF R
<1>2. Later(t, d) = IF t + d < R THEN t + d ELSE t + d - R
  <2>1. CASE t + d < R
    <3>1. t + d \in 0 .. R - 1
      BY <1>1, <2>1
    <3> QED
      BY <1>1, <2>1, <3>1, ModNear DEF Later, R
  <2>2. CASE ~(t + d < R)
    <3>1. t + d - R \in 0 .. R - 1 /\ (t + d - R) + R = t + d
      BY <1>1, <2>2
    <3>2. ((t + d - R) + R) % R = t + d - R
      BY <1>1, <3>1, ModNear
    <3> QED
      BY <2>2, <3>1, <3>2 DEF Later, R
  <2> QED
    BY <2>1, <2>2
<1>3. R - d \in 0 .. R - 1 /\ (R - d) - R = 0 - d
  BY <1>1
<1>4. (R - d) % R = R - d /\ ((R - d) - R) % R = R - d
  BY <1>1, <1>3, ModNear
<1>5. (t - Later(t, d)) % R = R - d
  <2>1. CASE t + d < R
    <3>1. t - Later(t, d) = 0 - d
      BY <1>1, <1>2, <2>1
    <3> QED
      BY <1>3, <1>4, <3>1
  <2>2. CASE ~(t + d < R)
    <3>1. t - Later(t, d) = R - d
      BY <1>1, <1>2, <2>2
    <3> QED
      BY <1>4, <3>1
  <2> QED
    BY <2>1, <2>2
<1>6. Since(t, Later(t, d)) = R - d
  BY <1>5 DEF Since, R
<1> QED
  BY <1>1, <1>6 DEF DeadlineReached

(* An instruction never asks for a delay beyond the refresh period.        *)
LEMMA DelayIsShort ==
    ASSUME TypeOK, NEW k \in DOMAIN instructions, ExecuteDelay(k) # 0
    PROVE  ExecuteDelay(k) \in 1 .. HalfRange - 1
<1>1. refresh_period_ms \in 1 .. HalfRange - 1 /\ HalfRange \in Nat
  BY TimeAssumption DEF TypeOK
<1>2. k \in Slots
  BY SlotType
<1>3. timestamp \in Int /\ Ran(k) \in Int
  BY <1>2, RanType, TimeIsInt DEF TypeOK
<1> DEFINE phase == IF instructions[k].op = "fade" THEN timestamp ELSE Ran(k)
<1>4. phase \in Int
  BY <1>3
<1> HIDE DEF phase
<1>5. phase % refresh_period_ms \in 0 .. refresh_period_ms - 1
  BY <1>1, <1>4, ModType
<1>6. UntilGrid(k) \in 1 .. refresh_period_ms
  BY <1>1, <1>5 DEF UntilGrid, phase
<1>7. ExecuteDelay(k) \in Nat
  BY DelayType
<1>8. ExecuteDelay(k) = UntilGrid(k) \/ ~(UntilGrid(k) <= ExecuteDelay(k))
  <2>1. CASE Remaining(k) < UntilGrid(k)
    <3>1. ExecuteDelay(k) = Remaining(k)
      BY <2>1 DEF ExecuteDelay
    <3> QED
      BY <1>6, <1>7, <2>1, <3>1
  <2>2. CASE ~(Remaining(k) < UntilGrid(k))
    BY <2>2 DEF ExecuteDelay
  <2> QED
    BY <2>1, <2>2
<1> QED
  BY <1>1, <1>6, <1>7, <1>8

(* A fresh pass started at this timestamp and has not seen a boundary.     *)
FreshStartsNow ==
    \A g \in GroupIds : g \in fresh /\ IsActive(g) =>
        /\ runtimes[g].start_time = timestamp
        /\ ~runtimes[g].positive_boundary_observed

(* Its timed work is not due yet.                                          *)
FreshWorkIsAhead ==
    \A k \in DOMAIN executing : executing[k].runtime \in fresh =>
        ~DeadlineReached(timestamp, executing[k].deadline)

(* The groups it called are fresh too.                                     *)
FreshCallsAreFresh ==
    \A h \in GroupIds : IsActive(h) /\ runtimes[h].parent \in fresh => h \in fresh

FreshIsNew == FreshStartsNow /\ FreshWorkIsAhead /\ FreshCallsAreFresh

(* The boundary of a group that is not fresh is seen by no fresh group:    *)
(* the callers of the one are not fresh either.                            *)
LEMMA ChainIsNotFresh ==
    ASSUME TypeOK, FreshCallsAreFresh, NEW r \in GroupIds, r \notin fresh,
           NEW h \in BoundaryChain(r)
    PROVE  h \notin fresh
<1> DEFINE S == GroupIds \ fresh
<1>1. S \in SUBSET GroupIds /\ r \in S
  OBVIOUS
<1>2. HoldsParents(S)
  BY DEF HoldsParents, FreshCallsAreFresh, TypeOK, Runtime
<1>3. h \in S
  <2> HIDE DEF S
  <2> QED
    BY <1>1, <1>2 DEF BoundaryChain
<1> QED
  BY <1>3

(* DrainExecuting keeps fresh passes new: what it drains is not theirs.    *)
LEMMA FreshDrain ==
    ASSUME StructInv, FreshIsNew, DrainResumes \/ DrainRemoves
    PROVE  FreshIsNew'
<1> USE DEF FreshIsNew
<1>1. PICK k \in DOMAIN executing : Drains(k)
  BY DrainEffect
<1> DEFINE r == executing[k].runtime
           d == ExecuteDelay(executing[k].slot)
<1>2. timestamp' = timestamp /\ fresh' = fresh /\ timestamp \in Time /\ TypeOK
  BY DEF DrainResumes, DrainRemoves, StructInv, TypeInv, TypeOK
<1>3. r \in GroupIds /\ r \notin fresh
  BY <1>1 DEF Drains, Executing, FreshWorkIsAhead
<1>4. FreshStartsNow'
  <2> SUFFICES ASSUME NEW h \in GroupIds, h \in fresh, runtimes'[h].active
               PROVE  /\ runtimes'[h].start_time = timestamp
                      /\ ~runtimes'[h].positive_boundary_observed
    BY <1>2 DEF FreshStartsNow, IsActive
  <2>1. SameInvocation(h) /\ FlagFrom(h, r)
    BY <1>1 DEF Drains
  <2>2. IsActive(h) /\ runtimes'[h].start_time = runtimes[h].start_time
    BY <2>1 DEF SameInvocation, IsActive
  <2>3. runtimes[h].start_time = timestamp /\ ~runtimes[h].positive_boundary_observed
    BY <2>2 DEF FreshStartsNow
  <2>4. h \notin BoundaryChain(r)
    BY <1>2, <1>3, ChainIsNotFresh
  <2> QED
    BY <2>1, <2>2, <2>3, <2>4, Zenon DEF FlagFrom
<1>5. FreshCallsAreFresh'
  BY <1>1, <1>2 DEF FreshCallsAreFresh, Drains, SameInvocation, IsActive
<1>6. FreshWorkIsAhead'
  <2>1. executing \in Seq(Executing)
    BY <1>2 DEF TypeOK
  <2>2. CASE executing' = [executing EXCEPT ![k].deadline = Later(timestamp, d)]
    <3> HIDE DEF d
    <3>1. /\ DOMAIN executing' = DOMAIN executing
          /\ executing'[k].runtime = r
          /\ \A j \in DOMAIN executing : j # k => executing'[j] = executing[j]
      BY <1>1, <2>1, <2>2 DEF Executing, Drains
    <3> QED
      BY <1>2, <1>3, <3>1 DEF FreshWorkIsAhead, DeadlineReached, Since
  <2>3. CASE executing' = SwapRemove(executing, k)
    <3>1. DOMAIN executing' = 1 .. Len(executing) - 1
      BY <2>3 DEF SwapRemove
    <3>2. \A j \in DOMAIN executing' : \E i \in DOMAIN executing : executing'[j] = executing[i]
      BY <2>1, <2>3, <3>1 DEF SwapRemove
    <3> QED
      BY <1>2, <3>2 DEF FreshWorkIsAhead, DeadlineReached, Since
  <2> QED
    BY <1>1, <2>2, <2>3 DEF Drains
<1> QED
  BY <1>4, <1>5, <1>6

(* CompleteReadyGroups keeps fresh passes new; a pass that begins now has  *)
(* neither timed work nor callees.                                         *)
LEMMA FreshComplete ==
    ASSUME StructInv, FreshIsNew, NEW g \in GroupIds, RestartGroup(g) \/ EndGroup(g)
    PROVE  FreshIsNew'
<1> USE DEF FreshIsNew
<1>1. timestamp' = timestamp /\ executing' = executing
  BY DEF RestartGroup, EndGroup
<1>2. CASE RestartGroup(g)
  <2>1. Restarts(g)
    BY <1>2, RestartEffect
  <2>2. fresh' = fresh \cup {g}
    BY <1>2 DEF RestartGroup
  <2>3. FreshStartsNow'
    <3>1. ASSUME NEW h \in GroupIds, h # g, h \in fresh, runtimes'[h].active
          PROVE  /\ runtimes'[h].start_time = timestamp
                 /\ ~runtimes'[h].positive_boundary_observed
      <4>1. runtimes'[h] = runtimes[h]
        BY <2>1, <3>1 DEF Restarts
      <4> QED
        BY <3>1, <4>1, Zenon DEF FreshStartsNow, IsActive
    <3>2. runtimes'[g].start_time = timestamp /\ ~runtimes'[g].positive_boundary_observed
      BY <2>1 DEF Restarts
    <3> QED
      BY <1>1, <2>2, <3>1, <3>2, Zenon DEF FreshStartsNow, IsActive
  <2>4. \A k \in DOMAIN executing : executing[k].runtime # g
    BY <2>1 DEF Restarts, SlotsExecuting
  <2>5. FreshWorkIsAhead'
    BY <1>1, <2>2, <2>4 DEF FreshWorkIsAhead, DeadlineReached, Since
  <2>6. \A h \in GroupIds : runtimes[h].active => runtimes[h].parent # g
    BY <2>1 DEF Restarts, Children, IsActive
  <2>7. \A h \in GroupIds : /\ runtimes'[h].active => runtimes[h].active
                            /\ runtimes'[h].parent = runtimes[h].parent
    BY <2>1 DEF Restarts, IsReady, IsActive
  <2>8. FreshCallsAreFresh'
    BY <2>2, <2>6, <2>7 DEF FreshCallsAreFresh, IsActive
  <2> QED
    BY <2>3, <2>5, <2>8
<1>3. CASE EndGroup(g)
  <2>1. Ends(g)
    BY <1>3, EndEffect
  <2>2. fresh' = fresh
    BY <1>3 DEF EndGroup, worldVars
  <2>3. ASSUME NEW h \in GroupIds, runtimes'[h].active
        PROVE  /\ h # g /\ IsActive(h)
               /\ runtimes'[h].start_time = runtimes[h].start_time
               /\ runtimes'[h].parent = runtimes[h].parent
               /\ runtimes'[h].positive_boundary_observed
                    = runtimes[h].positive_boundary_observed
    BY <2>1, <2>3 DEF Ends, SameInvocation, IsActive
  <2>4. FreshStartsNow'
    BY <1>1, <2>2, <2>3, Zenon DEF FreshStartsNow, IsActive
  <2>5. FreshWorkIsAhead'
    BY <1>1, <2>2 DEF FreshWorkIsAhead, DeadlineReached, Since
  <2>6. FreshCallsAreFresh'
    BY <2>2, <2>3 DEF FreshCallsAreFresh, IsActive
  <2> QED
    BY <2>4, <2>5, <2>6
<1> QED
  BY <1>2, <1>3

(* A cursor that moves in a fresh pass moves past mark zero, and so        *)
(* reports no boundary.                                                    *)
LEMMA FreshCursor ==
    ASSUME StructInv, FreshIsNew, NEW g \in GroupIds, NEW k, Picked(g, k),
           NEW h \in GroupIds, MovesCursor(g, k, h), h \in fresh, IsActive(h)
    PROVE  /\ runtimes'[h].start_time = timestamp
           /\ ~runtimes'[h].positive_boundary_observed
<1> USE DEF FreshIsNew
<1>1. runtimes[h].start_time = timestamp /\ ~runtimes[h].positive_boundary_observed
  BY DEF FreshStartsNow
<1>2. runtimes'[h].start_time = runtimes[h].start_time
  BY DEF MovesCursor, SameInvocation
<1>3. ASSUME instructions[k].mark > 0 PROVE h \notin BoundaryChain(g)
  <2>1. g \notin fresh
    <3> SUFFICES ASSUME g \in fresh PROVE FALSE
      OBVIOUS
    <3>1. runtimes[g].start_time = timestamp
      BY DEF FreshStartsNow, Picked
    <3>2. timestamp - timestamp = 0 /\ 0 \in 0 .. TimestampRange - 1
      BY TimeIsInt DEF StructInv, TypeInv, TypeOK
    <3>3. Elapsed(g) = 0
      BY <3>1, <3>2, TimeIsInt, ModNear DEF Elapsed, Since
    <3>4. instructions[k].mark \in 0 .. MaxMark /\ MaxMark \in Nat
      BY BoundAssumption DEF Picked, Instruction
    <3> QED
      BY <1>3, <3>3, <3>4 DEF Picked
  <2> QED
    BY <2>1, ChainIsNotFresh DEF StructInv, TypeInv
<1> QED
  BY <1>1, <1>2, <1>3, Zenon DEF MovesCursor, FlagFrom

(* PickDueInstructions keeps fresh passes new: a child starts without      *)
(* timed work and callees, and a new deadline lies ahead.                  *)
LEMMA FreshPick ==
    ASSUME StructInv, FreshIsNew, NEW g \in GroupIds,
           PickStartsChild(g) \/ PickRejectsCall(g) \/ PickExecutes(g)
    PROVE  FreshIsNew'
<1> USE DEF FreshIsNew
<1> DEFINE k == NextSlot(g)
<1>1. timestamp' = timestamp /\ timestamp \in Time /\ TypeOK
  BY DEF PickStartsChild, PickRejectsCall, PickExecutes, StructInv, TypeInv, TypeOK
<1>2. CASE PickStartsChild(g)
  <2>1. PICK child \in GroupIds :
          Launches(g, k, child) /\ fresh' = fresh \cup {child}
    BY <1>2, StartsChildEffect DEF PickStartsChild, Launches
  <2>2. executing' = executing
    BY <1>2 DEF PickStartsChild
  <2>3. Picked(g, k) /\ ~IsActive(child)
    BY <2>1 DEF Launches
  <2>4. ASSUME NEW h \in GroupIds \ {child}
        PROVE  /\ MovesCursor(g, k, h)
               /\ runtimes'[h].active = runtimes[h].active
               /\ runtimes'[h].parent = runtimes[h].parent
    BY <2>1 DEF Launches, MovesCursor, SameInvocation
  <2>5. FreshStartsNow'
    <3>1. ASSUME NEW h \in GroupIds, h # child, h \in fresh, runtimes'[h].active
          PROVE  /\ runtimes'[h].start_time = timestamp
                 /\ ~runtimes'[h].positive_boundary_observed
      BY <2>3, <2>4, <3>1, FreshCursor DEF IsActive
    <3>2. /\ runtimes'[child].start_time = timestamp
          /\ ~runtimes'[child].positive_boundary_observed
      BY <2>1 DEF Launches
    <3> QED
      BY <1>1, <2>1, <3>1, <3>2, Zenon DEF FreshStartsNow, IsActive
  <2>6. \A j \in DOMAIN executing : executing[j].runtime # child
    BY <2>1 DEF Launches, SlotsExecuting
  <2>7. FreshWorkIsAhead'
    BY <1>1, <2>1, <2>2, <2>6 DEF FreshWorkIsAhead, DeadlineReached, Since
  <2>8. \A h \in GroupIds : IsActive(h) => runtimes[h].parent # child
    BY <2>1 DEF Launches, Children
  <2>9. FreshCallsAreFresh'
    BY <2>1, <2>4, <2>8 DEF FreshCallsAreFresh, IsActive
  <2> QED
    BY <2>5, <2>7, <2>9
<1>3. CASE PickRejectsCall(g) \/ PickExecutes(g)
  <2>1. Picked(g, k) /\ \A h \in GroupIds : MovesCursor(g, k, h)
    BY <1>3, RejectEffect, ExecutesEffect
  <2>2. fresh' = fresh
    BY <1>3 DEF PickRejectsCall, PickExecutes, worldVars
  <2>3. FreshStartsNow'
    BY <1>1, <2>1, <2>2, FreshCursor, ZenonT(40)
    DEF FreshStartsNow, MovesCursor, SameInvocation, IsActive
  <2>4. FreshCallsAreFresh'
    BY <2>1, <2>2 DEF FreshCallsAreFresh, MovesCursor, SameInvocation, IsActive
  <2>5. FreshWorkIsAhead'
    <3>1. CASE executing' = executing
      BY <1>1, <2>2, <3>1 DEF FreshWorkIsAhead, DeadlineReached, Since
    <3>2. CASE executing' # executing
      <4> DEFINE d == ExecuteDelay(k)
                 entry == [slot |-> k, runtime |-> g, deadline |-> Later(timestamp, d)]
      <4>1. executing' = Append(executing, entry) /\ d # 0 /\ k \in DOMAIN instructions
        BY <1>3, <2>1, <3>2, ExecutesEffect DEF PickRejectsCall, Picked
      <4>2. ~DeadlineReached(timestamp, entry.deadline)
        BY <1>1, <4>1, DelayIsShort, AheadIsNotReached
      <4>3. executing \in Seq(Executing) /\ entry \in Executing
        <5>1. k \in Slots /\ d \in Int /\ timestamp \in Int
          BY <1>1, <4>1, SlotType, DelayType, TimeIsInt
        <5>2. Later(timestamp, d) \in Time
          BY <5>1, LaterType
        <5> QED
          BY <1>1, <5>1, <5>2 DEF TypeOK, Executing
      <4> HIDE DEF entry, d
      <4>4. \A j \in DOMAIN executing' :
              \/ executing'[j] = entry
              \/ j \in DOMAIN executing /\ executing'[j] = executing[j]
        <5>1. /\ Len(executing') = Len(executing) + 1 /\ Len(executing) \in Nat
              /\ DOMAIN executing' = 1 .. Len(executing) + 1
              /\ \A j \in 1 .. Len(executing) : executing'[j] = executing[j]
              /\ executing'[Len(executing) + 1] = entry
          BY <4>1, <4>3, AppendProperties
        <5>2. DOMAIN executing = 1 .. Len(executing)
          BY <4>3
        <5> QED
          BY <5>1, <5>2
      <4> QED
        BY <1>1, <2>2, <4>2, <4>4 DEF FreshWorkIsAhead, DeadlineReached, Since
    <3> QED
      BY <3>1, <3>2
  <2> QED
    BY <2>3, <2>4, <2>5
<1> QED
  BY <1>2, <1>3

(* A step that keeps the runtimes, the list and the sampled time, and adds *)
(* no fresh pass.                                                          *)
LEMMA FreshKept ==
    ASSUME FreshIsNew, runtimes' = runtimes, executing' = executing,
           \/ timestamp' = timestamp /\ fresh' = fresh
           \/ fresh' = {}
    PROVE  FreshIsNew'
<1>1. CASE fresh' = {}
  BY <1>1 DEF FreshIsNew, FreshStartsNow, FreshWorkIsAhead, FreshCallsAreFresh
<1>2. CASE timestamp' = timestamp /\ fresh' = fresh
  <2>1. FreshStartsNow'
    BY <1>2 DEF FreshIsNew, FreshStartsNow, IsActive
  <2>2. FreshWorkIsAhead'
    BY <1>2 DEF FreshIsNew, FreshWorkIsAhead, DeadlineReached, Since
  <2>3. FreshCallsAreFresh'
    BY <1>2 DEF FreshIsNew, FreshCallsAreFresh, IsActive
  <2> QED
    BY <2>1, <2>2, <2>3 DEF FreshIsNew
<1> QED
  BY <1>1, <1>2

(* Every step keeps fresh passes new.                                      *)
LEMMA FreshNext ==
    ASSUME StructInv, FreshIsNew, [Next]_vars
    PROVE  FreshIsNew'
<1>1. ASSUME NEW instr, AddInstruction(instr) PROVE FreshIsNew'
  BY <1>1, FreshKept DEF AddInstruction, runVars, worldVars
<1>2. ASSUME NEW period, SetRefreshPeriodMs(period) PROVE FreshIsNew'
  BY <1>2, FreshKept DEF SetRefreshPeriodMs, runVars, worldVars
<1>3. ASSUME NEW repeats, Start(repeats) PROVE FreshIsNew'
  <2>1. CASE UNCHANGED <<runtimes, executing, timestamp, fresh>>
    BY <2>1, FreshKept
  <2>2. CASE ~UNCHANGED <<runtimes, executing, timestamp, fresh>>
    <3>1. /\ executing' = <<>> /\ timestamp' = now /\ fresh' = {Root}
          /\ \A g \in GroupIds :
               \/ runtimes'[g] = IdleRuntime
               \/ g = Root /\ runtimes'[g] = StartedRuntime(Root, now, repeats, NoGroup)
      BY <1>3, <2>2 DEF Start
    <3>2. \A g \in GroupIds : runtimes'[g].active =>
            /\ runtimes'[g].start_time = now
            /\ ~runtimes'[g].positive_boundary_observed
            /\ runtimes'[g].parent = NoGroup
      BY <3>1 DEF IdleRuntime, StartedRuntime
    <3>3. Root # NoGroup
      BY NullAssumption, GroupAssumption
    <3> QED
      BY <3>1, <3>2, <3>3
      DEF FreshIsNew, FreshStartsNow, FreshWorkIsAhead, FreshCallsAreFresh, IsActive
  <2> QED
    BY <2>1, <2>2
<1>4. CASE ResetInstructions
  <2>1. executing' = <<>> /\ \A g \in GroupIds : ~runtimes'[g].active
    BY <1>4 DEF ResetInstructions, IdleRuntime
  <2> QED
    BY <2>1 DEF FreshIsNew, FreshStartsNow, FreshWorkIsAhead, FreshCallsAreFresh, IsActive
<1>5. CASE RunCall
  <2>1. CASE RunWhenNotActive
    BY <2>1, FreshKept DEF RunWhenNotActive
  <2>2. CASE RunBegin
    BY <2>2, FreshKept DEF RunBegin
  <2> QED
    BY <1>5, <2>1, <2>2 DEF RunCall
<1>6. CASE DrainResumes \/ DrainRemoves
  BY <1>6, FreshDrain
<1>7. CASE DrainDone \/ CompleteDone \/ PickDone \/ ScheduleNextRun
  BY <1>7, FreshKept
  DEF DrainDone, CompleteDone, PickDone, ScheduleNextRun, programVars, worldVars
<1>8. ASSUME NEW g \in scan, RestartGroup(g) \/ EndGroup(g) PROVE FreshIsNew'
  BY <1>8, FreshComplete DEF StructInv, TypeInv, TypeOK
<1>9. ASSUME NEW g \in GroupIds, PickStartsChild(g) \/ PickRejectsCall(g) \/ PickExecutes(g)
      PROVE  FreshIsNew'
  BY <1>9, FreshPick
<1>10. CASE Tick \/ UNCHANGED vars
  BY <1>10, FreshKept DEF Tick, vars, programVars, runVars, worldVars
<1> QED
  BY <1>1, <1>2, <1>3, <1>4, <1>5, <1>6, <1>7, <1>8, <1>9, <1>10, Zenon
  DEF Next, Call, RunStep

(* What NoRepeatInZeroTime forbids of a step.                              *)
LEMMA FreshIsNotRepeated ==
    ASSUME StructInv, FreshIsNew, [Next]_vars, NEW g \in GroupIds,
           IsActive(g), runtimes'[g].active,
           ~(runtimes'[g].pending \subseteq runtimes[g].pending)
    PROVE  g \notin fresh
<1>1. CASE Call
  <2>1. runtimes' # runtimes
    OBVIOUS
  <2>2. state = "kActive"
    BY DEF StructInv, RootOutlivesItsWork
  <2>3. \A h \in GroupIds : ResetInstructions => ~runtimes'[h].active
    BY DEF ResetInstructions, IdleRuntime
  <2> QED
    BY <1>1, <2>1, <2>2, <2>3 DEF Call, AddInstruction, SetRefreshPeriodMs, Start
<1>2. CASE DrainResumes \/ DrainRemoves
  BY <1>2, DrainEffect DEF Drains
<1>3. ASSUME NEW h \in GroupIds, RestartGroup(h) PROVE g \notin fresh
  <2>1. Restarts(h)
    BY <1>3, RestartEffect
  <2>2. g = h
    BY <2>1 DEF Restarts
  <2>3. runtimes[g].positive_boundary_observed
    BY <2>1, <2>2 DEF Restarts
  <2> QED
    BY <2>3, Zenon DEF FreshIsNew, FreshStartsNow
<1>4. ASSUME NEW h \in GroupIds, EndGroup(h) PROVE FALSE
  BY <1>4, EndEffect DEF Ends
<1>5. ASSUME NEW h \in GroupIds, PickStartsChild(h) PROVE FALSE
  <2>1. PICK child \in GroupIds : Launches(h, NextSlot(h), child)
    BY <1>5, StartsChildEffect DEF Launches
  <2>2. MovesCursor(h, NextSlot(h), g)
    BY <2>1 DEF Launches
  <2> QED
    BY <2>2 DEF MovesCursor
<1>6. ASSUME NEW h \in GroupIds, PickRejectsCall(h) \/ PickExecutes(h) PROVE FALSE
  <2>1. MovesCursor(h, NextSlot(h), g)
    BY <1>6, RejectEffect, ExecutesEffect
  <2> QED
    BY <2>1 DEF MovesCursor
<1>7. CASE \/ RunCall \/ Tick \/ UNCHANGED vars
           \/ DrainDone \/ CompleteDone \/ PickDone \/ ScheduleNextRun
  BY <1>7
  DEF RunCall, RunWhenNotActive, RunBegin, Tick, DrainDone, CompleteDone, PickDone,
      ScheduleNextRun, vars, programVars
<1>8. scan \subseteq GroupIds
  BY DEF StructInv, TypeInv, TypeOK
<1> QED
  BY <1>1, <1>2, <1>3, <1>4, <1>5, <1>6, <1>7, <1>8, Zenon DEF Next, RunStep

(* In no behaviour does a group begin a second pass at the timestamp its   *)
(* pass began at: each pass of a repeated group takes time, so that no     *)
(* program can repeat for ever inside one Run.                             *)
THEOREM NoZeroTimeRepeat == Spec => NoRepeatInZeroTime
<1>1. Init => FreshIsNew
  BY DEF Init, FreshIsNew, FreshStartsNow, FreshWorkIsAhead, FreshCallsAreFresh
<1>2. StructInv /\ FreshIsNew /\ [Next]_vars => FreshIsNew'
  BY FreshNext
<1>3. StructInv /\ FreshIsNew /\ [Next]_vars =>
        [\A g \in GroupIds :
            /\ IsActive(g) /\ runtimes'[g].active
            /\ ~(runtimes'[g].pending \subseteq runtimes[g].pending)
            => g \notin fresh]_vars
  BY FreshIsNotRepeated
<1> QED
  BY <1>1, <1>2, <1>3, StructureCorrect, PTL DEF Spec, NoRepeatInZeroTime

-----------------------------------------------------------------------------
(* The wake-up that ScheduleNextRun asks for and the duration of timed     *)
(* work, for every program, every width of the clock and every schedule    *)
(* that keeps the bound on lateness.  Timestamps wrap around, so the proof *)
(* first replaces the two operators on them by their cases and then argues *)
(* with distances from the sampled timestamp.                              *)

(* Timestamps.                                                             *)

(* The clock's range is twice half of it, and room for lateness is left.   *)
LEMMA ClockBounds ==
    /\ HalfRange \in Nat \ {0} /\ MaxLate \in Nat /\ MaxMark \in Nat /\ MaxDuration \in Nat
    /\ TimestampRange = 2 * HalfRange /\ TimestampRange \in Nat \ {0}
    /\ Time = 0 .. TimestampRange - 1
    /\ MaxMark + 2 * MaxLate < HalfRange
    /\ MaxDuration + 2 * MaxLate < HalfRange
BY TimeAssumption, BoundAssumption DEF TimestampRange, Time

(* An unsigned difference is the difference, plus one period if negative.  *)
LEMMA SinceIs ==
    ASSUME NEW t \in Time, NEW s \in Time
    PROVE  Since(t, s) = IF t >= s THEN t - s ELSE t - s + TimestampRange
<1> DEFINE R == TimestampRange
<1>1. R \in Nat \ {0} /\ t \in 0 .. R - 1 /\ s \in 0 .. R - 1
  BY ClockBounds
<1>2. Since(t, s) = (t - s) % R
  BY DEF Since
<1> HIDE DEF R
<1>3. CASE t >= s
  <2>1. t - s \in 0 .. R - 1
    BY <1>1, <1>3
  <2>2. (t - s) % R = t - s
    BY <1>1, <2>1, ModNear
  <2> QED
    BY <1>2, <1>3, <2>2
<1>4. CASE ~(t >= s)
  <2>1. t - s + R \in 0 .. R - 1 /\ (t - s + R) - R = t - s
    BY <1>1, <1>4
  <2>2. ((t - s + R) - R) % R = t - s + R
    BY <1>1, <2>1, ModNear
  <2> QED
    BY <1>2, <1>4, <2>1, <2>2 DEF R
<1> QED
  BY <1>3, <1>4

(* A later time is the sum, less one period if that is out of range.       *)
LEMMA LaterIs ==
    ASSUME NEW t \in Time, NEW d \in 0 .. TimestampRange - 1
    PROVE  Later(t, d) = IF t + d < TimestampRange THEN t + d ELSE t + d - TimestampRange
<1> DEFINE R == TimestampRange
<1>1. R \in Nat \ {0} /\ t \in 0 .. R - 1 /\ d \in 0 .. R - 1
  BY ClockBounds
<1>2. Later(t, d) = (t + d) % R
  BY DEF Later
<1> HIDE DEF R
<1>3. CASE t + d < R
  <2>1. t + d \in 0 .. R - 1
    BY <1>1, <1>3
  <2>2. (t + d) % R = t + d
    BY <1>1, <2>1, ModNear
  <2> QED
    BY <1>2, <1>3, <2>2 DEF R
<1>4. CASE ~(t + d < R)
  <2>1. t + d - R \in 0 .. R - 1 /\ (t + d - R) + R = t + d
    BY <1>1, <1>4
  <2>2. ((t + d - R) + R) % R = t + d - R
    BY <1>1, <2>1, ModNear
  <2> QED
    BY <1>2, <1>4, <2>1, <2>2 DEF R
<1> QED
  BY <1>3, <1>4

(* A delay is what has passed when its time comes.                         *)
LEMMA SinceLater ==
    ASSUME NEW t \in Time, NEW d \in 0 .. TimestampRange - 1
    PROVE  Later(t, d) \in Time /\ Since(Later(t, d), t) = d
<1>1. t \in Int /\ d \in Int
  BY TimeIsInt, ClockBounds
<1>2. Later(t, d) \in Time
  BY <1>1, LaterType
<1>3. Later(t, d) = IF t + d < TimestampRange THEN t + d ELSE t + d - TimestampRange
  BY LaterIs
<1>4. Since(Later(t, d), t) = IF Later(t, d) >= t THEN Later(t, d) - t
                                                  ELSE Later(t, d) - t + TimestampRange
  BY <1>2, SinceIs
<1>5. TimestampRange \in Nat /\ t \in 0 .. TimestampRange - 1
  BY ClockBounds
<1>6. Since(Later(t, d), t) = d
  BY <1>3, <1>4, <1>5
<1> QED
  BY <1>2, <1>6

(* The clock moves on by one millisecond.                                  *)
LEMMA OneTickLater ==
    ASSUME NEW t \in Time, NEW s \in Time, Since(t, s) + 1 < TimestampRange
    PROVE  Since(Later(t, 1), s) = Since(t, s) + 1
<1>1. t \in Int
  BY TimeIsInt
<1>2. Later(t, 1) \in Time
  BY <1>1, LaterType
<1>3. /\ 1 \in 0 .. TimestampRange - 1 /\ TimestampRange \in Nat
      /\ t \in 0 .. TimestampRange - 1 /\ s \in 0 .. TimestampRange - 1
  BY ClockBounds
<1>4. Later(t, 1) = IF t + 1 < TimestampRange THEN t + 1 ELSE t + 1 - TimestampRange
  BY <1>3, LaterIs
<1>5. Since(t, s) = IF t >= s THEN t - s ELSE t - s + TimestampRange
  BY SinceIs
<1>6. Since(Later(t, 1), s) = IF Later(t, 1) >= s THEN Later(t, 1) - s
                                                  ELSE Later(t, 1) - s + TimestampRange
  BY <1>2, SinceIs
<1> QED
  BY <1>3, <1>4, <1>5, <1>6

(* A deadline that is not reached and is not long past is ahead.           *)
LEMMA NotReachedIsAhead ==
    ASSUME NEW t \in Time, NEW deadline \in Time, ~DeadlineReached(t, deadline),
           \/ Since(deadline, t) < HalfRange
           \/ Since(deadline, t) >= TimestampRange - 2 * MaxLate
    PROVE  Since(deadline, t) \in 1 .. HalfRange - 1
<1>1. /\ Since(deadline, t) = IF deadline >= t THEN deadline - t
                                               ELSE deadline - t + TimestampRange
      /\ Since(t, deadline) = IF t >= deadline THEN t - deadline
                                               ELSE t - deadline + TimestampRange
  BY SinceIs
<1>2. ~(Since(t, deadline) < HalfRange)
  BY DEF DeadlineReached
<1>3. /\ t \in 0 .. TimestampRange - 1 /\ deadline \in 0 .. TimestampRange - 1
      /\ TimestampRange = 2 * HalfRange /\ HalfRange \in Nat /\ MaxLate \in Nat
      /\ 2 * MaxLate < HalfRange
  BY ClockBounds
<1> QED
  BY <1>1, <1>2, <1>3

(* Distances from two instants, the second e later than the first.         *)
LEMMA DistanceShifts ==
    ASSUME NEW t \in Time, NEW s \in Time, NEW u \in Time
    PROVE  LET D == Since(t, s)
               e == Since(u, s)
           IN  Since(t, u) = IF D >= e THEN D - e ELSE D - e + TimestampRange
<1>1. /\ Since(t, s) = IF t >= s THEN t - s ELSE t - s + TimestampRange
      /\ Since(u, s) = IF u >= s THEN u - s ELSE u - s + TimestampRange
      /\ Since(t, u) = IF t >= u THEN t - u ELSE t - u + TimestampRange
  BY SinceIs
<1>2. /\ t \in 0 .. TimestampRange - 1 /\ s \in 0 .. TimestampRange - 1
      /\ u \in 0 .. TimestampRange - 1 /\ TimestampRange \in Nat
  BY ClockBounds
<1> QED
  BY <1>1, <1>2

-----------------------------------------------------------------------------
(* The invariant.                                                          *)

(* No deadline is more than half the range ahead of the sampled time or    *)
(* more overdue than two late Runs can make it.                            *)
DeadlinesAreNear ==
    \A k \in DOMAIN executing :
        \/ Since(executing[k].deadline, timestamp) < HalfRange
        \/ Since(executing[k].deadline, timestamp) >= TimestampRange - 2 * MaxLate

(* There is something to wake up for, all of it lies ahead of the sampled  *)
(* time, and the wake-up comes first, up to the time the Run took.         *)
AlarmCovers ==
    /\ alarm # NoAlarm /\ alarm >= -MaxLate
    /\ DueTimes # {}
    /\ \A t \in DueTimes :
         /\ Since(t, timestamp) \in 1 .. HalfRange - 1
         /\ alarm <= Since(t, timestamp) - Since(now, timestamp) + MaxLate

TimeInv ==
    /\ pc # "idle" => Since(now, timestamp) <= MaxLate
    /\ pc = "tick" => executing = <<>>
    /\ DeadlinesAreNear
    /\ pc = "idle" /\ state = "kActive" => AlarmCovers

RunInv == StructInv /\ ActiveAreLabelled /\ RoundIsExhaustive

(* Due times are timestamps.                                               *)
LEMMA DueTimesType ==
    ASSUME StructInv
    PROVE  DueTimes \subseteq Time
<1>1. \A k \in DOMAIN executing : executing[k].deadline \in Time
  BY EntryType DEF Executing, StructInv, TypeInv
<1>2. ASSUME NEW g \in GroupIds, runtimes[g].pending # {}
      PROVE  Later(runtimes[g].start_time, instructions[NextSlot(g)].mark) \in Time
  <2>1. runtimes[g].start_time \in Int
    BY TimeIsInt DEF StructInv, TypeInv, TypeOK, Runtime
  <2>2. instructions[NextSlot(g)].mark \in Int
    BY <1>2, NextSlotType, BoundAssumption DEF StructInv, Instruction
  <2> QED
    BY <2>1, <2>2, LaterType
<1> QED
  BY <1>1, <1>2 DEF DueTimes

(* Min of a set of naturals is a lower bound of it.                        *)
LEMMA MinIsLeast ==
    ASSUME NEW S, S \subseteq Nat, NEW x \in S
    PROVE  Min(S) \in S /\ Min(S) <= x
BY LeastNat DEF Min

(* Some active group has called nobody: the deepest.                       *)
LEMMA DeepestGroup ==
    ASSUME StructInv, ActiveAreLabelled, state = "kActive"
    PROVE  \E g \in GroupIds : IsActive(g) /\ runtimes[g].child_count = 0
<1> DEFINE N == Cardinality(Labels(instructions))
           active == {g \in GroupIds : IsActive(g)}
           above == {N - runtimes[g].depth : g \in active}
<1>1. \A g \in GroupIds : runtimes[g].depth \in Nat
  BY DEF StructInv, TypeInv, TypeOK, Runtime
<1>2. \A g \in active : runtimes[g].depth < N
  BY DepthsAreBounded DEF DepthIsScanned
<1>3. N \in Nat
  <2>1. \A k \in DOMAIN instructions : instructions[k].group \in GroupIds
    BY SlotType DEF Instruction, StructInv, TypeInv
  <2>2. Labels(instructions) \subseteq GroupIds
    BY <2>1, GroupAssumption DEF Labels
  <2> QED
    BY <2>2, GroupAssumption, FS_Subset, FS_CardinalityType
<1> HIDE DEF N
<1>4. above \subseteq Nat
  BY <1>1, <1>2, <1>3
<1>5. Root \in active
  BY GroupAssumption DEF StructInv, RootOutlivesItsWork
<1>6. above # {}
  BY <1>5
<1>7. PICK n \in above : \A m \in above : n <= m
  <2> HIDE DEF above
  <2> QED
    BY <1>4, <1>6, LeastNat
<1>8. PICK g \in active : n = N - runtimes[g].depth
  BY <1>7
<1>9. ASSUME NEW h \in Children(g) PROVE FALSE
  <2>1. h \in active /\ runtimes[h].parent = g
    BY <1>9 DEF Children
  <2>2. h # Root
    BY <2>1, <1>8, NullAssumption DEF StructInv, CallTreeIsSound
  <2>3. runtimes[h].depth = runtimes[g].depth + 1
    BY <2>1, <2>2 DEF StructInv, CallTreeIsSound
  <2>4. N - runtimes[h].depth \in above
    BY <2>1
  <2>5. n <= N - runtimes[h].depth
    BY <1>7, <2>4
  <2>6. runtimes[g].depth \in Nat
    BY <1>1, <1>8
  <2> HIDE DEF above, active
  <2> QED
    BY <1>3, <1>8, <2>3, <2>5, <2>6
<1>10. Children(g) = {}
  BY <1>9
<1>11. runtimes[g].child_count = 0
  BY <1>8, <1>10, FS_EmptySet DEF StructInv, CallTreeIsSound
<1> QED
  BY <1>8, <1>11

(* When nothing is due, every due time lies ahead and ScheduleNextRun      *)
(* considers it.                                                           *)
LEMMA DueTimesAreAhead ==
    ASSUME StructInv, DeadlinesAreNear, NothingDrains, NothingDue, NEW t \in DueTimes
    PROVE  /\ Since(t, timestamp) \in 1 .. HalfRange - 1
           /\ Since(t, timestamp) \in WakeUps
<1>1. timestamp \in Time
  BY DEF StructInv, TypeInv, TypeOK
<1>2. ASSUME NEW k \in DOMAIN executing, t = executing[k].deadline
      PROVE  /\ Since(t, timestamp) \in 1 .. HalfRange - 1
             /\ Since(t, timestamp) \in WakeUps
  <2>1. t \in Time
    BY <1>2, EntryType DEF Executing, StructInv, TypeInv
  <2>2. ~DeadlineReached(timestamp, t)
    BY <1>2 DEF NothingDrains, NeedsDrain
  <2>3. \/ Since(t, timestamp) < HalfRange
        \/ Since(t, timestamp) >= TimestampRange - 2 * MaxLate
    BY <1>2 DEF DeadlinesAreNear
  <2>4. Since(t, timestamp) \in WakeUps
    BY <1>2, <2>2 DEF WakeUps, DeadlineWakeUps
  <2> QED
    BY <1>1, <2>1, <2>2, <2>3, <2>4, NotReachedIsAhead
<1>3. ASSUME NEW g \in GroupIds, IsActive(g), runtimes[g].pending # {},
             t = Later(runtimes[g].start_time, instructions[NextSlot(g)].mark)
      PROVE  /\ Since(t, timestamp) \in 1 .. HalfRange - 1
             /\ Since(t, timestamp) \in WakeUps
  <2> DEFINE s == runtimes[g].start_time
             mark == instructions[NextSlot(g)].mark
             e == Elapsed(g)
  <2>1. s \in Time
    BY DEF StructInv, TypeInv, TypeOK, Runtime
  <2>2. mark \in 0 .. MaxMark
    BY <1>3, NextSlotType DEF StructInv, Instruction
  <2>3. e \in 0 .. TimestampRange - 1
    BY <1>1, <2>1, SinceType, TimeIsInt, ClockBounds DEF Elapsed
  <2>4. ~(mark <= e)
    BY <1>3 DEF NothingDue, IsDue
  <2>5. mark \in 0 .. TimestampRange - 1 /\ mark < HalfRange
    BY <2>2, ClockBounds
  <2>6. t \in Time /\ Since(t, s) = mark
    BY <1>3, <2>1, <2>5, SinceLater
  <2>7. Since(t, timestamp) = IF mark >= e THEN mark - e ELSE mark - e + TimestampRange
    BY <1>1, <2>1, <2>6, DistanceShifts DEF Elapsed
  <2>8. mark - e \in MarkWakeUps
    BY <1>3, <2>2, <2>3, <2>4, ClockBounds DEF MarkWakeUps
  <2> HIDE DEF mark, e, s
  <2>9. Since(t, timestamp) = mark - e /\ mark - e \in 1 .. HalfRange - 1
    BY <2>2, <2>3, <2>4, <2>5, <2>7, ClockBounds
  <2> QED
    BY <2>8, <2>9 DEF WakeUps
<1> QED
  BY <1>2, <1>3 DEF DueTimes

(* An active program at rest has something to wake up for: its deepest     *)
(* group is not finished and has called nobody.                            *)
LEMMA SomethingIsDue ==
    ASSUME StructInv, ActiveAreLabelled, state = "kActive", NothingReady
    PROVE  DueTimes # {}
<1>1. PICK g \in GroupIds : IsActive(g) /\ runtimes[g].child_count = 0
  BY DeepestGroup
<1>2. runtimes[g].pending # {} \/ runtimes[g].active_count # 0
  BY <1>1 DEF NothingReady, IsReady
<1>3. CASE runtimes[g].pending # {}
  BY <1>1, <1>3 DEF DueTimes
<1>4. CASE runtimes[g].active_count # 0
  <2>1. SlotsExecuting(g) # {}
    BY <1>4, FS_EmptySet DEF StructInv, ExecutingIsSound
  <2>2. \E k \in DOMAIN executing : TRUE
    BY <2>1 DEF SlotsExecuting
  <2> QED
    BY <2>2 DEF DueTimes
<1> QED
  BY <1>2, <1>3, <1>4

(* What the due times depend on.                                           *)
LEMMA SameDueTimes ==
    ASSUME instructions' = instructions, runtimes' = runtimes, executing' = executing
    PROVE  DueTimes' = DueTimes
BY DEF DueTimes, NextSlot, IsActive

(* ScheduleNextRun arms the wake-up of an active program.                  *)
LEMMA ScheduleCovers ==
    ASSUME RunInv, TimeInv, ScheduleNextRun, state = "kActive"
    PROVE  AlarmCovers'
<1> USE DEF RunInv
<1>1. /\ pc = "schedule" /\ timestamp' = timestamp /\ now' = now
      /\ instructions' = instructions /\ runtimes' = runtimes /\ executing' = executing
      /\ alarm' = IF WakeUps = {} THEN alarm ELSE Min(WakeUps)
  BY DEF ScheduleNextRun, programVars
<1>2. NothingDrains /\ NothingReady /\ NothingDue
  BY <1>1 DEF RoundIsExhaustive
<1>3. DueTimes # {} /\ DueTimes' = DueTimes
  BY <1>1, <1>2, SomethingIsDue, SameDueTimes
<1>4. \A t \in DueTimes : /\ Since(t, timestamp) \in 1 .. HalfRange - 1
                          /\ Since(t, timestamp) \in WakeUps
  BY <1>2, DueTimesAreAhead DEF TimeInv
<1>5. WakeUps # {} /\ WakeUps \subseteq Nat
  BY <1>3, <1>4, WakeUpsType DEF StructInv
<1>6. alarm' = Min(WakeUps) /\ Min(WakeUps) \in Nat
  BY <1>1, <1>5, MinInSet
<1>7. alarm' # NoAlarm /\ alarm' >= -MaxLate
  BY <1>6, NullAssumption, ClockBounds
<1>8. Since(now, timestamp) \in Nat /\ Since(now, timestamp) <= MaxLate
  <2>1. now \in Int /\ timestamp \in Int
    BY TimeIsInt DEF StructInv, TypeInv, TypeOK
  <2>2. Since(now, timestamp) \in Nat
    BY <2>1, SinceType, TimeIsInt
  <2> QED
    BY <1>1, <2>2 DEF TimeInv
<1>9. ASSUME NEW t \in DueTimes
      PROVE  alarm' <= Since(t, timestamp) - Since(now, timestamp) + MaxLate
  <2>1. Min(WakeUps) <= Since(t, timestamp)
    BY <1>4, <1>5, MinIsLeast
  <2>2. Since(t, timestamp) \in Nat
    BY <1>4, ClockBounds
  <2> QED
    BY <1>6, <1>8, <2>1, <2>2, ClockBounds
<1> QED
  BY <1>1, <1>3, <1>4, <1>7, <1>9 DEF AlarmCovers

(* How far the clock is from the sampled time while a wake-up is awaited.  *)
LEMMA RestIsShort ==
    ASSUME StructInv, AlarmCovers, NEW t \in DueTimes
    PROVE  /\ alarm \in Int
           /\ t \in Time /\ now \in Time /\ timestamp \in Time
           /\ Since(t, timestamp) \in 1 .. HalfRange - 1
           /\ Since(now, timestamp) \in Nat
           /\ alarm <= Since(t, timestamp) - Since(now, timestamp) + MaxLate
           /\ alarm >= -MaxLate
           /\ Since(now, timestamp) <= Since(t, timestamp) + MaxLate - alarm
<1>1. alarm \in Int /\ t \in Time /\ now \in Time /\ timestamp \in Time
  BY DueTimesType DEF StructInv, TypeInv, TypeOK, AlarmCovers
<1>2. /\ Since(t, timestamp) \in 1 .. HalfRange - 1
      /\ alarm <= Since(t, timestamp) - Since(now, timestamp) + MaxLate
      /\ alarm >= -MaxLate
  BY DEF AlarmCovers
<1>3. Since(now, timestamp) \in Nat
  BY <1>1, SinceType, TimeIsInt
<1>4. Since(now, timestamp) <= Since(t, timestamp) + MaxLate - alarm
  BY <1>1, <1>2, <1>3, ClockBounds
<1> QED
  BY <1>1, <1>2, <1>3, <1>4

(* The signed time to t that the caller sees is the distance from the      *)
(* sampled time less what has passed since.                                *)
LEMMA CoveredIsInTime ==
    ASSUME StructInv, AlarmCovers, NEW t \in DueTimes
    PROVE  alarm <= TimeUntil(t) + MaxLate
<1> DEFINE D == Since(t, timestamp)
           e == Since(now, timestamp)
<1>1. /\ alarm \in Int /\ D \in 1 .. HalfRange - 1 /\ e \in Nat
      /\ alarm <= D - e + MaxLate /\ alarm >= -MaxLate
      /\ t \in Time /\ now \in Time /\ timestamp \in Time
  BY RestIsShort
<1>2. Since(t, now) = IF D >= e THEN D - e ELSE D - e + TimestampRange
  BY <1>1, DistanceShifts
<1>3. TimeUntil(t) = IF Since(t, now) < HalfRange THEN Since(t, now)
                                                  ELSE Since(t, now) - TimestampRange
  BY DEF TimeUntil
<1> HIDE DEF D, e
<1>4. TimeUntil(t) = D - e
  BY <1>1, <1>2, <1>3, ClockBounds
<1> QED
  BY <1>1, <1>4

(* The clock advances: the wake-up and everything due come nearer alike.   *)
LEMMA TickKeepsTime ==
    ASSUME StructInv, TimeInv, Tick
    PROVE  TimeInv'
<1>1. /\ pc' = pc /\ state' = state /\ timestamp' = timestamp /\ executing' = executing
      /\ instructions' = instructions /\ runtimes' = runtimes
      /\ now' = Later(now, 1)
      /\ pc # "idle" => Since(now, timestamp) < MaxLate
      /\ alarm # NoAlarm => alarm > -MaxLate /\ alarm' = alarm - 1
  BY DEF Tick, programVars, runVars
<1>2. now \in Time /\ timestamp \in Time /\ Since(now, timestamp) \in Nat
  <2>1. now \in Time /\ timestamp \in Time
    BY DEF StructInv, TypeInv, TypeOK
  <2> QED
    BY <2>1, SinceType, TimeIsInt
<1>3. ASSUME Since(now, timestamp) + 1 < TimestampRange
      PROVE  Since(now', timestamp) = Since(now, timestamp) + 1
  BY <1>1, <1>2, <1>3, OneTickLater
<1>4. DeadlinesAreNear'
  BY <1>1 DEF TimeInv, DeadlinesAreNear, Since
<1>5. ASSUME pc # "idle" PROVE Since(now', timestamp) <= MaxLate
  <2>1. Since(now, timestamp) < MaxLate
    BY <1>1, <1>5
  <2>2. Since(now, timestamp) + 1 < TimestampRange /\ Since(now, timestamp) + 1 <= MaxLate
    BY <1>2, <2>1, ClockBounds
  <2> QED
    BY <1>3, <2>2
<1>6. ASSUME pc = "idle", state = "kActive" PROVE AlarmCovers'
  <2>1. AlarmCovers
    BY <1>6 DEF TimeInv
  <2>2. DueTimes' = DueTimes
    BY <1>1, SameDueTimes
  <2>3. alarm \in Int /\ alarm > -MaxLate /\ alarm' = alarm - 1
    BY <1>1, <2>1 DEF AlarmCovers, StructInv, TypeInv, TypeOK
  <2>4. alarm' # NoAlarm /\ alarm' >= -MaxLate
    BY <2>3, NullAssumption, ClockBounds
  <2>5. ASSUME NEW t \in DueTimes
        PROVE  /\ Since(t, timestamp) \in 1 .. HalfRange - 1
               /\ alarm' <= Since(t, timestamp) - Since(now', timestamp) + MaxLate
    <3> DEFINE D == Since(t, timestamp)
               e == Since(now, timestamp)
    <3>1. D \in 1 .. HalfRange - 1 /\ e \in Nat /\ alarm <= D - e + MaxLate
      BY <2>1, RestIsShort
    <3>2. e + 1 < TimestampRange
      <4> HIDE DEF D, e
      <4> QED
        BY <2>3, <3>1, ClockBounds
    <3>3. Since(now', timestamp) = e + 1
      BY <1>3, <3>2
    <3> HIDE DEF D, e
    <3>4. alarm' <= D - (e + 1) + MaxLate
      BY <2>3, <3>1, ClockBounds
    <3> QED
      BY <3>1, <3>3, <3>4 DEF D
  <2> QED
    BY <1>1, <2>1, <2>2, <2>4, <2>5 DEF AlarmCovers
<1> QED
  BY <1>1, <1>4, <1>5, <1>6 DEF TimeInv

(* A Run samples the clock: what was ahead is at most two late Runs past.  *)
LEMMA BeginKeepsTime ==
    ASSUME StructInv, TimeInv, RunBegin
    PROVE  TimeInv'
<1>1. /\ pc \in {"idle", "tick"} /\ state = "kActive"
      /\ timestamp' = now /\ now' = now /\ pc' = "drain" /\ executing' = executing
  BY DEF RunBegin
<1>2. now \in Time
  BY DEF StructInv, TypeInv, TypeOK
<1>3. Since(now', timestamp') <= MaxLate
  <2>1. Since(now, now) = 0
    BY <1>2, SinceIs, ClockBounds
  <2> QED
    BY <1>1, <2>1, ClockBounds
<1>4. ASSUME NEW k \in DOMAIN executing
      PROVE  \/ Since(executing[k].deadline, now) < HalfRange
             \/ Since(executing[k].deadline, now) >= TimestampRange - 2 * MaxLate
  <2> DEFINE t == executing[k].deadline
             D == Since(t, timestamp)
             e == Since(now, timestamp)
  <2>1. pc = "idle"
    BY <1>1, <1>4 DEF TimeInv
  <2>2. t \in DueTimes /\ AlarmCovers
    BY <1>1, <2>1 DEF DueTimes, TimeInv
  <2> HIDE DEF t
  <2>3. /\ alarm \in Int /\ D \in 1 .. HalfRange - 1 /\ e \in Nat
        /\ alarm <= D - e + MaxLate /\ alarm >= -MaxLate
        /\ t \in Time /\ now \in Time /\ timestamp \in Time
    BY <2>2, RestIsShort
  <2>4. Since(t, now) = IF D >= e THEN D - e ELSE D - e + TimestampRange
    BY <2>3, DistanceShifts
  <2> HIDE DEF D, e
  <2>5. Since(t, now) < HalfRange \/ Since(t, now) >= TimestampRange - 2 * MaxLate
    BY <2>3, <2>4, ClockBounds
  <2> QED
    BY <2>5 DEF t
<1>5. DeadlinesAreNear'
  BY <1>1, <1>4 DEF DeadlinesAreNear
<1> QED
  BY <1>1, <1>3, <1>5 DEF TimeInv

(* Steps of Run before ScheduleNextRun keep the sample, and a deadline     *)
(* that they set lies ahead.                                               *)
LEMMA NearKept ==
    ASSUME StructInv, TimeInv, timestamp' = timestamp, now' = now,
           pc \notin {"idle", "tick"}, pc' \notin {"idle", "tick"},
           \A j \in DOMAIN executing' :
              \/ \E i \in DOMAIN executing : executing'[j].deadline = executing[i].deadline
              \/ \E d \in 1 .. HalfRange - 1 : executing'[j].deadline = Later(timestamp, d)
    PROVE  TimeInv'
<1>1. timestamp \in Time
  BY DEF StructInv, TypeInv, TypeOK
<1>2. \A d \in 1 .. HalfRange - 1 : Since(Later(timestamp, d), timestamp) < HalfRange
  <2> SUFFICES ASSUME NEW d \in 1 .. HalfRange - 1
               PROVE  Since(Later(timestamp, d), timestamp) < HalfRange
    OBVIOUS
  <2>1. d \in 0 .. TimestampRange - 1 /\ d < HalfRange
    BY ClockBounds
  <2> QED
    BY <1>1, <2>1, SinceLater
<1>3. DeadlinesAreNear'
  BY <1>2 DEF TimeInv, DeadlinesAreNear
<1> QED
  BY <1>3 DEF TimeInv

(* Every step keeps the invariant.                                         *)
LEMMA TimeNext ==
    ASSUME RunInv, TimeInv, [Next]_vars
    PROVE  TimeInv'
<1> USE DEF RunInv
<1>1. ASSUME UNCHANGED <<pc, state, instructions, runtimes, executing, timestamp, now, alarm>>
      PROVE  TimeInv'
  <2>1. DueTimes' = DueTimes
    BY <1>1, SameDueTimes
  <2>2. AlarmCovers' <=> AlarmCovers
    BY <1>1, <2>1 DEF AlarmCovers, Since
  <2> QED
    BY <1>1, <2>2 DEF TimeInv, DeadlinesAreNear, Since
<1>2. ASSUME pc' = "idle", state' # "kActive", executing' = <<>> PROVE TimeInv'
  BY <1>2 DEF TimeInv, DeadlinesAreNear
<1>3. ASSUME NEW instr, AddInstruction(instr) PROVE TimeInv'
  <2>1. CASE instructions' = instructions
    BY <1>1, <1>3, <2>1 DEF AddInstruction, runVars, worldVars
  <2>2. CASE instructions' # instructions
    <3>1. /\ state = "kEditable" /\ state' = state /\ pc' = "idle"
          /\ executing' = executing
      BY <1>3, <2>2 DEF AddInstruction, runVars
    <3> QED
      BY <1>2, <3>1 DEF StructInv, RootOutlivesItsWork
  <2> QED
    BY <2>1, <2>2
<1>4. ASSUME NEW period, SetRefreshPeriodMs(period) PROVE TimeInv'
  BY <1>1, <1>4 DEF SetRefreshPeriodMs, runVars, worldVars
<1>5. ASSUME NEW repeats, Start(repeats) PROVE TimeInv'
  <2>1. CASE UNCHANGED <<pc, state, runtimes, executing, timestamp>>
    BY <1>1, <1>5, <2>1 DEF Start
  <2>2. CASE ~UNCHANGED <<pc, state, runtimes, executing, timestamp>>
    <3>1. pc' = "tick" /\ timestamp' = now /\ now' = now /\ executing' = <<>>
      BY <1>5, <2>2 DEF Start
    <3>2. Since(now, now) = 0 /\ 0 <= MaxLate
      BY SinceIs, ClockBounds DEF StructInv, TypeInv, TypeOK
    <3> QED
      BY <3>1, <3>2 DEF TimeInv, DeadlinesAreNear
  <2> QED
    BY <2>1, <2>2
<1>6. CASE ResetInstructions
  BY <1>2, <1>6 DEF ResetInstructions, runVars
<1>7. CASE RunWhenNotActive
  BY <1>2, <1>7 DEF RunWhenNotActive, StructInv, RootOutlivesItsWork
<1>8. CASE RunBegin
  BY <1>8, BeginKeepsTime
<1>9. CASE Tick
  BY <1>9, TickKeepsTime
<1>10. CASE ScheduleNextRun
  <2>1. /\ state' = state /\ timestamp' = timestamp /\ executing' = executing
        /\ pc' = "idle"
    BY <1>10 DEF ScheduleNextRun, programVars
  <2>2. DeadlinesAreNear'
    BY <2>1 DEF TimeInv, DeadlinesAreNear, Since
  <2> QED
    BY <1>10, <2>1, <2>2, ScheduleCovers DEF TimeInv
<1>11. CASE DrainResumes \/ DrainRemoves
  <2>1. PICK k \in DOMAIN executing : Drains(k)
    BY <1>11, DrainEffect
  <2>2. pc = "drain" /\ pc' = pc /\ timestamp' = timestamp /\ now' = now
    BY <1>11 DEF DrainResumes, DrainRemoves
  <2>3. CASE /\ ExecuteDelay(executing[k].slot) # 0
             /\ executing' = [executing EXCEPT ![k].deadline =
                                Later(timestamp, ExecuteDelay(executing[k].slot))]
    <3>1. ExecuteDelay(executing[k].slot) \in 1 .. HalfRange - 1
      BY <2>1, <2>3, DelayIsShort DEF Drains, StructInv, TypeInv
    <3>2. PICK d \in 1 .. HalfRange - 1 :
            executing' = [executing EXCEPT ![k].deadline = Later(timestamp, d)]
      BY <2>3, <3>1
    <3>3. \A j \in DOMAIN executing : executing[j] \in Executing
      BY EntryType DEF StructInv, TypeInv
    <3>4. \A j \in DOMAIN executing' :
             \/ \E i \in DOMAIN executing : executing'[j].deadline = executing[i].deadline
             \/ executing'[j].deadline = Later(timestamp, d)
      BY <3>2, <3>3 DEF Executing
    <3> QED
      BY <2>2, <3>4, NearKept
  <2>4. CASE executing' = SwapRemove(executing, k)
    <3>1. \A j \in DOMAIN executing' : \E i \in DOMAIN executing : executing'[j] = executing[i]
      BY <2>4, SlotsRemoved DEF StructInv
    <3> QED
      BY <2>2, <3>1, NearKept
  <2> QED
    BY <2>1, <2>3, <2>4 DEF Drains
<1>12. ASSUME NEW g \in GroupIds, PickExecutes(g) PROVE TimeInv'
  <2> DEFINE k == NextSlot(g)
             d == ExecuteDelay(k)
  <2>1. pc = "pick" /\ pc' = pc /\ timestamp' = timestamp /\ now' = now
    BY <1>12 DEF PickExecutes, PicksNext
  <2>2. CASE executing' = executing
    BY <2>1, <2>2, NearKept
  <2>3. CASE executing' # executing
    <3>1. /\ k \in DOMAIN instructions /\ d # 0
          /\ executing' = Append(executing, [slot |-> k, runtime |-> g,
                                             deadline |-> Later(timestamp, d)])
      BY <1>12, <2>3, ExecutesEffect DEF Picked
    <3>2. d \in 1 .. HalfRange - 1
      BY <3>1, DelayIsShort DEF StructInv, TypeInv
    <3>3. k \in Slots /\ timestamp \in Int /\ d \in Int
      BY <3>1, <3>2, SlotType, TimeIsInt, ClockBounds DEF StructInv, TypeInv, TypeOK
    <3>4. Later(timestamp, d) \in Time
      BY <3>3, LaterType
    <3> DEFINE entry == [slot |-> k, runtime |-> g, deadline |-> Later(timestamp, d)]
    <3>5. entry \in Executing /\ entry.deadline = Later(timestamp, d)
      BY <3>3, <3>4 DEF Executing
    <3>6. executing \in Seq(Executing)
      BY DEF StructInv, TypeInv, TypeOK
    <3>7. executing' = Append(executing, entry)
      BY <3>1
    <3> HIDE DEF entry, d, k
    <3>8. /\ DOMAIN executing' = 1 .. Len(executing) + 1 /\ Len(executing) \in Nat
          /\ \A j \in 1 .. Len(executing) : executing'[j] = executing[j]
          /\ executing'[Len(executing) + 1] = entry
      BY <3>5, <3>6, <3>7, AppendProperties
    <3>9. DOMAIN executing = 1 .. Len(executing)
      BY <3>6
    <3>10. \A j \in DOMAIN executing' :
             \/ \E i \in DOMAIN executing : executing'[j].deadline = executing[i].deadline
             \/ executing'[j].deadline = Later(timestamp, d)
      BY <3>5, <3>8, <3>9
    <3> QED
      BY <2>1, <3>2, <3>10, NearKept
  <2> QED
    BY <2>2, <2>3
<1>13. CASE \/ DrainDone \/ CompleteDone \/ PickDone
            \/ \E g \in scan : RestartGroup(g) \/ EndGroup(g)
            \/ \E g \in GroupIds : PickStartsChild(g) \/ PickRejectsCall(g)
  <2>1. /\ pc \notin {"idle", "tick"} /\ pc' \notin {"idle", "tick"}
        /\ timestamp' = timestamp /\ now' = now /\ executing' = executing
    BY <1>13
    DEF DrainDone, CompleteDone, PickDone, NextLoop, RestartGroup, EndGroup, CompletesNext,
        PickStartsChild, PickRejectsCall, PicksNext, programVars, worldVars
  <2> QED
    BY <2>1, NearKept
<1>14. CASE UNCHANGED vars
  BY <1>1, <1>14 DEF vars, programVars, runVars, worldVars
<1> QED
  BY <1>3, <1>4, <1>5, <1>6, <1>7, <1>8, <1>9, <1>10, <1>11, <1>12, <1>13, <1>14, Zenon
  DEF Next, Call, RunCall, RunStep

(* In every behaviour an active program at rest has a wake-up armed, and   *)
(* it comes no later than the first deadline or mark, up to the time the   *)
(* Run took, also across the wrap-around of the clock.                     *)
THEOREM WakeUpInTime == Spec => []WakeUpIsInTime
<1>1. Init => TimeInv
  BY DEF Init, TimeInv, DeadlinesAreNear
<1>2. Init => ActiveAreLabelled
  BY LabelledInit
<1>3. Init => RoundIsExhaustive
  BY DEF Init, RoundIsExhaustive
<1>4. StructInv /\ ActiveAreLabelled /\ [Next]_vars => ActiveAreLabelled'
  BY LabelledNext
<1>5. StructInv /\ ActiveAreLabelled /\ RoundIsExhaustive /\ [Next]_vars
        => RoundIsExhaustive'
  BY RoundNext
<1>6. StructInv /\ ActiveAreLabelled /\ RoundIsExhaustive /\ TimeInv /\ [Next]_vars
        => TimeInv'
  BY TimeNext DEF RunInv
<1>7. StructInv /\ TimeInv => WakeUpIsInTime
  BY CoveredIsInTime DEF TimeInv, AlarmCovers, WakeUpIsInTime
<1> QED
  BY <1>1, <1>2, <1>3, <1>4, <1>5, <1>6, <1>7, StructureCorrect, PTL DEF Spec

-----------------------------------------------------------------------------
(* The duration of timed work.                                             *)

(* Distances add up when the sum is below the range.                       *)
LEMMA SinceAdds ==
    ASSUME NEW s \in Time, NEW t \in Time, NEW u \in Time,
           Since(t, s) + Since(u, t) < TimestampRange
    PROVE  Since(u, s) = Since(t, s) + Since(u, t)
<1>1. /\ Since(t, s) = IF t >= s THEN t - s ELSE t - s + TimestampRange
      /\ Since(u, t) = IF u >= t THEN u - t ELSE u - t + TimestampRange
      /\ Since(u, s) = IF u >= s THEN u - s ELSE u - s + TimestampRange
  BY SinceIs
<1>2. /\ t \in 0 .. TimestampRange - 1 /\ s \in 0 .. TimestampRange - 1
      /\ u \in 0 .. TimestampRange - 1 /\ TimestampRange \in Nat
  BY ClockBounds
<1> QED
  BY <1>1, <1>2

(* Distances are natural numbers, and none from a time to itself.          *)
LEMMA SinceNat ==
    ASSUME NEW t \in Time, NEW s \in Time
    PROVE  Since(t, s) \in Nat /\ Since(t, t) = 0
<1>1. Since(t, s) \in Nat
  BY SinceType, TimeIsInt
<1>2. Since(t, t) = 0
  BY SinceIs, TimeIsInt
<1> QED
  BY <1>1, <1>2

(* The pass of a group with work ahead of its cursor is younger than half  *)
(* the range: it waits for a mark and is at most two late Runs behind it.  *)
PassesAreYoung ==
    \A g \in GroupIds : IsActive(g) /\ runtimes[g].pending # {} =>
        /\ Elapsed(g) <= MaxMark + 2 * MaxLate
        /\ pc = "tick" => Elapsed(g) = 0

(* Timed work of a pass that began at start: it was begun once its mark    *)
(* had come, its deadline is not behind its end, and at the sample it is   *)
(* at most two late Runs older than its duration.                          *)
Timely(instr, start, begun, deadline, sample) ==
    /\ IsTimed(instr) /\ instr.led
    /\ Since(begun, start) >= instr.mark
    /\ Since(begun, start) <= MaxMark + 2 * MaxLate
    /\ Since(deadline, begun) <= MaxDuration
    /\ Since(sample, begun) <= MaxDuration + 2 * MaxLate

EntriesAreTimely ==
    \A k \in DOMAIN executing :
        /\ replay[executing[k].slot].started
        /\ Timely(instructions[executing[k].slot],
                  runtimes[executing[k].runtime].start_time,
                  replay[executing[k].slot].start_time,
                  executing[k].deadline, timestamp)

DurationInv == PassesAreYoung /\ PendingIsUnstarted /\ EntriesAreTimely

(* What is waited for from s on is, when a Run samples the clock, at most  *)
(* two late Runs past.                                                     *)
LEMMA AgeAtBegin ==
    ASSUME StructInv, AlarmCovers, NEW t \in DueTimes, NEW s \in Time, NEW limit \in Nat,
           Since(t, s) <= limit, Since(timestamp, s) <= limit + 2 * MaxLate,
           limit + 2 * MaxLate < HalfRange
    PROVE  Since(now, s) <= limit + 2 * MaxLate
<1>1. /\ alarm \in Int /\ t \in Time /\ now \in Time /\ timestamp \in Time
      /\ Since(t, timestamp) \in 1 .. HalfRange - 1 /\ Since(now, timestamp) \in Nat
      /\ Since(now, timestamp) <= Since(t, timestamp) + MaxLate - alarm
      /\ alarm >= -MaxLate
  BY RestIsShort
<1>2. PICK D \in 1 .. HalfRange - 1 : D = Since(t, timestamp)
  BY <1>1
<1>3. PICK e \in Nat : e = Since(now, timestamp)
  BY <1>1
<1>4. PICK a \in Nat : a = Since(timestamp, s)
  BY <1>1, SinceNat
<1>5. a + D < TimestampRange /\ e <= D + 2 * MaxLate /\ D \in Nat
  <2>1. e <= D + MaxLate - alarm
    BY <1>1, <1>2, <1>3
  <2>2. e <= D + 2 * MaxLate
    BY <1>1, <2>1, ClockBounds
  <2>3. a < HalfRange
    BY <1>4, ClockBounds
  <2>4. a + D < TimestampRange
    BY <2>3, ClockBounds
  <2> QED
    BY <2>2, <2>4
<1>6. Since(t, s) = a + D
  BY <1>1, <1>2, <1>4, <1>5, SinceAdds
<1>7. a + D <= limit
  BY <1>6
<1>8. a + e <= limit + 2 * MaxLate /\ a + e < TimestampRange
  BY <1>5, <1>7, ClockBounds
<1>9. Since(now, s) = a + e
  BY <1>1, <1>3, <1>4, <1>8, SinceAdds
<1> QED
  BY <1>8, <1>9

(* The fields the proofs below compare are of their types.                 *)
LEMMA DurationTypes ==
    ASSUME StructInv
    PROVE  /\ timestamp \in Time /\ now \in Time
           /\ \A g \in GroupIds : runtimes[g].start_time \in Time
           /\ \A k \in Slots : replay[k].start_time \in Time
           /\ \A k \in DOMAIN instructions :
                 /\ k \in Slots
                 /\ instructions[k].mark \in 0 .. MaxMark
                 /\ instructions[k].duration \in 0 .. MaxDuration
           /\ \A k \in DOMAIN executing :
                 /\ executing[k].slot \in DOMAIN instructions /\ executing[k].slot \in Slots
                 /\ executing[k].runtime \in GroupIds
                 /\ executing[k].deadline \in Time
                 /\ IsActive(executing[k].runtime)
                 /\ executing[k].slot \in Members(instructions, executing[k].runtime)
                 /\ executing[k].slot \notin runtimes[executing[k].runtime].pending
<1> USE DEF StructInv
<1>1. timestamp \in Time /\ now \in Time
  BY DEF TypeInv, TypeOK
<1>2. \A g \in GroupIds : runtimes[g].start_time \in Time
  BY DEF TypeInv, TypeOK, Runtime
<1>3. \A k \in Slots : replay[k].start_time \in Time
  BY DEF TypeInv, TypeOK, Replay
<1>4. \A k \in DOMAIN instructions : /\ k \in Slots
                                     /\ instructions[k].mark \in 0 .. MaxMark
                                     /\ instructions[k].duration \in 0 .. MaxDuration
  BY SlotType DEF TypeInv, Instruction
<1>5. ASSUME NEW k \in DOMAIN executing
      PROVE  /\ executing[k].slot \in DOMAIN instructions /\ executing[k].slot \in Slots
             /\ executing[k].runtime \in GroupIds
             /\ executing[k].deadline \in Time
             /\ IsActive(executing[k].runtime)
             /\ executing[k].slot \in Members(instructions, executing[k].runtime)
             /\ executing[k].slot \notin runtimes[executing[k].runtime].pending
  <2>1. executing[k] \in Executing
    BY EntryType DEF TypeInv
  <2>2. /\ ~IsOrphan(executing[k])
        /\ executing[k].slot \in Members(instructions, executing[k].runtime)
        /\ executing[k].slot \notin runtimes[executing[k].runtime].pending
    BY DEF ExecutingIsSound
  <2> QED
    BY <2>1, <2>2, MembersType DEF Executing, IsOrphan, TypeInv
<1> QED
  BY <1>1, <1>2, <1>3, <1>4, <1>5

(* A Run samples the clock.                                                *)
LEMMA BeginKeepsDuration ==
    ASSUME StructInv, TimeInv, DurationInv, RunBegin
    PROVE  DurationInv'
<1>1. /\ pc \in {"idle", "tick"} /\ state = "kActive" /\ timestamp' = now /\ pc' = "drain"
      /\ instructions' = instructions /\ replay' = replay /\ runtimes' = runtimes
      /\ executing' = executing
  BY DEF RunBegin
<1>2. ASSUME NEW g \in GroupIds, IsActive(g), runtimes[g].pending # {}
      PROVE  Since(now, runtimes[g].start_time) <= MaxMark + 2 * MaxLate
  <2>1. PICK s \in Time : s = runtimes[g].start_time
    BY DurationTypes
  <2>2. Since(timestamp, s) <= MaxMark + 2 * MaxLate /\ (pc = "tick" => Since(timestamp, s) = 0)
    BY <1>2, <2>1 DEF DurationInv, PassesAreYoung, Elapsed
  <2>3. CASE pc = "idle"
    <3>1. AlarmCovers
      BY <1>1, <2>3 DEF TimeInv
    <3>2. PICK mark \in 0 .. MaxMark : mark = instructions[NextSlot(g)].mark
      BY <1>2, NextSlotType DEF StructInv, Instruction
    <3>3. Later(s, mark) \in DueTimes
      BY <1>2, <2>1, <3>2 DEF DueTimes
    <3>4. mark \in 0 .. TimestampRange - 1 /\ mark <= MaxMark
      BY <3>2, ClockBounds
    <3>5. Since(Later(s, mark), s) <= MaxMark
      BY <3>4, SinceLater
    <3> QED
      BY <2>1, <2>2, <3>1, <3>3, <3>5, AgeAtBegin, ClockBounds
  <2>4. CASE pc = "tick"
    <3>1. PICK e \in Nat : e = Since(now, timestamp)
      BY DurationTypes, SinceNat
    <3>2. e <= MaxLate
      BY <2>4, <3>1 DEF TimeInv
    <3>3. Since(timestamp, s) = 0 /\ 0 + e < TimestampRange
      BY <2>2, <2>4, <3>2, ClockBounds
    <3>4. Since(now, s) = 0 + e
      BY <3>1, <3>3, DurationTypes, SinceAdds
    <3> QED
      BY <2>1, <3>1, <3>2, <3>4, ClockBounds
  <2> QED
    BY <1>1, <2>3, <2>4
<1>3. PassesAreYoung'
  BY <1>1, <1>2 DEF PassesAreYoung, Elapsed, IsActive
<1>4. ASSUME NEW k \in DOMAIN executing
      PROVE  Since(now, replay[executing[k].slot].start_time) <= MaxDuration + 2 * MaxLate
  <2>1. PICK s \in Time : s = replay[executing[k].slot].start_time
    BY DurationTypes
  <2>2. pc = "idle"
    BY <1>1, <1>4 DEF TimeInv
  <2>3. AlarmCovers /\ executing[k].deadline \in DueTimes
    BY <1>1, <2>2 DEF TimeInv, DueTimes
  <2>4. /\ Since(executing[k].deadline, s) <= MaxDuration
        /\ Since(timestamp, s) <= MaxDuration + 2 * MaxLate
    BY <2>1 DEF DurationInv, EntriesAreTimely, Timely
  <2> QED
    BY <2>1, <2>3, <2>4, AgeAtBegin, ClockBounds
<1>5. EntriesAreTimely'
  BY <1>1, <1>4 DEF DurationInv, EntriesAreTimely, Timely
<1>6. PendingIsUnstarted'
  BY <1>1 DEF DurationInv, PendingIsUnstarted, IsActive
<1> QED
  BY <1>3, <1>5, <1>6 DEF DurationInv

(* The step keeps the pass of h and starts nothing of it, or begins a new  *)
(* pass with nothing of it started.                                        *)
PassKept(h) ==
    runtimes'[h].active =>
        \/ /\ IsActive(h)
           /\ runtimes'[h].start_time = runtimes[h].start_time
           /\ runtimes'[h].pending \subseteq runtimes[h].pending
           /\ \A k \in runtimes'[h].pending : replay'[k].started => replay[k].started
        \/ /\ runtimes'[h].start_time = timestamp
           /\ \A k \in runtimes'[h].pending : ~replay'[k].started

(* Such a step at one timestamp keeps the passes young.                    *)
LEMMA PassesKept ==
    ASSUME StructInv, PassesAreYoung, PendingIsUnstarted,
           timestamp' = timestamp, pc' = "tick" => pc = "tick",
           \A h \in GroupIds : PassKept(h)
    PROVE  PassesAreYoung' /\ PendingIsUnstarted'
<1>1. Since(timestamp, timestamp) = 0 /\ 0 <= MaxMark + 2 * MaxLate
  BY DurationTypes, SinceNat, ClockBounds
<1>2. ASSUME NEW h \in GroupIds, runtimes'[h].active, runtimes'[h].pending # {}
      PROVE  /\ Elapsed(h)' <= MaxMark + 2 * MaxLate
             /\ pc' = "tick" => Elapsed(h)' = 0
  <2>1. CASE runtimes'[h].start_time = timestamp
    BY <1>1, <2>1 DEF Elapsed
  <2>2. CASE runtimes'[h].start_time # timestamp
    <3>1. /\ IsActive(h) /\ runtimes'[h].start_time = runtimes[h].start_time
          /\ runtimes[h].pending # {}
      BY <1>2, <2>2 DEF PassKept
    <3>2. Elapsed(h)' = Elapsed(h)
      BY <3>1 DEF Elapsed
    <3> QED
      BY <3>1, <3>2 DEF PassesAreYoung
  <2> QED
    BY <2>1, <2>2
<1>3. ASSUME NEW h \in GroupIds, runtimes'[h].active, NEW k \in runtimes'[h].pending
      PROVE  ~replay'[k].started
  BY <1>3, Zenon DEF PassKept, PendingIsUnstarted
<1> QED
  BY <1>2, <1>3 DEF PassesAreYoung, PendingIsUnstarted, IsActive

(* Entries whose times stay the same stay timely.                          *)
LEMMA EntriesKeptTimely ==
    ASSUME EntriesAreTimely, timestamp' = timestamp, instructions' = instructions,
           \A j \in DOMAIN executing' : \E i \in DOMAIN executing :
              /\ executing'[j] = executing[i]
              /\ replay'[executing[i].slot] = replay[executing[i].slot]
              /\ runtimes'[executing[i].runtime].start_time
                    = runtimes[executing[i].runtime].start_time
    PROVE  EntriesAreTimely'
BY ZenonT(40) DEF EntriesAreTimely

(* What an execution leaves to do is no more than what is left of the      *)
(* duration, and without a delay nothing is left.                          *)
LEMMA DelayFitsDuration ==
    ASSUME StructInv, NEW k \in DOMAIN instructions
    PROVE  /\ ExecuteDelay(k) # 0 =>
                /\ IsTimed(instructions[k]) /\ instructions[k].led
                /\ Ran(k) + ExecuteDelay(k) <= instructions[k].duration
           /\ ExecuteDelay(k) = 0 /\ IsTimed(instructions[k]) /\ instructions[k].led =>
                Ran(k) >= instructions[k].duration
<1> USE DEF StructInv
<1>1. k \in Slots /\ refresh_period_ms \in Nat \ {0} /\ timestamp \in Int
  BY SlotType, TimeIsInt, ClockBounds DEF TypeInv, TypeOK
<1>2. PICK ran \in Nat : ran = Ran(k)
  BY <1>1, RanType DEF TypeInv
<1>3. PICK duration \in Nat : duration = instructions[k].duration
  BY DurationTypes, ClockBounds, SMTT(30)
<1>4. PICK phase \in Int : phase = IF instructions[k].op = "fade" THEN timestamp ELSE Ran(k)
  BY <1>1, <1>2
<1>5. phase % refresh_period_ms \in 0 .. refresh_period_ms - 1
  BY <1>1, <1>4, ModType
<1>6. PICK grid \in Nat \ {0} : grid = UntilGrid(k)
  BY <1>1, <1>4, <1>5 DEF UntilGrid
<1>7. PICK left \in Nat : left = Remaining(k)
  BY <1>2, <1>3 DEF Remaining
<1>8. ExecuteDelay(k) = IF left < grid THEN left ELSE grid
  BY <1>6, <1>7 DEF ExecuteDelay
<1>9. left # 0 => /\ IsTimed(instructions[k]) /\ instructions[k].led
                  /\ ran + left = duration
  BY <1>2, <1>3, <1>7 DEF Remaining
<1>10. left = 0 /\ IsTimed(instructions[k]) /\ instructions[k].led => ran >= duration
  BY <1>2, <1>3, <1>7 DEF Remaining
<1>11. ExecuteDelay(k) # 0 => left # 0 /\ ran + ExecuteDelay(k) <= ran + left
  BY <1>8
<1>12. ExecuteDelay(k) = 0 => left = 0
  BY <1>8
<1> QED
  BY <1>2, <1>3, <1>9, <1>10, <1>11, <1>12

(* Only the replay state of the instruction executed changes, and none     *)
(* that was started.                                                       *)
LEMMA ExecuteStarts ==
    ASSUME StructInv, NEW k \in Slots, Execute(k)
    PROVE  /\ \A j \in Slots : j # k => replay'[j] = replay[j]
           /\ replay[k].started => replay' = replay
           /\ IsTimed(instructions[k]) /\ instructions[k].led /\ ~replay[k].started =>
                replay'[k].started /\ replay'[k].start_time = timestamp
BY DEF StructInv, TypeInv, TypeOK, Execute, ExecuteReplay

(* DrainExecuting: an entry that stays ends no later than its duration.    *)
LEMMA DrainKeepsDuration ==
    ASSUME StructInv, DurationInv, DrainResumes \/ DrainRemoves
    PROVE  DurationInv'
<1>1. PICK k \in DOMAIN executing : Drains(k)
  BY DrainEffect
<1>2. pc = "drain" /\ pc' = pc /\ timestamp' = timestamp /\ instructions' = instructions
  BY DEF DrainResumes, DrainRemoves
<1>3. PICK x \in Slots : x = executing[k].slot
  BY DurationTypes
<1>4. /\ x \in DOMAIN instructions /\ replay[x].started
      /\ Timely(instructions[x], runtimes[executing[k].runtime].start_time,
                replay[x].start_time, executing[k].deadline, timestamp)
  BY <1>3, DurationTypes DEF DurationInv, EntriesAreTimely
<1>5. replay' = replay
  BY <1>1, <1>3, <1>4, ExecuteStarts DEF Drains
<1>6. \A h \in GroupIds : /\ runtimes'[h].active = runtimes[h].active
                          /\ runtimes'[h].start_time = runtimes[h].start_time
                          /\ runtimes'[h].pending = runtimes[h].pending
  BY <1>1, Zenon DEF Drains, SameInvocation
<1>7. \A h \in GroupIds : PassKept(h)
  BY <1>5, <1>6, Zenon DEF PassKept, IsActive
<1>8. PassesAreYoung' /\ PendingIsUnstarted'
  BY <1>2, <1>7, PassesKept DEF DurationInv
<1>9. CASE executing' = SwapRemove(executing, k)
  <2>1. \A j \in DOMAIN executing' : \E i \in DOMAIN executing : executing'[j] = executing[i]
    BY <1>9, SlotsRemoved DEF StructInv
  <2>2. \A i \in DOMAIN executing : runtimes'[executing[i].runtime].start_time
                                      = runtimes[executing[i].runtime].start_time
    BY <1>6, DurationTypes
  <2>3. EntriesAreTimely'
    BY <1>2, <1>5, <2>1, <2>2, EntriesKeptTimely DEF DurationInv
  <2> QED
    BY <1>8, <2>3 DEF DurationInv
<1>10. CASE /\ ExecuteDelay(x) # 0
            /\ executing' = [executing EXCEPT ![k].deadline = Later(timestamp, ExecuteDelay(x))]
  <2>1. PICK d \in 1 .. HalfRange - 1 : d = ExecuteDelay(x)
    BY <1>4, <1>10, DelayIsShort DEF StructInv, TypeInv
  <2>2. PICK begun \in Time : begun = replay[x].start_time
    BY DurationTypes
  <2>3. PICK ran \in Nat : ran = Since(timestamp, begun)
    BY <2>2, DurationTypes, SinceNat
  <2>4. ran + d <= MaxDuration
    <3>1. Ran(x) = ran
      BY <1>4, <2>2, <2>3 DEF Ran
    <3>2. ran + d <= instructions[x].duration
      BY <1>4, <1>10, <2>1, <3>1, DelayFitsDuration
    <3>3. instructions[x].duration \in 0 .. MaxDuration
      BY <1>4, DurationTypes
    <3> QED
      BY <2>1, <3>2, <3>3, ClockBounds
  <2>5. d \in 0 .. TimestampRange - 1 /\ ran + d < TimestampRange
    BY <2>1, <2>4, ClockBounds
  <2>6. Since(Later(timestamp, d), timestamp) = d /\ Later(timestamp, d) \in Time
    BY <2>5, DurationTypes, SinceLater
  <2>7. Since(Later(timestamp, d), begun) = ran + d
    BY <2>2, <2>3, <2>5, <2>6, DurationTypes, SinceAdds
  <2>8. Timely(instructions[x], runtimes[executing[k].runtime].start_time, begun,
               Later(timestamp, d), timestamp)
    BY <1>4, <2>2, <2>4, <2>7 DEF Timely
  <2>9. ASSUME NEW j \in DOMAIN executing
        PROVE  /\ executing'[j].slot = executing[j].slot
               /\ executing'[j].runtime = executing[j].runtime
               /\ executing'[j].deadline = IF j = k THEN Later(timestamp, d)
                                                    ELSE executing[j].deadline
    <3>1. executing[j] \in Executing
      BY EntryType DEF StructInv, TypeInv
    <3> QED
      BY <1>10, <2>1, <3>1 DEF Executing
  <2>10. DOMAIN executing' = DOMAIN executing
    BY <1>10
  <2>11. ASSUME NEW j \in DOMAIN executing
         PROVE  /\ replay'[executing'[j].slot].started
                /\ Timely(instructions[executing'[j].slot],
                          runtimes'[executing'[j].runtime].start_time,
                          replay'[executing'[j].slot].start_time,
                          executing'[j].deadline, timestamp)
    <3>1. runtimes'[executing'[j].runtime].start_time = runtimes[executing[j].runtime].start_time
      BY <1>6, <2>9, DurationTypes
    <3>2. CASE j = k
      BY <1>3, <1>4, <1>5, <2>2, <2>8, <2>9, <3>1, <3>2
    <3>3. CASE j # k
      BY <1>5, <2>9, <3>1, <3>3 DEF DurationInv, EntriesAreTimely
    <3> QED
      BY <3>2, <3>3
  <2>12. EntriesAreTimely'
    BY <1>2, <2>10, <2>11 DEF EntriesAreTimely
  <2> QED
    BY <1>8, <2>12 DEF DurationInv
<1> QED
  BY <1>1, <1>3, <1>9, <1>10 DEF Drains

(* Steps that leave the list and what its entries refer to alone.          *)
LEMMA ListKeepsDuration ==
    ASSUME StructInv, DurationInv, timestamp' = timestamp, instructions' = instructions,
           executing' = executing, pc' = "tick" => pc = "tick",
           \A h \in GroupIds : PassKept(h),
           \A i \in DOMAIN executing :
              /\ replay'[executing[i].slot] = replay[executing[i].slot]
              /\ runtimes'[executing[i].runtime].start_time
                    = runtimes[executing[i].runtime].start_time
    PROVE  DurationInv'
<1>1. PassesAreYoung' /\ PendingIsUnstarted'
  BY PassesKept DEF DurationInv
<1>2. EntriesAreTimely'
  BY EntriesKeptTimely DEF DurationInv
<1> QED
  BY <1>1, <1>2 DEF DurationInv

(* A new pass of h, which has no entry in the list, resets its own         *)
(* instructions only.                                                      *)
LEMMA ResetIsOwn ==
    ASSUME StructInv, NEW g \in GroupIds, SlotsExecuting(g) = {},
           replay' = ResetGroupInstructionReplayState(g)
    PROVE  /\ \A i \in DOMAIN executing : /\ executing[i].runtime # g
                                          /\ replay'[executing[i].slot] = replay[executing[i].slot]
           /\ \A k \in Members(instructions, g) : ~replay'[k].started
           /\ \A k \in Slots : replay'[k].started => replay[k].started
<1>1. ASSUME NEW i \in DOMAIN executing
      PROVE  /\ executing[i].runtime # g
             /\ replay'[executing[i].slot] = replay[executing[i].slot]
  <2>1. executing[i].runtime # g
    BY DEF SlotsExecuting
  <2>2. executing[i].slot \in Slots /\ executing[i].slot \notin Members(instructions, g)
    BY <2>1, DurationTypes DEF Members
  <2> QED
    BY <2>1, <2>2 DEF ResetGroupInstructionReplayState
<1>2. \A k \in Members(instructions, g) : ~replay'[k].started
  BY MembersType DEF ResetGroupInstructionReplayState, NotStarted, StructInv, TypeInv
<1>3. \A k \in Slots : replay'[k].started => replay[k].started
  <2> SUFFICES ASSUME NEW k \in Slots, replay'[k].started PROVE replay[k].started
    OBVIOUS
  <2>1. replay'[k] = IF k \in Members(instructions, g) THEN NotStarted ELSE replay[k]
    BY DEF ResetGroupInstructionReplayState
  <2>2. k \notin Members(instructions, g)
    BY <1>2
  <2> QED
    BY <2>1, <2>2
<1> QED
  BY <1>1, <1>2, <1>3

(* CompleteReadyGroups.                                                    *)
LEMMA CompleteKeepsDuration ==
    ASSUME StructInv, DurationInv, NEW g \in GroupIds, RestartGroup(g) \/ EndGroup(g)
    PROVE  DurationInv'
<1>1. /\ pc = "complete" /\ pc' = pc /\ timestamp' = timestamp
      /\ instructions' = instructions /\ executing' = executing
  BY DEF RestartGroup, EndGroup, CompletesNext, worldVars
<1>2. \A h \in GroupIds : runtimes[h].pending \subseteq Slots
  BY MembersType DEF StructInv, TypeInv, PendingInGroup
<1>3. CASE RestartGroup(g)
  <2>1. Restarts(g)
    BY <1>3, RestartEffect
  <2>2. replay' = ResetGroupInstructionReplayState(g)
    <3>1. ParentAllowsStart(runtimes[g].parent)
      BY <2>1 DEF Restarts, IsReady, StructInv, CallTreeIsSound, ParentAllowsStart
    <3> QED
      BY <1>3, <3>1 DEF RestartGroup
  <2>3. SlotsExecuting(g) = {}
    BY <2>1 DEF Restarts
  <2>4. /\ \A i \in DOMAIN executing : /\ executing[i].runtime # g
                                       /\ replay'[executing[i].slot] = replay[executing[i].slot]
        /\ \A k \in Members(instructions, g) : ~replay'[k].started
        /\ \A k \in Slots : replay'[k].started => replay[k].started
    BY <2>2, <2>3, ResetIsOwn
  <2>5. ASSUME NEW h \in GroupIds PROVE PassKept(h)
    <3>1. CASE h = g
      BY <2>1, <2>4, <3>1, Zenon DEF PassKept, Restarts
    <3>2. CASE h # g
      <4>1. runtimes'[h] = runtimes[h]
        BY <2>1, <3>2 DEF Restarts
      <4> QED
        BY <1>2, <2>4, <4>1 DEF PassKept, IsActive
    <3> QED
      BY <3>1, <3>2
  <2>6. \A i \in DOMAIN executing : runtimes'[executing[i].runtime] = runtimes[executing[i].runtime]
    BY <2>1, <2>4, DurationTypes DEF Restarts
  <2> QED
    BY <1>1, <2>4, <2>5, <2>6, ListKeepsDuration
<1>4. CASE EndGroup(g)
  <2>1. Ends(g) /\ replay' = replay
    BY <1>4, EndEffect DEF EndGroup
  <2>2. \A h \in GroupIds \ {g} : /\ runtimes'[h].active = runtimes[h].active
                                  /\ runtimes'[h].start_time = runtimes[h].start_time
                                  /\ runtimes'[h].pending = runtimes[h].pending
    BY <2>1, Zenon DEF Ends, SameInvocation
  <2>3. ~runtimes'[g].active
    BY <2>1, Zenon DEF Ends
  <2>4. \A h \in GroupIds : PassKept(h)
    BY <2>1, <2>2, <2>3, Zenon DEF PassKept, IsActive
  <2>5. \A i \in DOMAIN executing : executing[i].runtime \in GroupIds \ {g}
    <3>1. SlotsExecuting(g) = {}
      BY <2>1, Zenon DEF Ends
    <3>2. \A i \in DOMAIN executing :
             /\ executing[i].runtime \in GroupIds
             /\ executing[i].slot \in SlotsExecuting(executing[i].runtime)
      BY EntryType DEF StructInv, TypeInv
    <3> QED
      BY <3>1, <3>2, Zenon
  <2> QED
    BY <1>1, <2>1, <2>2, <2>4, <2>5, ListKeepsDuration
<1> QED
  BY <1>3, <1>4

(* An instruction at a cursor is not in the list.                          *)
LEMMA PickedIsNoEntry ==
    ASSUME StructInv, NEW g \in GroupIds, NEW k, Picked(g, k)
    PROVE  \A i \in DOMAIN executing : executing[i].slot # k
BY DurationTypes DEF Picked, Members

(* Moving a cursor without starting anything else keeps the pass.          *)
LEMMA CursorKeepsPass ==
    ASSUME StructInv, NEW g \in GroupIds, NEW k, NEW h \in GroupIds, MovesCursor(g, k, h),
           \A j \in Slots : j # k => (replay'[j].started => replay[j].started),
           k \in Members(instructions, g)
    PROVE  PassKept(h)
<1>1. /\ runtimes'[h].active = runtimes[h].active
      /\ runtimes'[h].start_time = runtimes[h].start_time
      /\ runtimes'[h].pending = IF h = g THEN runtimes[g].pending \ {k} ELSE runtimes[h].pending
  BY Zenon DEF MovesCursor, SameInvocation
<1>2. runtimes[h].pending \subseteq Members(instructions, h)
  BY DEF StructInv, TypeInv, PendingInGroup
<1>3. runtimes'[h].pending \subseteq runtimes[h].pending /\ k \notin runtimes'[h].pending
  BY <1>1, <1>2 DEF Members
<1>4. runtimes[h].pending \subseteq Slots
  BY <1>2, MembersType DEF StructInv, TypeInv
<1> QED
  BY <1>1, <1>3, <1>4, Zenon DEF PassKept, IsActive

(* PickDueInstructions, a call.                                            *)
LEMMA CallKeepsDuration ==
    ASSUME StructInv, DurationInv, NEW g \in GroupIds, PickStartsChild(g) \/ PickRejectsCall(g)
    PROVE  DurationInv'
<1>1. /\ pc = "pick" /\ pc' # "tick" /\ timestamp' = timestamp
      /\ instructions' = instructions /\ executing' = executing
  BY DEF PickStartsChild, PickRejectsCall, PicksNext, worldVars
<1>2. PICK k : k = NextSlot(g)
  OBVIOUS
<1>3. CASE PickStartsChild(g)
  <2>1. PICK child \in GroupIds :
           Launches(g, k, child) /\ replay' = ResetGroupInstructionReplayState(child)
    <3>1. Launches(g, k, instructions[k].target)
      BY <1>2, <1>3, StartsChildEffect
    <3> QED
      BY <1>2, <1>3, <3>1 DEF Launches, PickStartsChild
  <2>2. /\ SlotsExecuting(child) = {} /\ k \in Members(instructions, g)
        /\ runtimes'[child].pending = Members(instructions, child)
        /\ runtimes'[child].start_time = timestamp
    BY <2>1, Zenon DEF Launches, Picked
  <2>3. /\ \A i \in DOMAIN executing : /\ executing[i].runtime # child
                                       /\ replay'[executing[i].slot] = replay[executing[i].slot]
        /\ \A j \in Members(instructions, child) : ~replay'[j].started
        /\ \A j \in Slots : replay'[j].started => replay[j].started
    BY <2>1, <2>2, ResetIsOwn
  <2>4. \A h \in GroupIds \ {child} : MovesCursor(g, k, h)
    BY <2>1, Zenon DEF Launches
  <2>5. ASSUME NEW h \in GroupIds PROVE PassKept(h)
    <3>1. CASE h = child
      BY <2>2, <2>3, <3>1, Zenon DEF PassKept
    <3>2. CASE h # child
      BY <2>2, <2>3, <2>4, <3>2, CursorKeepsPass
    <3> QED
      BY <3>1, <3>2
  <2>6. \A i \in DOMAIN executing : runtimes'[executing[i].runtime].start_time
                                      = runtimes[executing[i].runtime].start_time
    BY <2>3, <2>4, DurationTypes DEF MovesCursor, SameInvocation
  <2> QED
    BY <1>1, <2>3, <2>5, <2>6, ListKeepsDuration
<1>4. CASE PickRejectsCall(g)
  <2>1. Picked(g, k) /\ \A h \in GroupIds : MovesCursor(g, k, h)
    BY <1>2, <1>4, RejectEffect
  <2>2. replay' = replay /\ k \in Members(instructions, g)
    BY <1>4, <2>1 DEF PickRejectsCall, Picked
  <2>3. \A h \in GroupIds : PassKept(h)
    BY <2>1, <2>2, CursorKeepsPass
  <2>4. \A i \in DOMAIN executing : runtimes'[executing[i].runtime].start_time
                                      = runtimes[executing[i].runtime].start_time
    BY <2>1, DurationTypes DEF MovesCursor, SameInvocation
  <2> QED
    BY <1>1, <2>2, <2>3, <2>4, ListKeepsDuration
<1> QED
  BY <1>3, <1>4

(* PickDueInstructions, an execution: a timed instruction begins when its  *)
(* mark has come.                                                          *)
LEMMA PickKeepsDuration ==
    ASSUME StructInv, DurationInv, NEW g \in GroupIds, PickExecutes(g)
    PROVE  DurationInv'
<1>1. /\ pc = "pick" /\ pc' = pc /\ timestamp' = timestamp /\ instructions' = instructions
      /\ Execute(NextSlot(g))
  BY DEF PickExecutes, PicksNext
<1>2. PICK k : k = NextSlot(g)
  OBVIOUS
<1>3. /\ Picked(g, k) /\ \A h \in GroupIds : MovesCursor(g, k, h)
      /\ \/ executing' = executing
         \/ /\ ExecuteDelay(k) # 0
            /\ executing' = Append(executing, [slot |-> k, runtime |-> g,
                                               deadline |-> Later(timestamp, ExecuteDelay(k))])
  BY <1>2, ExecutesEffect
<1>4. /\ k \in Slots /\ k \in DOMAIN instructions /\ k \in Members(instructions, g)
      /\ k \in runtimes[g].pending /\ IsActive(g) /\ instructions[k].mark <= Elapsed(g)
  BY <1>3, DurationTypes DEF Picked
<1>5. \A j \in Slots : j # k => replay'[j] = replay[j]
  BY <1>1, <1>2, <1>4, ExecuteStarts
<1>6. \A h \in GroupIds : PassKept(h)
  BY <1>3, <1>4, <1>5, CursorKeepsPass
<1>7. PassesAreYoung' /\ PendingIsUnstarted'
  BY <1>1, <1>6, PassesKept DEF DurationInv
<1>8. \A h \in GroupIds : runtimes'[h].start_time = runtimes[h].start_time
  BY <1>3, Zenon DEF MovesCursor, SameInvocation
<1>9. \A i \in DOMAIN executing : /\ replay'[executing[i].slot] = replay[executing[i].slot]
                                  /\ runtimes'[executing[i].runtime].start_time
                                        = runtimes[executing[i].runtime].start_time
  BY <1>3, <1>5, <1>8, DurationTypes, PickedIsNoEntry
<1>10. CASE executing' = executing
  BY <1>1, <1>6, <1>9, <1>10, ListKeepsDuration
<1>11. CASE /\ ExecuteDelay(k) # 0
            /\ executing' = Append(executing, [slot |-> k, runtime |-> g,
                                               deadline |-> Later(timestamp, ExecuteDelay(k))])
  <2>1. PICK d \in 1 .. HalfRange - 1 : d = ExecuteDelay(k)
    BY <1>4, <1>11, DelayIsShort DEF StructInv, TypeInv
  <2>2. d \in 0 .. TimestampRange - 1
    BY <2>1, ClockBounds
  <2>3. PICK deadline \in Time : deadline = Later(timestamp, d) /\ Since(deadline, timestamp) = d
    BY <2>2, DurationTypes, SinceLater
  <2>4. ~replay[k].started
    BY <1>4 DEF DurationInv, PendingIsUnstarted
  <2>5. IsTimed(instructions[k]) /\ instructions[k].led /\ d <= MaxDuration
    <3>1. Ran(k) = 0
      BY <2>4 DEF Ran
    <3>2. /\ IsTimed(instructions[k]) /\ instructions[k].led
          /\ 0 + d <= instructions[k].duration
      BY <1>4, <1>11, <2>1, <3>1, DelayFitsDuration
    <3>3. instructions[k].duration \in 0 .. MaxDuration
      BY <1>4, DurationTypes
    <3> QED
      BY <2>1, <3>2, <3>3, ClockBounds, SMTT(30)
  <2>6. replay'[k].started /\ replay'[k].start_time = timestamp
    BY <1>1, <1>2, <1>4, <2>4, <2>5, ExecuteStarts
  <2>7. Timely(instructions[k], runtimes[g].start_time, timestamp, deadline, timestamp)
    <3>1. Since(timestamp, runtimes[g].start_time) <= MaxMark + 2 * MaxLate
      BY <1>4 DEF DurationInv, PassesAreYoung, Elapsed
    <3>2. Since(timestamp, runtimes[g].start_time) >= instructions[k].mark
      <4>1. Since(timestamp, runtimes[g].start_time) \in Nat /\ instructions[k].mark \in Nat
        <5>1. timestamp \in Time /\ runtimes[g].start_time \in Time
          BY DurationTypes
        <5>2. instructions[k].mark \in Nat
          BY <1>4, DurationTypes, ClockBounds
        <5> QED
          BY <5>1, <5>2, SinceNat
      <4> QED
        BY <1>4, <4>1 DEF Elapsed
    <3>3. Since(timestamp, timestamp) <= MaxDuration + 2 * MaxLate
      BY DurationTypes, SinceNat, ClockBounds, SMTT(30)
    <3> QED
      BY <2>3, <2>5, <3>1, <3>2, <3>3 DEF Timely
  <2> DEFINE entry == [slot |-> k, runtime |-> g, deadline |-> deadline]
  <2>8. entry \in Executing /\ entry.slot = k /\ entry.runtime = g /\ entry.deadline = deadline
    BY <1>4 DEF Executing
  <2>9. executing' = Append(executing, entry) /\ executing \in Seq(Executing)
    BY <1>11, <2>1, <2>3 DEF StructInv, TypeInv, TypeOK
  <2> HIDE DEF entry
  <2>10. PICK n \in Nat : n = Len(executing) /\ DOMAIN executing = 1 .. n
    BY <2>9
  <2>11. /\ DOMAIN executing' = 1 .. n + 1 /\ executing'[n + 1] = entry
         /\ \A j \in 1 .. n : executing'[j] = executing[j]
    BY <2>8, <2>9, <2>10, AppendProperties
  <2>12. ASSUME NEW j \in DOMAIN executing'
         PROVE  /\ replay'[executing'[j].slot].started
                /\ Timely(instructions[executing'[j].slot],
                          runtimes'[executing'[j].runtime].start_time,
                          replay'[executing'[j].slot].start_time,
                          executing'[j].deadline, timestamp)
    <3>1. j \in 1 .. n \/ j = n + 1
      BY <2>11
    <3>2. CASE j \in 1 .. n
      <4>1. executing'[j] = executing[j] /\ j \in DOMAIN executing
        BY <2>10, <2>11, <3>2
      <4> QED
        BY <1>9, <4>1, Zenon DEF DurationInv, EntriesAreTimely
    <3>3. CASE j = n + 1
      <4>1. /\ executing'[j].slot = k /\ executing'[j].runtime = g
            /\ executing'[j].deadline = deadline
        BY <2>8, <2>11, <3>3
      <4>2. runtimes'[g].start_time = runtimes[g].start_time
        BY <1>8
      <4> QED
        BY <2>6, <2>7, <4>1, <4>2, Zenon
    <3> QED
      BY <3>1, <3>2, <3>3
  <2>13. EntriesAreTimely'
    BY <1>1, <2>12 DEF EntriesAreTimely
  <2> QED
    BY <1>7, <2>13 DEF DurationInv
<1> QED
  BY <1>3, <1>10, <1>11

(* Every step keeps the invariant.                                         *)
LEMMA DurationNext ==
    ASSUME StructInv, TimeInv, DurationInv, [Next]_vars
    PROVE  DurationInv'
<1>1. ASSUME UNCHANGED <<instructions, replay, runtimes, executing, timestamp>>,
             pc' = "tick" => pc = "tick"
      PROVE  DurationInv'
  BY <1>1 DEF DurationInv, PassesAreYoung, PendingIsUnstarted, EntriesAreTimely, Elapsed, IsActive
<1>2. ASSUME executing' = <<>>, \A g \in GroupIds : ~runtimes'[g].active PROVE DurationInv'
  BY <1>2 DEF DurationInv, PassesAreYoung, PendingIsUnstarted, EntriesAreTimely, IsActive
<1>3. ASSUME NEW instr, AddInstruction(instr) PROVE DurationInv'
  <2>1. CASE instructions' = instructions
    BY <1>1, <1>3, <2>1 DEF AddInstruction, runVars
  <2>2. CASE instructions' # instructions
    <3>1. state = "kEditable" /\ executing' = executing /\ runtimes' = runtimes
      BY <1>3, <2>2 DEF AddInstruction
    <3> QED
      BY <1>2, <3>1 DEF StructInv, RootOutlivesItsWork, IsActive
  <2> QED
    BY <2>1, <2>2
<1>4. ASSUME NEW period, SetRefreshPeriodMs(period) PROVE DurationInv'
  BY <1>1, <1>4 DEF SetRefreshPeriodMs, runVars
<1>5. ASSUME NEW repeats, Start(repeats) PROVE DurationInv'
  <2>1. CASE UNCHANGED <<replay, runtimes, executing, timestamp, pc>>
    BY <1>1, <1>5, <2>1 DEF Start
  <2>2. CASE ~UNCHANGED <<replay, runtimes, executing, timestamp, pc>>
    <3>1. /\ executing' = <<>> /\ timestamp' = now /\ instructions' = instructions
          /\ \/ \A g \in GroupIds : runtimes'[g] = IdleRuntime
             \/ /\ \A g \in GroupIds \ {Root} : runtimes'[g] = IdleRuntime
                /\ runtimes'[Root] = StartedRuntime(Root, now, repeats, NoGroup)
                /\ replay' = ResetGroupInstructionReplayState(Root)
      BY <1>5, <2>2, GroupAssumption DEF Start
    <3>2. ~IdleRuntime.active
      BY DEF IdleRuntime
    <3>3. CASE \A g \in GroupIds : runtimes'[g] = IdleRuntime
      BY <1>2, <3>1, <3>2, <3>3
    <3>4. CASE /\ \A g \in GroupIds \ {Root} : runtimes'[g] = IdleRuntime
               /\ runtimes'[Root] = StartedRuntime(Root, now, repeats, NoGroup)
               /\ replay' = ResetGroupInstructionReplayState(Root)
      <4>1. /\ runtimes'[Root].start_time = now
            /\ runtimes'[Root].pending = Members(instructions, Root)
        BY <3>4 DEF StartedRuntime
      <4>2. Since(now, now) = 0 /\ 0 <= MaxMark + 2 * MaxLate
        BY DurationTypes, SinceNat, ClockBounds
      <4>3. \A g \in GroupIds : runtimes'[g].active => g = Root
        BY <3>2, <3>4
      <4>4. PassesAreYoung'
        BY <3>1, <4>1, <4>2, <4>3 DEF PassesAreYoung, Elapsed, IsActive
      <4>5. \A k \in Members(instructions, Root) : ~replay'[k].started
        BY <3>4, MembersType DEF ResetGroupInstructionReplayState, NotStarted, StructInv, TypeInv
      <4>6. PendingIsUnstarted'
        BY <4>1, <4>3, <4>5, Zenon DEF PendingIsUnstarted, IsActive
      <4>7. EntriesAreTimely'
        BY <3>1 DEF EntriesAreTimely
      <4> QED
        BY <4>4, <4>6, <4>7 DEF DurationInv
    <3> QED
      BY <3>1, <3>3, <3>4
  <2> QED
    BY <2>1, <2>2
<1>6. CASE ResetInstructions
  <2>1. executing' = <<>> /\ \A g \in GroupIds : ~runtimes'[g].active
    BY <1>6 DEF ResetInstructions, IdleRuntime
  <2> QED
    BY <1>2, <2>1
<1>7. CASE RunWhenNotActive
  BY <1>1, <1>7 DEF RunWhenNotActive
<1>8. CASE RunBegin
  BY <1>8, BeginKeepsDuration
<1>9. CASE DrainResumes \/ DrainRemoves
  BY <1>9, DrainKeepsDuration
<1>10. ASSUME NEW g \in scan, RestartGroup(g) \/ EndGroup(g) PROVE DurationInv'
  BY <1>10, CompleteKeepsDuration DEF StructInv, TypeInv, TypeOK
<1>11. ASSUME NEW g \in GroupIds, PickStartsChild(g) \/ PickRejectsCall(g) \/ PickExecutes(g)
       PROVE  DurationInv'
  BY <1>11, CallKeepsDuration, PickKeepsDuration
<1>12. CASE DrainDone \/ CompleteDone \/ PickDone \/ ScheduleNextRun
  BY <1>1, <1>12
  DEF DrainDone, CompleteDone, PickDone, NextLoop, ScheduleNextRun, programVars
<1>13. CASE Tick \/ UNCHANGED vars
  BY <1>1, <1>13 DEF Tick, vars, programVars, runVars
<1> QED
  BY <1>3, <1>4, <1>5, <1>6, <1>7, <1>8, <1>9, <1>10, <1>11, <1>12, <1>13, Zenon
  DEF Next, Call, RunCall, RunStep

(* What TimedWorkTakesItsDuration says of a step: an instruction that      *)
(* leaves the list has run for its duration since its mark.                *)
LEMMA DurationStep ==
    ASSUME StructInv, DurationInv, [Next]_vars, NEW k \in DOMAIN instructions,
           pc \in {"drain", "pick"}, IsTimed(instructions[k]), instructions[k].led,
           Outstanding(k), ~Outstanding(k)'
    PROVE  Elapsed(instructions[k].group) >= instructions[k].mark + instructions[k].duration
<1> USE DEF StructInv
<1>1. PICK g \in GroupIds : g = instructions[k].group
  BY SlotType DEF TypeInv, Instruction
<1>2. /\ k \in runtimes[g].pending \/ k \in SlotsExecuting(g)
      /\ instructions' = instructions =>
           k \notin runtimes'[g].pending /\ k \notin SlotsExecuting(g)'
  BY <1>1 DEF Outstanding
<1>3. /\ k \in Slots /\ instructions[k].mark \in Nat /\ instructions[k].duration \in Nat
      /\ Elapsed(g) \in Nat /\ timestamp \in Time
  <2>1. timestamp \in Time /\ runtimes[g].start_time \in Time
    BY DurationTypes
  <2>2. k \in Slots /\ instructions[k].mark \in Nat /\ instructions[k].duration \in Nat
    BY DurationTypes, ClockBounds
  <2> QED
    BY <2>1, <2>2, SinceNat DEF Elapsed
<1>4. ~Call /\ ~RunCall /\ ~ScheduleNextRun /\ \A h : ~RestartGroup(h) /\ ~EndGroup(h)
  BY DEF Call, AddInstruction, SetRefreshPeriodMs, Start, ResetInstructions, RunCall,
     RunWhenNotActive, RunBegin, ScheduleNextRun, RestartGroup, EndGroup, CompletesNext
<1>5. ~(DrainDone \/ CompleteDone \/ PickDone \/ Tick \/ UNCHANGED vars)
  <2> SUFFICES ASSUME DrainDone \/ CompleteDone \/ PickDone \/ Tick \/ UNCHANGED vars
               PROVE  FALSE
    OBVIOUS
  <2>1. instructions' = instructions /\ runtimes' = runtimes /\ executing' = executing
    BY DEF DrainDone, CompleteDone, PickDone, Tick, vars, programVars
  <2>2. SlotsExecuting(g)' = SlotsExecuting(g)
    BY <2>1 DEF SlotsExecuting
  <2> QED
    BY <1>2, <2>1, <2>2
<1>6. CASE DrainResumes \/ DrainRemoves
  <2>1. PICK j \in DOMAIN executing : Drains(j)
    BY <1>6, DrainEffect
  <2>2. instructions' = instructions /\ runtimes'[g].pending = runtimes[g].pending
    BY <1>6, <2>1 DEF DrainResumes, DrainRemoves, Drains
  <2>3. k \in SlotsExecuting(g) /\ k \notin SlotsExecuting(g)'
    BY <1>2, <2>2
  <2>4. CASE executing' = [executing EXCEPT ![j].deadline =
                             Later(timestamp, ExecuteDelay(executing[j].slot))]
    <3>1. \A i \in DOMAIN executing : executing[i] \in Executing
      BY EntryType DEF TypeInv
    <3>2. DOMAIN executing' = DOMAIN executing /\ \A i \in DOMAIN executing :
             /\ executing'[i].slot = executing[i].slot
             /\ executing'[i].runtime = executing[i].runtime
      BY <2>4, <3>1 DEF Executing
    <3>3. SlotsExecuting(g)' = SlotsExecuting(g)
      BY <3>2 DEF SlotsExecuting
    <3> QED
      BY <2>3, <3>3
  <2>5. CASE executing' = SwapRemove(executing, j) /\ ExecuteDelay(executing[j].slot) = 0
    <3>1. k = executing[j].slot
      BY <2>3, <2>5, SlotsRemoved
    <3>2. executing[j].runtime = g
      BY <1>1, <3>1, DurationTypes DEF Members
    <3>3. PICK begun \in Time : begun = replay[k].start_time
      BY <1>3, DurationTypes
    <3>4. PICK start \in Time : start = runtimes[g].start_time
      BY DurationTypes
    <3>5. /\ replay[k].started
          /\ Timely(instructions[k], start, begun, executing[j].deadline, timestamp)
      BY <3>1, <3>2, <3>3, <3>4 DEF DurationInv, EntriesAreTimely
    <3>6. PICK ran \in Nat : ran = Since(timestamp, begun)
      BY <1>3, <3>3, SinceNat
    <3>7. ran >= instructions[k].duration
      <4>1. Ran(k) = ran
        BY <3>3, <3>5, <3>6 DEF Ran
      <4> QED
        BY <2>5, <3>1, <4>1, DelayFitsDuration
    <3>8. PICK wait \in Nat : wait = Since(begun, start)
      BY <3>3, <3>4, SinceNat
    <3>9. wait >= instructions[k].mark /\ wait + ran < TimestampRange
      <4>1. /\ wait >= instructions[k].mark /\ wait <= MaxMark + 2 * MaxLate
            /\ ran <= MaxDuration + 2 * MaxLate
        BY <3>5, <3>6, <3>8 DEF Timely
      <4> QED
        BY <4>1, ClockBounds
    <3>10. Since(timestamp, start) = wait + ran
      BY <1>3, <3>3, <3>4, <3>6, <3>8, <3>9, SinceAdds
    <3>11. Elapsed(g) = wait + ran
      BY <3>4, <3>10 DEF Elapsed
    <3> QED
      BY <1>1, <1>3, <3>7, <3>9, <3>11
  <2> QED
    BY <2>1, <2>4, <2>5 DEF Drains
<1>7. ASSUME NEW h \in GroupIds, PickStartsChild(h) PROVE FALSE
  <2>1. Launches(h, NextSlot(h), instructions[NextSlot(h)].target)
    BY <1>7, StartsChildEffect
  <2>2. PICK child : child = instructions[NextSlot(h)].target
    OBVIOUS
  <2>3. instructions' = instructions /\ executing' = executing
    BY <1>7 DEF PickStartsChild
  <2>4. SlotsExecuting(g)' = SlotsExecuting(g)
    BY <2>3 DEF SlotsExecuting
  <2>5. k \in runtimes[g].pending /\ k \notin runtimes'[g].pending
    BY <1>2, <2>3, <2>4
  <2>6. g # child
    <3>1. k \in Members(instructions, g)
      BY <1>1 DEF Members
    <3>2. runtimes'[child].pending = Members(instructions, child)
      BY <2>1, <2>2, Zenon DEF Launches
    <3> QED
      BY <2>5, <3>1, <3>2
  <2>7. MovesCursor(h, NextSlot(h), g) /\ IsRunGroup(instructions[NextSlot(h)])
    BY <2>1, <2>2, <2>6, Zenon DEF Launches
  <2>8. k = NextSlot(h)
    BY <2>5, <2>7 DEF MovesCursor
  <2> QED
    BY <2>7, <2>8 DEF IsRunGroup, IsTimed
<1>8. ASSUME NEW h \in GroupIds, PickRejectsCall(h) PROVE FALSE
  <2>1. MovesCursor(h, NextSlot(h), g) /\ IsRunGroup(instructions[NextSlot(h)])
    BY <1>8, RejectEffect DEF PickRejectsCall
  <2>2. instructions' = instructions /\ executing' = executing
    BY <1>8 DEF PickRejectsCall
  <2>3. SlotsExecuting(g)' = SlotsExecuting(g)
    BY <2>2 DEF SlotsExecuting
  <2>4. k = NextSlot(h)
    BY <1>2, <2>1, <2>2, <2>3 DEF MovesCursor
  <2> QED
    BY <2>1, <2>4 DEF IsRunGroup, IsTimed
<1>9. ASSUME NEW h \in GroupIds, PickExecutes(h)
      PROVE  Elapsed(g) >= instructions[k].mark + instructions[k].duration
  <2>1. PICK x : x = NextSlot(h)
    OBVIOUS
  <2>2. /\ Picked(h, x) /\ MovesCursor(h, x, g)
        /\ \/ executing' = executing
           \/ /\ ExecuteDelay(x) # 0
              /\ executing' = Append(executing, [slot |-> x, runtime |-> h,
                                                 deadline |-> Later(timestamp, ExecuteDelay(x))])
    BY <1>9, <2>1, ExecutesEffect
  <2>3. instructions' = instructions
    BY <1>9 DEF PickExecutes
  <2>4. x \in Slots /\ x \in DOMAIN instructions /\ x \in Members(instructions, h)
        /\ x \in runtimes[h].pending /\ IsActive(h) /\ instructions[x].mark <= Elapsed(h)
    BY <2>2, DurationTypes DEF Picked
  <2>5. SlotsExecuting(g) \subseteq SlotsExecuting(g)'
        /\ (executing' # executing => x \in SlotsExecuting(h)')
    <3>1. CASE executing' = executing
      BY <3>1 DEF SlotsExecuting
    <3>2. CASE executing' # executing
      <4>1. ExecuteDelay(x) \in Int
        BY <2>4, DelayType DEF TypeInv
      <4>2. Later(timestamp, ExecuteDelay(x)) \in Time
        BY <1>3, <4>1, LaterType, TimeIsInt
      <4>3. PICK deadline \in Time : executing' = Append(executing, [slot |-> x, runtime |-> h,
                                                                     deadline |-> deadline])
        BY <2>2, <3>2, <4>2
      <4> QED
        BY <2>4, <4>3, SlotsAdded
    <3> QED
      BY <3>1, <3>2
  <2>6. k \in runtimes[g].pending /\ k \notin runtimes'[g].pending
    BY <1>2, <2>3, <2>5
  <2>7. k = x /\ g = h
    BY <2>2, <2>6 DEF MovesCursor
  <2>8. executing' = executing
    BY <1>2, <2>3, <2>5, <2>7
  <2>9. ExecuteDelay(x) = 0
    <3>1. Len(executing) < MaxInstructions /\ Len(executing) \in Nat /\ MaxInstructions \in Nat
      BY <2>2, ListHasRoom, BoundAssumption DEF TypeInv, TypeOK
    <3>2. ~(Len(executing) >= MaxInstructions)
      BY <3>1
    <3>3. Len(Append(executing, [slot |-> x, runtime |-> h,
                     deadline |-> Later(timestamp, ExecuteDelay(x))])) = Len(executing) + 1
      BY DEF TypeInv, TypeOK
    <3>4. ExecuteDelay(x) # 0 =>
             executing' = Append(executing, [slot |-> x, runtime |-> h,
                                             deadline |-> Later(timestamp, ExecuteDelay(x))])
      BY <1>9, <2>1, <3>2 DEF PickExecutes
    <3> QED
      BY <2>8, <3>1, <3>3, <3>4
  <2>10. ~replay[x].started
    BY <2>4 DEF DurationInv, PendingIsUnstarted
  <2>11. 0 >= instructions[k].duration
    <3>1. Ran(x) = 0
      BY <2>10 DEF Ran
    <3> QED
      BY <2>4, <2>7, <2>9, <3>1, DelayFitsDuration
  <2> QED
    BY <1>3, <2>4, <2>7, <2>11
<1> QED
  BY <1>1, <1>4, <1>5, <1>6, <1>7, <1>8, <1>9, Zenon DEF Next, RunStep

(* In every behaviour a fade or gradient leaves the executing list only    *)
(* when its group has run for its mark and its whole duration, in every    *)
(* pass and also across the wrap-around of the clock.                      *)
THEOREM TimedWorkIsWhole == Spec => TimedWorkTakesItsDuration
<1>1. Init => TimeInv
  BY DEF Init, TimeInv, DeadlinesAreNear
<1>2. Init => ActiveAreLabelled
  BY LabelledInit
<1>3. Init => RoundIsExhaustive
  BY DEF Init, RoundIsExhaustive
<1>4. StructInv /\ ActiveAreLabelled /\ [Next]_vars => ActiveAreLabelled'
  BY LabelledNext
<1>5. StructInv /\ ActiveAreLabelled /\ RoundIsExhaustive /\ [Next]_vars
        => RoundIsExhaustive'
  BY RoundNext
<1>6. StructInv /\ ActiveAreLabelled /\ RoundIsExhaustive /\ TimeInv /\ [Next]_vars
        => TimeInv'
  BY TimeNext DEF RunInv
<1>7. Init => DurationInv
  BY DEF Init, IdleRuntime, DurationInv, PassesAreYoung, PendingIsUnstarted, EntriesAreTimely,
     IsActive
<1>8. StructInv /\ TimeInv /\ DurationInv /\ [Next]_vars => DurationInv'
  BY DurationNext
<1>9. StructInv /\ DurationInv /\ [Next]_vars =>
        [\A k \in DOMAIN instructions :
            /\ pc \in {"drain", "pick"}
            /\ IsTimed(instructions[k]) /\ instructions[k].led
            /\ Outstanding(k) /\ ~Outstanding(k)'
            => Elapsed(instructions[k].group) >=
                 instructions[k].mark + instructions[k].duration]_vars
  BY DurationStep
<1> QED
  BY <1>1, <1>2, <1>3, <1>4, <1>5, <1>6, <1>7, <1>8, <1>9, StructureCorrect, PTL
  DEF Spec, TimedWorkTakesItsDuration
=============================================================================
