--------------------- MODULE ControllerRefinementProofs ---------------------
(***************************************************************************)
(* For every program, every set of labels and every schedule: the          *)
(* controller implements the program lifecycle, what Run reports has its   *)
(* cause in the program, and a rejected call leaves the invocation that is *)
(* already active alone.                                                   *)
(***************************************************************************)
EXTENDS ControllerProofs, ControllerRefinement

(* The outstanding work of one group.                                      *)
WorkOf(g) == IF IsActive(g) THEN runtimes[g].pending \cup SlotsExecuting(g) ELSE {}

(* The outstanding work is that of the groups, and each group's is its own *)
(* instructions.                                                           *)
WorkIsSplit ==
    /\ \A g \in GroupIds : WorkOf(g) \subseteq Members(instructions, g)
    /\ \A k : k \in OpenWork <=> \E g \in GroupIds : k \in WorkOf(g)

(* The structural invariant implies it.                                    *)
LEMMA WorkSplits == StructInv => WorkIsSplit
<1> SUFFICES ASSUME StructInv PROVE WorkIsSplit
  OBVIOUS
<1> USE DEF StructInv
<1>1. ASSUME NEW g \in GroupIds PROVE WorkOf(g) \subseteq Members(instructions, g)
  <2>1. SlotsExecuting(g) \subseteq Members(instructions, g)
    BY DEF SlotsExecuting, ExecutingIsSound
  <2> QED
    BY <2>1 DEF WorkOf, TypeInv, PendingInGroup
<1>2. ASSUME NEW g \in GroupIds, NEW k \in WorkOf(g) PROVE k \in OpenWork
  <2>1. k \in DOMAIN instructions /\ instructions[k].group = g
    BY <1>1 DEF Members
  <2> QED
    BY <2>1 DEF OpenWork, Outstanding, WorkOf
<1>3. ASSUME NEW k \in OpenWork PROVE \E g \in GroupIds : k \in WorkOf(g)
  <2>1. instructions[k].group \in GroupIds
    BY SlotType DEF OpenWork, TypeInv, Instruction
  <2> QED
    BY <2>1 DEF OpenWork, Outstanding, WorkOf
<1> QED
  BY <1>1, <1>2, <1>3 DEF WorkIsSplit

(* The work after a step, group by group.                                  *)
LEMMA SameWork ==
    ASSUME StructInv, StructInv', \A g \in GroupIds : WorkOf(g)' = WorkOf(g)
    PROVE  OpenWork' = OpenWork
<1>1. WorkIsSplit /\ WorkIsSplit'
  BY WorkSplits, PTL
<1>2. \A k : k \in OpenWork <=> \E g \in GroupIds : k \in WorkOf(g)
  BY <1>1 DEF WorkIsSplit
<1>3. \A k : k \in OpenWork' <=> \E g \in GroupIds : k \in WorkOf(g)'
  BY <1>1 DEF WorkIsSplit
<1>4. \A k : k \in OpenWork' <=> k \in OpenWork
  BY <1>2, <1>3, Zenon
<1> QED
  BY <1>4

(* A group that leaves slot k leaves the other groups' work alone.         *)
LEMMA FinishedWork ==
    ASSUME StructInv, StructInv', NEW g \in GroupIds, NEW k \in WorkOf(g),
           WorkOf(g)' = WorkOf(g) \ {k},
           \A h \in GroupIds \ {g} : WorkOf(h)' = WorkOf(h)
    PROVE  k \in OpenWork /\ OpenWork' = OpenWork \ {k}
<1>1. WorkIsSplit /\ WorkIsSplit'
  BY WorkSplits, PTL
<1>2. \A j : j \in OpenWork <=> \E h \in GroupIds : j \in WorkOf(h)
  BY <1>1 DEF WorkIsSplit
<1>3. \A j : j \in OpenWork' <=> \E h \in GroupIds : j \in WorkOf(h)'
  BY <1>1 DEF WorkIsSplit
<1>4. \A h \in GroupIds \ {g} : k \notin WorkOf(h)
  BY <1>1 DEF WorkIsSplit, Members
<1>5. ASSUME NEW j PROVE j \in OpenWork' <=> j \in OpenWork /\ j # k
  BY <1>2, <1>3, <1>4
<1> QED
  BY <1>2, <1>5

(* A group that begins adds all its instructions.                          *)
LEMMA BegunWork ==
    ASSUME StructInv, StructInv', NEW g \in GroupIds,
           WorkOf(g)' = Members(instructions, g),
           \A h \in GroupIds \ {g} : WorkOf(h)' = WorkOf(h),
           WorkOf(g) = {}
    PROVE  /\ OpenWork' = OpenWork \cup Members(instructions, g)
           /\ Members(instructions, g) \cap OpenWork = {}
<1>1. WorkIsSplit /\ WorkIsSplit'
  BY WorkSplits, PTL
<1>2. \A j : j \in OpenWork <=> \E h \in GroupIds : j \in WorkOf(h)
  BY <1>1 DEF WorkIsSplit
<1>3. \A j : j \in OpenWork' <=> \E h \in GroupIds : j \in WorkOf(h)'
  BY <1>1 DEF WorkIsSplit
<1>4. ASSUME NEW j PROVE j \in OpenWork' <=> j \in OpenWork \/ j \in Members(instructions, g)
  BY <1>2, <1>3
<1>5. ASSUME NEW j \in Members(instructions, g) PROVE j \notin OpenWork
  BY <1>1, <1>2 DEF WorkIsSplit, Members
<1> QED
  BY <1>4, <1>5

(* A program that is not active has no work.                               *)
LEMMA NoWork == StructInv /\ state # "kActive" => OpenWork = {}
<1> SUFFICES ASSUME StructInv, state # "kActive" PROVE OpenWork = {}
  OBVIOUS
<1>1. \A k \in DOMAIN instructions : instructions[k].group \in GroupIds
  BY SlotType DEF StructInv, TypeInv, Instruction
<1>2. \A g \in GroupIds : ~IsActive(g)
  BY DEF StructInv, RootOutlivesItsWork
<1> QED
  BY <1>1, <1>2 DEF OpenWork

-----------------------------------------------------------------------------
(* The call that launched an active group has been made: it is an          *)
(* instruction of the parent that the parent's cursor has passed.          *)
CallOf(g, k) ==
    /\ k \in DOMAIN instructions
    /\ instructions[k].group = runtimes[g].parent
    /\ IsRunGroup(instructions[k])
    /\ instructions[k].target = g
    /\ k \notin runtimes[runtimes[g].parent].pending

CallsAreMade == \A g \in GroupIds : IsActive(g) /\ g # Root =>
                   \E k \in DOMAIN instructions : CallOf(g, k)

(* A call is never in the executing list.                                  *)
CallsDoNotRun == \A j \in DOMAIN executing :
                    ~IsRunGroup(instructions[executing[j].slot])

CallInv == CallsAreMade /\ CallsDoNotRun

(* A step after which every active group was active before, with the same  *)
(* parent, and the parents' cursors have not gone back.                    *)
LEMMA CallsStayMade ==
    ASSUME StructInv, CallsAreMade, instructions' = instructions,
           \A g \in GroupIds : runtimes'[g].active =>
              /\ IsActive(g)
              /\ runtimes'[g].parent = runtimes[g].parent
              /\ g # Root => runtimes'[runtimes[g].parent].pending
                               \subseteq runtimes[runtimes[g].parent].pending
    PROVE  CallsAreMade'
<1> SUFFICES ASSUME NEW g \in GroupIds, runtimes'[g].active, g # Root
             PROVE  \E k \in DOMAIN instructions : CallOf(g, k)'
  BY DEF CallsAreMade, IsActive
<1>1. PICK k \in DOMAIN instructions : CallOf(g, k)
  BY DEF CallsAreMade
<1>2. CallOf(g, k)'
  BY <1>1 DEF CallOf
<1> QED
  BY <1>2

(* Steps that keep the program and the entries' slots, or take entries     *)
(* out, keep calls out of the list.                                        *)
LEMMA CallsStayOut ==
    ASSUME CallsDoNotRun, instructions' = instructions,
           \A j \in DOMAIN executing' : \E i \in DOMAIN executing :
              executing'[j].slot = executing[i].slot
    PROVE  CallsDoNotRun'
BY DEF CallsDoNotRun

(* Every step keeps both.                                                  *)
LEMMA CallNext ==
    ASSUME StructInv, CallInv, [Next]_vars
    PROVE  CallInv'
<1> USE DEF CallInv
<1>1. ASSUME UNCHANGED <<instructions, runtimes, executing>> PROVE CallInv'
  <2>1. CallsAreMade'
    BY <1>1, CallsStayMade DEF IsActive
  <2>2. CallsDoNotRun'
    BY <1>1, CallsStayOut
  <2> QED
    BY <2>1, <2>2
<1>2. ASSUME executing' = <<>>, \A g \in GroupIds \ {Root} : ~runtimes'[g].active
      PROVE  CallInv'
  BY <1>2 DEF CallsAreMade, CallsDoNotRun, IsActive
<1>3. CASE Call
  <2>1. ASSUME NEW instr, AddInstruction(instr) PROVE CallInv'
    <3>1. CASE instructions' = instructions
      BY <2>1, <3>1, <1>1 DEF AddInstruction
    <3>2. CASE instructions' # instructions
      <4>1. state = "kEditable" /\ runtimes' = runtimes /\ executing' = executing
        BY <2>1, <3>2 DEF AddInstruction
      <4>2. \A g \in GroupIds : ~runtimes'[g].active
        BY <4>1 DEF StructInv, RootOutlivesItsWork, IsActive
      <4>3. executing' = <<>>
        BY <4>1 DEF StructInv, RootOutlivesItsWork
      <4> QED
        BY <4>2, <4>3, <1>2
    <3> QED
      BY <3>1, <3>2
  <2>2. ASSUME NEW period, SetRefreshPeriodMs(period) PROVE CallInv'
    BY <2>2, <1>1 DEF SetRefreshPeriodMs
  <2>3. ASSUME NEW repeats, Start(repeats) PROVE CallInv'
    <3>1. instructions' = instructions
      BY <2>3 DEF Start
    <3>2. CASE UNCHANGED <<runtimes, executing>>
      BY <3>1, <3>2, <1>1
    <3>3. CASE ~UNCHANGED <<runtimes, executing>>
      <4>1. /\ executing' = <<>>
            /\ \A g \in GroupIds : runtimes'[g] = IdleRuntime \/ g = Root
        BY <2>3, <3>3 DEF Start
      <4> QED
        BY <4>1, <1>2 DEF IdleRuntime
    <3> QED
      BY <3>2, <3>3
  <2>4. CASE ResetInstructions
    <3>1. executing' = <<>> /\ \A g \in GroupIds : ~runtimes'[g].active
      BY <2>4 DEF ResetInstructions, IdleRuntime
    <3> QED
      BY <3>1, <1>2
  <2> QED
    BY <1>3, <2>1, <2>2, <2>3, <2>4 DEF Call
<1>4. CASE DrainResumes \/ DrainRemoves
  <2>1. PICK k \in DOMAIN executing : Drains(k)
    BY <1>4, DrainEffect
  <2>2. instructions' = instructions
    BY <1>4 DEF DrainResumes, DrainRemoves
  <2>3. CallsAreMade'
    <3>1. \A g \in GroupIds : SameInvocation(g) /\ runtimes'[g].pending = runtimes[g].pending
      BY <2>1 DEF Drains
    <3>2. \A g \in GroupIds : IsActive(g) /\ g # Root => runtimes[g].parent \in GroupIds
      BY DEF StructInv, CallTreeIsSound
    <3> QED
      BY <2>2, <3>1, <3>2, CallsStayMade DEF SameInvocation, IsActive
  <2>4. \A j \in DOMAIN executing' : \E i \in DOMAIN executing :
           executing'[j].slot = executing[i].slot
    <3>1. CASE executing' = [executing EXCEPT ![k].deadline =
                               Later(timestamp, ExecuteDelay(executing[k].slot))]
      <4>1. \A j \in DOMAIN executing : executing[j] \in Executing
        BY EntryType DEF StructInv, TypeInv
      <4> QED
        BY <3>1, <4>1 DEF Executing
    <3>2. CASE executing' = SwapRemove(executing, k)
      BY <3>2, SlotsRemoved DEF StructInv
    <3> QED
      BY <2>1, <3>1, <3>2 DEF Drains
  <2>5. CallsDoNotRun'
    BY <2>2, <2>4, CallsStayOut
  <2> QED
    BY <2>3, <2>5
<1>5. ASSUME NEW g \in GroupIds, RestartGroup(g) \/ EndGroup(g) PROVE CallInv'
  <2>1. instructions' = instructions /\ executing' = executing
    BY <1>5 DEF RestartGroup, EndGroup
  <2>2. \A h \in GroupIds : IsActive(h) /\ h # Root => runtimes[h].parent \in GroupIds \ {g}
    <3>1. Children(g) = {}
      BY <1>5, RestartEffect, EndEffect DEF Restarts, Ends
    <3> QED
      BY <3>1 DEF StructInv, CallTreeIsSound, Children
  <2>3. /\ \A h \in GroupIds \ {g} : runtimes'[h].pending = runtimes[h].pending
        /\ \A h \in GroupIds : runtimes'[h].active =>
             IsActive(h) /\ runtimes'[h].parent = runtimes[h].parent
    <3>1. CASE RestartGroup(g)
      BY <3>1, RestartEffect DEF Restarts, IsReady, IsActive
    <3>2. CASE EndGroup(g)
      BY <3>2, EndEffect DEF Ends, SameInvocation, IsActive
    <3> QED
      BY <1>5, <3>1, <3>2
  <2>4. CallsAreMade'
    BY <2>1, <2>2, <2>3, CallsStayMade
  <2>5. CallsDoNotRun'
    BY <2>1, CallsStayOut
  <2> QED
    BY <2>4, <2>5
<1>6. ASSUME NEW g \in GroupIds, PickStartsChild(g) PROVE CallInv'
  <2>1. PICK k \in DOMAIN instructions, child \in GroupIds : Launches(g, k, child)
    BY <1>6, StartsChildEffect DEF Launches, Picked
  <2>2. instructions' = instructions /\ executing' = executing
    BY <1>6 DEF PickStartsChild
  <2>3. ASSUME NEW h \in GroupIds, h # child
        PROVE  /\ runtimes'[h].active = runtimes[h].active
               /\ runtimes'[h].parent = runtimes[h].parent
               /\ runtimes'[h].pending \subseteq runtimes[h].pending
    BY <2>1, <2>3 DEF Launches, MovesCursor, SameInvocation
  <2>4. CallOf(child, k)'
    <3>1. /\ k \in DOMAIN instructions /\ IsRunGroup(instructions[k])
          /\ instructions[k].target = child /\ instructions[k].group = g
      BY <2>1 DEF Launches, Picked, Members
    <3>2. runtimes'[child].parent = g /\ k \notin runtimes'[g].pending
      BY <2>1 DEF Launches, MovesCursor
    <3> QED
      BY <2>2, <3>1, <3>2 DEF CallOf
  <2>5. ASSUME NEW h \in GroupIds, h # child, runtimes'[h].active, h # Root
        PROVE  \E j \in DOMAIN instructions : CallOf(h, j)'
    <3>1. IsActive(h)
      BY <2>3, <2>5 DEF IsActive
    <3>2. PICK j \in DOMAIN instructions : CallOf(h, j)
      BY <2>5, <3>1 DEF CallsAreMade
    <3>3. runtimes[h].parent \in GroupIds /\ runtimes[h].parent # child
      BY <2>1, <2>5, <3>1 DEF StructInv, CallTreeIsSound, Launches, Children
    <3>4. CallOf(h, j)'
      BY <2>2, <2>3, <2>5, <3>2, <3>3 DEF CallOf
    <3> QED
      BY <3>4
  <2>6. k \in DOMAIN instructions
    BY <2>1 DEF Launches, Picked
  <2>7. CallsAreMade'
    BY <2>2, <2>4, <2>5, <2>6 DEF CallsAreMade, IsActive
  <2>8. CallsDoNotRun'
    BY <2>2, CallsStayOut
  <2> QED
    BY <2>7, <2>8
<1>7. ASSUME NEW g \in GroupIds, PickRejectsCall(g) \/ PickExecutes(g) PROVE CallInv'
  <2> DEFINE k == NextSlot(g)
  <2>1. Picked(g, k) /\ \A h \in GroupIds : MovesCursor(g, k, h)
    BY <1>7, RejectEffect, ExecutesEffect
  <2>2. instructions' = instructions
    BY <1>7 DEF PickRejectsCall, PickExecutes
  <2>3. CallsAreMade'
    <3>1. \A h \in GroupIds : IsActive(h) /\ h # Root => runtimes[h].parent \in GroupIds
      BY DEF StructInv, CallTreeIsSound
    <3>2. \A h \in GroupIds : /\ runtimes'[h].active = runtimes[h].active
                              /\ runtimes'[h].parent = runtimes[h].parent
                              /\ runtimes'[h].pending \subseteq runtimes[h].pending
      BY <2>1 DEF MovesCursor, SameInvocation
    <3> QED
      BY <2>2, <3>1, <3>2, CallsStayMade DEF IsActive
  <2>4. CallsDoNotRun'
    <3>1. CASE executing' = executing
      BY <2>2, <3>1, CallsStayOut
    <3>2. CASE executing' # executing
      <4> DEFINE deadline == Later(timestamp, ExecuteDelay(k))
      <4>1. /\ executing' = Append(executing, [slot |-> k, runtime |-> g,
                                               deadline |-> deadline])
            /\ ~IsRunGroup(instructions[k])
        BY <1>7, <3>2, ExecutesEffect DEF PickRejectsCall
      <4>2. k \in Slots /\ deadline \in Time
        <5>1. k \in DOMAIN instructions
          BY <2>1 DEF Picked
        <5>2. k \in Slots /\ ExecuteDelay(k) \in Int /\ timestamp \in Int
          BY <5>1, SlotType, DelayType, TimeIsInt DEF StructInv, TypeInv, TypeOK
        <5> QED
          BY <5>2, LaterType
      <4> HIDE DEF deadline, k
      <4>3. /\ DOMAIN executing' = 1 .. Len(executing) + 1
            /\ executing'[Len(executing) + 1].slot = k
            /\ \A j \in 1 .. Len(executing) : executing'[j] = executing[j]
        BY <4>1, <4>2, SlotsAdded DEF StructInv
      <4>4. DOMAIN executing = 1 .. Len(executing) /\ Len(executing) \in Nat
        BY DEF StructInv, TypeInv, TypeOK
      <4>5. \A j \in DOMAIN executing' : j = Len(executing) + 1 \/ j \in 1 .. Len(executing)
        BY <4>3, <4>4
      <4> QED
        BY <2>2, <4>1, <4>3, <4>4, <4>5 DEF CallsDoNotRun
    <3> QED
      BY <3>1, <3>2
  <2> QED
    BY <2>3, <2>4
<1>8. CASE \/ RunCall \/ Tick \/ UNCHANGED vars
           \/ DrainDone \/ CompleteDone \/ PickDone \/ ScheduleNextRun
  BY <1>8, <1>1
  DEF RunCall, RunWhenNotActive, RunBegin, Tick, DrainDone, CompleteDone, PickDone,
      ScheduleNextRun, vars, programVars
<1>9. scan \subseteq GroupIds
  BY DEF StructInv, TypeInv, TypeOK
<1> QED
  BY <1>3, <1>4, <1>5, <1>6, <1>7, <1>8, <1>9, Zenon DEF Next, RunStep

-----------------------------------------------------------------------------
(* Every step of the controller is a step of the lifecycle or none.        *)

Simulates == [Lifecycle!Next]_(Lifecycle!lifecycleVars)

(* A step that keeps the state, the program and the work is none.          *)
LEMMA Stutters ==
    ASSUME state' = state, instructions' = instructions, OpenWork' = OpenWork
    PROVE  Simulates
BY DEF Simulates, Lifecycle!lifecycleVars

(* A group with work left keeps the program active.                        *)
LEMMA ActiveProgram ==
    ASSUME StructInv, NEW g \in GroupIds, IsActive(g)
    PROVE  state = "kActive"
BY DEF StructInv, RootOutlivesItsWork

(* The list after a step that keeps it.                                    *)
LEMMA SameSlots ==
    ASSUME NEW h, executing' = executing
    PROVE  SlotsExecuting(h)' = SlotsExecuting(h)
BY DEF SlotsExecuting

(* The public calls: an accepted instruction edits the program, an         *)
(* accepted start begins it with the work of the root.                     *)
LEMMA CallSimulates ==
    ASSUME StructInv, StructInv', Call
    PROVE  Simulates
<1>1. ASSUME NEW instr \in Offers \cup {NoInstruction}, AddInstruction(instr)
      PROVE  Simulates
  <2>1. state' = state /\ runtimes' = runtimes /\ executing' = executing
    BY <1>1 DEF AddInstruction
  <2>2. CASE instructions' = instructions
    <3>1. OpenWork' = OpenWork
      BY <2>1, <2>2 DEF OpenWork, Outstanding, SlotsExecuting, IsActive
    <3> QED
      BY <2>1, <2>2, <3>1, Stutters
  <2>3. CASE instructions' # instructions
    <3>1. /\ state = "kEditable" /\ instr # NoInstruction
          /\ ~(Len(instructions) >= MaxInstructions)
          /\ instructions' = Append(instructions, instr)
      BY <1>1, <2>3 DEF AddInstruction
    <3>2. instr \in Instructions
      BY <3>1, BoundAssumption DEF Offers, StructInv, TypeInv, TypeOK
    <3>3. state # "kActive" /\ (state # "kActive")'
      BY <2>1, <3>1
    <3>4. OpenWork = {}
      BY <3>3, NoWork
    <3>5. OpenWork' = {}
      <4>1. (StructInv /\ state # "kActive" => OpenWork = {})'
        BY NoWork, PTL
      <4> QED
        BY <3>3, <4>1
    <3>6. Lifecycle!Edit
      BY <2>1, <3>1, <3>2, <3>4, <3>5 DEF Lifecycle!Edit
    <3> QED
      BY <3>6 DEF Simulates, Lifecycle!Next
  <2> QED
    BY <2>2, <2>3
<1>2. ASSUME NEW period, SetRefreshPeriodMs(period) PROVE Simulates
  <2>1. /\ state' = state /\ instructions' = instructions
        /\ runtimes' = runtimes /\ executing' = executing
    BY <1>2 DEF SetRefreshPeriodMs
  <2>2. OpenWork' = OpenWork
    BY <2>1 DEF OpenWork, Outstanding, SlotsExecuting, IsActive
  <2> QED
    BY <2>1, <2>2, Stutters
<1>3. ASSUME NEW repeats, Start(repeats) PROVE Simulates
  <2>1. instructions' = instructions
    BY <1>3 DEF Start
  <2>2. CASE UNCHANGED <<state, runtimes, executing>>
    <3>1. OpenWork' = OpenWork
      BY <2>1, <2>2 DEF OpenWork, Outstanding, SlotsExecuting, IsActive
    <3> QED
      BY <2>1, <2>2, <3>1, Stutters
  <2>3. CASE ~UNCHANGED <<state, runtimes, executing>>
    <3> DEFINE started == StartedRuntime(Root, now, repeats, NoGroup)
    <3>1. /\ state # "kActive" /\ executing' = <<>>
          /\ \/ /\ Members(instructions, Root) = {}
                /\ state' = "kCompleted"
                /\ runtimes' = [g \in GroupIds |-> IdleRuntime]
             \/ /\ Members(instructions, Root) # {}
                /\ state' = "kActive"
                /\ runtimes' = [g \in GroupIds |-> IF g = Root THEN started
                                                               ELSE IdleRuntime]
      BY <1>3, <2>3 DEF Start
    <3>2. ~IdleRuntime.active
      BY DEF IdleRuntime
    <3>3. started.active /\ started.pending = Members(instructions, Root)
      BY DEF StartedRuntime
    <3> HIDE DEF started
    <3>4. \A g \in GroupIds : SlotsExecuting(g)' = {}
      BY <3>1 DEF SlotsExecuting
    <3>5. \A g \in GroupIds : WorkOf(g)' = IF g = Root THEN Members(instructions, Root)
                                                       ELSE {}
      BY <3>1, <3>2, <3>3, <3>4, GroupAssumption DEF WorkOf, IsActive
    <3>6. \A k : k \in OpenWork' <=> \E g \in GroupIds : k \in WorkOf(g)'
      <4>1. WorkIsSplit'
        BY WorkSplits, PTL
      <4> QED
        BY <4>1 DEF WorkIsSplit
    <3>7. OpenWork' = Members(instructions, Root)
      BY <3>5, <3>6, GroupAssumption
    <3>8. Lifecycle!Begin
      BY <2>1, <3>1, <3>7 DEF Lifecycle!Begin, Lifecycle!Of, Members
    <3> QED
      BY <3>8 DEF Simulates, Lifecycle!Next
  <2> QED
    BY <2>2, <2>3
<1>4. CASE ResetInstructions
  <2>1. state' = "kEditable" /\ instructions' = <<>>
    BY <1>4 DEF ResetInstructions
  <2>2. OpenWork' = {}
    BY <2>1 DEF OpenWork
  <2>3. Lifecycle!Reset
    BY <2>1, <2>2 DEF Lifecycle!Reset
  <2> QED
    BY <2>3 DEF Simulates, Lifecycle!Next
<1> QED
  BY <1>1, <1>2, <1>3, <1>4 DEF Call

(* A finished instruction leaves the work of its group.                    *)
LEMMA FinishSimulates ==
    ASSUME StructInv, StructInv', NEW g \in GroupIds, NEW k \in WorkOf(g), IsActive(g),
           state' = state, instructions' = instructions,
           WorkOf(g)' = WorkOf(g) \ {k},
           \A h \in GroupIds \ {g} : WorkOf(h)' = WorkOf(h)
    PROVE  Simulates
<1>1. k \in OpenWork /\ OpenWork' = OpenWork \ {k}
  BY FinishedWork
<1>2. Lifecycle!Finish(k)
  BY <1>1, ActiveProgram DEF Lifecycle!Finish
<1> QED
  BY <1>1, <1>2 DEF Simulates, Lifecycle!Next

(* DrainExecuting: an entry that stays is no step, one that leaves is      *)
(* finished.                                                               *)
LEMMA DrainSimulates ==
    ASSUME StructInv, StructInv', DrainResumes \/ DrainRemoves
    PROVE  Simulates
<1>1. PICK k \in DOMAIN executing : Drains(k)
  BY DrainEffect
<1>2. state' = state /\ instructions' = instructions
  BY DEF DrainResumes, DrainRemoves
<1>3. \A h \in GroupIds : /\ runtimes'[h].active = runtimes[h].active
                          /\ runtimes'[h].pending = runtimes[h].pending
  BY <1>1 DEF Drains, SameInvocation
<1>4. CASE executing' = [executing EXCEPT ![k].deadline =
                           Later(timestamp, ExecuteDelay(executing[k].slot))]
  <2>1. \A j \in DOMAIN executing : executing[j] \in Executing
    BY EntryType DEF StructInv, TypeInv
  <2>2. /\ DOMAIN executing' = DOMAIN executing
        /\ \A j \in DOMAIN executing : /\ executing'[j].slot = executing[j].slot
                                       /\ executing'[j].runtime = executing[j].runtime
    BY <1>4, <2>1 DEF Executing
  <2>3. \A h \in GroupIds : SlotsExecuting(h)' = SlotsExecuting(h)
    BY <2>2 DEF SlotsExecuting
  <2>4. \A h \in GroupIds : WorkOf(h)' = WorkOf(h)
    BY <1>3, <2>3 DEF WorkOf, IsActive
  <2> QED
    BY <1>2, <2>4, SameWork, Stutters
<1>5. CASE executing' = SwapRemove(executing, k)
  <2>1. PICK r \in GroupIds, x \in Slots : r = executing[k].runtime /\ x = executing[k].slot
    BY <1>1 DEF Drains, Executing
  <2>2. IsActive(r) /\ x \in SlotsExecuting(r) /\ x \notin runtimes[r].pending
    BY <1>1, <2>1, EntryType DEF Drains, StructInv, TypeInv, ExecutingIsSound
  <2>3. \A h \in GroupIds : SlotsExecuting(h)' = SlotsExecuting(h) \ {x}
    BY <1>5, <2>1, SlotsRemoved DEF StructInv
  <2>4. \A h \in GroupIds \ {r} : x \notin SlotsExecuting(h)
    BY <2>1 DEF StructInv, ExecutingIsSound, SlotsExecuting
  <2>5. x \in WorkOf(r) /\ WorkOf(r)' = WorkOf(r) \ {x}
    BY <1>3, <2>2, <2>3 DEF WorkOf, IsActive
  <2>6. \A h \in GroupIds \ {r} : WorkOf(h)' = WorkOf(h)
    <3> SUFFICES ASSUME NEW h \in GroupIds \ {r} PROVE WorkOf(h)' = WorkOf(h)
      OBVIOUS
    <3>1. SlotsExecuting(h)' = SlotsExecuting(h)
      BY <2>3, <2>4
    <3> QED
      BY <1>3, <3>1 DEF WorkOf, IsActive
  <2> QED
    BY <1>2, <2>2, <2>5, <2>6, FinishSimulates
<1> QED
  BY <1>1, <1>4, <1>5 DEF Drains

(* A ready group has nothing outstanding, and when it is the root nobody   *)
(* has.                                                                    *)
LEMMA ReadyHasNoWork ==
    ASSUME StructInv, NEW g \in GroupIds, IsReady(g)
    PROVE  WorkOf(g) = {} /\ (g = Root => OpenWork = {})
<1>1. SlotsExecuting(g) = {}
  BY NoRunningWork DEF IsReady, StructInv, TypeInv
<1>2. WorkOf(g) = {}
  BY <1>1 DEF WorkOf, IsReady
<1>3. ASSUME g = Root PROVE OpenWork = {}
  <2>1. \A h \in GroupIds : IsActive(h) => h = Root
    BY <1>3, LoneRoot DEF IsReady, StructInv, TypeInv
  <2>2. \A h \in GroupIds : WorkOf(h) = {}
    BY <1>2, <1>3, <2>1 DEF WorkOf
  <2>3. WorkIsSplit
    BY WorkSplits
  <2>4. \A k : k \notin OpenWork
    BY <2>2, <2>3 DEF WorkIsSplit
  <2> QED
    BY <2>4
<1> QED
  BY <1>2, <1>3

(* CompleteReadyGroups: another pass repeats the group, the end of the     *)
(* root completes the program, the end of another group is no step.        *)
LEMMA CompleteSimulates ==
    ASSUME StructInv, StructInv', CallInv, NEW g \in GroupIds,
           RestartGroup(g) \/ EndGroup(g)
    PROVE  Simulates
<1>1. instructions' = instructions /\ executing' = executing
  BY DEF RestartGroup, EndGroup
<1>2. \A h \in GroupIds : SlotsExecuting(h)' = SlotsExecuting(h)
  BY <1>1, SameSlots
<1>3. IsReady(g) /\ IsActive(g)
  BY DEF RestartGroup, EndGroup, CompletesNext, IsReady
<1>4. WorkOf(g) = {} /\ (g = Root => OpenWork = {}) /\ state = "kActive"
  BY <1>3, ReadyHasNoWork, ActiveProgram
<1>5. CASE RestartGroup(g)
  <2>1. Restarts(g)
    BY <1>5, RestartEffect
  <2>2. WorkOf(g)' = Members(instructions, g)
    BY <1>2, <2>1 DEF Restarts, WorkOf, IsActive
  <2>3. \A h \in GroupIds \ {g} : WorkOf(h)' = WorkOf(h)
    BY <1>2, <2>1 DEF Restarts, WorkOf, IsActive
  <2>4. /\ OpenWork' = OpenWork \cup Members(instructions, g)
        /\ Members(instructions, g) \cap OpenWork = {}
    BY <1>4, <2>2, <2>3, BegunWork
  <2>5. ASSUME g # Root
        PROVE  \E k \in DOMAIN instructions \ OpenWork : Lifecycle!IsCallOf(k, g)
    <3>1. PICK k \in DOMAIN instructions : CallOf(g, k)
      BY <1>3, <2>5 DEF CallInv, CallsAreMade
    <3> DEFINE parent == runtimes[g].parent
    <3>2. instructions[k].group = parent /\ k \notin runtimes[parent].pending
      BY <3>1 DEF CallOf
    <3>3. k \notin SlotsExecuting(parent)
      BY <3>1 DEF CallOf, CallInv, CallsDoNotRun, SlotsExecuting
    <3>4. k \notin OpenWork
      BY <3>2, <3>3 DEF OpenWork, Outstanding
    <3> QED
      BY <3>1, <3>4 DEF CallOf, IsRunGroup, Lifecycle!IsCallOf
  <2>6. state' = state
    BY <1>5 DEF RestartGroup
  <2>7. Lifecycle!Repeat(g)
    BY <1>1, <1>4, <2>4, <2>5, <2>6 DEF Lifecycle!Repeat, Lifecycle!Of, Members
  <2> QED
    BY <2>7 DEF Simulates, Lifecycle!Next
<1>6. CASE EndGroup(g)
  <2>1. Ends(g)
    BY <1>6, EndEffect
  <2>2. WorkOf(g)' = {}
    BY <2>1 DEF Ends, WorkOf, IsActive
  <2>3. \A h \in GroupIds \ {g} : WorkOf(h)' = WorkOf(h)
    BY <1>2, <2>1 DEF Ends, SameInvocation, WorkOf, IsActive
  <2>4. OpenWork' = OpenWork
    BY <1>4, <2>2, <2>3, SameWork
  <2>5. CASE g = Root
    <3>1. state' = "kCompleted"
      BY <1>6, <2>5 DEF EndGroup
    <3>2. Lifecycle!Complete
      BY <1>1, <1>4, <2>4, <2>5, <3>1 DEF Lifecycle!Complete
    <3> QED
      BY <3>2 DEF Simulates, Lifecycle!Next
  <2>6. CASE g # Root
    <3>1. state' = state
      BY <1>6, <2>6 DEF EndGroup
    <3> QED
      BY <1>1, <2>4, <3>1, Stutters
  <2> QED
    BY <2>5, <2>6
<1> QED
  BY <1>5, <1>6

(* PickDueInstructions, a call that starts its target launches it.         *)
LEMMA LaunchSimulates ==
    ASSUME StructInv, StructInv', NEW g \in GroupIds, PickStartsChild(g)
    PROVE  Simulates
<1>1. PICK k \in DOMAIN instructions, child \in GroupIds : Launches(g, k, child)
  BY StartsChildEffect DEF Launches, Picked
<1>2. /\ IsActive(g) /\ k \in runtimes[g].pending /\ k \in Members(instructions, g)
      /\ IsRunGroup(instructions[k]) /\ child = instructions[k].target
      /\ child # Root /\ child # g /\ ~IsActive(child)
      /\ SlotsExecuting(child) = {}
  BY <1>1 DEF Launches, Picked
<1>3. instructions' = instructions /\ executing' = executing /\ state' = state
  BY DEF PickStartsChild
<1>4. \A h \in GroupIds : SlotsExecuting(h)' = SlotsExecuting(h)
  BY <1>3, SameSlots
<1>5. \A h \in GroupIds \ {child} :
        /\ runtimes'[h].active = runtimes[h].active
        /\ runtimes'[h].pending = IF h = g THEN runtimes[g].pending \ {k}
                                           ELSE runtimes[h].pending
  BY <1>1 DEF Launches, MovesCursor, SameInvocation
<1>6. k \notin SlotsExecuting(g)
  BY <1>2 DEF SlotsExecuting, StructInv, ExecutingIsSound
<1>7. WorkOf(g)' = WorkOf(g) \ {k} /\ k \in WorkOf(g)
  BY <1>2, <1>4, <1>5, <1>6 DEF WorkOf, IsActive
<1>8. \A h \in GroupIds \ {g, child} : WorkOf(h)' = WorkOf(h)
  BY <1>4, <1>5 DEF WorkOf, IsActive
<1>9. WorkOf(child) = {} /\ WorkOf(child)' = Members(instructions, child)
  BY <1>1, <1>2, <1>4 DEF Launches, WorkOf, IsActive
<1>10. WorkIsSplit /\ WorkIsSplit'
  BY WorkSplits, PTL
<1>11. \A j : j \in OpenWork <=> \E h \in GroupIds : j \in WorkOf(h)
  BY <1>10 DEF WorkIsSplit
<1>12. \A j : j \in OpenWork' <=> \E h \in GroupIds : j \in WorkOf(h)'
  BY <1>10 DEF WorkIsSplit
<1>13. \A h \in GroupIds \ {g} : k \notin WorkOf(h)
  BY <1>2, <1>10 DEF WorkIsSplit, Members
<1>14. k \notin Members(instructions, child)
  BY <1>2 DEF Members
<1>15. ASSUME NEW j
       PROVE  j \in OpenWork' <=> (j \in OpenWork /\ j # k) \/ j \in Members(instructions, child)
  BY <1>2, <1>7, <1>8, <1>9, <1>11, <1>12, <1>13, <1>14
<1>16. OpenWork' = (OpenWork \ {k}) \cup Members(instructions, child) /\ k \in OpenWork
  BY <1>7, <1>11, <1>15
<1>17. Members(instructions, child) \cap OpenWork = {}
  BY <1>9, <1>10, <1>11 DEF WorkIsSplit, Members
<1>18. Lifecycle!Launch(k, child)
  BY <1>2, <1>3, <1>16, <1>17, ActiveProgram
  DEF Lifecycle!Launch, Lifecycle!IsCallOf, Lifecycle!Of, IsRunGroup, Members
<1> QED
  BY <1>16, <1>18 DEF Simulates, Lifecycle!Next

(* PickDueInstructions, anything else: the instruction is finished, or     *)
(* moves from the cursor to the executing list.                            *)
LEMMA PickSimulates ==
    ASSUME StructInv, StructInv', NEW g \in GroupIds, PickRejectsCall(g) \/ PickExecutes(g)
    PROVE  Simulates
<1>1. PICK k \in DOMAIN instructions : k = NextSlot(g) /\ Picked(g, k)
  BY RejectEffect, ExecutesEffect DEF Picked
<1>2. /\ IsActive(g) /\ k \in runtimes[g].pending /\ k \in Members(instructions, g)
  BY <1>1 DEF Picked
<1>3. instructions' = instructions /\ state' = state
  BY DEF PickRejectsCall, PickExecutes
<1>4. \A h \in GroupIds :
        /\ runtimes'[h].active = runtimes[h].active
        /\ runtimes'[h].pending = IF h = g THEN runtimes[g].pending \ {k}
                                           ELSE runtimes[h].pending
  BY <1>1, RejectEffect, ExecutesEffect DEF MovesCursor, SameInvocation
<1>5. k \notin SlotsExecuting(g) /\ k \in WorkOf(g)
  BY <1>2 DEF SlotsExecuting, StructInv, ExecutingIsSound, WorkOf
<1>6. CASE executing' = executing
  <2>1. \A h \in GroupIds : SlotsExecuting(h)' = SlotsExecuting(h)
    BY <1>6, SameSlots
  <2>2. WorkOf(g)' = WorkOf(g) \ {k}
    BY <1>2, <1>4, <1>5, <2>1 DEF WorkOf, IsActive
  <2>3. \A h \in GroupIds \ {g} : WorkOf(h)' = WorkOf(h)
    BY <1>4, <2>1 DEF WorkOf, IsActive
  <2> QED
    BY <1>2, <1>3, <1>5, <2>2, <2>3, FinishSimulates
<1>7. CASE executing' # executing
  <2>1. k \in Slots /\ ExecuteDelay(k) \in Int /\ timestamp \in Int
    BY <1>1, SlotType, DelayType, TimeIsInt DEF StructInv, TypeInv, TypeOK
  <2>2. PICK deadline \in Time :
          executing' = Append(executing, [slot |-> k, runtime |-> g, deadline |-> deadline])
    BY <1>1, <1>7, <2>1, LaterType, ExecutesEffect DEF PickRejectsCall
  <2>3. /\ SlotsExecuting(g)' = SlotsExecuting(g) \cup {k}
        /\ \A h \in GroupIds \ {g} : SlotsExecuting(h)' = SlotsExecuting(h)
    BY <2>1, <2>2, SlotsAdded DEF StructInv
  <2>4. WorkOf(g)' = WorkOf(g)
    BY <1>2, <1>4, <2>3 DEF WorkOf, IsActive
  <2>5. \A h \in GroupIds \ {g} : WorkOf(h)' = WorkOf(h)
    BY <1>4, <2>3 DEF WorkOf, IsActive
  <2> QED
    BY <1>3, <2>4, <2>5, SameWork, Stutters
<1> QED
  BY <1>6, <1>7

(* Every step.                                                             *)
LEMMA StepSimulates ==
    ASSUME StructInv, StructInv', CallInv, [Next]_vars
    PROVE  Simulates
<1>1. CASE Call
  BY <1>1, CallSimulates
<1>2. CASE DrainResumes \/ DrainRemoves
  BY <1>2, DrainSimulates
<1>3. ASSUME NEW g \in GroupIds, RestartGroup(g) \/ EndGroup(g) PROVE Simulates
  BY <1>3, CompleteSimulates
<1>4. ASSUME NEW g \in GroupIds, PickStartsChild(g) PROVE Simulates
  BY <1>4, LaunchSimulates
<1>5. ASSUME NEW g \in GroupIds, PickRejectsCall(g) \/ PickExecutes(g) PROVE Simulates
  BY <1>5, PickSimulates
<1>6. CASE \/ RunCall \/ Tick \/ UNCHANGED vars
           \/ DrainDone \/ CompleteDone \/ PickDone \/ ScheduleNextRun
  <2>1. /\ state' = state /\ instructions' = instructions
        /\ runtimes' = runtimes /\ executing' = executing
    BY <1>6
    DEF RunCall, RunWhenNotActive, RunBegin, Tick, DrainDone, CompleteDone, PickDone,
        ScheduleNextRun, vars, programVars
  <2>2. OpenWork' = OpenWork
    BY <2>1 DEF OpenWork, Outstanding, SlotsExecuting, IsActive
  <2> QED
    BY <2>1, <2>2, Stutters
<1>7. scan \subseteq GroupIds
  BY DEF StructInv, TypeInv, TypeOK
<1> QED
  BY <1>1, <1>2, <1>3, <1>4, <1>5, <1>6, <1>7, Zenon DEF Next, RunStep

(* Every behaviour of the controller is one of the program lifecycle: Run  *)
(* loses, doubles or invents no instruction, a call puts the whole target  *)
(* group on the list while it has nothing outstanding, and the program     *)
(* completes only when nothing is left to do.                              *)
THEOREM Refinement == Spec => ImplementsLifecycle
<1>1. Init => Lifecycle!Init
  <2> SUFFICES ASSUME Init PROVE Lifecycle!Init
    OBVIOUS
  <2>1. state = "kEditable" /\ instructions = <<>>
    BY DEF Init
  <2>2. OpenWork = {}
    BY <2>1 DEF OpenWork
  <2> QED
    BY <2>1, <2>2 DEF Lifecycle!Init
<1>2. Init => CallInv
  BY DEF Init, IdleRuntime, IsActive, CallInv, CallsAreMade, CallsDoNotRun
<1>3. StructInv /\ CallInv /\ [Next]_vars => CallInv'
  BY CallNext
<1>4. StructInv /\ StructInv' /\ CallInv /\ [Next]_vars
        => [Lifecycle!Next]_(Lifecycle!lifecycleVars)
  BY StepSimulates DEF Simulates
<1> QED
  BY <1>1, <1>2, <1>3, <1>4, StructureCorrect, PTL
  DEF Spec, ImplementsLifecycle, Lifecycle!Spec

-----------------------------------------------------------------------------
(* What ObservePositiveBoundary does to the flags.                         *)

(* rt has the invocations of runtimes, and no flag is lost.                *)
Raised(rt) ==
    \A h \in GroupIds :
        /\ rt[h].active = runtimes[h].active
        /\ rt[h].parent = runtimes[h].parent
        /\ rt[h].repeats_remaining = runtimes[h].repeats_remaining
        /\ runtimes[h].positive_boundary_observed => rt[h].positive_boundary_observed

(* A flagged group's caller is flagged.                                    *)
FlagsReach(rt) ==
    \A g \in GroupIds : rt[g].active /\ g # Root /\ rt[g].positive_boundary_observed =>
        rt[rt[g].parent].positive_boundary_observed

(* Observing a boundary flags the group, and the flags reach the callers.  *)
LEMMA ObserveRaises ==
    ASSUME TypeOK, CallTreeIsSound, FlagsReach(runtimes), NEW r \in GroupIds, IsActive(r)
    PROVE  /\ Raised(ObservePositiveBoundary(r))
           /\ FlagsReach(ObservePositiveBoundary(r))
           /\ ObservePositiveBoundary(r)[r].positive_boundary_observed
<1> DEFINE obs == ObservePositiveBoundary(r)
<1>1. ASSUME NEW h \in GroupIds
      PROVE  /\ obs[h].active = runtimes[h].active
             /\ obs[h].parent = runtimes[h].parent
             /\ obs[h].repeats_remaining = runtimes[h].repeats_remaining
             /\ obs[h].positive_boundary_observed <=>
                  h \in BoundaryChain(r) \/ runtimes[h].positive_boundary_observed
  <2>1. runtimes[h] \in Runtime
    BY DEF TypeOK
  <2>2. CASE h \in BoundaryChain(r)
    <3>1. obs[h] = [runtimes[h] EXCEPT !.positive_boundary_observed = TRUE]
      BY <2>2 DEF ObservePositiveBoundary
    <3> HIDE DEF obs
    <3> QED
      BY <2>1, <2>2, <3>1, ZenonT(40) DEF Runtime
  <2>3. CASE h \notin BoundaryChain(r)
    <3>1. obs[h] = runtimes[h]
      BY <2>3 DEF ObservePositiveBoundary
    <3> HIDE DEF obs
    <3> QED
      BY <2>3, <3>1, Zenon
  <2> QED
    BY <2>2, <2>3
<1>2. r \in BoundaryChain(r)
  BY DEF BoundaryChain
<1>3. ASSUME NEW h \in BoundaryChain(r), h # Root
      PROVE  runtimes[h].parent \in BoundaryChain(r)
  <2>1. h \in GroupIds /\ IsActive(h)
    BY DEF BoundaryChain
  <2>2. /\ runtimes[h].parent \in GroupIds /\ IsActive(runtimes[h].parent)
        /\ runtimes[h].parent # NoGroup
    BY <1>3, <2>1, NullAssumption DEF CallTreeIsSound
  <2> QED
    BY <2>1, <2>2 DEF BoundaryChain, HoldsParents
<1> HIDE DEF obs
<1>4. Raised(obs)
  BY <1>1, Zenon DEF Raised
<1>5. ASSUME NEW g \in GroupIds, obs[g].active, g # Root, obs[g].positive_boundary_observed
      PROVE  obs[obs[g].parent].positive_boundary_observed
  <2>1. IsActive(g) /\ obs[g].parent = runtimes[g].parent
    BY <1>1, <1>5, Zenon DEF IsActive
  <2>2. runtimes[g].parent \in GroupIds
    BY <1>5, <2>1 DEF CallTreeIsSound
  <2>3. runtimes[g].positive_boundary_observed =>
          runtimes[runtimes[g].parent].positive_boundary_observed
    BY <1>5, <2>1, Zenon DEF FlagsReach, IsActive
  <2> QED
    BY <1>1, <1>3, <1>5, <2>1, <2>2, <2>3, Zenon
<1>6. FlagsReach(obs)
  BY <1>5, Zenon DEF FlagsReach
<1>7. obs[r].positive_boundary_observed
  BY <1>1, <1>2, Zenon
<1> QED
  BY <1>4, <1>6, <1>7 DEF obs

(* The flags of rt are those of obs, with the same invocations.            *)
SameFlags(rt, obs) ==
    \A h \in GroupIds :
        /\ rt[h].active = obs[h].active
        /\ rt[h].parent = obs[h].parent
        /\ rt[h].repeats_remaining = obs[h].repeats_remaining
        /\ rt[h].positive_boundary_observed = obs[h].positive_boundary_observed

(* Then what was observed in obs was observed in rt.                       *)
LEMMA SameFlagsRaised ==
    ASSUME NEW rt, NEW obs, SameFlags(rt, obs), Raised(obs), FlagsReach(obs),
           CallTreeIsSound
    PROVE  Raised(rt) /\ FlagsReach(rt)
<1>1. Raised(rt)
  BY Zenon DEF Raised, SameFlags
<1>2. ASSUME NEW g \in GroupIds, rt[g].active, g # Root, rt[g].positive_boundary_observed
      PROVE  rt[rt[g].parent].positive_boundary_observed
  <2>1. obs[g].active /\ obs[g].positive_boundary_observed /\ rt[g].parent = obs[g].parent
    BY <1>2, Zenon DEF SameFlags
  <2>2. IsActive(g) /\ obs[g].parent = runtimes[g].parent
    BY <2>1, Zenon DEF Raised, IsActive
  <2>3. obs[g].parent \in GroupIds
    BY <1>2, <2>2 DEF CallTreeIsSound
  <2>4. obs[obs[g].parent].positive_boundary_observed
    BY <1>2, <2>1, Zenon DEF FlagsReach
  <2> QED
    BY <2>1, <2>3, <2>4, Zenon DEF SameFlags
<1>3. FlagsReach(rt)
  BY <1>2, Zenon DEF FlagsReach
<1> QED
  BY <1>1, <1>3

(* Moving the cursor flags the group if the mark was positive.             *)
LEMMA CursorRaises ==
    ASSUME TypeOK, CallTreeIsSound, FlagsReach(runtimes), NEW g \in GroupIds, IsActive(g),
           NEW k
    PROVE  /\ Raised(CursorMoved(g, k))
           /\ FlagsReach(CursorMoved(g, k))
           /\ instructions[k].mark > 0 => CursorMoved(g, k)[g].positive_boundary_observed
<1> DEFINE obs == IF instructions[k].mark > 0 THEN ObservePositiveBoundary(g) ELSE runtimes
           rt == CursorMoved(g, k)
<1>1. obs \in [GroupIds -> Runtime]
  BY ObserveType DEF TypeOK
<1>2. rt = [obs EXCEPT ![g].pending = @ \ {k}]
  BY DEF CursorMoved
<1>3. Raised(runtimes)
  BY Zenon DEF Raised
<1>4. Raised(obs) /\ FlagsReach(obs)
  BY <1>3, ObserveRaises
<1>5. instructions[k].mark > 0 => obs[g].positive_boundary_observed
  BY ObserveRaises
<1> HIDE DEF obs, rt
<1>6. SameFlags(rt, obs)
  BY <1>1, <1>2, ZenonT(40) DEF SameFlags, Runtime
<1>7. Raised(rt) /\ FlagsReach(rt)
  BY <1>4, <1>6, SameFlagsRaised
<1>8. instructions[k].mark > 0 => rt[g].positive_boundary_observed
  BY <1>5, <1>6, Zenon DEF SameFlags
<1> QED
  BY <1>7, <1>8 DEF rt

(* DrainExecuting: the work x of group r was executed, which is flagged    *)
(* now; no other group's work is touched, and no guard fails.              *)
DrainsFor(r, x) ==
    /\ IsActive(r)
    /\ x \in Members(instructions, r)
    /\ x \notin runtimes[r].pending
    /\ runtimes'[r].positive_boundary_observed
    /\ replay' = ExecuteReplay(x)
    /\ \A h \in GroupIds : runtimes'[h].pending = runtimes[h].pending
    /\ \A h \in GroupIds \ {r} : SlotsExecuting(h)' = SlotsExecuting(h)

(* A step of DrainExecuting has this effect.                               *)
LEMMA DrainRaises ==
    ASSUME StructInv, FlagsReach(runtimes), DrainResumes \/ DrainRemoves
    PROVE  /\ Raised(runtimes') /\ FlagsReach(runtimes') /\ status' = status
           /\ \E r \in GroupIds, x \in Slots : DrainsFor(r, x)
<1> USE DEF StructInv
<1>1. PICK k \in DOMAIN executing :
         /\ \/ /\ runtimes' = ObservePositiveBoundary(executing[k].runtime)
               /\ executing' = [executing EXCEPT ![k].deadline =
                                  Later(timestamp, ExecuteDelay(executing[k].slot))]
               /\ status' = status
            \/ /\ ~IsOrphan(executing[k]) =>
                    /\ runtimes[executing[k].runtime].active_count # 0 => status' = status
                    /\ runtimes' = IF runtimes[executing[k].runtime].active_count = 0
                                     THEN ObservePositiveBoundary(executing[k].runtime)
                                     ELSE [ObservePositiveBoundary(executing[k].runtime) EXCEPT
                                             ![executing[k].runtime].active_count = @ - 1]
               /\ executing' = SwapRemove(executing, k)
         /\ ~IsOrphan(executing[k]) => replay' = ExecuteReplay(executing[k].slot)
  BY DEF DrainResumes, DrainRemoves, Execute
<1>2. PICK r \in GroupIds, x \in Slots : r = executing[k].runtime /\ x = executing[k].slot
  BY EntryType DEF TypeInv, Executing
<1>3. /\ ~IsOrphan(executing[k]) /\ IsActive(r)
      /\ x \in Members(instructions, r) /\ x \notin runtimes[r].pending
  BY <1>2 DEF ExecutingIsSound, IsOrphan
<1>4. runtimes[r].active_count # 0
  <2>1. x \in SlotsExecuting(r)
    BY <1>2 DEF SlotsExecuting
  <2>2. IsFiniteSet(SlotsExecuting(r))
    BY SlotsExecutingFinite DEF TypeInv
  <2>3. Cardinality(SlotsExecuting(r)) # 0
    BY <2>1, <2>2, FS_EmptySet
  <2> QED
    BY <2>3 DEF ExecutingIsSound
<1> DEFINE obs == ObservePositiveBoundary(r)
<1>5. /\ obs \in [GroupIds -> Runtime]
      /\ \A h \in GroupIds : obs[h].pending = runtimes[h].pending
  BY ObserveType DEF TypeInv
<1>6. Raised(obs) /\ FlagsReach(obs) /\ obs[r].positive_boundary_observed
  BY <1>3, ObserveRaises DEF TypeInv
<1>7. /\ runtimes' = obs \/ runtimes' = [obs EXCEPT ![r].active_count = @ - 1]
      /\ status' = status
      /\ replay' = ExecuteReplay(x)
  BY <1>1, <1>2, <1>3, <1>4
<1> HIDE DEF obs
<1>8. SameFlags(runtimes', obs) /\ \A h \in GroupIds : runtimes'[h].pending = obs[h].pending
  <2>1. CASE runtimes' = obs
    BY <2>1, Zenon DEF SameFlags
  <2>2. CASE runtimes' = [obs EXCEPT ![r].active_count = @ - 1]
    BY <1>5, <2>2, ZenonT(40) DEF SameFlags, Runtime
  <2> QED
    BY <1>7, <2>1, <2>2
<1>9. Raised(runtimes') /\ FlagsReach(runtimes') /\ runtimes'[r].positive_boundary_observed
  <2>1. Raised(runtimes') /\ FlagsReach(runtimes')
    BY <1>6, <1>8, SameFlagsRaised
  <2>2. runtimes'[r].positive_boundary_observed
    BY <1>6, <1>8, Zenon DEF SameFlags
  <2> QED
    BY <2>1, <2>2
<1>10. ASSUME NEW h \in GroupIds \ {r} PROVE SlotsExecuting(h)' = SlotsExecuting(h)
  <2>1. CASE executing' = [executing EXCEPT ![k].deadline =
                             Later(timestamp, ExecuteDelay(executing[k].slot))]
    <3>1. \A j \in DOMAIN executing : executing[j] \in Executing
      BY EntryType DEF TypeInv
    <3>2. /\ DOMAIN executing' = DOMAIN executing
          /\ \A j \in DOMAIN executing : /\ executing'[j].slot = executing[j].slot
                                         /\ executing'[j].runtime = executing[j].runtime
      BY <2>1, <3>1 DEF Executing
    <3> QED
      BY <3>2 DEF SlotsExecuting
  <2>2. CASE executing' = SwapRemove(executing, k)
    <3>1. SlotsExecuting(h)' = SlotsExecuting(h) \ {x}
      BY <1>2, <2>2, SlotsRemoved
    <3>2. x \notin SlotsExecuting(h)
      BY <1>2 DEF ExecutingIsSound, SlotsExecuting
    <3> QED
      BY <3>1, <3>2
  <2> QED
    BY <1>1, <2>1, <2>2
<1>11. DrainsFor(r, x)
  BY <1>3, <1>5, <1>7, <1>8, <1>9, <1>10, Zenon DEF DrainsFor
<1> QED
  BY <1>7, <1>9, <1>11

-----------------------------------------------------------------------------
(* What Run reports.                                                       *)

(* What preflight established holds as long as the program is active.      *)
ProgramIsAccepted ==
    state = "kActive" =>
        /\ TargetsResolve(instructions)
        /\ \A g \in Labels(instructions) : g \notin Reaches(instructions, g)
        /\ \A k \in DOMAIN instructions :
             IsRunGroup(instructions[k]) /\ instructions[k].repeats # 0 =>
                 instructions[k].target \in Bounded(instructions)

(* Only a group that can take time has passes left.                        *)
RepeatsArePromised ==
    \A g \in GroupIds : IsActive(g) /\ runtimes[g].repeats_remaining # 0 =>
        g \in Bounded(instructions)

(* Slot k of g, which the cursor has passed, will still be observed if it  *)
(* takes time.                                                             *)
WillBeObserved(g, k) ==
    /\ instructions[k].mark = 0
    /\ HasPositiveSchedulingBoundary(instructions[k]) => k \in SlotsExecuting(g)
    /\ IsRunGroup(instructions[k]) /\ instructions[k].target \in Bounded(instructions) =>
         /\ IsActive(instructions[k].target)
         /\ runtimes[instructions[k].target].parent = g

(* Where every LED exists and no two calls share a target, a group of      *)
(* which no boundary was observed has lost none.                           *)
Promises ==
    \A g \in GroupIds : IsActive(g) /\ ~runtimes[g].positive_boundary_observed =>
        \A k \in Members(instructions, g) \ runtimes[g].pending : WillBeObserved(g, k)

PromisesAreKept == ~MissingLed /\ ~SharedTarget => Promises

FailureInv ==
    /\ PendingIsUnstarted
    /\ ProgramIsAccepted
    /\ RepeatsArePromised
    /\ FlagsReach(runtimes)
    /\ PromisesAreKept
    /\ RunFailureHasCause

(* A group that has ended its pass and can take time was observed to.      *)
LEMMA ReadyIsFlagged ==
    ASSUME StructInv, ProgramIsAccepted, Promises, NEW g \in GroupIds, IsReady(g),
           g \in Bounded(instructions)
    PROVE  runtimes[g].positive_boundary_observed
<1> SUFFICES ASSUME ~runtimes[g].positive_boundary_observed PROVE FALSE
  OBVIOUS
<1> USE DEF StructInv
<1>1. IsActive(g) /\ runtimes[g].pending = {}
  BY DEF IsReady
<1>2. SlotsExecuting(g) = {} /\ Children(g) = {}
  BY NoRunningWork, TreeFacts DEF TypeInv, IsReady
<1>3. TargetsResolve(instructions) /\ instructions \in Seq(Instruction)
  BY <1>1, ActiveProgram DEF ProgramIsAccepted, TypeInv, TypeOK
<1>4. ASSUME NEW k \in Members(instructions, g) PROVE WillBeObserved(g, k)
  BY <1>1 DEF Promises
<1>5. g \notin OwnBoundary(instructions)
  <2>1. ASSUME NEW k \in DOMAIN instructions, instructions[k].group = g
        PROVE  ~(instructions[k].mark > 0) /\ ~HasPositiveSchedulingBoundary(instructions[k])
    <3>1. WillBeObserved(g, k)
      BY <1>4, <2>1 DEF Members
    <3> QED
      BY <1>2, <3>1 DEF WillBeObserved
  <2> QED
    BY <2>1 DEF OwnBoundary
<1>6. PICK c \in Callees(instructions, g) : c \in Bounded(instructions)
  BY <1>3, <1>5, BoundedStep
<1>7. PICK k \in Members(instructions, g) :
         IsRunGroup(instructions[k]) /\ instructions[k].target = c
  BY DEF Callees
<1>8. c \in GroupIds /\ IsActive(c) /\ runtimes[c].parent = g
  BY <1>3, <1>4, <1>6, <1>7, OwnType DEF WillBeObserved, Bounded
<1> QED
  BY <1>2, <1>8 DEF Children

(* A call is rejected because its target is active, and that is so because *)
(* another call has launched it.                                           *)
LEMMA RejectIsShared ==
    ASSUME StructInv, CallInv, ProgramIsAccepted, NEW g \in GroupIds, PickRejectsCall(g)
    PROVE  /\ SharedTarget
           /\ instructions[NextSlot(g)].target \in Labels(instructions) \ {Root}
           /\ IsActive(instructions[NextSlot(g)].target)
<1> USE DEF StructInv
<1> DEFINE k == NextSlot(g)
           c == instructions[k].target
<1>1. Picked(g, k) /\ IsRunGroup(instructions[k]) /\ ~CanStart(c)
  BY RejectEffect DEF PickRejectsCall
<1>2. state = "kActive" /\ k \in DOMAIN instructions /\ instructions[k].group = g
  BY <1>1, ActiveProgram DEF Picked, Members
<1>3. c \in Labels(instructions) \ {Root}
  BY <1>1, <1>2 DEF ProgramIsAccepted, TargetsResolve
<1>4. IsActive(c) /\ c \in GroupIds
  BY <1>1, <1>2, <1>3, OwnType DEF CanStart, TypeInv, TypeOK
<1>5. PICK j \in DOMAIN instructions : CallOf(c, j)
  BY <1>3, <1>4 DEF CallInv, CallsAreMade
<1>6. j # k
  BY <1>1, <1>2, <1>5 DEF CallOf, Picked
<1> QED
  BY <1>1, <1>2, <1>3, <1>4, <1>5, <1>6 DEF SharedTarget, CallOf

(* A fade or gradient with a duration asks for a delay when it is picked.  *)
LEMMA PickedIsDelayed ==
    ASSUME StructInv, PendingIsUnstarted, ~MissingLed, NEW g \in GroupIds, NEW k,
           Picked(g, k), HasPositiveSchedulingBoundary(instructions[k])
    PROVE  ExecuteDelay(k) # 0
<1> USE DEF StructInv
<1>1. /\ k \in DOMAIN instructions /\ k \in Slots
      /\ IsTimed(instructions[k]) /\ instructions[k].duration > 0
      /\ instructions[k].duration \in Nat /\ instructions[k].led
  <2>1. k \in DOMAIN instructions /\ instructions[k] \in Instruction /\ k \in Slots
    BY SlotType DEF Picked, TypeInv
  <2>2. instructions[k].duration \in Nat
    BY <2>1, BoundAssumption DEF Instruction
  <2> QED
    BY <2>1, <2>2 DEF HasPositiveSchedulingBoundary, MissingLed
<1>2. Ran(k) = 0
  BY DEF Picked, PendingIsUnstarted, Ran
<1>3. Remaining(k) # 0
  BY <1>1, <1>2 DEF Remaining
<1>4. UntilGrid(k) # 0
  <2> DEFINE phase == IF instructions[k].op = "fade" THEN timestamp ELSE Ran(k)
  <2>1. phase \in Int /\ refresh_period_ms \in Nat \ {0}
    BY <1>2, TimeIsInt, TimeAssumption DEF TypeInv, TypeOK
  <2>2. phase % refresh_period_ms \in 0 .. refresh_period_ms - 1
    BY <2>1, ModType
  <2> QED
    BY <2>1, <2>2 DEF UntilGrid
<1> QED
  BY <1>3, <1>4 DEF ExecuteDelay

-----------------------------------------------------------------------------
(* Each step keeps the failure invariant.                                  *)

(* Before the step the failures so far have a cause, and the step adds     *)
(* none or one with a cause.                                               *)
LEMMA CauseStays ==
    ASSUME RunFailureHasCause, instructions' = instructions,
           pc \in {"drain", "complete", "pick", "schedule"},
           \/ status' = status
           \/ status' = LatchRunStatus("kAlreadyActiveGroup") /\ SharedTarget
           \/ status' = LatchRunStatus("kInvalidProgram") /\ (MissingLed \/ SharedTarget)
    PROVE  RunFailureHasCause'
<1>1. MissingLed' = MissingLed /\ SharedTarget' = SharedTarget
  BY DEF MissingLed, SharedTarget
<1>2. /\ status \in {"kSuccess", "kAlreadyActiveGroup", "kInvalidProgram"}
      /\ status = "kAlreadyActiveGroup" => SharedTarget
      /\ status = "kInvalidProgram" => MissingLed \/ SharedTarget
  BY DEF RunFailureHasCause
<1>3. /\ status' \in {"kSuccess", "kAlreadyActiveGroup", "kInvalidProgram"}
      /\ status' = "kAlreadyActiveGroup" => SharedTarget
      /\ status' = "kInvalidProgram" => MissingLed \/ SharedTarget
  BY <1>2 DEF LatchRunStatus
<1> QED
  BY <1>1, <1>3 DEF RunFailureHasCause

(* With no group active there is nothing to promise.                       *)
LEMMA NothingPromised ==
    ASSUME \A g \in GroupIds : ~runtimes'[g].active, state' # "kActive",
           pc' \notin {"drain", "complete", "pick", "schedule"}
    PROVE  FailureInv'
BY DEF FailureInv, PendingIsUnstarted, ProgramIsAccepted, RepeatsArePromised, FlagsReach,
       PromisesAreKept, Promises, RunFailureHasCause, IsActive

(* A step that leaves the program and its runtimes alone.                  *)
LEMMA FailureIdle ==
    ASSUME FailureInv, UNCHANGED <<state, instructions, replay, runtimes, executing>>,
           RunFailureHasCause'
    PROVE  FailureInv'
<1>1. \A g \in GroupIds : IsActive(g)' = IsActive(g) /\ SlotsExecuting(g)' = SlotsExecuting(g)
  BY DEF IsActive, SlotsExecuting
<1>2. PendingIsUnstarted' /\ RepeatsArePromised' /\ ProgramIsAccepted'
  BY <1>1 DEF FailureInv, PendingIsUnstarted, RepeatsArePromised, ProgramIsAccepted
<1>3. FlagsReach(runtimes)'
  BY DEF FailureInv
<1>4. PromisesAreKept'
  <2>1. MissingLed' = MissingLed /\ SharedTarget' = SharedTarget
    BY DEF MissingLed, SharedTarget
  <2>2. \A g \in GroupIds, k \in DOMAIN instructions :
           WillBeObserved(g, k)' <=> WillBeObserved(g, k)
    BY <1>1 DEF WillBeObserved, IsActive
  <2>3. Promises => Promises'
    BY <1>1, <2>2 DEF Promises, Members
  <2> QED
    BY <2>1, <2>3 DEF FailureInv, PromisesAreKept
<1> QED
  BY <1>2, <1>3, <1>4 DEF FailureInv

(* Start publishes what preflight accepted, and the root begins.           *)
LEMMA FailureStart ==
    ASSUME StructInv, FailureInv, NEW repeats, Start(repeats)
    PROVE  FailureInv'
<1> USE DEF StructInv
<1>1. pc = "idle" /\ instructions' = instructions /\ pc' \in {"idle", "tick"}
  BY DEF Start
<1>2. RunFailureHasCause'
  BY <1>1 DEF RunFailureHasCause
<1>3. CASE UNCHANGED <<state, replay, runtimes, executing>>
  BY <1>1, <1>2, <1>3, FailureIdle
<1>4. CASE state' = "kCompleted" /\ runtimes' = [g \in GroupIds |-> IdleRuntime]
  <2>1. \A g \in GroupIds : ~runtimes'[g].active
    BY <1>4 DEF IdleRuntime
  <2> QED
    BY <1>1, <1>4, <2>1, NothingPromised
<1>5. CASE /\ BuildAndValidateGroups(instructions, repeats) = "kSuccess"
           /\ runtimes' = [g \in GroupIds |->
                             IF g = Root THEN StartedRuntime(Root, now, repeats, NoGroup)
                                         ELSE IdleRuntime]
           /\ replay' = ResetGroupInstructionReplayState(Root)
  <2>1. Accepted(instructions, repeats)
    BY <1>5, AcceptedPrograms DEF TypeInv, TypeOK
  <2> DEFINE root == StartedRuntime(Root, now, repeats, NoGroup)
  <2>2. /\ root.pending = Members(instructions, Root)
        /\ root.repeats_remaining = repeats
        /\ ~root.positive_boundary_observed
    BY DEF StartedRuntime
  <2>3. runtimes'[Root] = root /\ \A g \in GroupIds \ {Root} : ~runtimes'[g].active
    BY <1>5, GroupAssumption DEF IdleRuntime
  <2> HIDE DEF root
  <2>4. PendingIsUnstarted'
    <3>1. Members(instructions, Root) \subseteq Slots
      BY MembersType DEF TypeInv
    <3>2. \A k \in Members(instructions, Root) : ~replay'[k].started
      BY <1>5, <3>1 DEF ResetGroupInstructionReplayState, NotStarted
    <3> QED
      BY <2>2, <2>3, <3>2, Zenon DEF PendingIsUnstarted, IsActive
  <2>5. ProgramIsAccepted'
    BY <1>1, <2>1 DEF ProgramIsAccepted, Accepted, RepeatsAreBounded
  <2>6. RepeatsArePromised'
    BY <1>1, <2>1, <2>2, <2>3 DEF RepeatsArePromised, Accepted, RepeatsAreBounded, IsActive
  <2>7. FlagsReach(runtimes)'
    BY <2>3 DEF FlagsReach
  <2>8. PromisesAreKept'
    BY <1>1, <2>2, <2>3, Zenon DEF PromisesAreKept, Promises, IsActive
  <2> QED
    BY <1>2, <2>4, <2>5, <2>6, <2>7, <2>8 DEF FailureInv
<1> QED
  BY <1>3, <1>4, <1>5 DEF Start

(* The public calls.                                                       *)
LEMMA FailureCall ==
    ASSUME StructInv, FailureInv, Call
    PROVE  FailureInv'
<1>1. ASSUME NEW instr, AddInstruction(instr) PROVE FailureInv'
  <2>1. /\ pc = "idle" /\ pc' = pc
        /\ UNCHANGED <<state, replay, runtimes, executing>>
    BY <1>1 DEF AddInstruction, runVars
  <2>2. CASE instructions' = instructions
    BY <2>1, <2>2, FailureIdle DEF RunFailureHasCause
  <2>3. CASE instructions' # instructions
    <3>1. state = "kEditable"
      BY <1>1, <2>3 DEF AddInstruction
    <3>2. \A g \in GroupIds : ~runtimes'[g].active
      BY <2>1, <3>1 DEF StructInv, RootOutlivesItsWork, IsActive
    <3> QED
      BY <2>1, <3>1, <3>2, NothingPromised
  <2> QED
    BY <2>2, <2>3
<1>2. ASSUME NEW period, SetRefreshPeriodMs(period) PROVE FailureInv'
  BY <1>2, FailureIdle DEF SetRefreshPeriodMs, runVars, RunFailureHasCause
<1>3. CASE ResetInstructions
  <2>1. \A g \in GroupIds : ~runtimes'[g].active
    BY <1>3 DEF ResetInstructions, IdleRuntime
  <2> QED
    BY <1>3, <2>1, NothingPromised DEF ResetInstructions, runVars
<1> QED
  BY <1>1, <1>2, <1>3, FailureStart DEF Call

(* DrainExecuting.                                                         *)
LEMMA FailureDrain ==
    ASSUME StructInv, FailureInv, DrainResumes \/ DrainRemoves
    PROVE  FailureInv'
<1> USE DEF StructInv, FailureInv
<1>1. /\ pc = "drain" /\ state' = state /\ instructions' = instructions
  BY DEF DrainResumes, DrainRemoves
<1>2. Raised(runtimes') /\ FlagsReach(runtimes') /\ status' = status
  BY DrainRaises
<1>3. PICK r \in GroupIds, x \in Slots : DrainsFor(r, x)
  BY DrainRaises
<1>4. \A h \in GroupIds : /\ runtimes'[h].active = runtimes[h].active
                          /\ runtimes'[h].parent = runtimes[h].parent
                          /\ runtimes'[h].repeats_remaining = runtimes[h].repeats_remaining
                          /\ runtimes'[h].pending = runtimes[h].pending
  BY <1>2, <1>3, Zenon DEF Raised, DrainsFor
<1>5. PendingIsUnstarted'
  <2> SUFFICES ASSUME NEW h \in GroupIds, IsActive(h), NEW k \in runtimes[h].pending
               PROVE  ~replay'[k].started
    BY <1>4 DEF PendingIsUnstarted, IsActive
  <2>1. ~replay[k].started /\ k \in Members(instructions, h) /\ k \in Slots
    BY MembersType DEF PendingIsUnstarted, TypeInv, PendingInGroup
  <2>2. k # x
    BY <1>3, <2>1 DEF DrainsFor, Members
  <2>3. replay' = ExecuteReplay(x)
    BY <1>3 DEF DrainsFor
  <2> QED
    BY <2>1, <2>2, <2>3 DEF ExecuteReplay, TypeInv, TypeOK
<1>6. ProgramIsAccepted' /\ RepeatsArePromised'
  BY <1>1, <1>4 DEF ProgramIsAccepted, RepeatsArePromised, IsActive
<1>7. PromisesAreKept'
  <2>1. MissingLed' = MissingLed /\ SharedTarget' = SharedTarget
    BY <1>1 DEF MissingLed, SharedTarget
  <2>2. ASSUME Promises, NEW g \in GroupIds, runtimes'[g].active,
               ~runtimes'[g].positive_boundary_observed,
               NEW k \in Members(instructions, g) \ runtimes'[g].pending
        PROVE  WillBeObserved(g, k)'
    <3>1. g # r
      BY <1>3, <2>2 DEF DrainsFor
    <3>2. ~runtimes[g].positive_boundary_observed
      BY <1>2, <2>2, Zenon DEF Raised
    <3>3. WillBeObserved(g, k)
      BY <1>4, <2>2, <3>2 DEF Promises, IsActive
    <3>4. SlotsExecuting(g)' = SlotsExecuting(g)
      BY <1>3, <3>1 DEF DrainsFor
    <3>5. Bounded(instructions) \subseteq GroupIds
      BY OwnType DEF Bounded, TypeInv, TypeOK
    <3> QED
      BY <1>1, <1>4, <3>3, <3>4, <3>5 DEF WillBeObserved, IsActive
  <2>3. Promises => Promises'
    BY <1>1, <2>2 DEF Promises, IsActive
  <2> QED
    BY <2>1, <2>3 DEF PromisesAreKept
<1>8. RunFailureHasCause'
  BY <1>1, <1>2, CauseStays
<1> QED
  BY <1>2, <1>5, <1>6, <1>7, <1>8

(* CompleteReadyGroups, another pass.                                      *)
LEMMA FailureRestart ==
    ASSUME StructInv, FailureInv, NEW g \in GroupIds, RestartGroup(g)
    PROVE  FailureInv'
<1> USE DEF StructInv, FailureInv
<1>1. /\ pc = "complete" /\ state' = state /\ instructions' = instructions
      /\ executing' = executing
  BY DEF RestartGroup, CompletesNext
<1>2. Restarts(g)
  BY RestartEffect
<1>3. runtimes[g].repeats_remaining # 0 /\ IsActive(g)
  BY <1>2 DEF RestartGroup, MayRepeat, Restarts, IsReady
<1>4. status' = status /\ replay' = ResetGroupInstructionReplayState(g)
  <2>1. ParentAllowsStart(runtimes[g].parent)
    BY <1>3 DEF CallTreeIsSound, ParentAllowsStart
  <2> QED
    BY <2>1 DEF RestartGroup
<1>5. /\ \A h \in GroupIds \ {g} : runtimes'[h] = runtimes[h]
      /\ runtimes'[g].active /\ runtimes'[g].parent = runtimes[g].parent
      /\ runtimes'[g].pending = Members(instructions, g)
      /\ ~runtimes'[g].positive_boundary_observed
      /\ Children(g) = {}
  BY <1>2 DEF Restarts
<1>6. PendingIsUnstarted'
  <2> SUFFICES ASSUME NEW h \in GroupIds, runtimes'[h].active, NEW k \in runtimes'[h].pending
               PROVE  ~replay'[k].started
    BY DEF PendingIsUnstarted, IsActive
  <2>1. k \in Slots
    BY <1>5, MembersType DEF TypeInv, PendingInGroup
  <2>2. replay'[k] = IF k \in Members(instructions, g) THEN NotStarted ELSE replay[k]
    BY <1>4, <2>1 DEF ResetGroupInstructionReplayState
  <2>3. k \notin Members(instructions, g) => ~replay[k].started
    BY <1>5 DEF PendingIsUnstarted, IsActive
  <2> QED
    BY <2>2, <2>3 DEF NotStarted
<1>7. ProgramIsAccepted'
  BY <1>1 DEF ProgramIsAccepted
<1>8. RepeatsArePromised'
  BY <1>1, <1>3, <1>5 DEF RepeatsArePromised, IsActive
<1>9. FlagsReach(runtimes)'
  <2> SUFFICES ASSUME NEW h \in GroupIds, runtimes'[h].active, h # Root,
                      runtimes'[h].positive_boundary_observed
               PROVE  runtimes'[runtimes'[h].parent].positive_boundary_observed
    BY Zenon DEF FlagsReach
  <2>1. h # g /\ runtimes'[h] = runtimes[h] /\ IsActive(h)
    BY <1>5, Zenon DEF IsActive
  <2>2. runtimes[h].parent \in GroupIds \ {g}
    BY <1>5, <2>1 DEF CallTreeIsSound, Children
  <2>3. runtimes[runtimes[h].parent].positive_boundary_observed
    BY <2>1, Zenon DEF FlagsReach, IsActive
  <2> QED
    BY <1>5, <2>1, <2>2, <2>3, Zenon
<1>10. PromisesAreKept'
  <2>1. MissingLed' = MissingLed /\ SharedTarget' = SharedTarget
    BY <1>1 DEF MissingLed, SharedTarget
  <2>2. ASSUME Promises, NEW h \in GroupIds, runtimes'[h].active,
               ~runtimes'[h].positive_boundary_observed,
               NEW k \in Members(instructions, h) \ runtimes'[h].pending
        PROVE  WillBeObserved(h, k)'
    <3>1. h # g
      BY <1>5
    <3>2. WillBeObserved(h, k)
      BY <1>5, <2>2, <3>1 DEF Promises, IsActive
    <3>3. SlotsExecuting(h)' = SlotsExecuting(h)
      BY <1>1, SameSlots
    <3>4. Bounded(instructions) \subseteq GroupIds
      BY OwnType DEF Bounded, TypeInv, TypeOK
    <3> QED
      BY <1>1, <1>5, <3>2, <3>3, <3>4 DEF WillBeObserved, IsActive
  <2>3. Promises => Promises'
    BY <1>1, <2>2 DEF Promises, IsActive
  <2> QED
    BY <2>1, <2>3 DEF PromisesAreKept
<1>11. RunFailureHasCause'
  BY <1>1, <1>4, CauseStays
<1> QED
  BY <1>6, <1>7, <1>8, <1>9, <1>10, <1>11

(* CompleteReadyGroups, the end of a group.                                *)
LEMMA FailureEnd ==
    ASSUME StructInv, FailureInv, NEW g \in GroupIds, EndGroup(g)
    PROVE  FailureInv'
<1> USE DEF StructInv, FailureInv
<1>1. /\ pc = "complete" /\ instructions' = instructions /\ replay' = replay
      /\ executing' = executing /\ state' \in {"kCompleted", state}
  BY DEF EndGroup, CompletesNext
<1>2. IsReady(g) /\ IsActive(g) /\ Children(g) = {} /\ ~runtimes'[g].active
  BY EndEffect DEF Ends, IsReady
<1>3. \A h \in GroupIds \ {g} :
         /\ runtimes'[h].active = runtimes[h].active
         /\ runtimes'[h].parent = runtimes[h].parent
         /\ runtimes'[h].pending = runtimes[h].pending
         /\ runtimes'[h].positive_boundary_observed = runtimes[h].positive_boundary_observed
         /\ runtimes'[h].repeats_remaining = runtimes[h].repeats_remaining
  BY EndEffect DEF Ends, SameInvocation
<1>4. PendingIsUnstarted'
  BY <1>1, <1>2, <1>3, Zenon DEF PendingIsUnstarted, IsActive
<1>5. ProgramIsAccepted'
  BY <1>1 DEF ProgramIsAccepted
<1>6. RepeatsArePromised'
  BY <1>1, <1>2, <1>3 DEF RepeatsArePromised, IsActive
<1>7. FlagsReach(runtimes)'
  <2> SUFFICES ASSUME NEW h \in GroupIds, runtimes'[h].active, h # Root,
                      runtimes'[h].positive_boundary_observed
               PROVE  runtimes'[runtimes'[h].parent].positive_boundary_observed
    BY Zenon DEF FlagsReach
  <2>1. h # g
    BY <1>2
  <2>2. /\ IsActive(h) /\ runtimes'[h].parent = runtimes[h].parent
        /\ runtimes[h].positive_boundary_observed
    BY <1>3, <2>1, Zenon DEF IsActive
  <2>3. runtimes[h].parent \in GroupIds \ {g}
    BY <1>2, <2>2 DEF CallTreeIsSound, Children
  <2>4. runtimes[runtimes[h].parent].positive_boundary_observed
    BY <2>2, Zenon DEF FlagsReach, IsActive
  <2> QED
    BY <1>3, <2>2, <2>3, <2>4, Zenon
<1>8. Promises /\ g \in Bounded(instructions) => runtimes[g].positive_boundary_observed
  BY <1>2, ReadyIsFlagged
<1>9. PromisesAreKept'
  <2>1. MissingLed' = MissingLed /\ SharedTarget' = SharedTarget
    BY <1>1 DEF MissingLed, SharedTarget
  <2>2. ASSUME Promises, NEW h \in GroupIds, runtimes'[h].active,
               ~runtimes'[h].positive_boundary_observed,
               NEW k \in Members(instructions, h) \ runtimes'[h].pending
        PROVE  WillBeObserved(h, k)'
    <3>1. h # g
      BY <1>2, <2>2
    <3>2. WillBeObserved(h, k) /\ ~runtimes[h].positive_boundary_observed
      BY <1>3, <2>2, <3>1 DEF Promises, IsActive
    <3>3. SlotsExecuting(h)' = SlotsExecuting(h)
      BY <1>1, SameSlots
    <3>4. Bounded(instructions) \subseteq GroupIds
      BY OwnType DEF Bounded, TypeInv, TypeOK
    <3>5. ASSUME IsRunGroup(instructions[k]), instructions[k].target = g,
                 g \in Bounded(instructions)
          PROVE  FALSE
      <4>1. runtimes[g].parent = h /\ runtimes[g].positive_boundary_observed
        BY <1>8, <2>2, <3>2, <3>5 DEF WillBeObserved
      <4>2. g # Root
        BY <1>2, <4>1, NullAssumption DEF CallTreeIsSound
      <4> QED
        BY <1>2, <3>2, <4>1, <4>2, Zenon DEF FlagsReach, IsActive
    <3>6. IsRunGroup(instructions[k]) /\ instructions[k].target \in Bounded(instructions) =>
            instructions[k].target \in GroupIds \ {g}
      BY <3>4, <3>5
    <3> QED
      BY <1>1, <1>3, <3>2, <3>3, <3>6 DEF WillBeObserved, IsActive
  <2>3. Promises => Promises'
    BY <1>1, <2>2 DEF Promises, IsActive
  <2> QED
    BY <2>1, <2>3 DEF PromisesAreKept
<1>10. RunFailureHasCause'
  <2>1. ASSUME g # Root
        PROVE  /\ runtimes[g].parent \in GroupIds \ {g}
               /\ runtimes[g].parent # NoGroup
               /\ runtimes[runtimes[g].parent].active
               /\ runtimes[runtimes[g].parent].child_count # 0
    <3> DEFINE parent == runtimes[g].parent
    <3>1. parent \in GroupIds \ {g} /\ parent # NoGroup /\ IsActive(parent)
      BY <1>2, <2>1, TreeFacts, NullAssumption DEF CallTreeIsSound, TypeInv
    <3>2. g \in Children(parent)
      BY <1>2 DEF Children
    <3>3. runtimes[parent].child_count # 0
      BY <3>1, <3>2, ChildrenFinite, FS_EmptySet DEF CallTreeIsSound
    <3> QED
      BY <3>1, <3>3 DEF IsActive
  <2> DEFINE parent == runtimes[g].parent
             ended == [runtimes EXCEPT ![g] = IdleRuntime]
  <2>2. g # Root => /\ parent # NoGroup
                    /\ ended[parent].active
                    /\ ended[parent].child_count # 0
    BY <2>1 DEF TypeInv, TypeOK
  <2>3. status' = IF runtimes[g].repeats_remaining # 0
                    THEN LatchRunStatus("kInvalidProgram")
                    ELSE status
    BY <2>2 DEF EndGroup
  <2>4. ASSUME runtimes[g].repeats_remaining # 0 PROVE MissingLed \/ SharedTarget
    <3>1. ~runtimes[g].positive_boundary_observed
      BY <2>4, Zenon DEF EndGroup, MayRepeat
    <3>2. g \in Bounded(instructions)
      BY <1>2, <2>4 DEF RepeatsArePromised
    <3> QED
      BY <1>8, <3>1, <3>2 DEF PromisesAreKept
  <2> QED
    BY <1>1, <2>3, <2>4, CauseStays
<1> QED
  BY <1>4, <1>5, <1>6, <1>7, <1>9, <1>10

(* The cursor moves past slot k of g: no pending slot becomes started      *)
(* unless it is k, and the promises of the slots passed before stay.       *)
LEMMA CursorKeepsUnstarted ==
    ASSUME StructInv, PendingIsUnstarted, NEW g \in GroupIds, NEW k, Picked(g, k),
           \A h \in GroupIds : MovesCursor(g, k, h), replay' \in {replay, ExecuteReplay(k)}
    PROVE  PendingIsUnstarted'
<1> USE DEF StructInv
<1> SUFFICES ASSUME NEW h \in GroupIds, runtimes'[h].active, NEW j \in runtimes'[h].pending
             PROVE  ~replay'[j].started
  BY DEF PendingIsUnstarted, IsActive
<1>1. IsActive(h) /\ j \in runtimes[h].pending /\ (h = g => j # k)
  BY DEF MovesCursor, SameInvocation, IsActive
<1>2. ~replay[j].started /\ j \in Members(instructions, h) /\ j \in Slots
  BY <1>1, MembersType DEF PendingIsUnstarted, TypeInv, PendingInGroup
<1>3. j # k
  BY <1>1, <1>2 DEF Picked, Members
<1> QED
  BY <1>2, <1>3 DEF ExecuteReplay, TypeInv, TypeOK

(* RunGroup, the target starts.                                            *)
LEMMA FailureStartsChild ==
    ASSUME StructInv, FailureInv, NEW g \in GroupIds, PickStartsChild(g)
    PROVE  FailureInv'
<1> USE DEF StructInv, FailureInv
<1> DEFINE k == NextSlot(g)
           child == instructions[k].target
           moved == CursorMoved(g, k)
           started == StartedRuntime(child, timestamp, instructions[k].repeats, g)
<1>1. /\ pc = "pick" /\ state' = state /\ instructions' = instructions
      /\ executing' = executing /\ status' = status
      /\ replay' = ResetGroupInstructionReplayState(child)
      /\ runtimes' = [moved EXCEPT ![child] = started, ![g].child_count = @ + 1]
  BY DEF PickStartsChild, PicksNext
<1>2. Launches(g, k, child)
  BY StartsChildEffect
<1>3. /\ Picked(g, k) /\ IsActive(g) /\ IsRunGroup(instructions[k])
      /\ k \in DOMAIN instructions
      /\ child \in GroupIds \ {Root, g} /\ ~IsActive(child) /\ Children(child) = {}
  BY <1>2 DEF Launches, Picked
<1>4. state = "kActive"
  BY <1>3, ActiveProgram
<1>5. /\ Raised(moved) /\ FlagsReach(moved)
      /\ instructions[k].mark > 0 => moved[g].positive_boundary_observed
  BY <1>3, CursorRaises DEF TypeInv
<1>6. moved \in [GroupIds -> Runtime]
  BY CursorMovedType DEF TypeInv
<1>7. /\ started.active /\ started.pending = Members(instructions, child)
      /\ started.parent = g /\ ~started.positive_boundary_observed
      /\ started.repeats_remaining = instructions[k].repeats
  BY DEF StartedRuntime
<1>8. /\ \A h \in GroupIds \ {child} :
           /\ runtimes'[h].pending \subseteq runtimes[h].pending
           /\ h # g => runtimes'[h].pending = runtimes[h].pending
      /\ runtimes'[g].pending = runtimes[g].pending \ {k}
  BY <1>2, <1>3 DEF Launches, MovesCursor
<1> HIDE DEF k, child, moved, started
<1>9. /\ runtimes'[child] = started
      /\ \A h \in GroupIds \ {child} :
           /\ runtimes'[h].active = moved[h].active
           /\ runtimes'[h].parent = moved[h].parent
           /\ runtimes'[h].repeats_remaining = moved[h].repeats_remaining
           /\ runtimes'[h].positive_boundary_observed = moved[h].positive_boundary_observed
  BY <1>1, <1>3, <1>6 DEF Runtime
<1>10. \A h \in GroupIds \ {child} :
         /\ runtimes'[h].active = runtimes[h].active
         /\ runtimes'[h].parent = runtimes[h].parent
         /\ runtimes'[h].repeats_remaining = runtimes[h].repeats_remaining
         /\ runtimes[h].positive_boundary_observed => runtimes'[h].positive_boundary_observed
  BY <1>5, <1>9, Zenon DEF Raised
<1>11. PendingIsUnstarted'
  <2> SUFFICES ASSUME NEW h \in GroupIds, runtimes'[h].active, NEW j \in runtimes'[h].pending
               PROVE  ~replay'[j].started
    BY DEF PendingIsUnstarted, IsActive
  <2>1. CASE h = child
    <3>1. j \in Members(instructions, child) /\ j \in Slots
      BY <1>7, <1>9, <2>1, MembersType DEF TypeInv
    <3> QED
      BY <1>1, <3>1 DEF ResetGroupInstructionReplayState, NotStarted
  <2>2. CASE h # child
    <3>1. IsActive(h) /\ j \in runtimes[h].pending
      BY <1>8, <1>10, <2>2 DEF IsActive
    <3>2. ~replay[j].started /\ j \in Slots
      BY <3>1, MembersType DEF PendingIsUnstarted, TypeInv, PendingInGroup
    <3> QED
      BY <1>1, <3>2 DEF ResetGroupInstructionReplayState, NotStarted
  <2> QED
    BY <2>1, <2>2
<1>12. ProgramIsAccepted'
  BY <1>1 DEF ProgramIsAccepted
<1>13. RepeatsArePromised'
  <2> SUFFICES ASSUME NEW h \in GroupIds, runtimes'[h].active,
                      runtimes'[h].repeats_remaining # 0
               PROVE  h \in Bounded(instructions)
    BY <1>1 DEF RepeatsArePromised, IsActive
  <2>1. CASE h = child
    BY <1>3, <1>4, <1>7, <1>9, <2>1 DEF ProgramIsAccepted, child
  <2>2. CASE h # child
    BY <1>10, <2>2 DEF RepeatsArePromised, IsActive
  <2> QED
    BY <2>1, <2>2
<1>14. FlagsReach(runtimes)'
  <2> SUFFICES ASSUME NEW h \in GroupIds, runtimes'[h].active, h # Root,
                      runtimes'[h].positive_boundary_observed
               PROVE  runtimes'[runtimes'[h].parent].positive_boundary_observed
    BY Zenon DEF FlagsReach
  <2>1. h # child
    BY <1>7, <1>9
  <2>2. IsActive(h) /\ runtimes'[h].parent = runtimes[h].parent
    BY <1>10, <2>1, Zenon DEF IsActive
  <2>3. runtimes[h].parent \in GroupIds \ {child}
    BY <1>3, <2>2 DEF CallTreeIsSound, Children
  <2>4. moved[moved[h].parent].positive_boundary_observed
    BY <1>5, <1>9, <2>1, Zenon DEF FlagsReach
  <2>5. moved[h].parent = runtimes[h].parent
    BY <1>5, Zenon DEF Raised
  <2> QED
    BY <1>9, <2>2, <2>3, <2>4, <2>5, Zenon
<1>15. PromisesAreKept'
  <2>1. MissingLed' = MissingLed /\ SharedTarget' = SharedTarget
    BY <1>1 DEF MissingLed, SharedTarget
  <2>2. ASSUME Promises, NEW h \in GroupIds, runtimes'[h].active,
               ~runtimes'[h].positive_boundary_observed,
               NEW j \in Members(instructions, h) \ runtimes'[h].pending
        PROVE  WillBeObserved(h, j)'
    <3>1. h # child
      BY <1>7, <1>9
    <3>2. IsActive(h) /\ ~runtimes[h].positive_boundary_observed
      BY <1>10, <2>2, <3>1, Zenon DEF IsActive
    <3>3. SlotsExecuting(h)' = SlotsExecuting(h)
      BY <1>1, SameSlots
    <3>4. CASE j \notin runtimes[h].pending
      <4>1. WillBeObserved(h, j)
        BY <2>2, <3>2, <3>4 DEF Promises
      <4>2. Bounded(instructions) \subseteq GroupIds
        BY OwnType DEF Bounded, TypeInv, TypeOK
      <4>3. IsRunGroup(instructions[j]) /\ instructions[j].target \in Bounded(instructions) =>
              /\ instructions[j].target \in GroupIds \ {child}
              /\ IsActive(instructions[j].target)
              /\ runtimes[instructions[j].target].parent = h
        BY <1>3, <4>1, <4>2 DEF WillBeObserved
      <4> QED
        BY <1>1, <1>10, <3>3, <4>1, <4>3 DEF WillBeObserved, IsActive
    <3>5. CASE j \in runtimes[h].pending
      <4>1. h = g /\ j = k
        BY <1>8, <2>2, <3>1, <3>5
      <4>2. ~(instructions[k].mark > 0)
        BY <1>3, <1>5, <1>9, <2>2, <4>1
      <4>3. instructions[k].mark = 0
        <5>1. instructions[k].mark \in Nat
          BY <1>3, BoundAssumption DEF Picked, Instruction
        <5> QED
          BY <4>2, <5>1
      <4>4. ~HasPositiveSchedulingBoundary(instructions[k])
        BY <1>3 DEF IsRunGroup, HasPositiveSchedulingBoundary, IsTimed
      <4>5. runtimes'[child].active /\ runtimes'[child].parent = g
        BY <1>7, <1>9
      <4>6. instructions[k].target = child
        BY DEF child
      <4> QED
        BY <1>1, <4>1, <4>3, <4>4, <4>5, <4>6 DEF WillBeObserved, IsActive
    <3> QED
      BY <3>4, <3>5
  <2>3. Promises => Promises'
    BY <1>1, <2>2 DEF Promises, IsActive
  <2> QED
    BY <2>1, <2>3 DEF PromisesAreKept
<1>16. RunFailureHasCause'
  BY <1>1, CauseStays
<1> QED
  BY <1>11, <1>12, <1>13, <1>14, <1>15, <1>16

(* RunGroup, the call is rejected.                                         *)
LEMMA FailureRejects ==
    ASSUME StructInv, CallInv, FailureInv, NEW g \in GroupIds, PickRejectsCall(g)
    PROVE  FailureInv'
<1> USE DEF StructInv, FailureInv
<1> DEFINE k == NextSlot(g)
<1>1. /\ pc = "pick" /\ state' = state /\ instructions' = instructions /\ replay' = replay
      /\ runtimes' = CursorMoved(g, k)
  BY DEF PickRejectsCall, PicksNext
<1>2. /\ SharedTarget /\ status' = LatchRunStatus("kAlreadyActiveGroup")
  BY RejectIsShared DEF PickRejectsCall
<1>3. Picked(g, k) /\ \A h \in GroupIds : MovesCursor(g, k, h)
  BY RejectEffect
<1>4. Raised(runtimes') /\ FlagsReach(runtimes')
  BY <1>1, <1>3, CursorRaises DEF TypeInv, Picked
<1> HIDE DEF k
<1>5. PendingIsUnstarted'
  BY <1>1, <1>3, CursorKeepsUnstarted
<1>6. ProgramIsAccepted' /\ RepeatsArePromised'
  BY <1>1, <1>4 DEF ProgramIsAccepted, RepeatsArePromised, Raised, IsActive
<1>7. PromisesAreKept'
  BY <1>1, <1>2 DEF PromisesAreKept, SharedTarget
<1>8. RunFailureHasCause'
  BY <1>1, <1>2, CauseStays
<1> QED
  BY <1>4, <1>5, <1>6, <1>7, <1>8

(* Any other instruction is executed.                                      *)
LEMMA FailureExecutes ==
    ASSUME StructInv, FailureInv, NEW g \in GroupIds, PickExecutes(g)
    PROVE  FailureInv'
<1> USE DEF StructInv, FailureInv
<1> DEFINE k == NextSlot(g)
           moved == CursorMoved(g, k)
           deadline == Later(timestamp, ExecuteDelay(k))
           entry == [slot |-> k, runtime |-> g, deadline |-> deadline]
<1>1. /\ pc = "pick" /\ state' = state /\ instructions' = instructions
      /\ replay' = ExecuteReplay(k)
  BY DEF PickExecutes, PicksNext, Execute
<1>2. Picked(g, k) /\ ~IsRunGroup(instructions[k]) /\ \A h \in GroupIds : MovesCursor(g, k, h)
  BY ExecutesEffect
<1>3. /\ status' = status
      /\ \/ ExecuteDelay(k) = 0 /\ runtimes' = moved /\ executing' = executing
         \/ /\ ExecuteDelay(k) # 0
            /\ executing' = Append(executing, entry)
            /\ runtimes' = [moved EXCEPT ![g].active_count = @ + 1]
  <2>1. ~(Len(executing) >= MaxInstructions)
    <3>1. Len(executing) < MaxInstructions /\ Len(executing) \in Nat /\ MaxInstructions \in Nat
      BY <1>2, ListHasRoom, BoundAssumption DEF TypeInv, TypeOK
    <3> QED
      BY <3>1
  <2> QED
    BY <2>1 DEF PickExecutes
<1>4. /\ Raised(moved) /\ FlagsReach(moved)
      /\ instructions[k].mark > 0 => moved[g].positive_boundary_observed
  BY <1>2, CursorRaises DEF TypeInv, Picked
<1>5. moved \in [GroupIds -> Runtime]
  BY CursorMovedType DEF TypeInv
<1>6. /\ k \in DOMAIN instructions /\ k \in Slots /\ deadline \in Time
      /\ instructions[k].mark \in Nat
  <2>1. k \in DOMAIN instructions /\ instructions[k].mark \in Nat
    BY <1>2, BoundAssumption DEF Picked, Instruction
  <2>2. k \in Slots /\ ExecuteDelay(k) \in Int /\ timestamp \in Int
    BY <2>1, SlotType, DelayType, TimeIsInt DEF TypeInv, TypeOK
  <2> QED
    BY <2>1, <2>2, LaterType
<1> HIDE DEF k, moved, deadline
<1>7. SameFlags(runtimes', moved)
  <2>1. CASE runtimes' = moved
    BY <2>1, Zenon DEF SameFlags
  <2>2. CASE runtimes' = [moved EXCEPT ![g].active_count = @ + 1]
    BY <1>5, <2>2, ZenonT(40) DEF SameFlags, Runtime
  <2> QED
    BY <1>3, <2>1, <2>2
<1>8. Raised(runtimes') /\ FlagsReach(runtimes')
  BY <1>4, <1>7, SameFlagsRaised
<1>9. PendingIsUnstarted'
  BY <1>1, <1>2, CursorKeepsUnstarted
<1>10. ProgramIsAccepted' /\ RepeatsArePromised'
  BY <1>1, <1>8 DEF ProgramIsAccepted, RepeatsArePromised, Raised, IsActive
<1>11. /\ \A h \in GroupIds : SlotsExecuting(h) \subseteq SlotsExecuting(h)'
       /\ ExecuteDelay(k) # 0 => k \in SlotsExecuting(g)'
  <2>1. CASE executing' = executing /\ ExecuteDelay(k) = 0
    BY <2>1, SameSlots
  <2>2. CASE executing' = Append(executing, entry)
    BY <1>6, <2>2, SlotsAdded
  <2> QED
    BY <1>3, <2>1, <2>2
<1>12. PromisesAreKept'
  <2>1. MissingLed' = MissingLed /\ SharedTarget' = SharedTarget
    BY <1>1 DEF MissingLed, SharedTarget
  <2>2. ASSUME Promises, ~MissingLed, NEW h \in GroupIds, runtimes'[h].active,
               ~runtimes'[h].positive_boundary_observed,
               NEW j \in Members(instructions, h) \ runtimes'[h].pending
        PROVE  WillBeObserved(h, j)'
    <3>1. IsActive(h) /\ ~runtimes[h].positive_boundary_observed
      BY <1>8, <2>2, Zenon DEF Raised, IsActive
    <3>2. CASE j \notin runtimes[h].pending
      <4>1. WillBeObserved(h, j)
        BY <2>2, <3>1, <3>2 DEF Promises
      <4>2. Bounded(instructions) \subseteq GroupIds
        BY OwnType DEF Bounded, TypeInv, TypeOK
      <4>3. \A c \in GroupIds : /\ runtimes'[c].active = runtimes[c].active
                                /\ runtimes'[c].parent = runtimes[c].parent
        BY <1>8 DEF Raised
      <4> QED
        BY <1>1, <1>11, <4>1, <4>2, <4>3 DEF WillBeObserved, IsActive
    <3>3. CASE j \in runtimes[h].pending
      <4>1. h = g /\ j = k
        BY <1>2, <2>2, <3>3 DEF MovesCursor
      <4>2. ~(instructions[k].mark > 0)
        BY <1>4, <1>7, <2>2, <4>1, Zenon DEF SameFlags
      <4>3. instructions[k].mark = 0
        BY <1>6, <4>2
      <4>4. HasPositiveSchedulingBoundary(instructions[k]) => k \in SlotsExecuting(g)'
        BY <1>2, <1>11, <2>2, PickedIsDelayed
      <4> QED
        BY <1>1, <1>2, <4>1, <4>3, <4>4 DEF WillBeObserved
    <3> QED
      BY <3>2, <3>3
  <2>3. Promises /\ ~MissingLed => Promises'
    BY <1>1, <2>2 DEF Promises, IsActive
  <2> QED
    BY <2>1, <2>3 DEF PromisesAreKept
<1>13. RunFailureHasCause'
  BY <1>1, <1>3, CauseStays
<1> QED
  BY <1>8, <1>9, <1>10, <1>12, <1>13

(* Every step keeps the failure invariant.                                 *)
LEMMA FailureNext ==
    ASSUME StructInv, CallInv, FailureInv, [Next]_vars
    PROVE  FailureInv'
<1>1. CASE RunCall
  <2>1. UNCHANGED <<state, instructions, replay, runtimes, executing>>
        /\ status' = "kSuccess"
    BY <1>1 DEF RunCall, RunWhenNotActive, RunBegin
  <2> QED
    BY <2>1, FailureIdle DEF RunFailureHasCause
<1>2. CASE DrainDone \/ CompleteDone \/ PickDone \/ ScheduleNextRun
  <2>1. /\ UNCHANGED <<state, instructions, replay, runtimes, executing>>
        /\ status' = status /\ pc \in {"drain", "complete", "pick", "schedule"}
    BY <1>2 DEF DrainDone, CompleteDone, PickDone, ScheduleNextRun, programVars
  <2>2. RunFailureHasCause'
    BY <2>1, CauseStays DEF FailureInv
  <2> QED
    BY <2>1, <2>2, FailureIdle
<1>3. CASE Tick \/ UNCHANGED vars
  <2>1. /\ UNCHANGED <<state, instructions, replay, runtimes, executing>>
        /\ status' = status /\ pc' = pc
    BY <1>3 DEF Tick, vars, programVars, runVars
  <2>2. RunFailureHasCause'
    BY <2>1 DEF FailureInv, RunFailureHasCause, MissingLed, SharedTarget
  <2> QED
    BY <2>1, <2>2, FailureIdle
<1>4. scan \subseteq GroupIds
  BY DEF StructInv, TypeInv, TypeOK
<1> QED
  BY <1>1, <1>2, <1>3, <1>4, FailureCall, FailureDrain, FailureRestart, FailureEnd,
     FailureStartsChild, FailureRejects, FailureExecutes, Zenon DEF Next, RunStep

(* Run reports a busy target only if two calls share it, an invalid        *)
(* program only if an LED is missing or two calls share a target, and      *)
(* never that the executing list is exhausted.                             *)
THEOREM FailuresHaveCauses == Spec => []RunFailureHasCause
<1>1. Init => CallInv
  BY DEF Init, IdleRuntime, IsActive, CallInv, CallsAreMade, CallsDoNotRun
<1>2. StructInv /\ CallInv /\ [Next]_vars => CallInv'
  BY CallNext
<1>3. Init => FailureInv
  BY DEF Init, IdleRuntime, FailureInv, PendingIsUnstarted, ProgramIsAccepted,
         RepeatsArePromised, FlagsReach, PromisesAreKept, Promises, RunFailureHasCause,
         IsActive
<1>4. StructInv /\ CallInv /\ FailureInv /\ [Next]_vars => FailureInv'
  BY FailureNext
<1>5. FailureInv => RunFailureHasCause
  BY DEF FailureInv
<1> QED
  BY <1>1, <1>2, <1>3, <1>4, <1>5, StructureCorrect, PTL DEF Spec

-----------------------------------------------------------------------------
(* A rejected call.                                                        *)

(* The groups ObservePositiveBoundary walks over from g are g and groups   *)
(* that reach it.                                                          *)
LEMMA ChainReaches ==
    ASSUME StructInv, CallInv, TargetsResolve(instructions), NEW g \in GroupIds,
           NEW h \in BoundaryChain(g)
    PROVE  h = g \/ g \in Reaches(instructions, h)
<1> USE DEF StructInv
<1> DEFINE S == {u \in GroupIds : u = g \/ g \in Reaches(instructions, u)}
<1>1. Labels(instructions) \subseteq GroupIds
      /\ \A u \in GroupIds : Callees(instructions, u) \subseteq Labels(instructions)
  BY OwnType, CallGraphType DEF TypeInv, TypeOK
<1>2. HoldsParents(S)
  <2> SUFFICES ASSUME NEW u \in S, IsActive(u), runtimes[u].parent # NoGroup
               PROVE  runtimes[u].parent \in S
    BY DEF HoldsParents
  <2> DEFINE caller == runtimes[u].parent
  <2>1. u # Root /\ caller \in GroupIds
    BY DEF CallTreeIsSound
  <2>2. PICK k \in DOMAIN instructions : CallOf(u, k)
    BY <2>1 DEF CallInv, CallsAreMade
  <2>3. u \in Callees(instructions, caller)
    BY <2>2 DEF CallOf, Callees, Members
  <2>4. u \in Reaches(instructions, caller)
        /\ Reaches(instructions, u) \subseteq Reaches(instructions, caller)
    BY <1>1, <2>1, <2>3, ReachesStep
  <2> QED
    BY <2>1, <2>4
<1>3. h \in S
  <2>1. S \in SUBSET GroupIds /\ g \in S
    OBVIOUS
  <2> HIDE DEF S
  <2> QED
    BY <1>2, <2>1 DEF BoundaryChain
<1> QED
  BY <1>3

(* Since no group reaches itself, the active target of a rejected call is  *)
(* neither the caller nor above it.                                        *)
LEMMA RejectedIsElsewhere ==
    ASSUME StructInv, CallInv, ProgramIsAccepted, NEW g \in GroupIds, PickRejectsCall(g)
    PROVE  /\ instructions[NextSlot(g)].target \in GroupIds \ {g}
           /\ instructions[NextSlot(g)].target \notin BoundaryChain(g)
<1> USE DEF StructInv
<1> DEFINE k == NextSlot(g)
           c == instructions[k].target
<1>1. Picked(g, k) /\ IsRunGroup(instructions[k])
  BY RejectEffect DEF PickRejectsCall
<1>2. /\ TargetsResolve(instructions) /\ instructions \in Seq(Instruction)
      /\ \A h \in Labels(instructions) : h \notin Reaches(instructions, h)
  BY <1>1, ActiveProgram DEF ProgramIsAccepted, Picked, TypeInv, TypeOK
<1>3. c \in Labels(instructions) /\ c \in GroupIds
  BY <1>2, RejectIsShared, OwnType
<1>4. c \in Callees(instructions, g) /\ g \in Labels(instructions)
  BY <1>1 DEF Picked, Members, Callees, Labels
<1>5. \A h \in GroupIds : Callees(instructions, h) \subseteq GroupIds
  BY <1>2, OwnType, CallGraphType
<1>6. c \in Reaches(instructions, g)
  BY <1>4, <1>5, ReachesStep
<1>7. c # g
  BY <1>2, <1>4, <1>6
<1>8. g \notin Reaches(instructions, c)
  <2> SUFFICES ASSUME g \in Reaches(instructions, c) PROVE FALSE
    OBVIOUS
  <2>1. c \in Reaches(instructions, c)
    BY <1>3, <1>5, <1>6, ReachesStep
  <2> QED
    BY <1>2, <1>3, <2>1
<1> QED
  BY <1>2, <1>3, <1>7, <1>8, ChainReaches

(* What RejectedCallDisturbsNothing says of one step.                      *)
RejectsQuietly ==
    \A k \in DOMAIN instructions :
        /\ IsRunGroup(instructions[k])
        /\ k \in runtimes[instructions[k].group].pending
        /\ k \notin runtimes'[instructions[k].group].pending
        /\ IsActive(instructions[k].target)
        /\ state' = "kActive"
        => runtimes'[instructions[k].target] = runtimes[instructions[k].target]

(* A step after which all cursors are where they were, or further back, is *)
(* quiet.                                                                  *)
LEMMA NothingPassed ==
    ASSUME TypeOK, \A h \in GroupIds : runtimes[h].pending \subseteq runtimes'[h].pending
    PROVE  RejectsQuietly
<1>1. \A k \in DOMAIN instructions : instructions[k].group \in GroupIds
  BY SlotType DEF Instruction
<1> QED
  BY <1>1 DEF RejectsQuietly

(* Every step is quiet.                                                    *)
LEMMA RejectStep ==
    ASSUME StructInv, CallInv, FailureInv, Next
    PROVE  RejectsQuietly
<1> USE DEF StructInv
<1>1. TypeOK /\ scan \subseteq GroupIds
  BY DEF TypeInv, TypeOK
<1>2. ASSUME runtimes' = runtimes PROVE RejectsQuietly
  BY <1>1, <1>2, NothingPassed
<1>3. CASE Call
  <2>1. CASE ResetInstructions
    BY <2>1 DEF RejectsQuietly, ResetInstructions
  <2>2. ASSUME NEW instr, AddInstruction(instr) PROVE RejectsQuietly
    BY <1>2, <2>2 DEF AddInstruction
  <2>3. ASSUME NEW period, SetRefreshPeriodMs(period) PROVE RejectsQuietly
    BY <1>2, <2>3 DEF SetRefreshPeriodMs
  <2>4. ASSUME NEW repeats, Start(repeats) PROVE RejectsQuietly
    <3>1. CASE runtimes' = runtimes
      BY <1>2, <3>1
    <3>2. CASE runtimes' # runtimes
      <4>1. state # "kActive"
        BY <2>4, <3>2 DEF Start
      <4>2. \A g \in GroupIds : ~IsActive(g)
        BY <4>1 DEF RootOutlivesItsWork
      <4>3. \A k \in DOMAIN instructions : instructions[k].target \in GroupIds
        BY <1>1, SlotType DEF Instruction
      <4> QED
        BY <4>2, <4>3 DEF RejectsQuietly
    <3> QED
      BY <3>1, <3>2
  <2> QED
    BY <1>3, <2>1, <2>2, <2>3, <2>4 DEF Call
<1>4. CASE DrainResumes \/ DrainRemoves
  BY <1>1, <1>4, DrainEffect, NothingPassed DEF Drains
<1>5. ASSUME NEW g \in GroupIds, RestartGroup(g) PROVE RejectsQuietly
  <2>1. \A h \in GroupIds : runtimes[h].pending \subseteq runtimes'[h].pending
    BY <1>5, RestartEffect DEF Restarts, IsReady
  <2> QED
    BY <1>1, <2>1, NothingPassed
<1>6. ASSUME NEW g \in GroupIds, EndGroup(g) PROVE RejectsQuietly
  <2>1. \A h \in GroupIds : runtimes[h].pending \subseteq runtimes'[h].pending
    BY <1>6, EndEffect DEF Ends, IsReady
  <2> QED
    BY <1>1, <2>1, NothingPassed
<1>7. ASSUME NEW g \in GroupIds, PickStartsChild(g) PROVE RejectsQuietly
  <2> DEFINE k == NextSlot(g)
             c == instructions[k].target
  <2>1. Launches(g, k, c)
    BY <1>7, StartsChildEffect
  <2> SUFFICES ASSUME NEW j \in DOMAIN instructions,
                      j \in runtimes[instructions[j].group].pending,
                      j \notin runtimes'[instructions[j].group].pending,
                      IsActive(instructions[j].target)
               PROVE  FALSE
    BY DEF RejectsQuietly
  <2>2. instructions[j].group \in GroupIds
    BY <1>1, SlotType DEF Instruction
  <2>3. instructions[j].group # c
    BY <2>1, <2>2 DEF Launches, TypeInv, PendingInGroup
  <2>4. MovesCursor(g, k, instructions[j].group)
    BY <2>1, <2>2, <2>3 DEF Launches
  <2>5. j = k
    BY <2>4 DEF MovesCursor
  <2> QED
    BY <2>1, <2>5 DEF Launches
<1>8. ASSUME NEW g \in GroupIds, PickRejectsCall(g) PROVE RejectsQuietly
  <2> DEFINE k == NextSlot(g)
             c == instructions[k].target
  <2>1. c \in GroupIds \ {g} /\ c \notin BoundaryChain(g)
    BY <1>8, RejectedIsElsewhere DEF FailureInv
  <2>2. Picked(g, k) /\ \A h \in GroupIds : MovesCursor(g, k, h)
    BY <1>8, RejectEffect
  <2>3. runtimes'[c] = runtimes[c]
    <3>1. runtimes' = CursorMoved(g, k)
      BY <1>8 DEF PickRejectsCall
    <3> DEFINE obs == IF instructions[k].mark > 0 THEN ObservePositiveBoundary(g)
                                                  ELSE runtimes
    <3>2. obs[c] = runtimes[c] /\ obs \in [GroupIds -> Runtime]
      BY <1>1, <2>1, ObserveType DEF ObservePositiveBoundary, TypeOK
    <3>3. runtimes' = [obs EXCEPT ![g].pending = @ \ {k}]
      BY <3>1 DEF CursorMoved
    <3> HIDE DEF obs, c, k
    <3> QED
      BY <2>1, <3>2, <3>3
  <2>4. ASSUME NEW j \in DOMAIN instructions,
               j \in runtimes[instructions[j].group].pending,
               j \notin runtimes'[instructions[j].group].pending
        PROVE  j = k
    <3>1. instructions[j].group \in GroupIds
      BY <1>1, SlotType DEF Instruction
    <3> QED
      BY <2>2, <2>4, <3>1 DEF MovesCursor
  <2> QED
    BY <2>3, <2>4 DEF RejectsQuietly
<1>9. ASSUME NEW g \in GroupIds, PickExecutes(g) PROVE RejectsQuietly
  <2> DEFINE k == NextSlot(g)
  <2>1. ~IsRunGroup(instructions[k]) /\ \A h \in GroupIds : MovesCursor(g, k, h)
    BY <1>9, ExecutesEffect
  <2>2. ASSUME NEW j \in DOMAIN instructions,
               j \in runtimes[instructions[j].group].pending,
               j \notin runtimes'[instructions[j].group].pending
        PROVE  j = k
    <3>1. instructions[j].group \in GroupIds
      BY <1>1, SlotType DEF Instruction
    <3> QED
      BY <2>1, <2>2, <3>1 DEF MovesCursor
  <2> QED
    BY <2>1, <2>2 DEF RejectsQuietly
<1>10. CASE \/ RunCall \/ Tick \/ DrainDone \/ CompleteDone \/ PickDone \/ ScheduleNextRun
  BY <1>2, <1>10
  DEF RunCall, RunWhenNotActive, RunBegin, Tick, DrainDone, CompleteDone, PickDone,
      ScheduleNextRun, programVars
<1> QED
  BY <1>1, <1>3, <1>4, <1>5, <1>6, <1>7, <1>8, <1>9, <1>10, Zenon DEF Next, RunStep

(* A rejected RunGroup leaves the invocation of its target as it was, the  *)
(* boundary flag included, because preflight admits no cyclic calls.       *)
THEOREM RejectionIsQuiet == Spec => RejectedCallDisturbsNothing
<1>1. Init => CallInv
  BY DEF Init, IdleRuntime, IsActive, CallInv, CallsAreMade, CallsDoNotRun
<1>2. StructInv /\ CallInv /\ [Next]_vars => CallInv'
  BY CallNext
<1>3. Init => FailureInv
  BY DEF Init, IdleRuntime, FailureInv, PendingIsUnstarted, ProgramIsAccepted,
         RepeatsArePromised, FlagsReach, PromisesAreKept, Promises, RunFailureHasCause,
         IsActive
<1>4. StructInv /\ CallInv /\ FailureInv /\ [Next]_vars => FailureInv'
  BY FailureNext
<1>5. StructInv /\ CallInv /\ FailureInv /\ [Next]_vars => [RejectsQuietly]_vars
  BY RejectStep
<1> QED
  BY <1>1, <1>2, <1>3, <1>4, <1>5, StructureCorrect, PTL
  DEF Spec, RejectedCallDisturbsNothing, RejectsQuietly
=============================================================================
