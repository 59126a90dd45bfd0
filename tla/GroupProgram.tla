---------------------------- MODULE GroupProgram ----------------------------
(***************************************************************************)
(* The retained instruction program of prism::Controller and the preflight *)
(* that Controller::Start runs over it (app/controller/controller.cpp).    *)
(*                                                                         *)
(* A program is the sequence of stored instructions, slot 1 first.  An     *)
(* instruction keeps what scheduling depends on: the label of its group,   *)
(* its mark, what it does ("set", "fade", "gradient" or "run"), the target *)
(* and the repeat count of a RunGroup, the duration of a timed instruction *)
(* and whether the LED it addresses exists on the strip.  Colours are      *)
(* abstracted away.                                                        *)
(*                                                                         *)
(* The preflight algorithms are recursive functions of the loop counters   *)
(* of the code, over group labels instead of table indices.  The contract  *)
(* they are checked against, WellFormed, is stated without any algorithm.  *)
(***************************************************************************)
EXTENDS Integers, Sequences, FiniteSets, SequencesExt

CONSTANTS
    GroupIds,        \* the group labels a program may use (GroupId, uint32_t)
    Root,            \* the label of the implicit root group, 0 in the code
    MaxInstructions, \* kMaxInstructions
    MaxGroups,       \* Controller::kMaxGroups
    MaxMark,         \* the largest Mark (uint16_t)
    Forever,         \* kForeverLoopCount, the largest LoopCount
    MaxDuration      \* the largest duration_ms of a timed instruction

ASSUME GroupAssumption == /\ Root \in GroupIds
                          /\ IsFiniteSet(GroupIds)
ASSUME BoundAssumption == /\ MaxInstructions \in Nat \ {0}
                          /\ MaxGroups \in Nat \ {0}
                          /\ MaxMark \in Nat
                          /\ Forever \in Nat \ {0}
                          /\ MaxDuration \in Nat

SupportedOps == {"set", "fade", "gradient", "run"}

Instruction ==
    [ group    : GroupIds,
      mark     : 0 .. MaxMark,
      op       : SupportedOps,
      target   : GroupIds,
      repeats  : 0 .. Forever,
      duration : 0 .. MaxDuration,
      led      : BOOLEAN ]

IsRunGroup(instr) == instr.op = "run"

IsTimed(instr) == instr.op \in {"fade", "gradient"}

HasPositiveSchedulingBoundary(instr) == IsTimed(instr) /\ instr.duration > 0

-----------------------------------------------------------------------------
(* Names for what the group table and the index pool mean.                 *)

Labels(p) == {Root} \cup {p[k].group : k \in DOMAIN p}

Members(p, g) == {k \in DOMAIN p : p[k].group = g}

FirstSlot(p, g) == CHOOSE k \in Members(p, g) : \A j \in Members(p, g) : k <= j

(* Table order: the root is entry 0, the others follow by first appearance. *)
Before(p, g, h) ==
    /\ h # Root
    /\ g = Root \/ FirstSlot(p, g) < FirstSlot(p, h)

(* The order of a group's mark-sorted range of the index pool: by mark and, *)
(* for equal marks, by insertion.                                           *)
Earlier(p, j, k) ==
    \/ p[j].mark < p[k].mark
    \/ p[j].mark = p[k].mark /\ j < k

EarliestOf(p, S) == CHOOSE k \in S : \A j \in S \ {k} : Earlier(p, k, j)

-----------------------------------------------------------------------------
(* Mutant of BuildGroupTable: the implicit root is not entered first.      *)
TableWithoutImplicitRoot(p) ==
    LET Visit(build, instr) ==
          IF instr.group \in ToSet(build.table) THEN build
          ELSE [build EXCEPT !.table = Append(@, instr.group)]
        build[n \in 0 .. Len(p)] ==
          IF n = 0 THEN [status |-> "kSuccess", table |-> <<>>]
                   ELSE Visit(build[n - 1], p[n])
    IN  build[Len(p)]

(* BuildGroupTable: one entry per label, in order of first appearance.     *)
EnterGroup(build, id) ==
    IF build.status # "kSuccess" \/ id \in ToSet(build.table) THEN build
    ELSE IF Len(build.table) >= MaxGroups
      THEN [build EXCEPT !.status = "kCapacityExhausted"]
    ELSE [build EXCEPT !.table = Append(@, id)]

BuildGroupTable(p) ==
    LET build[n \in 0 .. Len(p)] ==
          IF n = 0 THEN [status |-> "kSuccess", table |-> <<Root>>]
                   ELSE EnterGroup(build[n - 1], p[n].group)
    IN  build[Len(p)]

(* Mutant of InsertByMark: the comparison of marks is not strict, so equal  *)
(* marks are reversed.                                                      *)
InsertByMarkUnstably(p, sorted, k) ==
    LET smaller == Cardinality({j \in DOMAIN sorted : p[sorted[j]].mark < p[k].mark})
    IN  InsertAt(sorted, smaller + 1, k)

(* BuildGroupIndexPool: a slot is moved in front of larger marks only,      *)
InsertByMark(p, sorted, k) ==
    LET smaller == Cardinality({j \in DOMAIN sorted : p[sorted[j]].mark <= p[k].mark})
    IN  InsertAt(sorted, smaller + 1, k)

(* every group's slots are taken in insertion order,                        *)
GroupRange(p, g) ==
    LET range[n \in 0 .. Len(p)] ==
          IF n = 0 THEN <<>>
          ELSE IF p[n].group = g THEN InsertByMark(p, range[n - 1], n)
          ELSE range[n - 1]
    IN  range[Len(p)]

(* and the ranges of the groups follow each other in table order.           *)
IndexBegin(p, table, i) ==
    Cardinality({k \in DOMAIN p : \E h \in 1 .. (i - 1) : p[k].group = table[h]})

BuildGroupIndexPool(p, table) ==
    LET pool[n \in 0 .. Len(table)] ==
          IF n = 0 THEN <<>> ELSE pool[n - 1] \o GroupRange(p, table[n])
    IN  [ begin |-> [i \in DOMAIN table |-> IndexBegin(p, table, i)],
          pool  |-> pool[Len(table)] ]

(* BuildGroupCallGraph: who calls whom; a target must be a label of the     *)
(* program other than the root.                                             *)
Callees(p, g) == {p[k].target : k \in {j \in Members(p, g) : IsRunGroup(p[j])}}

CallGraph(p) == [g \in Labels(p) |-> Callees(p, g)]

TargetsResolve(p) ==
    \A k \in DOMAIN p : IsRunGroup(p[k]) => p[k].target \in Labels(p) \ {Root}

(* ValidateGroupCallGraph: Warshall's closure in table order.  The inner    *)
(* loop leaves the row of through as it is, so the order of the sources     *)
(* makes no difference.                                                     *)
CloseThrough(graph, through) ==
    [source \in DOMAIN graph |->
       IF through \in graph[source] THEN graph[source] \cup graph[through]
                                    ELSE graph[source]]

(* Mutant of ClosedCallGraph: only direct calls are looked at.              *)
DirectCallGraph(p, table) == CallGraph(p)

ClosedCallGraph(p, table) ==
    LET graph[n \in 0 .. Len(table)] ==
          IF n = 0 THEN CallGraph(p) ELSE CloseThrough(graph[n - 1], table[n])
    IN  graph[Len(table)]

(* ValidateRepeatBoundaries: the labels with a boundary of their own, then  *)
(* as many passes over the closed graph as there are groups.                *)
OwnBoundary(p) ==
    {p[k].group : k \in {j \in DOMAIN p : \/ p[j].mark > 0
                                          \/ HasPositiveSchedulingBoundary(p[j])}}

BoundFrom(closed, bounded, source) ==
    IF closed[source] \cap bounded # {} THEN bounded \cup {source} ELSE bounded

BoundaryPass(table, closed, bounded) ==
    LET bound[n \in 0 .. Len(table)] ==
          IF n = 0 THEN bounded ELSE BoundFrom(closed, bound[n - 1], table[n])
    IN  bound[Len(table)]

PositiveBoundary(p, table, closed) ==
    LET bound[pass \in 0 .. Len(table)] ==
          IF pass = 0 THEN OwnBoundary(p) ELSE BoundaryPass(table, closed, bound[pass - 1])
    IN  bound[Len(table)]

RepeatsAreBounded(p, bounded, rootRepeats) ==
    /\ \A k \in DOMAIN p :
         IsRunGroup(p[k]) /\ p[k].repeats # 0 => p[k].target \in bounded
    /\ rootRepeats # 0 => Root \in bounded

(* BuildAndValidateGroups: the status of the first stage that fails; that   *)
(* of BuildGroupTable can only be the exhaustion of the table.              *)
BuildAndValidateGroups(p, rootRepeats) ==
    LET build  == BuildGroupTable(p)
        table  == build.table
        closed == ClosedCallGraph(p, table)
    IN  IF build.status # "kSuccess" THEN "kCapacityExhausted"
        ELSE IF Len(p) > MaxInstructions THEN "kCapacityExhausted"
        ELSE IF ~TargetsResolve(p) THEN "kInvalidProgram"
        ELSE IF \E g \in Labels(p) : g \in closed[g] THEN "kInvalidProgram"
        ELSE IF ~RepeatsAreBounded(p, PositiveBoundary(p, table, closed), rootRepeats)
          THEN "kInvalidProgram"
        ELSE "kSuccess"

-----------------------------------------------------------------------------
(* The contract of the preflight.                                          *)

(* The labels a chain of one or more RunGroups leads to: the intersection  *)
(* of all label sets that hold g's callees and are closed under calling.   *)
HoldsCallees(p, g, S) ==
    /\ Callees(p, g) \subseteq S
    /\ \A h \in S : Callees(p, h) \subseteq S

Reaches(p, g) ==
    {h \in GroupIds : \A S \in SUBSET GroupIds : HoldsCallees(p, g, S) => h \in S}

(* A label can spend positive time: itself or through a label it reaches.  *)
CanTakeTime(p, g) ==
    \E h \in {g} \cup Reaches(p, g) : \E k \in Members(p, h) :
        p[k].mark > 0 \/ HasPositiveSchedulingBoundary(p[k])

WellFormed(p, rootRepeats) ==
    /\ \A k \in DOMAIN p : IsRunGroup(p[k]) =>
         /\ p[k].target # Root
         /\ Members(p, p[k].target) # {}
         /\ p[k].repeats # 0 => CanTakeTime(p, p[k].target)
    /\ \A g \in Labels(p) : g \notin Reaches(p, g)
    /\ rootRepeats # 0 => CanTakeTime(p, Root)
=============================================================================
