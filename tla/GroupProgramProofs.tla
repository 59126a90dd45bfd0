------------------------- MODULE GroupProgramProofs -------------------------
(***************************************************************************)
(* The preflight of Controller::Start for every program: the loops of      *)
(* BuildAndValidateGroups compute the group table, the labels a group can  *)
(* reach and the groups that can take time, and accept exactly the         *)
(* programs that are well formed.                                          *)
(*                                                                         *)
(* A loop is a recursive function of its counter.  That there is such a    *)
(* function, and that an invariant of its steps holds for its result, is   *)
(* shown with sets of counters: Iterates and UpTo.                         *)
(***************************************************************************)
EXTENDS GroupProgram, TLAPS, FiniteSetTheorems, SequenceTheorems, WellFoundedInduction

(* A set of naturals that is not empty has a least element.                *)
LEMMA LeastNat ==
    ASSUME NEW S, S \subseteq Nat, S # {}
    PROVE  \E m \in S : \A n \in S : m <= n
<1>1. \E m \in S : \A n \in S : ~(<<n, m>> \in OpToRel(<, Nat))
  BY NatLessThanWellFounded, WFMin
<1>2. PICK m \in S : \A n \in S : ~(<<n, m>> \in OpToRel(<, Nat))
  BY <1>1
<1>3. ASSUME NEW n \in S, n < m PROVE FALSE
  <2>1. n \in Nat /\ m \in Nat
    OBVIOUS
  <2>2. <<n, m>> \in OpToRel(<, Nat)
    BY <1>3, <2>1, Zenon DEF OpToRel
  <2> QED
    BY <1>2, <2>2
<1>4. \A n \in S : m <= n
  BY <1>3
<1> QED
  BY <1>4

-----------------------------------------------------------------------------
(* Loops.                                                                  *)

(* S holds the counter before the loop and with each counter the next one. *)
Inductive(S, n) == 0 \in S /\ \A i \in 1 .. n : i - 1 \in S => i \in S

(* Such a set holds all counters up to n.                                  *)
LEMMA UpTo ==
    ASSUME NEW n \in Nat, NEW S, Inductive(S, n), NEW j \in 0 .. n
    PROVE  j \in S
<1> SUFFICES ASSUME j \notin S PROVE FALSE
  OBVIOUS
<1> DEFINE B == {i \in 0 .. n : i \notin S}
<1>1. PICK m \in B : \A k \in B : m <= k
  <2>1. B \subseteq Nat /\ B # {}
    OBVIOUS
  <2> HIDE DEF B
  <2> QED
    BY <2>1, LeastNat
<1>2. m \in 1 .. n /\ m - 1 \in 0 .. n /\ m - 1 \notin B
  BY <1>1 DEF Inductive
<1> QED
  BY <1>1, <1>2 DEF Inductive

(* f is the value before the loop and after each of its n steps.           *)
Iteration(f, n, D, b, step) ==
    /\ f \in [0 .. n -> D]
    /\ f[0] = b
    /\ \A i \in 1 .. n : f[i] = step[i][f[i - 1]]

(* Every loop has such a function.                                         *)
LEMMA Iterates ==
    ASSUME NEW n \in Nat, NEW D, NEW b \in D, NEW step \in [1 .. n -> [D -> D]]
    PROVE  \E f : Iteration(f, n, D, b, step)
<1> DEFINE Upto(m, f) == f[0] = b /\ \A i \in 1 .. m : f[i] = step[i][f[i - 1]]
           S == {m \in 0 .. n : \E f \in [0 .. m -> D] : Upto(m, f)}
<1>1. 0 \in S
  <2> DEFINE z == [i \in 0 .. 0 |-> b]
  <2>1. z \in [0 .. 0 -> D] /\ Upto(0, z) /\ 0 \in 0 .. n
    OBVIOUS
  <2> HIDE DEF z, Upto
  <2> QED
    BY <2>1
<1>2. ASSUME NEW i \in 1 .. n, i - 1 \in S PROVE i \in S
  <2>1. PICK f \in [0 .. i - 1 -> D] : Upto(i - 1, f)
    BY <1>2
  <2> DEFINE h == [j \in 0 .. i |-> IF j = i THEN step[i][f[i - 1]] ELSE f[j]]
  <2>2. step[i][f[i - 1]] \in D
    BY <2>1
  <2>3. h \in [0 .. i -> D] /\ i \in 0 .. n
    BY <2>2
  <2>4. Upto(i, h)
    <3>1. h[0] = b
      BY <2>1
    <3>2. ASSUME NEW j \in 1 .. i PROVE h[j] = step[j][h[j - 1]]
      <4>1. CASE j = i
        <5>1. h[i - 1] = f[i - 1]
          OBVIOUS
        <5> QED
          BY <5>1, <4>1
      <4>2. CASE j \in 1 .. i - 1
        <5>1. h[j] = f[j] /\ h[j - 1] = f[j - 1]
          BY <4>2
        <5>2. f[j] = step[j][f[j - 1]]
          BY <2>1, <4>2
        <5> QED
          BY <5>1, <5>2
      <4> QED
        BY <4>1, <4>2
    <3> QED
      BY <3>1, <3>2
  <2> HIDE DEF h, Upto
  <2> QED
    BY <2>3, <2>4
<1>3. n \in S
  <2> HIDE DEF S
  <2>1. Inductive(S, n) /\ n \in 0 .. n
    BY <1>1, <1>2 DEF Inductive
  <2> QED
    BY <2>1, UpTo
<1> QED
  BY <1>3 DEF Iteration

-----------------------------------------------------------------------------
(* The slots of a program hold instructions.                               *)
LEMMA SlotFields ==
    ASSUME NEW p \in Seq(Instruction)
    PROVE  /\ DOMAIN p = 1 .. Len(p) /\ Len(p) \in Nat
           /\ \A k \in DOMAIN p : /\ p[k].group \in GroupIds
                                 /\ p[k].target \in GroupIds
                                 /\ p[k].mark \in Nat
                                 /\ p[k].op \in SupportedOps
<1>1. DOMAIN p = 1 .. Len(p) /\ Len(p) \in Nat
  OBVIOUS
<1>2. ASSUME NEW k \in DOMAIN p PROVE p[k] \in Instruction
  OBVIOUS
<1>3. ASSUME NEW i \in Instruction
      PROVE  i.group \in GroupIds /\ i.target \in GroupIds /\ i.mark \in Nat
             /\ i.op \in SupportedOps
  BY BoundAssumption DEF Instruction
<1> QED
  BY <1>1, <1>2, <1>3

-----------------------------------------------------------------------------
(* BuildGroupTable.                                                        *)

Builds == [status : {"kSuccess", "kCapacityExhausted"}, table : Seq(GroupIds)]

NoEntry == [status |-> "kSuccess", table |-> <<Root>>]

(* EnterGroup keeps the type of the table.                                 *)
LEMMA EnterGroupType ==
    ASSUME NEW b \in Builds, NEW id \in GroupIds
    PROVE  EnterGroup(b, id) \in Builds
<1>1. b.table \in Seq(GroupIds) /\ Append(b.table, id) \in Seq(GroupIds)
  BY DEF Builds
<1> QED
  BY <1>1 DEF Builds, EnterGroup

(* The table before and after each instruction.                            *)
TableRun(f, p) ==
    /\ f \in [0 .. Len(p) -> Builds]
    /\ BuildGroupTable(p) = f[Len(p)]
    /\ f[0] = NoEntry
    /\ \A i \in 1 .. Len(p) : f[i] = EnterGroup(f[i - 1], p[i].group)

(* The loop of BuildGroupTable.                                            *)
LEMMA TableLoop ==
    ASSUME NEW p \in Seq(Instruction)
    PROVE  \E f : TableRun(f, p)
<1> DEFINE n == Len(p)
           step == [i \in 1 .. n |-> [b \in Builds |-> EnterGroup(b, p[i].group)]]
           E(f) == f = [i \in 0 .. n |-> IF i = 0 THEN NoEntry
                                         ELSE EnterGroup(f[i - 1], p[i].group)]
<1>1. n \in Nat /\ \A i \in 1 .. n : p[i].group \in GroupIds
  BY SlotFields
<1>2. NoEntry \in Builds
  BY GroupAssumption DEF NoEntry, Builds
<1>3. step \in [1 .. n -> [Builds -> Builds]]
  <2>1. \A i \in 1 .. n : \A b \in Builds : EnterGroup(b, p[i].group) \in Builds
    BY <1>1, EnterGroupType
  <2> QED
    BY <2>1
<1>4. PICK f : Iteration(f, n, Builds, NoEntry, step)
  <2> HIDE DEF n, step
  <2> QED
    BY <1>1, <1>2, <1>3, Iterates
<1>5. ASSUME NEW i \in 1 .. n PROVE f[i] = EnterGroup(f[i - 1], p[i].group)
  <2>1. i - 1 \in 0 .. n /\ f[i - 1] \in Builds
    BY <1>1, <1>4 DEF Iteration
  <2> QED
    BY <1>4, <2>1 DEF Iteration
<1>6. E(f)
  <2>1. f = [i \in 0 .. n |-> f[i]]
    BY <1>4 DEF Iteration
  <2>2. \A i \in 0 .. n : f[i] = IF i = 0 THEN NoEntry
                                 ELSE EnterGroup(f[i - 1], p[i].group)
    BY <1>1, <1>4, <1>5 DEF Iteration
  <2> QED
    BY <2>1, <2>2, Zenon
<1> DEFINE c == CHOOSE g : E(g)
<1>7. E(c)
  BY <1>6, Zenon
<1>8. BuildGroupTable(p) = c[n]
  BY DEF BuildGroupTable, NoEntry
<1>9. c[0] = NoEntry /\ \A i \in 1 .. n : c[i] = EnterGroup(c[i - 1], p[i].group)
  <2> HIDE DEF c
  <2> QED
    BY <1>1, <1>7
<1>10. c \in [0 .. n -> Builds]
  <2> DEFINE S == {i \in 0 .. n : c[i] \in Builds}
  <2>1. Inductive(S, n)
    <3> HIDE DEF c
    <3> QED
      BY <1>1, <1>2, <1>9, EnterGroupType DEF Inductive
  <2>2. \A i \in 0 .. n : i \in S
    <3> HIDE DEF S
    <3> QED
      BY <1>1, <2>1, UpTo
  <2> HIDE DEF c
  <2> QED
    BY <1>7, <2>2
<1> HIDE DEF c, E
<1> QED
  BY <1>8, <1>9, <1>10 DEF TableRun

-----------------------------------------------------------------------------
(* ValidateGroupCallGraph.                                                 *)

Graphs(p) == [Labels(p) -> SUBSET Labels(p)]

(* Where targets resolve, calls lead from labels to labels.                *)
LEMMA CallGraphType ==
    ASSUME NEW p \in Seq(Instruction), TargetsResolve(p)
    PROVE  CallGraph(p) \in Graphs(p) /\ \A g \in GroupIds : Callees(p, g) \subseteq Labels(p)
<1>1. \A g \in GroupIds : Callees(p, g) \subseteq Labels(p)
  BY DEF Callees, Members, TargetsResolve
<1>2. Labels(p) \subseteq GroupIds
  BY GroupAssumption, SlotFields DEF Labels
<1> QED
  BY <1>1, <1>2 DEF CallGraph, Graphs

(* CloseThrough keeps the type of the graph.                               *)
LEMMA CloseThroughType ==
    ASSUME NEW p, NEW g \in Graphs(p), NEW t
    PROVE  CloseThrough(g, t) \in Graphs(p)
BY DEF CloseThrough, Graphs

(* The graph before and after each step of Warshall's algorithm.           *)
ClosureRun(f, p, table) ==
    /\ f \in [0 .. Len(table) -> Graphs(p)]
    /\ ClosedCallGraph(p, table) = f[Len(table)]
    /\ f[0] = CallGraph(p)
    /\ \A i \in 1 .. Len(table) : f[i] = CloseThrough(f[i - 1], table[i])

(* The loop over through of ValidateGroupCallGraph.                        *)
LEMMA ClosureLoop ==
    ASSUME NEW p \in Seq(Instruction), TargetsResolve(p), NEW table \in Seq(GroupIds)
    PROVE  \E f : ClosureRun(f, p, table)
<1> DEFINE n == Len(table)
           D == Graphs(p)
           base == CallGraph(p)
           step == [i \in 1 .. n |-> [g \in D |-> CloseThrough(g, table[i])]]
           E(f) == f = [i \in 0 .. n |-> IF i = 0 THEN base
                                         ELSE CloseThrough(f[i - 1], table[i])]
<1>1. n \in Nat
  OBVIOUS
<1>2. base \in D
  BY CallGraphType
<1>3. ASSUME NEW i \in 1 .. n, NEW g \in D PROVE CloseThrough(g, table[i]) \in D
  BY CloseThroughType
<1>4. PICK f : Iteration(f, n, D, base, step)
  <2>1. step \in [1 .. n -> [D -> D]]
    BY <1>3
  <2> HIDE DEF n, D, base, step
  <2> QED
    BY <1>1, <1>2, <2>1, Iterates
<1>5. ASSUME NEW i \in 1 .. n PROVE f[i] = CloseThrough(f[i - 1], table[i])
  <2>1. i - 1 \in 0 .. n /\ f[i - 1] \in D
    BY <1>1, <1>4 DEF Iteration
  <2>2. f[i] = step[i][f[i - 1]]
    BY <1>4 DEF Iteration
  <2> HIDE DEF n, D
  <2> QED
    BY <2>1, <2>2
<1>6. E(f)
  <2>1. f = [i \in 0 .. n |-> f[i]] /\ f[0] = base
    BY <1>4 DEF Iteration
  <2>2. ASSUME NEW i \in 0 .. n
        PROVE  f[i] = IF i = 0 THEN base ELSE CloseThrough(f[i - 1], table[i])
    <3> HIDE DEF n, base
    <3>1. i # 0 => i \in 1 .. n
      BY <1>1
    <3> QED
      BY <1>5, <2>1, <3>1, Zenon
  <2> QED
    BY <2>1, <2>2, Zenon
<1> DEFINE c == CHOOSE g : E(g)
<1>7. E(c)
  BY <1>6, Zenon
<1>8. ClosedCallGraph(p, table) = c[n]
  BY DEF ClosedCallGraph
<1>9. c[0] = base /\ \A i \in 1 .. n : c[i] = CloseThrough(c[i - 1], table[i])
  <2> HIDE DEF c, base, n
  <2> QED
    BY <1>1, <1>7
<1>10. c \in [0 .. n -> D]
  <2> DEFINE S == {i \in 0 .. n : c[i] \in D}
  <2>1. Inductive(S, n)
    <3> HIDE DEF c, D, n, base
    <3> QED
      BY <1>1, <1>2, <1>3, <1>9 DEF Inductive
  <2>2. \A i \in 0 .. n : i \in S
    <3> HIDE DEF S
    <3> QED
      BY <1>1, <2>1, UpTo
  <2> HIDE DEF c, D
  <2> QED
    BY <1>7, <2>2
<1> HIDE DEF c, E
<1> QED
  BY <1>8, <1>9, <1>10 DEF ClosureRun

-----------------------------------------------------------------------------
(* ValidateRepeatBoundaries.                                               *)

(* BoundFrom adds no other label than the source.                          *)
LEMMA BoundFromType ==
    ASSUME NEW closed, NEW b \in SUBSET GroupIds, NEW source \in GroupIds
    PROVE  BoundFrom(closed, b, source) \in SUBSET GroupIds
BY DEF BoundFrom

(* The bounded labels before and after each step of a pass over the table. *)
PassRun(f, closed, b, table) ==
    /\ f \in [0 .. Len(table) -> SUBSET GroupIds]
    /\ BoundaryPass(table, closed, b) = f[Len(table)]
    /\ f[0] = b
    /\ \A i \in 1 .. Len(table) : f[i] = BoundFrom(closed, f[i - 1], table[i])

(* The loop over source of ValidateRepeatBoundaries.                       *)
LEMMA PassLoop ==
    ASSUME NEW closed, NEW b \in SUBSET GroupIds, NEW table \in Seq(GroupIds)
    PROVE  \E f : PassRun(f, closed, b, table)
<1> DEFINE n == Len(table)
           D == SUBSET GroupIds
           base == b
           step == [i \in 1 .. n |-> [g \in D |-> BoundFrom(closed, g, table[i])]]
           E(f) == f = [i \in 0 .. n |-> IF i = 0 THEN base
                                         ELSE BoundFrom(closed, f[i - 1], table[i])]
<1>1. n \in Nat
  OBVIOUS
<1>2. base \in D
  BY Zenon
<1>3. ASSUME NEW i \in 1 .. n, NEW g \in D PROVE BoundFrom(closed, g, table[i]) \in D
  BY BoundFromType
<1>4. PICK f : Iteration(f, n, D, base, step)
  <2>1. step \in [1 .. n -> [D -> D]]
    BY <1>3
  <2> HIDE DEF n, D, base, step
  <2> QED
    BY <1>1, <1>2, <2>1, Iterates
<1>5. ASSUME NEW i \in 1 .. n PROVE f[i] = BoundFrom(closed, f[i - 1], table[i])
  <2>1. i - 1 \in 0 .. n /\ f[i - 1] \in D
    BY <1>1, <1>4 DEF Iteration
  <2>2. f[i] = step[i][f[i - 1]]
    BY <1>4 DEF Iteration
  <2> HIDE DEF n, D
  <2> QED
    BY <2>1, <2>2
<1>6. E(f)
  <2>1. f = [i \in 0 .. n |-> f[i]] /\ f[0] = base
    BY <1>4 DEF Iteration
  <2>2. ASSUME NEW i \in 0 .. n
        PROVE  f[i] = IF i = 0 THEN base ELSE BoundFrom(closed, f[i - 1], table[i])
    <3> HIDE DEF n, base
    <3>1. i # 0 => i \in 1 .. n
      BY <1>1
    <3> QED
      BY <1>5, <2>1, <3>1, Zenon
  <2> QED
    BY <2>1, <2>2, Zenon
<1> DEFINE c == CHOOSE g : E(g)
<1>7. E(c)
  BY <1>6, Zenon
<1>8. BoundaryPass(table, closed, b) = c[n]
  BY DEF BoundaryPass
<1>9. c[0] = base /\ \A i \in 1 .. n : c[i] = BoundFrom(closed, c[i - 1], table[i])
  <2> HIDE DEF c, base, n
  <2> QED
    BY <1>1, <1>7
<1>10. c \in [0 .. n -> D]
  <2> DEFINE S == {i \in 0 .. n : c[i] \in D}
  <2>1. Inductive(S, n)
    <3> HIDE DEF c, D, n, base
    <3> QED
      BY <1>1, <1>2, <1>3, <1>9 DEF Inductive
  <2>2. \A i \in 0 .. n : i \in S
    <3> HIDE DEF S
    <3> QED
      BY <1>1, <2>1, UpTo
  <2> HIDE DEF c, D
  <2> QED
    BY <1>7, <2>2
<1> HIDE DEF c, E
<1> QED
  BY <1>8, <1>9, <1>10 DEF PassRun

(* A pass yields labels.                                                   *)
LEMMA PassType ==
    ASSUME NEW closed, NEW b \in SUBSET GroupIds, NEW table \in Seq(GroupIds)
    PROVE  BoundaryPass(table, closed, b) \in SUBSET GroupIds
<1>1. Len(table) \in 0 .. Len(table)
  OBVIOUS
<1>2. PICK f : PassRun(f, closed, b, table)
  BY PassLoop, Zenon
<1> QED
  BY <1>1, <1>2 DEF PassRun

(* The labels with a boundary are labels.                                  *)
LEMMA OwnType ==
    ASSUME NEW p \in Seq(Instruction)
    PROVE  OwnBoundary(p) \subseteq Labels(p) /\ Labels(p) \subseteq GroupIds
<1>1. OwnBoundary(p) \subseteq Labels(p)
  BY DEF OwnBoundary, Labels
<1>2. Labels(p) \subseteq GroupIds
  BY GroupAssumption, SlotFields DEF Labels
<1> QED
  BY <1>1, <1>2

(* The bounded labels before and after each pass.                          *)
PassesRun(f, p, closed, table) ==
    /\ f \in [0 .. Len(table) -> SUBSET GroupIds]
    /\ PositiveBoundary(p, table, closed) = f[Len(table)]
    /\ f[0] = OwnBoundary(p)
    /\ \A i \in 1 .. Len(table) : f[i] = BoundaryPass(table, closed, f[i - 1])

(* The loop over pass of ValidateRepeatBoundaries.                         *)
LEMMA PassesLoop ==
    ASSUME NEW p \in Seq(Instruction), NEW closed, NEW table \in Seq(GroupIds)
    PROVE  \E f : PassesRun(f, p, closed, table)
<1> DEFINE n == Len(table)
           D == SUBSET GroupIds
           base == OwnBoundary(p)
           step == [i \in 1 .. n |-> [g \in D |-> BoundaryPass(table, closed, g)]]
           E(f) == f = [i \in 0 .. n |-> IF i = 0 THEN base
                                         ELSE BoundaryPass(table, closed, f[i - 1])]
<1>1. n \in Nat
  OBVIOUS
<1>2. base \in D
  BY OwnType
<1>3. ASSUME NEW i \in 1 .. n, NEW g \in D PROVE BoundaryPass(table, closed, g) \in D
  BY PassType
<1>4. PICK f : Iteration(f, n, D, base, step)
  <2>1. step \in [1 .. n -> [D -> D]]
    BY <1>3
  <2> HIDE DEF n, D, base, step
  <2> QED
    BY <1>1, <1>2, <2>1, Iterates
<1>5. ASSUME NEW i \in 1 .. n PROVE f[i] = BoundaryPass(table, closed, f[i - 1])
  <2>1. i - 1 \in 0 .. n /\ f[i - 1] \in D
    BY <1>1, <1>4 DEF Iteration
  <2>2. f[i] = step[i][f[i - 1]]
    BY <1>4 DEF Iteration
  <2> HIDE DEF n, D
  <2> QED
    BY <2>1, <2>2
<1>6. E(f)
  <2>1. f = [i \in 0 .. n |-> f[i]] /\ f[0] = base
    BY <1>4 DEF Iteration
  <2>2. ASSUME NEW i \in 0 .. n
        PROVE  f[i] = IF i = 0 THEN base ELSE BoundaryPass(table, closed, f[i - 1])
    <3> HIDE DEF n, base
    <3>1. i # 0 => i \in 1 .. n
      BY <1>1
    <3> QED
      BY <1>5, <2>1, <3>1, Zenon
  <2> QED
    BY <2>1, <2>2, Zenon
<1> DEFINE c == CHOOSE g : E(g)
<1>7. E(c)
  BY <1>6, Zenon
<1>8. PositiveBoundary(p, table, closed) = c[n]
  BY DEF PositiveBoundary
<1>9. c[0] = base /\ \A i \in 1 .. n : c[i] = BoundaryPass(table, closed, c[i - 1])
  <2> HIDE DEF c, base, n
  <2> QED
    BY <1>1, <1>7
<1>10. c \in [0 .. n -> D]
  <2> DEFINE S == {i \in 0 .. n : c[i] \in D}
  <2>1. Inductive(S, n)
    <3> HIDE DEF c, D, n, base
    <3> QED
      BY <1>1, <1>2, <1>3, <1>9 DEF Inductive
  <2>2. \A i \in 0 .. n : i \in S
    <3> HIDE DEF S
    <3> QED
      BY <1>1, <2>1, UpTo
  <2> HIDE DEF c, D
  <2> QED
    BY <1>7, <2>2
<1> HIDE DEF c, E
<1> QED
  BY <1>8, <1>9, <1>10 DEF PassesRun

-----------------------------------------------------------------------------
(* What can be reached.                                                    *)

(* A label is reached by its callers, and what it reaches is reached too.  *)
LEMMA ReachesStep ==
    ASSUME NEW p, NEW g \in GroupIds, Callees(p, g) \subseteq GroupIds
    PROVE  /\ Callees(p, g) \subseteq Reaches(p, g)
           /\ Reaches(p, g) \subseteq GroupIds
           /\ \A h \in Reaches(p, g) : Reaches(p, h) \subseteq Reaches(p, g)
<1>1. Callees(p, g) \subseteq Reaches(p, g) /\ Reaches(p, g) \subseteq GroupIds
  BY DEF Reaches, HoldsCallees
<1>2. ASSUME NEW h \in Reaches(p, g), NEW k \in Reaches(p, h) PROVE k \in Reaches(p, g)
  <2>1. k \in GroupIds
    BY DEF Reaches
  <2>2. ASSUME NEW S \in SUBSET GroupIds, HoldsCallees(p, g, S) PROVE k \in S
    <3>1. h \in S
      BY <2>2 DEF Reaches
    <3>2. HoldsCallees(p, h, S)
      BY <2>2, <3>1 DEF HoldsCallees
    <3> QED
      BY <3>2 DEF Reaches
  <2> QED
    BY <2>1, <2>2 DEF Reaches
<1> QED
  BY <1>1, <1>2

(* A set that holds the callees of g and of its members has all g reaches. *)
LEMMA ReachesLeast ==
    ASSUME NEW p, NEW g, NEW S \in SUBSET GroupIds, HoldsCallees(p, g, S)
    PROVE  Reaches(p, g) \subseteq S
BY DEF Reaches

(* What a pass over the table up to entry i has achieved.                  *)
Sound(p, graph) == \A a \in Labels(p) : graph[a] \subseteq Reaches(p, a)

Keeps(p, graph) == \A a \in Labels(p) : Callees(p, a) \subseteq graph[a]

ClosedAt(p, graph, t) == \A a \in Labels(p) : t \in graph[a] => graph[t] \subseteq graph[a]

(* One step of Warshall's algorithm: the graph stays sound, keeps the      *)
(* calls and what it was closed under, and is closed under through.        *)
LEMMA CloseThroughStep ==
    ASSUME NEW p \in Seq(Instruction), TargetsResolve(p), NEW graph \in Graphs(p),
           NEW t \in Labels(p), Sound(p, graph), Keeps(p, graph)
    PROVE  LET next == CloseThrough(graph, t)
           IN  /\ Sound(p, next)
               /\ Keeps(p, next)
               /\ ClosedAt(p, next, t)
               /\ \A u \in Labels(p) : ClosedAt(p, graph, u) => ClosedAt(p, next, u)
<1> DEFINE next == CloseThrough(graph, t)
<1>1. \A a \in Labels(p) : /\ t \in graph[a] => next[a] = graph[a] \cup graph[t]
                           /\ t \notin graph[a] => next[a] = graph[a]
  BY DEF CloseThrough, Graphs
<1> HIDE DEF next
<1>2. Labels(p) \subseteq GroupIds /\ \A g \in GroupIds : Callees(p, g) \subseteq GroupIds
  BY OwnType, CallGraphType
<1>3. Sound(p, next)
  <2>1. ASSUME NEW a \in Labels(p), t \in graph[a] PROVE graph[t] \subseteq Reaches(p, a)
    <3>1. t \in Reaches(p, a) /\ graph[t] \subseteq Reaches(p, t)
      BY <2>1 DEF Sound
    <3> QED
      BY <1>2, <3>1, ReachesStep
  <2> QED
    BY <1>1, <2>1 DEF Sound
<1>4. Keeps(p, next)
  BY <1>1 DEF Keeps
<1>5. next[t] = graph[t]
  BY <1>1
<1>6. ClosedAt(p, next, t)
  BY <1>1, <1>5 DEF ClosedAt
<1>7. ASSUME NEW u \in Labels(p), ClosedAt(p, graph, u) PROVE ClosedAt(p, next, u)
  BY <1>1, <1>7 DEF ClosedAt
<1> QED
  BY <1>3, <1>4, <1>6, <1>7 DEF next

-----------------------------------------------------------------------------
(* What the loops compute.                                                 *)

(* The groups of the first i instructions, and the root.                   *)
LabelsOf(p, i) == {Root} \cup {p[k].group : k \in 1 .. i}

(* What a table holds after an entry is appended.                          *)
LEMMA ToSetAppend ==
    ASSUME NEW D, NEW s \in Seq(D), NEW e \in D
    PROVE  ToSet(Append(s, e)) = ToSet(s) \cup {e}
<1> DEFINE n == Len(s)
           a == Append(s, e)
<1>1. n \in Nat /\ DOMAIN s = 1 .. n /\ DOMAIN a = (1 .. n) \cup {n + 1}
  OBVIOUS
<1>2. a[n + 1] = e /\ \A i \in 1 .. n : a[i] = s[i]
  OBVIOUS
<1> HIDE DEF a, n
<1>3. ToSet(a) = ToSet(s) \cup {e}
  BY <1>1, <1>2 DEF ToSet
<1> QED
  BY <1>3 DEF a

(* The table after i instructions: unless it overflowed it has the groups  *)
(* so far, and it cannot overflow before it has MaxGroups entries.         *)
Entered(p, i, b) ==
    /\ i < MaxGroups => b.status = "kSuccess" /\ Len(b.table) <= i + 1
    /\ b.status = "kSuccess" => ToSet(b.table) = LabelsOf(p, i)

(* Before the first instruction the table has the root only.               *)
LEMMA NothingEntered ==
    ASSUME NEW p PROVE Entered(p, 0, NoEntry)
<1>1. NoEntry.status = "kSuccess" /\ NoEntry.table = <<Root>>
  BY DEF NoEntry
<1>2. Len(<<Root>>) = 1 /\ ToSet(<<Root>>) = {Root}
  <2>1. DOMAIN <<Root>> = {1} /\ <<Root>>[1] = Root /\ Len(<<Root>>) = 1
    OBVIOUS
  <2> QED
    BY <2>1, Zenon DEF ToSet
<1>3. LabelsOf(p, 0) = {Root}
  BY DEF LabelsOf
<1>4. Len(NoEntry.table) <= 0 + 1
  BY <1>1, <1>2
<1> QED
  BY <1>1, <1>2, <1>3, <1>4, Zenon DEF Entered

(* One more instruction: its group is entered if it is not there yet.      *)
LEMMA EnterGroupStep ==
    ASSUME NEW p \in Seq(Instruction), NEW i \in 1 .. Len(p), NEW b \in Builds,
           Entered(p, i - 1, b)
    PROVE  Entered(p, i, EnterGroup(b, p[i].group))
<1> DEFINE id == p[i].group
           next == EnterGroup(b, id)
<1>1. /\ Len(p) \in Nat /\ i \in Nat /\ id \in GroupIds /\ MaxGroups \in Nat
      /\ b.table \in Seq(GroupIds) /\ Len(b.table) \in Nat
  BY SlotFields, BoundAssumption DEF Builds
<1>2. LabelsOf(p, i) = LabelsOf(p, i - 1) \cup {id}
  <2>1. 1 .. i = (1 .. i - 1) \cup {i}
    BY <1>1
  <2> QED
    BY <2>1 DEF LabelsOf
<1>3. i < MaxGroups => b.status = "kSuccess" /\ Len(b.table) <= i
  BY <1>1 DEF Entered
<1>4. b.status = "kSuccess" => ToSet(b.table) = LabelsOf(p, i - 1)
  BY DEF Entered
<1>5. CASE next = b
  <2>1. b.status = "kSuccess" => id \in ToSet(b.table)
    <3>1. CASE b.status = "kSuccess" /\ id \notin ToSet(b.table)
      <4>1. CASE Len(b.table) >= MaxGroups
        BY <1>5, <3>1, <4>1 DEF EnterGroup, Builds
      <4>2. CASE ~(Len(b.table) >= MaxGroups)
        <5>1. b.table = Append(b.table, id)
          BY <1>5, <3>1, <4>2 DEF EnterGroup, Builds
        <5>2. Len(Append(b.table, id)) = Len(b.table) + 1
          BY <1>1
        <5> QED
          BY <1>1, <5>1, <5>2
      <4> QED
        BY <4>1, <4>2
    <3> QED
      BY <3>1
  <2>2. b.status = "kSuccess" => ToSet(b.table) = LabelsOf(p, i)
    BY <1>2, <1>4, <2>1
  <2>3. i < MaxGroups => b.status = "kSuccess" /\ Len(b.table) <= i + 1
    BY <1>1, <1>3
  <2> QED
    BY <1>5, <2>2, <2>3 DEF Entered
<1>6. CASE next # b
  <2>1. b.status = "kSuccess" /\ id \notin ToSet(b.table)
    BY <1>6 DEF EnterGroup
  <2>2. CASE Len(b.table) >= MaxGroups
    <3>1. next.status = "kCapacityExhausted" /\ ~(i < MaxGroups)
      BY <1>1, <1>3, <2>1, <2>2 DEF EnterGroup, Builds
    <3> QED
      BY <3>1 DEF Entered
  <2>3. CASE ~(Len(b.table) >= MaxGroups)
    <3>1. next.status = "kSuccess" /\ next.table = Append(b.table, id)
      BY <2>1, <2>3 DEF EnterGroup, Builds
    <3>2. ToSet(Append(b.table, id)) = LabelsOf(p, i)
      BY <1>1, <1>2, <1>4, <2>1, ToSetAppend
    <3>3. i < MaxGroups => Len(Append(b.table, id)) <= i + 1
      BY <1>1, <1>3
    <3> QED
      BY <3>1, <3>2, <3>3 DEF Entered
  <2> QED
    BY <2>2, <2>3
<1> QED
  BY <1>5, <1>6

(* The table that BuildGroupTable returns.                                 *)
LEMMA TableHoldsLabels ==
    ASSUME NEW p \in Seq(Instruction)
    PROVE  /\ BuildGroupTable(p).table \in Seq(GroupIds)
           /\ Len(p) < MaxGroups => BuildGroupTable(p).status = "kSuccess"
           /\ BuildGroupTable(p).status = "kSuccess" =>
                ToSet(BuildGroupTable(p).table) = Labels(p)
<1>1. PICK f : TableRun(f, p)
  BY TableLoop, Zenon
<1> DEFINE n == Len(p)
           S == {i \in 0 .. n : Entered(p, i, f[i])}
<1>2. n \in Nat /\ MaxGroups \in Nat /\ DOMAIN p = 1 .. n
  BY BoundAssumption, SlotFields
<1>3. \A i \in 0 .. n : f[i] \in Builds
  BY <1>1 DEF TableRun
<1>4. Entered(p, 0, f[0])
  BY <1>1, NothingEntered DEF TableRun
<1>5. ASSUME NEW i \in 1 .. n, Entered(p, i - 1, f[i - 1]) PROVE Entered(p, i, f[i])
  <2>1. f[i] = EnterGroup(f[i - 1], p[i].group) /\ f[i - 1] \in Builds
    BY <1>1, <1>2, <1>3 DEF TableRun
  <2> QED
    BY <1>5, <2>1, EnterGroupStep
<1>6. Entered(p, n, f[n])
  <2>1. Inductive(S, n) /\ n \in 0 .. n
    <3> HIDE DEF n
    <3> QED
      BY <1>2, <1>4, <1>5 DEF Inductive
  <2>2. n \in S
    <3> HIDE DEF S, n
    <3> QED
      BY <1>2, <2>1, UpTo
  <2> QED
    BY <2>2
<1>7. LabelsOf(p, n) = Labels(p)
  BY <1>2 DEF LabelsOf, Labels
<1>8. BuildGroupTable(p) = f[n] /\ f[n] \in Builds /\ f[n].table \in Seq(GroupIds)
  BY <1>1, <1>2, <1>3 DEF TableRun, Builds
<1> QED
  BY <1>6, <1>7, <1>8 DEF Entered

(* Warshall's closure over a table that holds every label is what the      *)
(* labels reach.                                                           *)
LEMMA ClosureIsReach ==
    ASSUME NEW p \in Seq(Instruction), TargetsResolve(p), NEW table \in Seq(GroupIds),
           ToSet(table) = Labels(p)
    PROVE  /\ ClosedCallGraph(p, table) \in Graphs(p)
           /\ \A a \in Labels(p) : ClosedCallGraph(p, table)[a] = Reaches(p, a)
<1>1. PICK f : ClosureRun(f, p, table)
  BY ClosureLoop, Zenon
<1> DEFINE n == Len(table)
           Good(i) == /\ Sound(p, f[i])
                      /\ Keeps(p, f[i])
                      /\ \A j \in 1 .. i : ClosedAt(p, f[i], table[j])
           S == {i \in 0 .. n : Good(i)}
           G == f[n]
<1>2. n \in Nat /\ DOMAIN table = 1 .. n /\ \A j \in 1 .. n : table[j] \in Labels(p)
  BY DEF ToSet
<1>3. \A i \in 0 .. n : f[i] \in Graphs(p)
  BY <1>1 DEF ClosureRun
<1>4. Labels(p) \subseteq GroupIds /\ \A g \in GroupIds : Callees(p, g) \subseteq GroupIds
  BY OwnType, CallGraphType
<1>5. Good(0)
  <2>1. f[0] = CallGraph(p)
    BY <1>1 DEF ClosureRun
  <2>2. \A a \in Labels(p) : f[0][a] = Callees(p, a)
    BY <2>1 DEF CallGraph
  <2>3. \A a \in Labels(p) : Callees(p, a) \subseteq Reaches(p, a)
    BY <1>4, ReachesStep
  <2> QED
    BY <2>2, <2>3 DEF Sound, Keeps
<1>6. ASSUME NEW i \in 1 .. n, Good(i - 1) PROVE Good(i)
  <2>1. /\ f[i] = CloseThrough(f[i - 1], table[i])
        /\ f[i - 1] \in Graphs(p)
        /\ table[i] \in Labels(p)
        /\ \A j \in 1 .. i : j = i \/ j \in 1 .. i - 1
        /\ 1 .. i \subseteq 1 .. n
    BY <1>1, <1>2, <1>3 DEF ClosureRun
  <2>2. /\ Sound(p, f[i]) /\ Keeps(p, f[i]) /\ ClosedAt(p, f[i], table[i])
        /\ \A u \in Labels(p) : ClosedAt(p, f[i - 1], u) => ClosedAt(p, f[i], u)
    BY <1>6, <2>1, CloseThroughStep
  <2>3. ASSUME NEW j \in 1 .. i PROVE ClosedAt(p, f[i], table[j])
    BY <1>2, <1>6, <2>1, <2>2, Zenon
  <2> QED
    BY <2>2, <2>3
<1>7. Good(n)
  <2>1. Inductive(S, n) /\ n \in 0 .. n
    <3> HIDE DEF Good, n
    <3> QED
      BY <1>2, <1>5, <1>6 DEF Inductive
  <2>2. n \in S
    <3> HIDE DEF S, n
    <3> QED
      BY <1>2, <2>1, UpTo
  <2> QED
    BY <2>2
<1>8. G \in Graphs(p) /\ ClosedCallGraph(p, table) = G
  BY <1>1, <1>2, <1>3 DEF ClosureRun
<1>9. \A t \in Labels(p) : ClosedAt(p, G, t)
  <2>1. \A t \in Labels(p) : \E j \in 1 .. n : t = table[j]
    BY <1>2 DEF ToSet
  <2> QED
    BY <1>7, <2>1
<1>10. ASSUME NEW a \in Labels(p) PROVE G[a] = Reaches(p, a)
  <2>1. G[a] \subseteq Reaches(p, a)
    BY <1>7 DEF Sound
  <2>2. G[a] \subseteq Labels(p)
    BY <1>8 DEF Graphs
  <2>3. HoldsCallees(p, a, G[a])
    <3>1. Callees(p, a) \subseteq G[a]
      BY <1>7 DEF Keeps
    <3>2. ASSUME NEW h \in G[a] PROVE Callees(p, h) \subseteq G[a]
      <4>1. h \in Labels(p) /\ G[h] \subseteq G[a]
        BY <1>9, <2>2 DEF ClosedAt
      <4>2. Callees(p, h) \subseteq G[h]
        BY <1>7, <4>1 DEF Keeps
      <4> QED
        BY <4>1, <4>2
    <3> QED
      BY <3>1, <3>2 DEF HoldsCallees
  <2>4. G[a] \in SUBSET GroupIds
    BY <1>4, <2>2
  <2>5. Reaches(p, a) \subseteq G[a]
    <3> HIDE DEF G
    <3> QED
      BY <2>3, <2>4, ReachesLeast
  <2> QED
    BY <2>1, <2>5
<1> QED
  BY <1>8, <1>10

(* The labels that have a boundary or reach one.                           *)
Bounded(p) == {g \in Labels(p) : g \in OwnBoundary(p) \/ Reaches(p, g) \cap OwnBoundary(p) # {}}

(* closed is what the labels of p reach.                                   *)
IsClosure(p, closed) == \A a \in Labels(p) : closed[a] = Reaches(p, a)

(* A step of a pass drops no bounded label, adds only one that can take    *)
(* time, and adds the source when a boundary can be reached from it.       *)
LEMMA BoundFromStep ==
    ASSUME NEW p \in Seq(Instruction), TargetsResolve(p), NEW closed, IsClosure(p, closed),
           NEW b, OwnBoundary(p) \subseteq b, b \subseteq Bounded(p), NEW source \in Labels(p)
    PROVE  /\ b \subseteq BoundFrom(closed, b, source)
           /\ BoundFrom(closed, b, source) \subseteq Bounded(p)
           /\ source \in Bounded(p) => source \in BoundFrom(closed, b, source)
<1>1. Labels(p) \subseteq GroupIds /\ \A g \in GroupIds : Callees(p, g) \subseteq GroupIds
  BY OwnType, CallGraphType
<1>2. closed[source] = Reaches(p, source)
  BY DEF IsClosure
<1>3. ASSUME NEW h \in Reaches(p, source), h \in b PROVE source \in Bounded(p)
  <2>1. Reaches(p, h) \subseteq Reaches(p, source)
    BY <1>1, ReachesStep
  <2>2. h \in OwnBoundary(p) \/ Reaches(p, h) \cap OwnBoundary(p) # {}
    BY <1>3 DEF Bounded
  <2> QED
    BY <1>3, <2>1, <2>2 DEF Bounded
<1>4. source \in Bounded(p) => source \in b \/ Reaches(p, source) \cap b # {}
  BY DEF Bounded
<1> QED
  BY <1>2, <1>3, <1>4 DEF BoundFrom

(* A pass adds every label that can take time and no other.                *)
LEMMA PassBounds ==
    ASSUME NEW p \in Seq(Instruction), TargetsResolve(p), NEW closed, IsClosure(p, closed),
           NEW table \in Seq(GroupIds), ToSet(table) = Labels(p),
           NEW b, OwnBoundary(p) \subseteq b, b \subseteq Bounded(p)
    PROVE  BoundaryPass(table, closed, b) = Bounded(p)
<1>1. b \in SUBSET GroupIds /\ Bounded(p) \subseteq Labels(p)
  BY OwnType DEF Bounded
<1>2. PICK f : PassRun(f, closed, b, table)
  BY <1>1, PassLoop, Zenon
<1> DEFINE n == Len(table)
           Good(i) == /\ OwnBoundary(p) \subseteq f[i]
                      /\ f[i] \subseteq Bounded(p)
                      /\ \A j \in 1 .. i : table[j] \in Bounded(p) => table[j] \in f[i]
           S == {i \in 0 .. n : Good(i)}
<1>3. n \in Nat /\ DOMAIN table = 1 .. n /\ \A j \in 1 .. n : table[j] \in Labels(p)
  BY DEF ToSet
<1>4. Good(0)
  BY <1>2 DEF PassRun
<1>5. ASSUME NEW i \in 1 .. n, Good(i - 1) PROVE Good(i)
  <2>1. /\ f[i] = BoundFrom(closed, f[i - 1], table[i])
        /\ table[i] \in Labels(p)
        /\ \A j \in 1 .. i : j = i \/ j \in 1 .. i - 1
    BY <1>2, <1>3 DEF PassRun
  <2>2. /\ f[i - 1] \subseteq f[i] /\ f[i] \subseteq Bounded(p)
        /\ table[i] \in Bounded(p) => table[i] \in f[i]
    BY <1>5, <2>1, BoundFromStep
  <2>3. ASSUME NEW j \in 1 .. i, table[j] \in Bounded(p) PROVE table[j] \in f[i]
    BY <1>5, <2>1, <2>2, <2>3
  <2> QED
    BY <1>5, <2>2, <2>3
<1>6. Good(n)
  <2>1. Inductive(S, n) /\ n \in 0 .. n
    <3> HIDE DEF Good, n
    <3> QED
      BY <1>3, <1>4, <1>5 DEF Inductive
  <2>2. n \in S
    <3> HIDE DEF S, n
    <3> QED
      BY <1>3, <2>1, UpTo
  <2> QED
    BY <2>2
<1>7. \A t \in Labels(p) : \E j \in 1 .. n : t = table[j]
  BY <1>3 DEF ToSet
<1>8. Bounded(p) \subseteq f[n]
  BY <1>1, <1>6, <1>7
<1>9. BoundaryPass(table, closed, b) = f[n]
  BY <1>2 DEF PassRun
<1> QED
  BY <1>6, <1>8, <1>9

(* After all passes exactly the labels that can take time are bounded.     *)
LEMMA BoundaryIsExact ==
    ASSUME NEW p \in Seq(Instruction), TargetsResolve(p), NEW closed, IsClosure(p, closed),
           NEW table \in Seq(GroupIds), ToSet(table) = Labels(p)
    PROVE  PositiveBoundary(p, table, closed) = Bounded(p)
<1>1. PICK f : PassesRun(f, p, closed, table)
  BY PassesLoop, Zenon
<1> DEFINE n == Len(table)
           Good(i) == f[i] = IF i = 0 THEN OwnBoundary(p) ELSE Bounded(p)
           S == {i \in 0 .. n : Good(i)}
<1>2. n \in Nat /\ n > 0
  <2>1. n = 0 => ToSet(table) = {}
    BY DEF ToSet
  <2> QED
    BY <2>1 DEF Labels
<1>3. OwnBoundary(p) \subseteq Bounded(p)
  BY OwnType DEF Bounded
<1>4. Good(0)
  BY <1>1 DEF PassesRun
<1>5. ASSUME NEW i \in 1 .. n, Good(i - 1) PROVE Good(i)
  <2>1. f[i] = BoundaryPass(table, closed, f[i - 1])
    BY <1>1 DEF PassesRun
  <2>2. OwnBoundary(p) \subseteq f[i - 1] /\ f[i - 1] \subseteq Bounded(p)
    BY <1>3, <1>5
  <2>3. f[i] = Bounded(p)
    BY <2>1, <2>2, PassBounds
  <2> QED
    BY <2>3
<1>6. Good(n)
  <2>1. Inductive(S, n) /\ n \in 0 .. n
    <3> HIDE DEF Good, n
    <3> QED
      BY <1>2, <1>4, <1>5 DEF Inductive
  <2>2. n \in S
    <3> HIDE DEF S, n
    <3> QED
      BY <1>2, <2>1, UpTo
  <2> QED
    BY <2>2
<1>7. PositiveBoundary(p, table, closed) = f[n]
  BY <1>1 DEF PassesRun
<1> QED
  BY <1>2, <1>6, <1>7

(* A label is bounded when it can take time.                               *)
LEMMA BoundedMeansTime ==
    ASSUME NEW p \in Seq(Instruction), NEW g \in Labels(p)
    PROVE  g \in Bounded(p) <=> CanTakeTime(p, g)
<1>1. ASSUME NEW h
      PROVE  h \in OwnBoundary(p) <=>
               \E k \in Members(p, h) : p[k].mark > 0 \/ HasPositiveSchedulingBoundary(p[k])
  BY DEF OwnBoundary, Members
<1>2. g \in Bounded(p) <=> \E h \in {g} \cup Reaches(p, g) : h \in OwnBoundary(p)
  BY DEF Bounded
<1> QED
  BY <1>1, <1>2, Zenon DEF CanTakeTime

(* A label that can take time has a boundary of its own or calls a label   *)
(* that can take time.                                                     *)
LEMMA BoundedStep ==
    ASSUME NEW p \in Seq(Instruction), TargetsResolve(p), NEW g \in Bounded(p),
           g \notin OwnBoundary(p)
    PROVE  \E c \in Callees(p, g) : c \in Bounded(p)
<1>1. Labels(p) \subseteq GroupIds /\ \A h \in GroupIds : Callees(p, h) \subseteq Labels(p)
  BY OwnType, CallGraphType
<1>2. g \in GroupIds
  BY <1>1 DEF Bounded
<1>3. PICK h \in Reaches(p, g) : h \in OwnBoundary(p)
  BY DEF Bounded
<1> DEFINE S == {u \in GroupIds : \E c \in Callees(p, g) : u = c \/ u \in Reaches(p, c)}
<1>4. HoldsCallees(p, g, S)
  <2>1. Callees(p, g) \subseteq S
    BY <1>1, <1>2
  <2>2. ASSUME NEW u \in S, NEW w \in Callees(p, u) PROVE w \in S
    <3>1. PICK c \in Callees(p, g) : u = c \/ u \in Reaches(p, c)
      OBVIOUS
    <3>2. c \in GroupIds /\ u \in GroupIds /\ w \in GroupIds
      BY <1>1, <1>2
    <3>3. w \in Reaches(p, c)
      BY <1>1, <3>1, <3>2, ReachesStep
    <3> QED
      BY <3>2, <3>3
  <2> QED
    BY <2>1, <2>2 DEF HoldsCallees
<1>5. h \in S
  <2>1. S \in SUBSET GroupIds
    OBVIOUS
  <2> HIDE DEF S
  <2> QED
    BY <1>3, <1>4, <2>1, ReachesLeast
<1>6. PICK c \in Callees(p, g) : h = c \/ h \in Reaches(p, c)
  BY <1>5
<1>7. c \in Labels(p)
  BY <1>1, <1>2
<1>8. c \in Bounded(p)
  BY <1>3, <1>6, <1>7 DEF Bounded
<1> QED
  BY <1>8

-----------------------------------------------------------------------------
(* What BuildAndValidateGroups accepts.                                    *)

(* The conditions it checks one after the other, without the algorithms.   *)
Accepted(p, rootRepeats) ==
    /\ TargetsResolve(p)
    /\ \A g \in Labels(p) : g \notin Reaches(p, g)
    /\ RepeatsAreBounded(p, Bounded(p), rootRepeats)

(* Unless the table or the program is too long these are its conditions.   *)
LEMMA AcceptedPrograms ==
    ASSUME NEW p \in Seq(Instruction), NEW rootRepeats
    PROVE  BuildAndValidateGroups(p, rootRepeats) = "kSuccess" <=>
             /\ BuildGroupTable(p).status = "kSuccess"
             /\ ~(Len(p) > MaxInstructions)
             /\ Accepted(p, rootRepeats)
<1> DEFINE build == BuildGroupTable(p)
           table == build.table
           closed == ClosedCallGraph(p, table)
           acyclic == \A g \in Labels(p) : g \notin closed[g]
           time == PositiveBoundary(p, table, closed)
<1>1. table \in Seq(GroupIds) /\ (build.status = "kSuccess" => ToSet(table) = Labels(p))
  BY TableHoldsLabels
<1>2. BuildAndValidateGroups(p, rootRepeats) = "kSuccess" <=>
        /\ build.status = "kSuccess"
        /\ ~(Len(p) > MaxInstructions)
        /\ TargetsResolve(p) /\ acyclic /\ RepeatsAreBounded(p, time, rootRepeats)
  BY Zenon DEF BuildAndValidateGroups
<1> HIDE DEF build, table, closed, time
<1>3. ASSUME TargetsResolve(p), build.status = "kSuccess"
      PROVE  /\ acyclic <=> \A g \in Labels(p) : g \notin Reaches(p, g)
             /\ time = Bounded(p)
  <2>1. IsClosure(p, closed)
    BY <1>1, <1>3, ClosureIsReach DEF closed, IsClosure
  <2>2. time = Bounded(p)
    BY <1>1, <1>3, <2>1, BoundaryIsExact DEF time
  <2> QED
    BY <2>1, <2>2 DEF IsClosure
<1> HIDE DEF acyclic
<1> QED
  BY <1>2, <1>3, Zenon DEF Accepted, build

(* They say that the program is well formed.                               *)
LEMMA AcceptedIsWellFormed ==
    ASSUME NEW p \in Seq(Instruction), NEW rootRepeats
    PROVE  Accepted(p, rootRepeats) <=> WellFormed(p, rootRepeats)
<1>1. TargetsResolve(p) <=> \A k \in DOMAIN p : IsRunGroup(p[k]) =>
                              p[k].target # Root /\ Members(p, p[k].target) # {}
  BY DEF TargetsResolve, Labels, Members
<1>2. ASSUME TargetsResolve(p)
      PROVE  RepeatsAreBounded(p, Bounded(p), rootRepeats) <=>
               /\ \A k \in DOMAIN p : IsRunGroup(p[k]) /\ p[k].repeats # 0 =>
                                        CanTakeTime(p, p[k].target)
               /\ rootRepeats # 0 => CanTakeTime(p, Root)
  <2>1. \A k \in DOMAIN p : IsRunGroup(p[k]) => p[k].target \in Labels(p)
    BY <1>2 DEF TargetsResolve
  <2>2. Root \in Labels(p)
    BY DEF Labels
  <2> QED
    BY <2>1, <2>2, BoundedMeansTime DEF RepeatsAreBounded
<1> QED
  BY <1>1, <1>2, Zenon DEF Accepted, WellFormed

(* BuildAndValidateGroups accepts exactly the well-formed programs: every  *)
(* RunGroup names a labelled group other than the root, no group reaches   *)
(* itself, and whatever repeats can take time.  It holds for every program *)
(* that AddInstruction can store, as long as the group table has one entry *)
(* more than there are slots (kMaxGroups = kMaxInstructions + 1).          *)
THEOREM PreflightIsExact ==
    ASSUME NEW p \in Seq(Instruction), Len(p) <= MaxInstructions,
           MaxInstructions < MaxGroups, NEW rootRepeats
    PROVE  BuildAndValidateGroups(p, rootRepeats) = "kSuccess" <=> WellFormed(p, rootRepeats)
<1>1. Len(p) < MaxGroups /\ ~(Len(p) > MaxInstructions)
  BY BoundAssumption, SlotFields
<1> QED
  BY <1>1, TableHoldsLabels, AcceptedPrograms, AcceptedIsWellFormed
=============================================================================
