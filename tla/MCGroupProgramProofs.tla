------------------------ MODULE MCGroupProgramProofs ------------------------
(***************************************************************************)
(* What the enumeration of MCGroupProgram checks on short programs, for    *)
(* every bound: the group table is in order of first appearance and never  *)
(* overflows, the index pool holds each group's instructions in stable     *)
(* mark order, and the preflight accepts exactly the well-formed programs. *)
(***************************************************************************)
EXTENDS MCGroupProgram, GroupProgramProofs

-----------------------------------------------------------------------------
(* The programs that are enumerated.                                       *)

ProgramInv ==
    /\ family \in {Chains, Orders}
    /\ program \in Seq(Instruction)
    /\ Len(program) <= MaxInstructions

(* The alphabets hold instructions only.                                   *)
LEMMA AlphabetType ==
    ASSUME family \in {Chains, Orders}
    PROVE  /\ Alphabet \subseteq Instruction
           /\ family.length \in Int /\ family.length <= MaxInstructions
<1>1. /\ family.length \in Int /\ family.length <= MaxInstructions
      /\ family.marks \subseteq 0 .. MaxMark
      /\ family.durations \subseteq 0 .. MaxDuration
      /\ family.repeats \subseteq 0 .. Forever
  BY BoundAssumption, EnumerationAssumption DEF Chains, Orders
<1>2. 0 \in 0 .. MaxMark /\ 0 \in 0 .. MaxDuration /\ 0 \in 0 .. Forever
  BY BoundAssumption
<1>3. ASSUME NEW g \in GroupIds, NEW m \in 0 .. MaxMark
      PROVE  Plain(g, m) \in Instruction
  BY <1>2, GroupAssumption DEF Plain, Instruction, SupportedOps
<1>4. ASSUME NEW i \in Instruction, NEW d \in 0 .. MaxDuration
      PROVE  [i EXCEPT !.op = "fade", !.duration = d] \in Instruction
  BY DEF Instruction, SupportedOps
<1>5. ASSUME NEW i \in Instruction, NEW t \in GroupIds, NEW r \in 0 .. Forever
      PROVE  [i EXCEPT !.op = "run", !.target = t, !.repeats = r] \in Instruction
  BY DEF Instruction, SupportedOps
<1>6. \A g \in GroupIds, d \in 0 .. MaxDuration : Timed(g, 0, d) \in Instruction
  BY <1>2, <1>3, <1>4 DEF Timed
<1>7. \A g \in GroupIds, t \in GroupIds, r \in 0 .. Forever : Call(g, 0, t, r) \in Instruction
  BY <1>2, <1>3, <1>5 DEF Call
<1> QED
  BY <1>1, <1>3, <1>6, <1>7 DEF Alphabet

(* Every program that is enumerated could be stored by AddInstruction.     *)
LEMMA ProgramIsStored == Spec => []ProgramInv
<1>1. Init => ProgramInv
  BY BoundAssumption DEF Init, ProgramInv
<1>2. ProgramInv /\ [Next]_<<family, program>> => ProgramInv'
  <2> SUFFICES ASSUME ProgramInv, [Next]_<<family, program>> PROVE ProgramInv'
    OBVIOUS
  <2>1. CASE Next
    <3>1. PICK instr \in Alphabet : program' = Append(program, instr)
      BY <2>1 DEF Next
    <3>2. instr \in Instruction /\ family.length \in Int /\ family.length <= MaxInstructions
      BY AlphabetType DEF ProgramInv
    <3>3. family' \in {Chains, Orders} /\ Len(program) < family.length
      BY <2>1 DEF Next, ProgramInv, Chains, Orders
    <3>4. program' \in Seq(Instruction) /\ Len(program') = Len(program) + 1
          /\ Len(program) \in Nat
      BY <3>1, <3>2 DEF ProgramInv
    <3>5. Chains' = Chains /\ Orders' = Orders
      BY DEF Chains, Orders
    <3> QED
      BY <3>2, <3>3, <3>4, <3>5, BoundAssumption DEF ProgramInv
  <2>2. CASE UNCHANGED <<family, program>>
    BY <2>2 DEF ProgramInv, Chains, Orders
  <2> QED
    BY <2>1, <2>2
<1> QED
  BY <1>1, <1>2, PTL DEF Spec

-----------------------------------------------------------------------------
(* The order of the group table.                                           *)

(* FirstSlot is where a label appears first.                               *)
LEMMA FirstSlotIs ==
    ASSUME NEW p \in Seq(Instruction), NEW k \in 1 .. Len(p),
           \A j \in 1 .. k - 1 : p[j].group # p[k].group
    PROVE  FirstSlot(p, p[k].group) = k
<1> DEFINE g == p[k].group
           M == Members(p, g)
<1>1. M \subseteq 1 .. Len(p) /\ k \in M /\ Len(p) \in Nat
  BY SlotFields DEF Members
<1>2. ASSUME NEW j \in M PROVE k <= j
  <2>1. p[j].group = g /\ j \in 1 .. Len(p)
    BY <1>1 DEF Members
  <2>2. j \notin 1 .. k - 1
    BY <2>1
  <2> QED
    BY <1>1, <2>1, <2>2
<1>3. \A m \in M : (\A j \in M : m <= j) => m = k
  BY <1>1, <1>2
<1> HIDE DEF M
<1>4. (CHOOSE m \in M : \A j \in M : m <= j) = k
  BY <1>1, <1>2, <1>3
<1> QED
  BY <1>4 DEF FirstSlot, M

(* The table after i instructions: the root, then the labels by slot.      *)
Ordered(p, i, t) ==
    /\ Len(t) >= 1 /\ t[1] = Root
    /\ \A j \in 2 .. Len(t) : t[j] # Root /\ FirstSlot(p, t[j]) \in 1 .. i
    /\ \A j, k \in 2 .. Len(t) : j < k => FirstSlot(p, t[j]) < FirstSlot(p, t[k])

(* A label that is entered appears for the first time.                     *)
LEMMA OrderStep ==
    ASSUME NEW p \in Seq(Instruction), NEW i \in 1 .. Len(p), NEW b \in Builds,
           Entered(p, i - 1, b), Ordered(p, i - 1, b.table)
    PROVE  Ordered(p, i, EnterGroup(b, p[i].group).table)
<1> DEFINE id == p[i].group
           next == EnterGroup(b, id)
           t == b.table
<1>1. /\ Len(p) \in Nat /\ i \in Nat /\ id \in GroupIds
      /\ t \in Seq(GroupIds) /\ Len(t) \in Nat
  BY SlotFields DEF Builds
<1>2. CASE next.table = t
  <2>1. Ordered(p, i, t)
    BY <1>1 DEF Ordered
  <2> QED
    BY <1>2, <2>1
<1>3. CASE next.table # t
  <2>1. b.status = "kSuccess" /\ id \notin ToSet(t) /\ ~(Len(t) >= MaxGroups)
    BY <1>3 DEF EnterGroup, Builds
  <2>2. next.table = Append(t, id)
    BY <2>1 DEF EnterGroup, Builds
  <2>3. id \notin LabelsOf(p, i - 1)
    BY <2>1 DEF Entered
  <2>4. id # Root /\ \A j \in 1 .. i - 1 : p[j].group # id
    BY <2>3 DEF LabelsOf
  <2>5. FirstSlot(p, id) = i
    BY <2>4, FirstSlotIs
  <2>6. PICK u : u = Append(t, id)
    OBVIOUS
  <2>7. PICK n \in Nat : n = Len(t)
    BY <1>1
  <2>8. Len(u) = n + 1 /\ u[n + 1] = id /\ \A j \in 1 .. n : u[j] = t[j]
    BY <1>1, <2>6, <2>7
  <2>9. n >= 1 /\ u[1] = Root
    BY <2>7, <2>8 DEF Ordered
  <2>10. ASSUME NEW j \in 2 .. n + 1
         PROVE  /\ u[j] # Root
                /\ j <= n => FirstSlot(p, u[j]) \in 1 .. i - 1
                /\ j = n + 1 => FirstSlot(p, u[j]) = i
    <3>1. CASE j \in 2 .. n
      <4>1. u[j] = t[j]
        BY <2>8, <3>1
      <4> QED
        BY <2>7, <3>1, <4>1 DEF Ordered
    <3>2. CASE j = n + 1
      BY <2>4, <2>5, <2>8, <3>2
    <3> QED
      BY <3>1, <3>2
  <2>11. ASSUME NEW j \in 2 .. n + 1, NEW k \in 2 .. n + 1, j < k
         PROVE  FirstSlot(p, u[j]) < FirstSlot(p, u[k])
    <3>1. CASE k \in 2 .. n
      <4>1. j \in 2 .. n /\ u[j] = t[j] /\ u[k] = t[k]
        BY <2>8, <2>11, <3>1
      <4> QED
        BY <2>7, <2>11, <3>1, <4>1 DEF Ordered
    <3>2. CASE k = n + 1
      <4>1. j <= n /\ FirstSlot(p, u[k]) = i
        BY <2>10, <2>11, <3>2
      <4>2. FirstSlot(p, u[j]) \in 1 .. i - 1
        BY <2>10, <4>1
      <4> QED
        BY <1>1, <4>1, <4>2
    <3> QED
      BY <3>1, <3>2
  <2>12. \A j \in 2 .. n + 1 : u[j] # Root /\ FirstSlot(p, u[j]) \in 1 .. i
    BY <1>1, <2>10
  <2>13. Ordered(p, i, u)
    BY <2>8, <2>9, <2>11, <2>12 DEF Ordered
  <2> QED
    BY <2>2, <2>6, <2>13
<1> QED
  BY <1>2, <1>3

(* The table that BuildGroupTable returns is in order.                     *)
LEMMA TableIsOrdered ==
    ASSUME NEW p \in Seq(Instruction)
    PROVE  Ordered(p, Len(p), BuildGroupTable(p).table)
<1>1. PICK f : TableRun(f, p)
  BY TableLoop, Zenon
<1> DEFINE n == Len(p)
           S == {i \in 0 .. n : Entered(p, i, f[i]) /\ Ordered(p, i, f[i].table)}
<1>2. n \in Nat
  BY SlotFields
<1>3. \A i \in 0 .. n : f[i] \in Builds
  BY <1>1 DEF TableRun
<1>4. f[0] = NoEntry /\ NoEntry.table = <<Root>>
  BY <1>1 DEF TableRun, NoEntry
<1>5. Entered(p, 0, f[0])
  BY <1>4, NothingEntered
<1>6. Ordered(p, 0, f[0].table)
  <2>1. Len(<<Root>>) = 1 /\ <<Root>>[1] = Root
    OBVIOUS
  <2>2. Ordered(p, 0, <<Root>>)
    BY <2>1 DEF Ordered
  <2> QED
    BY <1>4, <2>2
<1>7. ASSUME NEW i \in 1 .. n, Entered(p, i - 1, f[i - 1]), Ordered(p, i - 1, f[i - 1].table)
      PROVE  Entered(p, i, f[i]) /\ Ordered(p, i, f[i].table)
  <2>1. f[i] = EnterGroup(f[i - 1], p[i].group) /\ f[i - 1] \in Builds
    BY <1>1, <1>2, <1>3 DEF TableRun
  <2>2. Entered(p, i, f[i])
    BY <1>7, <2>1, EnterGroupStep
  <2>3. Ordered(p, i, f[i].table)
    BY <1>7, <2>1, OrderStep
  <2> QED
    BY <2>2, <2>3
<1>8. Inductive(S, n) /\ n \in 0 .. n
  <2> HIDE DEF n
  <2> QED
    BY <1>2, <1>5, <1>6, <1>7 DEF Inductive
<1>9. n \in S
  <2> HIDE DEF S, n
  <2> QED
    BY <1>2, <1>8, UpTo
<1>10. BuildGroupTable(p) = f[n]
  BY <1>1 DEF TableRun
<1> QED
  BY <1>9, <1>10

(* BuildGroupTable never overflows and holds every label of the program    *)
(* once, the root first and the others in order of first appearance, for   *)
(* programs of every length that the controller can store.                 *)
THEOREM TableIsInOrder == Spec => []TableHoldsEveryLabelInOrder
<1>1. ProgramInv => TableHoldsEveryLabelInOrder
  <2> SUFFICES ASSUME ProgramInv PROVE TableHoldsEveryLabelInOrder
    OBVIOUS
  <2>1. program \in Seq(Instruction) /\ Len(program) < MaxGroups
    BY BoundAssumption, EnumerationAssumption, SlotFields DEF ProgramInv
  <2>2. /\ BuildGroupTable(program).status = "kSuccess"
        /\ ToSet(Table) = Labels(program)
        /\ Table \in Seq(GroupIds)
    BY <2>1, TableHoldsLabels DEF Table
  <2>3. Ordered(program, Len(program), Table)
    BY <2>1, TableIsOrdered DEF Table
  <2>4. ASSUME NEW i \in DOMAIN Table, NEW j \in DOMAIN Table, i < j
        PROVE  Before(program, Table[i], Table[j])
    <3>1. PICK n \in Nat : n = Len(Table) /\ DOMAIN Table = 1 .. n
      BY <2>2
    <3>2. j \in 2 .. n /\ (i = 1 \/ i \in 2 .. n)
      BY <2>4, <3>1
    <3> QED
      BY <2>3, <2>4, <3>1, <3>2 DEF Ordered, Before
  <2> QED
    BY <2>2, <2>4 DEF TableHoldsEveryLabelInOrder
<1> QED
  BY <1>1, ProgramIsStored, PTL

-----------------------------------------------------------------------------
(* The index pool.                                                         *)

(* t is s with e behind its first k elements.                              *)
IsInserted(S, s, k, e, t) ==
    /\ t \in Seq(S) /\ Len(t) = Len(s) + 1
    /\ \A j \in 1 .. Len(s) + 1 :
           t[j] = IF j <= k THEN s[j] ELSE IF j = k + 1 THEN e ELSE s[j - 1]

(* InsertAt, element by element.                                           *)
LEMMA InsertedAt ==
    ASSUME NEW S, NEW s \in Seq(S), NEW k \in 0 .. Len(s), NEW e \in S
    PROVE  IsInserted(S, s, k, e, InsertAt(s, k + 1, e))
<1> DEFINE head == SubSeq(s, 1, k)
           tail == SubSeq(s, k + 1, Len(s))
<1>1. /\ head \in Seq(S) /\ Len(head) = k /\ \A j \in 1 .. k : head[j] = s[j]
      /\ tail \in Seq(S) /\ Len(tail) = Len(s) - k
      /\ \A j \in 1 .. Len(s) - k : tail[j] = s[k + j]
  OBVIOUS
<1>2. InsertAt(s, k + 1, e) = (head \o <<e>>) \o tail
  <2>1. (k + 1) - 1 = k
    OBVIOUS
  <2> QED
    BY <2>1 DEF InsertAt
<1> HIDE DEF head, tail
<1> DEFINE front == head \o <<e>>
<1>3. /\ front \in Seq(S) /\ Len(front) = k + 1 /\ front[k + 1] = e
      /\ \A j \in 1 .. k : front[j] = s[j]
  BY <1>1
<1> HIDE DEF front
<1>4. Len(s) \in Nat
  OBVIOUS
<1>5. Len(front \o tail) = Len(s) + 1 /\ front \o tail \in Seq(S)
  BY <1>1, <1>3, <1>4
<1>6. ASSUME NEW j \in 1 .. Len(s) + 1
      PROVE  (front \o tail)[j] = IF j <= k THEN s[j] ELSE IF j = k + 1 THEN e ELSE s[j - 1]
  <2>1. CASE j <= k + 1
    <3>1. (front \o tail)[j] = front[j]
      BY <1>1, <1>3, <1>4, <2>1, ConcatProperties
    <3>2. j <= k => j \in 1 .. k
      OBVIOUS
    <3> QED
      BY <1>3, <2>1, <3>1, <3>2
  <2>2. CASE j > k + 1
    <3>1. (front \o tail)[j] = tail[j - (k + 1)]
      BY <1>1, <1>3, <1>4, <2>2, ConcatProperties
    <3>2. j - (k + 1) \in 1 .. Len(s) - k /\ k + (j - (k + 1)) = j - 1
      BY <1>4, <2>2
    <3>3. ~(j <= k) /\ j # k + 1
      BY <2>2
    <3> QED
      BY <1>1, <3>1, <3>2, <3>3
  <2>3. j <= k + 1 \/ j > k + 1
    OBVIOUS
  <2> QED
    BY <2>1, <2>2, <2>3
<1>7. IsInserted(S, s, k, e, front \o tail)
  BY <1>5, <1>6 DEF IsInserted
<1> QED
  BY <1>2, <1>7 DEF front

(* The slots among the first i that belong to group g, by mark and then by *)
(* insertion.                                                              *)
Ranged(p, g, i, t) ==
    /\ t \in Seq(1 .. Len(p))
    /\ ToSet(t) = {k \in 1 .. i : p[k].group = g}
    /\ \A c, d \in 1 .. Len(t) : c < d => Earlier(p, t[c], t[d])

(* Where the slots are in order, those up to a mark come first.            *)
LEMMA MarksUpTo ==
    ASSUME NEW p \in Seq(Instruction), NEW t \in Seq(1 .. Len(p)), NEW mark \in Nat,
           \A c, d \in 1 .. Len(t) : c < d => Earlier(p, t[c], t[d])
    PROVE  \E k \in 0 .. Len(t) :
               /\ \A i \in 1 .. Len(t) : p[t[i]].mark <= mark <=> i <= k
               /\ Cardinality({i \in DOMAIN t : p[t[i]].mark <= mark}) = k
<1>1. PICK n \in Nat : n = Len(t) /\ DOMAIN t = 1 .. n
  OBVIOUS
<1> DEFINE later == {i \in 1 .. n : ~(p[t[i]].mark <= mark)}
<1>2. \A i \in 1 .. n : p[t[i]].mark \in Nat
  <2>1. \A i \in 1 .. n : t[i] \in 1 .. Len(p)
    BY <1>1
  <2> QED
    BY <2>1, SlotFields
<1>3. \E k \in 0 .. n : \A i \in 1 .. n : p[t[i]].mark <= mark <=> i <= k
  <2>1. CASE later = {}
    <3>1. \A i \in 1 .. n : p[t[i]].mark <= mark /\ i <= n
      BY <2>1
    <3>2. n \in 0 .. n
      OBVIOUS
    <3> QED
      BY <3>1, <3>2
  <2>2. CASE later # {}
    <3>1. PICK first \in later : \A i \in later : first <= i
      <4>1. later \subseteq Nat
        OBVIOUS
      <4> HIDE DEF later
      <4> QED
        BY <2>2, <4>1, LeastNat
    <3>2. first \in 1 .. n /\ ~(p[t[first]].mark <= mark)
      OBVIOUS
    <3>3. ASSUME NEW i \in 1 .. n PROVE p[t[i]].mark <= mark <=> i <= first - 1
      <4>1. CASE i < first
        BY <3>1, <4>1
      <4>2. CASE i = first
        BY <3>2, <4>2
      <4>3. CASE i > first
        <5>1. Earlier(p, t[first], t[i])
          BY <1>1, <3>2, <4>3
        <5>2. p[t[first]].mark <= p[t[i]].mark
          BY <1>2, <3>2, <5>1 DEF Earlier
        <5> QED
          BY <1>2, <3>2, <4>3, <5>2, SMTT(30)
      <4> QED
        BY <3>2, <4>1, <4>2, <4>3
    <3>4. first - 1 \in 0 .. n
      BY <3>2
    <3> QED
      BY <3>3, <3>4
  <2> QED
    BY <2>1, <2>2
<1>4. PICK k \in 0 .. n : \A i \in 1 .. n : p[t[i]].mark <= mark <=> i <= k
  BY <1>3
<1>5. {i \in DOMAIN t : p[t[i]].mark <= mark} = 1 .. k
  BY <1>1, <1>4
<1>6. Cardinality(1 .. k) = k
  BY FS_Interval
<1> QED
  BY <1>1, <1>4, <1>5, <1>6

(* InsertByMark keeps a sequence of slots one.                             *)
LEMMA InsertType ==
    ASSUME NEW p \in Seq(Instruction), NEW t \in Seq(1 .. Len(p)), NEW k \in 1 .. Len(p)
    PROVE  InsertByMark(p, t, k) \in Seq(1 .. Len(p))
<1> DEFINE small == {j \in DOMAIN t : p[t[j]].mark <= p[k].mark}
<1>1. PICK n \in Nat : n = Len(t) /\ DOMAIN t = 1 .. n
  OBVIOUS
<1>2. Cardinality(small) \in 0 .. n
  <2>1. IsFiniteSet(1 .. n) /\ Cardinality(1 .. n) = n
    BY FS_Interval
  <2>2. small \in SUBSET (1 .. n)
    BY <1>1
  <2> HIDE DEF small
  <2>3. Cardinality(small) <= n /\ Cardinality(small) \in Nat
    BY <2>1, <2>2, FS_Subset, FS_CardinalityType
  <2> QED
    BY <2>3
<1>3. InsertByMark(p, t, k) = InsertAt(t, Cardinality(small) + 1, k)
  BY DEF InsertByMark
<1> HIDE DEF small
<1>4. IsInserted(1 .. Len(p), t, Cardinality(small), k, InsertByMark(p, t, k))
  BY <1>1, <1>2, <1>3, InsertedAt
<1> QED
  BY <1>4 DEF IsInserted

(* One more slot of the group finds its place.                             *)
LEMMA RangeStep ==
    ASSUME NEW p \in Seq(Instruction), NEW g, NEW i \in 1 .. Len(p), NEW t,
           Ranged(p, g, i - 1, t), p[i].group = g
    PROVE  Ranged(p, g, i, InsertByMark(p, t, i))
<1> DEFINE mark == p[i].mark
           u    == InsertByMark(p, t, i)
<1>1. t \in Seq(1 .. Len(p)) /\ Len(t) \in Nat /\ DOMAIN t = 1 .. Len(t) /\ mark \in Nat
  BY SlotFields DEF Ranged
<1>2. PICK k \in 0 .. Len(t) :
        /\ \A j \in 1 .. Len(t) : p[t[j]].mark <= mark <=> j <= k
        /\ Cardinality({j \in DOMAIN t : p[t[j]].mark <= mark}) = k
  <2> HIDE DEF mark
  <2> QED
    BY <1>1, MarksUpTo DEF Ranged
<1>3. u = InsertAt(t, k + 1, i)
  BY <1>2 DEF InsertByMark
<1>4. /\ u \in Seq(1 .. Len(p)) /\ Len(u) = Len(t) + 1
      /\ \A j \in 1 .. Len(t) + 1 :
             u[j] = IF j <= k THEN t[j] ELSE IF j = k + 1 THEN i ELSE t[j - 1]
  <2> HIDE DEF u
  <2>1. IsInserted(1 .. Len(p), t, k, i, u)
    BY <1>1, <1>3, InsertedAt
  <2> QED
    BY <2>1 DEF IsInserted
<1>5. PICK n \in Nat : n = Len(t) /\ k \in 0 .. n
  BY <1>1
<1>6. \A j \in 1 .. n : /\ t[j] \in 1 .. i - 1 /\ p[t[j]].group = g /\ p[t[j]].mark \in Nat
  <2>1. \A j \in 1 .. n : t[j] \in ToSet(t) /\ t[j] \in 1 .. Len(p)
    BY <1>1, <1>5 DEF ToSet
  <2> QED
    BY <2>1, SlotFields DEF Ranged
<1> HIDE DEF mark, u
<1>7. ASSUME NEW j \in 1 .. n + 1
      PROVE  \/ j \in 1 .. n /\ j <= k /\ u[j] = t[j]
             \/ j = k + 1 /\ u[j] = i
             \/ j > k + 1 /\ j - 1 \in 1 .. n /\ j - 1 > k /\ u[j] = t[j - 1]
  BY <1>4, <1>5
<1>8. ToSet(u) = {j \in 1 .. i : p[j].group = g}
  <2>0. DOMAIN u = 1 .. n + 1
    BY <1>4, <1>5
  <2>1. ASSUME NEW x \in ToSet(u) PROVE x \in 1 .. i /\ p[x].group = g
    <3>1. PICK j \in 1 .. n + 1 : u[j] = x
      BY <2>0, <2>1 DEF ToSet
    <3> QED
      BY <1>6, <1>7, <3>1, SMTT(30)
  <2>2. ASSUME NEW x \in 1 .. i, p[x].group = g PROVE x \in ToSet(u)
    <3>1. CASE x = i
      <4>1. k + 1 \in 1 .. n + 1
        BY <1>5
      <4>2. u[k + 1] = i
        BY <1>7, <4>1
      <4> QED
        BY <2>0, <3>1, <4>1, <4>2 DEF ToSet
    <3>2. CASE x # i
      <4>1. x \in ToSet(t)
        BY <2>2, <3>2 DEF Ranged
      <4>2. PICK j \in 1 .. n : t[j] = x
        BY <1>1, <1>5, <4>1 DEF ToSet
      <4>3. CASE j <= k
        <5>1. j \in 1 .. n + 1 /\ u[j] = x
          BY <1>7, <4>2, <4>3
        <5> QED
          BY <2>0, <5>1 DEF ToSet
      <4>4. CASE j > k
        <5>1. j + 1 \in 1 .. n + 1 /\ j + 1 > k + 1 /\ (j + 1) - 1 = j
          BY <1>5, <4>4
        <5>2. u[j + 1] = x
          BY <1>5, <1>7, <4>2, <5>1
        <5> QED
          BY <2>0, <5>1, <5>2 DEF ToSet
      <4> QED
        BY <1>5, <4>3, <4>4
    <3> QED
      BY <3>1, <3>2
  <2> QED
    BY <2>1, <2>2
<1>9. ASSUME NEW c \in 1 .. n + 1, NEW d \in 1 .. n + 1, c < d
      PROVE  Earlier(p, u[c], u[d])
  <2>1. \A x, y \in 1 .. n : x < y => Earlier(p, t[x], t[y])
    BY <1>5 DEF Ranged
  <2>2. CASE d = k + 1
    <3>1. c \in 1 .. n /\ c <= k /\ u[c] = t[c] /\ u[d] = i
      BY <1>5, <1>7, <1>9, <2>2
    <3>2. p[t[c]].mark <= mark /\ t[c] \in 1 .. i - 1 /\ p[t[c]].mark \in Nat
      BY <1>2, <1>5, <1>6, <3>1
    <3> QED
      BY <1>1, <3>1, <3>2, SMTT(30) DEF Earlier, mark
  <2>3. CASE c = k + 1
    <3>1. d - 1 \in 1 .. n /\ d - 1 > k /\ u[d] = t[d - 1] /\ u[c] = i
      BY <1>5, <1>7, <1>9, <2>3
    <3>2. ~(p[t[d - 1]].mark <= mark) /\ p[t[d - 1]].mark \in Nat
      BY <1>2, <1>5, <1>6, <3>1
    <3>3. mark < p[t[d - 1]].mark
      BY <1>1, <3>2, SMTT(30)
    <3> QED
      BY <3>1, <3>3 DEF Earlier, mark
  <2>4. CASE c # k + 1 /\ d # k + 1
    <3>0. ASSUME NEW e \in 1 .. n + 1, e # k + 1
          PROVE  \E x \in 1 .. n : u[e] = t[x] /\ x = IF e <= k THEN e ELSE e - 1
      <4>1. CASE e <= k
        BY <1>5, <1>7, <3>0, <4>1
      <4>2. CASE ~(e <= k)
        BY <1>5, <1>7, <3>0, <4>2
      <4> QED
        BY <4>1, <4>2
    <3>1. PICK x \in 1 .. n : u[c] = t[x] /\ x = IF c <= k THEN c ELSE c - 1
      BY <2>4, <3>0
    <3>2. PICK y \in 1 .. n : u[d] = t[y] /\ y = IF d <= k THEN d ELSE d - 1
      BY <2>4, <3>0
    <3>3. x < y
      BY <1>5, <1>9, <2>4, <3>1, <3>2
    <3> QED
      BY <2>1, <3>1, <3>2, <3>3
  <2> QED
    BY <2>2, <2>3, <2>4
<1> QED
  BY <1>4, <1>5, <1>8, <1>9 DEF Ranged, u

(* The range of a group after one more instruction of the program.         *)
RangeNext(p, g, t, i) == IF p[i].group = g THEN InsertByMark(p, t, i) ELSE t

(* The range of a group before and after each instruction.                 *)
RangeRun(f, p, g) ==
    /\ GroupRange(p, g) = f[Len(p)]
    /\ f[0] = <<>>
    /\ \A i \in 1 .. Len(p) : f[i] = RangeNext(p, g, f[i - 1], i)

(* The loop over the instructions in BuildGroupIndexPool.                  *)
LEMMA RangeLoop ==
    ASSUME NEW p \in Seq(Instruction), NEW g
    PROVE  \E f : RangeRun(f, p, g)
<1> DEFINE n == Len(p)
           D == Seq(1 .. Len(p))
           step == [i \in 1 .. n |-> [t \in D |-> RangeNext(p, g, t, i)]]
           E(f) == f = [i \in 0 .. n |-> IF i = 0 THEN <<>>
                                         ELSE IF p[i].group = g THEN InsertByMark(p, f[i - 1], i)
                                         ELSE f[i - 1]]
<1>1. n \in Nat
  BY SlotFields
<1>2. <<>> \in D
  OBVIOUS
<1>3. step \in [1 .. n -> [D -> D]]
  <2>1. \A i \in 1 .. n : \A t \in D : RangeNext(p, g, t, i) \in D
    BY InsertType DEF RangeNext
  <2> HIDE DEF D, n
  <2> QED
    BY <2>1
<1>4. PICK f : Iteration(f, n, D, <<>>, step)
  <2> HIDE DEF n, D, step
  <2> QED
    BY <1>1, <1>2, <1>3, Iterates
<1>5. ASSUME NEW i \in 1 .. n PROVE f[i] = RangeNext(p, g, f[i - 1], i)
  <2> HIDE DEF D
  <2>1. i - 1 \in 0 .. n /\ f[i - 1] \in D
    BY <1>1, <1>4 DEF Iteration
  <2> QED
    BY <1>4, <2>1 DEF Iteration
<1>6. E(f)
  <2> HIDE DEF D
  <2>1. f = [i \in 0 .. n |-> f[i]]
    BY <1>4 DEF Iteration
  <2>2. \A i \in 0 .. n : f[i] = IF i = 0 THEN <<>>
                                 ELSE IF p[i].group = g THEN InsertByMark(p, f[i - 1], i)
                                 ELSE f[i - 1]
    BY <1>1, <1>4, <1>5 DEF Iteration, RangeNext
  <2> QED
    BY <2>1, <2>2, Zenon
<1> DEFINE c == CHOOSE h : E(h)
<1>7. E(c)
  BY <1>6, Zenon
<1>8. GroupRange(p, g) = c[n]
  BY DEF GroupRange
<1>9. c[0] = <<>> /\ \A i \in 1 .. n : c[i] = RangeNext(p, g, c[i - 1], i)
  <2> HIDE DEF c
  <2> QED
    BY <1>1, <1>7 DEF RangeNext
<1> HIDE DEF c, E
<1> QED
  BY <1>8, <1>9 DEF RangeRun

(* The range of a group holds its instructions in mark order.              *)
LEMMA RangeIsSorted ==
    ASSUME NEW p \in Seq(Instruction), NEW g
    PROVE  Ranged(p, g, Len(p), GroupRange(p, g))
<1>1. PICK f : RangeRun(f, p, g)
  BY RangeLoop, Zenon
<1> DEFINE n == Len(p)
           S == {i \in 0 .. n : Ranged(p, g, i, f[i])}
<1>2. n \in Nat
  BY SlotFields
<1>3. Ranged(p, g, 0, f[0])
  <2>1. f[0] = <<>> /\ <<>> \in Seq(1 .. Len(p)) /\ Len(<<>>) = 0
    BY <1>1 DEF RangeRun
  <2>2. ToSet(<<>>) = {}
    BY DEF ToSet
  <2> QED
    BY <2>1, <2>2 DEF Ranged
<1>4. ASSUME NEW i \in 1 .. n, Ranged(p, g, i - 1, f[i - 1])
      PROVE  Ranged(p, g, i, f[i])
  <2>1. f[i] = RangeNext(p, g, f[i - 1], i)
    BY <1>1 DEF RangeRun
  <2>2. CASE p[i].group = g
    BY <1>4, <2>1, <2>2, RangeStep DEF RangeNext
  <2>3. CASE p[i].group # g
    <3>1. f[i] = f[i - 1]
      BY <2>1, <2>3 DEF RangeNext
    <3>2. {k \in 1 .. i : p[k].group = g} = {k \in 1 .. i - 1 : p[k].group = g}
      BY <1>2, <2>3
    <3> QED
      BY <1>4, <3>1, <3>2 DEF Ranged
  <2> QED
    BY <2>2, <2>3
<1>5. Inductive(S, n) /\ n \in 0 .. n
  <2> HIDE DEF n
  <2> QED
    BY <1>2, <1>3, <1>4 DEF Inductive
<1>6. n \in S
  <2> HIDE DEF S, n
  <2> QED
    BY <1>2, <1>5, UpTo
<1>7. GroupRange(p, g) = f[n]
  BY <1>1 DEF RangeRun
<1> QED
  BY <1>6, <1>7

(* and each of them once.                                                  *)
LEMMA RangeSize ==
    ASSUME NEW p \in Seq(Instruction), NEW g
    PROVE  /\ GroupRange(p, g) \in Seq(1 .. Len(p))
           /\ ToSet(GroupRange(p, g)) = Members(p, g)
           /\ Len(GroupRange(p, g)) = Cardinality(Members(p, g))
           /\ Cardinality(Members(p, g)) \in Nat
           /\ IsFiniteSet(Members(p, g))
<1>1. PICK t : t = GroupRange(p, g)
  OBVIOUS
<1>2. Ranged(p, g, Len(p), t)
  BY <1>1, RangeIsSorted
<1>3. ToSet(t) = Members(p, g) /\ t \in Seq(1 .. Len(p))
  BY <1>2, SlotFields DEF Ranged, Members
<1>4. PICK n \in Nat : n = Len(t) /\ DOMAIN t = 1 .. n
  BY <1>3
<1>5. \A c \in 1 .. n : t[c] \in Members(p, g) /\ t[c] \in Nat /\ p[t[c]].mark \in Nat
  <2>1. \A c \in 1 .. n : t[c] \in ToSet(t) /\ t[c] \in 1 .. Len(p)
    BY <1>3, <1>4 DEF ToSet
  <2> QED
    BY <1>3, <2>1, SlotFields
<1>6. ASSUME NEW c \in 1 .. n, NEW d \in 1 .. n, c < d PROVE t[c] # t[d]
  <2>1. Earlier(p, t[c], t[d])
    BY <1>2, <1>4, <1>6 DEF Ranged
  <2> QED
    BY <1>5, <2>1 DEF Earlier
<1>7. t \in Bijection(1 .. n, Members(p, g))
  <2>1. t \in [1 .. n -> Members(p, g)]
    <3>1. t = [c \in 1 .. n |-> t[c]]
      BY <1>3, <1>4
    <3> QED
      BY <1>5, <3>1
  <2>2. \A c, d \in 1 .. n : t[c] = t[d] => c = d
    BY <1>6
  <2>3. \A k \in Members(p, g) : \E c \in 1 .. n : t[c] = k
    BY <1>3, <1>4 DEF ToSet
  <2> QED
    BY <2>1, <2>2, <2>3 DEF Bijection, Injection, Surjection, IsInjective
<1>8. ExistsBijection(1 .. n, Members(p, g))
  BY <1>7 DEF ExistsBijection
<1>9. IsFiniteSet(1 .. n) /\ Cardinality(1 .. n) = n
  BY FS_Interval
<1> QED
  BY <1>1, <1>3, <1>4, <1>8, <1>9, FS_Bijection

(* The pool before and after each group of the table.                      *)
PoolRun(f, p, table) ==
    /\ BuildGroupIndexPool(p, table).pool = f[Len(table)]
    /\ f[0] = <<>>
    /\ \A i \in 1 .. Len(table) : f[i] = f[i - 1] \o GroupRange(p, table[i])

(* The loop over the groups in BuildGroupIndexPool.                        *)
LEMMA PoolLoop ==
    ASSUME NEW p \in Seq(Instruction), NEW table \in Seq(GroupIds)
    PROVE  \E f : PoolRun(f, p, table)
<1> DEFINE n == Len(table)
           D == Seq(1 .. Len(p))
           step == [i \in 1 .. n |-> [q \in D |-> q \o GroupRange(p, table[i])]]
           E(f) == f = [i \in 0 .. n |-> IF i = 0 THEN <<>>
                                         ELSE f[i - 1] \o GroupRange(p, table[i])]
<1>1. n \in Nat
  OBVIOUS
<1>2. <<>> \in D
  OBVIOUS
<1>3. step \in [1 .. n -> [D -> D]]
  <2>1. ASSUME NEW i \in 1 .. n, NEW q \in D PROVE q \o GroupRange(p, table[i]) \in D
    BY RangeSize, ConcatProperties
  <2> HIDE DEF D, n
  <2> QED
    BY <2>1
<1>4. PICK f : Iteration(f, n, D, <<>>, step)
  <2> HIDE DEF n, D, step
  <2> QED
    BY <1>1, <1>2, <1>3, Iterates
<1>5. ASSUME NEW i \in 1 .. n PROVE f[i] = f[i - 1] \o GroupRange(p, table[i])
  <2> HIDE DEF D
  <2>1. i - 1 \in 0 .. n /\ f[i - 1] \in D
    BY <1>1, <1>4, SMTT(30) DEF Iteration
  <2> QED
    BY <1>4, <2>1 DEF Iteration
<1>6. E(f)
  <2> HIDE DEF D
  <2>1. f = [i \in 0 .. n |-> f[i]]
    BY <1>4 DEF Iteration
  <2>2. \A i \in 0 .. n : f[i] = IF i = 0 THEN <<>> ELSE f[i - 1] \o GroupRange(p, table[i])
    <3>1. f[0] = <<>>
      BY <1>4 DEF Iteration
    <3>2. \A i \in 0 .. n : i = 0 \/ (i # 0 /\ i \in 1 .. n)
      <4> HIDE DEF n
      <4> QED
        BY <1>1
    <3> HIDE DEF n, step
    <3> QED
      BY <1>5, <3>1, <3>2, Zenon
  <2> QED
    BY <2>1, <2>2, Zenon
<1> DEFINE c == CHOOSE h : E(h)
<1>7. E(c)
  BY <1>6, Zenon
<1>8. BuildGroupIndexPool(p, table).pool = c[n]
  BY DEF BuildGroupIndexPool
<1>9. c[0] = <<>> /\ \A i \in 1 .. n : c[i] = c[i - 1] \o GroupRange(p, table[i])
  <2> HIDE DEF c
  <2> QED
    BY <1>1, <1>7
<1> HIDE DEF c, E
<1> QED
  BY <1>8, <1>9 DEF PoolRun

(* The ranges of a table without doubles follow each other.                *)
LEMMA BeginNext ==
    ASSUME NEW p \in Seq(Instruction), NEW table \in Seq(GroupIds), NEW i \in 1 .. Len(table),
           \A j \in 1 .. i - 1 : table[j] # table[i]
    PROVE  /\ IndexBegin(p, table, i) \in Nat
           /\ IndexBegin(p, table, i + 1) =
                 IndexBegin(p, table, i) + Cardinality(Members(p, table[i]))
<1> DEFINE of(m) == {k \in DOMAIN p : \E h \in 1 .. (m - 1) : p[k].group = table[h]}
           M == Members(p, table[i])
<1>1. DOMAIN p = 1 .. Len(p) /\ Len(p) \in Nat /\ IsFiniteSet(DOMAIN p)
  BY SlotFields, FS_Interval
<1>2. IsFiniteSet(of(i)) /\ IsFiniteSet(M)
  <2>1. of(i) \in SUBSET DOMAIN p /\ M \in SUBSET DOMAIN p
    BY DEF Members
  <2> HIDE DEF of, M
  <2> QED
    BY <1>1, <2>1, FS_Subset
<1>3. of(i + 1) = of(i) \cup M
  <2>1. \A h \in 1 .. (i + 1) - 1 : h \in 1 .. i - 1 \/ h = i
    OBVIOUS
  <2>2. i \in 1 .. (i + 1) - 1 /\ 1 .. i - 1 \subseteq 1 .. (i + 1) - 1
    OBVIOUS
  <2> QED
    BY <2>1, <2>2 DEF Members
<1>4. of(i) \cap M = {}
  BY DEF Members
<1>5. Cardinality({}) = 0
  BY FS_EmptySet
<1>6. /\ IndexBegin(p, table, i) = Cardinality(of(i))
      /\ IndexBegin(p, table, i + 1) = Cardinality(of(i + 1))
  BY DEF IndexBegin
<1> HIDE DEF of, M
<1>7. Cardinality(of(i)) \in Nat /\ Cardinality(M) \in Nat
  BY <1>2, FS_CardinalityType
<1>8. Cardinality(of(i) \cup M) = Cardinality(of(i)) + Cardinality(M) - Cardinality({})
  BY <1>2, <1>4, FS_Union
<1>9. Cardinality(of(i + 1)) = Cardinality(of(i)) + Cardinality(M)
  <2>1. PICK a \in Nat : a = Cardinality(of(i))
    BY <1>7
  <2>2. PICK b \in Nat : b = Cardinality(M)
    BY <1>7
  <2>3. Cardinality(of(i + 1)) = a + b - 0
    BY <1>3, <1>5, <1>8, <2>1, <2>2, Zenon
  <2> QED
    BY <2>1, <2>2, <2>3
<1> QED
  BY <1>6, <1>7, <1>9 DEF M

(* The pool after i groups of the table: their ranges, each at its begin.  *)
Laid(p, table, i, q) ==
    /\ q \in Seq(1 .. Len(p))
    /\ Len(q) = IndexBegin(p, table, i + 1)
    /\ \A j \in 1 .. i : LET range == GroupRange(p, table[j])
                         IN  /\ IndexBegin(p, table, j) \in Nat
                             /\ IndexBegin(p, table, j) + Len(range) <= Len(q)
                             /\ \A c \in 1 .. Len(range) :
                                    q[IndexBegin(p, table, j) + c] = range[c]

(* The range of the next group is laid behind the others.                  *)
LEMMA PoolStep ==
    ASSUME NEW p \in Seq(Instruction), NEW table \in Seq(GroupIds), NEW i \in 1 .. Len(table),
           \A j \in 1 .. i - 1 : table[j] # table[i], NEW q, Laid(p, table, i - 1, q)
    PROVE  Laid(p, table, i, q \o GroupRange(p, table[i]))
<1>1. PICK r : r = GroupRange(p, table[i])
  OBVIOUS
<1>2. PICK u : u = q \o r
  OBVIOUS
<1>3. PICK m : m = Len(q)
  OBVIOUS
<1>4. PICK l : l = Len(r)
  OBVIOUS
<1>5. /\ q \in Seq(1 .. Len(p)) /\ m = IndexBegin(p, table, (i - 1) + 1)
      /\ r \in Seq(1 .. Len(p)) /\ l = Cardinality(Members(p, table[i]))
  BY <1>1, <1>3, <1>4, RangeSize DEF Laid
<1>6. m \in Nat /\ l \in Nat
  <2>1. Len(q) \in Nat /\ Len(r) \in Nat
    BY <1>5, LenProperties
  <2> QED
    BY <1>3, <1>4, <2>1, Zenon
<1>7. (i - 1) + 1 = i
  OBVIOUS
<1>8. m = IndexBegin(p, table, i) /\ m + l = IndexBegin(p, table, i + 1)
  BY <1>5, <1>7, BeginNext
<1>9. /\ u \in Seq(1 .. Len(p)) /\ Len(u) = m + l
      /\ \A x \in 1 .. m + l : u[x] = IF x <= m THEN q[x] ELSE r[x - m]
  <2>1. PICK D : D = 1 .. Len(p)
    OBVIOUS
  <2>2. q \in Seq(D) /\ r \in Seq(D)
    BY <1>5, <2>1, Zenon
  <2>3. /\ q \o r \in Seq(D) /\ Len(q \o r) = Len(q) + Len(r)
        /\ \A x \in 1 .. Len(q) + Len(r) :
               (q \o r)[x] = IF x <= Len(q) THEN q[x] ELSE r[x - Len(q)]
    BY <2>2, ConcatProperties
  <2> QED
    BY <1>2, <1>3, <1>4, <2>1, <2>3, Zenon
<1>10. ASSUME NEW j \in 1 .. i
       PROVE  /\ IndexBegin(p, table, j) \in Nat
              /\ IndexBegin(p, table, j) + Len(GroupRange(p, table[j])) <= m + l
              /\ \A c \in 1 .. Len(GroupRange(p, table[j])) :
                     u[IndexBegin(p, table, j) + c] = GroupRange(p, table[j])[c]
  <2>1. CASE j = i
    <3>1. ASSUME NEW c \in 1 .. l PROVE u[m + c] = r[c]
      <4>1. m + c \in 1 .. m + l /\ ~(m + c <= m) /\ (m + c) - m = c
        BY <1>6
      <4> QED
        BY <1>9, <4>1
    <3> QED
      BY <1>1, <1>4, <1>6, <1>8, <2>1, <3>1
  <2>2. CASE j \in 1 .. i - 1
    <3>1. PICK b : b = IndexBegin(p, table, j)
      OBVIOUS
    <3>2. PICK s : s = GroupRange(p, table[j])
      OBVIOUS
    <3>3. s \in Seq(1 .. Len(p))
      BY <3>2, RangeSize
    <3>4. b \in Nat /\ b + Len(s) <= m /\ \A c \in 1 .. Len(s) : q[b + c] = s[c]
      BY <1>3, <2>2, <3>1, <3>2 DEF Laid
    <3>5. Len(s) \in Nat
      BY <3>3
    <3>6. ASSUME NEW c \in 1 .. Len(s) PROVE u[b + c] = s[c]
      <4>1. b + c \in 1 .. m + l /\ b + c <= m
        BY <1>6, <3>4, <3>5
      <4> QED
        BY <1>9, <3>4, <4>1
    <3>7. b + Len(s) <= m + l
      BY <1>6, <3>4, <3>5
    <3> QED
      BY <3>1, <3>2, <3>4, <3>6, <3>7
  <2> QED
    BY <2>1, <2>2
<1>11. Laid(p, table, i, u)
  BY <1>8, <1>9, <1>10 DEF Laid
<1> QED
  BY <1>1, <1>2, <1>11

(* The pool holds every range at its begin.                                *)
LEMMA PoolIsLaid ==
    ASSUME NEW p \in Seq(Instruction), NEW table \in Seq(GroupIds),
           \A i, j \in 1 .. Len(table) : i < j => table[i] # table[j]
    PROVE  Laid(p, table, Len(table), BuildGroupIndexPool(p, table).pool)
<1>1. PICK f : PoolRun(f, p, table)
  BY PoolLoop, Zenon
<1> DEFINE n == Len(table)
           S == {i \in 0 .. n : Laid(p, table, i, f[i])}
<1>2. n \in Nat
  OBVIOUS
<1>3. Laid(p, table, 0, f[0])
  <2>1. f[0] = <<>> /\ <<>> \in Seq(1 .. Len(p)) /\ Len(<<>>) = 0
    BY <1>1 DEF PoolRun
  <2>2. {k \in DOMAIN p : \E h \in 1 .. (0 + 1) - 1 : p[k].group = table[h]} = {}
    OBVIOUS
  <2>3. IndexBegin(p, table, 0 + 1) = 0
    BY <2>2, FS_EmptySet DEF IndexBegin
  <2> QED
    BY <2>1, <2>3 DEF Laid
<1>4. ASSUME NEW i \in 1 .. n, Laid(p, table, i - 1, f[i - 1])
      PROVE  Laid(p, table, i, f[i])
  <2>1. f[i] = f[i - 1] \o GroupRange(p, table[i])
    BY <1>1 DEF PoolRun
  <2>2. \A j \in 1 .. i - 1 : table[j] # table[i]
    BY <1>2
  <2> QED
    BY <1>4, <2>1, <2>2, PoolStep
<1>5. Inductive(S, n) /\ n \in 0 .. n
  <2> HIDE DEF n
  <2> QED
    BY <1>2, <1>3, <1>4 DEF Inductive
<1>6. n \in S
  <2> HIDE DEF S, n
  <2> QED
    BY <1>2, <1>5, UpTo
<1>7. BuildGroupIndexPool(p, table).pool = f[n]
  BY <1>1 DEF PoolRun
<1> QED
  BY <1>6, <1>7

(* BuildGroupIndexPool: the cursor of each group walks exactly the group's *)
(* instructions, by mark and then in insertion order, and no two ranges    *)
(* overlap, for programs of every length that the controller can store.    *)
THEOREM PoolIsSorted == Spec => []PoolIsStableMarkOrder
<1>1. ProgramInv => PoolIsStableMarkOrder
  <2> SUFFICES ASSUME ProgramInv PROVE PoolIsStableMarkOrder
    OBVIOUS
  <2>1. program \in Seq(Instruction) /\ Len(program) < MaxGroups
    BY BoundAssumption, EnumerationAssumption, SlotFields DEF ProgramInv
  <2>2. Table \in Seq(GroupIds) /\ ToSet(Table) = Labels(program)
    BY <2>1, TableHoldsLabels DEF Table
  <2>3. PICK table \in Seq(GroupIds) : table = Table
    BY <2>2
  <2>4. PICK n \in Nat : n = Len(table) /\ DOMAIN table = 1 .. n
    OBVIOUS
  <2>5. \A i, j \in 1 .. n : i < j => table[i] # table[j]
    <3>1. Ordered(program, Len(program), table)
      BY <2>1, <2>3, TableIsOrdered DEF Table
    <3>2. SUFFICES ASSUME NEW i \in 1 .. n, NEW j \in 1 .. n, i < j PROVE table[i] # table[j]
      OBVIOUS
    <3>3. j \in 2 .. n /\ (i = 1 \/ i \in 2 .. n)
      BY <3>2
    <3>4. /\ table[1] = Root /\ table[j] # Root /\ FirstSlot(program, table[j]) \in Nat
          /\ i \in 2 .. n => FirstSlot(program, table[i]) < FirstSlot(program, table[j])
      BY <2>1, <2>4, <3>1, <3>2, <3>3 DEF Ordered
    <3> QED
      BY <3>3, <3>4
  <2>6. PICK index : index = BuildGroupIndexPool(program, table)
    OBVIOUS
  <2>7. Laid(program, table, n, index.pool)
    BY <2>1, <2>4, <2>5, <2>6, PoolIsLaid
  <2>8. index.begin = [i \in DOMAIN table |-> IndexBegin(program, table, i)]
    BY <2>6 DEF BuildGroupIndexPool
  <2>9. Len(index.pool) = Len(program)
    <3>1. {k \in DOMAIN program : \E h \in 1 .. (n + 1) - 1 : program[k].group = table[h]}
             = 1 .. Len(program)
      <4>1. DOMAIN program = 1 .. Len(program)
        BY <2>1
      <4>2. ASSUME NEW k \in DOMAIN program
            PROVE  \E h \in 1 .. (n + 1) - 1 : program[k].group = table[h]
        <5>1. program[k].group \in ToSet(table)
          BY <2>2, <2>3 DEF Labels
        <5>2. PICK h \in 1 .. n : program[k].group = table[h]
          BY <2>4, <5>1 DEF ToSet
        <5> QED
          BY <5>2
      <4> QED
        BY <4>1, <4>2
    <3>2. IndexBegin(program, table, n + 1) = Cardinality(1 .. Len(program))
      BY <3>1 DEF IndexBegin
    <3>3. Len(program) \in Nat
      BY <2>1
    <3>4. Cardinality(1 .. Len(program)) = Len(program)
      <4>1. PICK N \in Nat : N = Len(program)
        BY <3>3
      <4>2. Cardinality(1 .. N) = N
        BY FS_Interval
      <4> QED
        BY <4>1, <4>2, Zenon
    <3> QED
      BY <2>7, <3>2, <3>4 DEF Laid
  <2> DEFINE Walk(i) == [c \in 1 .. Cardinality(Members(program, Table[i])) |->
                            index.pool[index.begin[i] + c]]
  <2>10. ASSUME NEW i \in DOMAIN Table
         PROVE  /\ ToSet(Walk(i)) = Members(program, Table[i])
                /\ \A c, d \in DOMAIN Walk(i) :
                       c < d => Earlier(program, Walk(i)[c], Walk(i)[d])
    <3>1. i \in 1 .. n /\ index.begin[i] = IndexBegin(program, table, i)
      BY <2>3, <2>4, <2>8
    <3>2. PICK range : range = GroupRange(program, table[i])
      OBVIOUS
    <3>3. /\ range \in Seq(1 .. Len(program)) /\ ToSet(range) = Members(program, table[i])
          /\ Len(range) = Cardinality(Members(program, table[i]))
      BY <2>1, <3>2, RangeSize
    <3>4. Ranged(program, table[i], Len(program), range)
      BY <2>1, <3>2, RangeIsSorted
    <3>5. \A c \in 1 .. Len(range) : index.pool[index.begin[i] + c] = range[c]
      BY <2>7, <3>1, <3>2 DEF Laid
    <3>6. Walk(i) = [c \in 1 .. Len(range) |-> range[c]]
      BY <2>3, <3>3, <3>5
    <3>7. range = [c \in 1 .. Len(range) |-> range[c]] /\ DOMAIN range = 1 .. Len(range)
      BY <3>3
    <3>8. Walk(i) = range
      BY <3>6, <3>7
    <3> HIDE DEF Walk
    <3> QED
      BY <2>3, <3>3, <3>4, <3>7, <3>8 DEF Ranged
  <2> HIDE DEF Walk
  <2>11. /\ Len(index.pool) = Len(program)
         /\ \A i \in DOMAIN Table :
               /\ ToSet(Walk(i)) = Members(program, Table[i])
               /\ \A c, d \in DOMAIN Walk(i) :
                      c < d => Earlier(program, Walk(i)[c], Walk(i)[d])
    BY <2>9, <2>10
  <2> QED
    BY <2>3, <2>6, <2>11, Zenon DEF PoolIsStableMarkOrder, Walk
<1> QED
  BY <1>1, ProgramIsStored, PTL

(* BuildAndValidateGroups accepts exactly the programs whose calls resolve *)
(* and do not come back to themselves and whose repeated groups can take   *)
(* time, for programs of every length that the controller can store.       *)
THEOREM AcceptsWellFormed == Spec => []AcceptsExactlyWellFormed
<1>1. ProgramInv => AcceptsExactlyWellFormed
  BY EnumerationAssumption, PreflightIsExact DEF ProgramInv, AcceptsExactlyWellFormed
<1> QED
  BY <1>1, ProgramIsStored, PTL
=============================================================================
