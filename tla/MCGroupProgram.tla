--------------------------- MODULE MCGroupProgram ---------------------------
(***************************************************************************)
(* Enumerates every program of at most MaxInstructions instructions over a *)
(* small alphabet and compares the preflight of Controller::Start with its *)
(* contract.                                                               *)
(***************************************************************************)
EXTENDS GroupProgram

CONSTANTS RootRepeats

\* kMaxGroups is kMaxInstructions + 1; the alphabets use marks, durations and
\* repeats up to 1
ASSUME EnumerationAssumption ==
    MaxInstructions < MaxGroups /\ MaxMark >= 1 /\ MaxDuration >= 1

VARIABLES family,    \* the alphabet of the program and its greatest length
          program

LabelSymmetry == Permutations(GroupIds \ {Root})

Plain(g, m) == [group |-> g, mark |-> m, op |-> "set", target |-> Root,
                repeats |-> 0, duration |-> 0, led |-> TRUE]

Timed(g, m, d) == [Plain(g, m) EXCEPT !.op = "fade", !.duration = d]

Call(g, m, t, r) ==
    [Plain(g, m) EXCEPT !.op = "run", !.target = t, !.repeats = r]

\* Long programs, for chains and cycles of calls
Chains == [length |-> MaxInstructions, marks |-> {1}, durations |-> {}, repeats |-> {1}]

\* Short programs, for every order of marks and every kind of boundary
Orders == [length |-> MaxInstructions - 1, marks |-> 0 .. MaxMark, durations |-> {0, 1},
           repeats |-> {0, 1}]

Alphabet ==
    {Plain(g, m) : g \in GroupIds, m \in family.marks}
      \cup {Timed(g, 0, d) : g \in GroupIds, d \in family.durations}
      \cup {Call(g, 0, t, r) : g \in GroupIds, t \in GroupIds, r \in family.repeats}

Init == family \in {Chains, Orders} /\ program = <<>>

Next == /\ Len(program) < family.length
        /\ \E instr \in Alphabet : program' = Append(program, instr)
        /\ UNCHANGED family

Spec == Init /\ [][Next]_<<family, program>>

-----------------------------------------------------------------------------
Table == BuildGroupTable(program).table

(* BuildGroupTable: the table names every label of the program once, the   *)
(* root first and the others in order of first appearance, and the table   *)
(* never overflows while kMaxGroups = kMaxInstructions + 1.                *)
TableHoldsEveryLabelInOrder ==
    /\ BuildGroupTable(program).status = "kSuccess"
    /\ ToSet(Table) = Labels(program)
    /\ \A i, j \in DOMAIN Table : i < j => Before(program, Table[i], Table[j])

(* BuildGroupIndexPool: the cursor of a group walks exactly the group's    *)
(* instructions, by mark and, for equal marks, in insertion order, and no  *)
(* group's range overlaps another's.                                       *)
PoolIsStableMarkOrder ==
    LET index == BuildGroupIndexPool(program, Table)
        Walk(i) == [c \in 1 .. Cardinality(Members(program, Table[i])) |->
                       index.pool[index.begin[i] + c]]
    IN  /\ Len(index.pool) = Len(program)
        /\ \A i \in DOMAIN Table :
             /\ ToSet(Walk(i)) = Members(program, Table[i])
             /\ \A c, d \in DOMAIN Walk(i) :
                  c < d => Earlier(program, Walk(i)[c], Walk(i)[d])

-----------------------------------------------------------------------------
(* BuildAndValidateGroups accepts exactly the programs whose calls resolve, *)
(* whose call graph has no cycle and whose repeated groups, the root        *)
(* included, can spend positive time in a pass.                             *)
AcceptsExactlyWellFormed ==
    \A r \in RootRepeats :
        (BuildAndValidateGroups(program, r) = "kSuccess") <=> WellFormed(program, r)
=============================================================================
