-------------------------- MODULE ProgramLifecycle --------------------------
(***************************************************************************)
(* What the controller promises its callers about a program, without time, *)
(* runtimes and the loops of Run: a program grows while it is editable and *)
(* is never changed after that until it is reset; once started, each of    *)
(* its instructions is outstanding until it is finished; a call puts the   *)
(* whole target group on the list, a finished group may come back as a     *)
(* whole; and the program is complete when nothing is outstanding.         *)
(***************************************************************************)
EXTENDS Naturals, Sequences

CONSTANTS Root, Groups, Offers

VARIABLES state, program, work

lifecycleVars == <<state, program, work>>

Of(g) == {k \in DOMAIN program : program[k].group = g}

IsCallOf(k, g) == program[k].op = "run" /\ program[k].target = g

Init == state = "kEditable" /\ program = <<>> /\ work = {}

Edit ==
    /\ state = "kEditable"
    /\ \E instr \in Offers : program' = Append(program, instr)
    /\ UNCHANGED <<state, work>>

\* A started program has its root group to do, an empty one is complete
Begin ==
    /\ state # "kActive"
    /\ state' = IF Of(Root) = {} THEN "kCompleted" ELSE "kActive"
    /\ work' = Of(Root)
    /\ UNCHANGED program

Finish(k) ==
    /\ state = "kActive"
    /\ work' = work \ {k}
    /\ UNCHANGED <<state, program>>

\* The target has nothing outstanding, so no instruction is started twice
Launch(k, g) ==
    /\ state = "kActive"
    /\ g # Root
    /\ IsCallOf(k, g)
    /\ Of(g) \cap work = {}
    /\ work' = (work \ {k}) \cup Of(g)
    /\ UNCHANGED <<state, program>>

\* A group comes back when it has finished and its call has been made, the root
\* when everything has
Repeat(g) ==
    /\ state = "kActive"
    /\ Of(g) \cap work = {}
    /\ IF g = Root THEN work = {} ELSE \E k \in DOMAIN program \ work : IsCallOf(k, g)
    /\ work' = work \cup Of(g)
    /\ UNCHANGED <<state, program>>

Complete ==
    /\ state = "kActive"
    /\ work = {}
    /\ state' = "kCompleted"
    /\ UNCHANGED <<program, work>>

Reset ==
    /\ state' = "kEditable"
    /\ program' = <<>>
    /\ work' = {}

Next ==
    \/ Edit \/ Begin \/ Complete \/ Reset
    \/ \E k \in work : Finish(k) \/ \E g \in Groups : Launch(k, g)
    \/ \E g \in Groups : Repeat(g)

Spec == Init /\ [][Next]_lifecycleVars
=============================================================================
