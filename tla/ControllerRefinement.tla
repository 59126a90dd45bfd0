------------------------ MODULE ControllerRefinement ------------------------
(***************************************************************************)
(* The controller implements the program lifecycle: the outstanding work   *)
(* is what the cursors of the active groups have not passed, and the timed *)
(* instructions in the executing list.                                     *)
(***************************************************************************)
EXTENDS Controller

OpenWork == {k \in DOMAIN instructions :
                IsActive(instructions[k].group) /\ Outstanding(k)}

Lifecycle == INSTANCE ProgramLifecycle WITH
    Groups  <- GroupIds,
    Offers  <- Instructions,
    program <- instructions,
    work    <- OpenWork

\* Every step of the controller is a step of the lifecycle or none: Run loses,
\* doubles or invents no instruction whatever the groups, repeats, conflicts and
\* aborts, and completes the program only when nothing is left to do
\* (controller.cpp:374-660).
ImplementsLifecycle == Lifecycle!Spec
=============================================================================
