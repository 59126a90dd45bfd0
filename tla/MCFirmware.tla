----------------------------- MODULE MCFirmware -----------------------------
(***************************************************************************)
(* Instances of Firmware: a strip of two pixels, two default colours, and  *)
(* hosts that program the strip while the default program or a program of  *)
(* theirs is still running.                                                *)
(***************************************************************************)
EXTENDS Firmware

Add(index, color, mark) ==
    [cmd |-> "add", number |-> 0, write |-> [index |-> index, color |-> color, mark |-> mark]]

Reset == [cmd |-> "reset", number |-> 0]

StartAs(n) == [cmd |-> "start", number |-> n]

RedYellow == <<"red", "yellow">>

\* Two programs, the second one while the first may be waiting for its mark
TwoPrograms ==
    <<Reset, Add(0, "blue", 1), Add(1, "green", 0), StartAs(4),
      Reset, Add(0, "white", 0), StartAs(7)>>

\* A program with two marks and a pixel beyond the strip, and commands that come
\* while it runs or when it is complete: one more write and another start
OneProgram ==
    <<Reset, Add(0, "blue", 0), Add(5, "green", 1), StartAs(4), Add(1, "white", 0),
      StartAs(6)>>

\* One instruction more than the controller stores: it fits the mailbox all the same
TooLong == <<Reset, Add(0, "blue", 1), Add(1, "green", 0), Add(0, "white", 0), StartAs(5)>>

\* No task goes before the other, and devices fail
Anyhow == [script |-> OneProgram, patient |-> FALSE, preempts |-> FALSE, blocks |-> TRUE,
           faults |-> TRUE]

\* The HW task has the higher priority; writing the strip blocks it or does not
Preempted(blocks) ==
    [Anyhow EXCEPT !.script = TwoPrograms, !.preempts = TRUE, !.blocks = blocks,
                   !.faults = FALSE]

\* A host that waits for the boot and then sends at once
Burst == [Anyhow EXCEPT !.script = TwoPrograms, !.patient = TRUE, !.faults = FALSE]

Overlong == [Burst EXCEPT !.script = TooLong]

AllSetups == {Anyhow, Preempted(TRUE), Preempted(FALSE), Burst, Overlong}
=============================================================================
