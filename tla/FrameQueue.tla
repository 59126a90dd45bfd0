----------------------------- MODULE FrameQueue -----------------------------
(***************************************************************************)
(* What the protocol engine promises on an undamaged line: every frame the *)
(* peer sends is taken off the line exactly once and in order, and goes to *)
(* the handler registered for its tag at that moment, or to nobody when    *)
(* there is none.                                                          *)
(***************************************************************************)
EXTENDS Integers, Sequences

CONSTANTS Frames, Tags, Loopback, NoHandler

VARIABLES
    sent,        \* the frames sent so far
    taken,       \* what became of them: [frame, handler]
    handler      \* who takes the frames of a tag

queueVars == <<sent, taken, handler>>

Init ==
    /\ sent = <<>>
    /\ taken = <<>>
    /\ handler = [tag \in Tags |-> IF tag = Loopback THEN "LoopbackImpl" ELSE NoHandler]

Submit == \E frame \in Frames :
    /\ sent' = Append(sent, frame)
    /\ UNCHANGED <<taken, handler>>

\* A handler is never replaced
Register == \E tag \in Tags :
    /\ handler[tag] = NoHandler
    /\ handler' = [handler EXCEPT ![tag] = "application"]
    /\ UNCHANGED <<sent, taken>>

Take ==
    /\ Len(taken) < Len(sent)
    /\ LET frame == sent[Len(taken) + 1]
       IN  taken' = Append(taken, [frame |-> frame, handler |-> handler[frame.tag]])
    /\ UNCHANGED <<sent, handler>>

Next == Submit \/ Register \/ Take

Safety == Init /\ [][Next]_queueVars

Spec == Safety /\ WF_queueVars(Take)
=============================================================================
