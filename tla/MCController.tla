---------------------------- MODULE MCController ----------------------------
(***************************************************************************)
(* Instances of Controller for TLC: the instructions callers may offer are *)
(* built from small sets of marks, repeat counts and durations.            *)
(***************************************************************************)
EXTENDS ControllerRefinement

CONSTANTS PlainMarks, CallMarks, CallRepeats, TimedOps, TimedMarks, Durations,
          LedPresent, UnsupportedOps

Plain(g, m) == [group |-> g, mark |-> m, op |-> "set", target |-> Root,
                repeats |-> 0, duration |-> 0, led |-> TRUE]

RunGroupCall(g, m, t, r) ==
    [Plain(g, m) EXCEPT !.op = "run", !.target = t, !.repeats = r]

Timed(g, m, o, d, l) ==
    [Plain(g, m) EXCEPT !.op = o, !.duration = d, !.led = l]

Offered ==
    {Plain(g, m) : g \in GroupIds, m \in PlainMarks}
      \cup {RunGroupCall(g, m, t, r) : g \in GroupIds, m \in CallMarks,
                                       t \in GroupIds, r \in CallRepeats}
      \cup {Timed(g, m, o, d, l) : g \in GroupIds, m \in TimedMarks, o \in TimedOps,
                                   d \in Durations, l \in LedPresent}
      \cup {[Plain(Root, 0) EXCEPT !.op = o] : o \in UnsupportedOps}

LabelSymmetry == Permutations(GroupIds \ {Root})
=============================================================================
