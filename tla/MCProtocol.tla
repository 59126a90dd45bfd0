----------------------------- MODULE MCProtocol -----------------------------
(***************************************************************************)
(* Setups of Protocol for TLC.  With bytes of two bits the tags, lengths,  *)
(* data and checksums all can be the sync byte, which is 2 here.           *)
(***************************************************************************)
EXTENDS Protocol

Frames(tags, bytes, lengths) ==
    {[tag |-> t, data |-> d] : t \in tags, d \in UNION {[1 .. n -> bytes] : n \in lengths}}

AllDamage == {"changed", "lost", "cut"}

\* An undamaged line and nothing to send, with one frame the handlers miss
Quiet ==
    [frame_timeout |-> 0, periodic |-> FALSE, frames |-> Frames({0, 2}, {2}, {0, 2}),
     pause |-> 0, damage |-> {}, tags |-> {1, 2}, requests |-> {},
     max_sent |-> 2, max_write_errors |-> 0]

\* A stream whose frames are full of sync bytes, one of them damaged
Noise == [Quiet EXCEPT !.frames = Frames({0, 2}, {2}, {1}), !.damage = AllDamage,
                       !.tags = {}]

\* No frame holds the sync byte inside, until one is damaged
Clear == [Quiet EXCEPT !.frames = Frames({1}, {3}, {1}), !.damage = AllDamage,
                       !.tags = {}, !.max_sent = 3]

\* A peer that pauses between its frames, and an engine that times them out
Paused == [Quiet EXCEPT !.frames = Frames({2}, {2}, {1}), !.damage = AllDamage,
                        !.tags = {}, !.periodic = TRUE, !.frame_timeout = 2, !.pause = 6]

\* The application sends while frames are echoed and writes fail
Transmit ==
    [Quiet EXCEPT !.frames = Frames({0}, {2}, {1}), !.tags = {}, !.max_sent = 1,
                  !.periodic = TRUE, !.max_write_errors = 2,
                  !.requests = {[tag |-> 1, data |-> <<>>, length |-> 0],
                                [tag |-> 2, data |-> <<3, 1>>, length |-> 2]}]

\* The firmware: Run is called when bytes were received, and only then
OnEvent == [Quiet EXCEPT !.frames = Frames({0}, {2}, {1}), !.tags = {},
                         !.max_write_errors = 1]

\* Requests that no frame can carry: data missing, and too long
Unsendable ==
    [Quiet EXCEPT !.frames = {}, !.tags = {}, !.max_sent = 0, !.periodic = TRUE,
                  !.requests = {[tag |-> 1, data |-> NoData, length |-> 1],
                                [tag |-> 1, data |-> <<1, 2, 3>>,
                                 length |-> kMaxFrameDataLength + 1]}]

HurtSetups == {Noise, Clear, Paused}

SoundSetups == {Quiet, Transmit}

OnEventSetups == {OnEvent}

UnsendableSetups == {Unsendable}
=============================================================================
