------------------------------ MODULE Effects ------------------------------
(***************************************************************************)
(* The instructions that write colours (app/controller/instructions): set  *)
(* colour, set a range, their HSV forms, Fade and Gradient, executed in a  *)
(* loop on the staged frame of a strip.  The controller is here only what  *)
(* it promises its instructions: it runs one when it is due or up to       *)
(* MaxLate later, hands it one timestamp for the run, and resets the       *)
(* replay state when the pass starts over.  Timestamps are modulo Clock,   *)
(* which stands for 2^32.                                                  *)
(***************************************************************************)
EXTENDS Oklab

CONSTANTS
    Scenes,
    \* Scenes is a set of programs and of what is around them:
    \*   program   sequence of instructions, repeated forever
    \*   leds      pixels of the strip
    \*   palette   colours of the frame at the start
    \*   writers   colours other instructions write over the frame
    \*   refresh   the refresh period
    \*   clock     timestamps are modulo this, 2^32 in the code
    \*   boots     timestamps at the start
    \*   late      how late a run may come
    HueTolerance,       \* how far a hue may come back from where it was
    WideSpread,         \* difference of channels from which a hue is precise
    GrayTolerance,      \* codes by which the channels of a grey sample may differ
    LightTolerance      \* Q0.16 linear light a gradient to the same colour may lose

Byte == 0 .. 255

Colors == [red : Byte, green : Byte, blue : Byte]

HsvColors == [h : Byte, s : Byte, v : Byte]

\* A program of well-typed instructions.  Durations have 16 bits and timestamps 32,
\* so a run would have to come weeks late to see the time since the start wrap.
ASSUME EffectsAssumption ==
    \A sc \in Scenes :
        /\ Len(sc.program) \in Nat \ {0} /\ DOMAIN sc.program = 1 .. Len(sc.program)
        /\ sc.leds \in Nat \ {0} /\ sc.refresh \in Nat \ {0}
        /\ sc.clock \in Nat \ {0} /\ sc.late \in Nat /\ sc.boots \subseteq 0 .. sc.clock - 1
        /\ sc.palette \subseteq Colors /\ sc.writers \subseteq Colors
        /\ \A i \in DOMAIN sc.program :
             LET ins == sc.program[i]
             IN  /\ ins.op = "set" => ins.color \in Colors
                 /\ ins.op = "set_hsv" => ins.color \in HsvColors
                 /\ ins.op = "gradient" => ins.target \in Colors
                 /\ ins.op = "fade" => ins.percent \in Nat
                 /\ ins.op \in {"fade", "gradient"} =>
                      ins.duration_ms \in Nat /\ ins.duration_ms + sc.late < sc.clock

VARIABLES scene,    \* the member of Scenes that is played, never changed
          staged,   \* logical colour of every pixel, as Strip::Led(i)->Color()
          state,    \* replay state of every instruction
          at,       \* the instruction that runs
          due,      \* milliseconds until it is due again
          now,      \* timestamp of the last run
          track,    \* history: colour the effect started from, colour it wrote
                    \*   last, milliseconds since it started
          done,     \* history: the instruction the last step completed, or 0
          ends      \* history: the frame that ended the last pass

vars == <<scene, staged, state, at, due, now, track, done, ends>>

Program == scene.program

RefreshPeriod == scene.refresh

Clock == scene.clock

Leds == 0 .. scene.leds - 1

Black == RgbColor(0, 0, 0)

NoLab == [l |-> 0, a |-> 0, b |-> 0]

\* The transient members of Fade and of Gradient, as ResetForReplay leaves them
ResetForReplay ==
    [started_ |-> FALSE, start_time_ |-> 0, start_color_ |-> Black, start_value_ |-> 0,
     target_value_ |-> 0, source_ |-> NoLab, target_ |-> NoLab]

Init ==
    /\ scene \in Scenes
    /\ staged \in [Leds -> scene.palette]
    /\ state = [i \in DOMAIN Program |-> ResetForReplay]
    /\ at = 1 /\ due = 0 /\ done = 0 /\ ends = <<>>
    /\ now \in scene.boots
    /\ track = [origin |-> Black, last |-> Black, age |-> 0]
-----------------------------------------------------------------------------
(* The arithmetic of fade.cpp *)

StartValue(c) == Max(Channels(c))

TargetValue(start_value, percent) == Min({(start_value * percent + 50) \div 100, 255})

\* Mutant: the change is taken from the target, so the fade runs backwards
InterpolateFromTarget(start, target, elapsed, duration) ==
    LET change == (Abs(target - start) * elapsed + duration \div 2) \div duration
    IN  U8(IF target >= start THEN target - change ELSE target + change)

InterpolateValue(start, target, elapsed, duration) ==
    LET change == (Abs(target - start) * elapsed + duration \div 2) \div duration
    IN  U8(IF target >= start THEN start + change ELSE start - change)

\* Mutant: channels are cut off instead of rounded
ScaleRgbColorDown(start, value, start_value) ==
    IF start_value = 0 THEN Black
    ELSE [c \in DOMAIN start |-> U8((start[c] * value) \div start_value)]

ScaleRgbColor(start, value, start_value) ==
    IF start_value = 0 THEN Black
    ELSE [c \in DOMAIN start |->
             U8((start[c] * value + start_value \div 2) \div start_value)]

\* Time to the next point of the refresh grid, or to the end when that is nearer.
\* Fades share the grid of the timestamp, a gradient has one from its own start.
DelayToUpdate(phase_time, remaining_ms) ==
    Min({remaining_ms, RefreshPeriod - (phase_time % RefreshPeriod)})
-----------------------------------------------------------------------------
(* Execute of each instruction, run `late` milliseconds after it was due *)

Op == Program[at].op

Timestamp(late) == (now + due + late) % Clock

Elapsed(t) == (t - state[at].start_time_) % Clock

\* Strip::Led: no pixel beyond the end of the strip
OutOfRange == Op \in {"fade", "gradient"} /\ Program[at].index \notin Leds

\* The run ends with the instruction complete: the next one is due, and a new
\* pass resets the replay state of all
Completes(frame) ==
    /\ staged' = frame
    /\ at' = (at % Len(Program)) + 1
    /\ due' = 0
    /\ done' = at
    /\ UNCHANGED scene
    /\ IF at = Len(Program)
       THEN /\ state' = [i \in DOMAIN Program |-> ResetForReplay]
            /\ ends' = <<frame>>
       ELSE UNCHANGED <<state, ends>>

\* The run returns a delay and is called again after it
Yields(frame, delay) ==
    /\ staged' = frame
    /\ due' = delay
    /\ done' = 0
    /\ UNCHANGED <<scene, at, ends>>

\* SetSingleColor and SetMultipleColor, given as RGB or as HSV.  A range is open
\* at its end, and what lies beyond the strip is skipped.
ExecuteSet(late) ==
    LET ins   == Program[at]
        color == IF Op = "set_hsv" THEN HsvToRgb(ins.color) ELSE ins.color
    IN  /\ Op \in {"set", "set_hsv"}
        /\ now' = Timestamp(late)
        /\ Completes([i \in Leds |-> IF i \in ins.start .. ins.end - 1 THEN color ELSE staged[i]])
        /\ UNCHANGED track

ExecuteOutOfRange(late) ==
    /\ OutOfRange
    /\ now' = Timestamp(late)
    /\ Completes(staged)
    /\ UNCHANGED track

StartFade(late) ==
    LET ins   == Program[at]
        t     == Timestamp(late)
        color == staged[ins.index]
        value == StartValue(color)
        goal  == TargetValue(value, ins.percent)
    IN  /\ Op = "fade" /\ ~OutOfRange /\ ~state[at].started_
        /\ now' = t
        /\ IF ins.duration_ms = 0
           THEN Completes([staged EXCEPT ![ins.index] = ScaleRgbColor(color, goal, value)])
           ELSE /\ Yields(staged, DelayToUpdate(t, ins.duration_ms))
                /\ state' = [state EXCEPT ![at] =
                       [@ EXCEPT !.started_ = TRUE, !.start_time_ = t, !.start_color_ = color,
                                 !.start_value_ = value, !.target_value_ = goal]]
        /\ track' = [origin |-> color, last |-> color, age |-> 0]

UpdateFade(late) ==
    LET ins      == Program[at]
        t        == Timestamp(late)
        st       == state[at]
        elapsed  == Elapsed(t)
        complete == elapsed >= ins.duration_ms
        value    == IF complete THEN st.target_value_
                    ELSE InterpolateValue(st.start_value_, st.target_value_,
                                          elapsed, ins.duration_ms)
        sample   == ScaleRgbColor(st.start_color_, value, st.start_value_)
        frame    == [staged EXCEPT ![ins.index] = sample]
    IN  /\ Op = "fade" /\ ~OutOfRange /\ st.started_
        /\ now' = t
        /\ IF complete THEN Completes(frame)
           ELSE Yields(frame, DelayToUpdate(t, ins.duration_ms - elapsed)) /\ UNCHANGED state
        /\ track' = [track EXCEPT !.last = sample, !.age = @ + due + late]

StartGradient(late) ==
    LET ins    == Program[at]
        t      == Timestamp(late)
        source == staged[ins.index]
    IN  /\ Op = "gradient" /\ ~OutOfRange /\ ~state[at].started_
        /\ now' = t
        /\ IF ins.duration_ms = 0
           THEN Completes([staged EXCEPT ![ins.index] = ins.target])
           ELSE /\ Yields(staged, DelayToUpdate(0, ins.duration_ms))
                /\ state' = [state EXCEPT ![at] =
                       [@ EXCEPT !.started_ = TRUE, !.start_time_ = t,
                                 !.source_ = ToOklab(source), !.target_ = ToOklab(ins.target)]]
        /\ track' = [origin |-> source, last |-> source, age |-> 0]

UpdateGradient(late) ==
    LET ins        == Program[at]
        t          == Timestamp(late)
        st         == state[at]
        elapsed_ms == Elapsed(t)
        complete   == elapsed_ms >= ins.duration_ms
        sample     == IF complete THEN ins.target
                      ELSE FromOklab(Interpolate(st.source_, st.target_,
                                                 elapsed_ms, ins.duration_ms))
        frame      == [staged EXCEPT ![ins.index] = sample]
    IN  /\ Op = "gradient" /\ ~OutOfRange /\ st.started_
        /\ now' = t
        /\ IF complete THEN Completes(frame)
           ELSE /\ Yields(frame, DelayToUpdate(elapsed_ms, ins.duration_ms - elapsed_ms))
                /\ UNCHANGED state
        /\ track' = [track EXCEPT !.last = sample, !.age = @ + due + late]

\* Another instruction of the program writes a pixel between two runs
Overwrite(i, c) ==
    /\ staged' = [staged EXCEPT ![i] = c]
    /\ done' = 0
    /\ ends' = <<>>
    /\ UNCHANGED <<scene, state, at, due, now, track>>

Next ==
    \/ \E late \in 0 .. scene.late :
         \/ ExecuteSet(late)
         \/ ExecuteOutOfRange(late)
         \/ StartFade(late)
         \/ UpdateFade(late)
         \/ StartGradient(late)
         \/ UpdateGradient(late)
    \/ \E i \in Leds, c \in scene.writers : Overwrite(i, c)

Spec == Init /\ [][Next]_vars
-----------------------------------------------------------------------------
Running(i) == at = i /\ state[i].started_

\* The whole number nearest to n / d
IsNearest(x, n, d) == 2 * Abs(x * d - n) <= d

\* An effect that completes has done what its command says to the colour the
\* pixel had when it started, however late its runs came and whatever was
\* written over it meanwhile: a gradient leaves exactly the target, a fade the
\* percentage of the brightness, rounded and cut at full brightness, with the
\* proportions of the channels kept up to rounding (fade.cpp and gradient.cpp
\* Execute).
EffectsEndExactly ==
    done # 0 /\ Program[done].op \in {"fade", "gradient"} =>
        LET ins   == Program[done]
            final == staged[ins.index]
            v0    == StartValue(track.origin)
            v     == StartValue(final)
        IN  ins.index \in Leds =>
            IF ins.op = "gradient" THEN final = ins.target
            ELSE /\ v = 255 \/ IsNearest(v, v0 * ins.percent, 100)
                 /\ v = 255 => 100 * 255 <= v0 * ins.percent + 50
                 /\ \A c \in DOMAIN final : IsNearest(final[c], track.origin[c] * v, v0)

\* A fade never flickers: from run to run its brightness moves towards the target
\* and not past it, wherever the runs fall and although InterpolateValue is cast
\* to a byte
FadeIsMonotone ==
    [][\A i \in DOMAIN Program :
         Program[i].op = "fade" /\ Running(i) =>
             LET goal == TargetValue(StartValue(track.origin), Program[i].percent)
                 old  == StartValue(track.last)
                 new  == StartValue(track'.last)
             IN  (old <= new /\ new <= goal) \/ (goal <= new /\ new <= old)]_vars

\* The loop of rainbow4 does not wear its colours off, which repeats forever and
\* whose two percentages, 33 and 303, do not cancel: once the first pass has ended,
\* every further pass ends in the same frame, although each one scales the bytes the
\* one before has left (fade.cpp).  This is said of the programs that are played,
\* not of all: a loop of two fades to 50 % ends in black.
PassesDoNotDrift ==
    [][scene.writers = {} /\ ends # <<>> /\ ends' # <<>> => ends' = ends]_vars

\* Bytes 0 and 255 are the same hue
HueDistance(x, y) == LET d == (x - y) % 255 IN Min({d, 255 - d})

\* A pixel set by hue, saturation and value shows that colour: read back with
\* RgbToHsv it has the value exactly, a grey is a grey, and the hue, in every
\* sector and where the circle closes, is within HueTolerance when the channels
\* are far enough apart (color.hpp HsvToRgb, RgbToHsv).
ColourSurvives ==
    done # 0 /\ Program[done].op = "set_hsv" =>
        LET hsv  == Program[done].color
            rgb  == staged[Program[done].start]
            back == RgbToHsv(rgb)
        IN  /\ back.v = hsv.v
            /\ hsv.s = 0 => back.s = 0
            /\ Max(Channels(rgb)) - Min(Channels(rgb)) >= WideSpread
                   => HueDistance(back.h, hsv.h) <= HueTolerance

InGradient == state[at].started_ /\ Op = "gradient"

IsGray(c) == c.red = c.green /\ c.green = c.blue

\* Between two greys every sample of a gradient is a grey, up to GrayTolerance,
\* that lies between them, up to one code, and it is the one InterpolateRgb gives
\* for the time since the start: white light is dimmed without a tint, although
\* it goes through three matrices and a cube root (oklab.cpp).
GrayPathIsGray ==
    InGradient /\ IsGray(track.origin) /\ IsGray(Program[at].target) =>
        LET codes == Channels(track.last)
            greys == {track.origin.red, Program[at].target.red}
        IN  /\ Max(codes) - Min(codes) <= GrayTolerance
            /\ Min(codes) >= Min(greys) - 1 /\ Max(codes) <= Max(greys) + 1
            /\ track.last = InterpolateRgb(track.origin, Program[at].target, track.age,
                                           Program[at].duration_ms)

\* A gradient to the colour the pixel already has keeps the light of every
\* channel up to LightTolerance while it runs, for colours on the border of the
\* gamut too: ToOklab and FromOklab undo each other (oklab.cpp:289-339).
StillGradientKeepsLight ==
    InGradient /\ track.origin = Program[at].target =>
        \A c \in DOMAIN track.last :
            Abs(Linear(track.last[c]) - Linear(track.origin[c])) <= LightTolerance
=============================================================================
