----------------------------- MODULE MCEffects -----------------------------
(***************************************************************************)
(* Programs for Effects.  Durations and periods are a few milliseconds, so *)
(* that starts and runs fall everywhere on the grid and around the wrap of *)
(* the timestamp; the colours are those of the rainbow effects.  Single    *)
(* instructions are played over many colours.                              *)
(***************************************************************************)
EXTENDS Effects

HueLevels == {0, 51, 102, 153, 204, 255}

StillLevels == {0, 16, 128, 200, 255}

Fade(percent, duration_ms, index) ==
    [op |-> "fade", percent |-> percent, duration_ms |-> duration_ms, index |-> index]

Gradient(target, duration_ms, index) ==
    [op |-> "gradient", target |-> target, duration_ms |-> duration_ms, index |-> index]

Set(color, start, end) == [op |-> "set", color |-> color, start |-> start, end |-> end]

SetHsv(h, s, v, start, end) ==
    [op |-> "set_hsv", color |-> [h |-> h, s |-> s, v |-> v], start |-> start, end |-> end]

\* The loop of a child group of rainbow4: DIM_PERCENT and then BRIGHTEN_PERCENT,
\* int(10000 / 33), which do not cancel (scripts/device/rainbow4.py:42-43)
DimAndBrighten(duration_ms) == <<Fade(33, duration_ms, 0), Fade(303, duration_ms, 0)>>

\* The percentages fade_instruction.md:138 plans for it
DimAndRestore(duration_ms) == <<Fade(25, duration_ms, 0), Fade(400, duration_ms, 0)>>

\* RAINBOW_COLORS of the device tools
Rainbow == {RgbColor(255, 0, 0), RgbColor(255, 40, 0), RgbColor(180, 60, 0), RgbColor(0, 80, 0),
            RgbColor(0, 0, 255), RgbColor(40, 0, 160), RgbColor(140, 0, 255)}

\* Every instruction, zero durations, a range and an index beyond the strip
Everything ==
    <<Set(RgbColor(255, 40, 0), 0, 9), Fade(33, 7, 0), Gradient(RgbColor(0, 80, 0), 5, 1),
      SetHsv(170, 200, 180, 0, 1), Fade(150, 0, 0), Gradient(RgbColor(40, 0, 160), 0, 1),
      Fade(50, 4, 7), Gradient(RgbColor(1, 2, 3), 4, 9), Fade(300, 3, 0)>>

Scene(program) ==
    [program |-> program, leds |-> 1, palette |-> {Black}, writers |-> {}, refresh |-> 3,
     clock |-> 32, boots |-> {0}, late |-> 0]

\* The rainbow program, however late its runs come
RainbowScene ==
    [Scene(DimAndBrighten(7)) EXCEPT !.palette = Rainbow, !.boots = 0 .. 31, !.late = 2]

\* Both loops on every brightness and, as channels are scaled independently of each
\* other, on every value a channel can have beside the brightest one
WearScenes ==
    {[Scene(loop) EXCEPT !.palette = {RgbColor(v, c, 0) : c \in 0 .. v}, !.clock = 4] :
        loop \in {DimAndBrighten(1), DimAndRestore(1)}, v \in 0 .. 255}

\* All instructions on a strip somebody else writes to
MixedScene == [Scene(Everything) EXCEPT !.leds = 2, !.writers = {RgbColor(255, 255, 255)},
                                        !.clock = 16, !.boots = 0 .. 15, !.late = 2]

\* Every hue at some saturations and values
HueScenes == {Scene(<<SetHsv(h, s, v, 0, 1)>>) :
                  h \in 0 .. 255, s \in HueLevels, v \in HueLevels}

GrayLevels == {0, 1, 2, 10, 11, 12, 40, 60, 101, 180, 254, 255}

Gray(g) == RgbColor(g, g, g)

\* Durations stay below 2^15.5, for the arithmetic of the model checker
Slow(target) == [Scene(<<Gradient(target, 1500, 0)>>) EXCEPT !.refresh = 333, !.clock = 3000,
                                                           !.boots = {2000}]

GrayScenes == {[Slow(Gray(g)) EXCEPT !.palette = {Gray(h) : h \in GrayLevels}] : g \in GrayLevels}

StillScenes == {[Slow(c) EXCEPT !.palette = {c}] :
                    c \in [red : StillLevels, green : StillLevels, blue : StillLevels]}

AllScenes ==
    {RainbowScene, MixedScene} \cup WearScenes \cup HueScenes \cup GrayScenes \cup StillScenes
=============================================================================
