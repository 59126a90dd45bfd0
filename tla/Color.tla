------------------------------- MODULE Color -------------------------------
(***************************************************************************)
(* The integer colour conversions of include/prism/color.hpp.  A channel   *)
(* is a byte; U8 is the cast to one.                                       *)
(***************************************************************************)
EXTENDS Integers, FiniteSetsExt

U8(n) == n % 256

Channels(c) == {c.red, c.green, c.blue}

RgbColor(r, g, b) == [red |-> r, green |-> g, blue |-> b]

\* Division of the language: towards zero, for a positive divisor
Divide(n, d) == IF n >= 0 THEN n \div d ELSE -((-n) \div d)

\* Mutant: the full circle opens a seventh sector
DegreesUnwrapped(h) == (h * 360) \div 255

\* Degrees of a hue, the full circle wrapped to none
Degrees(h) == LET scaled_h == (h * 360) \div 255 IN IF scaled_h >= 360 THEN 0 ELSE scaled_h

HsvToRgb(hsv) ==
    LET sector == Degrees(hsv.h) \div 60
        f == Degrees(hsv.h) % 60
        v == hsv.v
        s == hsv.s
        p == U8((v * (255 - s)) \div 255)
        q == U8((v * (255 - (s * f) \div 60)) \div 255)
        t == U8((v * (255 - (s * (60 - f)) \div 60)) \div 255)
    IN  CASE s = 0      -> RgbColor(v, v, v)
          [] s # 0 /\ sector = 0 -> RgbColor(v, t, p)
          [] s # 0 /\ sector = 1 -> RgbColor(q, v, p)
          [] s # 0 /\ sector = 2 -> RgbColor(p, v, t)
          [] s # 0 /\ sector = 3 -> RgbColor(p, q, v)
          [] s # 0 /\ sector = 4 -> RgbColor(t, p, v)
          [] OTHER      -> RgbColor(v, p, q)

\* The angle between two channels, from the axis of the largest one
Angle(first, second, delta, axis) == Divide((first - second) * 60, delta) + axis

HueDegrees(rgb, mx, delta) ==
    IF mx = rgb.red
    THEN LET h_deg == Angle(rgb.green, rgb.blue, delta, 0)
         IN  IF h_deg < 0 THEN h_deg + 360 ELSE h_deg
    ELSE IF mx = rgb.green
    THEN Angle(rgb.blue, rgb.red, delta, 120)
    ELSE Angle(rgb.red, rgb.green, delta, 240)

RgbToHsv(rgb) ==
    LET mx == Max(Channels(rgb))
        delta == mx - Min(Channels(rgb))
    IN  [h |-> IF delta = 0 THEN 0
               ELSE U8((HueDegrees(rgb, mx, delta) * 255 + 180) \div 360),
         s |-> IF mx = 0 THEN 0 ELSE U8((delta * 255) \div mx),
         v |-> mx]
=============================================================================
