--------------------------- MODULE EffectsProofs ---------------------------
(***************************************************************************)
(* What Fade and Gradient promise, for every program, strip, refresh       *)
(* period, width of the clock and lateness: an effect ends in exactly the  *)
(* colour its command asks for, a fade moves to it without flicker, and a  *)
(* gradient shows the sample that belongs to the time since its start.     *)
(* And for every hue, saturation and value: HsvToRgb keeps the brightness. *)
(***************************************************************************)
EXTENDS Effects, TLAPS

-----------------------------------------------------------------------------
(* The helpers of the model.                                               *)

(* Max returns the member no other one exceeds.                            *)
LEMMA MaxIs ==
    ASSUME NEW S, NEW m \in S, \A x \in S : x \in Int /\ m >= x
    PROVE  Max(S) = m
<1> DEFINE IsMax(x) == x \in S /\ \A y \in S : x >= y
<1>1. IsMax(m)
  OBVIOUS
<1>2. Max(S) = CHOOSE x : IsMax(x)
  BY Zenon DEF Max
<1>3. IsMax(Max(S))
  BY <1>1, <1>2, Zenon
<1> QED
  BY <1>3

(* Min returns the member that exceeds no other one.                       *)
LEMMA MinIs ==
    ASSUME NEW S, NEW m \in S, \A x \in S : x \in Int /\ m <= x
    PROVE  Min(S) = m
<1> DEFINE IsMin(x) == x \in S /\ \A y \in S : x <= y
<1>1. IsMin(m)
  OBVIOUS
<1>2. Min(S) = CHOOSE x : IsMin(x)
  BY Zenon DEF Min
<1>3. IsMin(Min(S))
  BY <1>1, <1>2, Zenon
<1> QED
  BY <1>3

(* Min of two numbers is the smaller one.                                  *)
LEMMA MinOfTwo ==
    ASSUME NEW a \in Int, NEW b \in Int
    PROVE  Min({a, b}) = IF a <= b THEN a ELSE b
<1>1. CASE a <= b
  <2>1. \A x \in {a, b} : x \in Int /\ a <= x
    BY <1>1
  <2> QED
    BY <1>1, <2>1, MinIs
<1>2. CASE ~(a <= b)
  <2>1. \A x \in {a, b} : x \in Int /\ b <= x
    BY <1>2
  <2> QED
    BY <1>2, <2>1, MinIs
<1> QED
  BY <1>1, <1>2

(* A colour has its three channels and no more.                            *)
LEMMA ColorParts ==
    ASSUME NEW c \in Colors
    PROVE  /\ DOMAIN c = {"red", "green", "blue"}
           /\ c.red \in Byte /\ c.green \in Byte /\ c.blue \in Byte
           /\ Channels(c) = {c.red, c.green, c.blue}
BY DEF Colors, Channels

(* The brightness of a colour is its largest channel.                      *)
LEMMA StartValueIs ==
    ASSUME NEW c, c.red \in Int, c.green \in Int, c.blue \in Int,
           NEW m \in {c.red, c.green, c.blue},
           c.red <= m, c.green <= m, c.blue <= m
    PROVE  StartValue(c) = m
<1>1. Channels(c) = {c.red, c.green, c.blue}
  BY DEF Channels
<1>2. \A x \in {c.red, c.green, c.blue} : x \in Int /\ m >= x
  OBVIOUS
<1> QED
  BY <1>1, <1>2, MaxIs DEF StartValue

(* Of three numbers one is the largest.                                    *)
LEMMA LargestOfThree ==
    ASSUME NEW a \in Int, NEW b \in Int, NEW c \in Int
    PROVE  \E m \in {a, b, c} : a <= m /\ b <= m /\ c <= m
<1>1. CASE b <= a /\ c <= a
  BY <1>1
<1>2. CASE a <= b /\ c <= b
  BY <1>2
<1>3. CASE a <= c /\ b <= c
  BY <1>3
<1> QED
  BY <1>1, <1>2, <1>3

(* Every colour has one, and it is a byte.                                 *)
LEMMA StartValueBounds ==
    ASSUME NEW c \in Colors
    PROVE  /\ StartValue(c) \in Byte /\ StartValue(c) \in {c.red, c.green, c.blue}
           /\ c.red <= StartValue(c) /\ c.green <= StartValue(c) /\ c.blue <= StartValue(c)
<1>1. c.red \in 0 .. 255 /\ c.green \in 0 .. 255 /\ c.blue \in 0 .. 255
  BY ColorParts DEF Byte
<1>2. PICK m \in {c.red, c.green, c.blue} : c.red <= m /\ c.green <= m /\ c.blue <= m
  <2>1. c.red \in Int /\ c.green \in Int /\ c.blue \in Int
    BY <1>1
  <2> DEFINE r == c.red  g == c.green  b == c.blue
  <2>2. r \in Int /\ g \in Int /\ b \in Int
    BY <2>1
  <2> HIDE DEF r, g, b
  <2>3. \E m \in {r, g, b} : r <= m /\ g <= m /\ b <= m
    BY <2>2, LargestOfThree
  <2> QED
    BY <2>3 DEF r, g, b
<1>3. StartValue(c) = m
  BY <1>1, <1>2, StartValueIs
<1> QED
  BY <1>1, <1>2, <1>3 DEF Byte

(* Division rounds down.                                                   *)
LEMMA DivBounds ==
    ASSUME NEW n \in Nat, NEW d \in Nat \ {0}
    PROVE  /\ n \div d \in Nat
           /\ d * (n \div d) <= n /\ n < d * (n \div d) + d
OBVIOUS

(* A quotient is at most what the divisor times it already exceeds.        *)
LEMMA DivAtMost ==
    ASSUME NEW n \in Nat, NEW d \in Nat \ {0}, NEW q \in Nat, n < d * (q + 1)
    PROVE  n \div d <= q
<1>1. /\ n \div d \in Nat /\ d * (n \div d) <= n
  BY DivBounds
<1>2. SUFFICES ASSUME n \div d >= q + 1
               PROVE  FALSE
  BY <1>1
<1> DEFINE x == n \div d
<1>3. x \in Nat /\ d * x <= n /\ x >= q + 1
  BY <1>1, <1>2
<1> HIDE DEF x
<1>4. d * x >= d * (q + 1)
  BY <1>3
<1> QED
  BY <1>3, <1>4

(* Division preserves the order.                                           *)
LEMMA DivMonotone ==
    ASSUME NEW m \in Nat, NEW n \in Nat, NEW d \in Nat \ {0}, m <= n
    PROVE  m \div d <= n \div d
<1>1. n \div d \in Nat /\ n < d * (n \div d) + d
  BY DivBounds
<1> DEFINE q == n \div d
<1>2. q \in Nat /\ n < d * q + d
  BY <1>1
<1> HIDE DEF q
<1>3. m < d * (q + 1)
  BY <1>2
<1> QED
  BY <1>2, <1>3, DivAtMost DEF q

(* A byte is its own cast.                                                 *)
LEMMA ByteCast ==
    ASSUME NEW n \in Byte
    PROVE  U8(n) = n
BY DEF Byte, U8
-----------------------------------------------------------------------------
(* The arithmetic of a fade.                                               *)

(* A channel scaled to a brightness is rounded to the nearest, is not above  *)
(* that brightness, and is it when the channel was the largest.            *)
LEMMA ScaledChannel ==
    ASSUME NEW sv \in Byte, sv # 0, NEW x \in 0 .. sv, NEW v \in Byte
    PROVE  LET y == (x * v + sv \div 2) \div sv
           IN  /\ y \in 0 .. v /\ U8(y) = y
               /\ IsNearest(y, x * v, sv)
               /\ x = sv => y = v
<1> DEFINE n == x * v + sv \div 2
           y == n \div sv
<1>1. sv \in Nat \ {0} /\ x \in Nat /\ v \in Nat /\ sv <= 255 /\ v <= 255 /\ x <= sv
  BY DEF Byte
<1>2. PICK h \in Nat : h = sv \div 2 /\ 2 * h <= sv /\ sv <= 2 * h + 1 /\ h < sv
  BY <1>1
<1>3. x * v \in Nat /\ n \in Nat
  BY <1>1, <1>2
<1>4. y \in Nat /\ sv * y <= n /\ n < sv * y + sv
  BY <1>1, <1>3, DivBounds
<1>5. n < sv * (v + 1)
  <2>1. x * v <= sv * v
    BY <1>1
  <2> QED
    BY <1>1, <1>2, <1>3, <2>1
<1>6. y <= v
  BY <1>1, <1>3, <1>5, DivAtMost
<1>7. y \in 0 .. v /\ U8(y) = y
  <2>1. y \in 0 .. v /\ y \in Byte
    BY <1>1, <1>4, <1>6 DEF Byte
  <2> QED
    BY <2>1, ByteCast
<1>8. IsNearest(y, x * v, sv)
  <2> DEFINE p == x * v   r == y * sv
  <2>1. p \in Nat /\ r \in Nat /\ r = sv * y
    BY <1>1, <1>3, <1>4
  <2>2. r <= p + sv \div 2 /\ p + sv \div 2 < r + sv
    BY <1>4, <2>1
  <2> HIDE DEF p, r
  <2>3. 2 * Abs(r - p) <= sv
    BY <1>1, <1>2, <2>1, <2>2 DEF Abs
  <2> QED
    BY <2>3 DEF IsNearest, p, r
<1>9. ASSUME x = sv
      PROVE  y = v
  <2>1. x * v = sv * v
    BY <1>9
  <2>2. sv * v < sv * (y + 1)
    BY <1>1, <1>2, <1>4, <2>1
  <2>3. v < y + 1
    <3> SUFFICES ASSUME v >= y + 1
                 PROVE  FALSE
      BY <1>1, <1>4
    <3> DEFINE z == y
    <3>1. z \in Nat /\ v >= z + 1 /\ sv * v < sv * (z + 1)
      BY <1>4, <2>2
    <3> HIDE DEF z
    <3> QED
      BY <1>1, <3>1
  <2> QED
    BY <1>1, <1>4, <1>6, <2>3
<1> QED
  BY <1>7, <1>8, <1>9

(* A scaled colour has the brightness it was scaled to and the proportions   *)
(* it had, up to rounding.                                                 *)
LEMMA ScaledColor ==
    ASSUME NEW c \in Colors, NEW v \in Byte, StartValue(c) = 0 => v = 0
    PROVE  LET s == ScaleRgbColor(c, v, StartValue(c))
           IN  /\ s \in Colors /\ StartValue(s) = v
               /\ \A k \in DOMAIN s : IsNearest(s[k], c[k] * v, StartValue(c))
<1> DEFINE sv == StartValue(c)
           s  == ScaleRgbColor(c, v, sv)
<1>1. /\ sv \in Byte /\ sv \in {c.red, c.green, c.blue}
      /\ c.red <= sv /\ c.green <= sv /\ c.blue <= sv
      /\ c.red \in Byte /\ c.green \in Byte /\ c.blue \in Byte
      /\ DOMAIN c = {"red", "green", "blue"}
  BY StartValueBounds, ColorParts
<1> HIDE DEF sv
<1>2. CASE sv = 0
  <2>1. s = [red |-> 0, green |-> 0, blue |-> 0] /\ v = 0
    BY <1>2 DEF ScaleRgbColor, Black, RgbColor, sv
  <2>2. s \in Colors /\ s.red = 0 /\ s.green = 0 /\ s.blue = 0
        /\ DOMAIN s = {"red", "green", "blue"}
    BY <2>1 DEF Colors, Byte
  <2>3. StartValue(s) = 0
    <3> HIDE DEF s
    <3> QED
      BY <2>2, StartValueIs
  <2>4. c.red = 0 /\ c.green = 0 /\ c.blue = 0
    BY <1>1, <1>2 DEF Byte
  <2>5. IsNearest(0, 0 * 0, 0)
    BY DEF IsNearest, Abs
  <2>6. \A k \in DOMAIN s : s[k] = 0 /\ c[k] = 0
    BY <2>2, <2>4
  <2> QED
    BY <1>2, <2>1, <2>2, <2>3, <2>5, <2>6 DEF sv
<1>3. CASE sv # 0
  <2> DEFINE y == [x \in 0 .. sv |-> (x * v + sv \div 2) \div sv]
  <2>1. /\ c.red \in 0 .. sv /\ c.green \in 0 .. sv /\ c.blue \in 0 .. sv
        /\ sv \in 0 .. sv
    BY <1>1 DEF Byte
  <2>2. \A x \in 0 .. sv :
            LET z == (x * v + sv \div 2) \div sv
            IN  z \in 0 .. v /\ U8(z) = z /\ IsNearest(z, x * v, sv) /\ (x = sv => z = v)
    BY <1>1, <1>3, ScaledChannel
  <2>3. \A x \in 0 .. sv : y[x] \in 0 .. v /\ U8(y[x]) = y[x] /\ IsNearest(y[x], x * v, sv)
                           /\ (x = sv => y[x] = v)
    BY <2>2, Zenon
  <2>4. s = [k \in {"red", "green", "blue"} |-> U8((c[k] * v + sv \div 2) \div sv)]
    BY <1>1, <1>3 DEF ScaleRgbColor
  <2>5. \A k \in {"red", "green", "blue"} : c[k] \in 0 .. sv
    BY <2>1
  <2>6. \A k \in {"red", "green", "blue"} : s[k] = U8(y[c[k]])
    BY <2>4, <2>5, Zenon
  <2> HIDE DEF y
  <2>7. DOMAIN s = {"red", "green", "blue"} /\ s = [k \in {"red", "green", "blue"} |-> s[k]]
    BY <2>4
  <2> HIDE DEF s
  <2>8. \A k \in {"red", "green", "blue"} : s[k] = y[c[k]]
    BY <2>3, <2>5, <2>6
  <2>9. /\ s.red = y[c.red] /\ s.green = y[c.green] /\ s.blue = y[c.blue]
        /\ s.red \in 0 .. v /\ s.green \in 0 .. v /\ s.blue \in 0 .. v
    BY <2>1, <2>3, <2>8
  <2>10. s \in Colors
    <3>1. s.red \in Byte /\ s.green \in Byte /\ s.blue \in Byte
      BY <2>9 DEF Byte
    <3> QED
      BY <2>7, <3>1 DEF Colors
  <2>11. StartValue(s) = v
    <3>1. v \in {s.red, s.green, s.blue}
      BY <1>1, <2>1, <2>3, <2>9
    <3>2. /\ s.red \in Int /\ s.green \in Int /\ s.blue \in Int
          /\ s.red <= v /\ s.green <= v /\ s.blue <= v
      BY <2>9 DEF Byte
    <3> QED
      BY <3>1, <3>2, StartValueIs
  <2>12. \A k \in DOMAIN s : IsNearest(s[k], c[k] * v, sv)
    BY <2>3, <2>5, <2>7, <2>8
  <2> QED
    BY <2>10, <2>11, <2>12 DEF s, sv
<1> QED
  BY <1>2, <1>3

(* The brightness a fade ends with is a byte, and black stays black.       *)
LEMMA TargetValueIs ==
    ASSUME NEW sv \in Byte, NEW percent \in Nat
    PROVE  LET q == (sv * percent + 50) \div 100
           IN  /\ q \in Nat /\ 100 * q <= sv * percent + 50
               /\ sv * percent + 50 < 100 * q + 100
               /\ TargetValue(sv, percent) = IF q <= 255 THEN q ELSE 255
               /\ TargetValue(sv, percent) \in Byte
               /\ sv = 0 => TargetValue(sv, percent) = 0
<1> DEFINE n == sv * percent + 50
           q == n \div 100
<1>1. sv \in Nat /\ n \in Nat
  BY DEF Byte
<1>2. q \in Nat /\ 100 * q <= n /\ n < 100 * q + 100
  BY <1>1, DivBounds
<1>3. TargetValue(sv, percent) = IF q <= 255 THEN q ELSE 255
  BY <1>2, MinOfTwo DEF TargetValue
<1>4. ASSUME sv = 0
      PROVE  q = 0
  <2>1. n = 50
    BY <1>4
  <2> QED
    BY <1>2, <2>1
<1> HIDE DEF q
<1>5. TargetValue(sv, percent) \in Byte
  BY <1>2, <1>3 DEF Byte
<1> QED
  BY <1>2, <1>3, <1>4, <1>5 DEF q

(* The change of brightness grows with time and stays within the distance. *)
LEMMA ChangeBounds ==
    ASSUME NEW d \in Nat, NEW D \in Nat \ {0}, NEW e \in 0 .. D
    PROVE  /\ (d * e + D \div 2) \div D \in 0 .. d
           /\ \A f \in 0 .. e :
                 (d * f + D \div 2) \div D <= (d * e + D \div 2) \div D
<1>1. PICK h \in Nat : h = D \div 2 /\ h < D
  OBVIOUS
<1>2. \A f \in 0 .. e : d * f \in Nat /\ d * f <= d * e
  OBVIOUS
<1>3. d * e \in Nat /\ d * e <= D * d
  OBVIOUS
<1>4. d * e + D \div 2 \in Nat /\ d * e + D \div 2 < D * (d + 1)
  BY <1>1, <1>3
<1>5. (d * e + D \div 2) \div D \in Nat
  BY <1>4, DivBounds
<1>6. (d * e + D \div 2) \div D <= d
  BY <1>4, DivAtMost
<1>7. ASSUME NEW f \in 0 .. e
      PROVE  (d * f + D \div 2) \div D <= (d * e + D \div 2) \div D
  <2>1. d * f + D \div 2 \in Nat /\ d * f + D \div 2 <= d * e + D \div 2
    BY <1>1, <1>2, <1>3
  <2> QED
    BY <1>4, <2>1, DivMonotone
<1> QED
  BY <1>5, <1>6, <1>7

(* A point between start and target, nearer to the target than p is.       *)
Between(p, x, goal) == (p <= x /\ x <= goal) \/ (goal <= x /\ x <= p)

(* A point is between itself and any target, and so is the target.         *)
LEMMA BetweenSelf ==
    ASSUME NEW p \in Byte, NEW goal \in Byte
    PROVE  Between(p, p, goal) /\ Between(p, goal, goal)
<1>1. p \in Int /\ goal \in Int
  BY DEF Byte
<1>2. p <= goal \/ goal <= p
  BY <1>1
<1> QED
  BY <1>1, <1>2 DEF Between

(* The brightness of a fade moves from the start to the target, and a later  *)
(* one lies between an earlier one and the target; no cast to a byte cuts  *)
(* anything off.                                                           *)
LEMMA InterpolatedValue ==
    ASSUME NEW start \in Byte, NEW target \in Byte, NEW D \in Nat \ {0},
           NEW e \in 0 .. D, NEW f \in 0 .. e
    PROVE  /\ InterpolateValue(start, target, e, D) \in Byte
           /\ Between(start, InterpolateValue(start, target, e, D), target)
           /\ Between(InterpolateValue(start, target, f, D),
                      InterpolateValue(start, target, e, D), target)
<1>1. start \in 0 .. 255 /\ target \in 0 .. 255
  BY DEF Byte
<1>2. PICK d \in Nat :
          /\ d = Abs(target - start)
          /\ (target >= start => d = target - start)
          /\ (target < start => d = start - target)
  <2>1. /\ Abs(target - start) \in Nat
        /\ (target >= start => Abs(target - start) = target - start)
        /\ (target < start => Abs(target - start) = start - target)
    BY <1>1 DEF Abs
  <2> QED
    BY <2>1, Zenon
<1>3. PICK x \in 0 .. d, y \in 0 .. d :
          /\ x = (d * e + D \div 2) \div D /\ y = (d * f + D \div 2) \div D
          /\ y <= x
  <2>1. f \in 0 .. D
    OBVIOUS
  <2>2. (d * e + D \div 2) \div D \in 0 .. d /\ (d * f + D \div 2) \div D \in 0 .. d
    BY <1>2, <2>1, ChangeBounds
  <2>3. (d * f + D \div 2) \div D <= (d * e + D \div 2) \div D
    BY <1>2, ChangeBounds
  <2> QED
    BY <2>2, <2>3, Zenon
<1>4. x \in Int /\ y \in Int /\ 0 <= x /\ x <= d /\ 0 <= y /\ y <= x
  BY <1>3
<1>5. /\ InterpolateValue(start, target, e, D)
           = U8(IF target >= start THEN start + x ELSE start - x)
      /\ InterpolateValue(start, target, f, D)
           = U8(IF target >= start THEN start + y ELSE start - y)
  <2>1. d = Abs(target - start)
    BY <1>2
  <2>2. /\ x = (Abs(target - start) * e + D \div 2) \div D
        /\ y = (Abs(target - start) * f + D \div 2) \div D
    BY <1>3, <2>1, Zenon
  <2> QED
    BY <2>2, Zenon DEF InterpolateValue
<1>6. CASE target >= start
  <2>1. start + x \in Byte /\ start + y \in Byte
    BY <1>1, <1>2, <1>4, <1>6 DEF Byte
  <2>2. /\ InterpolateValue(start, target, e, D) = start + x
        /\ InterpolateValue(start, target, f, D) = start + y
    BY <1>5, <1>6, <2>1, ByteCast
  <2> QED
    BY <1>1, <1>2, <1>4, <1>6, <2>1, <2>2 DEF Between
<1>7. CASE target < start
  <2>1. start - x \in Byte /\ start - y \in Byte
    BY <1>1, <1>2, <1>4, <1>7 DEF Byte
  <2>2. /\ InterpolateValue(start, target, e, D) = start - x
        /\ InterpolateValue(start, target, f, D) = start - y
    BY <1>1, <1>5, <1>7, <2>1, ByteCast
  <2> QED
    BY <1>1, <1>2, <1>4, <1>7, <2>1, <2>2 DEF Between
<1> QED
  BY <1>1, <1>6, <1>7

(* At its start a fade has the brightness of the colour.                   *)
LEMMA InterpolateStart ==
    ASSUME NEW start \in Byte, NEW target \in Byte, NEW D \in Nat \ {0}
    PROVE  InterpolateValue(start, target, 0, D) = start
<1> DEFINE d == Abs(target - start)
<1>1. d \in Nat /\ start \in Nat
  BY DEF Abs, Byte
<1>2. d * 0 + D \div 2 \in Nat /\ d * 0 + D \div 2 < D * (0 + 1)
  BY <1>1
<1>3. (d * 0 + D \div 2) \div D = 0
  BY <1>2, DivAtMost, DivBounds
<1>4. InterpolateValue(start, target, 0, D)
        = U8(IF target >= start THEN start + 0 ELSE start - 0)
  BY <1>3 DEF InterpolateValue
<1> QED
  BY <1>1, <1>4, ByteCast
-----------------------------------------------------------------------------
(* A colour given by hue, saturation and value.                            *)

(* A byte scaled by a factor up to 255 is not above it, and no cast cuts   *)
(* anything off.                                                           *)
LEMMA BytePart ==
    ASSUME NEW v \in Byte, NEW w \in 0 .. 255
    PROVE  U8((v * w) \div 255) \in 0 .. v
<1>1. v \in Nat /\ v <= 255 /\ w \in Nat /\ w <= 255
  BY DEF Byte
<1>2. v * w \in Nat /\ v * w <= v * 255
  BY <1>1
<1>3. v * w < 255 * (v + 1)
  BY <1>1, <1>2
<1>4. (v * w) \div 255 \in Nat /\ (v * w) \div 255 <= v
  BY <1>1, <1>2, <1>3, DivBounds, DivAtMost
<1>5. (v * w) \div 255 \in Byte
  BY <1>1, <1>4 DEF Byte
<1>6. U8((v * w) \div 255) = (v * w) \div 255
  BY <1>5, ByteCast
<1> QED
  BY <1>1, <1>4, <1>6

(* One channel of a colour given by hue, saturation and value is the value,  *)
(* and none is above it; without saturation all three are.                 *)
LEMMA HsvChannels ==
    ASSUME NEW hsv \in HsvColors
    PROVE  \E p, q, t \in 0 .. hsv.v :
               /\ HsvToRgb(hsv) \in {RgbColor(hsv.v, t, p), RgbColor(q, hsv.v, p),
                                     RgbColor(p, hsv.v, t), RgbColor(p, q, hsv.v),
                                     RgbColor(t, p, hsv.v), RgbColor(hsv.v, p, q),
                                     RgbColor(hsv.v, hsv.v, hsv.v)}
               /\ hsv.s = 0 => HsvToRgb(hsv) = RgbColor(hsv.v, hsv.v, hsv.v)
<1> DEFINE sector == Degrees(hsv.h) \div 60
           f == Degrees(hsv.h) % 60
           v == hsv.v
           s == hsv.s
           p == U8((v * (255 - s)) \div 255)
           q == U8((v * (255 - (s * f) \div 60)) \div 255)
           t == U8((v * (255 - (s * (60 - f)) \div 60)) \div 255)
<1>1. hsv.h \in 0 .. 255 /\ v \in Byte /\ s \in 0 .. 255
  BY DEF HsvColors, Byte
<1>2. Degrees(hsv.h) \in Int
  BY <1>1 DEF Degrees
<1>3. f \in 0 .. 59
  BY <1>2
<1>4. HsvToRgb(hsv) =
          CASE s = 0      -> RgbColor(v, v, v)
            [] s # 0 /\ sector = 0 -> RgbColor(v, t, p)
            [] s # 0 /\ sector = 1 -> RgbColor(q, v, p)
            [] s # 0 /\ sector = 2 -> RgbColor(p, v, t)
            [] s # 0 /\ sector = 3 -> RgbColor(p, q, v)
            [] s # 0 /\ sector = 4 -> RgbColor(t, p, v)
            [] OTHER      -> RgbColor(v, p, q)
  BY DEF HsvToRgb
<1>5. p \in 0 .. v /\ q \in 0 .. v /\ t \in 0 .. v
  <2>1. \A g \in 0 .. 60 : (s * g) \div 60 \in 0 .. 255
    <3> HIDE DEF s
    <3> SUFFICES ASSUME NEW g \in 0 .. 60
                 PROVE  (s * g) \div 60 \in 0 .. 255
      OBVIOUS
    <3> DEFINE n == s * g
    <3>1. n \in Nat /\ n <= 255 * 60
      BY <1>1
    <3> HIDE DEF n
    <3>2. n < 60 * (255 + 1)
      BY <3>1
    <3>3. n \div 60 \in Nat
      BY <3>1, DivBounds
    <3>4. n \div 60 <= 255
      BY <3>1, <3>2, DivAtMost
    <3> QED
      BY <3>3, <3>4 DEF n
  <2>2. (s * f) \div 60 \in 0 .. 255 /\ (s * (60 - f)) \div 60 \in 0 .. 255
    <3> HIDE DEF f, s
    <3>1. f \in 0 .. 60 /\ 60 - f \in 0 .. 60
      BY <1>3
    <3> QED
      BY <2>1, <3>1
  <2>3. /\ 255 - s \in 0 .. 255 /\ 255 - (s * f) \div 60 \in 0 .. 255
        /\ 255 - (s * (60 - f)) \div 60 \in 0 .. 255
    <3> HIDE DEF f, s
    <3> DEFINE x == (s * f) \div 60   y == (s * (60 - f)) \div 60
    <3>1. x \in 0 .. 255 /\ y \in 0 .. 255
      BY <2>2
    <3> HIDE DEF x, y
    <3>2. 255 - s \in 0 .. 255 /\ 255 - x \in 0 .. 255 /\ 255 - y \in 0 .. 255
      BY <1>1, <3>1
    <3> QED
      BY <3>2 DEF x, y
  <2>4. p \in 0 .. v
    BY <1>1, <2>3, BytePart
  <2>5. q \in 0 .. v
    BY <1>1, <2>3, BytePart
  <2>6. t \in 0 .. v
    BY <1>1, <2>3, BytePart
  <2> QED
    BY <2>4, <2>5, <2>6
<1> HIDE DEF sector, f, s, p, q, t
<1>6. HsvToRgb(hsv) \in {RgbColor(v, t, p), RgbColor(q, v, p), RgbColor(p, v, t),
                         RgbColor(p, q, v), RgbColor(t, p, v), RgbColor(v, p, q),
                         RgbColor(v, v, v)}
  BY <1>4
<1>7. s = 0 => HsvToRgb(hsv) = RgbColor(v, v, v)
  BY <1>4
<1> QED
  BY <1>5, <1>6, <1>7 DEF s

(* HsvToRgb returns a colour.                                              *)
LEMMA HsvIsColor ==
    ASSUME NEW hsv \in HsvColors
    PROVE  HsvToRgb(hsv) \in Colors
<1>1. hsv.v \in Byte
  BY DEF HsvColors
<1>2. \A x \in 0 .. hsv.v : x \in Byte
  BY <1>1 DEF Byte
<1>3. \A a, b, c \in Byte : RgbColor(a, b, c) \in Colors
  BY DEF RgbColor, Colors
<1>4. PICK p, q, t \in 0 .. hsv.v :
          HsvToRgb(hsv) \in {RgbColor(hsv.v, t, p), RgbColor(q, hsv.v, p),
                             RgbColor(p, hsv.v, t), RgbColor(p, q, hsv.v),
                             RgbColor(t, p, hsv.v), RgbColor(hsv.v, p, q),
                             RgbColor(hsv.v, hsv.v, hsv.v)}
  BY HsvChannels
<1>5. p \in Byte /\ q \in Byte /\ t \in Byte
  BY <1>2
<1> QED
  BY <1>1, <1>3, <1>4, <1>5

(* For every hue, saturation and value: the colour HsvToRgb gives has exactly *)
(* that brightness when RgbToHsv reads it back, and a grey is read back as a  *)
(* grey (color.hpp), so neither the sectors nor the casts to a byte dim or  *)
(* tint a pixel.                                                           *)
THEOREM ValueSurvives ==
    \A hsv \in HsvColors :
        LET back == RgbToHsv(HsvToRgb(hsv))
        IN  back.v = hsv.v /\ (hsv.s = 0 => back.s = 0)
<1> SUFFICES ASSUME NEW hsv \in HsvColors
             PROVE  LET back == RgbToHsv(HsvToRgb(hsv))
                    IN  back.v = hsv.v /\ (hsv.s = 0 => back.s = 0)
  OBVIOUS
<1> DEFINE rgb == HsvToRgb(hsv)   v == hsv.v
<1>1. v \in Byte
  BY DEF HsvColors
<1>2. PICK p, q, t \in 0 .. v :
          /\ rgb \in {RgbColor(v, t, p), RgbColor(q, v, p), RgbColor(p, v, t),
                      RgbColor(p, q, v), RgbColor(t, p, v), RgbColor(v, p, q),
                      RgbColor(v, v, v)}
          /\ hsv.s = 0 => rgb = RgbColor(v, v, v)
  BY HsvChannels
<1>3. p \in Int /\ q \in Int /\ t \in Int /\ v \in Int /\ p <= v /\ q <= v /\ t <= v
  BY <1>1, <1>2 DEF Byte
<1> HIDE DEF rgb, v
<1>4. /\ rgb.red \in Int /\ rgb.green \in Int /\ rgb.blue \in Int
      /\ rgb.red <= v /\ rgb.green <= v /\ rgb.blue <= v
      /\ v \in {rgb.red, rgb.green, rgb.blue}
  BY <1>2, <1>3 DEF RgbColor
<1>5. Max(Channels(rgb)) = v
  <2>1. StartValue(rgb) = v
    BY <1>4, StartValueIs
  <2> QED
    BY <2>1 DEF StartValue
<1>6. RgbToHsv(rgb).v = v
  BY <1>5 DEF RgbToHsv
<1>7. ASSUME hsv.s = 0
      PROVE  RgbToHsv(rgb).s = 0
  <2>1. Channels(rgb) = {v}
    BY <1>2, <1>7 DEF Channels, RgbColor
  <2>2. Min(Channels(rgb)) = v
    BY <1>3, <2>1, MinIs
  <2>3. Max(Channels(rgb)) - Min(Channels(rgb)) = 0
    BY <1>3, <1>5, <2>2
  <2>4. RgbToHsv(rgb).s = IF v = 0 THEN 0 ELSE U8((0 * 255) \div v)
    BY <1>5, <2>3 DEF RgbToHsv
  <2>5. v # 0 => (0 * 255) \div v = 0
    <3> SUFFICES ASSUME v # 0
                 PROVE  (0 * 255) \div v = 0
      OBVIOUS
    <3>1. v \in Nat \ {0}
      BY <1>1 DEF Byte
    <3> QED
      BY <3>1
  <2>6. U8(0) = 0
    BY DEF U8
  <2> QED
    BY <2>4, <2>5, <2>6
<1> QED
  BY <1>6, <1>7 DEF rgb, v

-----------------------------------------------------------------------------
(* The clock.                                                              *)

(* The time since a start that lies less than one turn of the clock back is  *)
(* what has passed, although both timestamps are taken modulo the clock.   *)
LEMMA ElapsedIs ==
    ASSUME NEW C \in Nat \ {0}, NEW start \in Nat, NEW age \in Nat, NEW d \in Nat,
           NEW n \in Int, NEW t \in Int, NEW e \in Int,
           start < C, age + d < C, n = (start + age) % C, t = (n + d) % C, e = (t - start) % C
    PROVE  /\ e = age + d
           /\ t = (start + (age + d)) % C
           /\ t \in 0 .. C - 1
<1>0. \A a \in 0 .. C - 1 : a % C = a /\ (a + C) % C = a /\ (a - C) % C = a
  OBVIOUS
<1>1. n = IF start + age < C THEN start + age ELSE start + age - C
  <2>1. CASE start + age < C
    BY <2>1
  <2>2. CASE ~(start + age < C)
    <3>1. start + age - C \in 0 .. C - 1 /\ start + age = (start + age - C) + C
      BY <2>2
    <3> QED
      BY <1>0, <2>2, <3>1
  <2> QED
    BY <2>1, <2>2
<1>2. n \in 0 .. C - 1
  BY <1>1
<1> DEFINE full == IF start + (age + d) < C THEN start + (age + d) ELSE start + (age + d) - C
<1>3. full \in 0 .. C - 1
  OBVIOUS
<1>4. t = full
  <2>1. CASE n + d < C
    <3>1. n + d \in 0 .. C - 1 /\ n + d = full
      BY <1>1, <1>2, <2>1
    <3> QED
      BY <1>0, <3>1
  <2>2. CASE ~(n + d < C)
    <3>1. n + d - C \in 0 .. C - 1 /\ n + d = (n + d - C) + C /\ n + d - C = full
      BY <1>1, <1>2, <2>2
    <3> QED
      BY <1>0, <3>1
  <2> QED
    BY <2>1, <2>2
<1>5. (start + (age + d)) % C = full
  <2>1. CASE start + (age + d) < C
    BY <2>1
  <2>2. CASE ~(start + (age + d) < C)
    <3>1. full \in 0 .. C - 1 /\ start + (age + d) = full + C
      BY <2>2
    <3> QED
      BY <1>0, <3>1
  <2> QED
    BY <2>1, <2>2
<1>6. (t - start) % C = age + d
  <2>1. CASE start + (age + d) < C
    <3>1. t - start = age + d /\ age + d \in 0 .. C - 1
      BY <1>4, <2>1
    <3> QED
      BY <1>0, <3>1
  <2>2. CASE ~(start + (age + d) < C)
    <3>1. t - start = (age + d) - C /\ age + d \in 0 .. C - 1
      BY <1>4, <2>2
    <3> QED
      BY <1>0, <3>1
  <2> QED
    BY <2>1, <2>2
<1> QED
  BY <1>3, <1>4, <1>5, <1>6

(* A delay is positive and not longer than what remains.                   *)
LEMMA DelayIs ==
    ASSUME NEW phase \in Nat, NEW rest \in Nat \ {0}, RefreshPeriod \in Nat \ {0}
    PROVE  DelayToUpdate(phase, rest) \in 1 .. rest
<1> DEFINE r == RefreshPeriod   g == r - (phase % r)
<1> HIDE DEF r
<1>1. r \in Nat \ {0}
  BY DEF r
<1>2. phase % r \in 0 .. r - 1
  BY <1>1
<1>3. g \in Nat \ {0}
  BY <1>1, <1>2
<1>4. DelayToUpdate(phase, rest) = Min({rest, g})
  BY DEF DelayToUpdate, r
<1> HIDE DEF g
<1>5. Min({rest, g}) = IF rest <= g THEN rest ELSE g
  BY <1>3, MinOfTwo
<1> QED
  BY <1>3, <1>4, <1>5

-----------------------------------------------------------------------------
(* The inductive invariant.                                                *)

\* The replay state of a fade that started at a timestamp from a colour
FadeState(start, color, percent) ==
    [ResetForReplay EXCEPT !.started_ = TRUE, !.start_time_ = start, !.start_color_ = color,
                           !.start_value_ = StartValue(color),
                           !.target_value_ = TargetValue(StartValue(color), percent)]

\* The replay state of a gradient that started at a timestamp from a colour
GradientState(start, color, target) ==
    [ResetForReplay EXCEPT !.started_ = TRUE, !.start_time_ = start,
                           !.source_ = ToOklab(color), !.target_ = ToOklab(target)]

\* The next run is due within the duration, counted from the start, whatever
\* number of times the timestamp has wrapped
OnTime(start) ==
    /\ start \in 0 .. Clock - 1 /\ track.age \in Nat /\ due \in Nat \ {0}
    /\ now = (start + track.age) % Clock
    /\ track.age + due <= Program[at].duration_ms

\* The fade that runs has written the brightness of its last sample
InFade ==
    /\ Op = "fade" /\ ~OutOfRange
    /\ track.origin \in Colors
    /\ \E start \in 0 .. Clock - 1 :
          /\ OnTime(start)
          /\ state[at] = FadeState(start, track.origin, Program[at].percent)
    /\ LET v0 == StartValue(track.origin)
       IN  StartValue(track.last) = InterpolateValue(v0, TargetValue(v0, Program[at].percent),
                                                     track.age, Program[at].duration_ms)

\* The gradient that runs has written the sample of its last run
FollowsTime ==
    track.last = InterpolateRgb(track.origin, Program[at].target, track.age,
                                Program[at].duration_ms)

InGradientPhase ==
    /\ Op = "gradient" /\ ~OutOfRange
    /\ \E start \in 0 .. Clock - 1 :
          /\ OnTime(start)
          /\ state[at] = GradientState(start, track.origin, Program[at].target)
    /\ FollowsTime

\* Instructions that the pass has not reached are reset, the one that runs is
\* reset or in the middle of its effect, and only the pixel of a gradient in
\* progress shows what is not a colour somebody gave it.
EffectsInv ==
    /\ scene \in Scenes /\ at \in DOMAIN Program
    /\ now \in 0 .. Clock - 1 /\ due \in Nat
    /\ DOMAIN staged = Leds /\ DOMAIN state = DOMAIN Program
    /\ DOMAIN track = {"origin", "last", "age"}
    /\ \A i \in Leds : staged[i] \in Colors \/ (InGradient /\ i = Program[at].index)
    /\ \A i \in DOMAIN Program : i > at => state[i] = ResetForReplay
    /\ state[at] = ResetForReplay \/ InFade \/ InGradientPhase

-----------------------------------------------------------------------------
(* What the scene gives.                                                   *)

(* The assumption about scenes, at the scene that is played.               *)
LEMMA SceneFacts ==
    ASSUME scene \in Scenes
    PROVE  /\ Len(Program) \in Nat \ {0} /\ DOMAIN Program = 1 .. Len(Program)
           /\ RefreshPeriod \in Nat \ {0} /\ Clock \in Nat \ {0} /\ scene.late \in Nat
           /\ scene.boots \subseteq 0 .. Clock - 1
           /\ scene.palette \subseteq Colors /\ scene.writers \subseteq Colors
BY EffectsAssumption DEF Program, RefreshPeriod, Clock

(* The same of the instruction that runs.                                  *)
LEMMA InstructionFacts ==
    ASSUME scene \in Scenes, at \in DOMAIN Program
    PROVE  /\ Op = "set" => Program[at].color \in Colors
           /\ Op = "set_hsv" => Program[at].color \in HsvColors
           /\ Op = "gradient" => Program[at].target \in Colors
           /\ Op = "fade" => Program[at].percent \in Nat
           /\ Op \in {"fade", "gradient"} =>
                 /\ Program[at].duration_ms \in Nat
                 /\ Program[at].duration_ms + scene.late < Clock
<1> DEFINE Fits(sc, ins) ==
               /\ ins.op = "set" => ins.color \in Colors
               /\ ins.op = "set_hsv" => ins.color \in HsvColors
               /\ ins.op = "gradient" => ins.target \in Colors
               /\ ins.op = "fade" => ins.percent \in Nat
               /\ ins.op \in {"fade", "gradient"} =>
                    ins.duration_ms \in Nat /\ ins.duration_ms + sc.late < sc.clock
<1>1. \A sc \in Scenes : \A i \in DOMAIN sc.program : Fits(sc, sc.program[i])
  BY EffectsAssumption
<1>2. Fits(scene, Program[at])
  BY <1>1, Zenon DEF Program
<1> QED
  BY <1>2 DEF Op, Clock

(* A new timestamp is one.                                                 *)
LEMMA TimestampIs ==
    ASSUME EffectsInv, NEW late \in 0 .. scene.late
    PROVE  Timestamp(late) \in 0 .. Clock - 1 /\ due + late \in Nat
<1>1. Clock \in Nat \ {0} /\ scene.late \in Nat /\ now \in Nat /\ due \in Nat
  BY SceneFacts DEF EffectsInv
<1>2. now + due + late \in Nat /\ due + late \in Nat
  BY <1>1
<1> DEFINE C == Clock
<1> HIDE DEF C
<1>3. C \in Nat \ {0}
  BY <1>1 DEF C
<1>4. \A n \in Nat : n % C \in 0 .. C - 1
  BY <1>3
<1> QED
  BY <1>2, <1>4 DEF Timestamp, C

(* Without a gradient in progress every pixel is a colour somebody gave it. *)
LEMMA StagedColors ==
    ASSUME EffectsInv, ~(Op = "gradient" /\ state[at].started_)
    PROVE  \A i \in Leds : staged[i] \in Colors
BY DEF EffectsInv, InGradient

(* What is reset has not started; the forms of the others are told apart.  *)
LEMMA ResetIsNotStarted ==
    /\ ResetForReplay.started_ = FALSE
    /\ \A start, color, goal : /\ FadeState(start, color, goal).started_ = TRUE
                               /\ GradientState(start, color, goal).started_ = TRUE
BY DEF ResetForReplay, FadeState, GradientState

-----------------------------------------------------------------------------
(* The invariant holds at the start and after every step.                  *)

LEMMA InvInit == Init => EffectsInv
<1> SUFFICES ASSUME Init
             PROVE  EffectsInv
  OBVIOUS
<1> USE DEF Init
<1>1. scene \in Scenes
  OBVIOUS
<1>2. at \in DOMAIN Program /\ now \in 0 .. Clock - 1 /\ due \in Nat
  BY <1>1, SceneFacts
<1>3. /\ DOMAIN staged = Leds /\ DOMAIN state = DOMAIN Program
      /\ DOMAIN track = {"origin", "last", "age"}
  OBVIOUS
<1>4. \A i \in Leds : staged[i] \in Colors
  BY <1>1, SceneFacts
<1>5. \A i \in DOMAIN Program : state[i] = ResetForReplay
  OBVIOUS
<1> QED
  BY <1>1, <1>2, <1>3, <1>4, <1>5 DEF EffectsInv

(* A run that completes its instruction leaves the next one reset.         *)
LEMMA CompletesInv ==
    ASSUME EffectsInv, NEW frame, Completes(frame), now' \in 0 .. Clock - 1,
           DOMAIN frame = Leds, \A i \in Leds : frame[i] \in Colors,
           DOMAIN track' = {"origin", "last", "age"}
    PROVE  EffectsInv'
<1>1. /\ scene \in Scenes /\ scene' = scene /\ at \in DOMAIN Program
      /\ Program' = Program /\ Clock' = Clock /\ Leds' = Leds
  BY DEF EffectsInv, Completes, Program, Clock, Leds
<1>2. /\ staged' = frame /\ at' = (at % Len(Program)) + 1 /\ due' = 0
      /\ at = Len(Program) => state' = [i \in DOMAIN Program |-> ResetForReplay]
      /\ at # Len(Program) => state' = state
  BY DEF Completes
<1>3. Len(Program) \in Nat \ {0} /\ DOMAIN Program = 1 .. Len(Program)
  BY <1>1, SceneFacts
<1>4. at' = IF at = Len(Program) THEN 1 ELSE at + 1
  <2> DEFINE n == Len(Program)
  <2> HIDE DEF n
  <2>1. n \in Nat \ {0} /\ at \in 1 .. n /\ at' = (at % n) + 1
    BY <1>1, <1>2, <1>3 DEF n
  <2>2. n % n = 0 /\ (at # n => at % n = at)
    BY <2>1
  <2> QED
    BY <2>1, <2>2 DEF n
<1>5. at' \in DOMAIN Program
  BY <1>1, <1>3, <1>4
<1>6. DOMAIN state' = DOMAIN Program
  BY <1>2 DEF EffectsInv
<1>7. \A i \in DOMAIN Program : i >= at' => state'[i] = ResetForReplay
  <2>1. CASE at = Len(Program)
    BY <1>2, <2>1
  <2>2. CASE at # Len(Program)
    <3>1. \A i \in DOMAIN Program : i > at => state[i] = ResetForReplay
      BY DEF EffectsInv
    <3>2. \A i \in DOMAIN Program : i >= at' => i > at
      BY <1>1, <1>3, <1>4, <2>2
    <3> QED
      BY <1>2, <2>2, <3>1, <3>2
  <2> QED
    BY <2>1, <2>2
<1>8. /\ \A i \in DOMAIN Program : i > at' => state'[i] = ResetForReplay
      /\ state'[at'] = ResetForReplay
  BY <1>3, <1>5, <1>7
<1>9. ResetForReplay' = ResetForReplay
  BY DEF ResetForReplay, Black, RgbColor, NoLab
<1> QED
  BY <1>1, <1>2, <1>5, <1>6, <1>8, <1>9 DEF EffectsInv

(* Setting pixels, once or over a range.                                   *)
LEMMA SetInv ==
    ASSUME EffectsInv, NEW late \in 0 .. scene.late, ExecuteSet(late)
    PROVE  EffectsInv'
<1> DEFINE ins   == Program[at]
           color == IF Op = "set_hsv" THEN HsvToRgb(ins.color) ELSE ins.color
           frame == [i \in Leds |-> IF i \in ins.start .. ins.end - 1 THEN color ELSE staged[i]]
<1>1. Op \in {"set", "set_hsv"} /\ now' = Timestamp(late) /\ Completes(frame) /\ track' = track
  BY DEF ExecuteSet
<1>2. color \in Colors
  BY <1>1, InstructionFacts, HsvIsColor DEF EffectsInv
<1>3. \A i \in Leds : staged[i] \in Colors
  BY <1>1, StagedColors
<1> HIDE DEF color
<1>4. DOMAIN frame = Leds /\ \A i \in Leds : frame[i] \in Colors
  BY <1>2, <1>3
<1>5. now' \in 0 .. Clock - 1 /\ DOMAIN track' = {"origin", "last", "age"}
  BY <1>1, TimestampIs DEF EffectsInv
<1> HIDE DEF frame
<1> QED
  BY <1>1, <1>4, <1>5, CompletesInv

(* An effect on a pixel that does not exist: it has not started either.    *)
LEMMA OutOfRangeInv ==
    ASSUME EffectsInv, NEW late \in 0 .. scene.late, ExecuteOutOfRange(late)
    PROVE  EffectsInv'
<1>1. OutOfRange /\ now' = Timestamp(late) /\ Completes(staged) /\ track' = track
  BY DEF ExecuteOutOfRange
<1>2. state[at] = ResetForReplay
  BY <1>1 DEF EffectsInv, InFade, InGradientPhase
<1>3. \A i \in Leds : staged[i] \in Colors
  BY <1>2, ResetIsNotStarted, StagedColors
<1>4. now' \in 0 .. Clock - 1 /\ DOMAIN track' = {"origin", "last", "age"}
      /\ DOMAIN staged = Leds
  BY <1>1, TimestampIs DEF EffectsInv
<1> QED
  BY <1>1, <1>3, <1>4, CompletesInv

(* Another instruction writes a colour.                                    *)
LEMMA OverwriteInv ==
    ASSUME EffectsInv, NEW i \in Leds, NEW c \in scene.writers, Overwrite(i, c)
    PROVE  EffectsInv'
<1>1. /\ staged' = [staged EXCEPT ![i] = c]
      /\ scene' = scene /\ state' = state /\ at' = at /\ due' = due /\ now' = now
      /\ track' = track
  BY DEF Overwrite
<1>2. c \in Colors
  BY SceneFacts DEF EffectsInv
<1>3. /\ Program' = Program /\ Clock' = Clock /\ Leds' = Leds /\ Op' = Op
      /\ InGradient' = InGradient
  BY <1>1 DEF Program, Clock, Leds, Op, InGradient
<1>4. DOMAIN staged' = Leds
  BY <1>1 DEF EffectsInv
<1>5. \A j \in Leds : staged'[j] \in Colors \/ (InGradient /\ j = Program[at].index)
  <2> TAKE j \in Leds
  <2>1. CASE j = i
    BY <1>1, <1>2, <2>1 DEF EffectsInv
  <2>2. CASE j # i
    BY <1>1, <2>2 DEF EffectsInv
  <2> QED
    BY <2>1, <2>2
<1>6. (InFade' <=> InFade) /\ (InGradientPhase' <=> InGradientPhase)
  BY <1>1, <1>3 DEF InFade, InGradientPhase, OutOfRange, OnTime, FadeState, GradientState,
                    FollowsTime
<1> QED
  BY <1>1, <1>3, <1>4, <1>5, <1>6 DEF EffectsInv

(* What the time of a run is for an effect in progress.                    *)
LEMMA RunTime ==
    ASSUME EffectsInv, Op \in {"fade", "gradient"}, NEW late \in 0 .. scene.late,
           NEW start \in 0 .. Clock - 1, OnTime(start), state[at].start_time_ = start
    PROVE  LET elapsed == track.age + due + late
           IN  /\ Elapsed(Timestamp(late)) = elapsed
               /\ Timestamp(late) = (start + elapsed) % Clock
               /\ elapsed \in Nat \ {0} /\ elapsed > track.age
               /\ track.age < Program[at].duration_ms
               /\ Program[at].duration_ms \in Nat \ {0}
<1>1. /\ scene.late \in Nat /\ Clock \in Nat \ {0} /\ Program[at].duration_ms \in Nat
      /\ Program[at].duration_ms + scene.late < Clock
  BY SceneFacts, InstructionFacts DEF EffectsInv
<1>2. /\ track.age \in Nat /\ due \in Nat \ {0} /\ now = (start + track.age) % Clock
      /\ track.age + due <= Program[at].duration_ms
  BY DEF OnTime
<1>3. PICK C \in Nat \ {0}, D \in Nat, age \in Nat, d \in Nat :
          /\ C = Clock /\ D = Program[at].duration_ms /\ age = track.age /\ d = due + late
          /\ age < D /\ d # 0
          /\ age + d < C
  <2>1. late \in Nat /\ due + late \in Nat
    BY <1>1, <1>2
  <2> QED
    BY <1>1, <1>2, <2>1
<1>4. start \in Nat /\ start < C
  BY <1>3
<1>5. track.age + due + late = age + d
  BY <1>1, <1>2, <1>3
<1>6. Timestamp(late) = (now + d) % C
  <2>1. now \in Nat /\ now + due + late = now + d
    BY <1>1, <1>2, <1>3 DEF EffectsInv
  <2> QED
    BY <1>3, <2>1 DEF Timestamp
<1>7. PICK n \in Int, t \in Int, e \in Int :
          n = now /\ t = Timestamp(late) /\ e = Elapsed(Timestamp(late))
  <2>1. Timestamp(late) \in Int /\ now \in Int
    BY TimestampIs DEF EffectsInv
  <2>2. Elapsed(Timestamp(late)) \in Int
    BY <1>1, <2>1 DEF Elapsed
  <2> QED
    BY <2>1, <2>2
<1>8. n = (start + age) % C /\ t = (n + d) % C /\ e = (t - start) % C
  BY <1>2, <1>3, <1>6, <1>7 DEF Elapsed
<1>9. e = age + d /\ t = (start + (age + d)) % C
  <2>1. age + d < C
    BY <1>3
  <2> QED
    BY <1>4, <1>8, <2>1, ElapsedIs
<1>10. age + d \in Nat \ {0} /\ age + d > age /\ D \in Nat \ {0}
  BY <1>3
<1> QED
  BY <1>3, <1>5, <1>7, <1>9, <1>10

(* A fade that goes on writes a colour whose brightness lies between the one *)
(* it wrote before and the target.                                         *)
LEMMA FadeSample ==
    ASSUME EffectsInv, Op = "fade", state[at].started_, NEW late \in 0 .. scene.late
    PROVE  LET D      == Program[at].duration_ms
               v0     == StartValue(track.origin)
               goal   == TargetValue(v0, Program[at].percent)
               t      == Timestamp(late)
               e      == track.age + due + late
               value  == IF e >= D THEN goal ELSE InterpolateValue(v0, goal, e, D)
               sample == ScaleRgbColor(track.origin, value, v0)
           IN  /\ InFade
               /\ state[at].start_color_ = track.origin /\ state[at].start_value_ = v0
               /\ state[at].target_value_ = goal
               /\ Elapsed(t) = e /\ e \in Nat \ {0} /\ D \in Nat \ {0}
               /\ t = (state[at].start_time_ + e) % Clock
               /\ state[at].start_time_ \in 0 .. Clock - 1
               /\ track.origin \in Colors /\ value \in Byte
               /\ v0 = 0 => value = 0
               /\ sample \in Colors /\ StartValue(sample) = value
               /\ Between(StartValue(track.last), value, goal)
<1> DEFINE D      == Program[at].duration_ms
           v0     == StartValue(track.origin)
           goal   == TargetValue(v0, Program[at].percent)
           t      == Timestamp(late)
           e      == track.age + due + late
           value  == IF e >= D THEN goal ELSE InterpolateValue(v0, goal, e, D)
           sample == ScaleRgbColor(track.origin, value, v0)
<1>1. InFade
  BY ResetIsNotStarted DEF EffectsInv, InGradientPhase
<1>2. PICK start \in 0 .. Clock - 1 :
          OnTime(start) /\ state[at] = FadeState(start, track.origin, Program[at].percent)
  BY <1>1 DEF InFade
<1>3. /\ state[at].start_color_ = track.origin /\ state[at].start_value_ = v0
      /\ state[at].target_value_ = goal /\ state[at].start_time_ = start
  BY <1>2 DEF FadeState, ResetForReplay
<1>4. /\ Elapsed(t) = e /\ t = (start + e) % Clock
      /\ e \in Nat \ {0} /\ e > track.age /\ track.age < D /\ D \in Nat \ {0}
  BY <1>2, <1>3, RunTime
<1>5. track.age \in Nat
  BY <1>2 DEF OnTime
<1>6. track.origin \in Colors /\ StartValue(track.last) = InterpolateValue(v0, goal, track.age, D)
  BY <1>1 DEF InFade
<1>7. Program[at].percent \in Nat
  BY InstructionFacts DEF EffectsInv
<1>8. v0 \in Byte /\ goal \in Byte /\ (v0 = 0 => goal = 0)
  <2>1. v0 \in Byte
    BY <1>6, StartValueBounds
  <2> HIDE DEF v0
  <2> QED
    BY <1>7, <2>1, TargetValueIs
<1> HIDE DEF v0, goal, D, e, t
<1>9. value \in Byte /\ Between(StartValue(track.last), value, goal) /\ (v0 = 0 => value = 0)
  <2>1. CASE e >= D
    <3>1. track.age \in 0 .. D /\ 0 \in 0 .. track.age
      BY <1>4, <1>5
    <3>2. /\ InterpolateValue(v0, goal, track.age, D) \in Byte
          /\ Between(v0, InterpolateValue(v0, goal, track.age, D), goal)
      BY <1>4, <1>8, <3>1, InterpolatedValue
    <3> DEFINE p == InterpolateValue(v0, goal, track.age, D)
    <3> HIDE DEF p
    <3>3. Between(p, goal, goal)
      BY <1>8, <3>2, BetweenSelf DEF p
    <3> QED
      BY <1>6, <1>8, <2>1, <3>3 DEF p
  <2>2. CASE ~(e >= D)
    <3>1. e \in 0 .. D /\ track.age \in 0 .. e
      BY <1>4, <1>5, <2>2
    <3>2. /\ InterpolateValue(v0, goal, e, D) \in Byte
          /\ Between(v0, InterpolateValue(v0, goal, e, D), goal)
          /\ Between(InterpolateValue(v0, goal, track.age, D),
                     InterpolateValue(v0, goal, e, D), goal)
      BY <1>4, <1>8, <3>1, InterpolatedValue
    <3> DEFINE x == InterpolateValue(v0, goal, e, D)
    <3>3. x = value
      BY <2>2
    <3> HIDE DEF x, value
    <3>4. v0 = 0 => x = 0
      BY <1>8, <3>2 DEF Between, Byte, x
    <3> QED
      BY <1>6, <3>2, <3>3, <3>4 DEF x
  <2> QED
    BY <2>1, <2>2
<1> HIDE DEF value
<1>10. sample \in Colors /\ StartValue(sample) = value
  BY <1>6, <1>8, <1>9, ScaledColor DEF v0
<1> QED
  BY <1>1, <1>2, <1>3, <1>4, <1>6, <1>9, <1>10 DEF v0, goal, D, e, t, value

(* Changing one pixel to a colour leaves a frame of colours.               *)
LEMMA FrameWith ==
    ASSUME EffectsInv, NEW c \in Colors, ~OutOfRange, Op \in {"fade", "gradient"}
    PROVE  LET frame == [staged EXCEPT ![Program[at].index] = c]
           IN  /\ DOMAIN frame = Leds /\ \A i \in Leds : frame[i] \in Colors
               /\ Program[at].index \in Leds /\ frame[Program[at].index] = c
<1> DEFINE frame == [staged EXCEPT ![Program[at].index] = c]
<1>1. Program[at].index \in Leds /\ DOMAIN staged = Leds
  BY DEF OutOfRange, EffectsInv
<1>2. \A i \in Leds : i # Program[at].index => staged[i] \in Colors
  BY DEF EffectsInv, InGradient
<1>3. DOMAIN frame = Leds /\ frame[Program[at].index] = c
  BY <1>1
<1>4. \A i \in Leds : frame[i] \in Colors
  <2> TAKE i \in Leds
  <2>1. CASE i = Program[at].index
    BY <1>3, <2>1
  <2>2. CASE i # Program[at].index
    BY <1>1, <1>2, <2>2
  <2> QED
    BY <2>1, <2>2
<1> QED
  BY <1>1, <1>3, <1>4

LEMMA StartFadeInv ==
    ASSUME EffectsInv, NEW late \in 0 .. scene.late, StartFade(late)
    PROVE  EffectsInv'
<1> DEFINE ins   == Program[at]
           t     == Timestamp(late)
           color == staged[ins.index]
           value == StartValue(color)
           goal  == TargetValue(value, ins.percent)
<1>1. /\ Op = "fade" /\ ~OutOfRange /\ ~state[at].started_ /\ now' = t
      /\ track' = [origin |-> color, last |-> color, age |-> 0]
  BY DEF StartFade
<1>2. color \in Colors
  BY <1>1, StagedColors DEF OutOfRange
<1>3. /\ ins.percent \in Nat /\ ins.duration_ms \in Nat /\ ins.duration_ms < Clock
      /\ Clock \in Nat \ {0} /\ RefreshPeriod \in Nat \ {0}
  BY <1>1, InstructionFacts, SceneFacts DEF EffectsInv
<1>4. value \in Byte /\ goal \in Byte /\ (value = 0 => goal = 0)
  <2>1. value \in Byte
    BY <1>2, StartValueBounds
  <2> HIDE DEF value
  <2> QED
    BY <1>3, <2>1, TargetValueIs
<1>5. t \in 0 .. Clock - 1
  BY TimestampIs
<1>6. CASE ins.duration_ms = 0
  <2>1. ScaleRgbColor(color, goal, value) \in Colors
    <3> HIDE DEF goal, color
    <3> QED
      BY <1>2, <1>4, ScaledColor
  <2> DEFINE sample == ScaleRgbColor(color, goal, value)
             frame  == [staged EXCEPT ![ins.index] = sample]
  <2>2. Completes(frame)
    BY <1>6 DEF StartFade
  <2>3. DOMAIN frame = Leds /\ \A i \in Leds : frame[i] \in Colors
    <3> HIDE DEF sample
    <3> QED
      BY <1>1, <2>1, FrameWith DEF sample
  <2>4. now' \in 0 .. Clock - 1 /\ DOMAIN track' = {"origin", "last", "age"}
    BY <1>1, <1>5
  <2> HIDE DEF frame
  <2> QED
    BY <2>2, <2>3, <2>4, CompletesInv
<1>7. CASE ins.duration_ms # 0
  <2>1. /\ scene' = scene /\ at' = at /\ staged' = staged
        /\ due' = DelayToUpdate(t, ins.duration_ms)
        /\ state' = [state EXCEPT ![at] =
                       [@ EXCEPT !.started_ = TRUE, !.start_time_ = t, !.start_color_ = color,
                                 !.start_value_ = value, !.target_value_ = goal]]
    BY <1>7 DEF StartFade, Yields
  <2>2. /\ Program' = Program /\ Clock' = Clock /\ Leds' = Leds /\ Op' = Op
        /\ OutOfRange' = OutOfRange
    BY <2>1 DEF Program, Clock, Leds, Op, OutOfRange
  <2>3. due' \in 1 .. ins.duration_ms
    <3>1. t \in Nat /\ ins.duration_ms \in Nat \ {0}
      BY <1>3, <1>5, <1>7
    <3> HIDE DEF t
    <3> QED
      BY <1>3, <2>1, <3>1, DelayIs
  <2>4. /\ state[at] = ResetForReplay /\ at \in DOMAIN Program
        /\ DOMAIN state = DOMAIN Program /\ scene \in Scenes /\ DOMAIN staged = Leds
        /\ \A i \in DOMAIN Program : i > at => state[i] = ResetForReplay
    BY <1>1, ResetIsNotStarted DEF EffectsInv, InFade, InGradientPhase
  <2>5. state'[at] = FadeState(t, color, ins.percent)
    BY <2>1, <2>4 DEF FadeState
  <2>6. /\ track'.origin = color /\ track'.last = color /\ track'.age = 0
        /\ DOMAIN track' = {"origin", "last", "age"}
    BY <1>1
  <2>7. PICK start \in 0 .. Clock - 1 : start = t
    BY <1>5
  <2>8. now' = (start + 0) % Clock
    <3> DEFINE C == Clock
    <3> HIDE DEF C, t
    <3>1. start \in 0 .. C - 1 /\ C \in Nat \ {0} /\ now' = start
      BY <1>1, <1>3, <2>7 DEF C
    <3> QED
      BY <3>1 DEF C
  <2>9. OnTime(start)'
    <3>1. due' \in Nat \ {0} /\ 0 + due' <= ins.duration_ms
      BY <1>3, <2>3
    <3> QED
      BY <2>1, <2>2, <2>6, <2>7, <2>8, <3>1 DEF OnTime
  <2>10. state'[at] = FadeState(start, color, ins.percent)
    BY <2>5, <2>7
  <2>11. StartValue(color) = InterpolateValue(value, goal, 0, ins.duration_ms)
    <3> HIDE DEF value, goal
    <3>1. ins.duration_ms \in Nat \ {0}
      BY <1>3, <1>7
    <3>2. InterpolateValue(value, goal, 0, ins.duration_ms) = value
      BY <1>4, <3>1, InterpolateStart
    <3> QED
      BY <3>2 DEF value
  <2>12. InFade'
    BY <1>1, <1>2, <2>1, <2>2, <2>6, <2>9, <2>10, <2>11 DEF InFade
  <2>13. \A i \in Leds : staged[i] \in Colors
    BY <1>1, StagedColors
  <2>14. DOMAIN state' = DOMAIN Program /\ \A i \in DOMAIN Program : i > at => state'[i] = ResetForReplay
    <3>1. DOMAIN state' = DOMAIN Program
      BY <2>1, <2>4
    <3>2. \A i \in DOMAIN Program : i > at => i # at
      BY <2>4, SceneFacts
    <3>3. \A i \in DOMAIN Program : i # at => state'[i] = state[i]
      BY <2>1, <2>4
    <3> QED
      BY <2>4, <3>1, <3>2, <3>3
  <2>15. due' \in Nat /\ now' \in 0 .. Clock - 1
    BY <1>1, <1>3, <1>5, <2>3
  <2>16. ResetForReplay' = ResetForReplay
    BY DEF ResetForReplay, Black, RgbColor, NoLab
  <2> QED
    BY <2>1, <2>2, <2>4, <2>6, <2>12, <2>13, <2>14, <2>15, <2>16 DEF EffectsInv
<1> QED
  BY <1>6, <1>7

LEMMA UpdateFadeInv ==
    ASSUME EffectsInv, NEW late \in 0 .. scene.late, UpdateFade(late)
    PROVE  EffectsInv'
<1> DEFINE ins    == Program[at]
           D      == ins.duration_ms
           v0     == StartValue(track.origin)
           goal   == TargetValue(v0, ins.percent)
           t      == Timestamp(late)
           e      == track.age + due + late
           value  == IF e >= D THEN goal ELSE InterpolateValue(v0, goal, e, D)
           sample == ScaleRgbColor(track.origin, value, v0)
           frame  == [staged EXCEPT ![ins.index] = sample]
<1>1. /\ Op = "fade" /\ ~OutOfRange /\ state[at].started_ /\ now' = t
  BY DEF UpdateFade
<1>2. /\ InFade
      /\ state[at].start_color_ = track.origin /\ state[at].start_value_ = v0
      /\ state[at].target_value_ = goal
      /\ Elapsed(t) = e /\ e \in Nat \ {0} /\ D \in Nat \ {0}
      /\ t = (state[at].start_time_ + e) % Clock
      /\ track.origin \in Colors /\ value \in Byte
      /\ sample \in Colors /\ StartValue(sample) = value
  BY <1>1, FadeSample
<1>3. /\ IF e >= D THEN Completes(frame)
         ELSE Yields(frame, DelayToUpdate(t, D - e)) /\ UNCHANGED state
      /\ track' = [track EXCEPT !.last = sample, !.age = @ + due + late]
  BY <1>2 DEF UpdateFade
<1>4. /\ DOMAIN track' = {"origin", "last", "age"}
      /\ track'.origin = track.origin /\ track'.last = sample /\ track'.age = e
  BY <1>3 DEF EffectsInv
<1>5. now' \in 0 .. Clock - 1
  BY <1>1, TimestampIs
<1>6. DOMAIN frame = Leds /\ \A i \in Leds : frame[i] \in Colors
  <2> HIDE DEF sample
  <2> QED
    BY <1>1, <1>2, FrameWith
<1> HIDE DEF sample, frame, t, e
<1>7. CASE e >= D
  BY <1>3, <1>4, <1>5, <1>6, <1>7, CompletesInv
<1>8. CASE ~(e >= D)
  <2>1. /\ scene' = scene /\ at' = at /\ staged' = frame /\ state' = state
        /\ due' = DelayToUpdate(t, D - e)
    BY <1>3, <1>8 DEF Yields
  <2>2. /\ Program' = Program /\ Clock' = Clock /\ Leds' = Leds /\ Op' = Op
        /\ OutOfRange' = OutOfRange
    BY <2>1 DEF Program, Clock, Leds, Op, OutOfRange
  <2>3. due' \in 1 .. D - e
    <3>1. t \in Nat /\ D - e \in Nat \ {0} /\ RefreshPeriod \in Nat \ {0}
      BY <1>1, <1>2, <1>5, <1>8, SceneFacts DEF EffectsInv
    <3> QED
      BY <2>1, <3>1, DelayIs
  <2>4. PICK start \in 0 .. Clock - 1 :
            OnTime(start) /\ state[at] = FadeState(start, track.origin, ins.percent)
    BY <1>2 DEF InFade
  <2>5. state[at].start_time_ = start
    BY <2>4 DEF FadeState, ResetForReplay
  <2>6. OnTime(start)'
    <3>1. due' \in Nat \ {0} /\ e + due' <= D /\ e \in Nat
      BY <1>2, <1>8, <2>3
    <3>2. now' = (start + e) % Clock
      BY <1>1, <1>2, <2>5
    <3> QED
      BY <1>4, <2>1, <2>2, <2>4, <3>1, <3>2 DEF OnTime
  <2>7. StartValue(sample) = InterpolateValue(v0, goal, e, D)
    BY <1>2, <1>8
  <2>8. InFade'
    BY <1>1, <1>2, <1>4, <2>1, <2>2, <2>4, <2>6, <2>7 DEF InFade
  <2>9. due' \in Nat
    BY <2>3
  <2>10. ResetForReplay' = ResetForReplay
    BY DEF ResetForReplay, Black, RgbColor, NoLab
  <2>11. /\ scene \in Scenes /\ at \in DOMAIN Program /\ DOMAIN state = DOMAIN Program
         /\ \A i \in DOMAIN Program : i > at => state[i] = ResetForReplay
    BY DEF EffectsInv
  <2> QED
    BY <1>4, <1>5, <1>6, <2>1, <2>2, <2>8, <2>9, <2>10, <2>11 DEF EffectsInv
<1> QED
  BY <1>7, <1>8

(* The time of a gradient in progress, and the sample that belongs to it.  *)
LEMMA GradientSample ==
    ASSUME EffectsInv, Op = "gradient", state[at].started_, NEW late \in 0 .. scene.late
    PROVE  LET D      == Program[at].duration_ms
               t      == Timestamp(late)
               e      == track.age + due + late
               sample == FromOklab(Interpolate(state[at].source_, state[at].target_, e, D))
           IN  /\ InGradientPhase
               /\ Elapsed(t) = e /\ e \in Nat \ {0} /\ D \in Nat \ {0}
               /\ t = (state[at].start_time_ + e) % Clock
               /\ e < D => sample = InterpolateRgb(track.origin, Program[at].target, e, D)
<1> DEFINE D == Program[at].duration_ms
           t == Timestamp(late)
           e == track.age + due + late
<1>1. InGradientPhase
  BY ResetIsNotStarted DEF EffectsInv, InFade
<1>2. PICK start \in 0 .. Clock - 1 :
          OnTime(start) /\ state[at] = GradientState(start, track.origin, Program[at].target)
  BY <1>1 DEF InGradientPhase
<1>3. /\ state[at].start_time_ = start /\ state[at].source_ = ToOklab(track.origin)
      /\ state[at].target_ = ToOklab(Program[at].target)
  BY <1>2 DEF GradientState, ResetForReplay
<1>4. /\ Elapsed(t) = e /\ t = (start + e) % Clock /\ e \in Nat \ {0} /\ D \in Nat \ {0}
  BY <1>2, <1>3, RunTime
<1> HIDE DEF D, e, t
<1>5. ASSUME e < D
      PROVE  FromOklab(Interpolate(state[at].source_, state[at].target_, e, D))
                 = InterpolateRgb(track.origin, Program[at].target, e, D)
  <2>1. D # 0 /\ ~(e >= D) /\ e # 0
    BY <1>4, <1>5
  <2> QED
    BY <1>3, <2>1 DEF InterpolateRgb
<1> QED
  BY <1>1, <1>3, <1>4, <1>5 DEF D, e, t

LEMMA StartGradientInv ==
    ASSUME EffectsInv, NEW late \in 0 .. scene.late, StartGradient(late)
    PROVE  EffectsInv'
<1> DEFINE ins   == Program[at]
           t     == Timestamp(late)
           color == staged[ins.index]
<1>1. /\ Op = "gradient" /\ ~OutOfRange /\ ~state[at].started_ /\ now' = t
      /\ track' = [origin |-> color, last |-> color, age |-> 0]
  BY DEF StartGradient
<1>2. /\ ins.target \in Colors /\ ins.duration_ms \in Nat /\ ins.duration_ms < Clock
      /\ Clock \in Nat \ {0} /\ RefreshPeriod \in Nat \ {0}
  BY <1>1, InstructionFacts, SceneFacts DEF EffectsInv
<1>3. t \in 0 .. Clock - 1
  BY TimestampIs
<1>4. CASE ins.duration_ms = 0
  <2> DEFINE frame  == [staged EXCEPT ![ins.index] = ins.target]
  <2>1. Completes(frame)
    BY <1>4 DEF StartGradient
  <2>2. DOMAIN frame = Leds /\ \A i \in Leds : frame[i] \in Colors
    BY <1>1, <1>2, FrameWith
  <2>3. now' \in 0 .. Clock - 1 /\ DOMAIN track' = {"origin", "last", "age"}
    BY <1>1, <1>3
  <2> HIDE DEF frame
  <2> QED
    BY <2>1, <2>2, <2>3, CompletesInv
<1>5. CASE ins.duration_ms # 0
  <2>1. /\ scene' = scene /\ at' = at /\ staged' = staged
        /\ due' = DelayToUpdate(0, ins.duration_ms)
        /\ state' = [state EXCEPT ![at] =
                       [@ EXCEPT !.started_ = TRUE, !.start_time_ = t,
                                 !.source_ = ToOklab(color), !.target_ = ToOklab(ins.target)]]
    BY <1>5 DEF StartGradient, Yields
  <2>2. /\ Program' = Program /\ Clock' = Clock /\ Leds' = Leds /\ Op' = Op
        /\ OutOfRange' = OutOfRange
    BY <2>1 DEF Program, Clock, Leds, Op, OutOfRange
  <2>3. due' \in 1 .. ins.duration_ms
    <3>1. ins.duration_ms \in Nat \ {0} /\ 0 \in Nat
      BY <1>2, <1>5
    <3> QED
      BY <1>2, <2>1, <3>1, DelayIs
  <2>4. /\ state[at] = ResetForReplay /\ at \in DOMAIN Program
        /\ DOMAIN state = DOMAIN Program /\ scene \in Scenes /\ DOMAIN staged = Leds
        /\ \A i \in DOMAIN Program : i > at => state[i] = ResetForReplay
    BY <1>1, ResetIsNotStarted DEF EffectsInv, InFade, InGradientPhase
  <2>5. state'[at] = GradientState(t, color, ins.target)
    BY <2>1, <2>4 DEF GradientState
  <2>6. /\ track'.origin = color /\ track'.last = color /\ track'.age = 0
        /\ DOMAIN track' = {"origin", "last", "age"}
    BY <1>1
  <2>7. PICK start \in 0 .. Clock - 1 : start = t
    BY <1>3
  <2>8. now' = (start + 0) % Clock
    <3> DEFINE C == Clock
    <3> HIDE DEF C, t
    <3>1. start \in 0 .. C - 1 /\ C \in Nat \ {0} /\ now' = start
      BY <1>1, <1>2, <2>7 DEF C
    <3> QED
      BY <3>1 DEF C
  <2>9. OnTime(start)'
    <3>1. due' \in Nat \ {0} /\ 0 + due' <= ins.duration_ms
      BY <1>2, <2>3
    <3> QED
      BY <2>1, <2>2, <2>6, <2>7, <2>8, <3>1 DEF OnTime
  <2>10. state'[at] = GradientState(start, color, ins.target)
    BY <2>5, <2>7
  <2>11. color = InterpolateRgb(color, ins.target, 0, ins.duration_ms)
    <3> HIDE DEF color
    <3>1. ins.duration_ms # 0 /\ ~(0 >= ins.duration_ms)
      BY <1>2, <1>5
    <3> QED
      BY <3>1 DEF InterpolateRgb
  <2>12. InGradientPhase'
    BY <1>1, <2>1, <2>2, <2>6, <2>9, <2>10, <2>11 DEF InGradientPhase, FollowsTime
  <2>13. \A i \in Leds : staged[i] \in Colors
    BY <1>1, StagedColors
  <2>14. DOMAIN state' = DOMAIN Program /\ \A i \in DOMAIN Program : i > at => state'[i] = ResetForReplay
    <3>1. DOMAIN state' = DOMAIN Program
      BY <2>1, <2>4
    <3>2. \A i \in DOMAIN Program : i > at => i # at
      BY <2>4, SceneFacts
    <3>3. \A i \in DOMAIN Program : i # at => state'[i] = state[i]
      BY <2>1, <2>4
    <3> QED
      BY <2>4, <3>1, <3>2, <3>3
  <2>15. due' \in Nat /\ now' \in 0 .. Clock - 1
    BY <1>1, <1>2, <1>3, <2>3
  <2>16. ResetForReplay' = ResetForReplay
    BY DEF ResetForReplay, Black, RgbColor, NoLab
  <2> QED
    BY <2>1, <2>2, <2>4, <2>6, <2>12, <2>13, <2>14, <2>15, <2>16 DEF EffectsInv
<1> QED
  BY <1>4, <1>5

LEMMA UpdateGradientInv ==
    ASSUME EffectsInv, NEW late \in 0 .. scene.late, UpdateGradient(late)
    PROVE  EffectsInv'
<1> DEFINE ins    == Program[at]
           D      == ins.duration_ms
           t      == Timestamp(late)
           e      == track.age + due + late
           sample == IF e >= D THEN ins.target
                     ELSE FromOklab(Interpolate(state[at].source_, state[at].target_, e, D))
           frame  == [staged EXCEPT ![ins.index] = sample]
<1>1. /\ Op = "gradient" /\ ~OutOfRange /\ state[at].started_ /\ now' = t
  BY DEF UpdateGradient
<1>2. /\ InGradientPhase
      /\ Elapsed(t) = e /\ e \in Nat \ {0} /\ D \in Nat \ {0}
      /\ t = (state[at].start_time_ + e) % Clock
      /\ ~(e >= D) => sample = InterpolateRgb(track.origin, ins.target, e, D)
  BY <1>1, GradientSample
<1>3. /\ IF e >= D THEN Completes(frame)
         ELSE Yields(frame, DelayToUpdate(e, D - e)) /\ UNCHANGED state
      /\ track' = [track EXCEPT !.last = sample, !.age = @ + due + late]
  BY <1>2 DEF UpdateGradient
<1>4. /\ DOMAIN track' = {"origin", "last", "age"}
      /\ track'.origin = track.origin /\ track'.last = sample /\ track'.age = e
  BY <1>3 DEF EffectsInv
<1>5. now' \in 0 .. Clock - 1
  BY <1>1, TimestampIs
<1>6. ins.target \in Colors
  BY <1>1, InstructionFacts DEF EffectsInv
<1>7. CASE e >= D
  <2>1. DOMAIN frame = Leds /\ \A i \in Leds : frame[i] \in Colors
    BY <1>1, <1>6, <1>7, FrameWith
  <2> HIDE DEF frame, e, sample
  <2> QED
    BY <1>3, <1>4, <1>5, <1>7, <2>1, CompletesInv
<1>8. CASE ~(e >= D)
  <2> HIDE DEF sample, t, e
  <2>1. /\ scene' = scene /\ at' = at /\ staged' = frame /\ state' = state
        /\ due' = DelayToUpdate(e, D - e)
    BY <1>3, <1>8 DEF Yields
  <2>2. /\ Program' = Program /\ Clock' = Clock /\ Leds' = Leds /\ Op' = Op
        /\ OutOfRange' = OutOfRange
    BY <2>1 DEF Program, Clock, Leds, Op, OutOfRange
  <2>3. due' \in 1 .. D - e
    <3>1. e \in Nat /\ D - e \in Nat \ {0} /\ RefreshPeriod \in Nat \ {0}
      BY <1>1, <1>2, <1>8, SceneFacts DEF EffectsInv
    <3> QED
      BY <2>1, <3>1, DelayIs
  <2>4. PICK start \in 0 .. Clock - 1 :
            OnTime(start) /\ state[at] = GradientState(start, track.origin, ins.target)
    BY <1>2 DEF InGradientPhase
  <2>5. state[at].start_time_ = start
    BY <2>4 DEF GradientState, ResetForReplay
  <2>6. OnTime(start)'
    <3>1. due' \in Nat \ {0} /\ e + due' <= D /\ e \in Nat
      BY <1>2, <1>8, <2>3
    <3>2. now' = (start + e) % Clock
      BY <1>1, <1>2, <2>5
    <3> QED
      BY <1>4, <2>1, <2>2, <2>4, <3>1, <3>2 DEF OnTime
  <2>7. InGradientPhase'
    BY <1>1, <1>2, <1>4, <1>8, <2>1, <2>2, <2>4, <2>6 DEF InGradientPhase, FollowsTime
  <2>8. DOMAIN frame = Leds /\ \A i \in Leds : i # ins.index => frame[i] \in Colors
    BY <1>1, <1>2 DEF EffectsInv, InGradient
  <2>9. state'[at].started_ /\ Op' = "gradient"
    BY <1>1, <2>1, <2>2
  <2>10. \A i \in Leds : staged'[i] \in Colors \/ (InGradient' /\ i = Program'[at'].index)
    BY <2>1, <2>2, <2>8, <2>9 DEF InGradient
  <2>11. due' \in Nat
    BY <2>3
  <2>12. ResetForReplay' = ResetForReplay
    BY DEF ResetForReplay, Black, RgbColor, NoLab
  <2>13. /\ scene \in Scenes /\ at \in DOMAIN Program /\ DOMAIN state = DOMAIN Program
         /\ \A i \in DOMAIN Program : i > at => state[i] = ResetForReplay
    BY DEF EffectsInv
  <2> HIDE DEF frame
  <2> QED
    BY <1>4, <1>5, <2>1, <2>2, <2>7, <2>8, <2>10, <2>11, <2>12, <2>13 DEF EffectsInv
<1> QED
  BY <1>7, <1>8

LEMMA InvNext == EffectsInv /\ [Next]_vars => EffectsInv'
<1> SUFFICES ASSUME EffectsInv, [Next]_vars
             PROVE  EffectsInv'
  OBVIOUS
<1>1. ASSUME NEW late \in 0 .. scene.late, ExecuteSet(late)
      PROVE  EffectsInv'
  BY <1>1, SetInv
<1>2. ASSUME NEW late \in 0 .. scene.late, ExecuteOutOfRange(late)
      PROVE  EffectsInv'
  BY <1>2, OutOfRangeInv
<1>3. ASSUME NEW late \in 0 .. scene.late, StartFade(late)
      PROVE  EffectsInv'
  BY <1>3, StartFadeInv
<1>4. ASSUME NEW late \in 0 .. scene.late, UpdateFade(late)
      PROVE  EffectsInv'
  BY <1>4, UpdateFadeInv
<1>5. ASSUME NEW late \in 0 .. scene.late, StartGradient(late)
      PROVE  EffectsInv'
  BY <1>5, StartGradientInv
<1>6. ASSUME NEW late \in 0 .. scene.late, UpdateGradient(late)
      PROVE  EffectsInv'
  BY <1>6, UpdateGradientInv
<1>7. ASSUME NEW i \in Leds, NEW c \in scene.writers, Overwrite(i, c)
      PROVE  EffectsInv'
  BY <1>7, OverwriteInv
<1>8. CASE UNCHANGED vars
  <2>1. /\ scene' = scene /\ staged' = staged /\ state' = state /\ at' = at /\ due' = due
        /\ now' = now /\ track' = track
    BY <1>8 DEF vars
  <2> QED
    BY <2>1 DEF EffectsInv, InFade, InGradientPhase, InGradient, OutOfRange, OnTime, FollowsTime,
                Op, Program, Clock, Leds, FadeState, GradientState, ResetForReplay, Black,
                RgbColor, NoLab
<1> QED
  BY <1>1, <1>2, <1>3, <1>4, <1>5, <1>6, <1>7, <1>8 DEF Next

LEMMA InvAlways == Spec => []EffectsInv
BY InvInit, InvNext, PTL DEF Spec

-----------------------------------------------------------------------------
(* Effects end exactly.                                                    *)

\* What EffectsEndExactly says of a fade
FadeEnd(origin, percent, final) ==
    LET v0 == StartValue(origin)
        v  == StartValue(final)
    IN  /\ v = 255 \/ IsNearest(v, v0 * percent, 100)
        /\ v = 255 => 100 * 255 <= v0 * percent + 50
        /\ \A c \in DOMAIN final : IsNearest(final[c], origin[c] * v, v0)

(* Scaling a colour to the target brightness is what the command asks for. *)
LEMMA FadeEndIs ==
    ASSUME NEW c \in Colors, NEW percent \in Nat
    PROVE  LET v0 == StartValue(c)
           IN  FadeEnd(c, percent, ScaleRgbColor(c, TargetValue(v0, percent), v0))
<1> DEFINE v0    == StartValue(c)
           v     == TargetValue(v0, percent)
           final == ScaleRgbColor(c, v, v0)
           q     == (v0 * percent + 50) \div 100
           n     == v0 * percent
<1>1. v0 \in Byte
  BY StartValueBounds
<1>2. /\ q \in Nat /\ 100 * q <= n + 50 /\ n + 50 < 100 * q + 100
      /\ v = (IF q <= 255 THEN q ELSE 255) /\ v \in Byte /\ (v0 = 0 => v = 0)
  <2> HIDE DEF v0
  <2> QED
    BY <1>1, TargetValueIs
<1>3. StartValue(final) = v /\ \A k \in DOMAIN final : IsNearest(final[k], c[k] * v, v0)
  <2> HIDE DEF v
  <2> QED
    BY <1>2, ScaledColor
<1>4. n \in Nat
  BY <1>1 DEF Byte
<1> HIDE DEF v0, v, final, q, n
<1>5. v = 255 \/ IsNearest(v, n, 100)
  <2>1. CASE q <= 255
    <3>1. v = q /\ v * 100 - n <= 50 /\ n - v * 100 < 50
      BY <1>2, <1>4, <2>1
    <3>2. v * 100 - n \in Int
      BY <1>2, <1>4, <3>1
    <3>3. 2 * Abs(v * 100 - n) <= 100
      BY <1>2, <1>4, <3>1, <3>2 DEF Abs
    <3> QED
      BY <3>3 DEF IsNearest
  <2>2. CASE ~(q <= 255)
    BY <1>2, <2>2
  <2> QED
    BY <2>1, <2>2
<1>6. v = 255 => 100 * 255 <= n + 50
  BY <1>2, <1>4
<1> QED
  BY <1>3, <1>5, <1>6 DEF FadeEnd, v0, v, final, n

LEMMA EndsNext ==
    EffectsInv /\ EffectsEndExactly /\ [Next]_vars => EffectsEndExactly'
<1> SUFFICES ASSUME EffectsInv, EffectsEndExactly, [Next]_vars
             PROVE  EffectsEndExactly'
  OBVIOUS
<1> DEFINE ins == Program[at]
(* Only a run that completes an effect has to be looked at.                *)
<1>1. ASSUME NEW frame, NEW origin, Completes(frame),
             ins.op \in {"fade", "gradient"} /\ ins.index \in Leds =>
                 /\ ins.op = "gradient" => frame[ins.index] = ins.target
                 /\ ins.op = "fade" => /\ track'.origin = origin
                                       /\ FadeEnd(origin, ins.percent, frame[ins.index])
      PROVE  EffectsEndExactly'
  <2>1. /\ staged' = frame /\ done' = at /\ Program' = Program /\ Leds' = Leds
    BY <1>1 DEF Completes, Program, Leds
  <2>2. /\ Program'[done'] = ins
    BY <2>1
  <2>3. CASE ins.op \in {"fade", "gradient"} /\ ins.index \in Leds
    BY <1>1, <2>1, <2>2, <2>3 DEF EffectsEndExactly, FadeEnd
  <2>4. CASE ~(ins.op \in {"fade", "gradient"} /\ ins.index \in Leds)
    BY <2>1, <2>2, <2>4 DEF EffectsEndExactly
  <2> QED
    BY <2>3, <2>4
<1>2. ASSUME done' = 0
      PROVE  EffectsEndExactly'
  BY <1>2 DEF EffectsEndExactly
<1>3. ASSUME NEW late \in 0 .. scene.late, ExecuteSet(late)
      PROVE  EffectsEndExactly'
  <2>1. ins.op \notin {"fade", "gradient"}
    BY <1>3 DEF ExecuteSet, Op
  <2>2. PICK frame : Completes(frame)
    BY <1>3 DEF ExecuteSet
  <2> QED
    BY <1>1, <2>1, <2>2
<1>4. ASSUME NEW late \in 0 .. scene.late, ExecuteOutOfRange(late)
      PROVE  EffectsEndExactly'
  <2>1. Completes(staged) /\ ins.index \notin Leds
    BY <1>4 DEF ExecuteOutOfRange, OutOfRange
  <2> QED
    BY <1>1, <2>1
<1>5. ASSUME NEW late \in 0 .. scene.late, StartFade(late)
      PROVE  EffectsEndExactly'
  <2> DEFINE color == staged[ins.index]
             final == ScaleRgbColor(color, TargetValue(StartValue(color), ins.percent),
                                    StartValue(color))
             frame == [staged EXCEPT ![ins.index] = final]
  <2>1. /\ Op = "fade" /\ ~OutOfRange /\ ~state[at].started_
        /\ ins.duration_ms = 0 => Completes(frame)
        /\ ins.duration_ms # 0 => done' = 0
        /\ track'.origin = color
    BY <1>5 DEF StartFade, Yields
  <2>2. color \in Colors
    BY <2>1, StagedColors DEF OutOfRange
  <2>3. FadeEnd(color, ins.percent, final)
    <3>1. ins.percent \in Nat
      BY <2>1, InstructionFacts DEF EffectsInv
    <3> HIDE DEF color
    <3> QED
      BY <2>2, <3>1, FadeEndIs
  <2>4. frame[ins.index] = final
    <3> HIDE DEF final
    <3> QED
      BY <2>1 DEF OutOfRange, EffectsInv
  <2>5. ins.op = "fade"
    BY <2>1 DEF Op
  <2> HIDE DEF frame, final, color
  <2> QED
    BY <1>1, <1>2, <2>1, <2>3, <2>4, <2>5
<1>6. ASSUME NEW late \in 0 .. scene.late, UpdateFade(late)
      PROVE  EffectsEndExactly'
  <2> DEFINE v0    == StartValue(track.origin)
             e     == track.age + due + late
             final == ScaleRgbColor(track.origin, TargetValue(v0, ins.percent), v0)
             frame == [staged EXCEPT ![ins.index] = final]
  <2>1. Op = "fade" /\ ~OutOfRange /\ state[at].started_
    BY <1>6 DEF UpdateFade
  <2>2. /\ state[at].start_color_ = track.origin /\ state[at].start_value_ = v0
        /\ state[at].target_value_ = TargetValue(v0, ins.percent)
        /\ Elapsed(Timestamp(late)) = e /\ track.origin \in Colors
    BY <2>1, FadeSample
  <2>3. /\ e >= ins.duration_ms => Completes(frame)
        /\ ~(e >= ins.duration_ms) => done' = 0
    BY <1>6, <2>2 DEF UpdateFade, Yields
  <2>4. track'.origin = track.origin
    BY <1>6 DEF UpdateFade, EffectsInv
  <2>5. FadeEnd(track.origin, ins.percent, final)
    <3>1. ins.percent \in Nat
      BY <2>1, InstructionFacts DEF EffectsInv
    <3> QED
      BY <2>2, <3>1, FadeEndIs
  <2>6. frame[ins.index] = final
    <3> HIDE DEF final
    <3> QED
      BY <2>1 DEF OutOfRange, EffectsInv
  <2>7. ins.op = "fade"
    BY <2>1 DEF Op
  <2> HIDE DEF frame, final, e
  <2> QED
    BY <1>1, <1>2, <2>3, <2>4, <2>5, <2>6, <2>7
<1>7. ASSUME NEW late \in 0 .. scene.late, StartGradient(late)
      PROVE  EffectsEndExactly'
  <2> DEFINE frame == [staged EXCEPT ![ins.index] = ins.target]
  <2>1. /\ Op = "gradient" /\ ~OutOfRange
        /\ ins.duration_ms = 0 => Completes(frame)
        /\ ins.duration_ms # 0 => done' = 0
    BY <1>7 DEF StartGradient, Yields
  <2>2. frame[ins.index] = ins.target /\ ins.op = "gradient"
    BY <2>1 DEF OutOfRange, EffectsInv, Op
  <2> HIDE DEF frame
  <2> QED
    BY <1>1, <1>2, <2>1, <2>2
<1>8. ASSUME NEW late \in 0 .. scene.late, UpdateGradient(late)
      PROVE  EffectsEndExactly'
  <2> DEFINE e     == Elapsed(Timestamp(late))
             frame == [staged EXCEPT ![ins.index] = ins.target]
  <2>1. /\ Op = "gradient" /\ ~OutOfRange
        /\ e >= ins.duration_ms => Completes(frame)
        /\ ~(e >= ins.duration_ms) => done' = 0
    BY <1>8 DEF UpdateGradient, Yields
  <2>2. frame[ins.index] = ins.target /\ ins.op = "gradient"
    BY <2>1 DEF OutOfRange, EffectsInv, Op
  <2> HIDE DEF frame, e
  <2> QED
    BY <1>1, <1>2, <2>1, <2>2
<1>9. ASSUME NEW i \in Leds, NEW c \in scene.writers, Overwrite(i, c)
      PROVE  EffectsEndExactly'
  BY <1>2, <1>9 DEF Overwrite
<1>10. CASE UNCHANGED vars
  BY <1>10 DEF vars, EffectsEndExactly, Program, Leds
<1> QED
  BY <1>3, <1>4, <1>5, <1>6, <1>7, <1>8, <1>9, <1>10 DEF Next

(* An effect that completes has done what its command says to the colour the *)
(* pixel had at its start: a gradient leaves exactly the target, a fade the  *)
(* percentage of the brightness, rounded and cut at full brightness, with  *)
(* the proportions of the channels (fade.cpp and gradient.cpp, Execute);   *)
(* for every program, strip, refresh period, clock and lateness.           *)
THEOREM EffectsEnd == Spec => []EffectsEndExactly
<1>1. Init => EffectsEndExactly
  BY DEF Init, EffectsEndExactly
<1> QED
  BY <1>1, InvAlways, EndsNext, PTL DEF Spec

-----------------------------------------------------------------------------
(* Fades do not flicker.                                                   *)

(* From run to run the brightness of a fade moves towards its target and not *)
(* past it, wherever the runs fall on the clock and although fade.cpp casts  *)
(* each value to a byte.                                                   *)
THEOREM FadesAreMonotone == Spec => FadeIsMonotone
<1> DEFINE Goal(i)  == TargetValue(StartValue(track.origin), Program[i].percent)
           Moves(i) == Between(StartValue(track.last), StartValue(track'.last), Goal(i))
           Step     == \A i \in DOMAIN Program :
                           Program[i].op = "fade" /\ Running(i) => Moves(i)
<1>1. EffectsInv /\ [Next]_vars => [Step]_vars
  <2> SUFFICES ASSUME EffectsInv, Next,
                      NEW i \in DOMAIN Program, Program[i].op = "fade", Running(i)
               PROVE  Moves(i)
    BY Zenon
  <2>1. at = i /\ state[at].started_ /\ Op = "fade"
    BY DEF Running, Op
  (* The brightness before the step is a byte.                             *)
  <2>2. InFade /\ StartValue(track.last) \in Byte /\ Goal(i) \in Byte
    <3>1. InFade
      BY <2>1, ResetIsNotStarted DEF EffectsInv, InGradientPhase
    <3> DEFINE v0 == StartValue(track.origin)   D == Program[at].duration_ms
               goal == TargetValue(v0, Program[at].percent)
    <3>2. track.age \in Nat /\ due \in Nat \ {0} /\ track.age + due <= D
      BY <3>1 DEF InFade, OnTime
    <3>3. D \in Nat /\ Program[at].percent \in Nat
      BY <2>1, InstructionFacts DEF EffectsInv
    <3> HIDE DEF D
    <3>4. D \in Nat \ {0} /\ track.age \in 0 .. D /\ 0 \in 0 .. track.age
      BY <3>2, <3>3
    <3>5. v0 \in Byte
      BY <3>1, StartValueBounds DEF InFade
    <3> HIDE DEF v0
    <3>6. goal \in Byte
      BY <3>3, <3>5, TargetValueIs
    <3> HIDE DEF goal
    <3>7. InterpolateValue(v0, goal, track.age, D) \in Byte
      BY <3>4, <3>5, <3>6, InterpolatedValue
    <3>8. StartValue(track.last) = InterpolateValue(v0, goal, track.age, D)
      BY <3>1 DEF InFade, v0, goal, D
    <3> QED
      BY <2>1, <3>1, <3>6, <3>7, <3>8 DEF goal, v0
  <2>3. ASSUME track' = track
        PROVE  Moves(i)
    <3> DEFINE p == StartValue(track.last)   g == Goal(i)
    <3>1. Moves(i) <=> Between(p, p, g)
      BY <2>3
    <3>2. p \in Byte /\ g \in Byte
      BY <2>2
    <3> HIDE DEF p, g
    <3>3. Between(p, p, g)
      BY <3>2, BetweenSelf
    <3> QED
      BY <3>1, <3>3 DEF p, g
  <2>4. ASSUME NEW late \in 0 .. scene.late, UpdateFade(late)
        PROVE  Moves(i)
    <3> DEFINE v0     == StartValue(track.origin)
               D      == Program[at].duration_ms
               e      == track.age + due + late
               goal   == TargetValue(v0, Program[at].percent)
               value  == IF e >= D THEN goal ELSE InterpolateValue(v0, goal, e, D)
               sample == ScaleRgbColor(track.origin, value, v0)
    <3>1. /\ state[at].start_color_ = track.origin /\ state[at].start_value_ = v0
          /\ state[at].target_value_ = goal /\ Elapsed(Timestamp(late)) = e
          /\ StartValue(sample) = value
          /\ Between(StartValue(track.last), value, goal)
      BY <2>1, FadeSample
    <3>2. track'.last = sample
      BY <2>4, <3>1 DEF UpdateFade, EffectsInv
    <3> HIDE DEF sample, value, e, D
    <3> QED
      BY <2>1, <3>1, <3>2
  <2>5. CASE \E late \in 0 .. scene.late : ExecuteSet(late) \/ ExecuteOutOfRange(late)
    BY <2>3, <2>5 DEF ExecuteSet, ExecuteOutOfRange
  <2>6. CASE \E late \in 0 .. scene.late :
                 StartFade(late) \/ StartGradient(late) \/ UpdateGradient(late)
    BY <2>1, <2>6 DEF StartFade, StartGradient, UpdateGradient
  <2>7. CASE \E j \in Leds, c \in scene.writers : Overwrite(j, c)
    BY <2>3, <2>7 DEF Overwrite
  <2> QED
    BY <2>4, <2>5, <2>6, <2>7 DEF Next
<1>2. [][Step]_vars => FadeIsMonotone
  BY DEF FadeIsMonotone, Between
<1> HIDE DEF Step
<1> QED
  BY <1>1, <1>2, InvAlways, PTL DEF Spec

-----------------------------------------------------------------------------
(* Gradients follow the time.                                              *)

(* Whatever colours a gradient goes between and however late its runs come,  *)
(* the sample that shows is the one InterpolateRgb gives for the time since  *)
(* the start, also when the timestamp has wrapped meanwhile: the components  *)
(* are interpolated from the kept end points (gradient.cpp Execute), so no *)
(* run adds to the error of the one before it.                             *)
THEOREM GradientsFollowTime == Spec => [](InGradient => FollowsTime)
<1>1. EffectsInv => (InGradient => FollowsTime)
  BY ResetIsNotStarted DEF EffectsInv, InGradient, InFade, InGradientPhase
<1> QED
  BY <1>1, InvAlways, PTL
=============================================================================
