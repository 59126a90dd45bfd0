------------------------------- MODULE Oklab -------------------------------
(***************************************************************************)
(* The fixed-point OKLab conversion of app/controller/oklab.cpp, which     *)
(* Gradient uses between its end points.  Linear channels and the decode   *)
(* matrix are Q0.16, roots and coordinates Q2.13, the inverse matrix Q4.12.*)
(***************************************************************************)
EXTENDS Color, Sequences

kQ13One == 8192

kQ12CoefficientScale == 4096

Q16Max == 65535

\* Entry i of the decode table is kSrgbToLinearQ16[i - 1]
kSrgbToLinearQ16 == <<
    0, 20, 40, 60, 80, 99, 119, 139, 159, 179, 199, 219, 241, 264, 288, 313, 340, 367,
    396, 427, 458, 491, 526, 562, 599, 637, 677, 718, 761, 805, 851, 898, 947, 997,
    1048, 1101, 1156, 1212, 1270, 1330, 1391, 1453, 1517, 1583, 1651, 1720, 1790, 1863,
    1937, 2013, 2090, 2170, 2250, 2333, 2418, 2504, 2592, 2681, 2773, 2866, 2961, 3058,
    3157, 3258, 3360, 3464, 3570, 3678, 3788, 3900, 4014, 4129, 4247, 4366, 4488, 4611,
    4736, 4864, 4993, 5124, 5257, 5392, 5530, 5669, 5810, 5953, 6099, 6246, 6395, 6547,
    6700, 6856, 7014, 7174, 7335, 7500, 7666, 7834, 8004, 8177, 8352, 8528, 8708, 8889,
    9072, 9258, 9445, 9635, 9828, 10022, 10219, 10417, 10619, 10822, 11028, 11235,
    11446, 11658, 11873, 12090, 12309, 12530, 12754, 12980, 13209, 13440, 13673, 13909,
    14146, 14387, 14629, 14874, 15122, 15371, 15623, 15878, 16135, 16394, 16656, 16920,
    17187, 17456, 17727, 18001, 18277, 18556, 18837, 19121, 19407, 19696, 19987, 20281,
    20577, 20876, 21177, 21481, 21787, 22096, 22407, 22721, 23038, 23357, 23678, 24002,
    24329, 24658, 24990, 25325, 25662, 26001, 26344, 26688, 27036, 27386, 27739, 28094,
    28452, 28813, 29176, 29542, 29911, 30282, 30656, 31033, 31412, 31794, 32179, 32567,
    32957, 33350, 33745, 34143, 34544, 34948, 35355, 35764, 36176, 36591, 37008, 37429,
    37852, 38278, 38706, 39138, 39572, 40009, 40449, 40891, 41337, 41785, 42236, 42690,
    43147, 43606, 44069, 44534, 45002, 45473, 45947, 46423, 46903, 47385, 47871, 48359,
    48850, 49344, 49841, 50341, 50844, 51349, 51858, 52369, 52884, 53401, 53921, 54445,
    54971, 55500, 56032, 56567, 57105, 57646, 58190, 58737, 59287, 59840, 60396, 60955,
    61517, 62082, 62650, 63221, 63795, 64372, 64952, 65535 >>

kLinearRgbToLmsQ16 ==
    << <<27015, 35149, 3372>>, <<13887, 44610, 7038>>, <<5787, 18463, 41286>> >>

kLmsRootToOklabQ13 ==
    << <<1724, 6501, -33>>, <<16204, -19895, 3691>>, <<212, 6412, -6625>> >>

\* Mutant: the matrix is read by columns
kOklabToLmsRootByColumns ==
    << <<8192, 8192, 8192>>, <<3247, -865, -733>>, <<1768, -523, -10580>> >>

kOklabToLmsRootQ13 ==
    << <<8192, 3247, 1768>>, <<8192, -865, -523>>, <<8192, -733, -10580>> >>

kLmsCubeToLinearRgbQ12 ==
    << <<16698, -13548, 946>>, <<-5196, 10690, -1398>>, <<-17, -2881, 6994>> >>

Abs(value) == IF value < 0 THEN -value ELSE value

AbsRowSum(row) == Abs(row[1]) + Abs(row[2]) + Abs(row[3])

Int32Max == 2147483647

\* The static assertions of the source: no row of a matrix can carry its
\* products out of 32 bits, and the coordinates fit Q2.13 in 16 bits
ASSUME MatrixProductsFit ==
    /\ \A i \in 1 .. 3 :
         /\ AbsRowSum(kLmsRootToOklabQ13[i]) < Int32Max \div kQ13One
         /\ AbsRowSum(kOklabToLmsRootQ13[i]) < Int32Max \div 32768
         /\ AbsRowSum(kLmsCubeToLinearRgbQ12[i]) < Int32Max \div kQ13One
    /\ AbsRowSum(kLmsRootToOklabQ13[1]) < 32768
    /\ LET a == kLmsRootToOklabQ13[2]
           b == kLmsRootToOklabQ13[3]
       IN  /\ Abs(a[1]) + Abs(a[3]) < 32768
           /\ Abs(b[1]) + Abs(b[2]) + Abs(b[1] + b[2] + b[3]) < 32768
-----------------------------------------------------------------------------
\* The product shifted right by 8, computed without leaving 32 bits, and then
\* rounded half up
MultiplyQ16(lhs, rhs) ==
    LET shifted == (lhs \div 256) * rhs + ((lhs % 256) * rhs) \div 256
    IN  Min({Q16Max, shifted \div 256 + (IF shifted % 256 >= 128 THEN 1 ELSE 0)})

SumQ16Products(row, x, y, z) ==
    Min({Q16Max, MultiplyQ16(row[1], x) + MultiplyQ16(row[2], y) + MultiplyQ16(row[3], z)})

CubeQ16(value) == MultiplyQ16(MultiplyQ16(value, value), value)

\* The smallest root whose cube is not below the value, or the largest root
FirstRootFrom(value) ==
    LET search[low \in 0 .. Q16Max, high \in 0 .. Q16Max] ==
            LET middle == low + (high - low) \div 2
            IN  IF low >= high THEN low
                ELSE IF CubeQ16(middle) < value THEN search[middle + 1, high]
                ELSE search[low, middle]
    IN  search[0, Q16Max]

CubeRootQ16(value) ==
    LET upper == FirstRootFrom(value)
        lower == IF upper = 0 THEN 0 ELSE upper - 1
    IN  IF CubeQ16(upper) < value THEN upper
        ELSE IF value - CubeQ16(lower) <= CubeQ16(upper) - value THEN lower ELSE upper

RoundDivideSigned(numerator, denominator) ==
    IF numerator >= 0 THEN (numerator + denominator \div 2) \div denominator
    ELSE -((-numerator + denominator \div 2) \div denominator)

Dot3(row, x, y, z) == row[1] * x + row[2] * y + row[3] * z

Dot3Q13(row, x, y, z) == RoundDivideSigned(Dot3(row, x, y, z), kQ13One)

Dot3Q12CoefficientsToQ13(row, x, y, z) ==
    RoundDivideSigned(Dot3(row, x, y, z), kQ12CoefficientScale)

CubeQ13(value) ==
    LET square == (value * value + kQ13One \div 2) \div kQ13One
    IN  (square * value + kQ13One \div 2) \div kQ13One

ClampQ13Root(value) == Max({0, Min({kQ13One, value})})

\* The number of table entries below the target
FirstCodeFrom(target_q16) ==
    LET search[low \in 0 .. 256, high \in 0 .. 256] ==
            LET middle == low + (high - low) \div 2
            IN  IF low >= high THEN low
                ELSE IF kSrgbToLinearQ16[middle + 1] < target_q16
                     THEN search[middle + 1, high]
                     ELSE search[low, middle]
    IN  search[0, 256]

\* The table entry nearest to the linear value, the lower one on a tie
EncodeSrgbQ13(linear) ==
    LET target_q16 == linear * 8
        low        == FirstCodeFrom(target_q16)
    IN  IF low = 0 THEN 0
        ELSE IF low >= 256 THEN 255
        ELSE IF target_q16 - kSrgbToLinearQ16[low] <= kSrgbToLinearQ16[low + 1] - target_q16
             THEN low - 1 ELSE low

\* Mutant: the step per millisecond is rounded, not the distance covered
InterpolateBySteps(magnitude, elapsed_ms, duration_ms) ==
    ((magnitude + duration_ms \div 2) \div duration_ms) * elapsed_ms

\* magnitude * elapsed_ms / duration_ms, rounded half up, in 32 bits
InterpolateMagnitude(magnitude, elapsed_ms, duration_ms) ==
    LET whole   == magnitude \div duration_ms
        partial == (magnitude % duration_ms) * elapsed_ms
    IN  whole * elapsed_ms + partial \div duration_ms
            + (IF (partial % duration_ms) * 2 >= duration_ms THEN 1 ELSE 0)

InterpolateComponent(source, target, elapsed_ms, duration_ms) ==
    IF duration_ms = 0 \/ elapsed_ms >= duration_ms THEN target
    ELSE IF elapsed_ms = 0 THEN source
    ELSE IF target < source
    THEN source - InterpolateMagnitude(source - target, elapsed_ms, duration_ms)
    ELSE source + InterpolateMagnitude(target - source, elapsed_ms, duration_ms)

Linear(code) == kSrgbToLinearQ16[code + 1]

ToOklab(rgb) ==
    LET Root(i) == (CubeRootQ16(SumQ16Products(kLinearRgbToLmsQ16[i], Linear(rgb.red),
                                               Linear(rgb.green), Linear(rgb.blue))) + 4) \div 8
        l_root == Root(1)
        m_root == Root(2)
        s_root == Root(3)
    IN  [l |-> Dot3Q13(kLmsRootToOklabQ13[1], l_root, m_root, s_root),
         a |-> Dot3Q13(kLmsRootToOklabQ13[2], l_root, m_root, s_root),
         b |-> Dot3Q13(kLmsRootToOklabQ13[3], l_root, m_root, s_root)]

\* A root of the inverse transform, before it is clamped
LmsRoot(lab, i) == Dot3Q13(kOklabToLmsRootQ13[i], lab.l, lab.a, lab.b)

FromOklab(lab) ==
    LET Cube(i) == CubeQ13(ClampQ13Root(LmsRoot(lab, i)))
        l == Cube(1)
        m == Cube(2)
        s == Cube(3)
        Encode(i) == EncodeSrgbQ13(ClampQ13Root(
                         Dot3Q12CoefficientsToQ13(kLmsCubeToLinearRgbQ12[i], l, m, s)))
    IN  RgbColor(Encode(1), Encode(2), Encode(3))

Interpolate(source, target, elapsed_ms, duration_ms) ==
    [c \in {"l", "a", "b"} |->
        InterpolateComponent(source[c], target[c], elapsed_ms, duration_ms)]

InterpolateRgb(source, target, elapsed_ms, duration_ms) ==
    IF duration_ms = 0 \/ elapsed_ms >= duration_ms THEN target
    ELSE IF elapsed_ms = 0 THEN source
    ELSE FromOklab(Interpolate(ToOklab(source), ToOklab(target), elapsed_ms, duration_ms))
=============================================================================
