------------------------- MODULE CommandPathProofs --------------------------
(***************************************************************************)
(* For every command with every value of its fields, every width of a      *)
(* byte, mailbox and order of the two tasks: the controller gets the calls *)
(* the host asked for.  What the host packs is read back field by field.   *)
(***************************************************************************)
EXTENDS CommandPath, TLAPS

-----------------------------------------------------------------------------
(* Numbers and their bytes.                                                *)

(* The number of values of two bytes.                                      *)
LEMMA Squared ==
    /\ ByteRange \in Nat /\ ByteRange > 1
    /\ ByteRange * ByteRange \in Nat /\ ByteRange * ByteRange > 0
<1>1. ByteRange \in Nat /\ ByteRange > 1
  BY PathAssumption
<1>2. \A x \in Nat : x > 1 => x * x \in Nat /\ x * x > 0
  OBVIOUS
<1> QED
  BY <1>1, <1>2

(* A quotient below the divisor has a digit of its own.                    *)
LEMMA TwoDigits ==
    ASSUME NEW r \in Nat, r > 0, NEW n \in 0 .. r * r - 1
    PROVE  /\ n % r \in 0 .. r - 1 /\ n \div r \in 0 .. r - 1
           /\ (n % r) + (n \div r) * r = n
<1> DEFINE q == n \div r  m == n % r
<1>1. q \in Int /\ m \in 0 .. r - 1 /\ n = r * q + m
  OBVIOUS
<1> HIDE DEF q, m
<1>2. q >= 0
  <2> SUFFICES ASSUME q <= -1 PROVE FALSE
    BY <1>1
  <2>1. r * q <= -r
    BY <1>1
  <2> QED
    BY <1>1, <2>1
<1>3. q < r
  <2> SUFFICES ASSUME q >= r PROVE FALSE
    BY <1>1
  <2>1. r * q >= r * r
    BY <1>1
  <2> QED
    BY <1>1, <2>1
<1>4. r * q = q * r
  BY <1>1
<1> QED
  BY <1>1, <1>2, <1>3, <1>4 DEF q, m

(* Where the bytes stand in the payload.                                   *)
Holds(data, at, bytes) ==
    /\ at + Len(bytes) <= Len(data)
    /\ \A i \in 1 .. Len(bytes) : data[at + i] = bytes[i]

(* Each part of what is packed stands behind the parts before it.          *)
LEMMA HoldsParts ==
    ASSUME NEW S, NEW data, Len(data) \in Nat, NEW at \in Nat,
           NEW s \in Seq(S), NEW t \in Seq(S), Holds(data, at, s \o t)
    PROVE  Holds(data, at, s) /\ Holds(data, at + Len(s), t)
<1>1. /\ Len(s) \in Nat /\ Len(t) \in Nat /\ Len(s \o t) = Len(s) + Len(t)
      /\ \A i \in 1 .. Len(s) : (s \o t)[i] = s[i]
      /\ \A i \in 1 .. Len(t) : (s \o t)[Len(s) + i] = t[i]
  OBVIOUS
<1>2. \A i \in 1 .. Len(s) : data[at + i] = s[i]
  BY <1>1 DEF Holds
<1>3. ASSUME NEW i \in 1 .. Len(t) PROVE data[at + Len(s) + i] = t[i]
  <2>1. Len(s) + i \in 1 .. Len(s \o t) /\ at + (Len(s) + i) = at + Len(s) + i
    BY <1>1
  <2>2. data[at + (Len(s) + i)] = (s \o t)[Len(s) + i]
    BY <2>1 DEF Holds
  <2> QED
    BY <1>1, <2>1, <2>2
<1> QED
  BY <1>1, <1>2, <1>3 DEF Holds

(* ReadLe16 reads what to_bytes wrote.                                     *)
LEMMA Reads16 ==
    ASSUME NEW data, Len(data) \in Nat, NEW at \in Nat, NEW n \in U16,
           Holds(data, at, ToBytes2(n))
    PROVE  ReadLe16(data, at) = n
<1>1. (n % ByteRange) + (n \div ByteRange) * ByteRange = n
  BY Squared, TwoDigits DEF U16
<1>2. Len(ToBytes2(n)) = 2 /\ ToBytes2(n)[1] = n % ByteRange
      /\ ToBytes2(n)[2] = n \div ByteRange
  BY DEF ToBytes2
<1>3. data[at + 1] = n % ByteRange /\ data[at + 2] = n \div ByteRange
      /\ at + 2 <= Len(data)
  BY <1>2 DEF Holds
<1>4. ReadByte(data, at) = n % ByteRange /\ ReadByte(data, at + 1) = n \div ByteRange
  BY <1>3 DEF ReadByte
<1> QED
  BY <1>1, <1>4 DEF ReadLe16

(* The halves of a number of four bytes.                                   *)
LEMMA HalvesOf ==
    ASSUME NEW n \in U32
    PROVE  /\ n % (ByteRange * ByteRange) \in U16 /\ n \div (ByteRange * ByteRange) \in U16
           /\ (n % (ByteRange * ByteRange))
                  + (n \div (ByteRange * ByteRange)) * (ByteRange * ByteRange) = n
<1> DEFINE s == ByteRange * ByteRange
<1>1. s \in Nat /\ s > 0 /\ s * s = ByteRange * ByteRange * ByteRange * ByteRange
  BY Squared
<1>2. n \in 0 .. s * s - 1
  BY <1>1 DEF U32
<1> QED
  BY <1>1, <1>2, TwoDigits DEF U16

(* Two bytes are numbers.                                                  *)
LEMMA DigitsType == \A n \in U16 : n % ByteRange \in Nat /\ n \div ByteRange \in Nat
BY Squared, TwoDigits DEF U16

(* The bytes are numbers.                                                  *)
LEMMA BytesType ==
    /\ \A n \in U16 : ToBytes2(n) \in Seq(Nat) /\ Len(ToBytes2(n)) = 2
    /\ \A n \in U32 : ToBytes4(n) \in Seq(Nat) /\ Len(ToBytes4(n)) = 4
<1>1. \A n \in U16 : ToBytes2(n) \in Seq(Nat) /\ Len(ToBytes2(n)) = 2
  BY DigitsType DEF ToBytes2
<1>2. ASSUME NEW n \in U32 PROVE ToBytes4(n) \in Seq(Nat) /\ Len(ToBytes4(n)) = 4
  <2>1. n % (ByteRange * ByteRange) \in U16 /\ n \div (ByteRange * ByteRange) \in U16
    BY HalvesOf
  <2> DEFINE low == ToBytes2(n % (ByteRange * ByteRange))
             high == ToBytes2(n \div (ByteRange * ByteRange))
  <2>2. low \in Seq(Nat) /\ high \in Seq(Nat) /\ Len(low) = 2 /\ Len(high) = 2
    BY <1>1, <2>1
  <2>3. ToBytes4(n) = low \o high
    BY DEF ToBytes4
  <2>4. \A s, t \in Seq(Nat) : s \o t \in Seq(Nat) /\ Len(s \o t) = Len(s) + Len(t)
    OBVIOUS
  <2> HIDE DEF low, high
  <2>5. low \o high \in Seq(Nat) /\ Len(low \o high) = 2 + 2
    BY <2>2, <2>4
  <2> QED
    BY <2>3, <2>5
<1> QED
  BY <1>1, <1>2

(* ReadLe32 reads what to_bytes wrote.                                     *)
LEMMA Reads32 ==
    ASSUME NEW data, Len(data) \in Nat, NEW at \in Nat, NEW n \in U32,
           Holds(data, at, ToBytes4(n))
    PROVE  ReadLe32(data, at) = n
<1> DEFINE r == ByteRange  m == n % (r * r)  q == n \div (r * r)
           low == ReadLe16(data, at)  high == ReadLe16(data, at + 2)
<1>1. m \in U16 /\ q \in U16 /\ m + q * (r * r) = n
  BY HalvesOf
<1>2. ToBytes2(m) \in Seq(Nat) /\ ToBytes2(q) \in Seq(Nat) /\ Len(ToBytes2(m)) = 2
  BY <1>1, BytesType
<1>3. Holds(data, at, ToBytes2(m)) /\ Holds(data, at + 2, ToBytes2(q))
  BY <1>2, HoldsParts DEF ToBytes4
<1>4. low = m /\ high = q
  BY <1>1, <1>3, Reads16
<1>5. \A i \in 0 .. 3 : ReadByte(data, at + i) \in Nat
  <2>1. Len(ToBytes2(q)) = 2 /\ at + 4 <= Len(data)
    BY <1>1, <1>3, BytesType DEF Holds
  <2>2. /\ data[at + 1] = m % r /\ data[at + 2] = m \div r
        /\ data[at + 3] = q % r /\ data[at + 4] = q \div r
    BY <1>2, <1>3, <2>1 DEF Holds, ToBytes2
  <2>3. m % r \in Nat /\ m \div r \in Nat /\ q % r \in Nat /\ q \div r \in Nat
    <3> HIDE DEF m, q
    <3> QED
      BY <1>1, DigitsType
  <2> QED
    BY <2>1, <2>2, <2>3 DEF ReadByte
<1>6. \A c, d \in Nat : (c + d * r) * (r * r) = c * (r * r) + d * (r * r * r)
  BY Squared
<1>7. /\ ReadByte(data, at) \in Nat /\ ReadByte(data, at + 1) \in Nat
      /\ ReadByte(data, at + 2) \in Nat /\ ReadByte(data, at + 3) \in Nat
      /\ at + 2 + 1 = at + 3
  BY <1>5
<1>8. high * (r * r) = ReadByte(data, at + 2) * (r * r) + ReadByte(data, at + 3) * (r * r * r)
  BY <1>6, <1>7 DEF ReadLe16
<1>9. ReadLe32(data, at) = low + high * (r * r)
  BY <1>7, <1>8, Squared DEF ReadLe16, ReadLe32
<1> QED
  BY <1>1, <1>4, <1>9

-----------------------------------------------------------------------------
(* Payloads.                                                               *)

(* A payload of two parts.                                                 *)
LEMMA TwoParts ==
    ASSUME NEW data, Len(data) \in Nat, NEW s \in Seq(Nat), NEW t \in Seq(Nat)
    PROVE  /\ s \o t \in Seq(Nat) /\ Len(s \o t) = Len(s) + Len(t)
           /\ Holds(data, 0, s \o t) => Holds(data, 0, s) /\ Holds(data, Len(s), t)
<1>1. s \o t \in Seq(Nat) /\ Len(s \o t) = Len(s) + Len(t) /\ 0 + Len(s) = Len(s)
  OBVIOUS
<1>2. Holds(data, 0, s \o t) => Holds(data, 0, s) /\ Holds(data, 0 + Len(s), t)
  BY HoldsParts
<1> QED
  BY <1>1, <1>2

(* A payload of three parts.                                               *)
LEMMA ThreeParts ==
    ASSUME NEW data, Len(data) \in Nat, NEW s \in Seq(Nat), NEW t \in Seq(Nat),
           NEW u \in Seq(Nat)
    PROVE  /\ s \o t \o u \in Seq(Nat) /\ Len(s \o t \o u) = Len(s) + Len(t) + Len(u)
           /\ Holds(data, 0, s \o t \o u) =>
                  /\ Holds(data, 0, s) /\ Holds(data, Len(s), t)
                  /\ Holds(data, Len(s) + Len(t), u)
<1> DEFINE st == s \o t
<1>1. /\ st \in Seq(Nat) /\ Len(st) = Len(s) + Len(t)
      /\ Holds(data, 0, st) => Holds(data, 0, s) /\ Holds(data, Len(s), t)
  BY TwoParts
<1> HIDE DEF st
<1>2. /\ st \o u \in Seq(Nat) /\ Len(st \o u) = Len(st) + Len(u)
      /\ Holds(data, 0, st \o u) => Holds(data, 0, st) /\ Holds(data, Len(st), u)
  BY <1>1, TwoParts
<1> QED
  BY <1>1, <1>2 DEF st

(* A payload of four parts.                                                *)
LEMMA FourParts ==
    ASSUME NEW data, Len(data) \in Nat, NEW s \in Seq(Nat), NEW t \in Seq(Nat),
           NEW u \in Seq(Nat), NEW w \in Seq(Nat)
    PROVE  /\ s \o t \o u \o w \in Seq(Nat)
           /\ Len(s \o t \o u \o w) = Len(s) + Len(t) + Len(u) + Len(w)
           /\ Holds(data, 0, s \o t \o u \o w) =>
                  /\ Holds(data, 0, s) /\ Holds(data, Len(s), t)
                  /\ Holds(data, Len(s) + Len(t), u)
                  /\ Holds(data, Len(s) + Len(t) + Len(u), w)
<1> DEFINE stu == s \o t \o u
<1>1. /\ stu \in Seq(Nat) /\ Len(stu) = Len(s) + Len(t) + Len(u)
      /\ Holds(data, 0, stu) => /\ Holds(data, 0, s) /\ Holds(data, Len(s), t)
                                /\ Holds(data, Len(s) + Len(t), u)
  BY ThreeParts
<1> HIDE DEF stu
<1>2. /\ stu \o w \in Seq(Nat) /\ Len(stu \o w) = Len(stu) + Len(w)
      /\ Holds(data, 0, stu \o w) => Holds(data, 0, stu) /\ Holds(data, Len(stu), w)
  BY <1>1, TwoParts
<1> QED
  BY <1>1, <1>2 DEF stu

(* Single bytes are read as they were written.                             *)
LEMMA ReadsBytes ==
    ASSUME NEW data, NEW at \in Nat, NEW bytes \in Seq(U8), Holds(data, at, bytes),
           Len(data) \in Nat, NEW i \in 1 .. Len(bytes)
    PROVE  ReadByte(data, at + i - 1) = bytes[i]
<1>1. data[at + i] = bytes[i] /\ at + i - 1 < Len(data) /\ at + i - 1 + 1 = at + i
  BY DEF Holds
<1> QED
  BY <1>1 DEF ReadByte

(* They are numbers.                                                       *)
LEMMA BytesAreNats ==
    ASSUME NEW bytes \in Seq(U8)
    PROVE  bytes \in Seq(Nat)
BY Squared DEF U8

(* A mark and five bytes.                                                  *)
LEMMA MarkAndFive ==
    ASSUME NEW data, Len(data) \in Nat, NEW mark \in U16, NEW b1 \in U8, NEW b2 \in U8,
           NEW b3 \in U8, NEW b4 \in U8, NEW b5 \in U8
    PROVE  LET p == ToBytes2(mark) \o <<b1, b2, b3, b4, b5>>
           IN  /\ p \in Seq(Nat) /\ Len(p) = 7
               /\ Holds(data, 0, p) =>
                      /\ ReadLe16(data, 0) = mark /\ ReadByte(data, 2) = b1
                      /\ ReadByte(data, 3) = b2 /\ ReadByte(data, 4) = b3
                      /\ ReadByte(data, 5) = b4 /\ ReadByte(data, 6) = b5
<1> DEFINE m == ToBytes2(mark)  bytes == <<b1, b2, b3, b4, b5>>
<1>1. m \in Seq(Nat) /\ Len(m) = 2
  BY BytesType
<1>2. bytes \in Seq(U8) /\ Len(bytes) = 5
  OBVIOUS
<1>3. ASSUME Holds(data, 0, m), Holds(data, 2, bytes)
      PROVE  /\ ReadLe16(data, 0) = mark /\ ReadByte(data, 2) = b1
             /\ ReadByte(data, 3) = b2 /\ ReadByte(data, 4) = b3
             /\ ReadByte(data, 5) = b4 /\ ReadByte(data, 6) = b5
  <2>1. ReadLe16(data, 0) = mark
    BY <1>3, Reads16
  <2>2. \A i \in 1 .. 5 : ReadByte(data, 2 + i - 1) = bytes[i]
    BY <1>2, <1>3, ReadsBytes
  <2> QED
    BY <2>1, <2>2
<1> HIDE DEF m, bytes
<1>4. m \o bytes \in Seq(Nat) /\ Len(m \o bytes) = 2 + 5
      /\ (Holds(data, 0, m \o bytes) => Holds(data, 0, m) /\ Holds(data, Len(m), bytes))
  <2>1. bytes \in Seq(Nat)
    BY <1>2, BytesAreNats
  <2> QED
    BY <1>1, <1>2, <2>1, TwoParts
<1> QED
  BY <1>1, <1>3, <1>4 DEF m, bytes

(* A mark and four bytes.                                                  *)
LEMMA MarkAndFour ==
    ASSUME NEW data, Len(data) \in Nat, NEW mark \in U16, NEW b1 \in U8, NEW b2 \in U8,
           NEW b3 \in U8, NEW b4 \in U8
    PROVE  LET p == ToBytes2(mark) \o <<b1, b2, b3, b4>>
           IN  /\ p \in Seq(Nat) /\ Len(p) = 6
               /\ Holds(data, 0, p) =>
                      /\ ReadLe16(data, 0) = mark /\ ReadByte(data, 2) = b1
                      /\ ReadByte(data, 3) = b2 /\ ReadByte(data, 4) = b3
                      /\ ReadByte(data, 5) = b4
<1> DEFINE m == ToBytes2(mark)  bytes == <<b1, b2, b3, b4>>
<1>1. m \in Seq(Nat) /\ Len(m) = 2
  BY BytesType
<1>2. bytes \in Seq(U8) /\ Len(bytes) = 4
  OBVIOUS
<1>3. ASSUME Holds(data, 0, m), Holds(data, 2, bytes)
      PROVE  /\ ReadLe16(data, 0) = mark /\ ReadByte(data, 2) = b1
             /\ ReadByte(data, 3) = b2 /\ ReadByte(data, 4) = b3
             /\ ReadByte(data, 5) = b4
  <2>1. ReadLe16(data, 0) = mark
    BY <1>3, Reads16
  <2>2. \A i \in 1 .. 4 : ReadByte(data, 2 + i - 1) = bytes[i]
    BY <1>2, <1>3, ReadsBytes
  <2> QED
    BY <2>1, <2>2
<1> HIDE DEF m, bytes
<1>4. m \o bytes \in Seq(Nat) /\ Len(m \o bytes) = 2 + 4
      /\ (Holds(data, 0, m \o bytes) => Holds(data, 0, m) /\ Holds(data, Len(m), bytes))
  <2>1. bytes \in Seq(Nat)
    BY <1>2, BytesAreNats
  <2> QED
    BY <1>1, <1>2, <2>1, TwoParts
<1> QED
  BY <1>1, <1>3, <1>4 DEF m, bytes

(* A payload that ends with a group.                                       *)
LEMMA EndsWithGroup ==
    ASSUME NEW data, Len(data) \in Nat, NEW s \in Seq(Nat), NEW g \in U32
    PROVE  /\ s \o ToBytes4(g) \in Seq(Nat) /\ Len(s \o ToBytes4(g)) = Len(s) + 4
           /\ Holds(data, 0, s \o ToBytes4(g)) =>
                  Holds(data, 0, s) /\ ReadLe32(data, Len(s)) = g
<1> DEFINE group == ToBytes4(g)
<1>1. group \in Seq(Nat) /\ Len(group) = 4
  BY BytesType
<1>2. Holds(data, Len(s), group) => ReadLe32(data, Len(s)) = g
  BY Reads32
<1> HIDE DEF group
<1>3. /\ s \o group \in Seq(Nat) /\ Len(s \o group) = Len(s) + Len(group)
      /\ Holds(data, 0, s \o group) => Holds(data, 0, s) /\ Holds(data, Len(s), group)
  BY <1>1, TwoParts
<1> QED
  BY <1>1, <1>2, <1>3 DEF group

(* What RunGroup packs.                                                    *)
LEMMA RunGroupParts ==
    ASSUME NEW data, Len(data) \in Nat, NEW parent \in U32, NEW mark \in U16,
           NEW target \in U32, NEW repeats \in U16
    PROVE  LET p == ToBytes4(parent) \o ToBytes2(mark) \o ToBytes4(target) \o ToBytes2(repeats)
           IN  /\ p \in Seq(Nat) /\ Len(p) = 12
               /\ Holds(data, 0, p) =>
                      /\ ReadLe32(data, 0) = parent /\ ReadLe16(data, 4) = mark
                      /\ ReadLe32(data, 6) = target /\ ReadLe16(data, 10) = repeats
<1> DEFINE s == ToBytes4(parent)  t == ToBytes2(mark)  u == ToBytes4(target)
           w == ToBytes2(repeats)
<1>1. /\ s \in Seq(Nat) /\ Len(s) = 4 /\ t \in Seq(Nat) /\ Len(t) = 2
      /\ u \in Seq(Nat) /\ Len(u) = 4 /\ w \in Seq(Nat) /\ Len(w) = 2
  BY BytesType
<1>2. /\ Holds(data, 0, s) => ReadLe32(data, 0) = parent
      /\ Holds(data, 4, t) => ReadLe16(data, 4) = mark
      /\ Holds(data, 6, u) => ReadLe32(data, 6) = target
      /\ Holds(data, 10, w) => ReadLe16(data, 10) = repeats
  BY Reads16, Reads32
<1> HIDE DEF s, t, u, w
<1>3. /\ s \o t \o u \o w \in Seq(Nat)
      /\ Len(s \o t \o u \o w) = Len(s) + Len(t) + Len(u) + Len(w)
      /\ Holds(data, 0, s \o t \o u \o w) =>
             /\ Holds(data, 0, s) /\ Holds(data, Len(s), t)
             /\ Holds(data, Len(s) + Len(t), u)
             /\ Holds(data, Len(s) + Len(t) + Len(u), w)
  BY <1>1, FourParts
<1>4. Len(s) + Len(t) = 6 /\ Len(s) + Len(t) + Len(u) = 10
      /\ Len(s) + Len(t) + Len(u) + Len(w) = 12
  BY <1>1
<1> QED
  BY <1>1, <1>2, <1>3, <1>4 DEF s, t, u, w

(* What Fade packs in front of the group.                                  *)
LEMMA FadeParts ==
    ASSUME NEW data, Len(data) \in Nat, NEW mark \in U16, NEW percent \in U16,
           NEW duration \in U16, NEW index \in U8
    PROVE  LET p == ToBytes2(mark) \o ToBytes2(percent) \o ToBytes2(duration) \o <<index>>
           IN  /\ p \in Seq(Nat) /\ Len(p) = 7
               /\ Holds(data, 0, p) =>
                      /\ ReadLe16(data, 0) = mark /\ ReadLe16(data, 2) = percent
                      /\ ReadLe16(data, 4) = duration /\ ReadByte(data, 6) = index
<1> DEFINE s == ToBytes2(mark)  t == ToBytes2(percent)  u == ToBytes2(duration)
           w == <<index>>
<1>1. /\ s \in Seq(Nat) /\ Len(s) = 2 /\ t \in Seq(Nat) /\ Len(t) = 2
      /\ u \in Seq(Nat) /\ Len(u) = 2
  BY BytesType
<1>2. w \in Seq(U8) /\ w \in Seq(Nat) /\ Len(w) = 1
  <2>1. w \in Seq(U8) /\ Len(w) = 1
    OBVIOUS
  <2> HIDE DEF w
  <2> QED
    BY <2>1, BytesAreNats
<1>3. /\ Holds(data, 0, s) => ReadLe16(data, 0) = mark
      /\ Holds(data, 2, t) => ReadLe16(data, 2) = percent
      /\ Holds(data, 4, u) => ReadLe16(data, 4) = duration
  BY Reads16
<1>4. ASSUME Holds(data, 6, w) PROVE ReadByte(data, 6) = index
  <2>1. \A i \in 1 .. 1 : ReadByte(data, 6 + i - 1) = w[i]
    BY <1>2, <1>4, ReadsBytes
  <2> QED
    BY <2>1
<1> HIDE DEF s, t, u, w
<1>5. /\ s \o t \o u \o w \in Seq(Nat)
      /\ Len(s \o t \o u \o w) = Len(s) + Len(t) + Len(u) + Len(w)
      /\ Holds(data, 0, s \o t \o u \o w) =>
             /\ Holds(data, 0, s) /\ Holds(data, Len(s), t)
             /\ Holds(data, Len(s) + Len(t), u)
             /\ Holds(data, Len(s) + Len(t) + Len(u), w)
  BY <1>1, <1>2, FourParts
<1>6. Len(s) + Len(t) = 4 /\ Len(s) + Len(t) + Len(u) = 6
      /\ Len(s) + Len(t) + Len(u) + Len(w) = 7
  BY <1>1, <1>2
<1> QED
  BY <1>1, <1>3, <1>4, <1>5, <1>6 DEF s, t, u, w

(* What Gradient packs in front of the group.                              *)
LEMMA GradientParts ==
    ASSUME NEW data, Len(data) \in Nat, NEW mark \in U16, NEW b1 \in U8, NEW b2 \in U8,
           NEW b3 \in U8, NEW duration \in U16, NEW index \in U8
    PROVE  LET p == ToBytes2(mark) \o <<b1, b2, b3>> \o ToBytes2(duration) \o <<index>>
           IN  /\ p \in Seq(Nat) /\ Len(p) = 8
               /\ Holds(data, 0, p) =>
                      /\ ReadLe16(data, 0) = mark /\ ReadByte(data, 2) = b1
                      /\ ReadByte(data, 3) = b2 /\ ReadByte(data, 4) = b3
                      /\ ReadLe16(data, 5) = duration /\ ReadByte(data, 7) = index
<1> DEFINE s == ToBytes2(mark)  t == <<b1, b2, b3>>  u == ToBytes2(duration)
           w == <<index>>
<1>1. s \in Seq(Nat) /\ Len(s) = 2 /\ u \in Seq(Nat) /\ Len(u) = 2
  BY BytesType
<1>2. /\ t \in Seq(U8) /\ t \in Seq(Nat) /\ Len(t) = 3
      /\ w \in Seq(U8) /\ w \in Seq(Nat) /\ Len(w) = 1
  <2>1. t \in Seq(U8) /\ Len(t) = 3 /\ w \in Seq(U8) /\ Len(w) = 1
    OBVIOUS
  <2> HIDE DEF t, w
  <2> QED
    BY <2>1, BytesAreNats
<1>3. /\ Holds(data, 0, s) => ReadLe16(data, 0) = mark
      /\ Holds(data, 5, u) => ReadLe16(data, 5) = duration
  BY Reads16
<1>4. ASSUME Holds(data, 2, t)
      PROVE  ReadByte(data, 2) = b1 /\ ReadByte(data, 3) = b2 /\ ReadByte(data, 4) = b3
  <2>1. \A i \in 1 .. 3 : ReadByte(data, 2 + i - 1) = t[i]
    BY <1>2, <1>4, ReadsBytes
  <2> QED
    BY <2>1
<1>5. ASSUME Holds(data, 7, w) PROVE ReadByte(data, 7) = index
  <2>1. \A i \in 1 .. 1 : ReadByte(data, 7 + i - 1) = w[i]
    BY <1>2, <1>5, ReadsBytes
  <2> QED
    BY <2>1
<1> HIDE DEF s, t, u, w
<1>6. /\ s \o t \o u \o w \in Seq(Nat)
      /\ Len(s \o t \o u \o w) = Len(s) + Len(t) + Len(u) + Len(w)
      /\ Holds(data, 0, s \o t \o u \o w) =>
             /\ Holds(data, 0, s) /\ Holds(data, Len(s), t)
             /\ Holds(data, Len(s) + Len(t), u)
             /\ Holds(data, Len(s) + Len(t) + Len(u), w)
  BY <1>1, <1>2, FourParts
<1>7. Len(s) + Len(t) = 5 /\ Len(s) + Len(t) + Len(u) = 7
      /\ Len(s) + Len(t) + Len(u) + Len(w) = 8
  BY <1>1, <1>2
<1> QED
  BY <1>1, <1>3, <1>4, <1>5, <1>6, <1>7 DEF s, t, u, w

-----------------------------------------------------------------------------
(* Commands.                                                               *)

(* Data that begins with the payload of a, which has n bytes, is read as a. *)
IsReadBack(tag, n) ==
    \A data, a : a \in HostValues(tag) /\ Len(data) \in Nat =>
        /\ HostPayload(tag, a) \in Seq(Nat)
        /\ Len(HostPayload(tag, a)) = n
        /\ Holds(data, 0, HostPayload(tag, a)) => Reads(tag, data) = a

(* An RGB colour for a range of pixels.                                    *)
LEMMA SetMultipleColorIsReadBack == IsReadBack("kSetMultipleColor", 7)
<1> SUFFICES ASSUME NEW data, Len(data) \in Nat, NEW a \in HostValues("kSetMultipleColor")
             PROVE  /\ HostPayload("kSetMultipleColor", a) \in Seq(Nat)
                    /\ Len(HostPayload("kSetMultipleColor", a)) = 7
                    /\ Holds(data, 0, HostPayload("kSetMultipleColor", a)) =>
                           Reads("kSetMultipleColor", data) = a
  BY DEF IsReadBack
<1>1. a \in [mark : U16, r : U8, g : U8, b : U8, start : U8, end : U8]
  BY DEF HostValues
<1> DEFINE p == ToBytes2(a.mark) \o <<a.r, a.g, a.b, a.start, a.end>>
<1>2. HostPayload("kSetMultipleColor", a) = p
  BY DEF HostPayload
<1>3. Reads("kSetMultipleColor", data) = HandleSetMultipleColor(data)
  BY DEF Reads
<1>4. /\ a.mark \in U16 /\ a.r \in U8 /\ a.g \in U8 /\ a.b \in U8 /\ a.start \in U8
      /\ a.end \in U8
      /\ a = [mark |-> a.mark, r |-> a.r, g |-> a.g, b |-> a.b, start |-> a.start,
              end |-> a.end]
  BY <1>1
<1>5. /\ p \in Seq(Nat) /\ Len(p) = 7
      /\ Holds(data, 0, p) => HandleSetMultipleColor(data) = a
  BY <1>4, MarkAndFive DEF HandleSetMultipleColor
<1> HIDE DEF p
<1> QED
  BY <1>2, <1>3, <1>5

(* An RGB colour for a range of pixels in a group.                         *)
LEMMA SetMultipleColorGroupedIsReadBack == IsReadBack("kSetMultipleColorGrouped", 11)
<1> SUFFICES ASSUME NEW data, Len(data) \in Nat, NEW a \in HostValues("kSetMultipleColorGrouped")
             PROVE  /\ HostPayload("kSetMultipleColorGrouped", a) \in Seq(Nat)
                    /\ Len(HostPayload("kSetMultipleColorGrouped", a)) = 11
                    /\ Holds(data, 0, HostPayload("kSetMultipleColorGrouped", a)) =>
                           Reads("kSetMultipleColorGrouped", data) = a
  BY DEF IsReadBack
<1>1. a \in [mark : U16, r : U8, g : U8, b : U8, start : U8, end : U8, group_id : U32]
  BY DEF HostValues
<1> DEFINE s == ToBytes2(a.mark) \o <<a.r, a.g, a.b, a.start, a.end>>
           p == s \o ToBytes4(a.group_id)
<1>2. HostPayload("kSetMultipleColorGrouped", a) = p
  BY DEF HostPayload
<1>3. Reads("kSetMultipleColorGrouped", data) = HandleSetMultipleColorGrouped(data)
  BY DEF Reads
<1>4. /\ a.mark \in U16 /\ a.r \in U8 /\ a.g \in U8 /\ a.b \in U8 /\ a.start \in U8
      /\ a.end \in U8 /\ a.group_id \in U32
      /\ a = [mark |-> a.mark, r |-> a.r, g |-> a.g, b |-> a.b, start |-> a.start,
              end |-> a.end, group_id |-> a.group_id]
  BY <1>1
<1>5. /\ s \in Seq(Nat) /\ Len(s) = 7
      /\ Holds(data, 0, s) =>
             /\ ReadLe16(data, 0) = a.mark /\ ReadByte(data, 2) = a.r
             /\ ReadByte(data, 3) = a.g /\ ReadByte(data, 4) = a.b
             /\ ReadByte(data, 5) = a.start /\ ReadByte(data, 6) = a.end
  BY <1>4, MarkAndFive
<1>6. /\ s \o ToBytes4(a.group_id) \in Seq(Nat)
      /\ Len(s \o ToBytes4(a.group_id)) = Len(s) + 4
      /\ Holds(data, 0, s \o ToBytes4(a.group_id)) =>
             Holds(data, 0, s) /\ ReadLe32(data, Len(s)) = a.group_id
  <2>1. s \in Seq(Nat) /\ a.group_id \in U32
    BY <1>4, <1>5
  <2> HIDE DEF s
  <2> QED
    BY <2>1, EndsWithGroup, Zenon
<1>7. /\ p \in Seq(Nat) /\ Len(p) = 11
      /\ Holds(data, 0, p) => HandleSetMultipleColorGrouped(data) = a
  <2> HIDE DEF s
  <2> QED
    BY <1>4, <1>5, <1>6 DEF HandleSetMultipleColorGrouped
<1> HIDE DEF p
<1> QED
  BY <1>2, <1>3, <1>7

(* An RGB colour for one pixel.                                            *)
LEMMA SetSingleColorIsReadBack == IsReadBack("kSetSingleColor", 6)
<1> SUFFICES ASSUME NEW data, Len(data) \in Nat, NEW a \in HostValues("kSetSingleColor")
             PROVE  /\ HostPayload("kSetSingleColor", a) \in Seq(Nat)
                    /\ Len(HostPayload("kSetSingleColor", a)) = 6
                    /\ Holds(data, 0, HostPayload("kSetSingleColor", a)) =>
                           Reads("kSetSingleColor", data) = a
  BY DEF IsReadBack
<1>1. a \in [mark : U16, r : U8, g : U8, b : U8, index : U8]
  BY DEF HostValues
<1> DEFINE p == ToBytes2(a.mark) \o <<a.r, a.g, a.b, a.index>>
<1>2. HostPayload("kSetSingleColor", a) = p
  BY DEF HostPayload
<1>3. Reads("kSetSingleColor", data) = HandleSetSingleColor(data)
  BY DEF Reads
<1>4. /\ a.mark \in U16 /\ a.r \in U8 /\ a.g \in U8 /\ a.b \in U8 /\ a.index \in U8
      /\ a = [mark |-> a.mark, r |-> a.r, g |-> a.g, b |-> a.b, index |-> a.index]
  BY <1>1
<1>5. /\ p \in Seq(Nat) /\ Len(p) = 6
      /\ Holds(data, 0, p) => HandleSetSingleColor(data) = a
  BY <1>4, MarkAndFour DEF HandleSetSingleColor
<1> HIDE DEF p
<1> QED
  BY <1>2, <1>3, <1>5

(* An RGB colour for one pixel in a group.                                 *)
LEMMA SetSingleColorGroupedIsReadBack == IsReadBack("kSetSingleColorGrouped", 10)
<1> SUFFICES ASSUME NEW data, Len(data) \in Nat, NEW a \in HostValues("kSetSingleColorGrouped")
             PROVE  /\ HostPayload("kSetSingleColorGrouped", a) \in Seq(Nat)
                    /\ Len(HostPayload("kSetSingleColorGrouped", a)) = 10
                    /\ Holds(data, 0, HostPayload("kSetSingleColorGrouped", a)) =>
                           Reads("kSetSingleColorGrouped", data) = a
  BY DEF IsReadBack
<1>1. a \in [mark : U16, r : U8, g : U8, b : U8, index : U8, group_id : U32]
  BY DEF HostValues
<1> DEFINE s == ToBytes2(a.mark) \o <<a.r, a.g, a.b, a.index>>
           p == s \o ToBytes4(a.group_id)
<1>2. HostPayload("kSetSingleColorGrouped", a) = p
  BY DEF HostPayload
<1>3. Reads("kSetSingleColorGrouped", data) = HandleSetSingleColorGrouped(data)
  BY DEF Reads
<1>4. /\ a.mark \in U16 /\ a.r \in U8 /\ a.g \in U8 /\ a.b \in U8 /\ a.index \in U8
      /\ a.group_id \in U32
      /\ a = [mark |-> a.mark, r |-> a.r, g |-> a.g, b |-> a.b, index |-> a.index,
              group_id |-> a.group_id]
  BY <1>1
<1>5. /\ s \in Seq(Nat) /\ Len(s) = 6
      /\ Holds(data, 0, s) =>
             /\ ReadLe16(data, 0) = a.mark /\ ReadByte(data, 2) = a.r
             /\ ReadByte(data, 3) = a.g /\ ReadByte(data, 4) = a.b
             /\ ReadByte(data, 5) = a.index
  BY <1>4, MarkAndFour
<1>6. /\ s \o ToBytes4(a.group_id) \in Seq(Nat)
      /\ Len(s \o ToBytes4(a.group_id)) = Len(s) + 4
      /\ Holds(data, 0, s \o ToBytes4(a.group_id)) =>
             Holds(data, 0, s) /\ ReadLe32(data, Len(s)) = a.group_id
  <2>1. s \in Seq(Nat) /\ a.group_id \in U32
    BY <1>4, <1>5
  <2> HIDE DEF s
  <2> QED
    BY <2>1, EndsWithGroup, Zenon
<1>7. /\ p \in Seq(Nat) /\ Len(p) = 10
      /\ Holds(data, 0, p) => HandleSetSingleColorGrouped(data) = a
  <2> HIDE DEF s
  <2> QED
    BY <1>4, <1>5, <1>6 DEF HandleSetSingleColorGrouped
<1> HIDE DEF p
<1> QED
  BY <1>2, <1>3, <1>7

(* An HSV colour for a range of pixels.                                    *)
LEMMA SetMultipleColorHsvIsReadBack == IsReadBack("kSetMultipleColorHsv", 7)
<1> SUFFICES ASSUME NEW data, Len(data) \in Nat, NEW a \in HostValues("kSetMultipleColorHsv")
             PROVE  /\ HostPayload("kSetMultipleColorHsv", a) \in Seq(Nat)
                    /\ Len(HostPayload("kSetMultipleColorHsv", a)) = 7
                    /\ Holds(data, 0, HostPayload("kSetMultipleColorHsv", a)) =>
                           Reads("kSetMultipleColorHsv", data) = a
  BY DEF IsReadBack
<1>1. a \in [mark : U16, h : U8, s : U8, v : U8, start : U8, end : U8]
  BY DEF HostValues
<1> DEFINE p == ToBytes2(a.mark) \o <<a.h, a.s, a.v, a.start, a.end>>
<1>2. HostPayload("kSetMultipleColorHsv", a) = p
  BY DEF HostPayload
<1>3. Reads("kSetMultipleColorHsv", data) = HandleSetMultipleColorHsv(data)
  BY DEF Reads
<1>4. /\ a.mark \in U16 /\ a.h \in U8 /\ a.s \in U8 /\ a.v \in U8 /\ a.start \in U8
      /\ a.end \in U8
      /\ a = [mark |-> a.mark, h |-> a.h, s |-> a.s, v |-> a.v, start |-> a.start,
              end |-> a.end]
  BY <1>1
<1>5. /\ p \in Seq(Nat) /\ Len(p) = 7
      /\ Holds(data, 0, p) => HandleSetMultipleColorHsv(data) = a
  BY <1>4, MarkAndFive DEF HandleSetMultipleColorHsv
<1> HIDE DEF p
<1> QED
  BY <1>2, <1>3, <1>5

(* An HSV colour for a range of pixels in a group.                         *)
LEMMA SetMultipleColorHsvGroupedIsReadBack == IsReadBack("kSetMultipleColorHsvGrouped", 11)
<1> SUFFICES ASSUME NEW data, Len(data) \in Nat,
                    NEW a \in HostValues("kSetMultipleColorHsvGrouped")
             PROVE  /\ HostPayload("kSetMultipleColorHsvGrouped", a) \in Seq(Nat)
                    /\ Len(HostPayload("kSetMultipleColorHsvGrouped", a)) = 11
                    /\ Holds(data, 0, HostPayload("kSetMultipleColorHsvGrouped", a)) =>
                           Reads("kSetMultipleColorHsvGrouped", data) = a
  BY DEF IsReadBack
<1>1. a \in [mark : U16, h : U8, s : U8, v : U8, start : U8, end : U8, group_id : U32]
  BY DEF HostValues
<1> DEFINE s == ToBytes2(a.mark) \o <<a.h, a.s, a.v, a.start, a.end>>
           p == s \o ToBytes4(a.group_id)
<1>2. HostPayload("kSetMultipleColorHsvGrouped", a) = p
  BY DEF HostPayload
<1>3. Reads("kSetMultipleColorHsvGrouped", data) = HandleSetMultipleColorHsvGrouped(data)
  BY DEF Reads
<1>4. /\ a.mark \in U16 /\ a.h \in U8 /\ a.s \in U8 /\ a.v \in U8 /\ a.start \in U8
      /\ a.end \in U8 /\ a.group_id \in U32
      /\ a = [mark |-> a.mark, h |-> a.h, s |-> a.s, v |-> a.v, start |-> a.start,
              end |-> a.end, group_id |-> a.group_id]
  BY <1>1
<1>5. /\ s \in Seq(Nat) /\ Len(s) = 7
      /\ Holds(data, 0, s) =>
             /\ ReadLe16(data, 0) = a.mark /\ ReadByte(data, 2) = a.h
             /\ ReadByte(data, 3) = a.s /\ ReadByte(data, 4) = a.v
             /\ ReadByte(data, 5) = a.start /\ ReadByte(data, 6) = a.end
  BY <1>4, MarkAndFive
<1>6. /\ s \o ToBytes4(a.group_id) \in Seq(Nat)
      /\ Len(s \o ToBytes4(a.group_id)) = Len(s) + 4
      /\ Holds(data, 0, s \o ToBytes4(a.group_id)) =>
             Holds(data, 0, s) /\ ReadLe32(data, Len(s)) = a.group_id
  <2>1. s \in Seq(Nat) /\ a.group_id \in U32
    BY <1>4, <1>5
  <2> HIDE DEF s
  <2> QED
    BY <2>1, EndsWithGroup, Zenon
<1>7. /\ p \in Seq(Nat) /\ Len(p) = 11
      /\ Holds(data, 0, p) => HandleSetMultipleColorHsvGrouped(data) = a
  <2> HIDE DEF s
  <2> QED
    BY <1>4, <1>5, <1>6 DEF HandleSetMultipleColorHsvGrouped
<1> HIDE DEF p
<1> QED
  BY <1>2, <1>3, <1>7

(* An HSV colour for one pixel.                                            *)
LEMMA SetSingleColorHsvIsReadBack == IsReadBack("kSetSingleColorHsv", 6)
<1> SUFFICES ASSUME NEW data, Len(data) \in Nat, NEW a \in HostValues("kSetSingleColorHsv")
             PROVE  /\ HostPayload("kSetSingleColorHsv", a) \in Seq(Nat)
                    /\ Len(HostPayload("kSetSingleColorHsv", a)) = 6
                    /\ Holds(data, 0, HostPayload("kSetSingleColorHsv", a)) =>
                           Reads("kSetSingleColorHsv", data) = a
  BY DEF IsReadBack
<1>1. a \in [mark : U16, h : U8, s : U8, v : U8, index : U8]
  BY DEF HostValues
<1> DEFINE p == ToBytes2(a.mark) \o <<a.h, a.s, a.v, a.index>>
<1>2. HostPayload("kSetSingleColorHsv", a) = p
  BY DEF HostPayload
<1>3. Reads("kSetSingleColorHsv", data) = HandleSetSingleColorHsv(data)
  BY DEF Reads
<1>4. /\ a.mark \in U16 /\ a.h \in U8 /\ a.s \in U8 /\ a.v \in U8 /\ a.index \in U8
      /\ a = [mark |-> a.mark, h |-> a.h, s |-> a.s, v |-> a.v, index |-> a.index]
  BY <1>1
<1>5. /\ p \in Seq(Nat) /\ Len(p) = 6
      /\ Holds(data, 0, p) => HandleSetSingleColorHsv(data) = a
  BY <1>4, MarkAndFour DEF HandleSetSingleColorHsv
<1> HIDE DEF p
<1> QED
  BY <1>2, <1>3, <1>5

(* An HSV colour for one pixel in a group.                                 *)
LEMMA SetSingleColorHsvGroupedIsReadBack == IsReadBack("kSetSingleColorHsvGrouped", 10)
<1> SUFFICES ASSUME NEW data, Len(data) \in Nat, NEW a \in HostValues("kSetSingleColorHsvGrouped")
             PROVE  /\ HostPayload("kSetSingleColorHsvGrouped", a) \in Seq(Nat)
                    /\ Len(HostPayload("kSetSingleColorHsvGrouped", a)) = 10
                    /\ Holds(data, 0, HostPayload("kSetSingleColorHsvGrouped", a)) =>
                           Reads("kSetSingleColorHsvGrouped", data) = a
  BY DEF IsReadBack
<1>1. a \in [mark : U16, h : U8, s : U8, v : U8, index : U8, group_id : U32]
  BY DEF HostValues
<1> DEFINE s == ToBytes2(a.mark) \o <<a.h, a.s, a.v, a.index>>
           p == s \o ToBytes4(a.group_id)
<1>2. HostPayload("kSetSingleColorHsvGrouped", a) = p
  BY DEF HostPayload
<1>3. Reads("kSetSingleColorHsvGrouped", data) = HandleSetSingleColorHsvGrouped(data)
  BY DEF Reads
<1>4. /\ a.mark \in U16 /\ a.h \in U8 /\ a.s \in U8 /\ a.v \in U8 /\ a.index \in U8
      /\ a.group_id \in U32
      /\ a = [mark |-> a.mark, h |-> a.h, s |-> a.s, v |-> a.v, index |-> a.index,
              group_id |-> a.group_id]
  BY <1>1
<1>5. /\ s \in Seq(Nat) /\ Len(s) = 6
      /\ Holds(data, 0, s) =>
             /\ ReadLe16(data, 0) = a.mark /\ ReadByte(data, 2) = a.h
             /\ ReadByte(data, 3) = a.s /\ ReadByte(data, 4) = a.v
             /\ ReadByte(data, 5) = a.index
  BY <1>4, MarkAndFour
<1>6. /\ s \o ToBytes4(a.group_id) \in Seq(Nat)
      /\ Len(s \o ToBytes4(a.group_id)) = Len(s) + 4
      /\ Holds(data, 0, s \o ToBytes4(a.group_id)) =>
             Holds(data, 0, s) /\ ReadLe32(data, Len(s)) = a.group_id
  <2>1. s \in Seq(Nat) /\ a.group_id \in U32
    BY <1>4, <1>5
  <2> HIDE DEF s
  <2> QED
    BY <2>1, EndsWithGroup, Zenon
<1>7. /\ p \in Seq(Nat) /\ Len(p) = 10
      /\ Holds(data, 0, p) => HandleSetSingleColorHsvGrouped(data) = a
  <2> HIDE DEF s
  <2> QED
    BY <1>4, <1>5, <1>6 DEF HandleSetSingleColorHsvGrouped
<1> HIDE DEF p
<1> QED
  BY <1>2, <1>3, <1>7

(* The start of a program.                                                 *)
LEMMA StartIsReadBack == IsReadBack("kStart", 2)
<1> SUFFICES ASSUME NEW data, Len(data) \in Nat,
                    NEW a \in [root_additional_repeats : U16]
             PROVE  LET p == ToBytes2(a.root_additional_repeats)
                    IN  /\ p \in Seq(Nat) /\ Len(p) = 2
                        /\ Holds(data, 0, p) => HandleStart(data) = a
  BY DEF IsReadBack, HostValues, HostPayload, Reads
<1>1. /\ a.root_additional_repeats \in U16
      /\ a = [root_additional_repeats |-> a.root_additional_repeats]
  OBVIOUS
<1> QED
  BY <1>1, BytesType, Reads16 DEF HandleStart

(* Commands without a payload.                                             *)
LEMMA EmptyIsReadBack == IsReadBack("kResetInstructions", 0) /\ IsReadBack("kRun", 0)
<1>1. <<>> \in Seq(Nat) /\ Len(<<>>) = 0
  OBVIOUS
<1> QED
  BY <1>1 DEF IsReadBack, HostValues, HostPayload, Reads, Nothing

(* A call of a group.                                                      *)
LEMMA RunGroupIsReadBack == IsReadBack("kRunGroup", 12)
<1> SUFFICES ASSUME NEW data, Len(data) \in Nat, NEW a \in HostValues("kRunGroup")
             PROVE  /\ HostPayload("kRunGroup", a) \in Seq(Nat)
                    /\ Len(HostPayload("kRunGroup", a)) = 12
                    /\ Holds(data, 0, HostPayload("kRunGroup", a)) =>
                           Reads("kRunGroup", data) = a
  BY DEF IsReadBack
<1>1. a \in [parent_group_id : U32, mark : U16, target_group_id : U32,
             additional_repeats : U16]
  BY DEF HostValues
<1> DEFINE p == ToBytes4(a.parent_group_id) \o ToBytes2(a.mark)
                    \o ToBytes4(a.target_group_id) \o ToBytes2(a.additional_repeats)
<1>2. HostPayload("kRunGroup", a) = p
  BY DEF HostPayload
<1>3. Reads("kRunGroup", data) = HandleRunGroup(data)
  BY DEF Reads
<1>4. /\ a.parent_group_id \in U32 /\ a.mark \in U16 /\ a.target_group_id \in U32
      /\ a.additional_repeats \in U16
      /\ a = [parent_group_id |-> a.parent_group_id, mark |-> a.mark,
              target_group_id |-> a.target_group_id,
              additional_repeats |-> a.additional_repeats]
  BY <1>1
<1>5. /\ p \in Seq(Nat) /\ Len(p) = 12
      /\ Holds(data, 0, p) => HandleRunGroup(data) = a
  BY <1>4, RunGroupParts DEF HandleRunGroup
<1> HIDE DEF p
<1> QED
  BY <1>2, <1>3, <1>5

(* A fade of one pixel in a group.                                         *)
LEMMA FadeIsReadBack == IsReadBack("kFade", 11)
<1> SUFFICES ASSUME NEW data, Len(data) \in Nat, NEW a \in HostValues("kFade")
             PROVE  /\ HostPayload("kFade", a) \in Seq(Nat)
                    /\ Len(HostPayload("kFade", a)) = 11
                    /\ Holds(data, 0, HostPayload("kFade", a)) =>
                           Reads("kFade", data) = a
  BY DEF IsReadBack
<1>1. a \in [mark : U16, percent : U16, duration_ms : U16, index : U8, group_id : U32]
  BY DEF HostValues
<1> DEFINE s == ToBytes2(a.mark) \o ToBytes2(a.percent) \o ToBytes2(a.duration_ms) \o <<a.index>>
           p == s \o ToBytes4(a.group_id)
<1>2. HostPayload("kFade", a) = p
  BY DEF HostPayload
<1>3. Reads("kFade", data) = HandleFade(data)
  BY DEF Reads
<1>4. /\ a.mark \in U16 /\ a.percent \in U16 /\ a.duration_ms \in U16 /\ a.index \in U8
      /\ a.group_id \in U32
      /\ a = [mark |-> a.mark, percent |-> a.percent, duration_ms |-> a.duration_ms,
              index |-> a.index, group_id |-> a.group_id]
  BY <1>1
<1>5. /\ s \in Seq(Nat) /\ Len(s) = 7
      /\ Holds(data, 0, s) =>
             /\ ReadLe16(data, 0) = a.mark /\ ReadLe16(data, 2) = a.percent
             /\ ReadLe16(data, 4) = a.duration_ms /\ ReadByte(data, 6) = a.index
  BY <1>4, FadeParts
<1>6. /\ s \o ToBytes4(a.group_id) \in Seq(Nat)
      /\ Len(s \o ToBytes4(a.group_id)) = Len(s) + 4
      /\ Holds(data, 0, s \o ToBytes4(a.group_id)) =>
             Holds(data, 0, s) /\ ReadLe32(data, Len(s)) = a.group_id
  <2>1. s \in Seq(Nat) /\ a.group_id \in U32
    BY <1>4, <1>5
  <2> HIDE DEF s
  <2> QED
    BY <2>1, EndsWithGroup, Zenon
<1>7. /\ p \in Seq(Nat) /\ Len(p) = 11
      /\ Holds(data, 0, p) => HandleFade(data) = a
  <2> HIDE DEF s
  <2> QED
    BY <1>4, <1>5, <1>6 DEF HandleFade
<1> HIDE DEF p
<1> QED
  BY <1>2, <1>3, <1>7

(* A gradient of one pixel in a group.                                     *)
LEMMA GradientIsReadBack == IsReadBack("kGradient", 12)
<1> SUFFICES ASSUME NEW data, Len(data) \in Nat, NEW a \in HostValues("kGradient")
             PROVE  /\ HostPayload("kGradient", a) \in Seq(Nat)
                    /\ Len(HostPayload("kGradient", a)) = 12
                    /\ Holds(data, 0, HostPayload("kGradient", a)) =>
                           Reads("kGradient", data) = a
  BY DEF IsReadBack
<1>1. a \in [mark : U16, r : U8, g : U8, b : U8, duration_ms : U16, index : U8,
             group_id : U32]
  BY DEF HostValues
<1> DEFINE s == ToBytes2(a.mark) \o <<a.r, a.g, a.b>> \o ToBytes2(a.duration_ms)
                    \o <<a.index>>
           p == s \o ToBytes4(a.group_id)
<1>2. HostPayload("kGradient", a) = p
  BY DEF HostPayload
<1>3. Reads("kGradient", data) = HandleGradient(data)
  BY DEF Reads
<1>4. /\ a.mark \in U16 /\ a.r \in U8 /\ a.g \in U8 /\ a.b \in U8 /\ a.duration_ms \in U16
      /\ a.index \in U8 /\ a.group_id \in U32
      /\ a = [mark |-> a.mark, r |-> a.r, g |-> a.g, b |-> a.b,
              duration_ms |-> a.duration_ms, index |-> a.index, group_id |-> a.group_id]
  BY <1>1
<1>5. /\ s \in Seq(Nat) /\ Len(s) = 8
      /\ Holds(data, 0, s) =>
             /\ ReadLe16(data, 0) = a.mark /\ ReadByte(data, 2) = a.r
             /\ ReadByte(data, 3) = a.g /\ ReadByte(data, 4) = a.b
             /\ ReadLe16(data, 5) = a.duration_ms /\ ReadByte(data, 7) = a.index
  BY <1>4, GradientParts
<1>6. /\ s \o ToBytes4(a.group_id) \in Seq(Nat)
      /\ Len(s \o ToBytes4(a.group_id)) = Len(s) + 4
      /\ Holds(data, 0, s \o ToBytes4(a.group_id)) =>
             Holds(data, 0, s) /\ ReadLe32(data, Len(s)) = a.group_id
  <2>1. s \in Seq(Nat) /\ a.group_id \in U32
    BY <1>4, <1>5
  <2> HIDE DEF s
  <2> QED
    BY <2>1, EndsWithGroup, Zenon
<1>7. /\ p \in Seq(Nat) /\ Len(p) = 12
      /\ Holds(data, 0, p) => HandleGradient(data) = a
  <2> HIDE DEF s
  <2> QED
    BY <1>4, <1>5, <1>6 DEF HandleGradient
<1> HIDE DEF p
<1> QED
  BY <1>2, <1>3, <1>7

(* The fourteen commands.                                                  *)
LEMMA TagList ==
    Tags = {"kSetMultipleColor", "kSetSingleColor", "kResetInstructions", "kRun",
            "kSetSingleColorHsv", "kSetMultipleColorHsv", "kSetMultipleColorGrouped",
            "kSetSingleColorGrouped", "kSetSingleColorHsvGrouped",
            "kSetMultipleColorHsvGrouped", "kRunGroup", "kStart", "kFade", "kGradient"}
BY DEF Tags, RegisteredTags

(* The length the handler of the tag expects.                              *)
PayloadLength(tag) == IF tag \in DOMAIN ExactLength THEN ExactLength[tag] ELSE MinLength[tag]

(* It is the length the host packs, and the handler reads what was packed. *)
LEMMA EveryTagIsReadBack ==
    ASSUME NEW tag \in Tags
    PROVE  IsReadBack(tag, PayloadLength(tag)) /\ PayloadLength(tag) \in Nat
<1>1. CASE tag = "kSetMultipleColor"
  BY <1>1, SetMultipleColorIsReadBack DEF PayloadLength, ExactLength, MinLength
<1>2. CASE tag = "kSetSingleColor"
  BY <1>2, SetSingleColorIsReadBack DEF PayloadLength, ExactLength, MinLength
<1>3. CASE tag \in {"kResetInstructions", "kRun"}
  BY <1>3, EmptyIsReadBack DEF PayloadLength, ExactLength, MinLength
<1>4. CASE tag = "kSetSingleColorHsv"
  BY <1>4, SetSingleColorHsvIsReadBack DEF PayloadLength, ExactLength, MinLength
<1>5. CASE tag = "kSetMultipleColorHsv"
  BY <1>5, SetMultipleColorHsvIsReadBack DEF PayloadLength, ExactLength, MinLength
<1>6. CASE tag = "kSetMultipleColorGrouped"
  BY <1>6, SetMultipleColorGroupedIsReadBack DEF PayloadLength, ExactLength
<1>7. CASE tag = "kSetSingleColorGrouped"
  BY <1>7, SetSingleColorGroupedIsReadBack DEF PayloadLength, ExactLength
<1>8. CASE tag = "kSetSingleColorHsvGrouped"
  BY <1>8, SetSingleColorHsvGroupedIsReadBack DEF PayloadLength, ExactLength
<1>9. CASE tag = "kSetMultipleColorHsvGrouped"
  BY <1>9, SetMultipleColorHsvGroupedIsReadBack DEF PayloadLength, ExactLength
<1>10. CASE tag = "kRunGroup"
  BY <1>10, RunGroupIsReadBack DEF PayloadLength, ExactLength
<1>11. CASE tag = "kStart"
  BY <1>11, StartIsReadBack DEF PayloadLength, ExactLength
<1>12. CASE tag = "kFade"
  BY <1>12, FadeIsReadBack DEF PayloadLength, ExactLength
<1>13. CASE tag = "kGradient"
  BY <1>13, GradientIsReadBack DEF PayloadLength, ExactLength
<1> QED
  BY <1>1, <1>2, <1>3, <1>4, <1>5, <1>6, <1>7, <1>8, <1>9, <1>10, <1>11, <1>12, <1>13,
     TagList, Zenon

(* The message a command becomes.                                          *)
Message(c) == [cmd |-> c.tag, payload |-> c.values]

(* A whole payload, also with another byte behind it, is decoded as the    *)
(* command that was packed.                                                *)
LEMMA WholeIsDecoded ==
    ASSUME NEW c \in Commands
    PROVE  LET p == HostPayload(c.tag, c.values)
           IN  /\ p \in Seq(Nat) /\ Len(p) = PayloadLength(c.tag) /\ Len(p) \in Nat
               /\ Decode(c.tag, p) = Message(c)
               /\ Decode(c.tag, Append(p, 0)) = Message(c)
<1> DEFINE p == HostPayload(c.tag, c.values)
<1>1. c.tag \in Tags /\ c.values \in HostValues(c.tag)
  BY CommandAssumption
<1>2. IsReadBack(c.tag, PayloadLength(c.tag)) /\ PayloadLength(c.tag) \in Nat
  BY <1>1, EveryTagIsReadBack
<1>3. /\ p \in Seq(Nat) /\ Len(p) = PayloadLength(c.tag)
      /\ \A data : Len(data) \in Nat /\ Holds(data, 0, p) => Reads(c.tag, data) = c.values
  <2>1. Len(<<>>) \in Nat
    OBVIOUS
  <2> QED
    BY <1>1, <1>2, <2>1 DEF IsReadBack
<1> HIDE DEF p
<1>4. Len(p) \in Nat /\ Holds(p, 0, p)
  BY <1>2, <1>3 DEF Holds
<1>5. Len(Append(p, 0)) \in Nat /\ Holds(Append(p, 0), 0, p)
  BY <1>3 DEF Holds
<1>6. Reads(c.tag, p) = c.values /\ Reads(c.tag, Append(p, 0)) = c.values
  BY <1>3, <1>4, <1>5
<1> QED
  BY <1>3, <1>4, <1>6 DEF p, Decode, Message

(* A handler asks for the length of its payload, exactly if the command is *)
(* not one of the legacy ones.                                             *)
LEMMA LengthIsAsked ==
    ASSUME NEW tag \in Tags, NEW n \in Nat
    PROVE  /\ Accepts(tag, n) => n >= PayloadLength(tag)
           /\ tag \notin DOMAIN MinLength /\ Accepts(tag, n) => n = PayloadLength(tag)
<1>1. CASE tag \in DOMAIN ExactLength
  <2>1. PayloadLength(tag) \in Nat
    BY EveryTagIsReadBack
  <2> QED
    BY <1>1, <2>1 DEF Accepts, HasExactPayload, PayloadLength
<1>2. CASE tag \notin DOMAIN ExactLength
  <2>1. tag \in DOMAIN MinLength
    BY <1>2, TagList DEF ExactLength, MinLength
  <2> QED
    BY <1>2, <2>1 DEF Accepts, HasMinPayload, PayloadLength
<1> QED
  BY <1>1, <1>2

-----------------------------------------------------------------------------
(* The dispatcher.                                                         *)

(* Which commands carry a label, and which become an instruction.          *)
LEMMA LabelFields ==
    ASSUME NEW tag \in Tags, NEW a \in HostValues(tag)
    PROVE  /\ tag = "kRunGroup" \/ (tag \in Grouped <=> "group_id" \in DOMAIN a)
           /\ tag \in DOMAIN InstructionTag \/ tag \in {"kResetInstructions", "kRun", "kStart"}
           /\ tag \in DOMAIN InstructionTag => tag \in Instruction[InstructionTag[tag]]
<1>1. tag = "kRunGroup" \/ (tag \in Grouped <=> "group_id" \in DOMAIN a)
  BY TagList DEF HostValues, Grouped
<1>2. tag \in DOMAIN InstructionTag \/ tag \in {"kResetInstructions", "kRun", "kStart"}
  BY TagList DEF InstructionTag
<1>3. ASSUME tag \in DOMAIN InstructionTag PROVE tag \in Instruction[InstructionTag[tag]]
  BY <1>3 DEF InstructionTag, Instruction
<1> QED
  BY <1>1, <1>2, <1>3

(* What a round of calls does for the command it stems from.               *)
ServesWhole(round, c) ==
    /\ Len(round) \in {1, 2}
    /\ Serves(round[1], c)
    /\ Len(round) = 2 => round[1].call = "Start" /\ round[2].call = "Run"

(* The instruction of a command has its tag, label and fields.             *)
LEMMA InstructionServes ==
    ASSUME NEW c \in Commands, c.tag \in DOMAIN InstructionTag
    PROVE  Serves(AddInstruction(Message(c)), c)
<1> DEFINE msg == Message(c)  call == AddInstruction(msg)
<1>1. c.tag \in Tags /\ c.values \in HostValues(c.tag)
  BY CommandAssumption
<1>2. msg.cmd = c.tag /\ msg.payload = c.values
  BY DEF Message
<1>3. /\ call.call = "AddInstruction" /\ call.instruction = InstructionTag[c.tag]
      /\ call.group = GroupOf(msg) /\ call.fields = Rest(msg)
  BY <1>2 DEF AddInstruction
<1>4. GroupOf(msg) = HostGroup(c)
  <2>1. CASE c.tag = "kRunGroup"
    BY <1>2, <2>1 DEF GroupOf, HostGroup, Grouped
  <2>2. CASE c.tag # "kRunGroup"
    BY <1>1, <1>2, <2>2, LabelFields DEF GroupOf, HostGroup
  <2> QED
    BY <2>1, <2>2
<1>5. \A name \in DOMAIN c.values \ {"group_id", "parent_group_id"} :
          Rest(msg)[name] = c.values[name]
  BY <1>2 DEF Rest
<1>6. c.tag \in Instruction[InstructionTag[c.tag]]
  BY <1>1, LabelFields
<1> HIDE DEF call, msg
<1>7. /\ call.call = "AddInstruction" /\ c.tag \in Instruction[call.instruction]
      /\ call.group = HostGroup(c)
      /\ \A name \in DOMAIN c.values \ {"group_id", "parent_group_id"} :
             call.fields[name] = c.values[name]
  BY <1>3, <1>4, <1>5, <1>6
<1> QED
  BY <1>7 DEF Serves, call, msg

(* The calls the dispatcher makes serve the command.                       *)
LEMMA DispatchServes ==
    ASSUME NEW c \in Commands, NEW started \in BOOLEAN
    PROVE  ServesWhole(DispatchControllerCommand(Message(c), started), c)
<1> DEFINE round == DispatchControllerCommand(Message(c), started)
<1>1. c.tag \in Tags /\ c.values \in HostValues(c.tag)
  BY CommandAssumption
<1>2. Message(c).cmd = c.tag /\ Message(c).payload = c.values
  BY DEF Message
<1>3. CASE c.tag \in DOMAIN InstructionTag
  <2>1. round = <<AddInstruction(Message(c))>>
    BY <1>2, <1>3 DEF DispatchControllerCommand
  <2> QED
    BY <1>3, <2>1, InstructionServes DEF ServesWhole
<1>4. CASE c.tag = "kResetInstructions"
  <2>1. round = <<[call |-> "ResetInstructions"]>>
    BY <1>2, <1>4 DEF DispatchControllerCommand, InstructionTag
  <2> QED
    BY <1>4, <2>1 DEF ServesWhole, Serves
<1>5. ASSUME NEW n, round = StartAndTick(n, started),
             \/ c.tag = "kRun" /\ n = 0
             \/ c.tag = "kStart" /\ n = c.values.root_additional_repeats
      PROVE  ServesWhole(round, c)
  <2> DEFINE start == [call |-> "Start", repeats |-> n]  tick == [call |-> "Run"]
  <2>1. start.call = "Start" /\ start.repeats = n /\ tick.call = "Run"
    OBVIOUS
  <2>2. Serves(start, c)
    BY <1>5, <2>1 DEF Serves
  <2>3. round[1] = start /\ (Len(round) = 1 \/ (Len(round) = 2 /\ round[2] = tick))
    <3>1. CASE started
      <4>1. round = <<start>> \o <<tick>>
        BY <1>5, <3>1 DEF StartAndTick
      <4>2. \A x, y : LET s == <<x>> \o <<y>> IN Len(s) = 2 /\ s[1] = x /\ s[2] = y
        OBVIOUS
      <4> HIDE DEF start, tick, round
      <4> QED
        BY <4>1, <4>2
    <3>2. CASE ~started
      <4>1. round = <<start>> \o <<>>
        BY <1>5, <3>2 DEF StartAndTick
      <4>2. \A x : LET s == <<x>> \o <<>> IN Len(s) = 1 /\ s[1] = x
        OBVIOUS
      <4> HIDE DEF start, round
      <4> QED
        BY <4>1, <4>2
    <3> QED
      BY <3>1, <3>2
  <2> HIDE DEF start, tick, round
  <2> QED
    BY <2>1, <2>2, <2>3 DEF ServesWhole
<1>6. CASE c.tag = "kRun"
  <2>1. round = StartAndTick(0, started)
    BY <1>2, <1>6 DEF DispatchControllerCommand, InstructionTag
  <2> QED
    BY <1>5, <1>6, <2>1
<1>7. CASE c.tag = "kStart"
  <2>1. round = StartAndTick(c.values.root_additional_repeats, started)
    BY <1>2, <1>7 DEF DispatchControllerCommand, InstructionTag
  <2> QED
    BY <1>5, <1>7, <2>1
<1> QED
  BY <1>1, <1>3, <1>4, <1>6, <1>7, LabelFields

-----------------------------------------------------------------------------
(* The invariant.                                                          *)

(* The messages that wait are those of the latest commands queued, and the *)
(* calls made are those of the commands before them.                       *)
PathInv ==
    /\ meant \in Seq(Commands)
    /\ mailbox \in Seq({Message(c) : c \in Commands})
    /\ calls \in Seq({DispatchControllerCommand(Message(c), b) : c \in Commands, b \in BOOLEAN})
    /\ Len(calls) + Len(mailbox) = Len(meant)
    /\ \A i \in 1 .. Len(mailbox) : mailbox[i] = Message(meant[Len(calls) + i])
    /\ \A i \in 1 .. Len(calls) : \E b \in BOOLEAN :
           calls[i] = DispatchControllerCommand(Message(meant[i]), b)

(* It holds before the tasks run.                                          *)
LEMMA PathInit == Init => PathInv
BY DEF Init, PathInv

(* A frame that is queued is one the host meant.                           *)
LEMMA FrameKeepsPath ==
    ASSUME PathInv, NEW tag, NEW data, NEW wish, HandleFrame(tag, data, wish),
           Accepts(tag, Len(data)) => wish \in Commands /\ Decode(tag, data) = Message(wish)
    PROVE  PathInv'
<1>1. calls' = calls
  BY DEF HandleFrame
<1>2. CASE UNCHANGED <<mailbox, meant>>
  BY <1>1, <1>2 DEF PathInv
<1>3. CASE ~UNCHANGED <<mailbox, meant>>
  <2>1. /\ wish \in Commands
        /\ mailbox' = Append(mailbox, Message(wish)) /\ meant' = Append(meant, wish)
    BY <1>3 DEF HandleFrame, QueueCommand
  <2> DEFINE Msgs == {Message(c) : c \in Commands}
             Rounds == {DispatchControllerCommand(Message(c), b) : c \in Commands, b \in BOOLEAN}
  <2>2. /\ meant \in Seq(Commands) /\ mailbox \in Seq(Msgs) /\ calls \in Seq(Rounds)
        /\ Message(wish) \in Msgs
    BY <2>1 DEF PathInv
  <2> HIDE DEF Msgs, Rounds
  <2>3. /\ meant' \in Seq(Commands) /\ mailbox' \in Seq(Msgs)
        /\ Len(meant') = Len(meant) + 1 /\ Len(mailbox') = Len(mailbox) + 1
        /\ meant'[Len(meant) + 1] = wish /\ mailbox'[Len(mailbox) + 1] = Message(wish)
        /\ \A i \in 1 .. Len(meant) : meant'[i] = meant[i]
        /\ \A i \in 1 .. Len(mailbox) : mailbox'[i] = mailbox[i]
        /\ Len(meant) \in Nat /\ Len(mailbox) \in Nat /\ Len(calls) \in Nat
    BY <2>1, <2>2
  <2>4. Len(calls) + Len(mailbox) = Len(meant)
    BY DEF PathInv
  <2>5. ASSUME NEW i \in 1 .. Len(mailbox')
        PROVE  mailbox'[i] = Message(meant'[Len(calls) + i])
    <3>1. CASE i = Len(mailbox) + 1
      BY <2>3, <2>4, <3>1
    <3>2. CASE i \in 1 .. Len(mailbox)
      <4>1. Len(calls) + i \in 1 .. Len(meant)
        BY <2>3, <2>4, <3>2
      <4>2. mailbox[i] = Message(meant[Len(calls) + i])
        BY <3>2 DEF PathInv
      <4> QED
        BY <2>3, <3>2, <4>1, <4>2
    <3> QED
      BY <2>3, <3>1, <3>2
  <2>6. ASSUME NEW i \in 1 .. Len(calls)
        PROVE  \E b \in BOOLEAN : calls[i] = DispatchControllerCommand(Message(meant'[i]), b)
    <3>1. meant'[i] = meant[i]
      BY <2>3, <2>4
    <3> QED
      BY <3>1 DEF PathInv
  <2> QED
    BY <1>1, <2>2, <2>3, <2>4, <2>5, <2>6 DEF PathInv, Msgs, Rounds
<1> QED
  BY <1>2, <1>3

(* A message that is taken becomes the calls of its command.               *)
LEMMA UpdateKeepsPath ==
    ASSUME PathInv, UpdateInstructions
    PROVE  PathInv'
<1> DEFINE Msgs == {Message(c) : c \in Commands}
           Rounds == {DispatchControllerCommand(Message(c), b) : c \in Commands, b \in BOOLEAN}
<1>1. /\ meant \in Seq(Commands) /\ mailbox \in Seq(Msgs) /\ calls \in Seq(Rounds)
      /\ mailbox # <<>> /\ mailbox' = Tail(mailbox) /\ meant' = meant
  BY DEF PathInv, UpdateInstructions
<1>2. PICK b \in BOOLEAN : calls' = Append(calls, DispatchControllerCommand(Head(mailbox), b))
  BY DEF UpdateInstructions
<1> DEFINE round == DispatchControllerCommand(Head(mailbox), b)
<1>3. Len(calls) + Len(mailbox) = Len(meant)
  BY DEF PathInv
<1>4. /\ Len(meant) \in Nat /\ Len(mailbox) \in Nat /\ Len(calls) \in Nat
      /\ Len(mailbox) > 0 /\ Head(mailbox) = mailbox[1]
      /\ mailbox' \in Seq(Msgs) /\ Len(mailbox') = Len(mailbox) - 1
      /\ \A i \in 1 .. Len(mailbox') : mailbox'[i] = mailbox[i + 1]
  <2> HIDE DEF Msgs, Rounds
  <2> QED
    BY <1>1
<1>5. Head(mailbox) = Message(meant[Len(calls) + 1]) /\ meant[Len(calls) + 1] \in Commands
  <2>1. 1 \in 1 .. Len(mailbox) /\ Len(calls) + 1 \in 1 .. Len(meant)
    BY <1>3, <1>4
  <2>2. mailbox[1] = Message(meant[Len(calls) + 1])
    BY <2>1 DEF PathInv
  <2> QED
    BY <1>1, <1>4, <2>1, <2>2
<1>6. round \in Rounds
  BY <1>5
<1>7. /\ calls' \in Seq(Rounds) /\ Len(calls') = Len(calls) + 1
      /\ calls'[Len(calls) + 1] = round
      /\ \A i \in 1 .. Len(calls) : calls'[i] = calls[i]
  <2> HIDE DEF Rounds, round
  <2>1. calls' = Append(calls, round)
    BY <1>2 DEF round
  <2> QED
    BY <1>1, <1>6, <2>1
<1>8. ASSUME NEW i \in 1 .. Len(mailbox')
      PROVE  mailbox'[i] = Message(meant[Len(calls') + i])
  <2>1. i + 1 \in 1 .. Len(mailbox) /\ Len(calls) + (i + 1) = Len(calls') + i
    BY <1>4, <1>7
  <2>2. mailbox[i + 1] = Message(meant[Len(calls) + (i + 1)])
    BY <2>1 DEF PathInv
  <2> QED
    BY <1>4, <2>1, <2>2
<1>9. ASSUME NEW i \in 1 .. Len(calls')
      PROVE  \E d \in BOOLEAN : calls'[i] = DispatchControllerCommand(Message(meant[i]), d)
  <2>1. CASE i = Len(calls) + 1
    BY <1>5, <1>7, <2>1
  <2>2. CASE i \in 1 .. Len(calls)
    BY <1>7, <2>2 DEF PathInv
  <2> QED
    BY <1>4, <1>7, <2>1, <2>2
<1>10. Len(calls') + Len(mailbox') = Len(meant')
  BY <1>1, <1>3, <1>4, <1>7
<1> HIDE DEF round
<1>11. /\ meant' \in Seq(Commands) /\ mailbox' \in Seq(Msgs) /\ calls' \in Seq(Rounds)
  <2> HIDE DEF Msgs, Rounds
  <2> QED
    BY <1>1, <1>4, <1>7
<1>12. \A i \in 1 .. Len(mailbox') : mailbox'[i] = Message(meant'[Len(calls') + i])
  BY <1>1, <1>8
<1>13. \A i \in 1 .. Len(calls') : \E d \in BOOLEAN :
           calls'[i] = DispatchControllerCommand(Message(meant'[i]), d)
  BY <1>1, <1>9
<1> QED
  BY <1>10, <1>11, <1>12, <1>13 DEF PathInv

(* Every step keeps the invariant.                                         *)
LEMMA PathNext == PathInv /\ [Next]_vars => PathInv'
<1> SUFFICES ASSUME PathInv, [Next]_vars PROVE PathInv'
  OBVIOUS
<1>1. CASE RegisterHandlers
  BY <1>1 DEF RegisterHandlers, PathInv
<1>2. CASE SetMailbox
  BY <1>2 DEF SetMailbox, PathInv
<1>3. CASE HostCommand
  <2>1. PICK c \in Commands : HandleFrame(c.tag, HostPayload(c.tag, c.values), c)
    BY <1>3 DEF HostCommand
  <2> QED
    BY <2>1, WholeIsDecoded, FrameKeepsPath
<1>4. CASE IllSizedCommand
  <2> PICK c \in Commands : IllSizedCommand!(c)
    BY <1>4 DEF IllSizedCommand
  <2> DEFINE p == HostPayload(c.tag, c.values)  n == PayloadLength(c.tag)
             wish == IF c.tag \in DOMAIN MinLength THEN c ELSE NoWish
  <2>1. \/ p # <<>> /\ HandleFrame(c.tag, SubSeq(p, 1, Len(p) - 1), NoWish)
        \/ HandleFrame(c.tag, Append(p, 0), wish)
        \/ p # <<>> /\ HandleFrame(c.tag, SubSeq(p, 3, Len(p)), NoWish)
    OBVIOUS
  <2>2. /\ p \in Seq(Nat) /\ Len(p) = n /\ n \in Nat /\ c.tag \in Tags
        /\ Decode(c.tag, Append(p, 0)) = Message(c)
    BY WholeIsDecoded, CommandAssumption
  <2> HIDE DEF p, n
  <2>3. CASE p # <<>> /\ HandleFrame(c.tag, SubSeq(p, 1, Len(p) - 1), NoWish)
    <3>1. Len(SubSeq(p, 1, Len(p) - 1)) = n - 1 /\ n - 1 \in Nat
      BY <2>2, <2>3
    <3>2. ~Accepts(c.tag, Len(SubSeq(p, 1, Len(p) - 1)))
      BY <2>2, <3>1, LengthIsAsked DEF n
    <3> QED
      BY <2>3, <3>2, FrameKeepsPath
  <2>4. CASE HandleFrame(c.tag, Append(p, 0), wish)
    <3>1. Len(Append(p, 0)) = n + 1 /\ n + 1 \in Nat
      BY <2>2
    <3>2. Accepts(c.tag, Len(Append(p, 0))) => c.tag \in DOMAIN MinLength
      BY <2>2, <3>1, LengthIsAsked DEF n
    <3> QED
      BY <2>2, <2>4, <3>2, FrameKeepsPath
  <2>5. CASE p # <<>> /\ HandleFrame(c.tag, SubSeq(p, 3, Len(p)), NoWish)
    <3>1. /\ Len(SubSeq(p, 3, Len(p))) \in Nat
          /\ Len(SubSeq(p, 3, Len(p))) < n
      BY <2>2, <2>5
    <3>2. ~Accepts(c.tag, Len(SubSeq(p, 3, Len(p))))
      BY <2>2, <3>1, LengthIsAsked DEF n
    <3> QED
      BY <2>5, <3>2, FrameKeepsPath
  <2> QED
    BY <2>1, <2>3, <2>4, <2>5
<1>5. CASE UpdateInstructions
  BY <1>5, UpdateKeepsPath
<1>6. CASE UNCHANGED vars
  BY <1>6 DEF vars, PathInv
<1> QED
  BY <1>1, <1>2, <1>3, <1>4, <1>5, <1>6 DEF Next

(* The invariant says that the calls serve the host.                       *)
LEMMA PathServes == PathInv => CallsServeTheHost
<1> SUFFICES ASSUME PathInv PROVE CallsServeTheHost
  OBVIOUS
<1>1. ASSUME NEW i \in 1 .. Len(calls) PROVE ServesWhole(calls[i], meant[i])
  <2>1. PICK b \in BOOLEAN : calls[i] = DispatchControllerCommand(Message(meant[i]), b)
    BY DEF PathInv
  <2>2. meant[i] \in Commands
    BY DEF PathInv
  <2> QED
    BY <2>1, <2>2, DispatchServes
<1>2. Len(calls) + Len(mailbox) = Len(meant)
  BY DEF PathInv
<1> QED
  BY <1>1, <1>2, Zenon DEF CallsServeTheHost, ServesWhole

(* The controller gets the calls the host asked for: every field of every  *)
(* command arrives as it was packed, in order, and frames of a wrong size  *)
(* change nothing (controller_command_sink.cpp, DispatchControllerCommand). *)
THEOREM HostIsServed == Spec => []CallsServeTheHost
<1>1. Init => PathInv
  BY PathInit
<1>2. PathInv /\ [Next]_vars => PathInv'
  BY PathNext
<1>3. PathInv => CallsServeTheHost
  BY PathServes
<1> QED
  BY <1>1, <1>2, <1>3, PTL DEF Spec
=============================================================================
