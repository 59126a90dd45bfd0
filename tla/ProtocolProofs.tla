--------------------------- MODULE ProtocolProofs ---------------------------
(***************************************************************************)
(* The protocol engine, for every width of a byte, size of a frame,        *)
(* read-ahead and chunk: the parser, whatever the line does to the bytes;  *)
(* how it finds back after damage, with and without the frame timeout; the *)
(* transmit side, whatever writes fail; and the whole engine on a line     *)
(* that does no damage, which implements the safety part of FrameQueue.    *)
(* What the checksum computes plays no part: it is some value that both    *)
(* ends obtain from the header and the data.                               *)
(***************************************************************************)
EXTENDS Protocol, TLAPS, SequenceTheorems

(* No index leaves the receive buffer, and the buffer holds the last bytes *)
ParserInv ==
    /\ heard \in Seq(Byte)
    /\ state_ \in States
    /\ rx_buffer_ \in [0 .. kRxBufferSize - 1 -> Byte]
    /\ rx_index_ \in Nat
    /\ rx_data_length_ \in 0 .. kMaxFrameDataLength
    /\ state_ = "kReadingHeader" => rx_index_ < kHeaderSize
    /\ state_ = "kReadingData" => rx_index_ < rx_data_length_
    /\ ParserHoldsLastBytes

(* How many bytes had been read when the current frame began               *)
Begun == Len(heard) - Stored - 1

(* Frames were found behind each other, and the current one is behind them *)
FrameInv ==
    /\ \E S : parsed \in Seq(S)
    /\ \A i \in 1 .. Len(parsed) :
           /\ parsed[i].data \in Seq(Byte)
           /\ parsed[i].at \in 0 .. Len(heard)
           /\ state_ # "kWaitingForSync" => parsed[i].at <= Begun
    /\ ParsedFramesWereHeard

(* The last m of the n bytes of s are the first of b, behind a sync byte   *)
Held(s, n, m, b) ==
    /\ n \in Nat /\ m \in Nat /\ m + 1 <= n
    /\ s[n - m] = kSyncByte
    /\ \A i \in 1 .. m : s[n - m + i] = b[i - 1]

(* t is the n elements of s with one more; numbering starts at first       *)
Extends(t, s, first, n, raw) ==
    /\ \A i \in first .. first + n - 1 : t[i] = s[i]
    /\ t[first + n] = raw

-----------------------------------------------------------------------------
(* Frames on the wire.                                                     *)

(* A sequence is the function of its elements.                             *)
LEMMA SeqAsFunction ==
    ASSUME NEW S, NEW q \in Seq(S)
    PROVE  q = [i \in 1 .. Len(q) |-> q[i]]
  OBVIOUS

(* A two-byte number has one low and one high byte.                        *)
LEMMA TwoBytes ==
    ASSUME NEW R \in Nat \ {0}, NEW a \in 0 .. R - 1, NEW b \in 0 .. R - 1
    PROVE  (a + R * b) % R = a /\ (a + R * b) \div R = b
<1> DEFINE x == a + R * b
           q == x \div R
           r == x % R
<1>1. x \in Nat /\ R * b \in Nat
  OBVIOUS
<1>2. q \in Int /\ r \in 0 .. R - 1 /\ x = R * q + r
  BY <1>1, SMTT(30)
<1> HIDE DEF q, r
<1>3. R * (q - b) = a - r
  BY <1>2, SMTT(30)
<1>4. q = b
  <2>1. CASE q >= b + 1
    <3>1. R * (q - b) >= R
      BY <1>2, <2>1, SMTT(30)
    <3> QED
      BY <1>2, <1>3, <3>1
  <2>2. CASE q <= b - 1
    <3>1. R * (q - b) <= 0 - R
      BY <1>2, <2>2, SMTT(30)
    <3> QED
      BY <1>2, <1>3, <3>1
  <2> QED
    BY <1>2, <2>1, <2>2
<1>5. r = a
  BY <1>2, <1>3, <1>4
<1> QED
  BY <1>4, <1>5 DEF q, r

(* ParseHeader undoes Header: four bytes are the header of what is read    *)
(* off them.                                                               *)
LEMMA HeaderIsParsed ==
    ASSUME NEW h \in [1 .. 4 -> Byte]
    PROVE  h = Header(ParseHeader(h).tag, ParseHeader(h).length)
<1>1. ByteRange \in Nat \ {0}
  BY FrameAssumption DEF Byte
<1>2. h[1] \in Byte /\ h[2] \in Byte /\ h[3] \in Byte /\ h[4] \in Byte
  OBVIOUS
<1>3. Header(ParseHeader(h).tag, ParseHeader(h).length) = <<h[1], h[2], h[3], h[4]>>
  BY <1>1, <1>2, TwoBytes DEF Header, ParseHeader, Byte
<1>4. h = <<h[1], h[2], h[3], h[4]>>
  OBVIOUS
<1> QED
  BY <1>3, <1>4

(* The sizes of the code.                                                  *)
LEMMA Sizes ==
    /\ kMaxFrameDataLength \in Nat
    /\ kHeaderSize = 4
    /\ kRxBufferSize = 4 + kMaxFrameDataLength
<1>1. ByteRange * ByteRange \in Nat
  BY FrameAssumption, SMTT(30)
<1> QED
  BY <1>1, FrameAssumption DEF kRxBufferSize, kHeaderSize

(* The bytes of a frame, one by one.                                       *)
LEMMA WireBytes ==
    ASSUME NEW tag, NEW S, NEW data \in Seq(S)
    PROVE  LET w == WireOf(tag, data)
               h == Header(tag, Len(data))
               n == Len(data)
           IN  /\ w = [i \in 1 .. n + 6 |->
                         IF i = 1 THEN kSyncByte
                         ELSE IF i <= 5 THEN h[i - 1]
                         ELSE IF i <= n + 5 THEN data[i - 5]
                         ELSE ComputeChecksum(h, data)]
               /\ Len(w) = n + 6
<1> DEFINE h  == Header(tag, Len(data))
           n  == Len(data)
           cs == ComputeChecksum(h, data)
           a  == <<kSyncByte>> \o h
           b  == a \o data
           w  == b \o <<cs>>
<1>1. WireOf(tag, data) = w
  BY DEF WireOf
<1>2. Len(h) = 4 /\ h = [i \in 1 .. 4 |-> h[i]] /\ n \in Nat
  BY DEF Header
<1> HIDE DEF h, cs
<1>3. a = [i \in 1 .. 5 |-> IF i = 1 THEN kSyncByte ELSE h[i - 1]] /\ Len(a) = 5
  BY <1>2
<1> HIDE DEF a
<1>4. b = [i \in 1 .. n + 5 |-> IF i <= 5 THEN a[i] ELSE data[i - 5]] /\ Len(b) = n + 5
  BY <1>2, <1>3
<1> HIDE DEF b
<1>5. w = [i \in 1 .. n + 6 |-> IF i <= n + 5 THEN b[i] ELSE cs] /\ Len(w) = n + 6
  BY <1>2, <1>4
<1> HIDE DEF w
<1>6. w = [i \in 1 .. n + 6 |->
             IF i = 1 THEN kSyncByte
             ELSE IF i <= 5 THEN h[i - 1]
             ELSE IF i <= n + 5 THEN data[i - 5]
             ELSE cs]
  BY <1>2, <1>3, <1>4, <1>5
<1> QED
  BY <1>1, <1>5, <1>6 DEF h, cs

(* The data lies behind the sync byte and the header.                      *)
LEMMA WireData ==
    ASSUME NEW tag, NEW data \in Seq(Byte), NEW k \in 1 .. Len(data) + 6,
           ~(k <= 5), k <= Len(data) + 5
    PROVE  WireOf(tag, data)[k] = data[k - 5]
<1>1. WireOf(tag, data)[k] = IF k = 1 THEN kSyncByte
                             ELSE IF k <= 5 THEN Header(tag, Len(data))[k - 1]
                             ELSE IF k <= Len(data) + 5 THEN data[k - 5]
                             ELSE ComputeChecksum(Header(tag, Len(data)), data)
  BY WireBytes
<1>2. k # 1
  OBVIOUS
<1> QED
  BY <1>1, <1>2

-----------------------------------------------------------------------------
(* The parser.                                                             *)

(* What reading a byte does to the bytes read.                             *)
LEMMA ByteIsHeard ==
    ASSUME NEW raw \in Byte, heard \in Seq(Byte), ReadRawByte(raw)
    PROVE  /\ heard' \in Seq(Byte)
           /\ Len(heard) \in Nat /\ Len(heard') = Len(heard) + 1
           /\ heard'[Len(heard) + 1] = raw
           /\ \A i \in 1 .. Len(heard) : heard'[i] = heard[i]
BY AppendProperties DEF ReadRawByte

(* The four bytes of a header give a length and a tag.                     *)
LEMMA HeaderType ==
    ASSUME NEW h \in [1 .. 4 -> Byte]
    PROVE  /\ ParseHeader(h).length \in Nat /\ ParseHeader(h).tag \in Nat
           /\ ParseHeader(h) = [tag |-> ParseHeader(h).tag, length |-> ParseHeader(h).length]
<1>1. ByteRange \in Nat \ {0}
  BY FrameAssumption DEF Byte
<1>2. h[1] \in Byte /\ h[2] \in Byte /\ h[3] \in Byte /\ h[4] \in Byte
  OBVIOUS
<1>3. ByteRange * h[2] \in Nat /\ ByteRange * h[4] \in Nat /\ h[1] \in Nat /\ h[3] \in Nat
  BY <1>1, <1>2, SMTT(30) DEF Byte
<1> QED
  BY <1>3 DEF ParseHeader

(* The parser stores a byte behind those it holds: with m bytes b at the   *)
(* end of the n bytes s, one more byte gives m + 1 bytes c at the end of t.*)
LEMMA OneMoreHeld ==
    ASSUME NEW s, NEW t, NEW b, NEW c, NEW raw, NEW n, NEW m,
           Held(s, n, m, b), Extends(t, s, 1, n, raw), Extends(c, b, 0, m, raw)
    PROVE  Held(t, n + 1, m + 1, c)
<1>a. /\ n \in Nat /\ m \in Nat /\ m + 1 <= n /\ s[n - m] = kSyncByte
      /\ \A i \in 1 .. m : s[n - m + i] = b[i - 1]
      /\ \A i \in 1 .. n : t[i] = s[i]
      /\ \A i \in 0 .. m - 1 : c[i] = b[i]
      /\ t[n + 1] = raw /\ c[m] = raw
  BY DEF Held, Extends
<1>1. t[n - m] = kSyncByte /\ (n + 1) - (m + 1) = n - m
  BY <1>a
<1>2. ASSUME NEW i \in 1 .. m + 1 PROVE t[(n + 1) - (m + 1) + i] = c[i - 1]
  <2>1. CASE i = m + 1
    <3>1. (n + 1) - (m + 1) + i = n + 1 /\ i - 1 = m
      BY <1>a, <2>1
    <3> QED
      BY <1>a, <3>1
  <2>2. CASE i \in 1 .. m
    <3>1. /\ n - m + i \in 1 .. n /\ (n + 1) - (m + 1) + i = n - m + i
          /\ i - 1 \in 0 .. m - 1
      BY <1>a, <2>2
    <3>2. s[n - m + i] = b[i - 1]
      BY <1>a, <2>2
    <3>3. t[n - m + i] = s[n - m + i] /\ c[i - 1] = b[i - 1]
      BY <1>a, <3>1
    <3> QED
      BY <3>1, <3>2, <3>3
  <2> QED
    BY <1>a, <2>1, <2>2
<1> QED
  BY <1>a, <1>1, <1>2 DEF Held

(* A step of one of the parser states keeps the invariant.                 *)
LEMMA ParserByte ==
    ASSUME ParserInv, RunByte
    PROVE  ParserInv'
<1> PICK raw \in Byte : /\ ReadRawByte(raw)
                        /\ \/ WaitingForSync(raw) \/ ReadingHeader(raw)
                           \/ ReadingData(raw) \/ ReadingChecksum(raw)
  BY DEF RunByte
<1>k. kMaxFrameDataLength \in Nat /\ kRxBufferSize = 4 + kMaxFrameDataLength /\ kHeaderSize = 4
  BY Sizes
<1>h. /\ heard' \in Seq(Byte)
      /\ Len(heard) \in Nat /\ Len(heard') = Len(heard) + 1
      /\ heard'[Len(heard) + 1] = raw
      /\ \A i \in 1 .. Len(heard) : heard'[i] = heard[i]
  BY ByteIsHeard DEF ParserInv
<1>1. CASE WaitingForSync(raw)
  <2>1. CASE raw = kSyncByte
    BY <1>1, <1>h, <1>k, <2>1 DEF ParserInv, WaitingForSync, ParserHoldsLastBytes, Stored, States
  <2>2. CASE raw # kSyncByte
    BY <1>1, <1>h, <1>k, <2>2 DEF ParserInv, WaitingForSync, parser, ParserHoldsLastBytes
  <2> QED
    BY <2>1, <2>2
<1>2. CASE ReadingHeader(raw)
  <2> DEFINE buffer == [rx_buffer_ EXCEPT ![rx_index_] = raw]
             h      == [i \in 1 .. kHeaderSize |-> buffer[i - 1]]
  <2>1. /\ state_ = "kReadingHeader" /\ rx_buffer_' = buffer /\ rx_index_ \in 0 .. 3
        /\ rx_buffer_' \in [0 .. kRxBufferSize - 1 -> Byte]
        /\ rx_buffer_'[rx_index_] = raw
        /\ \A i \in 0 .. rx_index_ - 1 : rx_buffer_'[i] = rx_buffer_[i]
    BY <1>2, <1>k DEF ParserInv, ReadingHeader
  <2>2. h \in [1 .. 4 -> Byte] /\ h = RxHeader'
    BY <2>1, <1>k DEF RxHeader
  <2>3. /\ rx_index_ + 1 <= Len(heard) /\ heard[Len(heard) - rx_index_] = kSyncByte
        /\ \A i \in 1 .. rx_index_ : heard[Len(heard) - rx_index_ + i] = rx_buffer_[i - 1]
    BY <2>1, <1>k DEF ParserInv, ParserHoldsLastBytes, Stored
  <2>4. /\ heard'[Len(heard') - (rx_index_ + 1)] = kSyncByte
        /\ \A i \in 1 .. rx_index_ + 1 :
             heard'[Len(heard') - (rx_index_ + 1) + i] = rx_buffer_'[i - 1]
    <3> HIDE DEF buffer
    <3>1. Held(heard, Len(heard), rx_index_, rx_buffer_)
      BY <1>h, <2>1, <2>3 DEF Held
    <3>2. Extends(heard', heard, 1, Len(heard), raw)
      BY <1>h DEF Extends
    <3>3. Extends(rx_buffer_', rx_buffer_, 0, rx_index_, raw)
      BY <2>1 DEF Extends
    <3>4. Held(heard', Len(heard) + 1, rx_index_ + 1, rx_buffer_')
      BY <3>1, <3>2, <3>3, OneMoreHeld
    <3> QED
      BY <1>h, <3>4 DEF Held
  <2> HIDE DEF buffer, h
  <2>5. CASE rx_index_ + 1 < kHeaderSize /\ rx_index_' = rx_index_ + 1 /\ state_' = state_
             /\ rx_data_length_' = rx_data_length_
    BY <1>h, <1>k, <2>1, <2>3, <2>4, <2>5, SMTT(30) DEF ParserInv, ParserHoldsLastBytes, Stored
  <2>6. CASE /\ rx_index_ + 1 >= kHeaderSize /\ LengthIsGood(ParseHeader(h).length)
             /\ rx_tag_' = ParseHeader(h).tag /\ rx_data_length_' = ParseHeader(h).length
             /\ rx_index_' = 0
             /\ state_' = IF ParseHeader(h).length = 0 THEN "kReadingChecksum"
                                                       ELSE "kReadingData"
    <3>1. rx_index_ = 3
      BY <1>k, <2>1, <2>6
    <3>2. rx_data_length_' \in 0 .. kMaxFrameDataLength
      BY <1>k, <2>2, <2>6, HeaderType DEF LengthIsGood
    <3>3. ParseHeader(RxHeader') = [tag |-> rx_tag_', length |-> rx_data_length_']
      BY <2>2, <2>6, HeaderType
    <3>4. Stored' = 4
      BY <1>k, <2>6 DEF Stored
    <3>5. ParserHoldsLastBytes'
      BY <1>h, <2>3, <2>4, <2>6, <3>1, <3>3, <3>4 DEF ParserHoldsLastBytes
    <3> QED
      BY <1>h, <2>1, <2>6, <3>2, <3>5 DEF ParserInv, States
  <2>7. CASE state_' = "kWaitingForSync" /\ rx_index_' = 0 /\ rx_data_length_' = 0
    BY <1>h, <1>k, <2>1, <2>7 DEF ParserInv, ParserHoldsLastBytes, States
  <2> QED
    BY <1>2, <2>5, <2>6, <2>7 DEF ReadingHeader, buffer, h
<1>3. CASE ReadingData(raw)
  <2>1. /\ state_ = "kReadingData" /\ rx_index_ \in 0 .. rx_data_length_ - 1
        /\ rx_data_length_ \in 0 .. kMaxFrameDataLength
        /\ rx_buffer_' = [rx_buffer_ EXCEPT ![4 + rx_index_] = raw]
        /\ rx_buffer_' \in [0 .. kRxBufferSize - 1 -> Byte]
        /\ rx_buffer_'[4 + rx_index_] = raw
        /\ \A i \in 0 .. 3 + rx_index_ : rx_buffer_'[i] = rx_buffer_[i]
    BY <1>3, <1>k DEF ParserInv, ReadingData
  <2>2. Stored = 4 + rx_index_ /\ Stored' = 5 + rx_index_ /\ rx_index_' = rx_index_ + 1
    BY <1>3, <1>k, <2>1 DEF Stored, ReadingData
  <2>3. /\ 5 + rx_index_ <= Len(heard) /\ heard[Len(heard) - Stored] = kSyncByte
        /\ \A i \in 1 .. Stored : heard[Len(heard) - Stored + i] = rx_buffer_[i - 1]
        /\ ParseHeader(RxHeader) = [tag |-> rx_tag_, length |-> rx_data_length_]
    BY <2>1, <2>2 DEF ParserInv, ParserHoldsLastBytes
  <2>4. RxHeader' = RxHeader
    BY <1>k, <2>1 DEF RxHeader
  <2>5. /\ heard'[Len(heard') - Stored'] = kSyncByte
        /\ \A i \in 1 .. Stored' : heard'[Len(heard') - Stored' + i] = rx_buffer_'[i - 1]
    <3> DEFINE m == 4 + rx_index_
    <3>1. /\ m \in Nat /\ m + 1 <= Len(heard) /\ heard[Len(heard) - m] = kSyncByte
          /\ \A i \in 1 .. m : heard[Len(heard) - m + i] = rx_buffer_[i - 1]
          /\ \A i \in 0 .. m - 1 : rx_buffer_'[i] = rx_buffer_[i]
          /\ rx_buffer_'[m] = raw
          /\ Stored' = m + 1
      BY <2>1, <2>2, <2>3
    <3> HIDE DEF m
    <3>2. Held(heard, Len(heard), m, rx_buffer_)
      BY <1>h, <3>1 DEF Held
    <3>3. Extends(heard', heard, 1, Len(heard), raw)
      BY <1>h DEF Extends
    <3>4. Extends(rx_buffer_', rx_buffer_, 0, m, raw)
      BY <3>1 DEF Extends
    <3>5. Held(heard', Len(heard) + 1, m + 1, rx_buffer_')
      BY <3>2, <3>3, <3>4, OneMoreHeld
    <3> QED
      BY <1>h, <3>1, <3>5 DEF Held
  <2>6. Stored' + 1 <= Len(heard')
    BY <1>h, <2>1, <2>2, <2>3
  <2>7. state_' \in {"kReadingData", "kReadingChecksum"}
        /\ rx_data_length_' = rx_data_length_ /\ rx_tag_' = rx_tag_
        /\ (state_' = "kReadingChecksum" => rx_index_' = rx_data_length_)
        /\ (state_' = "kReadingData" => rx_index_' < rx_data_length_)
    BY <1>3, <2>1, <2>2 DEF ReadingData
  <2>8. ParserHoldsLastBytes'
    BY <2>3, <2>4, <2>5, <2>6, <2>7 DEF ParserHoldsLastBytes
  <2> QED
    BY <1>h, <2>1, <2>2, <2>7, <2>8 DEF ParserInv, States
<1>4. CASE ReadingChecksum(raw)
  BY <1>4, <1>h, <1>k DEF ReadingChecksum, ResetParser, ParserInv, ParserHoldsLastBytes, States
<1> QED
  BY <1>1, <1>2, <1>3, <1>4

(* Every other step leaves the bytes read alone, and the parser too unless *)
(* a frame timed out.                                                      *)
LEMMA OtherSteps ==
    ASSUME [Next]_vars, ~RunByte
    PROVE  /\ UNCHANGED <<setup, heard, parsed>>
           /\ UNCHANGED parser \/ (TimedOut /\ ResetParser)
<1>1. CASE HostSends
  BY <1>1 DEF HostSends, HostSend, parser
<1>2. CASE Arrive \/ Tick \/ StreamIsEmpty \/ RunEnds \/ UNCHANGED vars
  BY <1>2 DEF Arrive, Tick, StreamIsEmpty, RunEnds, vars, parser
<1>3. CASE \E tag \in setup.tags : AddHandler(tag, "application")
  BY <1>3 DEF AddHandler, parser
<1>4. CASE \E request \in setup.requests : Send(request)
  BY <1>4 DEF Send, parser
<1>5. CASE RunBegins
  BY <1>5 DEF RunBegins, parser
<1> QED
  BY <1>1, <1>2, <1>3, <1>4, <1>5 DEF Next

(* The initial state.                                                      *)
LEMMA ParserInit == Init => ParserInv
<1>1. 0 \in Byte /\ kMaxFrameDataLength \in Nat
  BY Sizes, FrameAssumption DEF Byte
<1> QED
  BY <1>1 DEF Init, ParserInv, States, ParserHoldsLastBytes

(* Every step keeps the parser's invariant.                                *)
LEMMA ParserNext == ParserInv /\ [Next]_vars => ParserInv'
<1> SUFFICES ASSUME ParserInv, [Next]_vars PROVE ParserInv'
  OBVIOUS
<1>1. CASE RunByte
  BY <1>1, ParserByte
<1>2. CASE ~RunByte
  <2>1. UNCHANGED heard
    BY <1>2, OtherSteps
  <2>2. CASE UNCHANGED parser
    <3>1. UNCHANGED <<state_, rx_buffer_, rx_index_, rx_data_length_, rx_tag_, heard>>
      BY <2>1, <2>2 DEF parser
    <3>2. UNCHANGED <<Stored, RxHeader>>
      BY <3>1 DEF Stored, RxHeader
    <3> QED
      BY <3>1, <3>2 DEF ParserInv, ParserHoldsLastBytes
  <2>3. CASE ResetParser
    <3>1. 0 \in 0 .. kMaxFrameDataLength
      BY Sizes
    <3> QED
      BY <2>1, <2>3, <3>1 DEF ParserInv, ResetParser, ParserHoldsLastBytes, States
  <2> QED
    BY <1>2, <2>2, <2>3, OtherSteps
<1> QED
  BY <1>1, <1>2

(* Over Runs, refills of the read-ahead, timeouts and whatever the line    *)
(* did to the bytes, a frame being read is exactly the last bytes read     *)
(* from a sync byte on, for every size of byte and buffer.                 *)
THEOREM ParserHolds == Spec => []ParserHoldsLastBytes
<1>1. ParserInv => ParserHoldsLastBytes
  BY DEF ParserInv
<1> QED
  BY <1>1, ParserInit, ParserNext, PTL DEF Spec

-----------------------------------------------------------------------------
(* The frames handed over.                                                 *)

(* Where the current frame began stays, until the next one begins.         *)
LEMMA BegunStays ==
    ASSUME ParserInv, RunByte
    PROVE  /\ Stored \in Nat /\ Begun \in Int /\ Begun' \in Int
           /\ state_ # "kWaitingForSync" => Begun \in Nat
           /\ state_' # "kWaitingForSync" =>
                  Begun' = IF state_ = "kWaitingForSync" THEN Len(heard) ELSE Begun
<1> PICK raw \in Byte : /\ ReadRawByte(raw)
                        /\ \/ WaitingForSync(raw) \/ ReadingHeader(raw)
                           \/ ReadingData(raw) \/ ReadingChecksum(raw)
  BY DEF RunByte
<1>h. Len(heard) \in Nat /\ Len(heard') = Len(heard) + 1
  BY ByteIsHeard DEF ParserInv
<1>1. Stored \in Nat /\ Begun \in Int /\ (state_ # "kWaitingForSync" => Begun \in Nat)
  BY <1>h, Sizes DEF ParserInv, ParserHoldsLastBytes, Stored, Begun
<1>2. Begun' \in Int
  <2>1. Stored' \in Nat /\ Len(heard') \in Nat
    BY <1>h, Sizes, ParserByte DEF ParserInv, Stored
  <2> QED
    BY <2>1 DEF Begun
<1>3. CASE WaitingForSync(raw)
  BY <1>1, <1>2, <1>3, <1>h, Sizes DEF WaitingForSync, parser, Begun, Stored
<1>4. CASE ReadingHeader(raw)
  BY <1>1, <1>2, <1>4, <1>h, Sizes DEF ReadingHeader, Begun, Stored, ParserInv
<1>5. CASE ReadingData(raw)
  BY <1>1, <1>2, <1>5, <1>h, Sizes DEF ReadingData, Begun, Stored, ParserInv
<1>6. CASE ReadingChecksum(raw)
  BY <1>1, <1>2, <1>6 DEF ReadingChecksum, ResetParser
<1> QED
  BY <1>3, <1>4, <1>5, <1>6

(* A frame whose checksum is right is what was heard since its sync byte.  *)
LEMMA FrameIsWhole ==
    ASSUME ParserInv, NEW raw \in Byte, ReadRawByte(raw), state_ = "kReadingChecksum",
           raw = ComputeChecksum(RxHeader, RxData)
    PROVE  /\ RxData \in Seq(Byte) /\ Len(RxData) = rx_data_length_
           /\ Len(heard') = Begun + WireLength(rx_data_length_)
           /\ SubSeq(heard', Begun + 1, Len(heard')) = WireOf(rx_tag_, RxData)
<1> DEFINE n == rx_data_length_
           L == Len(heard)
<1>1. /\ n \in 0 .. kMaxFrameDataLength /\ rx_index_ = n /\ Stored = 4 + n
      /\ ParseHeader(RxHeader) = [tag |-> rx_tag_, length |-> n]
      /\ L \in Nat /\ 5 + n <= L
      /\ heard[L - 4 - n] = kSyncByte
      /\ \A i \in 1 .. 4 + n : heard[L - 4 - n + i] = rx_buffer_[i - 1]
  BY Sizes DEF ParserInv, ParserHoldsLastBytes, Stored
<1>0. n \in Nat /\ L \in Nat
  BY <1>1, Sizes
<1>2. /\ heard' \in Seq(Byte) /\ Len(heard') = L + 1 /\ heard'[L + 1] = raw
      /\ \A i \in 1 .. L : heard'[i] = heard[i]
  BY ByteIsHeard DEF ParserInv
<1>3. RxHeader \in [1 .. 4 -> Byte] /\ \A i \in 1 .. 4 : RxHeader[i] = rx_buffer_[i - 1]
  BY Sizes DEF ParserInv, RxHeader
<1>4. RxData \in [1 .. n -> Byte] /\ \A i \in 1 .. n : RxData[i] = rx_buffer_[i + 3]
  BY <1>1, Sizes DEF ParserInv, RxData
<1>5. RxData \in Seq(Byte) /\ Len(RxData) = n
  BY <1>0, <1>4
<1>6. RxHeader = Header(rx_tag_, n)
  BY <1>1, <1>3, HeaderIsParsed
<1>7. Begun = L - 5 - n /\ Len(heard') = Begun + WireLength(n) /\ WireLength(n) = n + 6
  <2>1. WireLength(n) = n + 6
    BY <1>0, Sizes DEF WireLength, kChecksumSize
  <2>2. Begun = L - 5 - n
    BY <1>0, <1>1 DEF Begun
  <2> QED
    BY <1>0, <1>2, <2>1, <2>2
<1> DEFINE w == WireOf(rx_tag_, RxData)
           t == SubSeq(heard', Begun + 1, Len(heard'))
           at == L - 5 - n
<1>8. /\ Len(w) = n + 6
      /\ w = [i \in 1 .. n + 6 |-> IF i = 1 THEN kSyncByte
                                   ELSE IF i <= 5 THEN RxHeader[i - 1]
                                   ELSE IF i <= n + 5 THEN RxData[i - 5] ELSE raw]
  BY <1>5, <1>6, WireBytes
<1>9. t \in Seq(Byte) /\ Len(t) = n + 6 /\ \A i \in 1 .. n + 6 : t[i] = heard'[at + i]
  <2>1. at + 1 \in Int /\ L + 1 \in Int /\ \A i \in at + 1 .. L + 1 : heard'[i] \in Byte
    BY <1>1, <1>2
  <2>2. t = SubSeq(heard', at + 1, L + 1)
    BY <1>2, <1>7
  <2> HIDE DEF t, at, L, n
  <2>3. /\ t \in Seq(Byte)
        /\ Len(t) = IF at + 1 <= L + 1 THEN (L + 1) - (at + 1) + 1 ELSE 0
        /\ \A i \in 1 .. (L + 1) - (at + 1) + 1 : t[i] = heard'[(at + 1) + i - 1]
    BY <2>1, <2>2, SubSeqProperties
  <2> QED
    BY <1>1, <2>3 DEF at
<1> HIDE DEF w, t
<1>10. ASSUME NEW i \in 1 .. n + 6 PROVE t[i] = w[i]
  <2>1. CASE i = 1
    <3>1. at + i = L - 4 - n /\ L - 4 - n \in 1 .. L
      BY <1>1, <2>1, SMTT(30)
    <3> QED
      BY <1>1, <1>2, <1>8, <1>9, <2>1, <3>1
  <2>2. CASE i \in 2 .. n + 5
    <3>0. i \in Int /\ 2 <= i /\ i <= n + 5 /\ 5 + n <= L
      BY <1>0, <1>1, <2>2
    <3> HIDE DEF L, n
    <3>1. /\ at + i = L - 4 - n + (i - 1) /\ i - 1 \in 1 .. 4 + n
          /\ L - 4 - n + (i - 1) \in 1 .. L
      BY <1>0, <3>0
    <3>2. t[i] = rx_buffer_[i - 2]
      <4>1. heard[L - 4 - n + (i - 1)] = rx_buffer_[(i - 1) - 1] /\ (i - 1) - 1 = i - 2
        BY <1>1, <3>1
      <4> QED
        BY <1>2, <1>9, <3>1, <4>1
    <3>3. w[i] = rx_buffer_[i - 2]
      <4>1. CASE i <= 5
        <5>1. RxHeader[i - 1] = rx_buffer_[(i - 1) - 1] /\ (i - 1) - 1 = i - 2
          BY <1>3, <2>2, <4>1
        <5> QED
          BY <1>1, <1>8, <2>2, <4>1, <5>1
      <4>2. CASE i > 5
        <5>1. RxData[i - 5] = rx_buffer_[(i - 5) + 3] /\ (i - 5) + 3 = i - 2
          BY <1>0, <1>4, <2>2, <4>2
        <5> QED
          BY <1>1, <1>8, <2>2, <4>2, <5>1, SMTT(30)
      <4> QED
        BY <1>1, <4>1, <4>2
    <3> QED
      BY <3>2, <3>3
  <2>3. CASE i = n + 6
    <3>1. at + i = L + 1
      BY <1>0, <2>3
    <3>2. i \in 1 .. n + 6 /\ i # 1 /\ ~(i <= 5) /\ ~(i <= n + 5)
      BY <1>0, <2>3
    <3>3. w[i] = raw
      BY <1>8, <3>2
    <3> QED
      BY <1>2, <1>9, <3>1, <3>2, <3>3
  <2> QED
    BY <1>1, <2>1, <2>2, <2>3
<1>11. t = w
  <2>1. w = [i \in 1 .. n + 6 |-> w[i]] /\ t = [i \in 1 .. n + 6 |-> t[i]]
    BY <1>1, <1>8, <1>9
  <2> HIDE DEF n
  <2> QED
    BY <1>10, <2>1
<1> QED
  BY <1>5, <1>7, <1>11 DEF w, t

(* One frame, found in one piece among the bytes s.                        *)
FoundIn(p, s) ==
    /\ Len(p.data) <= kMaxFrameDataLength
    /\ WireLength(Len(p.data)) <= p.at
    /\ SubSeq(s, p.at - WireLength(Len(p.data)) + 1, p.at) = WireOf(p.tag, p.data)

(* Bytes that are read later do not change what was found.                 *)
LEMMA FoundStays ==
    ASSUME NEW p, NEW s \in Seq(Byte), NEW t \in Seq(Byte), p.at \in 0 .. Len(s),
           p.data \in Seq(Byte), FoundIn(p, s), Len(s) <= Len(t),
           \A i \in 1 .. Len(s) : t[i] = s[i]
    PROVE  FoundIn(p, t)
<1> DEFINE n == WireLength(Len(p.data))
           m == p.at - n + 1
<1>1. Len(s) \in Nat /\ p.at \in Nat /\ p.at <= Len(s)
  OBVIOUS
<1>2. n \in Nat /\ n <= p.at
  BY Sizes DEF FoundIn, WireLength, kChecksumSize
<1> HIDE DEF n
<1>3. m \in Nat /\ m >= 1
  BY <1>1, <1>2
<1>4. \A i \in m .. p.at : s[i] \in Byte /\ t[i] = s[i]
  BY <1>1, <1>3, ElementOfSeq
<1> DEFINE u == SubSeq(s, m, p.at)
           v == SubSeq(t, m, p.at)
<1> HIDE DEF m
<1>5. /\ u \in Seq(Byte)
      /\ Len(u) = IF m <= p.at THEN p.at - m + 1 ELSE 0
      /\ \A i \in 1 .. p.at - m + 1 : u[i] = s[m + i - 1]
  BY <1>1, <1>3, <1>4, SubSeqProperties
<1>6. /\ v \in Seq(Byte)
      /\ Len(v) = IF m <= p.at THEN p.at - m + 1 ELSE 0
      /\ \A i \in 1 .. p.at - m + 1 : v[i] = t[m + i - 1]
  <2>1. \A i \in m .. p.at : t[i] \in Byte
    BY <1>4
  <2> QED
    BY <1>1, <1>3, <2>1, SubSeqProperties
<1> HIDE DEF u, v
<1>7. Len(u) = Len(v) /\ Len(u) \in Nat
  BY <1>5, <1>6
<1>8. ASSUME NEW i \in 1 .. Len(u) PROVE u[i] = v[i]
  <2>1. i \in 1 .. p.at - m + 1 /\ m + i - 1 \in m .. p.at
    BY <1>1, <1>3, <1>5, SMTT(30)
  <2> QED
    BY <1>4, <1>5, <1>6, <2>1
<1>9. u = v
  BY <1>5, <1>6, <1>7, <1>8, SeqEqual
<1> QED
  BY <1>9 DEF FoundIn, u, v, m, n

(* The initial state.                                                      *)
LEMMA FrameInit == Init => FrameInv
BY DEF Init, FrameInv, ParsedFramesWereHeard

(* Every step keeps the frames found where they were, and adds one at most.*)
LEMMA FrameNext == ParserInv /\ FrameInv /\ [Next]_vars => FrameInv'
<1> SUFFICES ASSUME ParserInv, FrameInv, [Next]_vars PROVE FrameInv'
  OBVIOUS
<1>a. PICK S : parsed \in Seq(S)
  BY DEF FrameInv
<1>b. Len(parsed) \in Nat /\ heard \in Seq(Byte) /\ Len(heard) \in Nat
  BY <1>a DEF ParserInv
<1>c. \A i \in 1 .. Len(parsed) :
        /\ parsed[i].data \in Seq(Byte) /\ parsed[i].at \in 0 .. Len(heard)
        /\ FoundIn(parsed[i], heard)
        /\ state_ # "kWaitingForSync" => parsed[i].at <= Begun
  BY DEF FrameInv, ParsedFramesWereHeard, FoundIn
<1>d. \A i \in 1 .. Len(parsed) - 1 :
        parsed[i].at + WireLength(Len(parsed[i + 1].data)) <= parsed[i + 1].at
  BY DEF FrameInv, ParsedFramesWereHeard
<1>1. CASE ~RunByte
  <2>1. UNCHANGED <<heard, parsed>>
    BY <1>1, OtherSteps
  <2>2. state_' # "kWaitingForSync" => state_' = state_ /\ Begun' = Begun
    BY <1>1, <2>1, OtherSteps DEF parser, ResetParser, Begun, Stored
  <2>3. \A i \in 1 .. Len(parsed') :
          /\ parsed'[i].data \in Seq(Byte) /\ parsed'[i].at \in 0 .. Len(heard')
          /\ state_' # "kWaitingForSync" => parsed'[i].at <= Begun'
    BY <1>c, <2>1, <2>2
  <2>4. ParsedFramesWereHeard'
    BY <2>1 DEF FrameInv, ParsedFramesWereHeard
  <2> QED
    BY <1>a, <2>1, <2>3, <2>4 DEF FrameInv
<1>2. CASE RunByte
  <2> PICK raw \in Byte : /\ ReadRawByte(raw)
                          /\ \/ WaitingForSync(raw) \/ ReadingHeader(raw)
                             \/ ReadingData(raw) \/ ReadingChecksum(raw)
    BY <1>2 DEF RunByte
  <2>1. /\ heard' \in Seq(Byte) /\ Len(heard') = Len(heard) + 1
        /\ \A i \in 1 .. Len(heard) : heard'[i] = heard[i]
    BY ByteIsHeard DEF ParserInv
  <2>2. \A i \in 1 .. Len(parsed) :
          /\ parsed[i].data \in Seq(Byte) /\ parsed[i].at \in 0 .. Len(heard')
          /\ FoundIn(parsed[i], heard')
          /\ state_' # "kWaitingForSync" => parsed[i].at <= Begun'
    <3> SUFFICES ASSUME NEW i \in 1 .. Len(parsed)
                 PROVE  /\ parsed[i].data \in Seq(Byte) /\ parsed[i].at \in 0 .. Len(heard')
                        /\ FoundIn(parsed[i], heard')
                        /\ state_' # "kWaitingForSync" => parsed[i].at <= Begun'
      OBVIOUS
    <3>1. FoundIn(parsed[i], heard')
      BY <1>b, <1>c, <2>1, FoundStays
    <3>2. state_' # "kWaitingForSync" => parsed[i].at <= Begun'
      BY <1>2, <1>b, <1>c, BegunStays
    <3> QED
      BY <1>b, <1>c, <2>1, <3>1, <3>2
  <2>3. CASE parsed' = parsed
    <3>1. ParsedFramesWereHeard'
      BY <1>d, <2>2, <2>3 DEF ParsedFramesWereHeard, FoundIn
    <3> QED
      BY <1>a, <2>2, <2>3, <3>1 DEF FrameInv
  <2>4. CASE state_ = "kReadingChecksum" /\ raw = ComputeChecksum(RxHeader, RxData)
             /\ DispatchFrame /\ ResetParser
    <3> DEFINE new == [tag |-> rx_tag_, data |-> RxData, at |-> Len(heard'),
                       handler |-> HandlerOf(rx_tag_)]
               k   == Len(parsed)
    <3>1. parsed' = Append(parsed, new) /\ state_' = "kWaitingForSync"
      BY <2>4 DEF DispatchFrame, ResetParser
    <3>2. /\ new.tag = rx_tag_ /\ new.data = RxData /\ new.at = Len(heard')
      OBVIOUS
    <3>3. /\ RxData \in Seq(Byte) /\ Len(RxData) = rx_data_length_
          /\ Len(heard') = Begun + WireLength(rx_data_length_)
          /\ SubSeq(heard', Begun + 1, Len(heard')) = WireOf(rx_tag_, RxData)
      BY <2>4, FrameIsWhole
    <3> HIDE DEF new
    <3>4. /\ \E T : parsed' \in Seq(T)
          /\ Len(parsed') = k + 1 /\ parsed'[k + 1] = new
          /\ \A i \in 1 .. k : parsed'[i] = parsed[i]
      <4>1. parsed \in Seq(S \cup {new})
        BY <1>a, SeqMonotonic
      <4> QED
        BY <3>1, <4>1, AppendProperties
    <3>5. WireLength(rx_data_length_) \in Nat /\ Begun \in Nat
      <4>1. WireLength(rx_data_length_) \in Nat
        BY Sizes DEF WireLength, kChecksumSize, ParserInv
      <4> QED
        BY <1>2, <2>4, <4>1, BegunStays
    <3>6. FoundIn(new, heard')
      <4>1. /\ new.at - WireLength(Len(new.data)) + 1 = Begun + 1
            /\ WireLength(Len(new.data)) <= new.at
        BY <3>2, <3>3, <3>5
      <4>2. Len(new.data) <= kMaxFrameDataLength
        BY <3>2, <3>3 DEF ParserInv
      <4> QED
        BY <3>2, <3>3, <4>1, <4>2 DEF FoundIn
    <3>7. \A i \in 1 .. Len(parsed') :
            /\ parsed'[i].data \in Seq(Byte) /\ parsed'[i].at \in 0 .. Len(heard')
            /\ FoundIn(parsed'[i], heard')
      <4> SUFFICES ASSUME NEW i \in 1 .. Len(parsed')
                   PROVE  /\ parsed'[i].data \in Seq(Byte)
                          /\ parsed'[i].at \in 0 .. Len(heard')
                          /\ FoundIn(parsed'[i], heard')
        OBVIOUS
      <4>1. CASE i = k + 1
        BY <1>b, <2>1, <3>2, <3>3, <3>4, <3>6, <4>1
      <4>2. CASE i \in 1 .. k
        BY <2>2, <3>4, <4>2
      <4> QED
        BY <1>b, <3>4, <4>1, <4>2
    <3>8. ASSUME NEW i \in 1 .. Len(parsed') - 1
          PROVE  parsed'[i].at + WireLength(Len(parsed'[i + 1].data)) <= parsed'[i + 1].at
      <4>1. CASE i = k
        <5>1. parsed'[i] = parsed[k] /\ parsed'[i + 1] = new /\ k \in 1 .. Len(parsed)
          BY <1>b, <3>4, <4>1
        <5>2. parsed[k].at <= Begun /\ parsed[k].at \in Nat
          BY <1>b, <1>c, <2>4, <5>1
        <5> QED
          BY <3>2, <3>3, <3>5, <5>1, <5>2, SMTT(30)
      <4>2. CASE i \in 1 .. k - 1
        <5>1. parsed'[i] = parsed[i] /\ parsed'[i + 1] = parsed[i + 1]
          BY <1>b, <3>4, <4>2
        <5> QED
          BY <1>d, <4>2, <5>1
      <4> QED
        BY <1>b, <3>4, <4>1, <4>2
    <3>9. ParsedFramesWereHeard'
      BY <3>7, <3>8 DEF ParsedFramesWereHeard, FoundIn
    <3> QED
      BY <3>1, <3>4, <3>7, <3>9 DEF FrameInv
  <2> QED
    BY <2>3, <2>4 DEF WaitingForSync, ReadingHeader, ReadingData, ReadingChecksum
<1> QED
  BY <1>1, <1>2

(* Whatever the line did to the bytes, a frame given to a handler is a     *)
(* well-formed frame found in one piece among the bytes read, and no two   *)
(* share a byte (DispatchFrame).                                           *)
THEOREM ParsedWereHeard == Spec => []ParsedFramesWereHeard
<1>1. FrameInv => ParsedFramesWereHeard
  BY DEF FrameInv
<1> QED
  BY <1>1, ParserInit, ParserNext, FrameInit, FrameNext, PTL DEF Spec

-----------------------------------------------------------------------------
(* The line: bytes read, in the read-ahead, received and on their way.     *)

Total == Len(heard) + Len(readahead_) + Len(fifo) + Len(air)

LineAt(k) ==
    LET h == Len(heard)
        r == h + Len(readahead_)
        f == r + Len(fifo)
    IN  IF k <= h THEN heard[k]
        ELSE IF k <= r THEN readahead_[k - h]
        ELSE IF k <= f THEN fifo[k - r]
        ELSE air[k - f]

LineType ==
    /\ heard \in Seq(Byte)
    /\ \E S : readahead_ \in Seq(S) /\ fifo \in Seq(S) /\ air \in Seq(S)

(* The smaller of two numbers.                                             *)
LEMMA MinOfTwo ==
    ASSUME NEW a \in Nat, NEW b \in Nat
    PROVE  Min({a, b}) \in {a, b} /\ Min({a, b}) <= a /\ Min({a, b}) <= b
<1>1. \E x \in {a, b} : \A y \in {a, b} : x <= y
  <2>1. CASE a <= b
    BY <2>1
  <2>2. CASE b <= a
    BY <2>2
  <2> QED
    BY <2>1, <2>2
<1>2. Min({a, b}) \in {a, b} /\ \A y \in {a, b} : Min({a, b}) <= y
  BY <1>1, Zenon DEF Min
<1> QED
  BY <1>2

(* A byte that arrives moves from the air to the received ones.            *)
LEMMA LineArrive ==
    ASSUME LineType, Arrive
    PROVE  /\ LineType' /\ Total' = Total
           /\ \A k \in 1 .. Total : LineAt(k)' = LineAt(k)
<1>1. PICK S : readahead_ \in Seq(S) /\ fifo \in Seq(S) /\ air \in Seq(S)
  BY DEF LineType
<1>2. /\ air # <<>> /\ fifo' = Append(fifo, Head(air)) /\ air' = Tail(air)
      /\ UNCHANGED <<heard, readahead_>>
  BY DEF Arrive
<1>3. /\ Head(air) \in S /\ Head(air) = air[1] /\ air' \in Seq(S)
      /\ Len(air') = Len(air) - 1 /\ \A i \in 1 .. Len(air') : air'[i] = air[i + 1]
      /\ Len(air) \in Nat \ {0}
  BY <1>1, <1>2, HeadTailProperties
<1>4. /\ fifo' \in Seq(S) /\ Len(fifo) \in Nat /\ Len(fifo') = Len(fifo) + 1
      /\ fifo'[Len(fifo) + 1] = air[1] /\ \A i \in 1 .. Len(fifo) : fifo'[i] = fifo[i]
  BY <1>1, <1>2, <1>3, AppendProperties
<1>5. Len(heard) \in Nat /\ Len(readahead_) \in Nat
  BY <1>1 DEF LineType
<1>6. LineType' /\ Total' = Total
  BY <1>1, <1>2, <1>3, <1>4, <1>5 DEF LineType, Total
<1>7. ASSUME NEW k \in 1 .. Total PROVE LineAt(k)' = LineAt(k)
  <2> DEFINE f == Len(heard) + Len(readahead_)
  <2>1. k \in Nat /\ f \in Nat /\ k <= f + Len(fifo) + Len(air)
    BY <1>3, <1>4, <1>5 DEF Total
  <2>2. CASE k <= f + Len(fifo)
    BY <1>2, <1>4, <1>5, <2>1, <2>2 DEF LineAt
  <2>3. CASE k = f + Len(fifo) + 1
    BY <1>2, <1>3, <1>4, <1>5, <2>1, <2>3 DEF LineAt
  <2>4. CASE k > f + Len(fifo) + 1
    <3>1. k - (f + Len(fifo')) \in 1 .. Len(air')
          /\ k - (f + Len(fifo')) + 1 = k - (f + Len(fifo))
      BY <1>3, <1>4, <2>1, <2>4
    <3>2. LineAt(k)' = air'[k - (f + Len(fifo'))] /\ LineAt(k) = air[k - (f + Len(fifo))]
      BY <1>2, <1>4, <1>5, <2>1, <2>4 DEF LineAt
    <3>3. air'[k - (f + Len(fifo'))] = air[k - (f + Len(fifo')) + 1]
      BY <1>3, <3>1
    <3> QED
      BY <3>1, <3>2, <3>3
  <2> QED
    BY <1>4, <2>1, <2>2, <2>3, <2>4
<1> QED
  BY <1>6, <1>7

(* A byte that is read moves to those heard, and the read-ahead takes a    *)
(* part of what was received.                                              *)
LEMMA LineRead ==
    ASSUME LineType, NEW raw \in Byte, ReadRawByte(raw)
    PROVE  /\ LineType' /\ Total' = Total /\ Len(heard) + 1 <= Total
           /\ raw = LineAt(Len(heard) + 1)
           /\ \A k \in 1 .. Total : LineAt(k)' = LineAt(k)
<1>1. PICK S : readahead_ \in Seq(S) /\ fifo \in Seq(S) /\ air \in Seq(S)
  BY DEF LineType
<1>2. UNCHANGED air
  BY DEF ReadRawByte, host
<1>3. /\ heard' \in Seq(Byte) /\ Len(heard) \in Nat /\ Len(heard') = Len(heard) + 1
      /\ heard'[Len(heard) + 1] = raw /\ \A i \in 1 .. Len(heard) : heard'[i] = heard[i]
  BY ByteIsHeard DEF LineType
<1>4. Len(readahead_) \in Nat /\ Len(fifo) \in Nat /\ Len(air) \in Nat
  BY <1>1
<1>5. CASE readahead_ # <<>> /\ raw = Head(readahead_) /\ readahead_' = Tail(readahead_)
           /\ fifo' = fifo
  <2>1. /\ raw = readahead_[1] /\ readahead_' \in Seq(S)
        /\ Len(readahead_') = Len(readahead_) - 1 /\ Len(readahead_) >= 1
        /\ \A i \in 1 .. Len(readahead_') : readahead_'[i] = readahead_[i + 1]
    BY <1>1, <1>5, HeadTailProperties
  <2>2. LineType' /\ Total' = Total /\ Len(heard) + 1 <= Total
    BY <1>1, <1>2, <1>3, <1>4, <1>5, <2>1 DEF LineType, Total
  <2>3. raw = LineAt(Len(heard) + 1)
    BY <1>3, <1>4, <2>1 DEF LineAt
  <2>4. ASSUME NEW k \in 1 .. Total PROVE LineAt(k)' = LineAt(k)
    <3>1. k \in Nat /\ k >= 1
      BY <1>3, <1>4 DEF Total
    <3>2. CASE k <= Len(heard)
      BY <1>3, <3>1, <3>2 DEF LineAt
    <3>3. CASE k = Len(heard) + 1
      BY <1>3, <2>3, <3>3 DEF LineAt
    <3>4. CASE k > Len(heard) + 1 /\ k <= Len(heard) + Len(readahead_)
      <4>1. k - Len(heard') \in 1 .. Len(readahead_')
            /\ k - Len(heard') + 1 = k - Len(heard)
        BY <1>3, <1>4, <2>1, <3>1, <3>4
      <4>2. readahead_'[k - Len(heard')] = readahead_[k - Len(heard') + 1]
        BY <2>1, <4>1
      <4>3. LineAt(k)' = readahead_'[k - Len(heard')] /\ LineAt(k) = readahead_[k - Len(heard)]
        BY <1>3, <1>4, <2>1, <3>1, <3>4 DEF LineAt
      <4> QED
        BY <4>1, <4>2, <4>3
    <3>5. CASE k > Len(heard) + Len(readahead_)
      <4>1. Len(heard') + Len(readahead_') = Len(heard) + Len(readahead_)
        BY <1>3, <1>4, <2>1
      <4>2. ~(k <= Len(heard')) /\ ~(k <= Len(heard)) /\ ~(k <= Len(heard) + Len(readahead_))
        BY <1>3, <1>4, <2>1, <3>1, <3>5
      <4> QED
        BY <1>2, <1>5, <4>1, <4>2 DEF LineAt
    <3> QED
      BY <1>3, <1>4, <3>1, <3>2, <3>3, <3>4, <3>5
  <2> QED
    BY <2>2, <2>3, <2>4
<1>6. CASE /\ readahead_ = <<>> /\ fifo # <<>> /\ raw = Head(fifo)
           /\ \E n : /\ n = Min({Len(fifo), ReadAheadSize})
                     /\ readahead_' = SubSeq(fifo, 2, n)
                     /\ fifo' = SubSeq(fifo, n + 1, Len(fifo))
  <2>1. PICK n : /\ n = Min({Len(fifo), ReadAheadSize})
                 /\ readahead_' = SubSeq(fifo, 2, n)
                 /\ fifo' = SubSeq(fifo, n + 1, Len(fifo))
    BY <1>6
  <2>2. Len(fifo) >= 1 /\ raw = fifo[1] /\ Len(readahead_) = 0
    BY <1>1, <1>6, HeadTailProperties
  <2>3. n \in 1 .. Len(fifo)
    <3>1. ReadAheadSize \in Nat /\ ReadAheadSize >= 1
      BY EngineAssumption
    <3>2. n \in {Len(fifo), ReadAheadSize} /\ n <= Len(fifo)
      BY <1>4, <2>1, <3>1, MinOfTwo
    <3> QED
      BY <1>4, <2>2, <3>1, <3>2
  <2>4. \A i \in 1 .. Len(fifo) : fifo[i] \in S
    BY <1>1
  <2>5. /\ readahead_' \in Seq(S) /\ Len(readahead_') = n - 1
        /\ \A i \in 1 .. n - 1 : readahead_'[i] = fifo[i + 1]
    <3>1. \A i \in 2 .. n : fifo[i] \in S
      BY <1>4, <2>3, <2>4
    <3>2. PICK m \in Int : m = 2
      OBVIOUS
    <3>3. n \in Int /\ readahead_' = SubSeq(fifo, m, n) /\ \A i \in m .. n : fifo[i] \in S
      <4>1. n \in Int
        BY <1>4, <2>3
      <4>2. readahead_' = SubSeq(fifo, m, n)
        BY <2>1, <3>2
      <4>3. \A i \in m .. n : fifo[i] \in S
        BY <3>1, <3>2
      <4> QED
        BY <4>1, <4>2, <4>3
    <3>4. /\ readahead_' \in Seq(S) /\ Len(readahead_') = IF m <= n THEN n - m + 1 ELSE 0
          /\ \A i \in 1 .. n - m + 1 : readahead_'[i] = fifo[m + i - 1]
      BY <3>3, SubSeqProperties
    <3> QED
      BY <2>3, <3>2, <3>4
  <2>6. /\ fifo' \in Seq(S) /\ Len(fifo') = Len(fifo) - n
        /\ \A i \in 1 .. Len(fifo) - n : fifo'[i] = fifo[n + i]
    <3>1. \A i \in n + 1 .. Len(fifo) : fifo[i] \in S
      BY <1>4, <2>3, <2>4
    <3> DEFINE l == Len(fifo)
    <3>2. l \in Int /\ n + 1 \in Int /\ n \in Int /\ n <= l
      BY <1>4, <2>3
    <3>3. fifo' = SubSeq(fifo, n + 1, l) /\ \A i \in n + 1 .. l : fifo[i] \in S
      BY <2>1, <3>1
    <3> HIDE DEF l
    <3>4. /\ fifo' \in Seq(S) /\ Len(fifo') = IF n + 1 <= l THEN l - (n + 1) + 1 ELSE 0
          /\ \A i \in 1 .. l - (n + 1) + 1 : fifo'[i] = fifo[(n + 1) + i - 1]
      BY <3>2, <3>3, SubSeqProperties
    <3>5. /\ Len(fifo') = l - n
          /\ \A i \in 1 .. l - n : fifo'[i] = fifo[n + i]
      BY <3>2, <3>4
    <3> QED
      BY <3>4, <3>5 DEF l
  <2>7. LineType' /\ Total' = Total /\ Len(heard) + 1 <= Total
    BY <1>1, <1>2, <1>3, <1>4, <2>2, <2>3, <2>5, <2>6 DEF LineType, Total
  <2>8. raw = LineAt(Len(heard) + 1)
    BY <1>3, <1>4, <2>2 DEF LineAt
  <2>9. ASSUME NEW k \in 1 .. Total PROVE LineAt(k)' = LineAt(k)
    <3>1. k \in Nat /\ k >= 1
      BY <1>3, <1>4 DEF Total
    <3>2. CASE k <= Len(heard)
      BY <1>3, <3>1, <3>2 DEF LineAt
    <3>3. CASE k = Len(heard) + 1
      BY <1>3, <2>8, <3>3 DEF LineAt
    <3>4. CASE k > Len(heard) + 1 /\ k <= Len(heard) + n
      <4>1. k - Len(heard') \in 1 .. n - 1 /\ k - Len(heard') + 1 = k - Len(heard)
        BY <1>3, <2>3, <3>1, <3>4
      <4>2. readahead_'[k - Len(heard')] = fifo[k - Len(heard') + 1]
        BY <2>5, <4>1
      <4>3. LineAt(k)' = readahead_'[k - Len(heard')]
        BY <1>3, <2>3, <2>5, <3>1, <3>4 DEF LineAt
      <4>4. LineAt(k) = fifo[k - Len(heard)]
        BY <1>3, <1>4, <2>2, <2>3, <3>1, <3>4 DEF LineAt
      <4> QED
        BY <4>1, <4>2, <4>3, <4>4
    <3>5. CASE k > Len(heard) + n /\ k <= Len(heard) + Len(fifo)
      <4>1. k - (Len(heard) + n) \in 1 .. Len(fifo) - n
            /\ n + (k - (Len(heard) + n)) = k - Len(heard)
        BY <1>3, <1>4, <2>3, <3>1, <3>5
      <4>2. fifo'[k - (Len(heard) + n)] = fifo[n + (k - (Len(heard) + n))]
        BY <2>6, <4>1
      <4>3. LineAt(k)' = fifo'[k - (Len(heard) + n)]
        <5>1. Len(heard') + Len(readahead_') = Len(heard) + n
          BY <1>3, <2>3, <2>5
        <5>2. Len(heard) + n + Len(fifo') = Len(heard) + Len(fifo)
          BY <1>3, <1>4, <2>3, <2>6
        <5>3. ~(k <= Len(heard')) /\ ~(k <= Len(heard) + n)
          BY <1>3, <2>3, <3>1, <3>5
        <5> QED
          BY <3>5, <5>1, <5>2, <5>3 DEF LineAt
      <4>4. LineAt(k) = fifo[k - Len(heard)]
        BY <1>3, <1>4, <2>2, <2>3, <3>1, <3>5 DEF LineAt
      <4> QED
        BY <4>1, <4>2, <4>3, <4>4
    <3>6. CASE k > Len(heard) + Len(fifo)
      <4>1. Len(heard') + Len(readahead_') + Len(fifo') = Len(heard) + Len(fifo)
        BY <1>3, <1>4, <2>3, <2>5, <2>6
      <4>2. Len(heard) + Len(readahead_) + Len(fifo) = Len(heard) + Len(fifo)
        BY <1>3, <1>4, <2>2
      <4>3. /\ ~(k <= Len(heard')) /\ ~(k <= Len(heard)) /\ ~(k <= Len(heard) + Len(fifo))
            /\ ~(k <= Len(heard') + Len(readahead_')) /\ ~(k <= Len(heard) + Len(readahead_))
        BY <1>3, <1>4, <2>2, <2>3, <2>5, <3>1, <3>6
      <4> QED
        BY <1>2, <4>1, <4>2, <4>3 DEF LineAt
    <3> QED
      BY <1>3, <1>4, <2>3, <3>1, <3>2, <3>3, <3>4, <3>5, <3>6
  <2> QED
    BY <2>7, <2>8, <2>9
<1> QED
  BY <1>5, <1>6 DEF ReadRawByte

(* The steps that put no frame on the line leave its bytes alone.          *)
LEMMA LineKept ==
    ASSUME LineType, [Next]_vars, ~HostSends
    PROVE  /\ LineType' /\ Total' = Total /\ sent' = sent /\ setup' = setup
           /\ \A k \in 1 .. Total : LineAt(k)' = LineAt(k)
<1>1. CASE Arrive
  BY <1>1, LineArrive DEF Arrive
<1>2. CASE RunByte
  BY <1>2, LineRead DEF RunByte, ReadRawByte, host
<1>3. CASE UNCHANGED <<heard, readahead_, fifo, air, sent, setup>>
  BY <1>3 DEF LineType, Total, LineAt
<1>4. CASE Tick \/ StreamIsEmpty \/ RunEnds \/ RunBegins \/ UNCHANGED vars
  BY <1>3, <1>4 DEF Tick, StreamIsEmpty, RunEnds, RunBegins, vars, host
<1>5. CASE \E tag \in setup.tags : AddHandler(tag, "application")
  BY <1>3, <1>5 DEF AddHandler, host
<1>6. CASE \E request \in setup.requests : Send(request)
  BY <1>3, <1>6 DEF Send, host
<1> QED
  BY <1>1, <1>2, <1>4, <1>5, <1>6 DEF Next

(* Whole or damaged, what is put on the line is a sequence of bytes.       *)
LEMMA DamagedIsSeq ==
    ASSUME NEW T, NEW w \in Seq(T), NEW bytes, bytes = w \/ bytes \in Damaged(w)
    PROVE  \E S : bytes \in Seq(S)
<1>1. Len(w) \in Nat /\ \A i \in 1 .. Len(w) : w[i] \in T
  OBVIOUS
<1>2. CASE \E i \in 1 .. Len(w), b \in Byte : bytes = [w EXCEPT ![i] = b]
  <2>1. w \in Seq(T \cup Byte)
    BY SeqMonotonic
  <2> QED
    BY <1>2, <2>1, ExceptSeq
<1>3. ASSUME NEW a \in Int, NEW b \in Int, 1 <= a, b <= Len(w)
      PROVE  SubSeq(w, a, b) \in Seq(T)
  <2>1. \A i \in a .. b : w[i] \in T
    BY <1>1, <1>3
  <2> QED
    BY <2>1, SubSeqProperties
<1>4. CASE \E i \in 1 .. Len(w) : bytes = RemoveAt(w, i)
  <2>1. PICK i \in 1 .. Len(w) : bytes = SubSeq(w, 1, i - 1) \o SubSeq(w, i + 1, Len(w))
    BY <1>4 DEF RemoveAt
  <2>2. SubSeq(w, 1, i - 1) \in Seq(T)
    BY <1>1, <1>3
  <2>3. SubSeq(w, i + 1, Len(w)) \in Seq(T)
    BY <1>1, <1>3
  <2> QED
    BY <2>1, <2>2, <2>3, ConcatProperties
<1>5. CASE \E i \in 1 .. Len(w) - 1 : bytes = SubSeq(w, 1, i)
  <2>1. PICK i \in 1 .. Len(w) - 1 : bytes = SubSeq(w, 1, i)
    BY <1>5
  <2>2. i \in Int /\ i <= Len(w)
    BY <1>1
  <2>3. SubSeq(w, 1, i) \in Seq(T)
    BY <1>3, <2>2
  <2> QED
    BY <2>1, <2>3
<1>6. CASE bytes = w
  BY <1>6
<1> QED
  BY <1>2, <1>4, <1>5, <1>6 DEF Damaged

(* A frame is put behind all bytes on the line.                            *)
LEMMA LineSend ==
    ASSUME LineType, NEW frame, NEW bytes, NEW B, bytes \in Seq(B), HostSend(frame, bytes),
           NEW total, total = Total
    PROVE  /\ LineType' /\ total \in Nat /\ OnTheLine = total
           /\ Total' = total + Len(bytes)
           /\ \A k \in 1 .. total : LineAt(k)' = LineAt(k)
           /\ \A k \in 1 .. Len(bytes) : LineAt(total + k)' = bytes[k]
<1>1. PICK S : readahead_ \in Seq(S) /\ fifo \in Seq(S) /\ air \in Seq(S)
  BY DEF LineType
<1>2. air = <<>> /\ air' = bytes /\ UNCHANGED <<heard, readahead_, fifo>>
  BY DEF HostSend
<1>3. /\ Len(heard) \in Nat /\ Len(readahead_) \in Nat /\ Len(fifo) \in Nat
      /\ Len(air) = 0 /\ Len(bytes) \in Nat
  BY <1>1, <1>2 DEF LineType
<1>4. LineType'
  <2>1. /\ readahead_ \in Seq(S \cup B) /\ fifo \in Seq(S \cup B)
        /\ bytes \in Seq(S \cup B)
    BY <1>1, SeqMonotonic
  <2> QED
    BY <1>2, <2>1 DEF LineType
<1>5. /\ total \in Nat /\ OnTheLine = total /\ Total' = total + Len(bytes)
      /\ total = Len(heard) + Len(readahead_) + Len(fifo)
  BY <1>2, <1>3 DEF Total, OnTheLine
<1>6. ASSUME NEW k \in 1 .. total PROVE LineAt(k)' = LineAt(k)
  BY <1>2, <1>3, <1>5 DEF LineAt
<1>7. ASSUME NEW k \in 1 .. Len(bytes) PROVE LineAt(total + k)' = bytes[k]
  <2>1. /\ ~(total + k <= Len(heard)) /\ ~(total + k <= Len(heard) + Len(readahead_))
        /\ ~(total + k <= Len(heard) + Len(readahead_) + Len(fifo))
        /\ (total + k) - (Len(heard) + Len(readahead_) + Len(fifo)) = k
    BY <1>3, <1>5
  <2> QED
    BY <1>2, <2>1 DEF LineAt
<1> QED
  BY <1>4, <1>5, <1>6, <1>7

-----------------------------------------------------------------------------
(* The frames on the line, side by side.                                   *)

OnLine(s) ==
    /\ s.from \in Nat /\ s.to \in Nat /\ s.from <= s.to /\ s.to <= Total
    /\ s.tag \in Nat /\ s.data \in Seq(Byte) /\ Len(s.data) <= kMaxFrameDataLength
    /\ s.whole => /\ s.to = s.from + Len(s.data) + 6
                  /\ \A k \in 1 .. Len(s.data) + 6 :
                         LineAt(s.from + k) = WireOf(s.tag, s.data)[k]

LineInv ==
    /\ LineType
    /\ setup \in Setups
    /\ \E S : sent \in Seq(S)
    /\ \A i \in 1 .. Len(sent) : OnLine(sent[i])
    /\ \A i, j \in 1 .. Len(sent) : j < i => sent[j].to <= sent[i].from
    /\ \A p \in 1 .. Total : \E i \in 1 .. Len(sent) : sent[i].from < p /\ p <= sent[i].to

(* The initial state.                                                      *)
LEMMA LineInit == Init => LineInv
<1> SUFFICES ASSUME Init PROVE LineInv
  OBVIOUS
<1>1. /\ heard = <<>> /\ readahead_ = <<>> /\ fifo = <<>> /\ air = <<>> /\ sent = <<>>
      /\ setup \in Setups
  BY DEF Init
<1>2. Total = 0 /\ Len(sent) = 0
  BY <1>1 DEF Total
<1>3. LineType /\ \E S : sent \in Seq(S)
  BY <1>1 DEF LineType
<1> QED
  BY <1>1, <1>2, <1>3 DEF LineInv

(* What is known of a frame stays while the line keeps its bytes.          *)
LEMMA OnLineStays ==
    ASSUME NEW s, OnLine(s), Total \in Nat, Total' \in Nat, Total <= Total',
           \A k \in 1 .. Total : LineAt(k)' = LineAt(k)
    PROVE  OnLine(s)'
<1>1. ASSUME s.whole, NEW k \in 1 .. Len(s.data) + 6
      PROVE  LineAt(s.from + k)' = WireOf(s.tag, s.data)[k]
  <2>1. s.from \in Nat /\ Len(s.data) \in Nat /\ s.from + Len(s.data) + 6 <= Total
    BY <1>1 DEF OnLine
  <2>2. s.from + k \in 1 .. Total
    BY <2>1
  <2> QED
    BY <1>1, <2>2 DEF OnLine
<1> QED
  BY <1>1 DEF OnLine

(* Every step keeps the frames on the line side by side and unchanged.     *)
LEMMA LineNext == LineInv /\ [Next]_vars => LineInv'
<1> SUFFICES ASSUME LineInv, [Next]_vars PROVE LineInv'
  OBVIOUS
<1>a. PICK S : sent \in Seq(S)
  BY DEF LineInv
<1>b. /\ Len(sent) \in Nat /\ LineType /\ setup \in Setups
      /\ \A i \in 1 .. Len(sent) : OnLine(sent[i])
      /\ \A i, j \in 1 .. Len(sent) : j < i => sent[j].to <= sent[i].from
      /\ \A p \in 1 .. Total : \E i \in 1 .. Len(sent) : sent[i].from < p /\ p <= sent[i].to
  BY <1>a DEF LineInv
<1>c. Total \in Nat
  <2>1. PICK X : readahead_ \in Seq(X) /\ fifo \in Seq(X) /\ air \in Seq(X)
    BY <1>b DEF LineType
  <2> QED
    BY <1>b, <2>1 DEF LineType, Total
<1>1. CASE ~HostSends
  <2>1. /\ LineType' /\ Total' = Total /\ sent' = sent /\ setup' = setup
        /\ \A k \in 1 .. Total : LineAt(k)' = LineAt(k)
    BY <1>1, <1>b, LineKept
  <2>2. ASSUME NEW i \in 1 .. Len(sent) PROVE OnLine(sent[i])'
    <3>1. PICK s : s = sent[i]
      OBVIOUS
    <3>2. OnLine(s)'
      <4>1. OnLine(s)
        BY <1>b, <3>1
      <4> QED
        BY <1>c, <2>1, <4>1, OnLineStays
    <3>3. sent'[i] = s
      BY <2>1, <3>1
    <3> QED
      BY <3>2, <3>3 DEF OnLine
  <2> QED
    BY <1>a, <1>b, <2>1, <2>2 DEF LineInv
<1>2. CASE HostSends
  <2>0. PICK frame \in setup.frames : \E bytes :
          /\ HostSend(frame, bytes)
          /\ \/ bytes = WireOf(frame.tag, frame.data)
             \/ bytes \in Damaged(WireOf(frame.tag, frame.data))
    BY <1>2 DEF HostSends
  <2>1. PICK bytes : /\ HostSend(frame, bytes)
                     /\ \/ bytes = WireOf(frame.tag, frame.data)
                        \/ bytes \in Damaged(WireOf(frame.tag, frame.data))
    BY <2>0
  <2> DEFINE w == WireOf(frame.tag, frame.data)
             n == Len(frame.data)
  <2>2. /\ frame.tag \in Nat /\ frame.data \in Seq(Byte) /\ n \in Nat
        /\ n <= kMaxFrameDataLength
    <3>1. /\ frame.tag \in 0 .. ByteRange * ByteRange - 1 /\ frame.data \in Seq(Byte)
          /\ Len(frame.data) <= kMaxFrameDataLength
      BY <1>b, EngineAssumption
    <3>2. ByteRange * ByteRange \in Nat
      BY FrameAssumption, SMTT(30)
    <3> QED
      BY <3>1, <3>2
  <2>3. Len(w) = n + 6 /\ \E T : w \in Seq(T)
    <3>1. Len(w) = n + 6 /\ w = [i \in 1 .. n + 6 |-> w[i]]
      BY <2>2, WireBytes, SMTT(30)
    <3> HIDE DEF w
    <3>2. PICK m \in Nat : m = n + 6
      BY <2>2
    <3>3. w = [i \in 1 .. m |-> w[i]] /\ Len(w) = m
      BY <3>1, <3>2
    <3>4. w \in [1 .. m -> {w[i] : i \in 1 .. m}]
      BY <3>3
    <3>5. w \in Seq({w[i] : i \in 1 .. m})
      BY <3>2, <3>4
    <3> QED
      BY <3>1, <3>5
  <2>4. PICK B : bytes \in Seq(B)
    BY <2>1, <2>3, DamagedIsSeq
  <2>5. PICK new, total, k :
          /\ new = [tag |-> frame.tag, data |-> frame.data, from |-> OnTheLine,
                    to |-> OnTheLine + Len(bytes), whole |-> bytes = w]
          /\ total = Total /\ k = Len(sent)
    OBVIOUS
  <2>6. sent' = Append(sent, new) /\ setup' = setup
    BY <2>1, <2>5 DEF HostSend
  <2>7. /\ LineType' /\ OnTheLine = total /\ Total' = total + Len(bytes)
        /\ \A p \in 1 .. Total : LineAt(p)' = LineAt(p)
        /\ \A p \in 1 .. Len(bytes) : LineAt(total + p)' = bytes[p]
        /\ Len(bytes) \in Nat /\ total \in Nat
    BY <1>b, <1>c, <2>1, <2>4, <2>5, LineSend
  <2>8. /\ new.tag = frame.tag /\ new.data = frame.data /\ new.from = total
        /\ new.to = total + Len(bytes) /\ (new.whole <=> bytes = w)
    BY <2>5, <2>7
  <2> HIDE DEF w
  <2>9. /\ \E T : sent' \in Seq(T)
        /\ k \in Nat /\ Len(sent') = k + 1 /\ sent'[k + 1] = new
        /\ \A i \in 1 .. k : sent'[i] = sent[i]
    <3>1. sent \in Seq(S \cup {new})
      BY <1>a, SeqMonotonic
    <3> QED
      BY <1>b, <2>5, <2>6, <3>1, AppendProperties
  <2>10. OnLine(new)'
    <3>1. ASSUME bytes = w
          PROVE  /\ new.to = new.from + Len(new.data) + 6
                 /\ \A p \in 1 .. Len(new.data) + 6 :
                        LineAt(new.from + p)' = WireOf(new.tag, new.data)[p]
      <4>1. WireOf(new.tag, new.data) = bytes /\ Len(new.data) = n
        BY <2>8, <3>1 DEF w
      <4>2. Len(bytes) = n + 6
        BY <2>3, <3>1
      <4> HIDE DEF n
      <4> QED
        BY <2>2, <2>7, <2>8, <4>1, <4>2
    <3>2. /\ new.from \in Nat /\ new.to \in Nat /\ new.from <= new.to /\ new.to <= Total'
          /\ new.tag \in Nat /\ new.data \in Seq(Byte)
          /\ Len(new.data) <= kMaxFrameDataLength
      BY <2>2, <2>7, <2>8
    <3> QED
      BY <2>8, <3>1, <3>2 DEF OnLine
  <2>11. ASSUME NEW i \in 1 .. k PROVE OnLine(sent[i])'
    <3>1. PICK s : s = sent[i]
      OBVIOUS
    <3>2. OnLine(s)
      BY <1>b, <2>5, <3>1
    <3>3. Total' \in Nat /\ Total <= Total'
      BY <2>5, <2>7
    <3>4. OnLine(s)'
      BY <1>c, <2>7, <3>2, <3>3, OnLineStays
    <3>5. sent'[i] = s
      BY <2>9, <3>1
    <3> QED
      BY <3>4, <3>5 DEF OnLine
  <2>12. \A i \in 1 .. Len(sent') : OnLine(sent[i])'
    <3> SUFFICES ASSUME NEW i \in 1 .. Len(sent') PROVE OnLine(sent[i])'
      OBVIOUS
    <3>1. CASE i = k + 1
      BY <2>9, <2>10, <3>1 DEF OnLine
    <3>2. CASE i \in 1 .. k
      BY <2>11, <3>2 DEF OnLine
    <3> QED
      BY <2>9, <3>1, <3>2
  <2>13. \A i, j \in 1 .. Len(sent') : j < i => sent'[j].to <= sent'[i].from
    <3> SUFFICES ASSUME NEW i \in 1 .. Len(sent'), NEW j \in 1 .. Len(sent'), j < i
                 PROVE  sent'[j].to <= sent'[i].from
      OBVIOUS
    <3>1. CASE i = k + 1
      <4>1. j \in 1 .. k /\ sent'[j] = sent[j]
        BY <2>9, <3>1
      <4>2. sent[j].to <= total
        BY <1>b, <2>5, <4>1 DEF OnLine
      <4> QED
        BY <2>8, <2>9, <3>1, <4>1, <4>2
    <3>2. CASE i \in 1 .. k
      <4>1. j \in 1 .. k /\ sent'[j] = sent[j] /\ sent'[i] = sent[i]
        BY <2>9, <3>2
      <4> QED
        BY <1>b, <2>5, <3>2, <4>1
    <3> QED
      BY <2>9, <3>1, <3>2
  <2>14. ASSUME NEW p \in 1 .. Total'
         PROVE  \E i \in 1 .. Len(sent') : sent'[i].from < p /\ p <= sent'[i].to
    <3>1. CASE p <= total
      <4>1. PICK i \in 1 .. k : sent[i].from < p /\ p <= sent[i].to
        BY <1>b, <2>5, <2>7, <3>1
      <4>2. i \in 1 .. Len(sent') /\ sent'[i] = sent[i]
        BY <2>9
      <4> QED
        BY <4>1, <4>2
    <3>2. CASE p > total
      <4>1. k + 1 \in 1 .. Len(sent') /\ sent'[k + 1].from < p /\ p <= sent'[k + 1].to
        BY <2>7, <2>8, <2>9, <3>2
      <4> QED
        BY <4>1
    <3> QED
      BY <2>7, <3>1, <3>2
  <2> QED
    BY <1>b, <2>6, <2>7, <2>9, <2>12, <2>13, <2>14 DEF LineInv
<1> QED
  BY <1>1, <1>2

-----------------------------------------------------------------------------
(* A parser that begins with a whole frame ends with it.                   *)

(* Header gives back what ParseHeader reads.                               *)
LEMMA ParseOfHeader ==
    ASSUME NEW tag \in Nat, NEW length \in Nat
    PROVE  ParseHeader(Header(tag, length)) = [tag |-> tag, length |-> length]
<1>1. ByteRange \in Nat \ {0}
  BY FrameAssumption DEF Byte
<1>2. ASSUME NEW x \in Nat PROVE (x % ByteRange) + ByteRange * (x \div ByteRange) = x
  BY <1>1, SMTT(30)
<1> QED
  BY <1>2 DEF ParseHeader, Header

(* The parser is inside the frame s since its first byte                   *)
Inside(s) == s.whole /\ state_ # "kWaitingForSync" /\ Begun = s.from

(* The bytes held are the first ones of the frame.                         *)
LEMMA BufferOfFrame ==
    ASSUME ParserInv, NEW s, OnLine(s), Inside(s),
           NEW i \in 1 .. Stored, i <= Len(s.data) + 5
    PROVE  rx_buffer_[i - 1] = WireOf(s.tag, s.data)[i + 1]
<1>1. /\ Stored \in Nat /\ Len(heard) \in Nat /\ Stored + 1 <= Len(heard)
      /\ \A j \in 1 .. Stored : heard[Len(heard) - Stored + j] = rx_buffer_[j - 1]
  BY Sizes, SMTT(30) DEF ParserInv, ParserHoldsLastBytes, Stored, Inside
<1>2. s.from \in Nat /\ Len(s.data) \in Nat /\ s.from = Len(heard) - Stored - 1
  BY DEF OnLine, Inside, Begun
<1>3. i + 1 \in 1 .. Len(s.data) + 6
  BY <1>1, <1>2
<1>4. /\ Len(heard) - Stored + i = s.from + (i + 1)
      /\ s.from + (i + 1) <= Len(heard)
  BY <1>1, <1>2
<1>5. LineAt(s.from + (i + 1)) = WireOf(s.tag, s.data)[i + 1]
  BY <1>3 DEF OnLine, Inside
<1>6. LineAt(s.from + (i + 1)) = heard[s.from + (i + 1)]
  BY <1>4 DEF LineAt
<1> QED
  BY <1>1, <1>4, <1>5, <1>6

(* Behind the header of a frame the parser knows its tag and its length.   *)
LEMMA HeaderOfFrame ==
    ASSUME ParserInv, NEW s, OnLine(s), Inside(s), state_ # "kReadingHeader"
    PROVE  /\ rx_tag_ = s.tag /\ rx_data_length_ = Len(s.data)
           /\ RxHeader = Header(s.tag, Len(s.data))
<1>1. Len(s.data) \in Nat /\ s.tag \in Nat /\ s.data \in Seq(Byte)
  BY DEF OnLine
<1>2. Stored \in Nat /\ Stored >= 4
  BY Sizes DEF ParserInv, Stored, Inside, States
<1>3. RxHeader = [i \in 1 .. 4 |-> rx_buffer_[i - 1]]
  BY Sizes DEF RxHeader
<1> DEFINE h == Header(s.tag, Len(s.data))
<1>4. h = [i \in 1 .. 4 |-> h[i]]
  BY DEF Header
<1>5. ASSUME NEW i \in 1 .. 4 PROVE rx_buffer_[i - 1] = h[i]
  <2>1. i \in 1 .. Stored /\ i <= Len(s.data) + 5
    BY <1>1, <1>2
  <2>2. rx_buffer_[i - 1] = WireOf(s.tag, s.data)[i + 1]
    BY <2>1, BufferOfFrame
  <2>3. i + 1 \in 1 .. Len(s.data) + 6 /\ i + 1 # 1 /\ i + 1 <= 5 /\ (i + 1) - 1 = i
    BY <1>1
  <2> HIDE DEF h
  <2>4. WireOf(s.tag, s.data)[i + 1] = Header(s.tag, Len(s.data))[(i + 1) - 1]
    BY <1>1, <2>3, WireBytes
  <2> QED
    BY <2>2, <2>3, <2>4 DEF h
<1>6. RxHeader = h
  <2> HIDE DEF h
  <2> QED
    BY <1>3, <1>4, <1>5
<1>7. ParseHeader(RxHeader) = [tag |-> rx_tag_, length |-> rx_data_length_]
  BY DEF ParserInv, ParserHoldsLastBytes, Inside
<1>8. ParseHeader(RxHeader) = [tag |-> s.tag, length |-> Len(s.data)]
  BY <1>1, <1>6, ParseOfHeader
<1> QED
  BY <1>6, <1>7, <1>8

(* The parser leaves a frame with its last byte, the checksum.             *)
LEMMA ReadsToTheEnd ==
    ASSUME ParserInv, NEW s, OnLine(s), Inside(s)
    PROVE  /\ Len(heard) < s.to
           /\ state_ = "kReadingChecksum" <=> Len(heard) + 1 = s.to
<1>1. /\ Len(s.data) \in Nat /\ s.to = s.from + Len(s.data) + 6 /\ s.from \in Nat
      /\ s.from = Len(heard) - Stored - 1
  BY DEF OnLine, Inside, Begun
<1>2. Len(heard) \in Nat /\ rx_index_ \in Nat
  BY DEF ParserInv
<1>3. CASE state_ = "kReadingHeader"
  <2>1. Stored = rx_index_ /\ rx_index_ < 4
    BY <1>2, <1>3, Sizes DEF Stored, ParserInv
  <2> QED
    BY <1>1, <1>2, <1>3, <2>1
<1>4. CASE state_ = "kReadingData"
  <2>1. Stored = rx_index_ + 4 /\ rx_index_ < Len(s.data)
    BY <1>2, <1>4, Sizes, HeaderOfFrame DEF Stored, ParserInv
  <2> QED
    BY <1>1, <1>2, <1>4, <2>1
<1>5. CASE state_ = "kReadingChecksum"
  <2>1. Stored = Len(s.data) + 4
    BY <1>2, <1>5, Sizes, HeaderOfFrame DEF Stored, ParserInv, ParserHoldsLastBytes
  <2> QED
    BY <1>1, <1>2, <1>5, <2>1
<1> QED
  BY <1>3, <1>4, <1>5 DEF ParserInv, States, Inside

(* Before the last byte of a frame nothing makes the parser give it up:    *)
(* its length is good.                                                     *)
LEMMA FrameGoesOn ==
    ASSUME ParserInv, LineType, NEW s, OnLine(s), Inside(s), RunByte, Len(heard) + 1 < s.to
    PROVE  Inside(s)'
<1> PICK raw \in Byte : /\ ReadRawByte(raw)
                        /\ \/ WaitingForSync(raw) \/ ReadingHeader(raw)
                           \/ ReadingData(raw) \/ ReadingChecksum(raw)
  BY DEF RunByte
<1>1. /\ Len(s.data) \in Nat /\ s.to = s.from + Len(s.data) + 6 /\ s.from \in Nat
      /\ s.from = Len(heard) - Stored - 1 /\ Len(heard) \in Nat
      /\ s.tag \in Nat /\ s.data \in Seq(Byte) /\ Len(s.data) <= kMaxFrameDataLength
  BY DEF OnLine, Inside, Begun, ParserInv
<1>2. state_ # "kWaitingForSync" /\ state_ # "kReadingChecksum"
  BY <1>1, ReadsToTheEnd DEF Inside
<1>3. state_' # "kWaitingForSync"
  <2>1. CASE ReadingData(raw)
    BY <2>1 DEF ReadingData
  <2>2. CASE ReadingHeader(raw)
    <3>1. CASE rx_index_ + 1 < kHeaderSize
      BY <1>2, <2>2, <3>1, Sizes DEF ReadingHeader, ParserInv
    <3>2. CASE rx_index_ + 1 >= kHeaderSize
      <4>1. state_ = "kReadingHeader" /\ rx_index_ = 3 /\ Stored = 3
        BY <2>2, <3>2, Sizes DEF ReadingHeader, ParserInv, Stored
      <4> DEFINE buffer == [rx_buffer_ EXCEPT ![rx_index_] = raw]
                 h      == [i \in 1 .. kHeaderSize |-> buffer[i - 1]]
                 g      == Header(s.tag, Len(s.data))
      <4>2. g = [i \in 1 .. 4 |-> g[i]]
        BY DEF Header
      <4>3. h = [i \in 1 .. 4 |-> IF i = 4 THEN raw ELSE rx_buffer_[i - 1]]
        BY <4>1, Sizes DEF ParserInv
      <4>4. \A i \in 2 .. 5 : WireOf(s.tag, s.data)[i] = Header(s.tag, Len(s.data))[i - 1]
        <5> SUFFICES ASSUME NEW i \in 2 .. 5
                     PROVE  WireOf(s.tag, s.data)[i] = Header(s.tag, Len(s.data))[i - 1]
          OBVIOUS
        <5>1. i \in 1 .. Len(s.data) + 6 /\ i # 1 /\ i <= 5
          BY <1>1
        <5> QED
          BY <1>1, <5>1, WireBytes
      <4>5. raw = g[4]
        <5>1. Len(heard) + 1 = s.from + 5 /\ 5 \in 1 .. Len(s.data) + 6
          BY <1>1, <4>1
        <5>2. raw = LineAt(s.from + 5)
          BY <5>1, LineRead
        <5>3. LineAt(s.from + 5) = WireOf(s.tag, s.data)[5]
          BY <5>1 DEF OnLine, Inside
        <5>4. WireOf(s.tag, s.data)[5] = Header(s.tag, Len(s.data))[4]
          BY <4>4
        <5> QED
          BY <5>2, <5>3, <5>4
      <4>6. ASSUME NEW i \in 1 .. 3 PROVE rx_buffer_[i - 1] = g[i]
        <5>1. i \in 1 .. Stored /\ i <= Len(s.data) + 5 /\ i + 1 \in 2 .. 5 /\ (i + 1) - 1 = i
          BY <1>1, <4>1
        <5>2. rx_buffer_[i - 1] = WireOf(s.tag, s.data)[i + 1]
          BY <5>1, BufferOfFrame
        <5>3. WireOf(s.tag, s.data)[i + 1] = Header(s.tag, Len(s.data))[(i + 1) - 1]
          BY <4>4, <5>1
        <5> QED
          BY <5>1, <5>2, <5>3
      <4>7. h = g
        <5> HIDE DEF g, h
        <5> QED
          BY <4>2, <4>3, <4>5, <4>6
      <4>8. ParseHeader(h).length = Len(s.data)
        BY <1>1, <4>7, ParseOfHeader
      <4>9. LengthIsGood(ParseHeader(h).length)
        BY <1>1, <4>8 DEF LengthIsGood
      <4> QED
        BY <2>2, <3>2, <4>1, <4>9, Sizes DEF ReadingHeader
    <3> QED
      BY <3>1, <3>2, Sizes DEF ParserInv
  <2> QED
    BY <1>2, <2>1, <2>2 DEF WaitingForSync, ReadingChecksum
<1> QED
  BY <1>2, <1>3, BegunStays DEF Inside

(* With its last byte a whole frame is handed over.                        *)
LEMMA FrameIsTaken ==
    ASSUME ParserInv, LineType, NEW s, OnLine(s), Inside(s), RunByte, Len(heard) + 1 = s.to
    PROVE  \E new : /\ parsed' = Append(parsed, new)
                    /\ new.at = s.to /\ new.tag = s.tag /\ new.data = s.data
<1> PICK raw \in Byte : /\ ReadRawByte(raw)
                        /\ \/ WaitingForSync(raw) \/ ReadingHeader(raw)
                           \/ ReadingData(raw) \/ ReadingChecksum(raw)
  BY DEF RunByte
<1> DEFINE n == Len(s.data)
<1>1. /\ n \in Nat /\ s.to = s.from + n + 6 /\ s.from \in Nat
      /\ s.from = Len(heard) - Stored - 1 /\ Len(heard) \in Nat
      /\ s.tag \in Nat /\ s.data \in Seq(Byte)
  BY DEF OnLine, Inside, Begun, ParserInv
<1>2. state_ = "kReadingChecksum" /\ ReadingChecksum(raw)
  BY <1>1, ReadsToTheEnd DEF WaitingForSync, ReadingHeader, ReadingData
<1>3. rx_tag_ = s.tag /\ rx_data_length_ = n /\ RxHeader = Header(s.tag, n)
  BY <1>2, HeaderOfFrame
<1>4. Stored = n + 4
  BY <1>2, <1>3, Sizes DEF Stored, ParserInv, ParserHoldsLastBytes
<1>5. RxData = s.data
  <2>1. RxData = [i \in 1 .. n |-> rx_buffer_[4 + i - 1]]
    BY <1>3, Sizes DEF RxData
  <2>2. ASSUME NEW i \in 1 .. n PROVE rx_buffer_[4 + i - 1] = s.data[i]
    <3>1. i + 4 \in 1 .. Stored /\ i + 4 <= n + 5 /\ (i + 4) - 1 = 4 + i - 1
      BY <1>1, <1>4
    <3>2. rx_buffer_[(i + 4) - 1] = WireOf(s.tag, s.data)[(i + 4) + 1]
      BY <3>1, BufferOfFrame
    <3>3. (i + 4) + 1 \in 1 .. n + 6 /\ (i + 4) + 1 # 1 /\ ~((i + 4) + 1 <= 5)
          /\ (i + 4) + 1 <= n + 5 /\ ((i + 4) + 1) - 5 = i
      BY <1>1
    <3>4. WireOf(s.tag, s.data)[(i + 4) + 1] = s.data[((i + 4) + 1) - 5]
      <4>1. PICK k : k = (i + 4) + 1
        OBVIOUS
      <4>2. k \in 1 .. n + 6 /\ k # 1 /\ ~(k <= 5) /\ k <= n + 5
        BY <3>3, <4>1
      <4>3. WireOf(s.tag, s.data)[k] = s.data[k - 5]
        BY <1>1, <4>2, WireData
      <4> QED
        BY <4>1, <4>3
    <3> QED
      BY <3>1, <3>2, <3>3, <3>4
  <2>3. s.data = [i \in 1 .. n |-> s.data[i]]
    BY <1>1, SeqAsFunction
  <2> HIDE DEF n
  <2> QED
    BY <2>1, <2>2, <2>3
<1>6. raw = ComputeChecksum(RxHeader, RxData)
  <2>1. n + 6 \in 1 .. n + 6 /\ n + 6 # 1 /\ ~(n + 6 <= 5) /\ ~(n + 6 <= n + 5)
        /\ Len(heard) + 1 = s.from + (n + 6)
    BY <1>1
  <2>2. raw = LineAt(s.from + (n + 6))
    BY <2>1, LineRead
  <2>3. LineAt(s.from + (n + 6)) = WireOf(s.tag, s.data)[n + 6]
    BY <2>1 DEF OnLine, Inside
  <2>4. WireOf(s.tag, s.data)[n + 6] = ComputeChecksum(Header(s.tag, Len(s.data)), s.data)
    <3>1. PICK k : k = n + 6
      OBVIOUS
    <3>2. k \in 1 .. n + 6 /\ k # 1 /\ ~(k <= 5) /\ ~(k <= n + 5)
      BY <2>1, <3>1
    <3>3. WireOf(s.tag, s.data)[k] = ComputeChecksum(Header(s.tag, Len(s.data)), s.data)
      BY <1>1, <3>2, WireBytes
    <3> QED
      BY <3>1, <3>3
  <2> QED
    BY <1>3, <1>5, <2>2, <2>3, <2>4
<1>7. Len(heard') = s.to
  BY ByteIsHeard DEF ParserInv
<1> DEFINE new == [tag |-> rx_tag_, data |-> RxData, at |-> Len(heard'),
                   handler |-> HandlerOf(rx_tag_)]
<1>8. parsed' = Append(parsed, new)
  BY <1>2, <1>6 DEF ReadingChecksum, DispatchFrame
<1>9. new.at = s.to /\ new.tag = s.tag /\ new.data = s.data
  BY <1>3, <1>5, <1>7
<1> QED
  BY <1>8, <1>9

(* Where no frame holds the sync byte inside, a parser that began in a     *)
(* whole frame began with its first byte.                                  *)
LEMMA SyncIsStart ==
    ASSUME ParserInv, NEW s, OnLine(s), s.whole, SyncFree(s), state_ # "kWaitingForSync",
           s.from < Begun + 1, Begun + 1 <= s.to
    PROVE  Inside(s)
<1>1. /\ Len(s.data) \in Nat /\ s.to = s.from + Len(s.data) + 6 /\ s.from \in Nat
      /\ s.data \in Seq(Byte)
  BY DEF OnLine
<1>2. /\ Len(heard) \in Nat /\ Stored \in Nat /\ Stored + 1 <= Len(heard)
      /\ heard[Len(heard) - Stored] = kSyncByte
  BY Sizes DEF ParserInv, ParserHoldsLastBytes, Stored
<1>3. Begun + 1 = Len(heard) - Stored /\ Begun \in Nat /\ Begun + 1 <= Len(heard)
  BY <1>2 DEF Begun
<1>4. PICK k : k = Begun + 1 - s.from
  OBVIOUS
<1>5. k \in 1 .. Len(s.data) + 6 /\ s.from + k = Begun + 1
  BY <1>1, <1>3, <1>4, SMTT(30)
<1>6. LineAt(s.from + k) = WireOf(s.tag, s.data)[k]
  BY <1>5 DEF OnLine
<1>7. LineAt(s.from + k) = kSyncByte
  BY <1>2, <1>3, <1>5 DEF LineAt
<1>8. k \notin 2 .. Len(s.data) + 6
  <2>1. Len(WireOf(s.tag, s.data)) = Len(s.data) + 6
    BY <1>1, WireBytes
  <2> QED
    BY <1>6, <1>7, <2>1 DEF SyncFree
<1>9. k = 1
  BY <1>1, <1>5, <1>8
<1> QED
  BY <1>1, <1>3, <1>4, <1>9 DEF Inside

-----------------------------------------------------------------------------
(* The age of the frame that is being read.                                *)

Age == (now - frame_start_ts_) % TimestampRange

(* The peer, the line and the task that calls Run keep their bounds.       *)
ClockInv ==
    /\ now \in 0 .. TimestampRange - 1
    /\ frame_start_ts_ \in 0 .. TimestampRange - 1
    /\ late \in 0 .. RunLatency
    /\ since_send \in Nat
    /\ air # <<>> => since_send <= AirTime
    /\ pc \in {"wait", "rx", "tx"}
    /\ pc = "tx" => readahead_ = <<>>

(* The clock's constants.                                                  *)
LEMMA ClockSizes ==
    AirTime \in Nat \ {0} /\ RunLatency \in Nat /\ TimestampRange \in Nat \ {0}
BY EngineAssumption

(* An unsigned difference is the difference, plus one period if negative.  *)
LEMMA AgeIs ==
    ASSUME NEW n \in Nat \ {0}, NEW t \in 0 .. n - 1, NEW s \in 0 .. n - 1
    PROVE  (t - s) % n = IF t >= s THEN t - s ELSE t - s + n
<1>1. CASE t >= s
  <2>1. t - s \in 0 .. n - 1
    BY <1>1
  <2> QED
    BY <1>1, <2>1, SMTT(30)
<1>2. CASE ~(t >= s)
  <2>1. PICK a \in 0 .. n - 1 : a = t - s + n
    BY <1>2
  <2>2. (a - n) % n = a
    OBVIOUS
  <2>3. a - n = t - s
    BY <2>1
  <2> QED
    BY <1>2, <2>1, <2>2, <2>3
<1> QED
  BY <1>1, <1>2

(* The timestamp one tick later.                                           *)
LEMMA NextTime ==
    ASSUME NEW n \in Nat \ {0}, NEW t \in 0 .. n - 1
    PROVE  (t + 1) % n = IF t + 1 = n THEN 0 ELSE t + 1
<1>1. CASE t + 1 = n
  <2>1. (0 + n) % n = 0
    OBVIOUS
  <2> QED
    BY <1>1, <2>1
<1>2. CASE t + 1 # n
  <2>1. t + 1 \in 0 .. n - 1
    BY <1>2
  <2> QED
    BY <1>2, <2>1, SMTT(30)
<1> QED
  BY <1>1, <1>2

(* A tick makes the frame one older, until its age wraps around.           *)
LEMMA AgeGrows ==
    ASSUME ClockInv, Tick
    PROVE  /\ Age \in Nat /\ Age' \in Nat /\ now' \in 0 .. TimestampRange - 1
           /\ Age' <= Age + 1
           /\ Age + 1 < TimestampRange => Age' = Age + 1
<1>1. PICK n \in Nat \ {0} : n = TimestampRange
  BY ClockSizes
<1>2. PICK t \in 0 .. n - 1 : t = now
  BY <1>1 DEF ClockInv
<1>3. PICK s \in 0 .. n - 1 : s = frame_start_ts_
  BY <1>1 DEF ClockInv
<1>4. PICK u \in 0 .. n - 1 : u = now' /\ u = IF t + 1 = n THEN 0 ELSE t + 1
  <2>1. now' = (t + 1) % n
    BY <1>1, <1>2 DEF Tick
  <2> QED
    BY <2>1, NextTime
<1>5. frame_start_ts_' = s
  BY <1>3 DEF Tick, parser
<1>6. Age = IF t >= s THEN t - s ELSE t - s + n
  BY <1>1, <1>2, <1>3, AgeIs DEF Age
<1>7. Age' = IF u >= s THEN u - s ELSE u - s + n
  BY <1>1, <1>4, <1>5, AgeIs DEF Age
<1> QED
  BY <1>1, <1>4, <1>6, <1>7

(* A frame that begins has no age.                                         *)
LEMMA AgeAtSync ==
    ASSUME ClockInv
    PROVE  Age \in Nat /\ (frame_start_ts_ = now => Age = 0)
<1>1. PICK n \in Nat \ {0} : n = TimestampRange
  BY ClockSizes
<1> QED
  BY <1>1, AgeIs DEF Age, ClockInv

(* A byte begins a frame or leaves the start of the current one alone.     *)
LEMMA StartStays ==
    ASSUME RunByte, state_' # "kWaitingForSync"
    PROVE  frame_start_ts_' = IF state_ = "kWaitingForSync" THEN now ELSE frame_start_ts_
<1> PICK raw \in Byte : \/ WaitingForSync(raw) \/ ReadingHeader(raw)
                        \/ ReadingData(raw) \/ ReadingChecksum(raw)
  BY DEF RunByte
<1>1. CASE WaitingForSync(raw)
  BY <1>1 DEF WaitingForSync, parser
<1>2. CASE ReadingHeader(raw)
  BY <1>2 DEF ReadingHeader
<1>3. CASE ReadingData(raw)
  BY <1>3 DEF ReadingData
<1>4. CASE ReadingChecksum(raw)
  BY <1>4 DEF ReadingChecksum, ResetParser
<1> QED
  BY <1>1, <1>2, <1>3, <1>4

(* The initial state.                                                      *)
LEMMA ClockInit == Init => ClockInv
<1> SUFFICES ASSUME Init PROVE ClockInv
  OBVIOUS
<1>1. setup.pause \in Nat
  BY EngineAssumption DEF Init
<1> QED
  BY <1>1, ClockSizes DEF Init, ClockInv

(* A tick adds one to the age of the last frame until the next may come.   *)
LEMMA TickSince ==
    ASSUME ClockInv, setup.pause \in Nat, Tick
    PROVE  /\ since_send' \in Nat /\ since_send' <= since_send + 1
           /\ since_send + 1 <= setup.pause + AirTime => since_send' = since_send + 1
<1>1. PICK a \in Nat : a = since_send + 1
  BY DEF ClockInv
<1>2. PICK b \in Nat : b = setup.pause + AirTime
  BY ClockSizes
<1>3. since_send' = Min({a, b})
  BY <1>1, <1>2 DEF Tick
<1> QED
  BY <1>1, <1>2, <1>3, MinOfTwo

(* Every step keeps the bounds.                                            *)
LEMMA ClockNext == ClockInv /\ LineInv /\ [Next]_vars => ClockInv'
<1> SUFFICES ASSUME ClockInv, LineInv, [Next]_vars PROVE ClockInv'
  OBVIOUS
<1>1. setup.pause \in Nat
  BY EngineAssumption DEF LineInv
<1>2. ASSUME UNCHANGED <<now, late>>,
             frame_start_ts_' \in {frame_start_ts_, now, 0},
             since_send' = since_send,
             air' # <<>> => air # <<>>,
             pc' = pc,
             pc = "tx" => readahead_' = readahead_
      PROVE  ClockInv'
  BY <1>2, ClockSizes DEF ClockInv
<1>3. CASE HostSends
  <2>1. /\ UNCHANGED <<now, late, pc, readahead_, frame_start_ts_>>
        /\ since_send' = 0
    BY <1>3 DEF HostSends, HostSend, clock, parser
  <2> QED
    BY <2>1, ClockSizes DEF ClockInv
<1>4. CASE Arrive
  BY <1>2, <1>4 DEF Arrive, clock, parser
<1>5. CASE Tick
  <2>1. now' \in 0 .. TimestampRange - 1
    BY <1>5, AgeGrows
  <2>2. since_send' \in Nat /\ (air # <<>> => since_send' <= AirTime)
    BY <1>1, <1>5, TickSince, ClockSizes DEF Tick, ClockInv
  <2>3. late' \in 0 .. RunLatency
    BY <1>5, ClockSizes DEF Tick, ClockInv
  <2> QED
    BY <1>5, <2>1, <2>2, <2>3 DEF Tick, ClockInv, parser
<1>6. CASE \E tag \in setup.tags : AddHandler(tag, "application")
  BY <1>2, <1>6 DEF AddHandler, parser, host, clock
<1>7. CASE \E request \in setup.requests : Send(request)
  BY <1>2, <1>7 DEF Send, parser, host, clock
<1>8. CASE RunBegins
  <2>1. frame_start_ts_' \in {frame_start_ts_, 0}
    BY <1>8 DEF RunBegins, ResetParser, parser
  <2>2. UNCHANGED <<now, late, air, since_send>> /\ pc' = "rx"
    BY <1>8 DEF RunBegins, host, clock
  <2> QED
    BY <2>1, <2>2, ClockSizes DEF ClockInv
<1>9. CASE RunByte
  <2>1. UNCHANGED <<now, late, air, since_send>> /\ pc = "rx" /\ pc' = "rx"
    BY <1>9 DEF RunByte, ReadRawByte, host, clock
  <2>2. frame_start_ts_' \in {frame_start_ts_, now, 0}
    BY <1>9 DEF RunByte, WaitingForSync, ReadingHeader, ReadingData, ReadingChecksum,
                ResetParser, parser
  <2> QED
    BY <1>2, <2>1, <2>2
<1>10. CASE StreamIsEmpty
  BY <1>10 DEF StreamIsEmpty, ClockInv, parser, host, clock
<1>11. CASE RunEnds
  BY <1>11, ClockSizes DEF RunEnds, ClockInv, parser, host
<1>12. CASE UNCHANGED vars
  BY <1>2, <1>12 DEF vars, parser, host, clock
<1> QED
  BY <1>3, <1>4, <1>5, <1>6, <1>7, <1>8, <1>9, <1>10, <1>11, <1>12 DEF Next

-----------------------------------------------------------------------------
(* How old a whole frame gets while it is read.                            *)

(* It is on its way, or waits for the Run that reads it.                   *)
FrameIsYoung == \A i \in 1 .. Len(sent) : Inside(sent[i]) =>
    Age <= IF sent[i].to <= OnTheLine THEN AirTime + late ELSE since_send

(* An engine whose frame timeout, if it has one, leaves time for a frame   *)
PatientEngine ==
    setup.frame_timeout = 0 \/ setup.frame_timeout >= AirTime + RunLatency

(* The sizes of what is on the line.                                       *)
LEMMA LineSizes ==
    ASSUME LineInv
    PROVE  /\ Len(heard) \in Nat /\ OnTheLine \in Nat /\ Total \in Nat
           /\ Len(heard) <= OnTheLine /\ OnTheLine <= Total
           /\ OnTheLine < Total <=> air # <<>>
           /\ Len(heard) < OnTheLine <=> (readahead_ # <<>> \/ fifo # <<>>)
<1>1. PICK S : readahead_ \in Seq(S) /\ fifo \in Seq(S) /\ air \in Seq(S)
  BY DEF LineInv, LineType
<1>2. /\ Len(heard) \in Nat /\ Len(readahead_) \in Nat /\ Len(fifo) \in Nat
      /\ Len(air) \in Nat
  BY <1>1 DEF LineInv, LineType
<1>3. /\ Len(readahead_) = 0 <=> readahead_ = <<>>
      /\ Len(fifo) = 0 <=> fifo = <<>>
      /\ Len(air) = 0 <=> air = <<>>
  BY <1>1
<1> QED
  BY <1>2, <1>3 DEF OnTheLine, Total

(* A whole frame does not time out.                                        *)
LEMMA YoungIsInTime ==
    ASSUME ParserInv, LineInv, ClockInv, FrameIsYoung, PatientEngine,
           NEW i \in 1 .. Len(sent), Inside(sent[i])
    PROVE  ~TimedOut
<1>1. OnLine(sent[i])
  BY DEF LineInv
<1>2. Len(heard) < sent[i].to /\ sent[i].to \in Nat /\ sent[i].to <= Total
  BY <1>1, ReadsToTheEnd DEF OnLine
<1>3. Age \in Nat
  BY AgeAtSync
<1>4. Age <= AirTime + RunLatency
  <2>1. CASE sent[i].to <= OnTheLine
    BY <1>3, <2>1, ClockSizes DEF FrameIsYoung, ClockInv
  <2>2. CASE ~(sent[i].to <= OnTheLine)
    <3>1. air # <<>>
      BY <1>2, <2>2, LineSizes
    <3> QED
      BY <1>3, <2>2, <3>1, ClockSizes DEF FrameIsYoung, ClockInv
  <2> QED
    BY <2>1, <2>2
<1>5. setup.frame_timeout \in Nat
  BY EngineAssumption DEF LineInv
<1> QED
  BY <1>3, <1>4, <1>5, ClockSizes DEF PatientEngine, TimedOut, Age

(* A frame that is sent comes behind the others, when the line is free.    *)
LEMMA FrameIsSent ==
    ASSUME LineInv, HostSends, NEW n, n = Len(sent)
    PROVE  /\ n \in Nat /\ Len(sent') = n + 1
           /\ \A j \in 1 .. n : sent'[j] = sent[j]
           /\ sent'[n + 1].from = OnTheLine
           /\ air = <<>> /\ since_send >= setup.pause /\ since_send' = 0
           /\ UNCHANGED <<setup, heard, readahead_, fifo, parser, pc, now, late, parsed>>
<1>1. PICK frame : \E bytes : HostSend(frame, bytes)
  BY DEF HostSends
<1>2. PICK bytes : HostSend(frame, bytes)
  BY <1>1
<1> DEFINE new == [tag |-> frame.tag, data |-> frame.data,
                   from |-> OnTheLine, to |-> OnTheLine + Len(bytes),
                   whole |-> bytes = WireOf(frame.tag, frame.data)]
<1>3. sent' = Append(sent, new) /\ new.from = OnTheLine
  BY <1>2 DEF HostSend
<1> HIDE DEF new
<1>4. PICK S : sent \in Seq(S)
  BY DEF LineInv
<1>5. sent \in Seq(S \cup {new})
  BY <1>4, SeqMonotonic
<1>6. /\ n \in Nat /\ Len(sent') = n + 1 /\ sent'[n + 1] = new
      /\ \A j \in 1 .. n : sent'[j] = sent[j]
  BY <1>3, <1>5, AppendProperties
<1> QED
  BY <1>2, <1>3, <1>6 DEF HostSend, parser, clock

(* A frame that is being read began before the bytes that follow.          *)
LEMMA BegunBefore ==
    ASSUME ParserInv, state_ # "kWaitingForSync"
    PROVE  Len(heard) \in Nat /\ Begun \in Nat /\ Begun < Len(heard)
BY Sizes DEF ParserInv, ParserHoldsLastBytes, Stored, Begun

(* What the steps other than those of the parser and the peer leave alone. *)
LEMMA LineIsCounted ==
    ASSUME LineInv, [Next]_vars, ~HostSends, ~Arrive
    PROVE  sent' = sent /\ OnTheLine' = OnTheLine /\ air' = air
<1>1. air' = air
  BY DEF Next, Tick, AddHandler, Send, RunBegins, RunByte, ReadRawByte, StreamIsEmpty,
         RunEnds, vars, host
<1>2. sent' = sent /\ Total' = Total /\ LineType' /\ LineType
  BY LineKept DEF LineInv
<1>3. PICK S : readahead_ \in Seq(S) /\ fifo \in Seq(S) /\ air \in Seq(S)
  BY <1>2 DEF LineType
<1>4. PICK T : readahead_' \in Seq(T) /\ fifo' \in Seq(T) /\ air' \in Seq(T)
  BY <1>2 DEF LineType
<1>5. /\ Len(heard) \in Nat /\ Len(readahead_) \in Nat /\ Len(fifo) \in Nat
      /\ Len(heard') \in Nat /\ Len(readahead_') \in Nat /\ Len(fifo') \in Nat
      /\ Len(air) \in Nat
  BY <1>2, <1>3, <1>4 DEF LineType
<1> QED
  BY <1>1, <1>2, <1>5 DEF Total, OnTheLine

(* Where nothing happens to the parser and to what it waits for.           *)
LEMMA YoungStays ==
    ASSUME FrameIsYoung, sent' = sent, OnTheLine' = OnTheLine,
           UNCHANGED <<heard, now, since_send, late>>,
           UNCHANGED parser \/ state_' = "kWaitingForSync"
    PROVE  FrameIsYoung'
<1>1. CASE state_' = "kWaitingForSync"
  BY <1>1 DEF FrameIsYoung, Inside
<1>2. CASE UNCHANGED parser
  <2>1. UNCHANGED <<state_, Begun, Age>>
    BY <1>2 DEF parser, Begun, Stored, Age
  <2> QED
    BY <2>1 DEF FrameIsYoung, Inside
<1> QED
  BY <1>1, <1>2

(* Every step leaves time for the frame that is being read.                *)
LEMMA YoungNext ==
    ParserInv /\ LineInv /\ ClockInv /\ ClockInv' /\ FrameIsYoung /\ [Next]_vars => FrameIsYoung'
<1> SUFFICES ASSUME ParserInv, LineInv, ClockInv, ClockInv', FrameIsYoung, [Next]_vars
             PROVE  FrameIsYoung'
  OBVIOUS
<1>a. \A i \in 1 .. Len(sent) : OnLine(sent[i])
  BY DEF LineInv
<1>1. CASE HostSends
  <2>1. PICK n : n = Len(sent)
    OBVIOUS
  <2>2. /\ n \in Nat /\ Len(sent') = n + 1
        /\ \A j \in 1 .. n : sent'[j] = sent[j]
        /\ sent'[n + 1].from = OnTheLine
        /\ air = <<>>
        /\ UNCHANGED <<heard, readahead_, fifo, parser, now, late>>
    BY <1>1, <2>1, FrameIsSent
  <2>3. UNCHANGED <<state_, Begun, Age, OnTheLine>>
    BY <2>2 DEF parser, Begun, Stored, Age, OnTheLine
  <2> SUFFICES ASSUME NEW i \in 1 .. n + 1, Inside(sent[i])'
               PROVE  sent'[i].to <= OnTheLine /\ Age <= AirTime + late
    BY <2>2, <2>3 DEF FrameIsYoung
  <2>4. i # n + 1
    <3> SUFFICES ASSUME i = n + 1 PROVE FALSE
      OBVIOUS
    <3>1. state_ # "kWaitingForSync" /\ Begun = sent'[i].from
      BY <2>3 DEF Inside
    <3>2. Begun \in Nat /\ Begun < Len(heard) /\ Len(heard) <= OnTheLine
      BY <3>1, BegunBefore, LineSizes
    <3>3. Begun # OnTheLine
      BY <3>2, BegunBefore, LineSizes, <3>1
    <3>4. sent'[i].from = OnTheLine
      BY <2>2
    <3> QED
      BY <3>1, <3>3, <3>4, Zenon
  <2>5. i \in 1 .. n /\ Inside(sent[i])
    <3>1. i \in 1 .. n
      BY <2>2, <2>4
    <3>2. sent'[i] = sent[i]
      BY <2>2, <3>1
    <3> QED
      BY <2>3, <3>1, <3>2 DEF Inside
  <2>6. sent[i].to <= OnTheLine
    BY <1>a, <2>1, <2>2, <2>5, LineSizes DEF OnLine
  <2> QED
    BY <2>1, <2>2, <2>5, <2>6 DEF FrameIsYoung
<1>2. CASE Arrive
  <2>1. /\ OnTheLine' = OnTheLine + 1 /\ sent' = sent /\ air # <<>>
        /\ UNCHANGED <<heard, now, since_send, late>> /\ UNCHANGED parser
    <3>1. PICK S : readahead_ \in Seq(S) /\ fifo \in Seq(S) /\ air \in Seq(S)
      BY DEF LineInv, LineType
    <3>2. Len(heard) \in Nat /\ Len(readahead_) \in Nat /\ Len(fifo') = Len(fifo) + 1
          /\ Len(fifo) \in Nat
      BY <1>2, <3>1 DEF Arrive, LineInv, LineType
    <3> QED
      BY <1>2, <3>2 DEF Arrive, OnTheLine, clock
  <2>2. UNCHANGED <<state_, Begun, Age>>
    BY <2>1 DEF parser, Begun, Stored, Age
  <2> SUFFICES ASSUME NEW i \in 1 .. Len(sent), Inside(sent[i])
               PROVE  Age <= IF sent[i].to <= OnTheLine + 1 THEN AirTime + late ELSE since_send
    BY <2>1, <2>2 DEF FrameIsYoung, Inside
  <2>3. OnTheLine \in Nat /\ sent[i].to \in Nat /\ Age \in Nat
    BY <1>a, LineSizes, AgeAtSync DEF OnLine
  <2>4. Age <= IF sent[i].to <= OnTheLine THEN AirTime + late ELSE since_send
    BY DEF FrameIsYoung
  <2>5. late \in Nat /\ since_send \in Nat /\ since_send <= AirTime
    BY <2>1, ClockSizes DEF ClockInv
  <2> QED
    BY <2>3, <2>4, <2>5, ClockSizes
<1>3. CASE RunByte
  <2>1. sent' = sent /\ OnTheLine' = OnTheLine /\ UNCHANGED <<now, late, since_send>>
    <3>1. ~HostSends /\ ~Arrive
      <4>1. PICK raw \in Byte : ReadRawByte(raw)
        BY <1>3 DEF RunByte
      <4>2. heard' # heard
        BY <4>1, ByteIsHeard DEF ParserInv
      <4> QED
        BY <4>2 DEF HostSends, HostSend, Arrive
    <3> QED
      BY <1>3, <3>1, LineIsCounted DEF RunByte, ReadRawByte, host, clock
  <2> SUFFICES ASSUME NEW i \in 1 .. Len(sent), Inside(sent[i])'
               PROVE  Age' <= IF sent[i].to <= OnTheLine THEN AirTime + late ELSE since_send
    BY <2>1 DEF FrameIsYoung
  <2>2. state_' # "kWaitingForSync" /\ Begun' = sent[i].from /\ sent[i].whole
    BY <2>1 DEF Inside
  <2>3. CASE state_ = "kWaitingForSync"
    <3>1. PICK n \in Nat \ {0} : n = TimestampRange
      BY ClockSizes
    <3>2. PICK t \in 0 .. n - 1 : t = now
      BY <3>1 DEF ClockInv
    <3>3. frame_start_ts_' = t /\ now' = t
      BY <1>3, <2>1, <2>2, <2>3, <3>2, StartStays
    <3>4. Age' = 0
      BY <3>1, <3>3, AgeIs DEF Age
    <3> QED
      BY <3>4, ClockSizes DEF ClockInv
  <2>4. CASE state_ # "kWaitingForSync"
    <3>1. Age' = Age
      BY <1>3, <2>1, <2>2, <2>4, StartStays DEF Age
    <3>2. Inside(sent[i])
      BY <1>3, <2>2, <2>4, BegunStays DEF Inside
    <3> QED
      BY <3>1, <3>2 DEF FrameIsYoung
  <2> QED
    BY <2>3, <2>4
<1>4. CASE Tick
  <2>1. sent' = sent /\ UNCHANGED <<heard, readahead_, fifo, air>> /\ UNCHANGED parser
    BY <1>4 DEF Tick
  <2>2. UNCHANGED <<state_, Begun, OnTheLine>>
    BY <2>1 DEF parser, Begun, Stored, OnTheLine
  <2> SUFFICES ASSUME NEW i \in 1 .. Len(sent), Inside(sent[i])
               PROVE  Age' <= IF sent[i].to <= OnTheLine THEN AirTime + late' ELSE since_send'
    BY <2>1, <2>2 DEF FrameIsYoung, Inside
  <2>3. Age \in Nat /\ Age' \in Nat /\ Age' <= Age + 1
    BY <1>4, AgeGrows
  <2>4. Age <= IF sent[i].to <= OnTheLine THEN AirTime + late ELSE since_send
    BY DEF FrameIsYoung
  <2>5. Len(heard) < sent[i].to /\ sent[i].to \in Nat /\ sent[i].to <= Total
    BY <1>a, ReadsToTheEnd DEF OnLine
  <2>6. CASE sent[i].to <= OnTheLine
    <3>1. readahead_ # <<>> \/ fifo # <<>>
      BY <2>5, <2>6, LineSizes
    <3>2. late' = late + 1
      BY <1>4, <3>1 DEF Tick, RunIsDue
    <3> QED
      BY <2>3, <2>4, <2>6, <3>2, ClockSizes DEF ClockInv
  <2>7. CASE ~(sent[i].to <= OnTheLine)
    <3>1. air # <<>>
      BY <2>5, <2>7, LineSizes
    <3>2. since_send + 1 <= AirTime
      BY <1>4, <3>1, ClockSizes DEF Tick, ClockInv
    <3>3. setup.pause \in Nat
      BY EngineAssumption DEF LineInv
    <3>4. since_send' = since_send + 1
      <4>1. since_send + 1 <= setup.pause + AirTime
        BY <3>2, <3>3, ClockSizes DEF ClockInv
      <4> QED
        BY <1>4, <3>3, <4>1, TickSince
    <3> QED
      BY <2>3, <2>4, <2>7, <3>4 DEF ClockInv
  <2> QED
    BY <2>6, <2>7
<1>5. CASE RunEnds
  <2>1. /\ UNCHANGED <<heard, readahead_, fifo, air, now, since_send, sent>>
        /\ UNCHANGED parser /\ readahead_ = <<>> /\ late' = IF fifo = <<>> THEN 0 ELSE late
    BY <1>5 DEF RunEnds, host, ClockInv
  <2>2. UNCHANGED <<state_, Begun, OnTheLine, Age>>
    BY <2>1 DEF parser, Begun, Stored, OnTheLine, Age
  <2> SUFFICES ASSUME NEW i \in 1 .. Len(sent), Inside(sent[i])
               PROVE  Age <= IF sent[i].to <= OnTheLine THEN AirTime + late' ELSE since_send
    BY <2>1, <2>2 DEF FrameIsYoung, Inside
  <2>3. Age <= IF sent[i].to <= OnTheLine THEN AirTime + late ELSE since_send
    BY DEF FrameIsYoung
  <2>4. Len(heard) < sent[i].to /\ sent[i].to \in Nat
    BY <1>a, ReadsToTheEnd DEF OnLine
  <2>5. CASE sent[i].to <= OnTheLine
    <3>1. fifo # <<>>
      BY <2>1, <2>4, <2>5, LineSizes
    <3> QED
      BY <2>1, <2>3, <2>5, <3>1
  <2>6. CASE ~(sent[i].to <= OnTheLine)
    BY <2>3, <2>6
  <2> QED
    BY <2>5, <2>6
<1>6. CASE ~HostSends /\ ~Arrive /\ ~RunByte /\ ~Tick /\ ~RunEnds
  <2>1. sent' = sent /\ OnTheLine' = OnTheLine
    BY <1>6, LineIsCounted
  <2>2. heard' = heard /\ (UNCHANGED parser \/ state_' = "kWaitingForSync")
    BY <1>6, OtherSteps DEF ResetParser
  <2>3. UNCHANGED <<now, since_send, late>>
    BY <1>6 DEF Next, AddHandler, Send, RunBegins, StreamIsEmpty, vars, host, clock
  <2> QED
    BY <2>1, <2>2, <2>3, YoungStays
<1> QED
  BY <1>1, <1>2, <1>3, <1>4, <1>5, <1>6

-----------------------------------------------------------------------------
(* What damage costs.                                                      *)

NoSyncInside == \A j \in 1 .. Len(sent) : SyncFree(sent[j])

(* The frame is whole and no damage is close in front of it                *)
ClearOfDamage(i) ==
    /\ sent[i].whole
    /\ \A j \in 1 .. i - 1 : ~sent[j].whole =>
           sent[j].to + kHeaderSize + kMaxFrameDataLength + kChecksumSize <= sent[i].from

(* The parser is in step with such a frame, and hands it over at its end   *)
InStep(i) ==
    /\ sent[i].from < Len(heard) /\ Len(heard) < sent[i].to => Inside(sent[i])
    /\ sent[i].to <= Len(heard) => IsParsed(sent[i])

LossInv == PatientEngine /\ NoSyncInside =>
    \A i \in 1 .. Len(sent) : ClearOfDamage(i) => InStep(i)

(* A frame that was handed over stays so.                                  *)
LEMMA ParsedStays ==
    ASSUME FrameInv, NEW s, IsParsed(s), NEW new, parsed' \in {parsed, Append(parsed, new)}
    PROVE  IsParsed(s)'
<1>1. PICK S : parsed \in Seq(S)
  BY DEF FrameInv
<1>2. PICK i \in 1 .. Len(parsed) :
        parsed[i].at = s.to /\ parsed[i].tag = s.tag /\ parsed[i].data = s.data
  BY DEF IsParsed
<1>3. i \in 1 .. Len(parsed') /\ parsed'[i] = parsed[i]
  <2>1. parsed \in Seq(S \cup {new})
    BY <1>1, SeqMonotonic
  <2> QED
    BY <1>1, <2>1, AppendProperties
<1> QED
  BY <1>2, <1>3 DEF IsParsed

(* At the first byte of a frame clear of damage the parser is waiting: a   *)
(* damaged frame in front is out of its reach, and it has left every whole *)
(* one with its last byte.                                                 *)
LEMMA WaitsForFrame ==
    ASSUME ParserInv, LineInv, NoSyncInside, NEW i \in 1 .. Len(sent), ClearOfDamage(i),
           sent[i].from = Len(heard)
    PROVE  state_ = "kWaitingForSync"
<1> SUFFICES ASSUME state_ # "kWaitingForSync" PROVE FALSE
  OBVIOUS
<1>1. /\ Len(heard) \in Nat /\ Stored \in Nat /\ Stored + 1 <= Len(heard)
      /\ Stored <= 4 + kMaxFrameDataLength
  BY Sizes DEF ParserInv, ParserHoldsLastBytes, Stored, States
<1>2. Begun = Len(heard) - Stored - 1 /\ Begun \in Nat
  BY <1>1 DEF Begun
<1>3. \A j \in 1 .. Len(sent) : OnLine(sent[j])
  BY DEF LineInv
<1>4. sent[i].from <= Total /\ Total \in Nat /\ Len(sent) \in Nat
  <2>1. PICK X : readahead_ \in Seq(X) /\ fifo \in Seq(X) /\ air \in Seq(X)
    BY DEF LineInv, LineType
  <2>2. PICK S : sent \in Seq(S)
    BY DEF LineInv
  <2>3. Total \in Nat /\ Len(sent) \in Nat
    BY <1>1, <2>1, <2>2 DEF Total
  <2> QED
    BY <1>3, <2>3 DEF OnLine
<1>5. PICK j \in 1 .. Len(sent) : sent[j].from < Begun + 1 /\ Begun + 1 <= sent[j].to
  <2>1. Begun + 1 \in 1 .. Total
    BY <1>1, <1>2, <1>4
  <2> QED
    BY <2>1 DEF LineInv
<1>6. /\ sent[j].from \in Nat /\ sent[j].to \in Nat /\ sent[i].from \in Nat
      /\ sent[i].to \in Nat /\ sent[i].from <= sent[i].to
  BY <1>3, <1>5 DEF OnLine
<1>7. j \in 1 .. i - 1 /\ sent[j].to <= sent[i].from
  <2>1. Begun + 1 <= sent[i].from
    BY <1>1, <1>2
  <2>2. j # i
    BY <1>2, <1>5, <1>6, <2>1
  <2>3. ~(i < j)
    <3> SUFFICES ASSUME i < j PROVE FALSE
      OBVIOUS
    <3>1. sent[i].to <= sent[j].from
      BY DEF LineInv
    <3> QED
      BY <1>2, <1>5, <1>6, <2>1, <3>1
  <2>4. j < i /\ j \in 1 .. i - 1
    BY <1>4, <2>2, <2>3
  <2> QED
    BY <2>4 DEF LineInv
<1>8. CASE sent[j].whole
  <2>1. Inside(sent[j])
    BY <1>3, <1>5, <1>8, SyncIsStart DEF NoSyncInside
  <2>2. Len(heard) < sent[j].to
    BY <1>3, <2>1, ReadsToTheEnd
  <2> QED
    BY <1>1, <1>6, <1>7, <2>2
<1>9. CASE ~sent[j].whole
  <2>1. sent[j].to + kHeaderSize + kMaxFrameDataLength + kChecksumSize <= sent[i].from
    BY <1>7, <1>9 DEF ClearOfDamage
  <2>2. sent[j].to + kMaxFrameDataLength + 5 <= sent[i].from
    BY <1>6, <2>1, Sizes DEF kChecksumSize
  <2> QED
    BY <1>1, <1>2, <1>5, <1>6, <2>2, Sizes
<1> QED
  BY <1>8, <1>9

(* Reading a byte keeps the parser in step with a whole frame, if it waits *)
(* for its first byte.                                                     *)
LEMMA ByteKeepsStep ==
    ASSUME ParserInv, FrameInv, LineInv, RunByte, NEW i \in 1 .. Len(sent),
           sent[i].whole, InStep(i), sent[i].from = Len(heard) => state_ = "kWaitingForSync"
    PROVE  InStep(i)'
<1> PICK raw \in Byte : /\ ReadRawByte(raw)
                        /\ \/ WaitingForSync(raw) \/ ReadingHeader(raw)
                           \/ ReadingData(raw) \/ ReadingChecksum(raw)
  BY DEF RunByte
<1>1. PICK s : s = sent[i]
  OBVIOUS
<1>2. sent' = sent
  BY DEF ReadRawByte, host
<1>3. OnLine(s) /\ s.whole /\ LineType
  BY <1>1 DEF LineInv
<1>4. /\ s.from \in Nat /\ s.to = s.from + Len(s.data) + 6 /\ Len(s.data) \in Nat
      /\ s.data \in Seq(Byte)
  BY <1>3 DEF OnLine
<1>5. Len(heard) \in Nat /\ Len(heard') = Len(heard) + 1
  BY ByteIsHeard DEF ParserInv
<1>6. /\ s.from < Len(heard) /\ Len(heard) < s.to => Inside(s)
      /\ s.to <= Len(heard) => IsParsed(s)
  BY <1>1 DEF InStep
<1>7. ASSUME s.from < Len(heard) + 1, Len(heard) + 1 < s.to
      PROVE  Inside(s)'
  <2>1. CASE s.from = Len(heard)
    <3>1. state_ = "kWaitingForSync"
      BY <1>1, <2>1
    <3>2. raw = kSyncByte
      <4>1. raw = LineAt(s.from + 1)
        BY <1>3, <2>1, LineRead
      <4>2. 1 \in 1 .. Len(s.data) + 6
        BY <1>4
      <4>3. LineAt(s.from + 1) = WireOf(s.tag, s.data)[1]
        BY <1>3, <4>2 DEF OnLine
      <4>4. WireOf(s.tag, s.data)[1] = kSyncByte
        BY <1>4, <4>2, WireBytes
      <4> QED
        BY <4>1, <4>3, <4>4
    <3>3. state_' = "kReadingHeader"
      BY <3>1, <3>2 DEF WaitingForSync, ReadingHeader, ReadingData, ReadingChecksum
    <3>4. Begun' = s.from
      BY <2>1, <3>1, <3>3, BegunStays
    <3> QED
      BY <1>3, <3>3, <3>4 DEF Inside
  <2>2. CASE s.from < Len(heard)
    <3>1. Inside(s)
      BY <1>4, <1>5, <1>6, <1>7, <2>2
    <3> QED
      BY <1>3, <1>7, <3>1, FrameGoesOn
  <2> QED
    BY <1>4, <1>5, <1>7, <2>1, <2>2
<1>8. ASSUME s.to <= Len(heard) + 1
      PROVE  IsParsed(s)'
  <2>1. CASE s.to = Len(heard) + 1
    <3>1. Inside(s)
      BY <1>4, <1>5, <1>6, <2>1
    <3>2. PICK new : /\ parsed' = Append(parsed, new)
                     /\ new.at = s.to /\ new.tag = s.tag /\ new.data = s.data
      BY <1>3, <2>1, <3>1, FrameIsTaken
    <3>3. PICK S : parsed \in Seq(S)
      BY DEF FrameInv
    <3>4. parsed \in Seq(S \cup {new}) /\ Len(parsed) \in Nat
      BY <3>3, SeqMonotonic
    <3>5. Len(parsed') = Len(parsed) + 1 /\ parsed'[Len(parsed) + 1] = new
      BY <3>2, <3>4, AppendProperties
    <3>6. Len(parsed) + 1 \in 1 .. Len(parsed')
      BY <3>4, <3>5
    <3> QED
      BY <3>2, <3>5, <3>6 DEF IsParsed
  <2>2. CASE s.to <= Len(heard)
    <3>1. IsParsed(s)
      BY <1>6, <2>2
    <3>2. \E new : parsed' \in {parsed, Append(parsed, new)}
      BY DEF WaitingForSync, ReadingHeader, ReadingData, ReadingChecksum, DispatchFrame
    <3> QED
      BY <3>1, <3>2, ParsedStays, SMTT(30)
  <2> QED
    BY <1>4, <1>5, <1>8, <2>1, <2>2
<1> QED
  BY <1>1, <1>2, <1>5, <1>7, <1>8 DEF InStep, Inside, IsParsed

(* No other step disturbs it: a whole frame does not time out.             *)
LEMMA StaysInStep ==
    ASSUME ParserInv, LineInv, ClockInv, FrameIsYoung, PatientEngine, [Next]_vars, ~RunByte,
           NEW i \in 1 .. Len(sent), sent'[i] = sent[i], InStep(i)
    PROVE  InStep(i)'
<1>1. UNCHANGED <<heard, parsed>>
  BY OtherSteps
<1>2. ASSUME Inside(sent[i]) PROVE Inside(sent[i])'
  <2>1. UNCHANGED parser
    BY <1>2, OtherSteps, YoungIsInTime
  <2>2. UNCHANGED <<state_, Begun>>
    BY <1>1, <2>1 DEF parser, Begun, Stored
  <2> QED
    BY <1>2, <2>2 DEF Inside
<1> QED
  BY <1>1, <1>2 DEF InStep, IsParsed

(* No byte of a frame that is sent has been read.                          *)
LEMMA NewIsInStep ==
    ASSUME LineInv, LineInv', HostSends, NEW n, n = Len(sent), sent'[n + 1].whole
    PROVE  InStep(n + 1)'
<1>1. /\ n \in Nat /\ Len(sent') = n + 1 /\ sent'[n + 1].from = OnTheLine
      /\ heard' = heard
  BY FrameIsSent
<1>2. Len(heard) \in Nat /\ OnTheLine \in Nat /\ Len(heard) <= OnTheLine
  BY LineSizes
<1>3. OnLine(sent[n + 1])'
  BY <1>1 DEF LineInv
<1>4. PICK s : s = sent'[n + 1]
  OBVIOUS
<1>5. s.from = OnTheLine /\ s.to = s.from + Len(s.data) + 6 /\ Len(s.data) \in Nat
  BY <1>1, <1>3, <1>4 DEF OnLine
<1> QED
  BY <1>1, <1>2, <1>4, <1>5 DEF InStep

(* Every step keeps the parser in step.                                    *)
LEMMA LossNext ==
    /\ ParserInv /\ FrameInv /\ LineInv /\ LineInv' /\ ClockInv /\ FrameIsYoung /\ LossInv
    /\ [Next]_vars
    => LossInv'
<1> SUFFICES ASSUME ParserInv, FrameInv, LineInv, LineInv', ClockInv, FrameIsYoung, LossInv,
                    [Next]_vars, PatientEngine', NoSyncInside',
                    NEW i \in 1 .. Len(sent'), ClearOfDamage(i)'
             PROVE  InStep(i)'
  BY DEF LossInv
<1>1. setup' = setup /\ PatientEngine
  <2>1. setup' = setup
    BY OtherSteps DEF RunByte, ReadRawByte
  <2> QED
    BY <2>1 DEF PatientEngine
<1>2. PICK n : n = Len(sent)
  OBVIOUS
<1>3. CASE ~HostSends
  <2>1. sent' = sent
    BY <1>3, LineKept DEF LineInv
  <2>2. NoSyncInside /\ ClearOfDamage(i) /\ i \in 1 .. Len(sent)
    BY <2>1 DEF NoSyncInside, ClearOfDamage, SyncFree
  <2>3. InStep(i)
    BY <1>1, <2>2 DEF LossInv
  <2>4. CASE RunByte
    <3>1. sent[i].from = Len(heard) => state_ = "kWaitingForSync"
      BY <2>2, WaitsForFrame
    <3> QED
      BY <2>2, <2>3, <2>4, <3>1, ByteKeepsStep DEF ClearOfDamage
  <2>5. CASE ~RunByte
    BY <1>1, <2>1, <2>2, <2>3, <2>5, StaysInStep
  <2> QED
    BY <2>4, <2>5
<1>4. CASE HostSends
  <2>1. /\ n \in Nat /\ Len(sent') = n + 1 /\ heard' = heard
        /\ \A j \in 1 .. n : sent'[j] = sent[j]
    BY <1>2, <1>4, FrameIsSent
  <2>2. CASE i = n + 1
    BY <1>2, <1>4, <2>2, NewIsInStep DEF ClearOfDamage
  <2>3. CASE i \in 1 .. n
    <3>1. NoSyncInside
      <4> SUFFICES ASSUME NEW j \in 1 .. Len(sent) PROVE SyncFree(sent[j])
        BY DEF NoSyncInside
      <4>1. j \in 1 .. Len(sent') /\ sent'[j] = sent[j]
        BY <1>2, <2>1
      <4> QED
        BY <4>1 DEF NoSyncInside, SyncFree
    <3>2. ClearOfDamage(i)
      <4>1. \A j \in 1 .. i - 1 : sent'[j] = sent[j]
        BY <2>1, <2>3
      <4> QED
        BY <2>1, <2>3, <4>1 DEF ClearOfDamage
    <3>3. InStep(i) /\ sent'[i] = sent[i] /\ i \in 1 .. Len(sent)
      BY <1>1, <1>2, <2>1, <2>3, <3>1, <3>2 DEF LossInv
    <3>4. ~RunByte
      <4> SUFFICES ASSUME RunByte PROVE FALSE
        OBVIOUS
      <4>1. PICK raw \in Byte : ReadRawByte(raw)
        BY DEF RunByte
      <4>2. heard' # heard
        BY <4>1, ByteIsHeard DEF ParserInv
      <4> QED
        BY <2>1, <4>2
    <3> QED
      BY <1>1, <3>3, <3>4, StaysInStep
  <2> QED
    BY <2>1, <2>2, <2>3
<1> QED
  BY <1>3, <1>4

(* A damaged frame costs no more than the frames that start within one     *)
(* longest frame behind it: every later whole frame is handed over, for    *)
(* every size of byte, frame and read-ahead, and also when an engine with  *)
(* a frame timeout looks at it in the middle of frames, at any timestamp.  *)
THEOREM LossBounded == Spec => []LossIsBounded
<1>1. Init => LossInv /\ FrameIsYoung
  BY DEF Init, LossInv, FrameIsYoung
<1>2. ParserInv /\ LineInv /\ LossInv => LossIsBounded
  <2> SUFFICES ASSUME ParserInv, LineInv, LossInv, PatientEngine, NoSyncInside,
                      NEW i \in 1 .. Len(sent), sent[i].whole, sent[i].to <= Len(heard),
                      \A j \in 1 .. i - 1 : ~sent[j].whole =>
                          sent[j].to + kHeaderSize + kMaxFrameDataLength + kChecksumSize
                              <= sent[i].from
               PROVE  IsParsed(sent[i])
    BY DEF LossIsBounded, NoSyncInside, PatientEngine
  <2>1. InStep(i)
    BY DEF LossInv, ClearOfDamage
  <2> QED
    BY <2>1 DEF InStep
<1> QED
  BY <1>1, <1>2, LossNext, ClockInit, ClockNext, YoungNext, LineInit, LineNext, ParserInit,
     ParserNext, FrameInit, FrameNext, PTL DEF Spec

-----------------------------------------------------------------------------
(* A peer that pauses between its frames.                                  *)

Pausing ==
    /\ setup.periodic
    /\ setup.frame_timeout >= AirTime + RunLatency
    /\ setup.pause >= setup.frame_timeout + 2 * (AirTime + RunLatency)
    /\ setup.frame_timeout + 2 * RunLatency < TimestampRange

LatestSent == sent[Len(sent)]

(* Every byte is read soon after its frame was sent, so no other frame has *)
(* been sent by then.                                                      *)
ReadInPause ==
    /\ Len(heard) < Total => since_send <= AirTime + late
    /\ Len(sent) > 0 => LatestSent.from <= Len(heard)

(* The frame being read began in the latest frame, soon after that was     *)
(* sent, or it is so old that the next Run gives it up.                    *)
InLatest == LatestSent.from <= Begun /\ since_send <= Age + AirTime + RunLatency

WillTimeOut == pc = "wait" /\ setup.frame_timeout < Age

StartIsTimed == state_ # "kWaitingForSync" =>
    /\ Age <= setup.frame_timeout + late + (IF pc = "wait" THEN RunLatency ELSE 0)
    /\ InLatest \/ WillTimeOut

WholeInStep == \A i \in 1 .. Len(sent) : sent[i].whole => InStep(i)

PauseInv == Pausing => ReadInPause /\ StartIsTimed /\ WholeInStep

(* The numbers that are compared.                                          *)
LEMMA PauseTypes ==
    ASSUME LineInv, ClockInv
    PROVE  /\ AirTime \in Nat /\ RunLatency \in Nat /\ TimestampRange \in Nat
           /\ setup.frame_timeout \in Nat /\ setup.pause \in Nat
           /\ late \in Nat /\ late <= RunLatency /\ since_send \in Nat /\ Age \in Nat
           /\ Len(heard) \in Nat /\ Total \in Nat
<1>1. setup.frame_timeout \in Nat /\ setup.pause \in Nat
  BY EngineAssumption DEF LineInv
<1> QED
  BY <1>1, ClockSizes, AgeAtSync, LineSizes DEF ClockInv

(* How they compare.                                                       *)
LEMMA PauseSizes ==
    ASSUME LineInv, Pausing
    PROVE  /\ setup.frame_timeout > 0
           /\ setup.pause > AirTime + RunLatency
           /\ setup.pause > setup.frame_timeout + RunLatency + (AirTime + RunLatency)
           /\ setup.frame_timeout + 2 * RunLatency < TimestampRange
<1>1. PICK timeout \in Nat : timeout = setup.frame_timeout
  BY EngineAssumption DEF LineInv
<1>2. PICK pause \in Nat : pause = setup.pause
  BY EngineAssumption DEF LineInv
<1>3. PICK a \in Nat \ {0}, l \in Nat : a = AirTime /\ l = RunLatency
  BY ClockSizes
<1>4. timeout >= a + l /\ pause >= timeout + 2 * (a + l)
  BY <1>1, <1>2, <1>3 DEF Pausing
<1>5. timeout # 0 /\ pause > a + l /\ pause > timeout + l + (a + l)
  BY <1>4
<1>6. setup.frame_timeout + 2 * RunLatency < TimestampRange
  BY DEF Pausing
<1> QED
  BY <1>1, <1>2, <1>3, <1>5, <1>6

(* When a frame is sent, all before it has been read, and what the parser  *)
(* still holds will time out.                                              *)
LEMMA PauseSend ==
    ASSUME ParserInv, LineInv, LineInv', ClockInv, Pausing, ReadInPause, StartIsTimed, HostSends
    PROVE  ReadInPause' /\ StartIsTimed'
<1>1. PICK n : n = Len(sent)
  OBVIOUS
<1>2. /\ n \in Nat /\ Len(sent') = n + 1
      /\ sent'[n + 1].from = OnTheLine
      /\ air = <<>> /\ since_send >= setup.pause /\ since_send' = 0
      /\ UNCHANGED <<setup, heard, readahead_, fifo, parser, pc, now, late>>
  BY <1>1, FrameIsSent
<1>3. UNCHANGED <<state_, Begun, Age>>
  BY <1>2 DEF parser, Begun, Stored, Age
<1>4. Len(heard) = OnTheLine
  <2>1. since_send > AirTime + late
    <3>1. setup.pause > AirTime + RunLatency
      BY PauseSizes
    <3> QED
      BY <1>2, <3>1, PauseTypes
  <2>2. ~(Len(heard) < Total)
    BY <2>1, PauseTypes DEF ReadInPause
  <2> QED
    BY <2>2, LineSizes
<1>5. ReadInPause'
  <2>1. LatestSent' = sent'[n + 1]
    BY <1>2 DEF LatestSent
  <2>2. LatestSent'.from <= Len(heard)
    BY <1>2, <1>4, <2>1, LineSizes
  <2>3. since_send' <= AirTime + late'
    BY <1>2, PauseTypes
  <2> QED
    BY <1>2, <2>2, <2>3 DEF ReadInPause
<1>6. ASSUME state_ # "kWaitingForSync" PROVE WillTimeOut
  <2>1. CASE InLatest
    <3>1. Age > setup.frame_timeout + late
      <4>1. PICK t \in Nat, p \in Nat, a \in Nat, l \in Nat, x \in Nat, g \in Nat :
                /\ t = setup.frame_timeout /\ p = setup.pause /\ a = AirTime
                /\ l = RunLatency /\ x = since_send /\ g = Age
        <5>1. /\ setup.frame_timeout \in Nat /\ setup.pause \in Nat /\ AirTime \in Nat
              /\ RunLatency \in Nat /\ since_send \in Nat /\ Age \in Nat
          BY PauseTypes
        <5> QED
          BY <5>1, Zenon
      <4>2. x >= p /\ p > t + l + (a + l) /\ x <= g + a + l
        <5>1. p > t + l + (a + l)
          BY <4>1, PauseSizes
        <5> QED
          BY <1>2, <2>1, <4>1, <5>1 DEF InLatest
      <4>3. g > t + l
        BY <4>2
      <4> QED
        BY <4>1, <4>3, PauseTypes
    <3>2. pc = "wait"
      BY <1>6, <3>1, PauseTypes DEF StartIsTimed
    <3> QED
      BY <3>1, <3>2, PauseTypes DEF WillTimeOut
  <2> QED
    BY <1>6, <2>1 DEF StartIsTimed
<1>7. StartIsTimed'
  BY <1>2, <1>3, <1>6 DEF StartIsTimed, WillTimeOut
<1> QED
  BY <1>5, <1>7

(* Run comes back before the age of a frame wraps around.                  *)
LEMMA PauseTick ==
    ASSUME ParserInv, LineInv, ClockInv, Pausing, ReadInPause, StartIsTimed, Tick
    PROVE  ReadInPause' /\ StartIsTimed'
<1>1. /\ UNCHANGED <<setup, heard, readahead_, fifo, air, sent, pc>> /\ UNCHANGED parser
      /\ late < RunLatency /\ late' = late + 1
  BY DEF Tick, RunIsDue, Pausing
<1>2. UNCHANGED <<state_, Begun, Total, LatestSent>>
  BY <1>1 DEF parser, Begun, Stored, Total, LatestSent
<1>3. since_send' \in Nat /\ since_send' <= since_send + 1
  BY PauseTypes, TickSince
<1>4. ReadInPause'
  <2>1. since_send <= AirTime + late => since_send' <= AirTime + late'
    BY <1>1, <1>3, PauseTypes
  <2> QED
    BY <1>1, <1>2, <2>1 DEF ReadInPause
<1>5. PICK t \in Nat, a \in Nat, l \in Nat, y \in Nat, x \in Nat, g \in Nat, r \in Nat :
          /\ t = setup.frame_timeout /\ a = AirTime /\ l = RunLatency /\ y = late
          /\ x = since_send /\ g = Age /\ r = TimestampRange
  <2>1. /\ setup.frame_timeout \in Nat /\ AirTime \in Nat /\ RunLatency \in Nat
        /\ late \in Nat /\ since_send \in Nat /\ Age \in Nat /\ TimestampRange \in Nat
    BY PauseTypes
  <2> QED
    BY <2>1, Zenon
<1>6. y < l /\ t + 2 * l < r
  BY <1>1, <1>5, PauseSizes
<1>7. StartIsTimed'
  <2> SUFFICES ASSUME state_ # "kWaitingForSync"
               PROVE  /\ Age' <= t + (y + 1) + (IF pc = "wait" THEN l ELSE 0)
                      /\ InLatest' \/ WillTimeOut'
    BY <1>1, <1>2, <1>5 DEF StartIsTimed
  <2>1. g <= t + y + (IF pc = "wait" THEN l ELSE 0) /\ (InLatest \/ WillTimeOut)
    BY <1>5 DEF StartIsTimed
  <2>2. Age' = g + 1
    <3>1. g + 1 < r
      BY <1>6, <2>1
    <3> QED
      BY <1>5, <3>1, AgeGrows
  <2>3. CASE InLatest
    <3>1. LatestSent.from <= Begun /\ x <= g + a + l
      BY <1>5, <2>3 DEF InLatest
    <3>2. since_send' <= (g + 1) + a + l
      BY <1>3, <1>5, <3>1
    <3> QED
      BY <1>2, <1>5, <2>1, <2>2, <3>1, <3>2 DEF InLatest
  <2>4. CASE WillTimeOut
    <3>1. pc = "wait" /\ t < g + 1
      BY <1>5, <2>4 DEF WillTimeOut
    <3> QED
      BY <1>1, <1>5, <2>1, <2>2, <3>1 DEF WillTimeOut
  <2> QED
    BY <2>1, <2>3, <2>4
<1> QED
  BY <1>4, <1>7

(* A frame that begins does so in the latest frame.                        *)
LEMMA PauseByte ==
    ASSUME ParserInv, LineInv, ClockInv, Pausing, ReadInPause, StartIsTimed, RunByte
    PROVE  ReadInPause' /\ StartIsTimed'
<1>1. PICK raw \in Byte : ReadRawByte(raw)
  BY DEF RunByte
<1>2. /\ UNCHANGED <<setup, sent, pc, now, late, since_send>> /\ pc = "rx"
  BY <1>1 DEF ReadRawByte, host, clock
<1>3. Len(heard) \in Nat /\ Len(heard') = Len(heard) + 1
  BY <1>1, ByteIsHeard DEF ParserInv
<1>4. Total' = Total /\ Len(heard) + 1 <= Total
  BY <1>1, LineRead DEF LineInv
<1>5. LatestSent' = LatestSent
  BY <1>2 DEF LatestSent
<1>6. LatestSent.from <= Len(heard) /\ LatestSent.from \in Nat
  <2>1. Len(heard) + 1 \in 1 .. Total
    BY <1>3, <1>4, PauseTypes
  <2>2. PICK i \in 1 .. Len(sent) : sent[i].from < Len(heard) + 1
    BY <2>1 DEF LineInv
  <2>3. PICK S : sent \in Seq(S)
    BY DEF LineInv
  <2>4. Len(sent) > 0 /\ Len(sent) \in 1 .. Len(sent)
    BY <2>2, <2>3
  <2>5. OnLine(sent[Len(sent)])
    BY <2>4 DEF LineInv
  <2> QED
    BY <2>4, <2>5 DEF OnLine, LatestSent, ReadInPause
<1>7. ReadInPause'
  <2>1. since_send <= AirTime + late
    BY <1>3, <1>4, PauseTypes DEF ReadInPause
  <2>2. LatestSent'.from <= Len(heard')
    BY <1>3, <1>5, <1>6
  <2> QED
    BY <1>2, <2>1, <2>2 DEF ReadInPause
<1>8. StartIsTimed'
  <2> SUFFICES ASSUME state_' # "kWaitingForSync"
               PROVE  Age' <= setup.frame_timeout + late /\ InLatest'
    BY <1>2, PauseTypes DEF StartIsTimed
  <2>1. CASE state_ = "kWaitingForSync"
    <3>1. PICK n \in Nat \ {0} : n = TimestampRange
      BY ClockSizes
    <3>2. PICK t \in 0 .. n - 1 : t = now
      BY <3>1 DEF ClockInv
    <3>3. frame_start_ts_' = t /\ now' = t
      BY <1>2, <2>1, <3>2, StartStays
    <3>4. Age' = 0
      BY <3>1, <3>3, AgeIs DEF Age
    <3>5. Begun' = Len(heard)
      BY <2>1, BegunStays
    <3>6. since_send <= AirTime + late
      BY <1>3, <1>4, PauseTypes DEF ReadInPause
    <3>7. since_send' <= Age' + AirTime + RunLatency
      BY <1>2, <3>4, <3>6, PauseTypes
    <3>8. InLatest'
      BY <1>5, <1>6, <3>5, <3>7 DEF InLatest
    <3> QED
      BY <3>4, <3>8, PauseTypes
  <2>2. CASE state_ # "kWaitingForSync"
    <3>1. Age' = Age
      BY <1>2, <2>2, StartStays DEF Age
    <3>2. Begun' = Begun
      BY <2>2, BegunStays
    <3>3. Age <= setup.frame_timeout + late /\ InLatest
      BY <1>2, <2>2, PauseTypes DEF StartIsTimed, WillTimeOut
    <3> QED
      BY <1>2, <1>5, <3>1, <3>2, <3>3 DEF InLatest
  <2> QED
    BY <2>1, <2>2
<1> QED
  BY <1>7, <1>8

(* Run looks at the timeout before it reads, and returns in time.          *)
LEMMA PauseRun ==
    ASSUME ParserInv, LineInv, ClockInv, Pausing, ReadInPause, StartIsTimed, RunBegins \/ RunEnds
    PROVE  ReadInPause' /\ StartIsTimed'
<1>1. UNCHANGED <<setup, heard, readahead_, fifo, air, sent, now, since_send>>
  BY DEF RunBegins, RunEnds, host, clock
<1>2. UNCHANGED <<Total, LatestSent>>
  BY <1>1 DEF Total, LatestSent
<1>3. CASE RunBegins
  <2>1. pc' = "rx" /\ late' = late
    BY <1>3 DEF RunBegins, clock
  <2>2. ReadInPause'
    BY <1>1, <1>2, <2>1 DEF ReadInPause
  <2>3. CASE TimedOut
    BY <1>3, <2>2, <2>3 DEF RunBegins, ResetParser, StartIsTimed
  <2>4. CASE ~TimedOut
    <3>1. UNCHANGED parser
      BY <1>3, <2>4 DEF RunBegins
    <3>2. UNCHANGED <<state_, Begun, Age>>
      BY <1>1, <3>1 DEF parser, Begun, Stored, Age
    <3>3. state_ # "kWaitingForSync" => Age <= setup.frame_timeout
      <4>1. setup.frame_timeout > 0
        BY PauseSizes
      <4>2. state_ # "kWaitingForSync" => ~(Age > setup.frame_timeout)
        BY <2>4, <4>1 DEF TimedOut, Age
      <4> QED
        BY <4>2, PauseTypes
    <3>4. state_ # "kWaitingForSync" => InLatest
      BY <3>3, PauseTypes DEF StartIsTimed, WillTimeOut
    <3>5. InLatest => InLatest'
      BY <1>1, <1>2, <3>2 DEF InLatest
    <3>6. state_ # "kWaitingForSync" => Age <= setup.frame_timeout + late
      BY <3>3, PauseTypes
    <3>7. StartIsTimed'
      BY <1>1, <2>1, <3>2, <3>4, <3>5, <3>6, PauseTypes DEF StartIsTimed
    <3> QED
      BY <2>2, <3>7
  <2> QED
    BY <2>3, <2>4
<1>4. CASE RunEnds
  <2>1. /\ pc = "tx" /\ pc' = "wait" /\ UNCHANGED parser
        /\ late' = IF fifo = <<>> THEN 0 ELSE late
        /\ readahead_ = <<>>
    BY <1>4 DEF RunEnds, ClockInv
  <2>2. UNCHANGED <<state_, Begun, Age>>
    BY <1>1, <2>1 DEF parser, Begun, Stored, Age
  <2>3. Len(heard) < Total => since_send <= AirTime + late'
    <3> SUFFICES ASSUME Len(heard) < Total, fifo = <<>> PROVE since_send <= AirTime
      BY <2>1, PauseTypes DEF ReadInPause
    <3>1. air # <<>>
      BY <2>1, LineSizes
    <3> QED
      BY <3>1 DEF ClockInv
  <2>4. ReadInPause'
    BY <1>1, <1>2, <2>3 DEF ReadInPause
  <2>5. state_ # "kWaitingForSync" =>
            InLatest /\ Age <= setup.frame_timeout + late' + RunLatency
    <3> SUFFICES ASSUME state_ # "kWaitingForSync"
                 PROVE  InLatest /\ Age <= setup.frame_timeout + late' + RunLatency
      OBVIOUS
    <3>1. InLatest
      BY <2>1 DEF StartIsTimed, WillTimeOut
    <3>2. Age <= setup.frame_timeout + late
      BY <2>1, PauseTypes DEF StartIsTimed
    <3>3. late' \in Nat
      BY <2>1, PauseTypes
    <3> QED
      BY <3>1, <3>2, <3>3, PauseTypes
  <2>6. InLatest => InLatest'
    BY <1>1, <1>2, <2>2 DEF InLatest
  <2>7. StartIsTimed'
    BY <1>1, <2>1, <2>2, <2>5, <2>6 DEF StartIsTimed
  <2> QED
    BY <2>4, <2>7
<1> QED
  BY <1>3, <1>4

(* The steps that concern neither the parser nor the clock.                *)
LEMMA PauseOther ==
    ASSUME ParserInv, LineInv, Pausing, ReadInPause, StartIsTimed, [Next]_vars,
           ~HostSends, ~Tick, ~RunByte, ~RunBegins, ~RunEnds
    PROVE  ReadInPause' /\ StartIsTimed'
<1>1. /\ UNCHANGED <<setup, heard, now, since_send, late>> /\ UNCHANGED parser
      /\ pc' = "wait" <=> pc = "wait"
  BY DEF Next, Arrive, AddHandler, Send, StreamIsEmpty, vars, host, clock
<1>2. sent' = sent /\ Total' = Total
  BY LineKept DEF LineInv
<1>3. UNCHANGED <<state_, Begun, Age, LatestSent>>
  BY <1>1, <1>2 DEF parser, Begun, Stored, Age, LatestSent
<1>4. ReadInPause'
  BY <1>1, <1>2, <1>3 DEF ReadInPause
<1>5. StartIsTimed'
  BY <1>1, <1>3 DEF StartIsTimed, InLatest, WillTimeOut
<1> QED
  BY <1>4, <1>5

(* At the first byte of a frame the parser is waiting: what it held of an  *)
(* earlier one has timed out.                                              *)
LEMMA WaitsAfterPause ==
    ASSUME ParserInv, LineInv, StartIsTimed, RunByte, NEW i \in 1 .. Len(sent),
           sent[i].from = Len(heard)
    PROVE  state_ = "kWaitingForSync"
<1> SUFFICES ASSUME state_ # "kWaitingForSync" PROVE FALSE
  OBVIOUS
<1>1. PICK n : n = Len(sent)
  OBVIOUS
<1>2. sent[n].from <= Begun
  BY <1>1 DEF RunByte, ReadRawByte, StartIsTimed, WillTimeOut, InLatest, LatestSent
<1>3. Begun \in Nat /\ Len(heard) \in Nat /\ Begun < Len(heard)
  BY BegunBefore
<1>4. PICK S : sent \in Seq(S)
  BY DEF LineInv
<1>5. n \in Nat /\ n \in 1 .. Len(sent)
  BY <1>1, <1>4
<1>6. OnLine(sent[i]) /\ OnLine(sent[n])
  BY <1>5 DEF LineInv
<1>7. i # n
  BY <1>2, <1>3, <1>6 DEF OnLine
<1>8. sent[i].to <= sent[n].from
  BY <1>1, <1>5, <1>7 DEF LineInv
<1> QED
  BY <1>2, <1>3, <1>6, <1>8 DEF OnLine

(* Every step keeps a whole frame in step.                                 *)
LEMMA WholeStays ==
    ASSUME ParserInv, FrameInv, LineInv, LineInv', ClockInv, FrameIsYoung, PatientEngine,
           StartIsTimed, WholeInStep, [Next]_vars
    PROVE  WholeInStep'
<1> SUFFICES ASSUME NEW i \in 1 .. Len(sent'), sent'[i].whole PROVE InStep(i)'
  BY DEF WholeInStep
<1>1. PICK n : n = Len(sent)
  OBVIOUS
<1>2. CASE RunByte
  <2>1. sent' = sent
    BY <1>2 DEF RunByte, ReadRawByte, host
  <2>2. i \in 1 .. Len(sent) /\ sent[i].whole /\ InStep(i)
    BY <2>1 DEF WholeInStep
  <2> QED
    BY <1>2, <2>2, WaitsAfterPause, ByteKeepsStep
<1>3. CASE ~RunByte /\ ~HostSends
  <2>1. sent' = sent
    BY <1>3, LineKept DEF LineInv
  <2>2. i \in 1 .. Len(sent) /\ sent'[i] = sent[i] /\ InStep(i)
    BY <2>1 DEF WholeInStep
  <2> QED
    BY <1>3, <2>2, StaysInStep
<1>4. CASE ~RunByte /\ HostSends
  <2>1. /\ n \in Nat /\ Len(sent') = n + 1
        /\ \A j \in 1 .. n : sent'[j] = sent[j]
    BY <1>1, <1>4, FrameIsSent
  <2>2. CASE i = n + 1
    BY <1>1, <1>4, <2>2, NewIsInStep
  <2>3. CASE i \in 1 .. n
    <3>1. i \in 1 .. Len(sent) /\ sent'[i] = sent[i] /\ InStep(i)
      BY <1>1, <2>1, <2>3 DEF WholeInStep
    <3> QED
      BY <1>4, <3>1, StaysInStep
  <2> QED
    BY <2>1, <2>2, <2>3
<1> QED
  BY <1>2, <1>3, <1>4

(* Every step keeps the invariant.                                         *)
LEMMA PauseNext ==
    /\ ParserInv /\ FrameInv /\ LineInv /\ LineInv' /\ ClockInv /\ FrameIsYoung /\ PauseInv
    /\ [Next]_vars
    => PauseInv'
<1> SUFFICES ASSUME ParserInv, FrameInv, LineInv, LineInv', ClockInv, FrameIsYoung, PauseInv,
                    [Next]_vars, Pausing'
             PROVE  ReadInPause' /\ StartIsTimed' /\ WholeInStep'
  BY DEF PauseInv
<1>1. setup' = setup
  BY OtherSteps DEF RunByte, ReadRawByte
<1>2. Pausing /\ PatientEngine /\ ReadInPause /\ StartIsTimed /\ WholeInStep
  BY <1>1 DEF Pausing, PatientEngine, PauseInv
<1>3. ReadInPause' /\ StartIsTimed'
  BY <1>2, PauseSend, PauseTick, PauseByte, PauseRun, PauseOther
<1>4. WholeInStep'
  BY <1>2, WholeStays
<1> QED
  BY <1>3, <1>4

(* A peer that pauses longer than the frame timeout loses only damaged     *)
(* frames (the timeout check of Run), whatever bytes they hold, for every  *)
(* timeout, pause and range of the timestamps that leave room for the time *)
(* on the line and for the period of Run, at every timestamp.              *)
THEOREM PauseRecovers == Spec => []PauseResynchronises
<1>1. Init => PauseInv /\ FrameIsYoung
  <2> SUFFICES ASSUME Init PROVE PauseInv /\ FrameIsYoung
    OBVIOUS
  <2>1. /\ heard = <<>> /\ readahead_ = <<>> /\ fifo = <<>> /\ air = <<>> /\ sent = <<>>
        /\ state_ = "kWaitingForSync"
    BY DEF Init
  <2>2. Total = 0 /\ Len(heard) = 0 /\ Len(sent) = 0
    BY <2>1 DEF Total
  <2> QED
    BY <2>1, <2>2 DEF PauseInv, ReadInPause, StartIsTimed, WholeInStep, FrameIsYoung
<1>2. PauseInv => PauseResynchronises
  BY DEF PauseInv, Pausing, PauseResynchronises, WholeInStep, InStep
<1> QED
  BY <1>1, <1>2, PauseNext, ClockInit, ClockNext, YoungNext, LineInit, LineNext, ParserInit,
     ParserNext, FrameInit, FrameNext, PTL DEF Spec

-----------------------------------------------------------------------------
(* The transmit side.                                                      *)

(* The frame in the transmit buffer is the last one queued, and all before *)
(* it have been carried.                                                   *)
WireInv ==
    /\ setup \in Setups
    /\ tx_data_ \in BOOLEAN
    /\ \E X : wire \in Seq(X)
    /\ \E S : queued \in Seq(S)
    /\ \A i \in 1 .. Len(queued) : queued[i].data \in Seq(Byte)
    /\ tx_data_ => /\ Len(queued) >= 1
                   /\ queued[Len(queued)] = [tag |-> tx_tag_, data |-> tx_data_buffer_]
    /\ WireCarriesQueuedFrames

(* The bytes of a frame are a sequence, at least the six of its envelope.  *)
LEMMA WireIsSeq ==
    ASSUME NEW tag, NEW data \in Seq(Byte)
    PROVE  /\ \E X : WireOf(tag, data) \in Seq(X)
           /\ Len(WireOf(tag, data)) \in Nat /\ Len(WireOf(tag, data)) >= 6
<1> DEFINE n == Len(data)
           w == WireOf(tag, data)
<1>1. n \in Nat
  OBVIOUS
<1>2. PICK f : w = [i \in 1 .. n + 6 |-> f[i]]
  <2> DEFINE g == [i \in 1 .. n + 6 |->
                     IF i = 1 THEN kSyncByte
                     ELSE IF i <= 5 THEN Header(tag, n)[i - 1]
                     ELSE IF i <= n + 5 THEN data[i - 5]
                     ELSE ComputeChecksum(Header(tag, n), data)]
  <2>1. w = g
    BY WireBytes
  <2>2. g = [i \in 1 .. n + 6 |-> g[i]]
    OBVIOUS
  <2> QED
    BY <2>1, <2>2
<1>3. Len(w) = n + 6
  BY WireBytes
<1> HIDE DEF n, w
<1>4. w \in Seq({f[i] : i \in 1 .. n + 6})
  BY <1>1, <1>2
<1> QED
  BY <1>1, <1>3, <1>4 DEF w, n

(* Frames that are carried stay so when more bytes and frames follow.      *)
LEMMA CarriedStays ==
    ASSUME NEW w, NEW v, NEW q, NEW r, NEW n \in Nat, Len(w) \in Nat, Len(v) \in Nat,
           Len(w) <= Len(v), \A k \in 1 .. Len(w) : v[k] = w[k],
           \A i \in 1 .. n : r[i] = q[i] /\ q[i].data \in Seq(Byte),
           Carried(w, q, n)
    PROVE  Carried(v, r, n)
<1>1. PICK ends \in [0 .. n -> 0 .. Len(w)] : \A i \in 1 .. n :
        LET bytes == WireOf(q[i].tag, q[i].data)
        IN  /\ ends[i - 1] + Len(bytes) <= ends[i]
            /\ \A k \in 1 .. Len(bytes) : w[ends[i] - Len(bytes) + k] = bytes[k]
  BY DEF Carried
<1>2. ends \in [0 .. n -> 0 .. Len(v)]
  BY <1>1
<1>3. ASSUME NEW i \in 1 .. n
      PROVE  LET bytes == WireOf(r[i].tag, r[i].data)
             IN  /\ ends[i - 1] + Len(bytes) <= ends[i]
                 /\ \A k \in 1 .. Len(bytes) : v[ends[i] - Len(bytes) + k] = bytes[k]
  <2> DEFINE bytes == WireOf(q[i].tag, q[i].data)
  <2>1. r[i] = q[i] /\ q[i].data \in Seq(Byte)
    OBVIOUS
  <2>2. /\ ends[i - 1] + Len(bytes) <= ends[i]
        /\ \A k \in 1 .. Len(bytes) : w[ends[i] - Len(bytes) + k] = bytes[k]
    BY <1>1
  <2>3. Len(bytes) \in Nat
    BY <2>1, WireIsSeq
  <2> HIDE DEF bytes
  <2>4. ends[i - 1] \in 0 .. Len(w) /\ ends[i] \in 0 .. Len(w)
    BY <1>1
  <2>5. ASSUME NEW k \in 1 .. Len(bytes) PROVE v[ends[i] - Len(bytes) + k] = bytes[k]
    <3>1. ends[i] - Len(bytes) + k \in 1 .. Len(w)
      BY <2>2, <2>3, <2>4
    <3> QED
      BY <2>2, <3>1
  <2> QED
    BY <2>1, <2>2, <2>5 DEF bytes
<1> QED
  BY <1>2, <1>3 DEF Carried

(* A frame that is written in full is carried too.                         *)
LEMMA CarriedNext ==
    ASSUME NEW X, NEW w \in Seq(X), NEW q, NEW n \in Nat,
           \A i \in 1 .. n + 1 : q[i].data \in Seq(Byte), Carried(w, q, n)
    PROVE  Carried(w \o WireOf(q[n + 1].tag, q[n + 1].data), q, n + 1)
<1> DEFINE last == WireOf(q[n + 1].tag, q[n + 1].data)
<1>0. q[n + 1].data \in Seq(Byte)
  OBVIOUS
<1>1. PICK Y : last \in Seq(Y)
  BY <1>0, WireIsSeq
<1>2. Len(last) \in Nat /\ Len(w) \in Nat
  BY <1>0, WireIsSeq
<1>3. PICK v : v = w \o last
  OBVIOUS
<1> HIDE DEF last
<1>4. /\ Len(v) = Len(w) + Len(last)
      /\ \A k \in 1 .. Len(w) : v[k] = w[k]
      /\ \A k \in 1 .. Len(last) : v[Len(w) + k] = last[k]
  <2>1. w \in Seq(X \cup Y) /\ last \in Seq(X \cup Y)
    BY <1>1, SeqMonotonic
  <2> QED
    BY <1>2, <1>3, <2>1, ConcatProperties
<1>5. PICK ends \in [0 .. n -> 0 .. Len(w)] : \A i \in 1 .. n :
        LET bytes == WireOf(q[i].tag, q[i].data)
        IN  /\ ends[i - 1] + Len(bytes) <= ends[i]
            /\ \A k \in 1 .. Len(bytes) : w[ends[i] - Len(bytes) + k] = bytes[k]
  BY DEF Carried
<1>6. PICK all : all = [i \in 0 .. n + 1 |-> IF i = n + 1 THEN Len(v) ELSE ends[i]]
  OBVIOUS
<1>7. /\ all \in [0 .. n + 1 -> 0 .. Len(v)] /\ all[n + 1] = Len(v)
      /\ \A i \in 0 .. n : all[i] = ends[i]
  <2>1. \A i \in 0 .. n + 1 : i = n + 1 \/ i \in 0 .. n
    OBVIOUS
  <2> QED
    BY <1>2, <1>4, <1>5, <1>6, <2>1
<1>8. ASSUME NEW i \in 1 .. n + 1
      PROVE  LET bytes == WireOf(q[i].tag, q[i].data)
             IN  /\ all[i - 1] + Len(bytes) <= all[i]
                 /\ \A k \in 1 .. Len(bytes) : v[all[i] - Len(bytes) + k] = bytes[k]
  <2>1. CASE i = n + 1
    <3>1. i - 1 = n /\ all[n] = ends[n] /\ ends[n] \in 0 .. Len(w) /\ all[i] = Len(v)
      BY <1>5, <1>7, <2>1
    <3>2. all[i - 1] + Len(last) <= all[i]
      BY <1>2, <1>4, <3>1
    <3>3. all[i] - Len(last) = Len(w)
      BY <1>2, <1>4, <3>1
    <3> QED
      BY <1>4, <2>1, <3>2, <3>3 DEF last
  <2>2. CASE i \in 1 .. n
    <3> DEFINE bytes == WireOf(q[i].tag, q[i].data)
    <3>1. /\ ends[i - 1] + Len(bytes) <= ends[i]
          /\ \A k \in 1 .. Len(bytes) : w[ends[i] - Len(bytes) + k] = bytes[k]
      BY <1>5, <2>2
    <3>2. Len(bytes) \in Nat
      BY WireIsSeq
    <3> HIDE DEF bytes
    <3>3. /\ ends[i - 1] \in 0 .. Len(w) /\ ends[i] \in 0 .. Len(w)
          /\ all[i - 1] = ends[i - 1] /\ all[i] = ends[i]
      BY <1>5, <1>7, <2>2
    <3>4. ASSUME NEW k \in 1 .. Len(bytes) PROVE v[all[i] - Len(bytes) + k] = bytes[k]
      <4>1. ends[i] - Len(bytes) + k \in 1 .. Len(w)
        BY <1>2, <3>1, <3>2, <3>3, SMTT(30)
      <4> QED
        BY <1>4, <3>1, <3>3, <4>1
    <3> QED
      BY <3>1, <3>3, <3>4 DEF bytes
  <2> QED
    BY <2>1, <2>2
<1>9. Carried(v, q, n + 1)
  BY <1>7, <1>8 DEF Carried
<1> QED
  BY <1>3, <1>9 DEF last

(* The initial state.                                                      *)
LEMMA WireInit == Init => WireInv
<1> SUFFICES ASSUME Init PROVE WireInv
  OBVIOUS
<1>1. /\ ~tx_data_ /\ tx_data_ \in BOOLEAN /\ wire = <<>> /\ queued = <<>>
      /\ setup \in Setups
  BY DEF Init
<1>2. Len(wire) = 0 /\ Len(queued) = 0 /\ wire \in Seq({}) /\ queued \in Seq({})
  BY <1>1
<1>3. PICK ends \in [0 .. 0 -> 0 .. 0] : TRUE
  <2>1. [i \in 0 .. 0 |-> 0] \in [0 .. 0 -> 0 .. 0]
    OBVIOUS
  <2> QED
    BY <2>1
<1>4. Carried(wire, queued, 0)
  <2>1. 1 .. 0 = {}
    OBVIOUS
  <2> QED
    BY <1>2, <1>3, <2>1, Zenon DEF Carried
<1>5. Len(queued) - (IF tx_data_ THEN 1 ELSE 0) = 0
  BY <1>1, <1>2
<1>6. WireCarriesQueuedFrames
  BY <1>4, <1>5 DEF WireCarriesQueuedFrames
<1> QED
  BY <1>1, <1>2, <1>6 DEF WireInv

(* A frame put in the empty transmit buffer is the last one queued.        *)
LEMMA WireQueue ==
    ASSUME WireInv, ~tx_data_, NEW tag, NEW data \in Seq(Byte), QueueTx(tag, data),
           UNCHANGED <<wire, setup>>
    PROVE  WireInv'
<1>1. PICK S : queued \in Seq(S)
  BY DEF WireInv
<1> DEFINE new == [tag |-> tag, data |-> data]
<1>2. queued' = Append(queued, new) /\ tx_data_' = TRUE
      /\ new = [tag |-> tx_tag_', data |-> tx_data_buffer_'] /\ new.data \in Seq(Byte)
  BY DEF QueueTx
<1> HIDE DEF new
<1>3. PICK n \in Nat : n = Len(queued)
  BY <1>1
<1>4. /\ queued' \in Seq(S \cup {new}) /\ Len(queued') = n + 1 /\ queued'[n + 1] = new
      /\ \A i \in 1 .. n : queued'[i] = queued[i]
  <2>1. queued \in Seq(S \cup {new})
    BY <1>1, SeqMonotonic
  <2> QED
    BY <1>2, <1>3, <2>1, AppendProperties
<1>5. \A i \in 1 .. n + 1 : queued'[i].data \in Seq(Byte)
  <2>1. \A i \in 1 .. n + 1 : i = n + 1 \/ i \in 1 .. n
    OBVIOUS
  <2> QED
    BY <1>2, <1>3, <1>4, <2>1 DEF WireInv
<1>6. PICK X : wire \in Seq(X)
  BY DEF WireInv
<1>7. Carried(wire, queued, n)
  BY <1>3 DEF WireInv, WireCarriesQueuedFrames
<1>8. Carried(wire, queued', n)
  <2>1. Len(wire) \in Nat /\ Len(wire) <= Len(wire)
    BY <1>6
  <2>2. \A i \in 1 .. n : queued'[i] = queued[i] /\ queued[i].data \in Seq(Byte)
    BY <1>3, <1>4 DEF WireInv
  <2> QED
    BY <1>7, <2>1, <2>2, CarriedStays
<1>9. WireCarriesQueuedFrames'
  <2>1. Len(queued') - 1 = n
    BY <1>4
  <2> QED
    BY <1>2, <1>8, <2>1 DEF WireCarriesQueuedFrames
<1>10. \A i \in 1 .. Len(queued') : queued'[i].data \in Seq(Byte)
  BY <1>4, <1>5
<1>11. Len(queued') >= 1 /\ queued'[Len(queued')] = new
  BY <1>4
<1> QED
  BY <1>2, <1>4, <1>6, <1>9, <1>10, <1>11 DEF WireInv

(* The chunks of b bytes that are written before the last one end inside.  *)
LEMMA ChunkEnds ==
    ASSUME NEW b \in Nat, b >= 1,
           NEW k \in {ChunkSize * j : j \in 0 .. (b - 1) \div ChunkSize}
    PROVE  k \in Nat /\ k <= b
<1>1. ChunkSize \in Nat \ {0}
  BY EngineAssumption
<1>2. PICK j \in 0 .. (b - 1) \div ChunkSize : k = ChunkSize * j
  OBVIOUS
<1>3. PICK d : d = (b - 1) \div ChunkSize
  OBVIOUS
<1>4. d \in Int /\ ChunkSize * d <= b - 1
  BY <1>1, <1>3, SMTT(30)
<1>5. j \in Nat /\ j <= d
  BY <1>2, <1>3, <1>4
<1>6. ChunkSize * j <= ChunkSize * d /\ ChunkSize * j \in Nat /\ ChunkSize * d \in Int
  BY <1>1, <1>4, <1>5, SMTT(30)
<1> QED
  BY <1>2, <1>4, <1>6

(* TxPhase writes the pending frame in full, or a part of it that the next *)
(* attempt repeats.                                                        *)
LEMMA WireTx ==
    ASSUME WireInv, TxPhase, UNCHANGED setup
    PROVE  WireInv'
<1> DEFINE bytes == WireOf(tx_tag_, tx_data_buffer_)
<1>1. PICK X : wire \in Seq(X)
  BY DEF WireInv
<1>2. PICK S : queued \in Seq(S)
  BY DEF WireInv
<1>3. PICK n \in Nat : n = Len(queued)
  BY <1>2
<1>4. queued' = queued /\ UNCHANGED <<tx_tag_, tx_data_buffer_>>
  BY DEF TxPhase, tx
<1>5. CASE ~tx_data_
  <2>1. UNCHANGED <<tx_data_, wire>>
    BY <1>5 DEF TxPhase, tx, out
  <2> QED
    BY <1>4, <2>1 DEF WireInv, WireCarriesQueuedFrames
<1>6. CASE tx_data_
  <2>1. n >= 1 /\ queued[n] = [tag |-> tx_tag_, data |-> tx_data_buffer_]
    BY <1>3, <1>6 DEF WireInv
  <2>2. queued[n].tag = tx_tag_ /\ queued[n].data = tx_data_buffer_
        /\ tx_data_buffer_ \in Seq(Byte)
    BY <1>3, <2>1 DEF WireInv
  <2>3. Carried(wire, queued, n - 1)
    BY <1>3, <1>6 DEF WireInv, WireCarriesQueuedFrames
  <2>4. PICK Y : bytes \in Seq(Y)
    BY <2>2, WireIsSeq
  <2>5. \A i \in 1 .. n : queued[i].data \in Seq(Byte)
    BY <1>3 DEF WireInv
  <2>6. CASE wire' = wire \o bytes /\ tx_data_' = FALSE
    <3>1. n - 1 \in Nat /\ (n - 1) + 1 = n
      BY <2>1
    <3>2. PICK m \in Nat : m = n - 1
      BY <3>1
    <3>3. Carried(wire \o WireOf(queued[m + 1].tag, queued[m + 1].data), queued, m + 1)
      BY <1>1, <2>3, <2>5, <3>1, <3>2, CarriedNext
    <3>4. Carried(wire', queued', n)
      BY <1>4, <2>2, <2>6, <3>1, <3>2, <3>3
    <3>5. WireCarriesQueuedFrames'
      BY <1>3, <1>4, <2>6, <3>4 DEF WireCarriesQueuedFrames
    <3>6. \E Z : wire' \in Seq(Z)
      <4>1. wire \in Seq(X \cup Y) /\ bytes \in Seq(X \cup Y)
        BY <1>1, <2>4, SeqMonotonic
      <4> QED
        BY <2>6, <4>1, ConcatProperties
    <3> QED
      BY <1>4, <2>6, <3>5, <3>6 DEF WireInv
  <2>7. CASE tx_data_' = tx_data_ /\ \E k \in Nat : wire' = wire \o SubSeq(bytes, 1, k)
                                                   /\ k <= Len(bytes)
    <3>1. PICK k \in Nat : wire' = wire \o SubSeq(bytes, 1, k) /\ k <= Len(bytes)
      BY <2>7
    <3>2. PICK part : part = SubSeq(bytes, 1, k)
      OBVIOUS
    <3> HIDE DEF bytes
    <3>3. part \in Seq(Y) /\ Len(part) \in Nat
      BY <2>4, <3>1, <3>2
    <3>4. /\ wire' \in Seq(X \cup Y) /\ Len(wire') = Len(wire) + Len(part)
          /\ Len(wire) \in Nat /\ \A i \in 1 .. Len(wire) : wire'[i] = wire[i]
      <4>1. wire \in Seq(X \cup Y) /\ part \in Seq(X \cup Y)
        BY <1>1, <3>3, SeqMonotonic
      <4> QED
        BY <3>1, <3>2, <4>1, ConcatProperties
    <3>5. Carried(wire', queued', n - 1)
      <4>1. Len(wire') \in Nat /\ Len(wire) <= Len(wire') /\ n - 1 \in Nat
        BY <2>1, <3>3, <3>4
      <4>2. \A i \in 1 .. n - 1 : queued'[i] = queued[i] /\ queued[i].data \in Seq(Byte)
        BY <1>4, <2>5
      <4> QED
        BY <2>3, <3>4, <4>1, <4>2, CarriedStays
    <3>6. WireCarriesQueuedFrames'
      BY <1>3, <1>4, <1>6, <2>7, <3>5 DEF WireCarriesQueuedFrames
    <3> QED
      BY <1>4, <1>6, <2>7, <3>4, <3>6 DEF WireInv
  <2>8. ASSUME NEW k \in {ChunkSize * j : j \in 0 .. (Len(bytes) - 1) \div ChunkSize}
        PROVE  k \in Nat /\ k <= Len(bytes)
    <3>1. PICK b : b = Len(bytes)
      OBVIOUS
    <3>2. b \in Nat /\ b >= 1
      <4>1. Len(bytes) \in Nat /\ Len(bytes) >= 6
        BY <2>2, WireIsSeq
      <4> QED
        BY <3>1, <4>1
    <3>3. k \in {ChunkSize * j : j \in 0 .. (b - 1) \div ChunkSize}
      BY <3>1
    <3>4. k \in Nat /\ k <= b
      BY <3>2, <3>3, ChunkEnds
    <3> QED
      BY <3>1, <3>4
  <2> QED
    BY <1>6, <2>6, <2>7, <2>8 DEF TxPhase, tx
<1> QED
  BY <1>5, <1>6 DEF WireInv

(* What Send puts in the transmit buffer are bytes.                        *)
LEMMA SendType ==
    ASSUME setup \in Setups, NEW request \in setup.requests,
           IsValid(Create(request.tag, request.data, request.length))
    PROVE  LET frame == Create(request.tag, request.data, request.length)
           IN  (IF frame.length = 0 THEN <<>> ELSE SubSeq(frame.data, 1, frame.length))
                 \in Seq(Byte)
<1> DEFINE frame == Create(request.tag, request.data, request.length)
<1>1. CASE frame.length = 0
  BY <1>1
<1>2. CASE frame.length # 0
  <2>1. frame.data = request.data /\ frame.length = request.length /\ frame.data # NoData
    BY <1>2 DEF Create, EmptyFrame, IsValid
  <2>2. /\ request.length \in Nat /\ request.data \in Seq(Byte)
        /\ request.length <= Len(request.data)
    BY <2>1, EngineAssumption
  <2>3. SubSeq(request.data, 1, request.length) \in Seq(Byte)
    BY <2>2
  <2> QED
    BY <1>2, <2>1, <2>3
<1> QED
  BY <1>1, <1>2

(* Every step keeps the wire.                                              *)
LEMMA WireNext == ParserInv /\ WireInv /\ [Next]_vars => WireInv'
<1> SUFFICES ASSUME ParserInv, WireInv, [Next]_vars PROVE WireInv'
  OBVIOUS
<1>1. ASSUME UNCHANGED <<tx, wire, setup>> PROVE WireInv'
  BY <1>1 DEF tx, WireInv, WireCarriesQueuedFrames
<1>2. CASE HostSends
  BY <1>1, <1>2 DEF HostSends, HostSend, out
<1>3. CASE Arrive \/ Tick \/ StreamIsEmpty \/ UNCHANGED vars
  BY <1>1, <1>3 DEF Arrive, Tick, StreamIsEmpty, vars, out
<1>4. CASE \E tag \in setup.tags : AddHandler(tag, "application")
  BY <1>1, <1>4 DEF AddHandler, out
<1>5. CASE \E request \in setup.requests : Send(request)
  <2>1. PICK request \in setup.requests : Send(request)
    BY <1>5
  <2> DEFINE frame == Create(request.tag, request.data, request.length)
             data == IF frame.length = 0 THEN <<>> ELSE SubSeq(frame.data, 1, frame.length)
  <2>2. QueueTx(frame.tag, data) /\ ~tx_data_ /\ IsValid(frame) /\ UNCHANGED <<wire, setup>>
    BY <2>1 DEF Send, out
  <2>3. data \in Seq(Byte)
    BY <2>2, SendType DEF WireInv
  <2> HIDE DEF data, frame
  <2> QED
    BY <2>2, <2>3, WireQueue
<1>6. CASE RunBegins \/ RunEnds
  BY <1>6, WireTx DEF RunBegins, RunEnds
<1>7. CASE RunByte
  <2> PICK raw \in Byte : /\ ReadRawByte(raw)
                          /\ \/ WaitingForSync(raw) \/ ReadingHeader(raw)
                             \/ ReadingData(raw) \/ ReadingChecksum(raw)
    BY <1>7 DEF RunByte
  <2>1. UNCHANGED <<wire, setup>>
    BY DEF ReadRawByte, out
  <2>2. UNCHANGED tx \/ (~tx_data_ /\ QueueTx(kLoopback, RxData))
    BY DEF WaitingForSync, ReadingHeader, ReadingData, ReadingChecksum, DispatchFrame,
           LoopbackImpl
  <2>3. RxData \in Seq(Byte)
    <3>1. /\ rx_data_length_ \in Nat /\ rx_data_length_ <= kMaxFrameDataLength
          /\ rx_buffer_ \in [0 .. kRxBufferSize - 1 -> Byte]
      BY Sizes DEF ParserInv
    <3>2. \A i \in 1 .. rx_data_length_ : rx_buffer_[kHeaderSize + i - 1] \in Byte
      BY <3>1, Sizes
    <3> QED
      BY <3>1, <3>2 DEF RxData
  <2> QED
    BY <1>1, <2>1, <2>2, <2>3, WireQueue
<1> QED
  BY <1>2, <1>3, <1>4, <1>5, <1>6, <1>7 DEF Next

(* Although writes fail, also in the middle of a frame, the frames that    *)
(* left the transmit buffer are on the wire, each in one piece and in the  *)
(* order they were queued (TxPhase, WriteFrameWire), for every size of     *)
(* frame and chunk and every number of failures.                           *)
THEOREM WireCarries == Spec => []WireCarriesQueuedFrames
<1>1. WireInv => WireCarriesQueuedFrames
  BY DEF WireInv
<1> QED
  BY <1>1, ParserInit, ParserNext, WireInit, WireNext, PTL DEF Spec

-----------------------------------------------------------------------------
(* On a line without damage, and without a frame timeout, the engine does  *)
(* what FrameQueue says.                                                   *)

Undamaged == setup.damage = {} /\ setup.frame_timeout = 0

(* Where the first i frames end.                                           *)
EndOf(i) == IF i = 0 THEN 0 ELSE sent[i].to

(* The line is the frames sent, without gaps.                              *)
SideBySide ==
    /\ \A i \in 1 .. Len(sent) :
           sent[i].whole /\ sent[i].from = EndOf(i - 1) /\ sent[i].tag \in AllTags
    /\ EndOf(Len(sent)) = Total

(* The parser is behind the frames it has taken, or inside the next one.   *)
TakesInOrder ==
    /\ Len(parsed) <= Len(sent)
    /\ state_ = "kWaitingForSync" => Len(heard) = EndOf(Len(parsed))
    /\ state_ # "kWaitingForSync" =>
           Len(parsed) < Len(sent) /\ Inside(sent[Len(parsed) + 1])

QueueInv == Undamaged => SideBySide /\ TakesInOrder

QueueSimulates == [Queue!Next]_(Queue!queueVars)

(* The initial state.                                                      *)
LEMMA QueueInit == Init => QueueInv
<1> SUFFICES ASSUME Init PROVE SideBySide /\ TakesInOrder
  BY DEF QueueInv
<1>1. /\ heard = <<>> /\ readahead_ = <<>> /\ fifo = <<>> /\ air = <<>> /\ sent = <<>>
      /\ parsed = <<>> /\ state_ = "kWaitingForSync"
  BY DEF Init
<1>2. Total = 0 /\ Len(sent) = 0 /\ Len(parsed) = 0 /\ Len(heard) = 0
  BY <1>1 DEF Total
<1> QED
  BY <1>1, <1>2 DEF SideBySide, TakesInOrder, EndOf

(* A byte that is read belongs to the frame that is next to be taken.      *)
LEMMA TakeStep ==
    ASSUME ParserInv, FrameInv, LineInv, SideBySide, TakesInOrder, RunByte
    PROVE  /\ SideBySide' /\ TakesInOrder'
           /\ \/ parsed' = parsed
              \/ /\ Len(parsed) < Len(sent)
                 /\ \E new : /\ parsed' = Append(parsed, new)
                             /\ new.tag = sent[Len(parsed) + 1].tag
                             /\ new.data = sent[Len(parsed) + 1].data
                             /\ new.handler = HandlerOf(new.tag)
<1> PICK raw \in Byte : /\ ReadRawByte(raw)
                        /\ \/ WaitingForSync(raw) \/ ReadingHeader(raw)
                           \/ ReadingData(raw) \/ ReadingChecksum(raw)
  BY DEF RunByte
<1>1. PICK S : sent \in Seq(S)
  BY DEF LineInv
<1>2. PICK P : parsed \in Seq(P)
  BY DEF FrameInv
<1>3. Len(sent) \in Nat /\ Len(parsed) \in Nat /\ Len(parsed) <= Len(sent) /\ LineType
  BY <1>1, <1>2 DEF LineInv, TakesInOrder
<1>4. PICK k \in Nat : k = Len(parsed)
  BY <1>3
<1>5. sent' = sent /\ Total' = Total /\ Len(heard) + 1 <= Total
      /\ raw = LineAt(Len(heard) + 1)
  BY <1>3, LineRead DEF ReadRawByte, host
<1>6. SideBySide'
  BY <1>5 DEF SideBySide, EndOf
<1>7. Len(heard) \in Nat /\ Len(heard') = Len(heard) + 1
  BY ByteIsHeard DEF ParserInv
<1>8. k < Len(sent)
  <2>1. CASE state_ = "kWaitingForSync"
    <3>1. k # Len(sent)
      BY <1>4, <1>5, <1>7, <2>1 DEF SideBySide, TakesInOrder
    <3> QED
      BY <1>3, <1>4, <3>1
  <2> QED
    BY <1>4, <2>1 DEF TakesInOrder
<1>9. PICK s : s = sent[k + 1]
  OBVIOUS
<1>10. k + 1 \in 1 .. Len(sent) /\ (k + 1) - 1 = k
  BY <1>3, <1>8
<1>11. OnLine(s) /\ s.whole /\ s.from = EndOf(k)
  BY <1>9, <1>10 DEF LineInv, SideBySide
<1>12. /\ s.from \in Nat /\ s.to = s.from + Len(s.data) + 6 /\ Len(s.data) \in Nat
       /\ s.data \in Seq(Byte)
  BY <1>11 DEF OnLine
<1>13. EndOf(k + 1) = s.to
  BY <1>9 DEF EndOf
<1>14. CASE state_ = "kWaitingForSync"
  <2>1. Len(heard) = s.from
    BY <1>4, <1>11, <1>14 DEF TakesInOrder
  <2>2. raw = kSyncByte
    <3>1. raw = LineAt(s.from + 1) /\ 1 \in 1 .. Len(s.data) + 6
      BY <1>5, <1>12, <2>1
    <3>2. LineAt(s.from + 1) = WireOf(s.tag, s.data)[1]
      BY <1>11, <3>1 DEF OnLine
    <3>3. WireOf(s.tag, s.data)[1] = kSyncByte
      BY <1>12, <3>1, WireBytes
    <3> QED
      BY <3>1, <3>2, <3>3
  <2>3. state_' = "kReadingHeader" /\ parsed' = parsed
    BY <1>14, <2>2 DEF WaitingForSync, ReadingHeader, ReadingData, ReadingChecksum
  <2>4. Begun' = s.from
    BY <1>14, <2>1, <2>3, BegunStays
  <2>5. Inside(s)'
    BY <1>11, <2>3, <2>4 DEF Inside
  <2>6. TakesInOrder'
    BY <1>3, <1>4, <1>5, <1>8, <1>9, <2>3, <2>5 DEF TakesInOrder, Inside
  <2> QED
    BY <1>6, <2>3, <2>6
<1>15. CASE state_ # "kWaitingForSync"
  <2>1. Inside(s)
    BY <1>4, <1>9, <1>15 DEF TakesInOrder
  <2>2. Len(heard) < s.to /\ (state_ = "kReadingChecksum" <=> Len(heard) + 1 = s.to)
    BY <1>11, <2>1, ReadsToTheEnd
  <2>3. CASE Len(heard) + 1 = s.to
    <3>1. PICK new : /\ parsed' = Append(parsed, new)
                     /\ new.at = s.to /\ new.tag = s.tag /\ new.data = s.data
      BY <1>3, <1>11, <2>1, <2>3, FrameIsTaken
    <3>2. ReadingChecksum(raw)
      BY <2>2, <2>3 DEF WaitingForSync, ReadingHeader, ReadingData
    <3>3. parsed' # parsed
      <4>1. parsed \in Seq(P \cup {new})
        BY <1>2, SeqMonotonic
      <4>2. Len(parsed') = Len(parsed) + 1
        BY <3>1, <4>1, AppendProperties
      <4> QED
        BY <1>3, <4>2
    <3>4. DispatchFrame /\ state_' = "kWaitingForSync"
      BY <3>2, <3>3 DEF ReadingChecksum, ResetParser
    <3> DEFINE made == [tag |-> rx_tag_, data |-> RxData, at |-> Len(heard'),
                        handler |-> HandlerOf(rx_tag_)]
    <3>5. parsed' = Append(parsed, made) /\ made.handler = HandlerOf(made.tag)
      BY <3>4 DEF DispatchFrame
    <3> HIDE DEF made
    <3>6. new = made /\ Len(parsed') = k + 1
      <4>1. parsed \in Seq(P \cup {new, made})
        BY <1>2, SeqMonotonic
      <4>2. /\ Append(parsed, new)[k + 1] = new /\ Append(parsed, made)[k + 1] = made
            /\ Len(Append(parsed, new)) = k + 1
        BY <1>4, <4>1, AppendProperties
      <4> QED
        BY <3>1, <3>5, <4>2
    <3>7. EndOf(k + 1)' = s.to
      BY <1>5, <1>13 DEF EndOf
    <3>8. TakesInOrder'
      BY <1>3, <1>5, <1>7, <1>8, <2>3, <3>4, <3>6, <3>7 DEF TakesInOrder
    <3> QED
      BY <1>4, <1>6, <1>8, <1>9, <3>1, <3>5, <3>6, <3>8
  <2>4. CASE Len(heard) + 1 < s.to
    <3>1. Inside(s)'
      BY <1>3, <1>11, <2>1, <2>4, FrameGoesOn
    <3>2. parsed' = parsed
      <4>1. ~ReadingChecksum(raw)
        BY <2>2, <2>4 DEF ReadingChecksum
      <4> QED
        BY <4>1 DEF WaitingForSync, ReadingHeader, ReadingData
    <3>3. state_' # "kWaitingForSync"
      BY <3>1 DEF Inside
    <3>4. TakesInOrder'
      BY <1>3, <1>4, <1>5, <1>8, <1>9, <3>1, <3>2, <3>3 DEF TakesInOrder, Inside
    <3> QED
      BY <1>6, <3>2, <3>4
  <2> QED
    BY <1>7, <1>12, <2>2, <2>3, <2>4
<1> QED
  BY <1>14, <1>15

(* A frame that is sent whole comes behind the others.                     *)
LEMMA SubmitStep ==
    ASSUME ParserInv, FrameInv, LineInv, SideBySide, TakesInOrder, Undamaged, HostSends
    PROVE  /\ SideBySide' /\ TakesInOrder'
           /\ \E frame \in AllFrames : \E new :
                  /\ sent' = Append(sent, new)
                  /\ new.tag = frame.tag /\ new.data = frame.data
                  /\ frame = [tag |-> frame.tag, data |-> frame.data]
<1>1. PICK S : sent \in Seq(S)
  BY DEF LineInv
<1>2. PICK P : parsed \in Seq(P)
  BY DEF FrameInv
<1>3. PICK frame \in setup.frames : HostSend(frame, WireOf(frame.tag, frame.data))
  <2>1. \A w : Damaged(w) = {}
    BY DEF Damaged, Undamaged
  <2> QED
    BY <2>1 DEF HostSends
<1>4. frame \in [tag : 0 .. ByteRange * ByteRange - 1, data : Seq(Byte)]
  BY EngineAssumption DEF LineInv
<1>5. frame = [tag |-> frame.tag, data |-> frame.data] /\ frame.data \in Seq(Byte)
  BY <1>4
<1> DEFINE w == WireOf(frame.tag, frame.data)
           new == [tag |-> frame.tag, data |-> frame.data,
                   from |-> OnTheLine, to |-> OnTheLine + Len(w), whole |-> w = w]
<1>6. sent' = Append(sent, new) /\ UNCHANGED <<heard, parsed, parser>>
  BY <1>3 DEF HostSend
<1>7. PICK total : total = Total
  OBVIOUS
<1>8. total \in Nat /\ OnTheLine = total /\ Total' = total + Len(w)
  <2>1. PICK B : w \in Seq(B)
    BY <1>5, WireIsSeq
  <2>2. LineType /\ HostSend(frame, w)
    BY <1>3 DEF LineInv
  <2> HIDE DEF w
  <2> QED
    BY <1>7, <2>1, <2>2, LineSend
<1>9. Len(w) \in Nat
  BY <1>5, WireIsSeq
<1>10. /\ new.tag = frame.tag /\ new.data = frame.data /\ new.whole
       /\ new.from = total /\ new.to = total + Len(w)
  BY <1>8
<1>11. UNCHANGED <<heard, state_, Stored>> /\ parsed' = parsed /\ sent' = Append(sent, new)
  BY <1>6 DEF parser, Stored
<1> HIDE DEF new, w
<1>12. PICK n \in Nat : n = Len(sent)
  BY <1>1
<1>13. Len(sent') = n + 1 /\ sent'[n + 1] = new /\ \A i \in 1 .. n : sent'[i] = sent[i]
  <2>1. sent \in Seq(S \cup {new})
    BY <1>1, SeqMonotonic
  <2> QED
    BY <1>11, <1>12, <2>1, AppendProperties
<1>14. \A i \in 0 .. n : EndOf(i)' = EndOf(i)
  BY <1>13 DEF EndOf
<1>15. EndOf(n) = total
  BY <1>7, <1>12 DEF SideBySide
<1>16. EndOf(n + 1)' = Total'
  BY <1>8, <1>10, <1>13 DEF EndOf
<1>17. frame \in AllFrames /\ new.tag \in AllTags
  BY <1>10 DEF LineInv, AllFrames, AllTags
<1>18. SideBySide'
  <2>1. ASSUME NEW i \in 1 .. n + 1
        PROVE  sent'[i].whole /\ sent'[i].from = EndOf(i - 1)' /\ sent'[i].tag \in AllTags
    <3>1. CASE i = n + 1
      <4>1. i - 1 = n /\ n \in 0 .. n
        BY <3>1
      <4> QED
        BY <1>10, <1>13, <1>14, <1>15, <1>17, <3>1, <4>1
    <3>2. CASE i \in 1 .. n
      <4>1. i - 1 \in 0 .. n
        BY <3>2
      <4>2. sent[i].whole /\ sent[i].from = EndOf(i - 1) /\ sent[i].tag \in AllTags
        BY <1>12, <3>2 DEF SideBySide
      <4> QED
        BY <1>13, <1>14, <3>2, <4>1, <4>2
    <3> QED
      BY <3>1, <3>2
  <2> QED
    BY <1>13, <1>16, <2>1 DEF SideBySide
<1>19. TakesInOrder'
  <2>1. PICK k \in Nat : k = Len(parsed)
    BY <1>2
  <2>2. k <= n /\ k \in 0 .. n
    BY <1>12, <2>1 DEF TakesInOrder
  <2>3. CASE state_ = "kWaitingForSync"
    BY <1>11, <1>13, <1>14, <2>1, <2>2, <2>3 DEF TakesInOrder
  <2>4. CASE state_ # "kWaitingForSync"
    <3>1. k < n /\ Inside(sent[k + 1])
      BY <1>12, <2>1, <2>4 DEF TakesInOrder
    <3>2. k + 1 \in 1 .. n /\ sent'[k + 1] = sent[k + 1]
      BY <1>13, <3>1
    <3>3. Begun' = Begun
      BY <1>11 DEF Begun
    <3> QED
      BY <1>11, <1>13, <2>1, <2>2, <2>4, <3>1, <3>2, <3>3 DEF TakesInOrder, Inside
  <2> QED
    BY <2>3, <2>4
<1> QED
  BY <1>5, <1>10, <1>11, <1>18, <1>19, <1>17

(* Every step keeps the frames side by side and the parser in order.       *)
LEMMA QueueNext ==
    ParserInv /\ FrameInv /\ LineInv /\ QueueInv /\ [Next]_vars => QueueInv'
<1> SUFFICES ASSUME ParserInv, FrameInv, LineInv, QueueInv, [Next]_vars, Undamaged'
             PROVE  SideBySide' /\ TakesInOrder'
  BY DEF QueueInv
<1>1. setup' = setup
  BY OtherSteps DEF RunByte, ReadRawByte
<1>2. Undamaged /\ SideBySide /\ TakesInOrder
  BY <1>1 DEF Undamaged, QueueInv
<1>3. CASE RunByte
  BY <1>2, <1>3, TakeStep
<1>4. CASE HostSends
  BY <1>2, <1>4, SubmitStep
<1>5. CASE ~RunByte /\ ~HostSends
  <2>1. UNCHANGED <<heard, parsed>> /\ UNCHANGED parser
    BY <1>2, <1>5, OtherSteps DEF TimedOut, Undamaged
  <2>2. sent' = sent /\ Total' = Total
    BY <1>5, LineKept DEF LineInv
  <2>3. UNCHANGED <<state_, Begun>>
    BY <2>1 DEF parser, Begun, Stored
  <2> QED
    BY <1>2, <2>1, <2>2, <2>3 DEF SideBySide, TakesInOrder, EndOf, Inside
<1> QED
  BY <1>3, <1>4, <1>5

(* The handlers of FrameQueue are those of the handler table.              *)
Handlers == [tag \in AllTags |-> HandlerOf(tag)]

(* The frames of FrameQueue, without their places on the line.             *)
SentFrames == [i \in 1 .. Len(sent) |-> [tag |-> sent[i].tag, data |-> sent[i].data]]

TakenFrames == [i \in 1 .. Len(parsed) |->
                  [frame |-> [tag |-> parsed[i].tag, data |-> parsed[i].data],
                   handler |-> parsed[i].handler]]

(* g has the n elements of f and one more.                                 *)
Grown(g, f, n) ==
    /\ f = [i \in 1 .. n |-> f[i]]
    /\ g = [i \in 1 .. n + 1 |-> g[i]]
    /\ \A i \in 1 .. n : g[i] = f[i]

(* It is f with that element appended.                                     *)
LEMMA GrownByOne ==
    ASSUME NEW n \in Nat, NEW f, NEW g, Grown(g, f, n)
    PROVE  g = Append(f, g[n + 1])
<1> USE DEF Grown
<1>1. PICK e : e = g[n + 1]
  OBVIOUS
<1>2. f \in Seq({f[i] : i \in 1 .. n}) /\ Len(f) = n
  OBVIOUS
<1>3. Append(f, e) = [i \in 1 .. n + 1 |-> IF i = n + 1 THEN e ELSE f[i]]
  BY <1>2
<1>4. \A i \in 1 .. n + 1 : i = n + 1 \/ i \in 1 .. n
  OBVIOUS
<1> QED
  BY <1>1, <1>3, <1>4

(* What the first entry of a tag says, and that a tag has one entry only.  *)
Lookup(h, u) ==
    LET known == {i \in 1 .. Len(h) : h[i].tag = u}
    IN  IF known = {} THEN NoHandler ELSE h[Min(known)].handler

Absent(h, u) == \A i \in 1 .. Len(h) : h[i].tag # u

Distinct(h) == \A i, j \in 1 .. Len(h) : h[i].tag = h[j].tag => i = j

(* The entry of a tag is found.                                            *)
LEMMA LookupIs ==
    ASSUME NEW h, Len(h) \in Nat, Distinct(h), NEW i \in 1 .. Len(h)
    PROVE  Lookup(h, h[i].tag) = h[i].handler
<1> DEFINE known == {j \in 1 .. Len(h) : h[j].tag = h[i].tag}
<1>1. known = {i}
  BY DEF Distinct
<1>2. i \in Nat
  OBVIOUS
<1>3. Min({i}) = i
  BY <1>2 DEF Min
<1> HIDE DEF known
<1>4. known # {} /\ h[Min(known)].handler = h[i].handler
  BY <1>1, <1>3
<1> QED
  BY <1>4 DEF Lookup, known

(* A tag without an entry has no handler.                                  *)
LEMMA LookupNone ==
    ASSUME NEW h, NEW u, Absent(h, u)
    PROVE  Lookup(h, u) = NoHandler
BY DEF Lookup, Absent

(* A tag that is registered gets its handler, the others keep theirs.      *)
LEMMA LookupAdded ==
    ASSUME NEW H, NEW h \in Seq(H), Distinct(h), NEW e, Absent(h, e.tag), NEW u
    PROVE  LET g == Append(h, e)
           IN  /\ Distinct(g)
               /\ u = e.tag => Lookup(g, u) = e.handler
               /\ u # e.tag => Lookup(g, u) = Lookup(h, u)
<1> DEFINE g == Append(h, e)
<1>1. PICK n \in Nat : n = Len(h)
  OBVIOUS
<1>2. Len(g) = n + 1 /\ g[n + 1] = e /\ \A i \in 1 .. n : g[i] = h[i]
  <2>1. h \in Seq(H \cup {e})
    BY SeqMonotonic
  <2> QED
    BY <1>1, <2>1, AppendProperties
<1> HIDE DEF g
<1>3. \A i \in 1 .. n + 1 : i = n + 1 \/ i \in 1 .. n
  OBVIOUS
<1>4. Distinct(g)
  BY <1>1, <1>2, <1>3 DEF Distinct, Absent
<1>5. Lookup(g, u) = IF u = e.tag THEN e.handler ELSE Lookup(h, u)
  <2>1. CASE u = e.tag
    <3>1. n + 1 \in 1 .. Len(g) /\ g[n + 1].tag = u /\ Len(g) \in Nat
      BY <1>2, <2>1
    <3> QED
      BY <1>2, <1>4, <2>1, <3>1, LookupIs
  <2>2. CASE u # e.tag /\ \E i \in 1 .. n : h[i].tag = u
    <3>1. PICK i \in 1 .. n : h[i].tag = u
      BY <2>2
    <3>2. i \in 1 .. Len(g) /\ g[i] = h[i] /\ Len(g) \in Nat
      BY <1>2
    <3>3. Lookup(g, u) = h[i].handler
      BY <1>4, <3>1, <3>2, LookupIs
    <3>4. Lookup(h, u) = h[i].handler
      BY <1>1, <3>1, LookupIs
    <3> QED
      BY <2>2, <3>3, <3>4
  <2>3. CASE u # e.tag /\ ~\E i \in 1 .. n : h[i].tag = u
    <3>1. Absent(g, u)
      BY <1>2, <1>3, <2>3 DEF Absent
    <3>2. Absent(h, u)
      BY <1>1, <2>3 DEF Absent
    <3> QED
      BY <2>3, <3>1, <3>2, LookupNone
  <2> QED
    BY <2>1, <2>2, <2>3
<1> QED
  BY <1>4, <1>5 DEF g

(* No tag is registered twice.                                             *)
TableInv == (\E H : handlers_ \in Seq(H)) /\ Distinct(handlers_)

(* What a step does to the handler table.                                  *)
LEMMA TableStep ==
    ASSUME TableInv, [Next]_vars
    PROVE  /\ TableInv'
           /\ \/ handlers_' = handlers_
              \/ \E tag \in setup.tags :
                     /\ UNCHANGED <<sent, parsed>>
                     /\ HandlerOf(tag) = NoHandler
                     /\ \A u : HandlerOf(u)' = IF u = tag THEN "application"
                                                          ELSE HandlerOf(u)
<1>1. CASE \E tag \in setup.tags : AddHandler(tag, "application")
  <2>1. PICK tag \in setup.tags : AddHandler(tag, "application")
    BY <1>1
  <2>2. PICK H : handlers_ \in Seq(H)
    BY DEF TableInv
  <2> DEFINE e == [tag |-> tag, handler |-> "application"]
  <2>3. /\ handlers_' = Append(handlers_, e) /\ e.tag = tag /\ e.handler = "application"
        /\ Absent(handlers_, tag) /\ UNCHANGED <<sent, parsed>>
    BY <2>1 DEF AddHandler, host, Absent
  <2> HIDE DEF e
  <2>4. PICK g : g = handlers_'
    OBVIOUS
  <2>5. /\ Distinct(g)
        /\ \A u : Lookup(g, u) = IF u = tag THEN "application" ELSE Lookup(handlers_, u)
    <3>1. PICK h \in Seq(H), a \in {e} : h = handlers_
      BY <2>2
    <3>2. Distinct(h) /\ Absent(h, a.tag) /\ g = Append(h, a) /\ a.tag = tag
          /\ a.handler = "application"
      BY <2>3, <2>4, <3>1 DEF TableInv
    <3>3. /\ Distinct(g)
          /\ \A u : Lookup(g, u) = IF u = tag THEN a.handler ELSE Lookup(h, u)
      <4> HIDE DEF TableInv
      <4>1. h \in Seq(H)
        BY <3>1
      <4>2. Distinct(g)
        BY <3>2, <4>1, LookupAdded
      <4>3. ASSUME NEW u PROVE Lookup(g, u) = IF u = tag THEN a.handler ELSE Lookup(h, u)
        BY <3>2, <4>1, LookupAdded
      <4> QED
        BY <4>2, <4>3
    <3> QED
      BY <3>1, <3>2, <3>3
  <2>6. g \in Seq(H \cup {e})
    <3>1. handlers_ \in Seq(H \cup {e})
      BY <2>2, SeqMonotonic
    <3> QED
      BY <2>3, <2>4, <3>1, AppendProperties
  <2>7. TableInv'
    BY <2>4, <2>5, <2>6 DEF TableInv, Distinct
  <2>8. \A u : HandlerOf(u) = Lookup(handlers_, u) /\ HandlerOf(u)' = Lookup(g, u)
    BY <2>4 DEF HandlerOf, Lookup
  <2>9. HandlerOf(tag) = NoHandler
    BY <2>3, <2>8, LookupNone
  <2> QED
    BY <2>3, <2>5, <2>7, <2>8, <2>9
<1>2. ASSUME handlers_' = handlers_
      PROVE  TableInv'
  BY <1>2 DEF TableInv, Distinct
<1>3. CASE HostSends \/ Arrive \/ Tick \/ UNCHANGED vars
  BY <1>2, <1>3 DEF HostSends, HostSend, Arrive, Tick, vars
<1>4. CASE \E request \in setup.requests : Send(request)
  BY <1>2, <1>4 DEF Send
<1>5. CASE RunBegins \/ RunByte \/ StreamIsEmpty \/ RunEnds
  BY <1>2, <1>5 DEF RunBegins, RunByte, ReadRawByte, StreamIsEmpty, RunEnds
<1> QED
  BY <1>1, <1>3, <1>4, <1>5 DEF Next

(* Every step is one of FrameQueue.                                        *)
LEMMA QueueStep ==
    ASSUME ParserInv, FrameInv, LineInv, TableInv, SideBySide, TakesInOrder, Undamaged,
           [Next]_vars
    PROVE  QueueSimulates
<1>1. PICK S : sent \in Seq(S)
  BY DEF LineInv
<1>2. PICK P : parsed \in Seq(P)
  BY DEF FrameInv
<1>3. PICK n \in Nat, k \in Nat : n = Len(sent) /\ k = Len(parsed)
  BY <1>1, <1>2
<1>4. ASSUME sent' = sent, parsed' = parsed, handlers_' = handlers_ PROVE QueueSimulates
  <2>1. UNCHANGED Queue!queueVars
    BY <1>4 DEF Queue!queueVars, HandlerOf
  <2> QED
    BY <2>1 DEF QueueSimulates
<1>5. CASE RunByte
  <2>1. sent' = sent /\ handlers_' = handlers_
    BY <1>5 DEF RunByte, ReadRawByte, host
  <2>2. CASE parsed' = parsed
    BY <1>4, <2>1, <2>2
  <2>3. CASE parsed' # parsed
    <3>1. k < n
      BY <1>3, <1>5, <2>3, TakeStep
    <3>2. PICK new : /\ parsed' = Append(parsed, new)
                     /\ new.tag = sent[k + 1].tag
                     /\ new.data = sent[k + 1].data
                     /\ new.handler = HandlerOf(new.tag)
      BY <1>3, <1>5, <2>3, TakeStep
    <3>3. /\ Len(parsed') = k + 1 /\ parsed'[k + 1] = new
          /\ \A i \in 1 .. k : parsed'[i] = parsed[i]
      <4>1. parsed \in Seq(P \cup {new})
        BY <1>2, SeqMonotonic
      <4> QED
        BY <1>3, <3>2, <4>1, AppendProperties
    <3> DEFINE item == [frame |-> [tag |-> new.tag, data |-> new.data],
                        handler |-> new.handler]
    <3>4. TakenFrames' = Append(TakenFrames, item)
      <4>1. PICK f : f = TakenFrames
        OBVIOUS
      <4>2. PICK g : g = TakenFrames'
        OBVIOUS
      <4>3. Grown(g, f, k) /\ g[k + 1] = item
        BY <1>3, <3>3, <4>1, <4>2 DEF TakenFrames, Grown
      <4> HIDE DEF item
      <4> QED
        BY <4>1, <4>2, <4>3, GrownByOne
    <3>5. k + 1 \in 1 .. n /\ Len(TakenFrames) = k /\ Len(SentFrames) = n
      BY <1>3, <3>1 DEF TakenFrames, SentFrames
    <3>6. SentFrames[k + 1] = [tag |-> new.tag, data |-> new.data]
      BY <1>3, <3>2, <3>5 DEF SentFrames
    <3>7. Handlers[new.tag] = new.handler
      BY <1>3, <3>2, <3>5 DEF SideBySide, Handlers
    <3>8. Queue!Take
      <4>1. Len(TakenFrames) < Len(SentFrames)
        BY <3>1, <3>5
      <4>2. TakenFrames' = Append(TakenFrames,
                                  [frame |-> SentFrames[Len(TakenFrames) + 1],
                                   handler |-> Handlers[SentFrames[Len(TakenFrames) + 1].tag]])
        BY <3>4, <3>5, <3>6, <3>7
      <4>3. UNCHANGED <<SentFrames, Handlers>>
        BY <2>1 DEF SentFrames, Handlers, HandlerOf
      <4> QED
        BY <4>1, <4>2, <4>3 DEF Queue!Take, TakenFrames, SentFrames, Handlers
    <3> QED
      BY <3>8 DEF QueueSimulates, Queue!Next
  <2> QED
    BY <2>2, <2>3
<1>6. CASE HostSends
  <2>1. parsed' = parsed /\ handlers_' = handlers_
    BY <1>6 DEF HostSends, HostSend
  <2>2. PICK frame \in AllFrames, new \in {sent'[n + 1]} :
          /\ sent' = Append(sent, new)
          /\ new.tag = frame.tag /\ new.data = frame.data
          /\ frame = [tag |-> frame.tag, data |-> frame.data]
    <3>1. PICK frame \in AllFrames : \E new :
            /\ sent' = Append(sent, new)
            /\ new.tag = frame.tag /\ new.data = frame.data
            /\ frame = [tag |-> frame.tag, data |-> frame.data]
      BY <1>6, SubmitStep
    <3>2. PICK new :
            /\ sent' = Append(sent, new)
            /\ new.tag = frame.tag /\ new.data = frame.data
            /\ frame = [tag |-> frame.tag, data |-> frame.data]
      BY <3>1
    <3>3. sent'[n + 1] = new
      <4>1. sent \in Seq(S \cup {new})
        BY <1>1, SeqMonotonic
      <4> QED
        BY <1>3, <3>2, <4>1, AppendProperties
    <3> QED
      BY <3>2, <3>3
  <2>3. Len(sent') = n + 1 /\ sent'[n + 1] = new /\ \A i \in 1 .. n : sent'[i] = sent[i]
    <3>1. sent \in Seq(S \cup {new})
      BY <1>1, SeqMonotonic
    <3> QED
      BY <1>3, <2>2, <3>1, AppendProperties
  <2>4. SentFrames' = Append(SentFrames, frame)
    <3>1. PICK f : f = SentFrames
      OBVIOUS
    <3>2. PICK g : g = SentFrames'
      OBVIOUS
    <3>3. Grown(g, f, n) /\ g[n + 1] = frame
      BY <1>3, <2>2, <2>3, <3>1, <3>2 DEF SentFrames, Grown
    <3> QED
      BY <3>1, <3>2, <3>3, GrownByOne
  <2>5. UNCHANGED <<TakenFrames, Handlers>>
    BY <2>1 DEF TakenFrames, Handlers, HandlerOf
  <2>6. Queue!Submit
    BY <2>4, <2>5 DEF Queue!Submit, TakenFrames, SentFrames, Handlers
  <2> QED
    BY <2>6 DEF QueueSimulates, Queue!Next
<1>7. CASE ~RunByte /\ ~HostSends
  <2>1. parsed' = parsed /\ sent' = sent
    BY <1>7, OtherSteps, LineKept DEF LineInv
  <2>2. CASE handlers_' = handlers_
    BY <1>4, <2>1, <2>2
  <2>3. CASE handlers_' # handlers_
    <3>1. PICK tag \in setup.tags :
            /\ HandlerOf(tag) = NoHandler
            /\ \A u : HandlerOf(u)' = IF u = tag THEN "application" ELSE HandlerOf(u)
      BY <2>3, TableStep
    <3>2. tag \in AllTags
      BY DEF LineInv, AllTags
    <3>3. Handlers[tag] = NoHandler /\ Handlers' = [Handlers EXCEPT ![tag] = "application"]
      BY <3>1, <3>2 DEF Handlers
    <3>4. UNCHANGED <<SentFrames, TakenFrames>>
      BY <2>1 DEF SentFrames, TakenFrames
    <3>5. Queue!Register
      BY <3>2, <3>3, <3>4 DEF Queue!Register, TakenFrames, SentFrames, Handlers
    <3> QED
      BY <3>5 DEF QueueSimulates, Queue!Next
  <2> QED
    BY <2>2, <2>3
<1> QED
  BY <1>5, <1>6, <1>7

(* On a line without damage and without a frame timeout every frame sent   *)
(* is taken exactly once and in order, and goes to the handler its tag has *)
(* at that moment: every step of the engine is a step of FrameQueue or     *)
(* changes nothing there.                                                  *)
THEOREM EngineIsQueue == Spec /\ Undamaged => Queue!Safety
<1>1. Init => Queue!Init /\ TableInv
  <2> SUFFICES ASSUME Init PROVE Queue!Init /\ TableInv
    OBVIOUS
  <2> DEFINE e == [tag |-> kLoopback, handler |-> "LoopbackImpl"]
  <2>1. sent = <<>> /\ parsed = <<>> /\ handlers_ = <<e>>
    BY DEF Init
  <2>2. e.tag = kLoopback /\ e.handler = "LoopbackImpl"
    OBVIOUS
  <2> HIDE DEF e
  <2>3. Len(handlers_) = 1 /\ handlers_[1] = e /\ handlers_ \in Seq({e})
    BY <2>1
  <2>4. Distinct(handlers_)
    BY <2>3 DEF Distinct
  <2>5. \A u : HandlerOf(u) = Lookup(handlers_, u)
    BY DEF HandlerOf, Lookup
  <2>6. HandlerOf(kLoopback) = "LoopbackImpl"
    <3>1. 1 \in 1 .. Len(handlers_) /\ Len(handlers_) \in Nat
      BY <2>3
    <3> QED
      BY <2>2, <2>3, <2>4, <2>5, <3>1, LookupIs
  <2>7. \A u : u # kLoopback => HandlerOf(u) = NoHandler
    BY <2>2, <2>3, <2>5, LookupNone DEF Absent
  <2>8. SentFrames = <<>> /\ TakenFrames = <<>>
    <3>1. Len(sent) = 0 /\ Len(parsed) = 0
      BY <2>1
    <3> QED
      BY <3>1 DEF SentFrames, TakenFrames
  <2>9. Handlers = [tag \in AllTags |-> IF tag = kLoopback THEN "LoopbackImpl"
                                                          ELSE NoHandler]
    BY <2>6, <2>7 DEF Handlers
  <2> QED
    BY <2>3, <2>4, <2>8, <2>9 DEF Queue!Init, TableInv, SentFrames, TakenFrames, Handlers
<1>2. TableInv /\ [Next]_vars => TableInv'
  BY TableStep
<1>3. Undamaged /\ [Next]_vars => Undamaged'
  <2>1. [Next]_vars => setup' = setup
    BY OtherSteps DEF RunByte, ReadRawByte
  <2> QED
    BY <2>1 DEF Undamaged
<1>4. ParserInv /\ FrameInv /\ LineInv /\ TableInv /\ QueueInv /\ Undamaged /\ [Next]_vars
        => [Queue!Next]_(Queue!queueVars)
  BY QueueStep DEF QueueSimulates, QueueInv
<1> QED
  BY <1>1, <1>2, <1>3, <1>4, QueueInit, QueueNext, LineInit, LineNext, ParserInit, ParserNext,
     FrameInit, FrameNext, PTL DEF Spec, Queue!Safety
=============================================================================
