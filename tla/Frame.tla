------------------------------- MODULE Frame -------------------------------
(***************************************************************************)
(* The frame of the TLV protocol (protocol/include/frame.hpp and the first *)
(* part of protocol/src/protocol.cpp) and its form on the wire:            *)
(*                                                                         *)
(*   sync, tag (2 bytes, low first), length (2, low first), data, checksum *)
(*                                                                         *)
(* The width of a byte is a parameter, so that TLC can enumerate streams   *)
(* in which every field takes the value of the sync byte.                  *)
(***************************************************************************)
EXTENDS Integers, Sequences, FiniteSetsExt, SequencesExt

CONSTANTS
    ByteBits,               \* bits of a byte, 8 in the code
    kSyncByte,              \* 0xAA
    kMaxFrameDataLength,    \* 256
    NoData                  \* a null data pointer

kHeaderSize == 4

kChecksumSize == 1

kRxBufferSize == kHeaderSize + kMaxFrameDataLength

ByteRange == 2 ^ ByteBits

Byte == 0 .. ByteRange - 1

ASSUME FrameAssumption ==
    /\ ByteBits \in Nat \ {0}
    /\ ByteRange \in Nat    \* a power of two; the provers know nothing of ^
    /\ kSyncByte \in Byte
    /\ kMaxFrameDataLength \in 0 .. ByteRange * ByteRange - 1
    /\ NoData \notin Seq(Byte)

\* Tag::kLoopback, the tag of a value-initialised frame too
kLoopback == 0

Bit(n, i) == (n \div 2 ^ i) % 2

Xor == [a \in Byte, b \in Byte |->
            MapThenSumSet(LAMBDA i : IF Bit(a, i) = Bit(b, i) THEN 0 ELSE 2 ^ i,
                          0 .. ByteBits - 1)]

\* XOR of the header and the data
ComputeChecksum(header, data) ==
    FoldLeft(LAMBDA cs, byte : Xor[cs, byte], 0, header \o data)

Header(tag, length) ==
    <<tag % ByteRange, tag \div ByteRange, length % ByteRange, length \div ByteRange>>

\* Frame::ParseHeader
ParseHeader(wire_data) ==
    [tag    |-> wire_data[1] + ByteRange * wire_data[2],
     length |-> wire_data[3] + ByteRange * wire_data[4]]

\* The bytes WriteFrameWire emits
WireOf(tag, data) ==
    LET header == Header(tag, Len(data))
    IN  <<kSyncByte>> \o header \o data \o <<ComputeChecksum(header, data)>>

WireLength(length) == 1 + kHeaderSize + length + kChecksumSize

EmptyFrame == [tag |-> kLoopback, data |-> NoData, length |-> 0]

\* Frame::Create: unusable arguments give a value-initialised frame
Create(tag, data, length) ==
    IF length > kMaxFrameDataLength \/ (length > 0 /\ data = NoData)
    THEN EmptyFrame
    ELSE [tag |-> tag, data |-> data, length |-> length]

\* Frame::IsValid
IsValid(frame) == frame.length = 0 \/ frame.data # NoData
=============================================================================
