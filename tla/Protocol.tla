------------------------------ MODULE Protocol ------------------------------
(***************************************************************************)
(* The protocol engine (protocol/src/protocol.cpp) between a byte stream   *)
(* and its handlers, driven by a task that calls Run either periodically   *)
(* (protocol/readme.md) or only when received bytes were signalled         *)
(* (HwTask::Loop of the firmware).                                         *)
(*                                                                         *)
(* Run is one action for its head (first TxPhase, frame timeout), one per  *)
(* byte of its loop, one for the read that finds no byte and one for its   *)
(* tail (second TxPhase); bytes arrive and time passes in between.  The    *)
(* peer puts frames on the line, whole or damaged: a byte changed, a byte  *)
(* lost, or the rest of the frame cut off.  Both stream callbacks are      *)
(* there, as CommandManager::Configure installs them.                      *)
(*                                                                         *)
(* sent, heard, parsed and queued are histories, for the properties only.  *)
(***************************************************************************)
EXTENDS Frame, FiniteSets

CONSTANTS
    kMaxHandlers,           \* 15
    ReadAheadSize,          \* sizeof(readahead_), 16
    ChunkSize,              \* k_chunk_size, 64
    TimestampRange,         \* timestamps are modulo this, 2^32 in the code
    AirTime,                \* most time a frame takes to arrive
    RunLatency,             \* most time until Run has read what arrived, and
                            \* until a periodic Run has returned after the last
    MaxDamaged, MaxQueued, MaxTicks,    \* bounds
    Setups
    \* Setups is a set of configurations of the engine and of what is around it:
    \*   frame_timeout  of ProtocolConfig; 0 without one or without timestamps
    \*   periodic       Run is called periodically, not only on an event
    \*   frames         [tag, data] the peer sends
    \*   pause          least time between two frames of the peer
    \*   damage         subset of {"changed", "lost", "cut"}
    \*   tags           tags the application registers
    \*   requests       [tag, data, length] the application sends
    \*   max_sent, max_write_errors      bounds

NoHandler == "none"

ASSUME EngineAssumption ==
    /\ kMaxHandlers \in Nat \ {0}
    /\ ReadAheadSize \in Nat \ {0}
    /\ ChunkSize \in Nat \ {0}
    /\ TimestampRange \in Nat \ {0}
    /\ AirTime \in Nat \ {0}      \* bytes take time on the line
    /\ RunLatency \in Nat
    /\ \A c \in Setups :
         /\ c.frame_timeout \in Nat /\ c.pause \in Nat
         /\ \A f \in c.frames :
              /\ f \in [tag : 0 .. ByteRange * ByteRange - 1, data : Seq(Byte)]
              /\ Len(f.data) <= kMaxFrameDataLength
         /\ \A r \in c.requests :     \* data points to length bytes, or nowhere
              /\ r.length \in Nat
              /\ r.data # NoData => r.data \in Seq(Byte) /\ r.length <= Len(r.data)

VARIABLES
    setup,                  \* the member of Setups that applies, never changed
    handlers_,              \* the handler table: [tag, handler]
    readahead_,             \* readahead_[readahead_idx_ .. readahead_cnt_)
    state_, frame_start_ts_, rx_buffer_, rx_index_, rx_data_length_, rx_tag_,
    tx_data_,               \* whether a frame is pending
    tx_tag_, tx_data_buffer_,   \* its tag and its tx_length_ bytes
    pc,                     \* "wait" between two Runs, "rx" in Run's loop, "tx" after it
    rx_event,               \* kCommandRxEventMask is set
    air, fifo,              \* bytes on their way, bytes received and not read
    wire,                   \* bytes written to the stream
    now, since_send, late,  \* clock, age of the last frame, time Run has been due
    damaged, write_errors, ticks,   \* how much of the bounds is used
    sent,                   \* [tag, data, from, to, whole] the peer sent
    heard,                  \* every byte Run has read
    parsed,                 \* [tag, data, at, handler] frames with a good checksum
    queued                  \* [request, frame] put in the transmit buffer

parser == <<state_, frame_start_ts_, rx_buffer_, rx_index_, rx_data_length_, rx_tag_>>
tx     == <<tx_data_, tx_tag_, tx_data_buffer_, queued>>
out    == <<wire, write_errors>>
host   == <<air, since_send, damaged, sent>>
clock  == <<now, late, ticks>>
vars   == <<setup, handlers_, readahead_, parser, tx, pc, rx_event, fifo, out, host,
            clock, heard, parsed>>

States == {"kWaitingForSync", "kReadingHeader", "kReadingData", "kReadingChecksum"}

RxData == [i \in 1 .. rx_data_length_ |-> rx_buffer_[kHeaderSize + i - 1]]

RxHeader == [i \in 1 .. kHeaderSize |-> rx_buffer_[i - 1]]

Init ==
    /\ setup \in Setups
    /\ handlers_ = <<[tag |-> kLoopback, handler |-> "LoopbackImpl"]>>
    /\ readahead_ = <<>>
    /\ state_ = "kWaitingForSync"
    /\ frame_start_ts_ = 0
    /\ rx_buffer_ = [i \in 0 .. kRxBufferSize - 1 |-> 0]
    /\ rx_index_ = 0 /\ rx_data_length_ = 0 /\ rx_tag_ = 0
    /\ tx_data_ = FALSE /\ tx_tag_ = 0 /\ tx_data_buffer_ = <<>>
    /\ pc = "wait"
    /\ rx_event = FALSE
    /\ air = <<>> /\ fifo = <<>> /\ wire = <<>>
    /\ now = TimestampRange - 1
    /\ since_send = setup.pause
    /\ late = 0
    /\ damaged = 0 /\ write_errors = 0 /\ ticks = 0
    /\ sent = <<>> /\ heard = <<>> /\ parsed = <<>> /\ queued = <<>>
-----------------------------------------------------------------------------
(* The line *)

\* What may be left of the bytes of a frame
Damaged(bytes) ==
    LET n == Len(bytes)
    IN  (IF "changed" \in setup.damage
         THEN {[bytes EXCEPT ![i] = b] : i \in 1 .. n, b \in Byte} \ {bytes}
         ELSE {})
        \cup (IF "lost" \in setup.damage THEN {RemoveAt(bytes, i) : i \in 1 .. n} ELSE {})
        \cup (IF "cut" \in setup.damage THEN {SubSeq(bytes, 1, i) : i \in 1 .. n - 1} ELSE {})

OnTheLine == Len(heard) + Len(readahead_) + Len(fifo)

HostSend(frame, bytes) ==
    /\ Len(sent) < setup.max_sent
    /\ air = <<>>
    /\ since_send >= setup.pause
    /\ air' = bytes
    /\ since_send' = 0
    /\ damaged' = IF bytes = WireOf(frame.tag, frame.data) THEN damaged ELSE damaged + 1
    /\ sent' = Append(sent, [tag |-> frame.tag, data |-> frame.data,
                             from |-> OnTheLine, to |-> OnTheLine + Len(bytes),
                             whole |-> bytes = WireOf(frame.tag, frame.data)])
    /\ UNCHANGED <<setup, handlers_, readahead_, parser, tx, pc, rx_event, fifo, out, clock,
                   heard, parsed>>

HostSends == \E frame \in setup.frames :
    \/ HostSend(frame, WireOf(frame.tag, frame.data))
    \/ /\ damaged < MaxDamaged
       /\ \E bytes \in Damaged(WireOf(frame.tag, frame.data)) : HostSend(frame, bytes)

\* The receive interrupt stores a byte and posts the event of the command port
Arrive ==
    /\ air # <<>>
    /\ fifo' = Append(fifo, Head(air))
    /\ air' = Tail(air)
    /\ rx_event' = TRUE
    /\ UNCHANGED <<setup, handlers_, readahead_, parser, tx, pc, out, since_send, damaged,
                   sent, clock, heard, parsed>>

\* The task has to run, because of bytes, in Run, or once in every period
RunIsDue == fifo # <<>> \/ readahead_ # <<>> \/ pc # "wait" \/ setup.periodic

Tick ==
    /\ setup.frame_timeout > 0     \* the only use of the timestamps
    /\ ticks < MaxTicks
    /\ air # <<>> => since_send < AirTime
    /\ RunIsDue => late < RunLatency
    /\ now' = (now + 1) % TimestampRange
    /\ ticks' = ticks + 1
    /\ since_send' = Min({since_send + 1, setup.pause + AirTime})
    /\ late' = IF RunIsDue THEN late + 1 ELSE 0
    /\ UNCHANGED <<setup, handlers_, readahead_, parser, tx, pc, rx_event, air, fifo, out,
                   damaged, sent, heard, parsed>>
-----------------------------------------------------------------------------
(* Calls between two Runs *)

\* A registration that is refused changes nothing
AddHandler(tag, handler) ==
    /\ pc = "wait"
    /\ handler # NoHandler
    /\ Len(handlers_) < kMaxHandlers
    /\ \A i \in 1 .. Len(handlers_) : handlers_[i].tag # tag
    /\ handlers_' = Append(handlers_, [tag |-> tag, handler |-> handler])
    /\ UNCHANGED <<setup, readahead_, parser, tx, pc, rx_event, fifo, out, host, clock, heard,
                   parsed>>

\* The transmit buffer takes one frame at a time
QueueTx(tag, data) ==
    /\ tx_data_' = TRUE
    /\ tx_tag_' = tag
    /\ tx_data_buffer_' = data
    /\ queued' = Append(queued, [tag |-> tag, data |-> data])

Send(request) ==
    LET frame == Create(request.tag, request.data, request.length)
    IN  /\ pc = "wait"
        /\ Len(queued) < MaxQueued
        /\ IsValid(frame)
        /\ ~tx_data_
        /\ QueueTx(frame.tag, IF frame.length = 0 THEN <<>>
                              ELSE SubSeq(frame.data, 1, frame.length))
        /\ UNCHANGED <<setup, handlers_, readahead_, parser, pc, rx_event, fifo, out, host,
                       clock, heard, parsed>>
-----------------------------------------------------------------------------
(* Run *)

\* As TxPhase, but a frame is forgotten when its write fails
TxPhaseForgets ==
    IF tx_data_
    THEN /\ tx_data_' = FALSE
         /\ \/ wire' = wire \o WireOf(tx_tag_, tx_data_buffer_) /\ UNCHANGED write_errors
            \/ /\ write_errors < setup.max_write_errors
               /\ write_errors' = write_errors + 1
               /\ UNCHANGED wire
         /\ UNCHANGED <<tx_tag_, tx_data_buffer_, queued>>
    ELSE UNCHANGED <<tx, out>>

\* As TxPhase, but a frame whose write failed is not tried again
TxPhaseGivesUp ==
    \/ /\ ~tx_data_ \/ write_errors > 0
       /\ UNCHANGED <<tx, out>>
    \/ /\ tx_data_ /\ write_errors = 0
       /\ wire' = wire \o WireOf(tx_tag_, tx_data_buffer_)
       /\ tx_data_' = FALSE
       /\ UNCHANGED <<tx_tag_, tx_data_buffer_, queued, write_errors>>
    \/ /\ tx_data_ /\ write_errors < setup.max_write_errors
       /\ write_errors' = write_errors + 1
       /\ UNCHANGED <<tx, wire>>

\* WriteFrameWire flushes the frame chunk by chunk and stops at the first
\* chunk the stream refuses; the frame then stays pending as a whole
TxPhase ==
    LET bytes  == WireOf(tx_tag_, tx_data_buffer_)
        before == {ChunkSize * k : k \in 0 .. (Len(bytes) - 1) \div ChunkSize}
    IN  \/ /\ ~tx_data_
           /\ UNCHANGED <<tx, out>>
        \/ /\ tx_data_
           /\ wire' = wire \o bytes
           /\ tx_data_' = FALSE
           /\ UNCHANGED <<tx_tag_, tx_data_buffer_, queued, write_errors>>
        \/ /\ tx_data_
           /\ write_errors < setup.max_write_errors
           /\ write_errors' = write_errors + 1
           /\ \E n \in before : wire' = wire \o SubSeq(bytes, 1, n)
           /\ UNCHANGED tx

ResetParser ==
    /\ state_' = "kWaitingForSync"
    /\ rx_index_' = 0
    /\ rx_data_length_' = 0
    /\ rx_tag_' = 0
    /\ frame_start_ts_' = 0
    /\ UNCHANGED rx_buffer_

\* As TimedOut, but the difference of two timestamps may be negative
TimedOutSigned ==
    /\ setup.frame_timeout > 0
    /\ state_ # "kWaitingForSync"
    /\ now - frame_start_ts_ > setup.frame_timeout

TimedOut ==
    /\ setup.frame_timeout > 0
    /\ state_ # "kWaitingForSync"
    /\ (now - frame_start_ts_) % TimestampRange > setup.frame_timeout

RunBegins ==
    /\ pc = "wait"
    /\ setup.periodic \/ rx_event
    /\ pc' = "rx"
    /\ rx_event' = FALSE
    /\ TxPhase
    /\ IF TimedOut THEN ResetParser ELSE UNCHANGED parser
    /\ UNCHANGED <<setup, handlers_, readahead_, fifo, host, clock, heard, parsed>>

\* The next byte of the read-ahead cache, refilled from the stream when empty
ReadRawByte(raw) ==
    /\ pc = "rx"
    /\ heard' = Append(heard, raw)
    /\ \/ /\ readahead_ # <<>>
          /\ raw = Head(readahead_)
          /\ readahead_' = Tail(readahead_)
          /\ UNCHANGED fifo
       \/ /\ readahead_ = <<>>
          /\ fifo # <<>>
          /\ raw = Head(fifo)
          /\ LET n == Min({Len(fifo), ReadAheadSize})
             IN  /\ readahead_' = SubSeq(fifo, 2, n)
                 /\ fifo' = SubSeq(fifo, n + 1, Len(fifo))
    /\ UNCHANGED <<setup, handlers_, pc, rx_event, out, host, clock>>

WaitingForSync(raw) ==
    /\ state_ = "kWaitingForSync"
    /\ IF raw = kSyncByte
       THEN /\ state_' = "kReadingHeader"
            /\ frame_start_ts_' = now
            /\ rx_index_' = 0 /\ rx_data_length_' = 0 /\ rx_tag_' = 0
            /\ UNCHANGED rx_buffer_
       ELSE UNCHANGED parser
    /\ UNCHANGED <<tx, parsed>>

\* As LengthIsGood, but against the size of the whole buffer
LengthFitsBuffer(length) == length <= kRxBufferSize

LengthIsGood(length) == length <= kMaxFrameDataLength

ReadingHeader(raw) ==
    LET buffer == [rx_buffer_ EXCEPT ![rx_index_] = raw]
        hdr    == ParseHeader([i \in 1 .. kHeaderSize |-> buffer[i - 1]])
    IN  /\ state_ = "kReadingHeader"
        /\ rx_buffer_' = buffer
        /\ \/ /\ rx_index_ + 1 < kHeaderSize
              /\ rx_index_' = rx_index_ + 1
              /\ UNCHANGED <<state_, frame_start_ts_, rx_data_length_, rx_tag_>>
           \/ /\ rx_index_ + 1 >= kHeaderSize
              /\ LengthIsGood(hdr.length)
              /\ rx_tag_' = hdr.tag
              /\ rx_data_length_' = hdr.length
              /\ rx_index_' = 0
              /\ state_' = IF hdr.length = 0 THEN "kReadingChecksum" ELSE "kReadingData"
              /\ UNCHANGED frame_start_ts_
           \/ /\ rx_index_ + 1 >= kHeaderSize
              /\ ~LengthIsGood(hdr.length)
              /\ state_' = "kWaitingForSync"
              /\ rx_index_' = 0 /\ rx_data_length_' = 0 /\ rx_tag_' = 0
              /\ frame_start_ts_' = 0
        /\ UNCHANGED <<tx, parsed>>

\* As ReadingData, but the data is stored over the header
DataOverHeader(raw) ==
    /\ state_ = "kReadingData"
    /\ rx_buffer_' = [rx_buffer_ EXCEPT ![rx_index_] = raw]
    /\ rx_index_' = rx_index_ + 1
    /\ state_' = IF rx_index_ + 1 >= rx_data_length_ THEN "kReadingChecksum" ELSE state_
    /\ UNCHANGED <<frame_start_ts_, rx_data_length_, rx_tag_, tx, parsed>>

ReadingData(raw) ==
    /\ state_ = "kReadingData"
    /\ rx_buffer_' = [rx_buffer_ EXCEPT ![kHeaderSize + rx_index_] = raw]
    /\ rx_index_' = rx_index_ + 1
    /\ state_' = IF rx_index_ + 1 >= rx_data_length_ THEN "kReadingChecksum" ELSE state_
    /\ UNCHANGED <<frame_start_ts_, rx_data_length_, rx_tag_, tx, parsed>>

HandlerOf(tag) ==
    LET known == {i \in 1 .. Len(handlers_) : handlers_[i].tag = tag}
    IN  IF known = {} THEN NoHandler ELSE handlers_[Min(known)].handler

\* The loopback handler drops the frame while another one is pending
LoopbackImpl == IF tx_data_ THEN UNCHANGED tx ELSE QueueTx(kLoopback, RxData)

DispatchFrame ==
    /\ parsed' = Append(parsed, [tag |-> rx_tag_, data |-> RxData, at |-> Len(heard'),
                                 handler |-> HandlerOf(rx_tag_)])
    /\ IF HandlerOf(rx_tag_) = "LoopbackImpl" THEN LoopbackImpl ELSE UNCHANGED tx

\* As ReadingChecksum, but the checksum is not compared
ChecksumIgnored(raw) ==
    /\ state_ = "kReadingChecksum"
    /\ DispatchFrame
    /\ ResetParser

\* As ReadingChecksum, but a mismatch leaves the parser where it is
ChecksumAwaited(raw) ==
    /\ state_ = "kReadingChecksum"
    /\ IF raw = ComputeChecksum(RxHeader, RxData)
       THEN DispatchFrame /\ ResetParser
       ELSE UNCHANGED <<tx, parsed, parser>>

ReadingChecksum(raw) ==
    /\ state_ = "kReadingChecksum"
    /\ IF raw = ComputeChecksum(RxHeader, RxData)
       THEN DispatchFrame
       ELSE UNCHANGED <<tx, parsed>>
    /\ ResetParser

RunByte == \E raw \in Byte :
    /\ ReadRawByte(raw)
    /\ \/ WaitingForSync(raw)
       \/ ReadingHeader(raw)
       \/ ReadingData(raw)
       \/ ReadingChecksum(raw)

\* The stream has no more bytes for now; some may arrive before Run returns
StreamIsEmpty ==
    /\ pc = "rx"
    /\ readahead_ = <<>>
    /\ fifo = <<>>
    /\ pc' = "tx"
    /\ UNCHANGED <<setup, handlers_, readahead_, parser, tx, rx_event, fifo, out, host, clock,
                   heard, parsed>>

\* As RunEnds, but the event is cleared when the work is done
RunEndsAndClears ==
    /\ pc = "tx"
    /\ pc' = "wait"
    /\ TxPhase
    /\ late' = IF fifo = <<>> THEN 0 ELSE late
    /\ rx_event' = FALSE
    /\ UNCHANGED <<setup, handlers_, readahead_, parser, fifo, host, now, ticks, heard, parsed>>

RunEnds ==
    /\ pc = "tx"
    /\ pc' = "wait"
    /\ TxPhase
    /\ late' = IF fifo = <<>> THEN 0 ELSE late
    /\ UNCHANGED <<setup, handlers_, readahead_, parser, rx_event, fifo, host, now, ticks,
                   heard, parsed>>

Next ==
    \/ HostSends \/ Arrive \/ Tick
    \/ \E tag \in setup.tags : AddHandler(tag, "application")
    \/ \E request \in setup.requests : Send(request)
    \/ RunBegins \/ RunByte \/ StreamIsEmpty \/ RunEnds

Spec == Init /\ [][Next]_vars

\* Bytes on the line arrive, and the task that calls Run is scheduled.  The
\* peer, the application and the clock owe nothing.
FairSpec ==
    /\ Spec
    /\ WF_vars(Arrive)
    /\ WF_vars(RunBegins)
    /\ WF_vars(RunByte)
    /\ WF_vars(StreamIsEmpty)
    /\ WF_vars(RunEnds)
-----------------------------------------------------------------------------
(* Properties *)

\* Bytes stay bytes on both sides of the stream, timestamps stay in their range
\* and no index leaves the receive buffer (the members of protocol.hpp:216-232).
TypeOK ==
    /\ handlers_ \in Seq([tag : Nat, handler : {"LoopbackImpl", "application"}])
    /\ readahead_ \in Seq(Byte) /\ fifo \in Seq(Byte) /\ air \in Seq(Byte)
    /\ state_ \in States
    /\ frame_start_ts_ \in 0 .. TimestampRange - 1
    /\ now \in 0 .. TimestampRange - 1
    /\ rx_buffer_ \in [0 .. kRxBufferSize - 1 -> Byte]
    /\ rx_index_ \in 0 .. kRxBufferSize
    /\ rx_data_length_ \in 0 .. kMaxFrameDataLength
    /\ rx_tag_ \in 0 .. ByteRange * ByteRange - 1
    /\ tx_data_ \in BOOLEAN /\ tx_data_buffer_ \in Seq(Byte)
    /\ pc \in {"wait", "rx", "tx"} /\ rx_event \in BOOLEAN
    /\ wire \in Seq(Byte) /\ heard \in Seq(Byte)

\* How many bytes of the current frame are in rx_buffer_
Stored == rx_index_ + (IF state_ \in {"kReadingData", "kReadingChecksum"}
                       THEN kHeaderSize ELSE 0)

\* While a frame is being read, the parser holds exactly the last bytes that
\* were read, from a sync byte on: nothing is skipped, repeated or kept from an
\* earlier frame, over Runs, cache refills and resets (protocol.cpp:129-209).
ParserHoldsLastBytes == state_ # "kWaitingForSync" =>
    /\ Stored + 1 <= Len(heard)
    /\ heard[Len(heard) - Stored] = kSyncByte
    /\ \A i \in 1 .. Stored : heard[Len(heard) - Stored + i] = rx_buffer_[i - 1]
    /\ state_ # "kReadingHeader" =>
           ParseHeader(RxHeader) = [tag |-> rx_tag_, length |-> rx_data_length_]
    /\ state_ = "kReadingChecksum" => rx_index_ = rx_data_length_

\* Whatever happened to the line, a frame given to a handler is a well-formed
\* frame found in one piece among the bytes read, and two frames never share a
\* byte (DispatchFrame, protocol.cpp:326).
ParsedFramesWereHeard ==
    /\ \A i \in 1 .. Len(parsed) :
           LET p == parsed[i]
           IN  /\ Len(p.data) <= kMaxFrameDataLength
               /\ WireLength(Len(p.data)) <= p.at
               /\ SubSeq(heard, p.at - WireLength(Len(p.data)) + 1, p.at)
                      = WireOf(p.tag, p.data)
    /\ \A i \in 1 .. Len(parsed) - 1 :
           parsed[i].at + WireLength(Len(parsed[i + 1].data)) <= parsed[i + 1].at

IsParsed(s) == \E i \in 1 .. Len(parsed) :
    parsed[i].at = s.to /\ parsed[i].tag = s.tag /\ parsed[i].data = s.data

SyncFree(s) == LET bytes == WireOf(s.tag, s.data) IN \A i \in 2 .. Len(bytes) : bytes[i] # kSyncByte

\* A damaged frame can make the parser swallow no more than one longest frame:
\* when no frame holds the sync byte inside, every whole frame that starts
\* later than that behind the damage is parsed (protocol.cpp:154, 197), unless
\* the frame timeout is shorter than a whole frame may take.
LossIsBounded == \A i \in 1 .. Len(sent) :
    ( /\ setup.frame_timeout = 0 \/ setup.frame_timeout >= AirTime + RunLatency
      /\ sent[i].whole
      /\ sent[i].to <= Len(heard)
      /\ \A j \in 1 .. i - 1 : ~sent[j].whole =>
             sent[j].to + kHeaderSize + kMaxFrameDataLength + kChecksumSize <= sent[i].from )
    => IsParsed(sent[i]) \/ \E j \in 1 .. Len(sent) : ~SyncFree(sent[j])

\* A peer that leaves a pause longer than the frame timeout between its frames
\* loses only damaged ones, whatever bytes they hold and also when the timestamp
\* wraps (protocol.cpp:119-126).  The timeout is looked at before the bytes that
\* have arrived, so it must exceed the time a whole frame may take until Run
\* reads its end; the pause must leave room for the same delays, and Run must
\* come back before the age of a frame has passed the range of the timestamps.
PauseResynchronises ==
    ( /\ setup.periodic
      /\ setup.frame_timeout >= AirTime + RunLatency
      /\ setup.pause >= setup.frame_timeout + 2 * (AirTime + RunLatency)
      /\ setup.frame_timeout + 2 * RunLatency < TimestampRange )
    => \A i \in 1 .. Len(sent) : sent[i].whole /\ sent[i].to <= Len(heard) => IsParsed(sent[i])

\* The first n frames of q are among the bytes w, each in one piece that ends at
\* its member of ends and starts behind the one before
Carried(w, q, n) ==
    \E ends \in [0 .. n -> 0 .. Len(w)] : \A i \in 1 .. n :
        LET bytes == WireOf(q[i].tag, q[i].data)
        IN  /\ ends[i - 1] + Len(bytes) <= ends[i]
            /\ \A k \in 1 .. Len(bytes) : w[ends[i] - Len(bytes) + k] = bytes[k]

\* The frames that left the transmit buffer are on the wire, whole and in the
\* order they were queued; a write error costs no frame and mixes no two of
\* them (TxPhase, WriteFrameWire, protocol.cpp:241, 342).
WireCarriesQueuedFrames ==
    Carried(wire, queued, Len(queued) - (IF tx_data_ THEN 1 ELSE 0))

\* A queued frame is written in the end, although writes may fail: Run is
\* called again and retries (TxPhase, protocol.cpp:353).
PendingFrameIsSent == tx_data_ ~> ~tx_data_

\* frame.hpp: Create returns "an invalid frame (is_valid() == false) on error",
\* and readme.md: send "Fails if TX busy or frame invalid".
OnlyRequestedFramesAreQueued == \A i \in 1 .. Len(queued) :
    \/ \E r \in setup.requests : r.tag = queued[i].tag /\ r.data = queued[i].data
    \/ \E j \in 1 .. Len(parsed) : parsed[j].tag = kLoopback /\ parsed[j].data = queued[i].data
-----------------------------------------------------------------------------
(* On a line without damage the engine implements the frame queue *)

AllFrames == UNION {c.frames : c \in Setups}

AllTags == {f.tag : f \in AllFrames} \cup UNION {c.tags : c \in Setups} \cup {kLoopback}

Queue == INSTANCE FrameQueue WITH
    Frames  <- AllFrames,
    Tags    <- AllTags,
    Loopback <- kLoopback,
    sent    <- [i \in 1 .. Len(sent) |-> [tag |-> sent[i].tag, data |-> sent[i].data]],
    taken   <- [i \in 1 .. Len(parsed) |->
                   [frame |-> [tag |-> parsed[i].tag, data |-> parsed[i].data],
                    handler |-> parsed[i].handler]],
    handler <- [tag \in AllTags |-> HandlerOf(tag)]

\* Every frame sent is handed over once, in order, to the handler its tag has
\* at that moment, and none is forgotten while the task sleeps: bytes that
\* arrive while Run is at work wake the task again (hw_task.cpp:88-95).
ImplementsFrameQueue == Queue!Spec
=============================================================================
