---------------------------- MODULE CommandPath ----------------------------
(***************************************************************************)
(* The way of a controller command from the host to the controller:        *)
(*                                                                         *)
(*   scripts/device/modules/protocol.py       builds the payload,          *)
(*   app/src/hw/controller_command_sink.cpp   checks and decodes it in the *)
(*                                            HW task and queues a message,*)
(*   app/src/controller_command_dispatch.cpp  turns the message into calls *)
(*                                            of the controller (APP task).*)
(*                                                                         *)
(* A payload is a sequence of bytes; the number of values of a byte is a   *)
(* parameter.  The framing around it is module Protocol, the controller is *)
(* module Controller; here it only answers Start.                          *)
(***************************************************************************)
EXTENDS Integers, Sequences

CONSTANTS
    ByteRange,          \* number of values of a byte, 256 in the code
    kMaxHandlers,       \* 15
    Capacity,           \* of ControllerCommandMailbox, 32
    Commands,           \* what the host may ask for: [tag, values]
    MaxFrames           \* bound: frames the host sends

ASSUME PathAssumption ==
    /\ ByteRange \in Nat \ {0, 1}
    /\ kMaxHandlers \in Nat \ {0}
    /\ Capacity \in Nat \ {0}
    /\ MaxFrames \in Nat

\* The tags ControllerCommandSink::Register offers, in its order
RegisteredTags ==
    <<"kSetMultipleColor", "kSetSingleColor", "kResetInstructions", "kRun",
      "kSetSingleColorHsv", "kSetMultipleColorHsv", "kSetMultipleColorGrouped",
      "kSetSingleColorGrouped", "kSetSingleColorHsvGrouped",
      "kSetMultipleColorHsvGrouped", "kRunGroup", "kStart", "kFade", "kGradient">>

Tags == {RegisteredTags[i] : i \in 1 .. Len(RegisteredTags)}

\* AddHandler takes handlers while the table, which starts with the loopback
\* handler, has room; Register stops at the first refusal
Register == SubSeq(RegisteredTags, 1, kMaxHandlers - 1)
-----------------------------------------------------------------------------
(* The host: the arguments of the builders of protocol.py and the payloads    *)
(* they pack; the grouped HSV commands, which have no builder, as the         *)
(* comments of tags.hpp list them                                             *)

U8  == 0 .. ByteRange - 1
U16 == 0 .. ByteRange * ByteRange - 1
U32 == 0 .. ByteRange * ByteRange * ByteRange * ByteRange - 1

\* The fields with the widths of the payload structs; to_bytes and bytes()
\* refuse values that do not fit
HostValues(tag) ==
    CASE tag = "kSetMultipleColor" ->
           [mark : U16, r : U8, g : U8, b : U8, start : U8, end : U8]
      [] tag = "kSetSingleColor" -> [mark : U16, r : U8, g : U8, b : U8, index : U8]
      [] tag \in {"kResetInstructions", "kRun"} -> {<<>>}
      [] tag = "kSetSingleColorHsv" -> [mark : U16, h : U8, s : U8, v : U8, index : U8]
      [] tag = "kSetMultipleColorHsv" ->
           [mark : U16, h : U8, s : U8, v : U8, start : U8, end : U8]
      [] tag = "kSetMultipleColorGrouped" ->
           [mark : U16, r : U8, g : U8, b : U8, start : U8, end : U8, group_id : U32]
      [] tag = "kSetSingleColorGrouped" ->
           [mark : U16, r : U8, g : U8, b : U8, index : U8, group_id : U32]
      [] tag = "kSetSingleColorHsvGrouped" ->
           [mark : U16, h : U8, s : U8, v : U8, index : U8, group_id : U32]
      [] tag = "kSetMultipleColorHsvGrouped" ->
           [mark : U16, h : U8, s : U8, v : U8, start : U8, end : U8, group_id : U32]
      [] tag = "kRunGroup" ->
           [parent_group_id : U32, mark : U16, target_group_id : U32, additional_repeats : U16]
      [] tag = "kStart" -> [root_additional_repeats : U16]
      [] tag = "kFade" ->
           [mark : U16, percent : U16, duration_ms : U16, index : U8, group_id : U32]
      [] tag = "kGradient" ->
           [mark : U16, r : U8, g : U8, b : U8, duration_ms : U16, index : U8, group_id : U32]

ASSUME CommandAssumption ==
    \A c \in Commands : c.tag \in Tags /\ c.values \in HostValues(c.tag)

\* int.to_bytes(2, "little") and int.to_bytes(4, "little")
ToBytes2(n) == <<n % ByteRange, n \div ByteRange>>

ToBytes4(n) ==
    ToBytes2(n % (ByteRange * ByteRange)) \o ToBytes2(n \div (ByteRange * ByteRange))

HostPayload(tag, a) ==
    CASE tag = "kSetMultipleColor" -> ToBytes2(a.mark) \o <<a.r, a.g, a.b, a.start, a.end>>
      [] tag = "kSetSingleColor" -> ToBytes2(a.mark) \o <<a.r, a.g, a.b, a.index>>
      [] tag \in {"kResetInstructions", "kRun"} -> <<>>
      [] tag = "kSetSingleColorHsv" -> ToBytes2(a.mark) \o <<a.h, a.s, a.v, a.index>>
      [] tag = "kSetMultipleColorHsv" ->
           ToBytes2(a.mark) \o <<a.h, a.s, a.v, a.start, a.end>>
      [] tag = "kSetMultipleColorGrouped" ->
           ToBytes2(a.mark) \o <<a.r, a.g, a.b, a.start, a.end>> \o ToBytes4(a.group_id)
      [] tag = "kSetSingleColorGrouped" ->
           ToBytes2(a.mark) \o <<a.r, a.g, a.b, a.index>> \o ToBytes4(a.group_id)
      [] tag = "kSetSingleColorHsvGrouped" ->
           ToBytes2(a.mark) \o <<a.h, a.s, a.v, a.index>> \o ToBytes4(a.group_id)
      [] tag = "kSetMultipleColorHsvGrouped" ->
           ToBytes2(a.mark) \o <<a.h, a.s, a.v, a.start, a.end>> \o ToBytes4(a.group_id)
      [] tag = "kRunGroup" ->
           ToBytes4(a.parent_group_id) \o ToBytes2(a.mark) \o ToBytes4(a.target_group_id)
               \o ToBytes2(a.additional_repeats)
      [] tag = "kStart" -> ToBytes2(a.root_additional_repeats)
      [] tag = "kFade" ->
           ToBytes2(a.mark) \o ToBytes2(a.percent) \o ToBytes2(a.duration_ms) \o <<a.index>>
               \o ToBytes4(a.group_id)
      [] tag = "kGradient" ->
           ToBytes2(a.mark) \o <<a.r, a.g, a.b>> \o ToBytes2(a.duration_ms) \o <<a.index>>
               \o ToBytes4(a.group_id)
-----------------------------------------------------------------------------
(* The sink: which bytes of the payload a handler reads into which field *)

\* A byte behind the payload is whatever the receive buffer holds there
ReadByte(data, at) == IF at < Len(data) THEN data[at + 1] ELSE ByteRange

ReadLe16(data, at) == ReadByte(data, at) + ReadByte(data, at + 1) * ByteRange

ReadLe32(data, at) ==
    ReadByte(data, at)
        + ReadByte(data, at + 1) * ByteRange
        + ReadByte(data, at + 2) * (ByteRange * ByteRange)
        + ReadByte(data, at + 3) * (ByteRange * ByteRange * ByteRange)

HandleSetMultipleColor(data) ==
    [mark |-> ReadLe16(data, 0), r |-> ReadByte(data, 2), g |-> ReadByte(data, 3),
     b |-> ReadByte(data, 4), start |-> ReadByte(data, 5), end |-> ReadByte(data, 6)]

HandleSetSingleColor(data) ==
    [mark |-> ReadLe16(data, 0), r |-> ReadByte(data, 2), g |-> ReadByte(data, 3),
     b |-> ReadByte(data, 4), index |-> ReadByte(data, 5)]

HandleSetSingleColorHsv(data) ==
    [mark |-> ReadLe16(data, 0), h |-> ReadByte(data, 2), s |-> ReadByte(data, 3),
     v |-> ReadByte(data, 4), index |-> ReadByte(data, 5)]

HandleSetMultipleColorHsv(data) ==
    [mark |-> ReadLe16(data, 0), h |-> ReadByte(data, 2), s |-> ReadByte(data, 3),
     v |-> ReadByte(data, 4), start |-> ReadByte(data, 5), end |-> ReadByte(data, 6)]

HandleSetMultipleColorGrouped(data) ==
    [mark |-> ReadLe16(data, 0), r |-> ReadByte(data, 2), g |-> ReadByte(data, 3),
     b |-> ReadByte(data, 4), start |-> ReadByte(data, 5), end |-> ReadByte(data, 6),
     group_id |-> ReadLe32(data, 7)]

HandleSetSingleColorGrouped(data) ==
    [mark |-> ReadLe16(data, 0), r |-> ReadByte(data, 2), g |-> ReadByte(data, 3),
     b |-> ReadByte(data, 4), index |-> ReadByte(data, 5), group_id |-> ReadLe32(data, 6)]

HandleSetSingleColorHsvGrouped(data) ==
    [mark |-> ReadLe16(data, 0), h |-> ReadByte(data, 2), s |-> ReadByte(data, 3),
     v |-> ReadByte(data, 4), index |-> ReadByte(data, 5), group_id |-> ReadLe32(data, 6)]

HandleSetMultipleColorHsvGrouped(data) ==
    [mark |-> ReadLe16(data, 0), h |-> ReadByte(data, 2), s |-> ReadByte(data, 3),
     v |-> ReadByte(data, 4), start |-> ReadByte(data, 5), end |-> ReadByte(data, 6),
     group_id |-> ReadLe32(data, 7)]

HandleRunGroup(data) ==
    [parent_group_id |-> ReadLe32(data, 0), mark |-> ReadLe16(data, 4),
     target_group_id |-> ReadLe32(data, 6), additional_repeats |-> ReadLe16(data, 10)]

HandleStart(data) == [root_additional_repeats |-> ReadLe16(data, 0)]

HandleFade(data) ==
    [mark |-> ReadLe16(data, 0), percent |-> ReadLe16(data, 2),
     duration_ms |-> ReadLe16(data, 4), index |-> ReadByte(data, 6),
     group_id |-> ReadLe32(data, 7)]

\* As HandleGradient, but the group is read where Fade has it
GradientGroupTooEarly(data) ==
    [mark |-> ReadLe16(data, 0), r |-> ReadByte(data, 2), g |-> ReadByte(data, 3),
     b |-> ReadByte(data, 4), duration_ms |-> ReadLe16(data, 5),
     index |-> ReadByte(data, 7), group_id |-> ReadLe32(data, 7)]

HandleGradient(data) ==
    [mark |-> ReadLe16(data, 0), r |-> ReadByte(data, 2), g |-> ReadByte(data, 3),
     b |-> ReadByte(data, 4), duration_ms |-> ReadLe16(data, 5),
     index |-> ReadByte(data, 7), group_id |-> ReadLe32(data, 8)]

\* HandleResetInstructions and HandleRun read nothing
Nothing == <<>>

Reads(tag, data) ==
    CASE tag = "kSetMultipleColor"           -> HandleSetMultipleColor(data)
      [] tag = "kSetSingleColor"             -> HandleSetSingleColor(data)
      [] tag \in {"kResetInstructions", "kRun"} -> Nothing
      [] tag = "kSetSingleColorHsv"          -> HandleSetSingleColorHsv(data)
      [] tag = "kSetMultipleColorHsv"        -> HandleSetMultipleColorHsv(data)
      [] tag = "kSetMultipleColorGrouped"    -> HandleSetMultipleColorGrouped(data)
      [] tag = "kSetSingleColorGrouped"      -> HandleSetSingleColorGrouped(data)
      [] tag = "kSetSingleColorHsvGrouped"   -> HandleSetSingleColorHsvGrouped(data)
      [] tag = "kSetMultipleColorHsvGrouped" -> HandleSetMultipleColorHsvGrouped(data)
      [] tag = "kRunGroup"                   -> HandleRunGroup(data)
      [] tag = "kStart"                      -> HandleStart(data)
      [] tag = "kFade"                       -> HandleFade(data)
      [] tag = "kGradient"                   -> HandleGradient(data)

\* Legacy handlers ask for at least their packed payload and ignore the rest
MinLength ==
    [kSetMultipleColor |-> 7, kSetSingleColor |-> 6, kSetSingleColorHsv |-> 6,
     kSetMultipleColorHsv |-> 7, kResetInstructions |-> 0, kRun |-> 0]

HasMinPayload(tag, length) == length >= MinLength[tag]

ExactLength ==
    [kSetMultipleColorGrouped |-> 11, kSetSingleColorGrouped |-> 10,
     kSetSingleColorHsvGrouped |-> 10, kSetMultipleColorHsvGrouped |-> 11,
     kRunGroup |-> 12, kStart |-> 2, kFade |-> 11, kGradient |-> 12]

HasExactPayload(tag, length) == length = ExactLength[tag]

Accepts(tag, length) ==
    IF tag \in DOMAIN ExactLength
    THEN HasExactPayload(tag, length)
    ELSE HasMinPayload(tag, length)

Decode(tag, data) == [cmd |-> tag, payload |-> Reads(tag, data)]
-----------------------------------------------------------------------------
(* The dispatcher: the controller calls a message is turned into *)

InstructionTag ==
    [kSetMultipleColor |-> "SetMultipleColor", kSetSingleColor |-> "SetSingleColor",
     kSetMultipleColorHsv |-> "SetMultipleColorHsv", kSetSingleColorHsv |-> "SetSingleColorHsv",
     kSetMultipleColorGrouped |-> "SetMultipleColor",
     kSetSingleColorGrouped |-> "SetSingleColor",
     kSetMultipleColorHsvGrouped |-> "SetMultipleColorHsv",
     kSetSingleColorHsvGrouped |-> "SetSingleColorHsv",
     kRunGroup |-> "RunGroup", kFade |-> "Fade", kGradient |-> "Gradient"]

RootGroup == 0

\* The label the constructed instruction carries: legacy instructions keep the
\* default group_id
GroupOf(msg) ==
    IF msg.cmd = "kRunGroup" THEN msg.payload.parent_group_id
    ELSE IF "group_id" \in DOMAIN msg.payload THEN msg.payload.group_id
    ELSE RootGroup

Rest(msg) == [name \in DOMAIN msg.payload \ {"group_id", "parent_group_id"} |->
                 msg.payload[name]]

AddInstruction(msg) ==
    [call |-> "AddInstruction", instruction |-> InstructionTag[msg.cmd],
     group |-> GroupOf(msg), fields |-> Rest(msg)]

\* Start, and the initial progress tick when Start succeeded
StartAndTick(repeats, started) ==
    <<[call |-> "Start", repeats |-> repeats]>>
        \o (IF started THEN <<[call |-> "Run"]>> ELSE <<>>)

DispatchControllerCommand(msg, started) ==
    IF msg.cmd \in DOMAIN InstructionTag THEN <<AddInstruction(msg)>>
    ELSE IF msg.cmd = "kResetInstructions" THEN <<[call |-> "ResetInstructions"]>>
    ELSE IF msg.cmd = "kRun" THEN StartAndTick(0, started)
    ELSE StartAndTick(msg.payload.root_additional_repeats, started)
-----------------------------------------------------------------------------
VARIABLES
    registered,     \* tags with a handler
    has_mailbox,    \* mailbox_ # nullptr
    mailbox,        \* messages queued for the APP task
    calls,          \* history: the controller calls made, per message
    meant,          \* history: per queued message, what the host asked for
    frames          \* how many frames were sent

vars == <<registered, has_mailbox, mailbox, calls, meant, frames>>

Init ==
    /\ registered = {}
    /\ has_mailbox = FALSE
    /\ mailbox = <<>>
    /\ calls = <<>>
    /\ meant = <<>>
    /\ frames = 0

RegisterHandlers ==
    /\ registered = {}
    /\ registered' = {Register[i] : i \in 1 .. Len(Register)}
    /\ UNCHANGED <<has_mailbox, mailbox, calls, meant, frames>>

\* AppTask::Setup
SetMailbox ==
    /\ ~has_mailbox
    /\ has_mailbox' = TRUE
    /\ UNCHANGED <<registered, mailbox, calls, meant, frames>>

\* EventMailbox::Send stores nothing when the mailbox is full
QueueCommand(msg, wish) ==
    IF has_mailbox /\ Len(mailbox) < Capacity
    THEN /\ mailbox' = Append(mailbox, msg)
         /\ meant' = Append(meant, wish)
    ELSE UNCHANGED <<mailbox, meant>>

\* A frame with a good checksum reaches the handler of its tag; HwTask::Setup
\* lets the loop begin only when every handler was registered
HandleFrame(tag, payload, wish) ==
    /\ registered = Tags
    /\ frames < MaxFrames
    /\ frames' = frames + 1
    /\ IF Accepts(tag, Len(payload))
       THEN QueueCommand(Decode(tag, payload), wish)
       ELSE UNCHANGED <<mailbox, meant>>
    /\ UNCHANGED <<registered, has_mailbox, calls>>

NoWish == [tag |-> "none"]

HostCommand == \E c \in Commands : HandleFrame(c.tag, HostPayload(c.tag, c.values), c)

\* The same with a byte missing, a byte too many or no mark
IllSizedCommand == \E c \in Commands :
    LET payload == HostPayload(c.tag, c.values)
    IN  \/ /\ payload # <<>>
           /\ HandleFrame(c.tag, SubSeq(payload, 1, Len(payload) - 1), NoWish)
        \/ HandleFrame(c.tag, Append(payload, 0),
                       IF c.tag \in DOMAIN MinLength THEN c ELSE NoWish)
        \/ /\ payload # <<>>
           /\ HandleFrame(c.tag, SubSeq(payload, 3, Len(payload)), NoWish)

\* One round of AppTask::UpdateInstructions
UpdateInstructions ==
    /\ mailbox # <<>>
    /\ mailbox' = Tail(mailbox)
    /\ \E started \in BOOLEAN :
           calls' = Append(calls, DispatchControllerCommand(Head(mailbox), started))
    /\ UNCHANGED <<registered, has_mailbox, meant, frames>>

Next == RegisterHandlers \/ SetMailbox \/ HostCommand \/ IllSizedCommand \/ UpdateInstructions

Spec == Init /\ [][Next]_vars
-----------------------------------------------------------------------------
(* Properties *)

\* What the builders of protocol.py are for: the instruction and its group
Grouped == {"kSetMultipleColorGrouped", "kSetSingleColorGrouped",
            "kSetSingleColorHsvGrouped", "kSetMultipleColorHsvGrouped", "kFade", "kGradient"}

HostGroup(w) ==
    IF w.tag \in Grouped THEN w.values.group_id
    ELSE IF w.tag = "kRunGroup" THEN w.values.parent_group_id
    ELSE RootGroup

Instruction ==
    [SetMultipleColor    |-> {"kSetMultipleColor", "kSetMultipleColorGrouped"},
     SetSingleColor      |-> {"kSetSingleColor", "kSetSingleColorGrouped"},
     SetMultipleColorHsv |-> {"kSetMultipleColorHsv", "kSetMultipleColorHsvGrouped"},
     SetSingleColorHsv   |-> {"kSetSingleColorHsv", "kSetSingleColorHsvGrouped"},
     RunGroup |-> {"kRunGroup"}, Fade |-> {"kFade"}, Gradient |-> {"kGradient"}]

Serves(c, w) ==
    \/ /\ c.call = "AddInstruction"
       /\ w.tag \in Instruction[c.instruction]
       /\ c.group = HostGroup(w)
       /\ \A name \in DOMAIN w.values \ {"group_id", "parent_group_id"} :
              c.fields[name] = w.values[name]
    \/ c.call = "ResetInstructions" /\ w.tag = "kResetInstructions"
    \/ c.call = "Start" /\ w.tag = "kRun" /\ c.repeats = 0
    \/ c.call = "Start" /\ w.tag = "kStart" /\ c.repeats = w.values.root_additional_repeats

\* The controller receives exactly the calls the host asked for with the frames
\* that were queued, field by field and in order, and a Run of its own only
\* behind a Start; frames of a wrong size, and the bytes behind a legacy
\* payload, have no effect (the handlers of controller_command_sink.cpp and
\* DispatchControllerCommand).
CallsServeTheHost ==
    /\ Len(calls) + Len(mailbox) = Len(meant)
    /\ \A i \in 1 .. Len(calls) :
           /\ Len(calls[i]) \in {1, 2}
           /\ Serves(calls[i][1], meant[i])
           /\ Len(calls[i]) = 2 => calls[i][1].call = "Start" /\ calls[i][2].call = "Run"
=============================================================================
