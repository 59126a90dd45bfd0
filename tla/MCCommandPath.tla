--------------------------- MODULE MCCommandPath ----------------------------
(***************************************************************************)
(* Instance of CommandPath: every command, with a few choices of values    *)
(* whose bytes differ from those of the neighbouring fields.               *)
(***************************************************************************)
EXTENDS CommandPath, FiniteSetsExt

CONSTANT Seeds      \* choices of values per command

FieldOrder ==
    <<"parent_group_id", "mark", "target_group_id", "additional_repeats",
      "root_additional_repeats", "percent", "r", "g", "b", "h", "s", "v", "start", "end",
      "duration_ms", "index", "group_id">>

Width(name) ==
    IF name \in {"parent_group_id", "target_group_id", "group_id"} THEN 4
    ELSE IF name \in {"r", "g", "b", "h", "s", "v", "start", "end", "index"} THEN 1
    ELSE 2

SampleValue(name, seed) ==
    LET i == CHOOSE k \in 1 .. Len(FieldOrder) : FieldOrder[k] = name
    IN  MapThenSumSet(LAMBDA j : ((i + 5 * j + seed) % ByteRange) * ByteRange ^ (j - 1),
                      1 .. Width(name))

\* CommandAssumption says that these are the fields the host packs
SampleCommands ==
    {[tag |-> tag, values |-> [name \in DOMAIN Reads(tag, <<>>) |-> SampleValue(name, seed)]] :
        tag \in Tags, seed \in Seeds}
=============================================================================
