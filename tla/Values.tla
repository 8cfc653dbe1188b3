------------------------------- MODULE Values -------------------------------
(***************************************************************************)
(* JSON values, MessagePack values and their encoding, as far as the hub   *)
(* protocols use them: conversions (messagepack/write.rs, parse.rs), the   *)
(* reader that skips a value without decoding it (parse.rs), the arguments *)
(* of an invocation (arguments.rs).                                        *)
(*                                                                         *)
(* A string is one character; numbers are naturals; maps have string keys. *)
(***************************************************************************)
EXTENDS Framing, TLC

CONSTANTS
  MaxDepth  \* 512: the deepest nesting skip_value() accepts

ASSUME ValuesAssumption == MaxDepth \in Nat
-----------------------------------------------------------------------------
\* JSON
Null == <<"null">>
Bool(b) == <<"bool", b>>
Num(n) == <<"number", n>>
Text(s) == <<"string", s>>
List(s) == <<"array", s>>
Object(f) == <<"object", f>>
Is(v, tag) == v[1] = tag

\* MessagePack
Nil == <<"nil">>
Boolean(b) == <<"boolean", b>>
Integer(n) == <<"integer", n>>
Str(s) == <<"str", s>>
Array(s) == <<"arr", s>>
Map(pairs) == <<"map", pairs>>
Binary(bytes) == <<"binary", bytes>>

\* json_to_value()
RECURSIVE JsonToValue(_)
JsonToValue(v) ==
  CASE Is(v, "null") -> Nil
    [] Is(v, "bool") -> Boolean(v[2])
    [] Is(v, "number") -> Integer(v[2])
    [] Is(v, "string") -> Str(v[2])
    [] Is(v, "array") -> Array([i \in DOMAIN v[2] |-> JsonToValue(v[2][i])])
    [] Is(v, "object") ->
         LET keys == SetToSeq(DOMAIN v[2])
         IN Map([i \in DOMAIN keys |-> <<Str(keys[i]), JsonToValue(v[2][keys[i]])>>])

\* value_to_json(): serde writes binary data as an array of numbers
RECURSIVE ValueToJson(_)
ValueToJson(v) ==
  CASE Is(v, "nil") -> Null
    [] Is(v, "boolean") -> Bool(v[2])
    [] Is(v, "integer") -> Num(v[2])
    [] Is(v, "str") -> Text(v[2])
    [] Is(v, "arr") -> List([i \in DOMAIN v[2] |-> ValueToJson(v[2][i])])
    [] Is(v, "binary") -> List([i \in DOMAIN v[2] |-> Num(Number(v[2][i]))])
    [] Is(v, "map") ->
         Object(FoldLeft(LAMBDA f, pair : (pair[1][2] :> ValueToJson(pair[2])) @@ f,
                         <<>>, v[2]))

\* json_array_value() and value_to_json_array()
JsonArrayValue(values) == JsonToValue(List(values))
ValueToJsonArray(v) == IF Is(v, "arr") THEN Ok(ValueToJson(v)[2]) ELSE Err
-----------------------------------------------------------------------------
\* The bytes of a value: a marker, with the short lengths that fit into it,
\* then lengths and contents.  Numbers from Base up and byte strings take the
\* wide forms (U8, Bin8), arrays and maps from Base elements up too.
Marker(name, n) == <<name, n>>
Sized(fix, wide, n) ==
  IF n < Base THEN <<Marker(fix, n)>> ELSE <<Marker(wide, 0), Byte(n \div (2 * Base)), Byte(n % (2 * Base))>>

RECURSIVE Encode(_)
Encode(v) ==
  CASE Is(v, "nil") -> <<Marker("Null", 0)>>
    [] Is(v, "boolean") -> <<Marker(IF v[2] THEN "True" ELSE "False", 0)>>
    [] Is(v, "integer") -> IF v[2] < Base THEN <<Marker("FixPos", v[2])>> ELSE <<Marker("U8", 0), Byte(v[2])>>
    [] Is(v, "str") -> <<Marker("FixStr", 1), <<"char", v[2]>>>>
    [] Is(v, "binary") -> <<Marker("Bin8", 0), Byte(Len(v[2]))>> \o v[2]
    [] Is(v, "arr") ->
         Sized("FixArray", "Array16", Len(v[2])) \o FlattenSeq([i \in DOMAIN v[2] |-> Encode(v[2][i])])
    [] Is(v, "map") ->
         Sized("FixMap", "Map16", Len(v[2]))
           \o FlattenSeq([i \in DOMAIN v[2] |-> Encode(v[2][i][1]) \o Encode(v[2][i][2])])

\* rmpv::decode::read_value(): the value at the start of rest, and what follows it.
RECURSIVE ReadValue(_)
RECURSIVE ReadValues(_, _)
ReadValues(rest, n) ==
  IF n = 0 THEN Ok(<<<<>>, rest>>)
  ELSE Then(ReadValue(rest), LAMBDA first :
         Then(ReadValues(first[2], n - 1), LAMBDA others :
           Ok(<<<<first[1]>> \o others[1], others[2]>>)))
ReadValue(rest) ==
  IF rest = <<>> THEN Err
  ELSE LET name == rest[1][1]
           wide == name \in {"Array16", "Map16"}
           n == IF wide /\ Len(rest) >= 3 THEN 2 * Base * Number(rest[2]) + Number(rest[3]) ELSE rest[1][2]
           after == Drop(rest, IF wide THEN 3 ELSE 1)
           size == IF after = <<>> THEN 0 ELSE Number(after[1])
       IN CASE name = "Null" -> Ok(<<Nil, after>>)
            [] name \in {"True", "False"} -> Ok(<<Boolean(name = "True"), after>>)
            [] name = "FixPos" -> Ok(<<Integer(n), after>>)
            [] name = "U8" /\ after # <<>> -> Ok(<<Integer(size), Tail(after)>>)
            [] name = "FixStr" /\ after # <<>> -> Ok(<<Str(after[1][2]), Tail(after)>>)
            [] name = "Bin8" /\ Len(after) > size ->
                 Ok(<<Binary(SubSeq(after, 2, size + 1)), Drop(after, size + 1)>>)
            [] name \in {"FixArray", "Array16"} -> Then(ReadValues(after, n), LAMBDA all : Ok(<<Array(all[1]), all[2]>>))
            [] name \in {"FixMap", "Map16"} ->
                 Then(ReadValues(after, 2 * n), LAMBDA all :
                   Ok(<<Map([i \in 1..n |-> <<all[1][2 * i - 1], all[1][2 * i]>>]), all[2]>>))
            [] OTHER -> Err
-----------------------------------------------------------------------------
\* skip_value(): how many bytes and how many values follow a marker.
FixedBytes ==
  [m \in {"FixPos", "FixNeg", "Null", "True", "False"} |-> 0] @@ [m \in {"U8", "I8"} |-> 1]
    @@ [m \in {"U16", "I16"} |-> 2] @@ [m \in {"U32", "I32", "F32"} |-> 4]
    @@ [m \in {"U64", "I64", "F64"} |-> 8] @@ ("FixExt1" :> 2) @@ ("FixExt2" :> 3)
    @@ ("FixExt4" :> 5) @@ ("FixExt8" :> 9) @@ ("FixExt16" :> 17)

LengthBytes ==
  [m \in {"Str8", "Bin8", "Ext8"} |-> 1] @@ [m \in {"Str16", "Bin16", "Array16", "Map16", "Ext16"} |-> 2]
    @@ [m \in {"Str32", "Bin32", "Array32", "Map32", "Ext32"} |-> 4]

Take(rest, n) == IF Len(rest) < n THEN Err ELSE Ok(<<SubSeq(rest, 1, n), Drop(rest, n)>>)

\* read_len(): a big-endian length of n bytes
ReadLen(rest, n) ==
  Then(Take(rest, n), LAMBDA taken :
    Ok(<<FoldLeft(LAMBDA len, unit : 2 * Base * len + Number(unit), 0, taken[1]), taken[2]>>))

\* Variant of Following: a map is as long as an array.
FollowingPairs(name, n) ==
  IF name \in {"FixArray", "Array16", "FixMap", "Map16"} THEN <<0, n>> ELSE <<n, 0>>

\* The bytes and the values a marker with length n announces.
Following(name, n) ==
  CASE name \in {"FixArray", "Array16", "Array32"} -> <<0, n>>
    [] name \in {"FixMap", "Map16", "Map32"} -> <<0, 2 * n>>
    [] name \in {"Ext8", "Ext16", "Ext32"} -> <<n + 1, 0>>
    [] OTHER -> <<n, 0>>

\* The bytes and values that follow the marker, and the rest after its length.
Extent(marker, rest) ==
  LET name == marker[1]
  IN CASE name \in DOMAIN FixedBytes -> Ok(<<<<FixedBytes[name], 0>>, rest>>)
       [] name \in {"FixStr", "FixArray", "FixMap"} -> Ok(<<Following(name, marker[2]), rest>>)
       [] name \in DOMAIN LengthBytes -> 
            Then(ReadLen(rest, LengthBytes[name]), LAMBDA len : Ok(<<Following(name, len[1]), len[2]>>))
       [] OTHER -> Err   \* reserved

RECURSIVE SkipValue(_, _)
RECURSIVE SkipValues(_, _, _)
SkipValues(rest, n, depth) ==
  IF n = 0 THEN Ok(rest)
  ELSE Then(SkipValue(rest, depth), LAMBDA after : SkipValues(after, n - 1, depth))
SkipValue(rest, depth) ==
  IF depth > MaxDepth \/ rest = <<>> THEN Err
  ELSE Then(Extent(Head(rest), Tail(rest)), LAMBDA extent :
         Then(Take(extent[2], extent[1][1]), LAMBDA body : SkipValues(body[2], extent[1][2], depth + 1)))
-----------------------------------------------------------------------------
\* Arguments: as the protocol delivered them
JsonArguments(values) == <<"Json", values>>
FromMessagepack(bytes) ==
  IF bytes # <<>> /\ bytes[1][1] \in {"FixArray", "Array16"} THEN Ok(<<"MessagePack", bytes>>) ELSE Err

MessagepackValue(arguments) ==
  IF arguments[1] = "Json" THEN Ok(JsonArrayValue(arguments[2]))
  ELSE Then(ReadValue(arguments[2]), LAMBDA read : Ok(read[1]))

JsonValues(arguments) ==
  IF arguments[1] = "Json" THEN Ok(arguments[2])
  ELSE Then(MessagepackValue(arguments), ValueToJsonArray)
=============================================================================
