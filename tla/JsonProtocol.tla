---------------------------- MODULE JsonProtocol ----------------------------
(***************************************************************************)
(* The hub messages (hub/message.rs) and the JSON hub protocol             *)
(* (hub/json.rs).  A JSON object is a function from its keys; a JSON text  *)
(* is two units, so that it can be cut in the middle.                      *)
(***************************************************************************)
EXTENDS Values

CONSTANTS
  I32  \* 2^32: the values of the i32 a message type is cut down to

ASSUME JsonAssumption == I32 \in Nat /\ I32 > 9

MessageTypes ==
  <<"Invocation", "StreamItem", "Completion", "StreamInvocation", "CancelInvocation",
    "Ping", "Close", "Ack", "Sequence">>

FromI32(n) == IF n \in DOMAIN MessageTypes THEN Some(MessageTypes[n]) ELSE None
AsI32(n) == n % I32
TypeNumber(kind) == CHOOSE n \in DOMAIN MessageTypes : MessageTypes[n] = kind

\* The messages
Invocation(headers, id, target, arguments, streams) ==
  [type |-> "Invocation", headers |-> headers, invocation_id |-> id, target |-> target,
   arguments |-> arguments, stream_ids |-> streams]
StreamInvocation(headers, id, target, arguments, streams) ==
  [type |-> "StreamInvocation", headers |-> headers, invocation_id |-> id, target |-> target,
   arguments |-> arguments, stream_ids |-> streams]
StreamItem(headers, id, item) ==
  [type |-> "StreamItem", headers |-> headers, invocation_id |-> id, item |-> item]
Completion(headers, id, error, result) ==
  [type |-> "Completion", headers |-> headers, invocation_id |-> id, error |-> error, result |-> result]
CancelInvocation(headers, id) ==
  [type |-> "CancelInvocation", headers |-> headers, invocation_id |-> id]
Ping == [type |-> "Ping"]
Close(error, allow) == [type |-> "Close", error |-> error, allow_reconnect |-> allow]
Ack(n) == [type |-> "Ack", sequence_id |-> n]
Sequence(n) == [type |-> "Sequence", sequence_id |-> n]
-----------------------------------------------------------------------------
\* Reading fields: obj.get(key), as_str() and its like, the parse_ helpers.
Get(obj, key) == IF key \in DOMAIN obj THEN Some(obj[key]) ELSE None
As(tag, value) == IF value # None /\ Is(value[1], tag) THEN Some(value[1][2]) ELSE None
Field(obj, key, tag) == As(tag, Get(obj, key))

StringsOf(values) == LET strings == SelectSeq(values, LAMBDA v : Is(v, "string"))
                     IN [i \in DOMAIN strings |-> strings[i][2]]

ParseHeaders(obj) ==
  LET map == Field(obj, "headers", "object")
      strings == IF map = None THEN {} ELSE {k \in DOMAIN map[1] : Is(map[1][k], "string")}
  IN [k \in strings |-> map[1][k][2]]

ParseOptionalString(obj, key) == Field(obj, key, "string")

ParseOptionalStringList(obj, key) ==
  LET array == Field(obj, key, "array")
  IN CASE Get(obj, key) = None -> None
       [] Get(obj, key) # None /\ array = None -> Some(<<>>)
       [] array # None -> Some(StringsOf(array[1]))

\* A message whose required fields are all there
Required(fields, message) == IF \E i \in DOMAIN fields : fields[i] = None THEN None ELSE Some(message)

InvocationFromJson(obj) ==
  LET target == Field(obj, "target", "string")
      arguments == Field(obj, "arguments", "array")
  IN Required(<<target, arguments>>,
       Invocation(ParseHeaders(obj), ParseOptionalString(obj, "invocationId"), target[1],
                  JsonArguments(arguments[1]), ParseOptionalStringList(obj, "streamIds")))

StreamInvocationFromJson(obj) ==
  LET id == Field(obj, "invocationId", "string")
      target == Field(obj, "target", "string")
      arguments == Field(obj, "arguments", "array")
  IN Required(<<id, target, arguments>>,
       StreamInvocation(ParseHeaders(obj), id[1], target[1], arguments[1],
                        ParseOptionalStringList(obj, "streamIds")))

StreamItemFromJson(obj) ==
  LET item == Get(obj, "item")
  IN Required(<<item>>, StreamItem(ParseHeaders(obj), ParseOptionalString(obj, "invocationId"), item[1]))

CompletionFromJson(obj) ==
  LET id == Field(obj, "invocationId", "string")
  IN Required(<<id>>, Completion(ParseHeaders(obj), id[1], ParseOptionalString(obj, "error"), Get(obj, "result")))

CancelInvocationFromJson(obj) ==
  LET id == Field(obj, "invocationId", "string")
  IN Required(<<id>>, CancelInvocation(ParseHeaders(obj), id[1]))

CloseFromJson(obj) == Some(Close(ParseOptionalString(obj, "error"), Field(obj, "allowReconnect", "bool")))

AckFromJson(obj) ==
  LET n == Field(obj, "sequenceId", "number") IN Required(<<n>>, Ack(n[1]))

SequenceFromJson(obj) ==
  LET n == Field(obj, "sequenceId", "number") IN Required(<<n>>, Sequence(n[1]))

FromJsonValue(value) ==
  LET obj == value[2]
      number == Field(obj, "type", "number")
      kind == IF number = None THEN None ELSE FromI32(AsI32(number[1]))
  IN IF ~Is(value, "object") \/ kind = None THEN None
     ELSE CASE kind[1] = "Invocation" -> InvocationFromJson(obj)
            [] kind[1] = "StreamInvocation" -> StreamInvocationFromJson(obj)
            [] kind[1] = "StreamItem" -> StreamItemFromJson(obj)
            [] kind[1] = "Completion" -> CompletionFromJson(obj)
            [] kind[1] = "CancelInvocation" -> CancelInvocationFromJson(obj)
            [] kind[1] = "Ping" -> Some(Ping)
            [] kind[1] = "Close" -> CloseFromJson(obj)
            [] kind[1] = "Ack" -> AckFromJson(obj)
            [] kind[1] = "Sequence" -> SequenceFromJson(obj)
-----------------------------------------------------------------------------
\* Writing fields: the insert_optional_ helpers give the fields they insert.
NoFields == [k \in {} |-> Null]
InsertOptionalMap(key, headers) ==
  IF DOMAIN headers = {} THEN NoFields ELSE key :> Object([k \in DOMAIN headers |-> Text(headers[k])])
InsertOptionalString(key, value) == IF value = None THEN NoFields ELSE key :> Text(value[1])
InsertOptionalStringList(key, value) ==
  IF value = None \/ value = Some(<<>>) THEN NoFields
  ELSE key :> List([i \in DOMAIN value[1] |-> Text(value[1][i])])
Insert(key, v) == key :> v
InsertOptional(key, value) == IF value = None THEN NoFields ELSE key :> value[1]

Json(m, fields) == Object(("type" :> Num(TypeNumber(m.type))) @@ fields)

InvocationToJson(m) ==
  Then(JsonValues(m.arguments), LAMBDA values :
    Ok(Json(m, InsertOptionalMap("headers", m.headers) @@ InsertOptionalString("invocationId", m.invocation_id)
               @@ Insert("target", Text(m.target)) @@ Insert("arguments", List(values))
               @@ InsertOptionalStringList("streamIds", m.stream_ids))))

StreamInvocationToJson(m) ==
  Ok(Json(m, InsertOptionalMap("headers", m.headers) @@ Insert("invocationId", Text(m.invocation_id))
             @@ Insert("target", Text(m.target)) @@ Insert("arguments", List(m.arguments))
             @@ InsertOptionalStringList("streamIds", m.stream_ids)))

StreamItemToJson(m) ==
  Ok(Json(m, InsertOptionalMap("headers", m.headers) @@ InsertOptionalString("invocationId", m.invocation_id)
             @@ Insert("item", m.item)))

CompletionToJson(m) ==
  Ok(Json(m, InsertOptionalMap("headers", m.headers) @@ Insert("invocationId", Text(m.invocation_id))
             @@ InsertOptionalString("error", m.error) @@ InsertOptional("result", m.result)))

CancelInvocationToJson(m) ==
  Ok(Json(m, InsertOptionalMap("headers", m.headers) @@ Insert("invocationId", Text(m.invocation_id))))

CloseToJson(m) ==
  Ok(Json(m, InsertOptionalString("error", m.error)
             @@ InsertOptional("allowReconnect", IF m.allow_reconnect = None THEN None
                                                 ELSE Some(Bool(m.allow_reconnect[1])))))

SequenceIdToJson(m) == Ok(Json(m, Insert("sequenceId", Num(m.sequence_id))))

ToJsonValue(m) ==
  CASE m.type = "Invocation" -> InvocationToJson(m)
    [] m.type = "StreamInvocation" -> StreamInvocationToJson(m)
    [] m.type = "StreamItem" -> StreamItemToJson(m)
    [] m.type = "Completion" -> CompletionToJson(m)
    [] m.type = "CancelInvocation" -> CancelInvocationToJson(m)
    [] m.type = "Ping" -> Ok(Json(m, NoFields))
    [] m.type = "Close" -> CloseToJson(m)
    [] m.type \in {"Ack", "Sequence"} -> SequenceIdToJson(m)
-----------------------------------------------------------------------------
\* serde_json::to_string() and from_str()
ToText(json) == <<<<"head", json>>, <<"tail">>>>
FromText(text) == IF Len(text) = 2 /\ text[1][1] = "head" /\ text[2] = <<"tail">> THEN Ok(text[1][2]) ELSE Err

\* The messages of a list of outcomes Ok(None) and Ok(Some(message)), an error if one of them is.
Collect(outcomes) ==
  Try(outcomes, FlattenSeq([i \in DOMAIN outcomes |-> outcomes[i][2]]))

JsonParseMessages(input) ==
  IF input[1] # "Text" THEN Err
  ELSE Then(TextParse(input[2]), LAMBDA texts :
         Collect([i \in DOMAIN texts |-> Then(FromText(texts[i]), LAMBDA value : Ok(FromJsonValue(value)))]))

JsonWriteMessage(m) ==
  Then(ToJsonValue(m), LAMBDA json : Ok(TextWrite(ToText(json))))
=============================================================================
