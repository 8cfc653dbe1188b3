------------------------- MODULE MessagePackBrotli -------------------------
(***************************************************************************)
(* The MessagePack hub protocol with compressed payloads                   *)
(* (hub/messagepack/brotli): an item says whether the payload after it is  *)
(* compressed.  The client compresses nothing itself.                      *)
(***************************************************************************)
EXTENDS MessagePack

\* Brotli: what data is compressed to, and what decoding gives
Compress(bytes) == <<<<"brotli", bytes>>>>
DecodeBrotli(bytes) == IF Len(bytes) = 1 /\ bytes[1][1] = "brotli" THEN Ok(bytes[1][2]) ELSE Err

NotCompressed == Integer(0)
-----------------------------------------------------------------------------
\* Where the item goes that says whether the payload is compressed: before the
\* arguments of an invocation, before the item of a stream, before a result.
WriteInvocationBrotli(m) ==
  Then(WriteInvocation(m), LAMBDA items : Ok(InsertAt(items, 5, NotCompressed)))
WriteStreamInvocationBrotli(m) == Ok(InsertAt(WriteStreamInvocation(m)[2], 5, NotCompressed))
WriteStreamItemBrotli(m) == Ok(InsertAt(WriteStreamItem(m)[2], 4, NotCompressed))
WriteCompletionBrotli(m) ==
  LET items == WriteCompletion(m)[2]
  IN Ok(IF ResultKind(m) = VoidResult THEN items ELSE InsertAt(items, 5, NotCompressed))

WriteItemsBrotli(m) ==
  CASE m.type = "Invocation" -> WriteInvocationBrotli(m)
    [] m.type = "StreamInvocation" -> WriteStreamInvocationBrotli(m)
    [] m.type = "StreamItem" -> WriteStreamItemBrotli(m)
    [] m.type = "Completion" -> WriteCompletionBrotli(m)
    [] OTHER -> WriteItems(m)

BrotliWriteMessage(m) == Then(WriteItemsBrotli(m), LAMBDA items : Ok(PackPayload(items)))
-----------------------------------------------------------------------------
\* value_to_bytes(): Some(bytes) of a byte string or of an array of numbers
ValueToBytes(v) ==
  CASE Is(v, "binary") -> Some(v[2])
    [] Is(v, "arr") ->
         IF \E i \in DOMAIN v[2] : ~Is(v[2][i], "integer") THEN None
         ELSE Some([i \in DOMAIN v[2] |-> Byte(v[2][i][2] % (2 * Base))])
    [] OTHER -> None

IsCompressed(data, index) == Len(data) >= index /\ data[index] = Integer(1)

\* unpack_data(): Ok(Some(value)), Ok(None) or an error, of the item after the flag
UnpackData(data, index) ==
  LET bytes == ValueToBytes(data[index + 1])
  IN CASE Len(data) <= index -> Ok(None)
       [] Len(data) > index /\ ~IsCompressed(data, index) -> Ok(Some(data[index + 1]))
       [] Len(data) > index /\ IsCompressed(data, index) /\ bytes = None -> Ok(None)
       [] OTHER -> 
            Then(DecodeBrotli(bytes[1]), LAMBDA plain : Then(ReadValue(plain), LAMBDA value : Ok(Some(value[1]))))

CreateCompletionMessageBrotli(data) ==
  LET headers == CreateMessageHeaders(data)
      kind == ValueToI64(data[4])
      id == ValueToString(data[3])
      unpacked == IF kind \in {Ok(ErrorResult), Ok(NonVoidResult)} THEN UnpackData(data, 5) ELSE Ok(None)
  IN IF Len(data) < 4 \/ (kind # Ok(VoidResult) /\ Len(data) < 5) THEN Err
     ELSE Try(<<headers, kind, id, unpacked>>,
            IF kind = Ok(ErrorResult)
            THEN Completion(headers[2], id[2], As("str", unpacked[2]), None)
            ELSE Completion(headers[2], id[2], None,
                            IF unpacked[2] = None THEN None ELSE Some(ValueToJson(unpacked[2][1]))))

CreateStreamItemMessageBrotli(data) ==
  LET headers == CreateMessageHeaders(data)
      id == OptionalString(data[3])
      unpacked == UnpackData(data, 4)
  IN Create(data, 5, <<headers, id, unpacked>>,
       StreamItem(headers[2], id[2], IF unpacked[2] = None THEN Null ELSE ValueToJson(unpacked[2][1])))

\* The arguments an invocation carries; none at all when the message ends before them.
ArgumentsBrotli(data, raw) ==
  CASE raw = None -> Ok(JsonArguments(<<>>))
    [] raw # None /\ ~IsCompressed(data, 5) -> FromMessagepack(raw[1])
    [] OTHER ->
         Then(ReadValue(raw[1]), LAMBDA packed :
           LET bytes == ValueToBytes(packed[1])
           IN IF bytes = None THEN Err ELSE Then(DecodeBrotli(bytes[1]), FromMessagepack))

CreateInvocationMessageBrotli(data, raw) ==
  LET headers == CreateMessageHeaders(data)
      id == OptionalString(data[3])
      target == ValueToString(data[4])
      arguments == ArgumentsBrotli(data, raw)
  IN Create(data, 5, <<headers, id, target, arguments>>,
       Invocation(headers[2], id[2], target[2], arguments[2], Some(<<>>)))

CreateStreamInvocationMessageBrotli(data) ==
  LET headers == CreateMessageHeaders(data)
      id == ValueToString(data[3])
      target == ValueToString(data[4])
      unpacked == UnpackData(data, 5)
      arguments == CASE IsErr(unpacked) -> Err
                     [] unpacked = Ok(None) -> Ok(<<>>)
                     [] OTHER -> ValueToJsonArray(unpacked[2][1])
  IN Create(data, 6, <<headers, id, target, unpacked, arguments>>,
       StreamInvocation(headers[2], id[2], target[2], arguments[2], Some(<<>>)))

ParseMessageBrotli(data, raw) ==
  LET kind == KindOf(data)
  IN CASE IsErr(kind) -> Err
       [] kind = Ok(Some("Invocation")) -> Present(CreateInvocationMessageBrotli(data, raw))
       [] kind = Ok(Some("StreamInvocation")) -> Present(CreateStreamInvocationMessageBrotli(data))
       [] kind = Ok(Some("StreamItem")) -> Present(CreateStreamItemMessageBrotli(data))
       [] kind = Ok(Some("Completion")) -> Present(CreateCompletionMessageBrotli(data))
       [] OTHER -> ParseMessage(data, raw)

BrotliParseMessages(input) ==
  Then(FramesOf(input), LAMBDA frames :
    Collect([i \in DOMAIN frames |->
      Then(DecodeMessage(frames[i], 5), LAMBDA decoded : ParseMessageBrotli(decoded.items, decoded.raw))]))
=============================================================================
