---------------------------- MODULE MessagePack ----------------------------
(***************************************************************************)
(* The MessagePack hub protocol (hub/messagepack): a message is an array   *)
(* of values, one per frame; the arguments of an invocation stay encoded.  *)
(* Items are numbered from 1, from 0 in the code.                          *)
(***************************************************************************)
EXTENDS JsonProtocol

ErrorResult == 1
VoidResult == 2
NonVoidResult == 3
-----------------------------------------------------------------------------
HeadersValue(headers) ==
  LET keys == SetToSeq(DOMAIN headers)
  IN Map([i \in DOMAIN keys |-> <<Str(keys[i]), Str(headers[keys[i]])>>])

OptionalStringValue(value) == IF value = None THEN Nil ELSE Str(value[1])

TypeValue(m) == Integer(TypeNumber(m.type))

\* The ids of the upload streams are one more item, if there are any.
StreamIdsItem(ids) ==
  IF ids = None \/ ids = Some(<<>>) THEN <<>> ELSE <<Array([i \in DOMAIN ids[1] |-> Str(ids[1][i])])>>

\* The kind of the result and the items that follow it
ResultKind(m) ==
  CASE m.error # None -> ErrorResult
    [] m.error = None /\ m.result # None -> NonVoidResult
    [] OTHER -> VoidResult
ResultItems(m) ==
  CASE ResultKind(m) = ErrorResult -> <<JsonToValue(Text(m.error[1]))>>
    [] ResultKind(m) = NonVoidResult -> <<JsonToValue(m.result[1])>>
    [] OTHER -> <<>>

WritePing(m) == Ok(<<TypeValue(m)>>)
WriteCancelInvocation(m) == Ok(<<TypeValue(m), HeadersValue(m.headers), Str(m.invocation_id)>>)
WriteCompletion(m) ==
  Ok(<<TypeValue(m), HeadersValue(m.headers), Str(m.invocation_id), Integer(ResultKind(m))>> \o ResultItems(m))
WriteStreamItem(m) ==
  Ok(<<TypeValue(m), HeadersValue(m.headers), OptionalStringValue(m.invocation_id), JsonToValue(m.item)>>)
WriteStreamInvocation(m) ==
  Ok(<<TypeValue(m), HeadersValue(m.headers), Str(m.invocation_id), Str(m.target), JsonArrayValue(m.arguments)>>
     \o StreamIdsItem(m.stream_ids))
WriteInvocation(m) ==
  Then(MessagepackValue(m.arguments), LAMBDA arguments :
    Ok(<<TypeValue(m), HeadersValue(m.headers), OptionalStringValue(m.invocation_id), Str(m.target), arguments>>
       \o StreamIdsItem(m.stream_ids)))
WriteClose(m) == Ok(<<TypeValue(m), Nil>>)
WriteAck(m) == Ok(<<TypeValue(m), Integer(m.sequence_id)>>)
WriteSequence(m) == Ok(<<TypeValue(m), Integer(m.sequence_id)>>)

PackPayload(items) == BinaryWrite(Encode(Array(items)))

WriteItems(m) ==
  CASE m.type = "Invocation" -> WriteInvocation(m)
    [] m.type = "StreamInvocation" -> WriteStreamInvocation(m)
    [] m.type = "StreamItem" -> WriteStreamItem(m)
    [] m.type = "Completion" -> WriteCompletion(m)
    [] m.type = "Ping" -> WritePing(m)
    [] m.type = "CancelInvocation" -> WriteCancelInvocation(m)
    [] m.type = "Close" -> WriteClose(m)
    [] m.type = "Ack" -> WriteAck(m)
    [] m.type = "Sequence" -> WriteSequence(m)

MessagePackWriteMessage(m) == Then(WriteItems(m), LAMBDA items : Ok(PackPayload(items)))
-----------------------------------------------------------------------------
\* decode_message(): the items, Nil where the encoded arguments were left out.
RECURSIVE DecodeItems(_, _, _, _)
DecodeItems(rest, n, index, decoded) ==
  IF Len(decoded.items) = n THEN Ok(decoded)
  ELSE IF Len(decoded.items) = index /\ decoded.items # <<>> /\ decoded.items[1] = Integer(TypeNumber("Invocation"))
  THEN Then(SkipValue(rest, 0), LAMBDA after :
         DecodeItems(after, n, index,
           [items |-> Append(decoded.items, Nil), raw |-> Some(SubSeq(rest, 1, Len(rest) - Len(after)))]))
  ELSE Then(ReadValue(rest), LAMBDA value :
         DecodeItems(value[2], n, index, [decoded EXCEPT !.items = Append(@, value[1])]))

\* The elements an array announces, and what follows its marker
ReadArrayLen(bytes) ==
  CASE bytes # <<>> /\ bytes[1][1] = "FixArray" -> Ok(<<bytes[1][2], Tail(bytes)>>)
    [] bytes # <<>> /\ bytes[1][1] = "Array16" -> ReadLen(Tail(bytes), 2)
    [] OTHER -> Err

DecodeMessage(frame, index) ==
  Then(ReadArrayLen(frame), LAMBDA array : DecodeItems(array[2], array[1], index, [items |-> <<>>, raw |-> None]))

\* Reading items
ValueToI64(v) == IF Is(v, "integer") THEN Ok(v[2]) ELSE Err
ValueToString(v) == IF Is(v, "str") THEN Ok(v[2]) ELSE Err
OptionalString(v) ==
  IF v = Nil THEN Ok(None) ELSE Then(ValueToString(v), LAMBDA string : Ok(Some(string)))

CreateMessageHeaders(data) ==
  LET pairs == data[2][2]
      key(i) == ValueToString(pairs[i][1])
      string(i) == ValueToString(pairs[i][2])
  IN CASE Len(data) < 2 -> Err
       [] Len(data) >= 2 /\ data[2] = Nil -> Ok(NoFields)
       [] Len(data) >= 2 /\ Is(data[2], "map") ->
            IF \E i \in DOMAIN pairs : IsErr(key(i)) \/ IsErr(string(i)) THEN Err
            ELSE Ok(FoldLeft(LAMBDA f, pair : (pair[1][2] :> pair[2][2]) @@ f, NoFields, pairs))
       [] OTHER -> Err

\* A message made of data with at least n items, none of whose parts failed
Create(data, n, parts, message) == IF Len(data) < n THEN Err ELSE Try(parts, message)

CreateCloseMessage(data) ==
  LET error == OptionalString(data[2])
  IN Create(data, 2, <<error>>,
       Close(error[2], IF Len(data) > 2 /\ Is(data[3], "boolean") THEN Some(data[3][2]) ELSE None))

CreatePingMessage(data) == Create(data, 1, <<>>, Ping)

CreateCompletionMessage(data) ==
  LET headers == CreateMessageHeaders(data)
      kind == ValueToI64(data[4])
      id == ValueToString(data[3])
      error == IF kind = Ok(ErrorResult) THEN OptionalString(data[5]) ELSE Ok(None)
      result == IF kind = Ok(NonVoidResult) THEN Some(ValueToJson(data[5])) ELSE None
  IN IF Len(data) < 4 \/ (kind # Ok(VoidResult) /\ Len(data) < 5) THEN Err
     ELSE Try(<<headers, kind, id, error>>, Completion(headers[2], id[2], error[2], result))

CreateStreamItemMessage(data) ==
  LET headers == CreateMessageHeaders(data)
      id == OptionalString(data[3])
  IN Create(data, 4, <<headers, id>>, StreamItem(headers[2], id[2], ValueToJson(data[4])))

CreateInvocationMessage(data, raw) ==
  LET headers == CreateMessageHeaders(data)
      id == OptionalString(data[3])
      target == ValueToString(data[4])
      arguments == IF raw = None THEN Err ELSE FromMessagepack(raw[1])
  IN Create(data, 5, <<headers, id, target, arguments>>,
       Invocation(headers[2], id[2], target[2], arguments[2], Some(<<>>)))

CreateAckMessage(data) == LET n == ValueToI64(data[2]) IN Create(data, 2, <<n>>, Ack(n[2]))
CreateSequenceMessage(data) == LET n == ValueToI64(data[2]) IN Create(data, 2, <<n>>, Sequence(n[2]))

\* The kind of message a list of items is: an error, none or some.
KindOf(data) ==
  IF data = <<>> \/ IsErr(ValueToI64(data[1])) THEN Err ELSE Ok(FromI32(AsI32(data[1][2])))

Present(message) == Then(message, LAMBDA m : Ok(Some(m)))

ParseMessage(data, raw) ==
  LET kind == KindOf(data)
  IN CASE IsErr(kind) -> Err
       [] kind = Ok(Some("Invocation")) -> Present(CreateInvocationMessage(data, raw))
       [] kind = Ok(Some("StreamItem")) -> Present(CreateStreamItemMessage(data))
       [] kind = Ok(Some("Completion")) -> Present(CreateCompletionMessage(data))
       [] kind = Ok(Some("Ping")) -> Present(CreatePingMessage(data))
       [] kind = Ok(Some("Close")) -> Present(CreateCloseMessage(data))
       [] kind = Ok(Some("Ack")) -> Present(CreateAckMessage(data))
       [] kind = Ok(Some("Sequence")) -> Present(CreateSequenceMessage(data))
       [] OTHER -> Ok(None)

\* The frames of the input; there is at least one.
FramesOf(input) ==
  IF input[1] # "Binary" THEN Err
  ELSE Then(BinaryParse(input[2]), LAMBDA frames : IF frames = <<>> THEN Err ELSE Ok(frames))

MessagePackParseMessages(input) ==
  Then(FramesOf(input), LAMBDA frames :
    Collect([i \in DOMAIN frames |->
      Then(DecodeMessage(frames[i], 4), LAMBDA decoded : ParseMessage(decoded.items, decoded.raw))]))
=============================================================================
