------------------------------ MODULE Receive ------------------------------
(***************************************************************************)
(* What happens to a transport message from the server: the handshake      *)
(* response and the messages that may follow it (connection.rs), parsing   *)
(* by the hub protocol and dispatch of one message after the other         *)
(* (runtime.rs, dispatch.rs), the handlers of an invocation, registered    *)
(* and removed meanwhile (bus.rs, mod.rs), and the answer to it.           *)
(*                                                                         *)
(* The pending invocations and the message buffer, where the other         *)
(* messages go, are in Invocations and StatefulReconnect.                  *)
(***************************************************************************)
EXTENDS MessagePackBrotli

CONSTANTS
  Scenarios,  \* by name, records: the hub protocols, what the server may send, with the handshake response (first) and later,
              \* whether it may be cut short, and which on() and off() calls there are, at most how many
  Names,      \* the names methods are registered and called by
  Lower,      \* their lower case: a function
  Results,    \* what handlers return: JSON values
  MaxFrames   \* bound: transport messages after the handshake

ASSUME ReceiveAssumption == Lower \in [Names -> Names] /\ MaxFrames \in Nat

VARIABLES
  scenario,  \* the name of one of Scenarios
  protocol,  \* the hub protocol
  link,      \* "connecting", "up", "failed" (connect() returned an error), "closing" or "lost"
  frames,    \* transport messages received after the handshake
  queue,     \* messages of the transport message that dispatch() has not had yet
  call,      \* the invocation whose handlers are running: None or Some(record)
  handlers,  \* MessageBus::handlers: the handlers per name
  nextId,    \* NEXT_HANDLER_ID
  sent,      \* history: what the last transport message held, and whether it was damaged
  seen,      \* history: its messages, as dispatch() had them
  log,       \* history: the on() and off() calls
  answers    \* history: for every invocation answered, its id, its call and the answer

vars == <<scenario, protocol, link, frames, queue, call, handlers, nextId, sent, seen, log, answers>>

Scenario == Scenarios[scenario]

AllProtocols == {"json", "messagepack", "brotli"}
Format == IF protocol = "json" THEN "Text" ELSE "Binary"

ParseMessages(input) ==
  CASE protocol = "json" -> JsonParseMessages(input)
    [] protocol = "messagepack" -> MessagePackParseMessages(input)
    [] protocol = "brotli" -> BrotliParseMessages(input)

WriteMessage(m) ==
  CASE protocol = "json" -> JsonWriteMessage(m)
    [] protocol = "messagepack" -> MessagePackWriteMessage(m)
    [] protocol = "brotli" -> BrotliWriteMessage(m)
-----------------------------------------------------------------------------
(***************************************************************************)
(* The server.  It writes a message the way the client does, with two      *)
(* differences in the binary protocols: Close has its fields, and what is  *)
(* marked as compressed is.  "Future" is a type this client does not know. *)
(***************************************************************************)
FutureType == 10

\* The item, of all the items of a message, that may be compressed
PayloadIndex(m) == CASE m.type \in {"Invocation", "StreamInvocation", "Completion"} -> 6 [] OTHER -> 5

CompressItem(items, index) ==
  IF Len(items) < index THEN items
  ELSE [items EXCEPT ![index - 1] = Integer(1), ![index] = Binary(Compress(Encode(items[index])))]

ServerItems(m, compressed) ==
  CASE m.type = "Future" -> <<Integer(FutureType), Nil>>
    [] m.type = "Close" ->
         <<TypeValue(m), OptionalStringValue(m.error)>>
           \o (IF m.allow_reconnect = None THEN <<>> ELSE <<Boolean(m.allow_reconnect[1])>>)
    [] OTHER ->
         IF protocol # "brotli" THEN WriteItems(m)[2]
         ELSE IF compressed /\ m.type \in {"Invocation", "StreamInvocation", "StreamItem", "Completion"}
         THEN CompressItem(WriteItemsBrotli(m)[2], PayloadIndex(m)) ELSE WriteItemsBrotli(m)[2]

ServerWrite(m, compressed) ==
  CASE protocol # "json" -> PackPayload(ServerItems(m, compressed))
    [] protocol = "json" /\ m.type = "Future" -> TextWrite(ToText(Object("type" :> Num(FutureType))))
    [] OTHER -> JsonWriteMessage(m)[2]

ServerFrame(messages, compressed) ==
  FlattenSeq([i \in DOMAIN messages |-> ServerWrite(messages[i], compressed)])

HandshakeText(error) ==
  TextWrite(ToText(Object(IF error = None THEN NoFields ELSE "error" :> Text(error[1]))))

\* A transport message arrives whole, or only its first units do.
Arrives(units) ==
  {[data |-> SubSeq(units, 1, n), whole |-> n = Len(units)] :
     n \in IF Scenario.damage THEN 1..Len(units) ELSE {Len(units)}}
-----------------------------------------------------------------------------
\* Variant of ParseResponse: the error is not read.
ParseResponseOnly(data) ==
  LET split == SplitHandshake(data)
  IN Try(<<split>>, [error |-> None, remaining |-> split[2].remaining])

\* handshake.rs: parse_response()
ParseResponse(data) ==
  Then(SplitHandshake(data), LAMBDA split :
    Then(TextParse(split.response), LAMBDA texts :
      IF texts = <<>> THEN Err
      ELSE Then(FromText(texts[1]), LAMBDA json :
             Ok([error |-> Field(json[2], "error", "string"), remaining |-> split.remaining]))))

\* connection.rs: parse_initial_messages()
ParseInitialMessages(remaining) == IF remaining = None THEN Ok(<<>>) ELSE ParseMessages(<<Format, remaining[1]>>)

Init ==
  /\ scenario \in DOMAIN Scenarios
  /\ protocol \in Scenario.protocols
  /\ link = "connecting"
  /\ frames = 0
  /\ queue = <<>>
  /\ call = None
  /\ handlers = [name \in Names |-> <<>>]
  /\ nextId = 1
  /\ sent = [messages |-> <<>>, whole |-> TRUE, accepted |-> TRUE]
  /\ seen = <<>>
  /\ log = <<>>
  /\ answers = <<>>

\* connect() from the handshake response on: an error of any step makes it fail.
\* The messages that came with the response are dispatched first.
HandshakeOutcome(data) ==
  Then(ParseResponse(data), LAMBDA response :
    IF response.error # None THEN Err ELSE ParseInitialMessages(response.remaining))

Handshake ==
  /\ link = "connecting"
  /\ \E f \in Scenario.first, error \in {None, Some("e")} :
       \E a \in Arrives(HandshakeText(error) \o ServerFrame(f.messages, f.compressed)) :
         LET messages == HandshakeOutcome(a.data)
         IN /\ sent' = [messages |-> f.messages, whole |-> a.whole, accepted |-> error = None]
            /\ link' = IF IsErr(messages) THEN "failed" ELSE "up"
            /\ queue' = UnwrapOr(messages, <<>>)
  /\ UNCHANGED <<scenario, protocol, frames, call, handlers, nextId, seen, log, answers>>

Idle == queue = <<>> /\ call = None

\* process_text() and process_binary(): a message that cannot be parsed costs
\* all the others of the same transport message.
ReceiveFrame ==
  /\ link = "up"
  /\ Idle
  /\ frames < MaxFrames
  /\ \E f \in Scenario.frames :
       \E a \in Arrives(ServerFrame(f.messages, f.compressed)) :
         /\ sent' = [messages |-> f.messages, whole |-> a.whole, accepted |-> TRUE]
         /\ queue' = UnwrapOr(ParseMessages(<<Format, a.data>>), <<>>)
  /\ frames' = frames + 1
  /\ seen' = <<>>
  /\ answers' = <<>>
  /\ UNCHANGED <<scenario, protocol, link, call, handlers, nextId, log>>

\* The transport goes away.
Lose ==
  /\ link = "up"
  /\ Scenario.lossy
  /\ link' = "lost"
  /\ UNCHANGED <<scenario, protocol, frames, queue, call, handlers, nextId, sent, seen, log, answers>>
-----------------------------------------------------------------------------
\* bus.rs: register_handler()
RegisterHandler(name, kind) ==
  /\ handlers' = [handlers EXCEPT ![Lower[name]] = Append(@, [id |-> nextId, kind |-> kind])]
  /\ nextId' = nextId + 1
  /\ log' = Append(log, [op |-> "on", name |-> name, id |-> nextId])

\* Variant of RemoveHandler: the name is taken as it is written.
RemoveHandlerAsNamed(name, id) ==
  /\ handlers' = [handlers EXCEPT ![name] =
                    IF id = None THEN <<>> ELSE SelectSeq(@, LAMBDA h : h.id # id[1])]
  /\ log' = Append(log, [op |-> "off", name |-> name, id |-> id])

\* bus.rs: remove_handler(); a name without handlers and one that is not there are the same.
RemoveHandler(name, id) ==
  /\ handlers' = [handlers EXCEPT ![Lower[name]] =
                    IF id = None THEN <<>> ELSE SelectSeq(@, LAMBDA h : h.id # id[1])]
  /\ log' = Append(log, [op |-> "off", name |-> name, id |-> id])

HandlersFor(target) == handlers[Lower[target]]

\* on(), on_typed() and on_async(); off() and off_handler()
On ==
  /\ Len(log) < Scenario.calls
  /\ \E on \in Scenario.on : RegisterHandler(on.name, on.kind)
  /\ UNCHANGED <<scenario, protocol, link, frames, queue, call, sent, seen, answers>>

Off ==
  /\ Len(log) < Scenario.calls
  /\ \E name \in Scenario.off, id \in {None} \cup {Some(i) : i \in 1..nextId - 1} : RemoveHandler(name, id)
  /\ UNCHANGED <<scenario, protocol, link, frames, queue, call, nextId, sent, seen, answers>>
-----------------------------------------------------------------------------
\* The handlers registered for a target by now, from the calls alone: on() under
\* its name in any case, not removed since, neither with all of the name nor alone.
Registered(target) ==
  LET same(i) == Lower[log[i].name] = Lower[target]
      live == {i \in DOMAIN log :
                 /\ log[i].op = "on" /\ same(i)
                 /\ ~\E j \in i + 1..Len(log) :
                       /\ log[j].op = "off" /\ same(j)
                       /\ log[j].id \in {None, Some(log[i].id)}}
  IN [k \in 1..Cardinality(live) |->
        log[CHOOSE i \in live : Cardinality({j \in live : j <= i}) = k].id]

\* Outcomes of handlers
NotReadable == "cannot read invocation arguments"
Outcome(kind, arguments) ==
  LET values == JsonValues(arguments)
  IN CASE IsErr(values) -> {<<"Err", NotReadable>>}
       [] ~IsErr(values) /\ kind = "on" -> {<<"Ok", None>>} \cup {<<"Ok", Some(v)>> : v \in Results}
       [] ~IsErr(values) /\ kind = "on_typed" ->  \* a type with one field
            IF Len(values[2]) = 1 THEN {<<"Ok", None>>} ELSE {<<"Err", NotReadable>>}
       [] OTHER -> {<<"Ok", None>>, <<"Err", "failed">>} \cup {<<"Ok", Some(v)>> : v \in Results}

NoResult == "Client didn't provide a result."
MultipleResults == "Client provided multiple results."
NoHeaders == NoFields

\* Variant of SendCompletion, and its first case: the transport works.
SendCompletionUp(message, c, error, result) ==
  /\ link = "up"
  /\ answers' = Append(answers,
       [id |-> message.invocation_id[1], call |-> c,
        bytes |-> WriteMessage(Completion(NoHeaders, message.invocation_id[1], error, result))[2]])
  /\ queue' = Tail(queue)

\* send_completion(): writes the answer, or fails once the transport is gone; a
\* failure ends dispatch() and with it the rest of the transport message.
SendCompletion(message, c, error, result) ==
  \/ SendCompletionUp(message, c, error, result)
  \/ /\ link = "lost"
     /\ queue' \in {<<>>, Tail(queue)}
     /\ UNCHANGED answers

\* An invocation whose handlers start to run
NewCall(message) ==
  [todo |-> HandlersFor(message.target), called |-> <<>>, outcomes |-> <<>>,
   result |-> None, error |-> None, multiple |-> FALSE, registered |-> Registered(message.target)]

\* handle_invocation() without handlers
Unhandled(message) ==
  /\ HandlersFor(message.target) = <<>>
  /\ IF message.invocation_id = None
     THEN queue' = Tail(queue) /\ UNCHANGED answers
     ELSE SendCompletion(message, NewCall(message), Some(NoResult), None)
  /\ UNCHANGED <<link, call>>

\* handle_invocation() up to the first handler: from here on, the handlers it found run.
Begin(message) ==
  /\ HandlersFor(message.target) # <<>>
  /\ call' = Some(NewCall(message))
  /\ UNCHANGED <<link, queue, answers>>

\* handle_close() up to transport.close(), which it awaits.
HandleClose(message) ==
  /\ link' = "closing"
  /\ UNCHANGED <<queue, call, answers>>

Other(message) == queue' = Tail(queue) /\ UNCHANGED <<link, call, answers>>

Dispatch ==
  /\ queue # <<>>
  /\ call = None
  /\ link \in {"up", "lost"}
  /\ LET message == Head(queue)
     IN /\ seen' = Append(seen, message)
        /\ CASE message.type = "Invocation" -> Unhandled(message) \/ Begin(message)
             [] message.type = "Close" -> HandleClose(message)
             [] OTHER -> Other(message)
  /\ UNCHANGED <<scenario, protocol, frames, handlers, nextId, sent, log>>

\* handle_close(): close() has returned, which it need not; an error ends dispatch()
\* and with it the rest of the transport message.
CloseReturned ==
  /\ link = "closing"
  /\ link' = "lost"
  /\ queue' \in {<<>>, Tail(queue)}
  /\ UNCHANGED <<scenario, protocol, frames, call, handlers, nextId, sent, seen, log, answers>>

\* Variant of TakeOutcome: the last result counts.
TakeOutcomeLast(c, outcome, expectsResponse) ==
  CASE outcome[1] = "Err" -> [c EXCEPT !.error = Some(outcome[2])]
    [] outcome[1] = "Ok" /\ outcome[2] # None -> [c EXCEPT !.result = outcome[2]]
    [] OTHER -> c

\* The match on what a handler returned
TakeOutcome(c, outcome, expectsResponse) ==
  CASE outcome[1] = "Err" -> IF c.multiple THEN c ELSE [c EXCEPT !.error = Some(outcome[2])]
    [] outcome[1] = "Ok" /\ outcome[2] # None ->
         IF expectsResponse /\ c.result # None
         THEN [c EXCEPT !.multiple = TRUE, !.error = None]
         ELSE [c EXCEPT !.result = outcome[2]]
    [] OTHER -> c

\* handle_invocation(): the next handler runs to its end.
RunHandler ==
  /\ call # None
  /\ call[1].todo # <<>>
  /\ LET message == Head(queue)
         c == call[1]
         h == Head(c.todo)
     IN \E outcome \in Outcome(h.kind, message.arguments) :
          call' = Some(TakeOutcome([c EXCEPT !.todo = Tail(@), !.called = Append(@, h.id),
                                             !.outcomes = Append(@, outcome)],
                                   outcome, message.invocation_id # None))
  /\ UNCHANGED <<scenario, protocol, link, frames, queue, handlers, nextId, sent, seen, log, answers>>

\* handle_invocation(): the answer, once all handlers have returned.
Finish ==
  /\ call # None
  /\ call[1].todo = <<>>
  /\ LET message == Head(queue)
         c == call[1]
         error == CASE c.multiple -> Some(MultipleResults)
                    [] ~c.multiple /\ c.error # None -> c.error
                    [] OTHER -> IF c.result = None THEN Some(NoResult) ELSE None
     IN IF message.invocation_id = None
        THEN queue' = Tail(queue) /\ UNCHANGED answers
        ELSE SendCompletion(message, c, error, IF error = None THEN c.result ELSE None)
  /\ call' = None
  /\ UNCHANGED <<scenario, protocol, link, frames, handlers, nextId, sent, seen, log>>

\* The receive task is aborted while it waits for a handler or for the transport.
Abort ==
  /\ link \in {"closing", "lost"}
  /\ ~Idle
  /\ link' = "lost"
  /\ queue' = <<>>
  /\ call' = None
  /\ UNCHANGED <<scenario, protocol, frames, handlers, nextId, sent, seen, log, answers>>

Next ==
  \/ Handshake \/ ReceiveFrame \/ Lose \/ On \/ Off
  \/ Dispatch \/ CloseReturned \/ RunHandler \/ Finish \/ Abort

Spec == Init /\ [][Next]_vars

\* The receive task runs, handlers return, and a write to the transport ends.
FairSpec == Spec /\ WF_vars(Dispatch) /\ WF_vars(RunHandler) /\ WF_vars(Finish)
-----------------------------------------------------------------------------
(***************************************************************************)
(* Properties                                                              *)
(***************************************************************************)

\* What the server means by a message and the client makes of it, whatever the protocol.
View(m) ==
  CASE m.type = "Invocation" -> <<m.type, m.headers, m.invocation_id, m.target, JsonValues(m.arguments)>>
    [] m.type = "StreamItem" -> <<m.type, m.headers, m.invocation_id, m.item>>
    [] m.type = "Completion" ->
         <<m.type, m.headers, m.invocation_id,
           CASE m.error # None -> <<"Err", m.error[1]>>
             [] m.error = None /\ m.result # None -> <<"Ok", m.result[1]>>
             [] OTHER -> <<"Ok", Null>>>>
    [] m.type = "Close" -> <<m.type, m.error, m.allow_reconnect>>
    [] m.type \in {"Ack", "Sequence"} -> <<m.type, m.sequence_id>>

\* The messages that mean anything to the client
Meant == {"Invocation", "StreamItem", "Completion", "Close", "Ack", "Sequence"}
Views(messages) ==
  LET meant == SelectSeq(messages, LAMBDA m : m.type \in Meant) IN [i \in DOMAIN meant |-> View(meant[i])]

Waiting == IF call = None /\ link # "closing" THEN queue ELSE Tail(queue)

\* In every protocol, compressed or not, and with or without the handshake response
\* in front, the client dispatches the messages of a transport message as the server
\* meant them and in its order: all of them if it arrived whole, and however it was
\* cut short, never anything but its first messages.
MessagesAsSent ==
  LET had == Views(seen \o Waiting)
      meant == Views(sent.messages)
  IN /\ IsPrefix(had, meant)
     /\ sent.whole /\ link = "up" => had = meant

\* connect() succeeds only if the server accepted the handshake, and if it did
\* and its response arrived whole, connect() does not fail.
ConnectedIfAccepted ==
  frames = 0 =>
    /\ link \in {"up", "closing", "lost"} => sent.accepted
    /\ link = "failed" => ~(sent.accepted /\ sent.whole)

Ids(s) == [i \in DOMAIN s |-> s[i].id]

\* An invocation runs the handlers that on(), off() and off_handler() left registered
\* for its method when it was dispatched, each once and in the order of registration,
\* whatever is registered or removed while they run and in whichever case names are written.
HandlersAsRegistered ==
  /\ call # None => call[1].called \o Ids(call[1].todo) = call[1].registered
  /\ \A i \in DOMAIN answers : answers[i].call.called = answers[i].call.registered

\* What the server should be answered, from the outcomes of the handlers alone.
Promised(outcomes) ==
  LET results == SelectSeq(outcomes, LAMBDA o : o[1] = "Ok" /\ o[2] # None)
      errors == SelectSeq(outcomes, LAMBDA o : o[1] = "Err")
  IN CASE Len(results) > 1 -> <<"Err", MultipleResults>>
       [] Len(results) <= 1 /\ errors # <<>> -> <<"Err", Last(errors)[2]>>
       [] Len(results) = 1 /\ errors = <<>> -> <<"Ok", results[1][2][1]>>
       [] OTHER -> <<"Err", NoResult>>

Expecting(messages) ==
  LET invocations == SelectSeq(messages, LAMBDA m : m.type = "Invocation" /\ m.invocation_id # None)
  IN [i \in DOMAIN invocations |-> invocations[i].invocation_id[1]]

\* While the transport lasts, the server has exactly one completion for each invocation
\* it expects an answer to, in order, and reads from it what the handlers returned: the
\* error if there was one, the only result otherwise, an error if there was none or more than one.
AnsweredOnce ==
  /\ \A i \in DOMAIN answers :
       Views(UnwrapOr(ParseMessages(<<Format, answers[i].bytes>>), <<>>)) =
         <<<<"Completion", NoHeaders, answers[i].id, Promised(answers[i].call.outcomes)>>>>
  /\ link = "up" => Ids(answers) = Expecting(IF call = None THEN seen ELSE Front(seen))

\* The receive task comes to the end of every transport message, the connection lost
\* or not, if close() of the transport returns to it; so, by AnsweredOnce, if the
\* connection is not lost, every invocation that expects an answer gets one.
FramesEnd == []<>(link # "closing") => (~Idle ~> Idle)
=============================================================================
