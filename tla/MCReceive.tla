----------------------------- MODULE MCReceive -----------------------------
(***************************************************************************)
(* Receive for TLC.  Two scenarios: every kind of message and value, cut   *)
(* at every unit; and a few invocations with handlers coming and going.    *)
(***************************************************************************)
EXTENDS Receive

MCNames == {"A", "a", "b"}
MCLower == [n \in MCNames |-> IF n = "b" THEN "b" ELSE "a"]
MCResults == {Num(1)}

H == "h" :> "v"
Nested == List(<<Num(9), List(<<Num(2)>>)>>)   \* as deep as MaxDepth allows in an argument
Wide == List([i \in 1..8 |-> Num(1)])
Keyed == Object(("k" :> Text("s")) @@ ("l" :> Bool(TRUE)))
Void == Object(NoFields)

Called(id, target, arguments) == Invocation(NoFields, id, target, JsonArguments(arguments), None)

Messages ==
  {Called(None, "A", <<>>), Called(Some("1"), "b", <<Nested>>), Called(Some("1"), "a", <<Keyed, Wide>>),
   Called(None, "a", <<Null, Void, Text("s"), Bool(FALSE)>>),
   Invocation(H, Some("1"), "a", JsonArguments(<<Num(1)>>), Some(<<"2">>)),
   StreamItem(NoFields, Some("1"), Keyed), StreamItem(H, None, Num(9)), StreamItem(NoFields, Some("2"), Null),
   Completion(NoFields, "1", None, None), Completion(H, "1", Some("e"), None),
   Completion(NoFields, "2", None, Some(Nested)), Completion(NoFields, "2", None, Some(Null)),
   StreamInvocation(NoFields, "1", "a", <<Num(1)>>, Some(<<"2">>)), CancelInvocation(NoFields, "1"),
   Ping, [type |-> "Future"], Close(None, None), Close(Some("e"), Some(TRUE)), Close(None, Some(FALSE)),
   Ack(3), Sequence(9)}

Frame(messages, compressed) == [messages |-> messages, compressed |-> compressed]

Codec ==
  [protocols |-> AllProtocols,
   first |-> {Frame(<<>>, FALSE), Frame(<<Called(Some("1"), "a", <<Keyed>>), Ack(3)>>, TRUE)},
   frames |-> {Frame(<<m>>, c) : m \in Messages, c \in BOOLEAN}
                \cup {Frame(<<m, n>>, FALSE) : m \in Messages, n \in {Called(Some("2"), "A", <<Keyed>>), Ping, Close(None, None)}},
   damage |-> TRUE, lossy |-> FALSE, on |-> {}, off |-> {}, calls |-> 0]

Calls ==
  [protocols |-> {"json"},
   first |-> {Frame(<<>>, FALSE)},
   frames |-> {Frame(<<Called(Some("1"), "a", <<Num(1)>>)>>, FALSE),
               Frame(<<Called(Some("1"), "A", <<>>), Called(None, "a", <<Num(1)>>), Called(Some("2"), "b", <<>>)>>, FALSE)},
   damage |-> FALSE, lossy |-> TRUE, off |-> {"A", "a"}, calls |-> 3,
   on |-> {[name |-> "A", kind |-> "on"], [name |-> "a", kind |-> "on_async"], [name |-> "A", kind |-> "on_typed"]}]

MCScenarios == [codec |-> Codec, calls |-> Calls]
=============================================================================
