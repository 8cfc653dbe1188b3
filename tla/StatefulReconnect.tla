------------------------- MODULE StatefulReconnect -------------------------
(***************************************************************************)
(* Stateful reconnect of one hub connection: the MessageBuffer             *)
(* (src/hub_connection/message_buffer.rs), the callers that send through   *)
(* it (send_through in mod.rs), the receive task that consults it          *)
(* (dispatch.rs), the supervisor that reopens a dropped transport          *)
(* (resume_transport in mod.rs) and the delayed Ack timer.  The transport  *)
(* is a pair of FIFO channels that a drop cuts; the server is external and *)
(* follows the same protocol.                                              *)
(*                                                                         *)
(* An invocation message of the client is its id; one of the server is its *)
(* position.  Item 0 is a Completion the dispatcher sends by itself.       *)
(***************************************************************************)
EXTENDS Naturals, Sequences, FiniteSets, FiniteSetsExt, TransportItems

CONSTANTS
    Senders,      \* tasks that call send(), invoke(), stream(), ...
    Size,         \* Size[m]: the length of the serialized message m
    BufferSize,   \* stateful_reconnect_buffer_size
    Asks,         \* positions of server invocations that expect a result
    MaxOut,       \* bound: messages the client sends
    MaxIn,        \* bound: messages the server sends
    MaxDrops      \* bound: transport drops

ASSUME ReconnectAssumption ==
    /\ MaxOut \in Nat /\ MaxIn \in Nat /\ MaxDrops \in Nat
    /\ BufferSize \in Nat
    /\ Size \in [1..MaxOut -> Nat]
    /\ Asks \subseteq 1..MaxIn

VARIABLES
    (* MessageBuffer, sending side *)
    messages,      \* ids of the buffered items
    total,         \* total_message_count
    byte_count,    \* buffered_byte_count
    room,          \* ids of the items that hold a backpressure sender
    reconnecting,  \* reconnect_in_progress
    (* MessageBuffer, receiving side *)
    wait_for_sequence,   \* wait_for_sequence_message
    next_id,       \* next_receiving_sequence_id
    latest,        \* latest_received_sequence_id
    ack_scheduled, \* ack_scheduled
    ack_transport, \* the transport the ack timer captured
    ack_fired,     \* the timer has fired and sends its Ack
    (* tasks *)
    pc,            \* where each sender is
    sending,       \* the id of its message
    supervisor,    \* where the supervisor is
    cursor,        \* resend(): ids below it have been sent
    runtime,       \* the transport of the HubRuntime that callers see
    (* transports, numbered in the order they are opened *)
    transport,     \* the newest one
    link,          \* its condition: "up", "broken" or "closed" by the client
    up,            \* items on their way to the server
    down,          \* items on their way to the client
    drops,         \* drops so far
    (* server *)
    s_wait, s_next, s_latest,   \* the same as the client's
    s_total, s_acked,           \* messages sent, and acknowledged by the client
    (* history *)
    got_up,        \* messages the server delivered to the hub
    got_down,      \* messages the client delivered to handlers and callers
    torn           \* messages of a frame were discarded

outVars == <<messages, total, byte_count, room>>
ackVars == <<ack_scheduled, ack_transport, ack_fired>>
inVars == <<next_id, latest, ackVars, got_down, torn>>
senderVars == <<pc, sending>>
resumeVars == <<supervisor, cursor, runtime>>
linkVars == <<transport, link, drops>>
serverVars == <<s_wait, s_next, s_latest, s_total, s_acked, got_up>>
vars == <<outVars, reconnecting, wait_for_sequence, inVars, senderVars,
          resumeVars, linkVars, up, down, serverVars>>

\* A connection that has just completed its handshake.
Init ==
    /\ messages = {} /\ total = 0 /\ byte_count = 0 /\ room = {}
    /\ reconnecting = FALSE
    /\ wait_for_sequence = FALSE
    /\ next_id = 1 /\ latest = 0
    /\ ack_scheduled = FALSE /\ ack_transport = 0 /\ ack_fired = FALSE
    /\ pc = [s \in Senders |-> "idle"]
    /\ sending = [s \in Senders |-> 0]
    /\ supervisor = "watch" /\ cursor = 0 /\ runtime = 0
    /\ transport = 0 /\ link = "up" /\ drops = 0
    /\ up = <<>> /\ down = <<>>
    /\ s_wait = FALSE /\ s_next = 1 /\ s_latest = 0
    /\ s_total = 0 /\ s_acked = 0
    /\ got_up = <<>> /\ got_down = <<>> /\ torn = FALSE

\* MessageBuffer::disconnected()
Disconnected ==
    /\ reconnecting' = TRUE
    /\ wait_for_sequence' = TRUE

\* What a write to transport t does to `up`, and whether it may return Ok or
\* Err.  A broken transport accepts the write or refuses it; nothing arrives.
WriteOk(t, item) ==
    \/ t = transport /\ link = "up" /\ up' = Append(up, item)
    \/ t = transport /\ link = "broken" /\ UNCHANGED up

WriteErr(t) == t # transport \/ link # "up"

-----------------------------------------------------------------------------
(* Callers: send_through() and MessageBuffer::send() *)

\* The runtime lock is free for readers: no writer holds it or queues for it.
MayRead == supervisor \notin {"lock", "sequence", "items"}

\* Under the runtime's read lock and the buffer lock: the message is numbered,
\* counted and buffered, and the decision to send now is taken.
SendBuffer(s) ==
    /\ pc[s] = "idle"
    /\ supervisor # "lost"
    /\ MayRead
    /\ total < MaxOut
    /\ total' = total + 1
    /\ messages' = messages \cup {total + 1}
    /\ byte_count' = byte_count + Size[total + 1]
    /\ room' = IF byte_count' >= BufferSize THEN room \cup {total + 1} ELSE room
    /\ sending' = [sending EXCEPT ![s] = total + 1]
    /\ pc' = [pc EXCEPT ![s] = IF reconnecting THEN "room" ELSE "transmit"]
    /\ UNCHANGED <<reconnecting, wait_for_sequence, inVars, resumeVars, linkVars,
                   up, down, serverVars>>

\* The buffer lock is released, the read lock is still held: the message goes
\* to the transport of the runtime the caller sees.
SendTransmit(s) ==
    /\ pc[s] = "transmit"
    /\ \/ /\ WriteOk(runtime, Msg(sending[s]))
          /\ pc' = [pc EXCEPT ![s] = "room"]
          /\ UNCHANGED <<reconnecting, wait_for_sequence>>
       \/ /\ WriteErr(runtime)
          /\ Disconnected
          /\ pc' = [pc EXCEPT ![s] = "idle"]
          /\ UNCHANGED up
    /\ UNCHANGED <<outVars, inVars, sending, resumeVars, linkVars, down, serverVars>>

\* The locks are released; the caller waits for the backpressure receiver, if
\* it got one, and returns.
SendReturn(s) ==
    /\ pc[s] = "room"
    /\ sending[s] \notin room
    /\ pc' = [pc EXCEPT ![s] = "idle"]
    /\ UNCHANGED <<outVars, reconnecting, wait_for_sequence, inVars, sending,
                   resumeVars, linkVars, up, down, serverVars>>

-----------------------------------------------------------------------------
(* The receive task: dispatch() and should_process_message() *)

\* schedule_ack_timer(): a timer that runs keeps the transport it captured.
ScheduleAck ==
    /\ ack_scheduled' = TRUE
    /\ ack_transport' = IF ack_scheduled THEN ack_transport ELSE transport
    /\ UNCHANGED ack_fired

\* handle_invocation() answers an invocation that expects a result by itself:
\* send_completion() goes to the transport, past the buffer.
Reply(n) == IF n \in Asks THEN WriteOk(transport, Msg(0)) ELSE UNCHANGED up

\* send_completion() fails: the error ends process_text() or process_binary(), and
\* what is behind the invocation in its frame, any number of items, is discarded
\* and not counted.
ReplyFails(n) ==
    /\ n \in Asks /\ WriteErr(transport)
    /\ \E k \in 1..Len(down) :
          /\ down' = SubSeq(down, k + 1, Len(down))
          /\ torn' = (torn \/ k > 1)
    /\ UNCHANGED up

\* An item arrives while the client waits for Sequence: it is ignored.
ReceiveIgnored ==
    /\ down # <<>>
    /\ wait_for_sequence
    /\ Head(down).kind # "seq"
    /\ down' = Tail(down)
    /\ UNCHANGED <<outVars, reconnecting, wait_for_sequence, inVars, senderVars,
                   resumeVars, linkVars, up, serverVars>>

\* Variant of Fresh: the message received last passes once more.
FreshAgain == next_id >= latest

\* should_process_message(): the message has not been received before.
Fresh == next_id > latest

\* An invocation message: it is counted, and processed unless the count says
\* it was received before.
ReceiveMessage ==
    /\ down # <<>>
    /\ ~wait_for_sequence
    /\ Head(down).kind = "msg"
    /\ next_id' = next_id + 1
    /\ IF Fresh
         THEN /\ latest' = next_id
              /\ got_down' = Append(got_down, Head(down).n)
              /\ ScheduleAck
              /\ \/ Reply(Head(down).n) /\ down' = Tail(down) /\ UNCHANGED torn
                 \/ ReplyFails(Head(down).n)
         ELSE /\ IF next_id = latest THEN ScheduleAck
                                     ELSE UNCHANGED ackVars
              /\ down' = Tail(down)
              /\ UNCHANGED <<latest, got_down, torn, up>>
    /\ UNCHANGED <<outVars, reconnecting, wait_for_sequence, senderVars,
                   resumeVars, linkVars, serverVars>>

\* Sequence: reset_sequence() refuses to skip messages.
ReceiveSequence ==
    /\ down # <<>>
    /\ Head(down).kind = "seq"
    /\ down' = Tail(down)
    /\ IF Head(down).n > next_id
         THEN UNCHANGED <<next_id, wait_for_sequence>>
         ELSE /\ next_id' = Head(down).n
              /\ wait_for_sequence' = FALSE
    /\ UNCHANGED <<outVars, reconnecting, latest, ackVars, got_down, torn, senderVars,
                   resumeVars, linkVars, up, serverVars>>

\* Variants of AckedBy, Reduced and Released: the item after the acknowledged
\* ones goes too; the count is not reduced; the others' callers keep waiting.
AckedBeyond(n) == {m \in messages : m <= n + 1}
ReducedNot(acked) == byte_count
ReleasedOnly(acked) == room \ acked

\* ack(): the acknowledged items, the bytes left without them, and the items
\* that still hold their caller back.
AckedBy(n) == {m \in messages : m <= n}

Reduced(acked) ==
    LET freed == MapThenSumSet(LAMBDA m : Size[m], acked)
    IN  IF freed > byte_count THEN 0 ELSE byte_count - freed

Released(acked) == IF Reduced(acked) < BufferSize THEN {} ELSE room \ acked

\* Ack: MessageBuffer::ack() frees the acknowledged items and, when that makes
\* room, releases the others' callers.  resend() holds the buffer lock.
ReceiveAck ==
    /\ down # <<>>
    /\ ~wait_for_sequence
    /\ Head(down).kind = "ack"
    /\ supervisor \notin {"sequence", "items"}
    /\ down' = Tail(down)
    /\ LET acked == AckedBy(Head(down).n)
       IN  /\ messages' = messages \ acked
           /\ byte_count' = Reduced(acked)
           /\ room' = Released(acked)
    /\ UNCHANGED <<total, reconnecting, wait_for_sequence, inVars, senderVars,
                   resumeVars, linkVars, up, serverVars>>

\* Variant of AckTarget: the present transport.
AckTargetPresent == transport

AckId == latest
AckTarget == ack_transport

\* The ack timer fires: unless a reconnect runs, the newest id is acknowledged
\* on the transport captured when the timer was set.
AckTimer ==
    /\ ack_scheduled /\ ~ack_fired
    /\ ack_fired' = TRUE
    /\ IF reconnecting
         THEN UNCHANGED up
         ELSE WriteOk(AckTarget, Ack(AckId)) \/ (WriteErr(AckTarget) /\ UNCHANGED up)
    /\ UNCHANGED <<outVars, reconnecting, wait_for_sequence, next_id, latest, ack_scheduled,
                   ack_transport, got_down, torn, senderVars, resumeVars, linkVars, down,
                   serverVars>>

\* The send of the Ack is done; only now may another be scheduled.
AckDone ==
    /\ ack_fired
    /\ ack_fired' = FALSE
    /\ ack_scheduled' = FALSE
    /\ UNCHANGED <<outVars, reconnecting, wait_for_sequence, next_id, latest, ack_transport,
                   got_down, torn, senderVars, resumeVars, linkVars, up, down, serverVars>>

-----------------------------------------------------------------------------
(* The supervisor: resume_transport() *)

clientVars == <<outVars, inVars, senderVars>>

\* The receive task reads the end of a dropped transport and reports it; the
\* supervisor takes the event and calls disconnected().
TransportClosed ==
    /\ supervisor = "watch"
    /\ link = "broken"
    /\ down = <<>>
    /\ Disconnected
    /\ supervisor' = "abort"
    /\ UNCHANGED <<clientVars, cursor, runtime, linkVars, up, down, serverVars>>

\* abort_without_close() on the old runtime, under the read lock, has returned:
\* it awaits close(), whose stop() of the send queue may never return.
AbortOld ==
    /\ supervisor = "abort"
    /\ link' = "closed"
    /\ supervisor' = "reopen"
    /\ UNCHANGED <<clientVars, reconnecting, wait_for_sequence, cursor, runtime,
                   transport, drops, up, down, serverVars>>

\* reopen() fails: the supervisor gives this connection up.  Without a
\* reconnect policy nothing follows: runtime and buffer stay as they are.
ReopenFails ==
    /\ supervisor = "reopen"
    /\ supervisor' = "lost"
    /\ UNCHANGED <<clientVars, reconnecting, wait_for_sequence, cursor, runtime,
                   linkVars, up, down, serverVars>>

\* What the server sends first on a reopened transport.
ServerResend ==
    <<Sequence(s_acked + 1)>> \o [i \in 1..(s_total - s_acked) |-> Msg(s_acked + i)]

\* reopen() succeeds and HubRuntime::start() begins to receive at once; the
\* server waits for Sequence and resends its own messages.
Reopen ==
    /\ supervisor = "reopen"
    /\ transport' = transport + 1
    /\ link' = "up"
    /\ up' = <<>>
    /\ down' = ServerResend
    /\ s_wait' = TRUE
    /\ supervisor' = "lock"
    /\ UNCHANGED <<clientVars, reconnecting, wait_for_sequence, cursor, runtime, drops,
                   s_next, s_latest, s_total, s_acked, got_up>>

\* Variant of LockRuntime: the runtime is replaced while callers use it.
LockRuntimeEarly ==
    /\ supervisor = "lock"
    /\ runtime' = transport
    /\ supervisor' = "sequence"
    /\ UNCHANGED <<clientVars, reconnecting, wait_for_sequence, cursor, linkVars,
                   up, down, serverVars>>

\* The runtime's write lock: every caller that holds the read lock is done.
LockRuntime ==
    /\ supervisor = "lock"
    /\ \A s \in Senders : pc[s] # "transmit"
    /\ runtime' = transport
    /\ supervisor' = "sequence"
    /\ UNCHANGED <<clientVars, reconnecting, wait_for_sequence, cursor, linkVars,
                   up, down, serverVars>>

\* A write of resend() fails: resume_transport() returns the error.
ResendFails ==
    /\ supervisor \in {"sequence", "items"}
    /\ WriteErr(transport)
    /\ supervisor' = "lost"
    /\ UNCHANGED <<clientVars, reconnecting, wait_for_sequence, cursor, runtime,
                   linkVars, up, down, serverVars>>

\* Variant of FirstId: the last id instead of the next.
FirstIdLast == IF messages = {} THEN total ELSE Min(messages)

FirstId == IF messages = {} THEN total + 1 ELSE Min(messages)

\* resend(): Sequence with the id of the first buffered item.
ResendSequence ==
    /\ supervisor = "sequence"
    /\ WriteOk(transport, Sequence(FirstId))
    /\ supervisor' = "items"
    /\ cursor' = 0
    /\ UNCHANGED <<clientVars, reconnecting, wait_for_sequence, runtime, linkVars,
                   down, serverVars>>

Unsent == {m \in messages : m >= cursor}

\* resend(): the next buffered item.
ResendItem ==
    /\ supervisor = "items"
    /\ Unsent # {}
    /\ WriteOk(transport, Msg(Min(Unsent)))
    /\ cursor' = Min(Unsent) + 1
    /\ UNCHANGED <<clientVars, reconnecting, wait_for_sequence, supervisor, runtime,
                   linkVars, down, serverVars>>

\* Variant of ResendDone: reconnect_in_progress stays set.
ResendDoneHolding ==
    /\ supervisor = "items"
    /\ Unsent = {}
    /\ supervisor' = "watch"
    /\ UNCHANGED <<clientVars, reconnecting, wait_for_sequence, cursor, runtime, linkVars,
                   up, down, serverVars>>

\* resend() is done: sending resumes and the locks are released.
ResendDone ==
    /\ supervisor = "items"
    /\ Unsent = {}
    /\ reconnecting' = FALSE
    /\ supervisor' = "watch"
    /\ UNCHANGED <<clientVars, wait_for_sequence, cursor, runtime, linkVars,
                   up, down, serverVars>>

-----------------------------------------------------------------------------
(* The network and the server, external *)

\* The transport drops: what has not arrived is lost in both directions; the
\* client may still read what has.
Drop ==
    /\ link = "up"
    /\ drops < MaxDrops
    /\ drops' = drops + 1
    /\ link' = "broken"
    /\ up' = <<>>
    /\ \E k \in 0..Len(down) : down' = SubSeq(down, 1, k)
    /\ UNCHANGED <<clientVars, reconnecting, wait_for_sequence, resumeVars, transport,
                   serverVars>>

\* A hub method of the server sends a message; it is buffered, and goes out
\* on the transport there is.
ServerSend ==
    /\ s_total < MaxIn
    /\ s_total' = s_total + 1
    /\ down' = IF link = "up" THEN Append(down, Msg(s_total + 1)) ELSE down
    /\ UNCHANGED <<clientVars, reconnecting, wait_for_sequence, resumeVars, linkVars, up,
                   s_wait, s_next, s_latest, s_acked, got_up>>

\* The server acknowledges what it has received, once it has counted all of
\* it on the present transport.
ServerAck ==
    /\ link = "up"
    /\ ~s_wait
    /\ s_next > s_latest
    /\ s_latest > 0
    /\ Ack(s_latest) \notin {down[i] : i \in DOMAIN down}
    /\ down' = Append(down, Ack(s_latest))
    /\ UNCHANGED <<clientVars, reconnecting, wait_for_sequence, resumeVars, linkVars, up,
                   serverVars>>

ServerIgnores ==
    /\ up # <<>>
    /\ s_wait
    /\ Head(up).kind # "seq"
    /\ up' = Tail(up)
    /\ UNCHANGED <<clientVars, reconnecting, wait_for_sequence, resumeVars, linkVars, down,
                   serverVars>>

ServerReceive ==
    /\ up # <<>>
    /\ ~s_wait
    /\ Head(up).kind = "msg"
    /\ up' = Tail(up)
    /\ s_next' = s_next + 1
    /\ IF s_next > s_latest
         THEN /\ s_latest' = s_next
              /\ got_up' = Append(got_up, Head(up).n)
         ELSE UNCHANGED <<s_latest, got_up>>
    /\ UNCHANGED <<clientVars, reconnecting, wait_for_sequence, resumeVars, linkVars, down,
                   s_wait, s_total, s_acked>>

ServerReceiveSequence ==
    /\ up # <<>>
    /\ Head(up).kind = "seq"
    /\ Head(up).n <= s_next
    /\ up' = Tail(up)
    /\ s_wait' = FALSE
    /\ s_next' = Head(up).n
    /\ UNCHANGED <<clientVars, reconnecting, wait_for_sequence, resumeVars, linkVars, down,
                   s_latest, s_total, s_acked, got_up>>

ServerReceiveAck ==
    /\ up # <<>>
    /\ ~s_wait
    /\ Head(up).kind = "ack"
    /\ up' = Tail(up)
    /\ s_acked' = IF Head(up).n > s_acked THEN Head(up).n ELSE s_acked
    /\ UNCHANGED <<clientVars, reconnecting, wait_for_sequence, resumeVars, linkVars, down,
                   s_wait, s_next, s_latest, s_total, got_up>>

-----------------------------------------------------------------------------
Receive == ReceiveIgnored \/ ReceiveMessage \/ ReceiveSequence \/ ReceiveAck

\* What the supervisor does by itself; and what it waits for in resume_transport(),
\* without a timeout: close() of the old transport and reopen().
Resume ==
    \/ TransportClosed \/ LockRuntime
    \/ ResendSequence \/ ResendItem \/ ResendDone \/ ResendFails

Awaited == AbortOld \/ Reopen \/ ReopenFails

Server == ServerIgnores \/ ServerReceive \/ ServerReceiveSequence \/ ServerReceiveAck

Next ==
    \/ \E s \in Senders : SendBuffer(s) \/ SendTransmit(s) \/ SendReturn(s)
    \/ Receive
    \/ AckTimer \/ AckDone
    \/ Resume \/ Awaited
    \/ Drop
    \/ Server \/ ServerSend \/ ServerAck

Spec == Init /\ [][Next]_vars

\* Every task that can run does, timers fire, and the server reads what
\* arrives and acknowledges it.  Nothing makes the application send, and nothing
\* makes close() of the old transport or reopen() return.
FairSpec ==
    /\ Spec
    /\ \A s \in Senders : WF_vars(SendTransmit(s)) /\ WF_vars(SendReturn(s))
    /\ WF_vars(Receive) /\ WF_vars(AckTimer \/ AckDone) /\ WF_vars(Resume)
    /\ WF_vars(Server) /\ WF_vars(ServerAck)

-----------------------------------------------------------------------------
(* Properties *)

Items(chan) == {chan[i] : i \in DOMAIN chan}

\* A message leaves the buffer only after the server has it; and the client
\* acknowledges nothing it has not delivered, so the server forgets no message
\* before the client has it.  With one caller and without completions.
NothingLost ==
    /\ \A m \in 1..total : m \in messages \/ m \in Items(got_up)
    /\ s_acked <= Len(got_down)

\* A Sequence never runs ahead of what its receiver has counted, in either
\* direction: reset_sequence() never refuses one, and the connection never goes
\* deaf by it.
SequenceAccepted ==
    /\ \A i \in DOMAIN down : down[i].kind = "seq" => down[i].n <= next_id
    /\ \A i \in DOMAIN up : up[i].kind = "seq" => up[i].n <= s_next

\* buffered_byte_count is the size of what is buffered; saturating_sub() in
\* ack() never has to saturate.
BytesExact == byte_count = MapThenSumSet(LAMBDA m : Size[m], messages)

\* A caller is held back only while the buffer is full.
HeldOnlyWhenFull == room # {} => room \subseteq messages /\ byte_count >= BufferSize

\* message_buffer.rs:73: "a concurrent `resend` either includes this message
\* or sees it sent here, never both": no transport carries a message twice.
NeverBoth ==
    /\ \A i, j \in DOMAIN up :
          i # j /\ up[i].kind = "msg" /\ up[i].n # 0 => up[i] # up[j]
    /\ \A s \in Senders :
          pc[s] = "transmit" /\ runtime = transport => Msg(sending[s]) \notin Items(up)

\* Each direction is a reliable channel: messages arrive in order, none twice,
\* none left out, across any number of drops.  Upstream this is so with one
\* caller and without completions.
Upstream == INSTANCE ReliableChannel WITH sent <- total, delivered <- got_up
Downstream == INSTANCE ReliableChannel WITH sent <- s_total, delivered <- got_down
UpstreamReliable == Upstream!Spec

\* Downstream it is so without invocations that expect a result.
DownstreamReliable == Downstream!Spec

\* With such invocations, and any number of callers, downstream it is so up to the
\* first frame that is torn because a completion could not be sent.
DownstreamUnlessTorn ==
    Downstream!Init /\ [][torn' \/ Downstream!Next]_<<s_total, got_down>>

Lost == supervisor = "lost"

\* resume_transport() does not hang in close() of the old transport or in reopen().
ResumesGoOn == []<>(supervisor \notin {"abort", "reopen"})

\* A message the client sends arrives, unless the connection is given up, or
\* resume_transport() waits for ever.
DeliveredUp ==
    ResumesGoOn => \A m \in 1..MaxOut : (total >= m) ~> (m \in Items(got_up) \/ Lost)
=============================================================================
