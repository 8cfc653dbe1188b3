---------------------------- MODULE Invocations ----------------------------
(***************************************************************************)
(* Calls of invoke() and stream() on a HubConnection: the ids they take    *)
(* from the HubRuntime, the pending map of the MessageBus (src/bus.rs),    *)
(* the dispatcher that completes them, HubMethodStream, and what the       *)
(* supervisor and close() do to pending calls when a connection ends.      *)
(*                                                                         *)
(* The transport is a FIFO channel in each direction.  With stateful       *)
(* reconnect a drop is invisible to it (StatefulReconnect), but the        *)
(* HubRuntime is replaced.  Between two awaits that are not ready a task   *)
(* runs alone unless config.parallel, as in HubLifecycle.                  *)
(***************************************************************************)
EXTENDS Naturals, Sequences

CONSTANTS
    Invokes,      \* calls of invoke()
    Streams,      \* calls of stream()
    None,         \* no call
    MaxIds,       \* bound: ids a HubRuntime gives out
    Configs       \* the environments: which threads, server, policy, and the bounds

Calls == Invokes \cup Streams

ASSUME InvocationsAssumption ==
    /\ Invokes \cap Streams = {}
    /\ None \notin Calls
    /\ Calls \cap {"none", "refused", "gone", "stopped", "canceled",
                   "receive", "supervisor", "close"} = {}
    /\ MaxIds \in Nat
    /\ Configs \subseteq
         [parallel : BOOLEAN,  \* tasks run on several threads
          stateful : BOOLEAN,  \* the server agrees to stateful reconnect
          policy : BOOLEAN,    \* a reconnect policy is configured
          closing : BOOLEAN,   \* the application may call close()
          sessions : Nat,      \* bound: connections
          resumes : Nat,       \* bound: transports reopened by stateful reconnect
          items : Nat]         \* bound: items of a stream

VARIABLES
    config,       \* the environment this connection lives in
    (* HubConnection *)
    state,        \* HubConnectionState
    runtime,      \* there is a HubRuntime
    counter,      \* its invocation_id
    pending,      \* pending[i]: the call the MessageBus holds under id i
    supervisor,   \* where the supervisor is
    closer,       \* where close() is
    (* calls *)
    pc,           \* where each call, or its HubMethodStream, is
    id,           \* its invocation id
    result,       \* what its response channel yields: whose answer, or why none
    items,        \* items its HubMethodStream yields
    sess,         \* history: the session it was sent in
    (* the connection and the server *)
    session,      \* connections so far
    resumes,      \* transports reopened so far
    link,         \* "up", "broken" or "closed" by the client
    up,           \* messages on their way to the server
    down,         \* messages on their way to the client
    served        \* invocations the server works on

hubVars == <<state, runtime, counter, supervisor, closer>>
callVars == <<pc, id, items, sess>>
linkVars == <<session, resumes, link>>
netVars == <<up, down, served>>
vars == <<hubVars, pending, callVars, result, linkVars, netVars>>

Ids == 1..MaxIds

\* A connection that has just been started.
Init ==
    /\ config \in Configs
    /\ state = "Connected" /\ runtime = TRUE /\ counter = 0
    /\ pending = [i \in Ids |-> None]
    /\ supervisor = "watch" /\ closer = "idle"
    /\ pc = [c \in Calls |-> "idle"] /\ id = [c \in Calls |-> 0]
    /\ result = [c \in Calls |-> "none"] /\ items = [c \in Calls |-> <<>>]
    /\ sess = [c \in Calls |-> 0]
    /\ session = 1 /\ resumes = 0 /\ link = "up"
    /\ up = <<>> /\ down = <<>> /\ served = {}

\* The runtime's write lock is held while the transport of a HubRuntime is closed.
Locked == supervisor = "aborting" \/ closer = "shutdown"

\* Nothing but x is between two awaits.
Turn(x) ==
    \/ config.parallel
    \/ /\ \A c \in Calls \ {x} :
             /\ pc[c] \notin {"register", "transmit", "cleanup"}
             /\ ~Locked => pc[c] \notin {"canceling", "revoking"}
       /\ x = "supervisor" \/ supervisor \notin {"taking", "mark"}
       /\ x = "close" \/ closer \notin {"cancel", "taking"}

At(c, where) == pc[c] = where /\ Turn(c)
Go(c, where) == pc' = [pc EXCEPT ![c] = where]

\* The calls in C get r on their response channel, if nothing came before.
Answer(C, r) ==
    [c \in Calls |-> IF c \in C /\ result[c] = "none" THEN r ELSE result[c]]

-----------------------------------------------------------------------------
(* invoke() and stream() *)

\* require_connected()
Require(c) ==
    /\ At(c, "idle")
    /\ IF state = "Connected"
         THEN Go(c, "ids") /\ UNCHANGED result
         ELSE Go(c, "done") /\ result' = Answer({c}, "refused")
    /\ UNCHANGED <<hubVars, pending, id, items, sess, linkVars, netVars>>

\* Variant of NextId: the id is read before the counter moves.
NextIdStale == IF counter = 0 THEN 1 ELSE counter

\* next_invocation_id()
NextId == counter + 1

\* Under the runtime's read lock.
TakeId(c) ==
    /\ At(c, "ids") /\ ~Locked
    /\ IF runtime
         THEN /\ counter < MaxIds
              /\ counter' = counter + 1
              /\ id' = [id EXCEPT ![c] = NextId]
              /\ Go(c, "register")
              /\ UNCHANGED result
         ELSE /\ Go(c, "done")
              /\ result' = Answer({c}, "refused")
              /\ UNCHANGED <<counter, id>>
    /\ UNCHANGED <<state, runtime, supervisor, closer, pending, items, sess,
                   linkVars, netVars>>

\* register_pending() or register_stream(): insert() drops the sender of a call
\* that has the same id.
Register(c) ==
    /\ At(c, "register")
    /\ pending' = [pending EXCEPT ![id[c]] = c]
    /\ result' = Answer({pending[id[c]]} \ {None}, "gone")
    /\ Go(c, "transmit")
    /\ UNCHANGED <<hubVars, id, items, sess, linkVars, netVars>>

\* send_through(): the message goes out, or is lost in a broken transport or in
\* the buffer of a connection that is over, or there is an error.  If the buffer
\* of a stateful connection is full, the call waits for room.
Transmit(c) ==
    /\ At(c, "transmit") /\ ~Locked
    /\ \/ /\ runtime
          /\ \/ link = "up" /\ up' = Append(up, [kind |-> "invoke", id |-> id[c], call |-> c])
             \/ (link = "broken" \/ (config.stateful /\ link = "closed")) /\ UNCHANGED up
          /\ sess' = [sess EXCEPT ![c] = session]
          /\ \E where \in IF config.stateful THEN {"room", "waiting"} ELSE {"waiting"} : Go(c, where)
       \/ /\ ~runtime \/ link # "up"
          /\ Go(c, "cleanup")
          /\ UNCHANGED <<up, sess>>
    /\ UNCHANGED <<hubVars, pending, id, result, items, linkVars, down, served>>

\* room.await: the server has acknowledged enough, also just before the transport
\* was lost.
RoomMade(c) ==
    /\ At(c, "room")
    /\ link # "closed"
    /\ Go(c, "waiting")
    /\ UNCHANGED <<hubVars, pending, id, result, items, sess, linkVars, netVars>>

\* The buffer of the connection a call was sent on is dropped with the HubRuntime,
\* once there is a new connection or close() is done.
BufferGone(c) == sess[c] # session \/ closer = "done"

RoomGone(c) ==
    /\ At(c, "room")
    /\ BufferGone(c)
    /\ Go(c, "waiting")
    /\ UNCHANGED <<hubVars, pending, id, result, items, sess, linkVars, netVars>>

\* remove_pending() drops the sender of whichever call has the id.
Remove(i) ==
    /\ pending' = [pending EXCEPT ![i] = None]
    /\ result' = Answer({pending[i]} \ {None}, "gone")

\* send_through() has failed.  A stream() drops its HubMethodStream with it.
Cleanup(c) ==
    /\ At(c, "cleanup")
    /\ pending' = [pending EXCEPT ![id[c]] = None]
    /\ result' = [Answer({pending[id[c]]} \ {None}, "gone") EXCEPT ![c] = "refused"]
    /\ Go(c, IF c \in Streams THEN "dropping" ELSE "done")
    /\ UNCHANGED <<hubVars, id, items, sess, linkVars, netVars>>

\* invoke(): response.await.  A stream() has returned; its HubMethodStream ends.
Return(c) ==
    /\ At(c, "waiting")
    /\ result[c] # "none"
    /\ Go(c, IF c \in Streams THEN "ended" ELSE "done")
    /\ UNCHANGED <<hubVars, pending, id, result, items, sess, linkVars, netVars>>

\* The application drops the future of invoke(), as a timeout does: the entry
\* in the bus stays.
Abandon(c) ==
    /\ c \in Invokes
    /\ At(c, "room") \/ At(c, "waiting")
    /\ Go(c, "done")
    /\ UNCHANGED <<hubVars, pending, id, result, items, sess, linkVars, netVars>>

-----------------------------------------------------------------------------
(* HubMethodStream *)

\* The application drops the stream or the future of stream(), or calls cancel():
\* the receiver closes.
DropStream(c) ==
    /\ c \in Streams
    /\ At(c, "room") \/ At(c, "waiting") \/ At(c, "ended")
    /\ Go(c, "dropping")
    /\ result' = Answer({c}, "stopped")
    /\ UNCHANGED <<hubVars, pending, id, items, sess, linkVars, netVars>>

\* Its task: remove_pending(), and nothing more if there was no entry.
RemoveStream(c) ==
    /\ At(c, "dropping")
    /\ Remove(id[c])
    /\ Go(c, IF pending[id[c]] = None THEN "done" ELSE "canceling")
    /\ UNCHANGED <<hubVars, id, items, sess, linkVars, netVars>>

\* CancelInvocation is sent through the runtime there is.
SendCancel(c) ==
    /\ At(c, "canceling") \/ At(c, "revoking")
    /\ ~Locked
    /\ up' = IF runtime /\ link = "up"
               THEN Append(up, [kind |-> "cancel", id |-> id[c], call |-> c]) ELSE up
    /\ Go(c, IF pc[c] = "revoking" THEN "ended" ELSE "done")
    /\ UNCHANGED <<hubVars, pending, id, result, items, sess, linkVars, down, served>>

\* cancel_stream() with the id of a stream the application holds.
CancelStream(c) ==
    /\ c \in Streams
    /\ At(c, "waiting")
    /\ state = "Connected"
    /\ result[c] = "none"
    /\ pending' = [pending EXCEPT ![id[c]] = None]
    /\ result' = [Answer({pending[id[c]]} \ {None}, "gone") EXCEPT ![c] = "stopped"]
    /\ Go(c, "revoking")
    /\ UNCHANGED <<hubVars, id, items, sess, linkVars, netVars>>

-----------------------------------------------------------------------------
(* The receive task *)

\* Variant of Completed: the id is not looked up, the newest call is completed.
CompletedNewest(i) == pending[IF counter = 0 THEN i ELSE counter]

\* complete_invocation(): the call the bus holds under the id.
Completed(i) == pending[i]

ReceiveCompletion ==
    /\ Turn("receive")
    /\ down # <<>>
    /\ Head(down).kind = "done"
    /\ down' = Tail(down)
    /\ result' = Answer({Completed(Head(down).id)} \ {None}, Head(down).call)
    /\ pending' = [pending EXCEPT ![Head(down).id] = None]
    /\ UNCHANGED <<hubVars, callVars, linkVars, up, served>>

\* send_stream_item(): the channel of a HubMethodStream.
Streamed(c, item) == Append(items[c], item)

\* An item for an id that is no stream's is ignored.
ReceiveItem ==
    /\ Turn("receive")
    /\ down # <<>>
    /\ Head(down).kind = "item"
    /\ down' = Tail(down)
    /\ LET c == pending[Head(down).id]
       IN  items' = IF c \in Streams /\ pc[c] # "dropping"
                      THEN [items EXCEPT ![c] = Streamed(c, [call |-> Head(down).call,
                                                            n |-> Head(down).n])]
                      ELSE items
    /\ UNCHANGED <<hubVars, pending, pc, id, result, sess, linkVars, up, served>>

\* cancel_all_pending()
CancelAll ==
    /\ result' = Answer({pending[i] : i \in Ids} \ {None}, "canceled")
    /\ pending' = [i \in Ids |-> None]

\* handle_close(): every pending call fails and the transport is closed.
ReceiveClose ==
    /\ Turn("receive")
    /\ down # <<>>
    /\ Head(down).kind = "close"
    /\ down' = <<>>
    /\ link' = "closed"
    /\ CancelAll
    /\ UNCHANGED <<hubVars, callVars, session, resumes, up, served>>

-----------------------------------------------------------------------------
(* The supervisor and close() *)

\* resume_transport(): the same connection, a new HubRuntime.
Resume ==
    /\ config.stateful
    /\ Turn("supervisor")
    /\ supervisor = "watch"
    /\ link = "up"
    /\ resumes < config.resumes
    /\ resumes' = resumes + 1
    /\ counter' = 0
    /\ UNCHANGED <<state, runtime, supervisor, closer, pending, callVars, result,
                   session, link, netVars>>

\* Without a policy, or if a Close message says so, the state is Disconnected and the
\* HubRuntime stays.
SupGoesOn ==
    \/ config.policy /\ supervisor' = "taking" /\ UNCHANGED state
    \/ /\ ~config.policy \/ link = "closed"
       /\ supervisor' = "ended" /\ state' = "Disconnected"

\* Variant of SupCancel: the calls are left to the next connection.
SupCancelNot ==
    /\ Turn("supervisor")
    /\ supervisor = "watch"
    /\ link # "up" /\ down = <<>>
    /\ SupGoesOn
    /\ UNCHANGED <<runtime, counter, closer, pending, result, callVars, linkVars, netVars>>

\* The connection is over: the supervisor fails every pending call.
SupCancel ==
    /\ Turn("supervisor")
    /\ supervisor = "watch"
    /\ link # "up" /\ down = <<>>
    /\ CancelAll
    /\ SupGoesOn
    /\ UNCHANGED <<runtime, counter, closer, callVars, linkVars, netVars>>

\* The HubRuntime is taken, and its transport closed.
SupTake ==
    /\ Turn("supervisor")
    /\ supervisor = "taking"
    /\ runtime' = FALSE
    /\ link' = "closed"
    /\ supervisor' = "aborting"
    /\ UNCHANGED <<state, counter, closer, pending, callVars, result, session, resumes, netVars>>

SupAborted ==
    /\ Turn("supervisor")
    /\ supervisor = "aborting"
    /\ state' = "Reconnecting"
    /\ supervisor' = "dialing"
    /\ UNCHANGED <<runtime, counter, closer, pending, callVars, result, linkVars, netVars>>

\* reconnect_once(): a new connection and its HubRuntime.
SupDial ==
    /\ Turn("supervisor")
    /\ supervisor = "dialing"
    /\ session < config.sessions
    /\ session' = session + 1
    /\ link' = "up" /\ up' = <<>> /\ down' = <<>> /\ served' = {}
    /\ runtime' = TRUE
    /\ counter' = 0
    /\ supervisor' = "mark"
    /\ UNCHANGED <<state, closer, pending, callVars, result, resumes>>

SupMark ==
    /\ supervisor = "mark"
    /\ state' = "Connected"
    /\ supervisor' = "watch"
    /\ UNCHANGED <<runtime, counter, closer, pending, callVars, result, linkVars, netVars>>

\* The policy gives up.
SupFail ==
    /\ Turn("supervisor")
    /\ supervisor = "dialing"
    /\ state' = "Disconnected"
    /\ supervisor' = "ended"
    /\ UNCHANGED <<runtime, counter, closer, pending, callVars, result, linkVars, netVars>>

\* close(), and shutdown_active_connection() up to the bus.
Close ==
    /\ config.closing
    /\ Turn("close")
    /\ closer = "idle"
    /\ state # "Disconnected"
    /\ state' = "Disconnecting"
    /\ supervisor' = "ended"
    /\ closer' = "cancel"
    /\ UNCHANGED <<runtime, counter, pending, callVars, result, linkVars, netVars>>

CloseCancel ==
    /\ closer = "cancel"
    /\ CancelAll
    /\ closer' = "taking"
    /\ UNCHANGED <<state, runtime, counter, supervisor, callVars, linkVars, netVars>>

\* The HubRuntime is taken and shut down.
CloseTake ==
    /\ closer = "taking"
    /\ runtime' = FALSE
    /\ link' = "closed" /\ down' = <<>>
    /\ closer' = "shutdown"
    /\ UNCHANGED <<state, counter, supervisor, pending, callVars, result, session, resumes, up, served>>

CloseDone ==
    /\ Turn("close")
    /\ closer = "shutdown"
    /\ state' = "Disconnected"
    /\ closer' = "done"
    /\ UNCHANGED <<runtime, counter, supervisor, pending, callVars, result, linkVars, netVars>>

-----------------------------------------------------------------------------
(* The network and the server, external *)

\* The transport drops; the client may still read what has arrived.
Lose ==
    /\ link = "up"
    /\ link' = "broken"
    /\ up' = <<>> /\ served' = {}
    /\ \E k \in 0..Len(down) : down' = SubSeq(down, 1, k)
    /\ UNCHANGED <<hubVars, pending, callVars, result, session, resumes>>

\* A canceled stream completes like any other.
ServerTake ==
    /\ up # <<>>
    /\ up' = Tail(up)
    /\ served' = IF Head(up).kind = "invoke"
                   THEN served \cup {[id |-> Head(up).id, call |-> Head(up).call, n |-> 0]}
                   ELSE served
    /\ UNCHANGED <<hubVars, pending, callVars, result, linkVars, down>>

Down(kind, r) == [kind |-> kind, id |-> r.id, call |-> r.call, n |-> r.n]

ServerItem(r) ==
    /\ link = "up"
    /\ r.call \in Streams /\ r.n < config.items
    /\ LET next == [r EXCEPT !.n = @ + 1]
       IN  /\ served' = (served \ {r}) \cup {next}
           /\ down' = Append(down, Down("item", next))
    /\ UNCHANGED <<hubVars, pending, callVars, result, linkVars, up>>

ServerDone(r) ==
    /\ link = "up"
    /\ served' = served \ {r}
    /\ down' = Append(down, Down("done", r))
    /\ UNCHANGED <<hubVars, pending, callVars, result, linkVars, up>>

\* A Close message is the last one.
ServerClose ==
    /\ link = "up"
    /\ \A i \in DOMAIN down : down[i].kind # "close"
    /\ down' = Append(down, [kind |-> "close", id |-> 0, call |-> None, n |-> 0])
    /\ link' = "broken"
    /\ up' = <<>> /\ served' = {}
    /\ UNCHANGED <<hubVars, pending, callVars, result, session, resumes>>

-----------------------------------------------------------------------------
\* The steps of a call that it takes by itself.
CallStep(c) ==
    \/ TakeId(c) \/ Register(c) \/ Transmit(c) \/ RoomGone(c) \/ Cleanup(c) \/ Return(c)
    \/ RemoveStream(c) \/ SendCancel(c)

\* What nothing makes it do: the application's choices and the server's Acks.
Unforced(c) == Require(c) \/ Abandon(c) \/ DropStream(c) \/ CancelStream(c) \/ RoomMade(c)

Receive == ReceiveCompletion \/ ReceiveItem \/ ReceiveClose
Supervise == SupCancel \/ SupTake \/ SupMark
CloseStep == CloseCancel \/ CloseTake

\* The close of a transport returns.
Awaited == SupAborted \/ CloseDone

Server ==
    \/ ServerTake
    \/ \E r \in served : ServerItem(r) \/ ServerDone(r)
    \/ ServerClose

Next ==
    /\ UNCHANGED config
    /\ \/ \E c \in Calls : CallStep(c) \/ Unforced(c)
       \/ Receive
       \/ Supervise \/ Resume \/ SupDial \/ SupFail
       \/ Close \/ CloseStep \/ Awaited
       \/ Lose \/ Server

Spec == Init /\ [][Next]_<<config, vars>>

\* The scheduler polls every ready task, and a call of close() under way goes
\* on.  Nothing makes the server answer or acknowledge, the close of a transport
\* return or a new connection come up.
FairSpec ==
    /\ Spec
    /\ \A c \in Calls : WF_vars(CallStep(c))
    /\ WF_vars(Receive) /\ WF_vars(Supervise) /\ WF_vars(CloseStep)

-----------------------------------------------------------------------------
(* Properties *)

\* A call gets its own answer, and a HubMethodStream its own items, the first
\* ones in the server's order.
RightAnswer ==
    \A c \in Calls :
        /\ result[c] \in Calls => result[c] = c
        /\ \A i \in DOMAIN items[c] : items[c][i] = [call |-> c, n |-> i]

\* As long as no transport was resumed a call gets its own answer, across
\* reconnects too: cancel_all_pending() keeps the calls of a connection apart
\* from those of the next one, whose ids start at 1 again.  Across reconnects
\* for tasks that do not run in parallel.
RightUnlessResumed ==
    resumes = 0 /\ (config.parallel => session = 1) => RightAnswer

\* The response sender of a call is dropped unused for no reason but its own:
\* on one connection neither another call nor the drop of another stream, whose
\* ids come from the same counter, ends it.
OnlyOwnEnd ==
    session = 1 /\ resumes = 0 => \A c \in Calls : result[c] # "gone"

\* The connection a call was sent on is over, and the bus is about to be emptied or,
\* as no other call is sent in between on one thread, has been emptied since.
Over(c) ==
    \/ pc[c] = "waiting" /\ (closer = "cancel" \/ (supervisor = "watch" /\ link # "up"))
    \/ ~config.parallel /\ pc[c] = "waiting" /\ supervisor = "watch" /\ sess[c] # session
    \/ ~config.parallel /\ pc[c] = "room" /\ BufferGone(c)

\* When the connection a call was sent on is over, the call ends: whoever ends
\* the connection also empties the bus, and the wait for room ends with the buffer.
\* Not so a call that is sent after the bus was emptied, and one that waits for room
\* in the buffer of a connection that nothing replaces.
CallsEnd == \A c \in Calls : Over(c) ~> pc[c] \notin {"room", "waiting"}
=============================================================================
