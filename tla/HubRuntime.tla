----------------------------- MODULE HubRuntime -----------------------------
(***************************************************************************)
(* One HubRuntime (src/hub_connection/runtime.rs) over one WebSocket       *)
(* transport: the transport's read loop, the receive task that dispatches  *)
(* frames of messages, the keepalive task with the server timeout and the  *)
(* ping timer, and the owner that shuts the runtime down, aborts it or     *)
(* drops it.                                                               *)
(*                                                                         *)
(* Time passes in ticks and only when no task is ready.  A task that waits *)
(* for a handler of the application, for the write of a ping or for the    *)
(* transport to close is not, and it may wait for ever.                    *)
(***************************************************************************)
EXTENDS Naturals, Sequences

CONSTANTS
    ServerTimeout,  \* server_timeout, in ticks
    KeepAlive,      \* keep_alive_interval, in ticks
    MaxFrames,      \* bound: frames the server sends
    MaxSends        \* bound: messages the application sends

ASSUME HubRuntimeAssumption ==
    /\ {ServerTimeout, KeepAlive} \subseteq Nat \ {0}
    /\ {MaxFrames, MaxSends} \subseteq Nat

VARIABLES
    (* the WebSocket *)
    peer,         \* the server's end: "open" or "ended"
    frames,       \* frames that have arrived
    read,         \* read_loop(): "running", "ended" or "aborted"
    incoming,     \* the channel to the receive task: frames, and Closed
    closed,       \* close() was called on the transport
    (* the receive task *)
    receive,      \* "initial", "select", "frame" or "done"
    todo,         \* messages of the frame not yet dispatched
    busy,         \* what dispatch() waits for: "no", "handler" or "close"
    received,     \* Notify: a message was received
    (* the keepalive task *)
    keep,         \* "select", "pinging", "closing" or "done"
    silence,      \* ticks since last_received
    quiet,        \* ticks since next_ping_at was set
    sent,         \* Notify: a message was sent
    (* the owner *)
    owner,        \* "running", "closing", "aborting", "stopped" or "dropped"
    shutdown,     \* the value of shutdown_tx
    sends,        \* messages the application has sent
    signaled,     \* transport_close_signaled
    events,       \* the TransportEvents sent
    (* history *)
    heard,        \* ticks since a frame reached the client, before this tick
    fresh,        \* one reached it in this tick
    slow,         \* dispatch() or a ping has taken time
    told          \* a Close message was dispatched

wsVars == <<peer, frames, read, incoming, closed>>
receiveVars == <<receive, todo, busy>>
keepVars == <<keep, silence, quiet>>
ownerVars == <<owner, shutdown, sends>>
closeVars == <<signaled, events>>
historyVars == <<heard, fresh, slow, told>>
vars == <<wsVars, receiveVars, received, keepVars, sent, ownerVars, closeVars, historyVars>>

\* What dispatch() tells apart: a message without a handler; an invocation that
\* wants a result; one whose handler awaits a call on this connection; Close.
Kinds == {"ping", "ask", "nested", "close"}

\* Frames of one message, and of one behind a message whose dispatch may fail.
Frames == {<<"nested">>, <<"ask", "ping">>, <<"ask", "close">>}
Closed == <<"Closed">>

\* HubRuntime::start(), with the messages that came with the handshake.
Init ==
    /\ peer = "open" /\ frames = 0 /\ read = "running"
    /\ incoming = <<>> /\ closed = FALSE
    /\ receive = "initial" /\ todo \in {<<>>} \cup Frames /\ busy = "no"
    /\ received = FALSE
    /\ keep = "select" /\ silence = 0 /\ quiet = 0 /\ sent = FALSE
    /\ owner = "running" /\ shutdown = FALSE /\ sends = 0
    /\ signaled = FALSE /\ events = <<>>
    /\ heard = 0 /\ fresh = FALSE /\ slow = FALSE /\ told = FALSE

\* transport_close_signaled.swap(true), and the event of whoever is first.
Signal(e) ==
    /\ signaled' = TRUE
    /\ events' = IF signaled THEN events ELSE Append(events, e)

\* The receive task only loads the flag.
Report(e) ==
    /\ events' = IF signaled THEN events ELSE Append(events, e)
    /\ UNCHANGED signaled

\* WebSocketTransport::close(), once stop() of the send queue has returned, which it
\* may never do: the first call closes the sink and, unless that fails, aborts the
\* read loop.
CloseTransport(ok) ==
    /\ closed' = TRUE
    /\ ok \/ ~closed
    /\ read' = IF ok /\ ~closed /\ read = "running" THEN "aborted" ELSE read

\* A write to the transport may fail once either end is closed.
WriteFails == closed \/ peer = "ended"

-----------------------------------------------------------------------------
(* read_loop() *)

\* A frame arrives.  One that nobody will receive ends the loop.
ReadFrame(f) ==
    /\ read = "running" /\ peer = "open"
    /\ frames < MaxFrames
    /\ frames' = frames + 1
    /\ fresh' = TRUE
    /\ IF receive = "done" THEN read' = "ended" /\ UNCHANGED incoming
                           ELSE incoming' = Append(incoming, f) /\ UNCHANGED read
    /\ UNCHANGED <<peer, closed, receiveVars, received, keepVars, sent, ownerVars, closeVars,
                   heard, slow, told>>

\* A Close frame, an error or the end of the stream.
ReadEnd ==
    /\ read = "running"
    /\ peer = "ended"
    /\ read' = "ended"
    /\ incoming' = IF receive = "done" THEN incoming ELSE Append(incoming, Closed)
    /\ UNCHANGED <<peer, frames, closed, receiveVars, received, keepVars, sent,
                   ownerVars, closeVars, historyVars>>

-----------------------------------------------------------------------------
(* The receive task *)

\* dispatch() of the first message has ended.  An error discards the rest of
\* a frame, and the task itself if the message came with the handshake.
Dispatched(ok) ==
    /\ busy' = "no"
    /\ todo' = IF ok THEN Tail(todo) ELSE <<>>
    /\ receive' = IF ~ok /\ receive = "initial" THEN "done" ELSE receive
    /\ received' = (received \/ (ok /\ receive = "initial"))

Dispatching == receive \in {"initial", "frame"} /\ busy = "no" /\ todo # <<>>

\* Between two of the handshake's messages shutdown is looked at.
DispatchStop ==
    /\ Dispatching /\ receive = "initial" /\ shutdown
    /\ receive' = "done" /\ todo' = <<>>
    /\ UNCHANGED <<wsVars, busy, received, keepVars, sent, ownerVars, closeVars, historyVars>>

DispatchPing ==
    /\ Dispatching
    /\ Head(todo) = "ping"
    /\ Dispatched(TRUE)
    /\ UNCHANGED <<wsVars, keepVars, sent, ownerVars, closeVars, historyVars>>

\* handle_invocation() runs the handlers.
DispatchInvocation ==
    /\ Dispatching
    /\ Head(todo) \in {"ask", "nested"}
    /\ busy' = "handler"
    /\ UNCHANGED <<wsVars, receive, todo, received, keepVars, sent, ownerVars, closeVars,
                   historyVars>>

\* The handlers are done, and send_completion() of what wants a result.  A
\* handler that awaits a call on this connection goes on when the call is
\* canceled, which the supervisor does on an event and close() before shutdown().
HandlerDone(ok) ==
    /\ busy = "handler"
    /\ Head(todo) = "nested" => ok /\ (events # <<>> \/ owner # "running")
    /\ ok \/ WriteFails
    /\ Dispatched(ok)
    /\ UNCHANGED <<wsVars, keepVars, sent, ownerVars, closeVars, heard, fresh, slow, told>>

\* Variant of DispatchClose: the end of the transport is to report it.
DispatchCloseUnsignaled ==
    /\ Dispatching
    /\ Head(todo) = "close"
    /\ told' = TRUE
    /\ busy' = "close"
    /\ UNCHANGED <<wsVars, receive, todo, received, keepVars, sent, ownerVars, closeVars,
                   heard, fresh, slow>>

\* handle_close()
DispatchClose ==
    /\ Dispatching
    /\ Head(todo) = "close"
    /\ Signal("close")
    /\ told' = TRUE
    /\ busy' = "close"
    /\ UNCHANGED <<wsVars, receive, todo, received, keepVars, sent, ownerVars, heard,
                   fresh, slow>>

\* transport.close() has returned.
DispatchCloseDone(ok) ==
    /\ busy = "close"
    /\ CloseTransport(ok)
    /\ Dispatched(ok)
    /\ UNCHANGED <<peer, frames, incoming, keepVars, sent, ownerVars, closeVars,
                   historyVars>>

FrameDone ==
    /\ receive \in {"initial", "frame"} /\ busy = "no" /\ todo = <<>>
    /\ receive' = "select"
    /\ UNCHANGED <<wsVars, todo, busy, received, keepVars, sent, ownerVars, closeVars,
                   historyVars>>

\* Variant of ReceiveStop: only the end of the sender is noticed.
ReceiveStopDropped ==
    /\ receive = "select"
    /\ owner = "dropped"
    /\ receive' = "done"
    /\ UNCHANGED <<wsVars, todo, busy, received, keepVars, sent, ownerVars, closeVars,
                   historyVars>>

\* The loop's condition, or changed(): a new value or no sender any more.
ReceiveStop ==
    /\ receive = "select"
    /\ shutdown \/ owner = "dropped"
    /\ receive' = "done"
    /\ UNCHANGED <<wsVars, todo, busy, received, keepVars, sent, ownerVars, closeVars,
                   historyVars>>

\* Variant of ReceiveFrame: the keepalive task is not told.
ReceiveFrameQuietly ==
    /\ receive = "select"
    /\ incoming # <<>> /\ Head(incoming) # Closed
    /\ incoming' = Tail(incoming)
    /\ todo' = Head(incoming)
    /\ receive' = "frame"
    /\ UNCHANGED <<peer, frames, read, closed, busy, received, keepVars, sent, ownerVars,
                   closeVars, historyVars>>

ReceiveFrame ==
    /\ receive = "select"
    /\ incoming # <<>> /\ Head(incoming) # Closed
    /\ incoming' = Tail(incoming)
    /\ todo' = Head(incoming)
    /\ received' = TRUE
    /\ receive' = "frame"
    /\ UNCHANGED <<peer, frames, read, closed, busy, keepVars, sent, ownerVars,
                   closeVars, historyVars>>

\* Closed, or the end of the channel.
ReceiveEnd ==
    /\ receive = "select"
    /\ IF incoming = <<>> THEN read # "running" ELSE Head(incoming) = Closed
    /\ IF incoming # <<>> /\ shutdown THEN UNCHANGED closeVars ELSE Report("dropped")
    /\ receive' = "done"
    /\ UNCHANGED <<wsVars, todo, busy, received, keepVars, sent, ownerVars, historyVars>>

-----------------------------------------------------------------------------
(* run_keepalive() *)

\* Nothing looks at the clock any more.
KeepEnds ==
    /\ keep' = "done"
    /\ silence' = 0 /\ quiet' = 0 /\ heard' = 0
    /\ UNCHANGED <<fresh, slow, told>>

\* Variant of KeepStop: an error of changed() ends the task as well.
KeepStopOrphan ==
    /\ keep = "select" /\ (shutdown \/ owner = "dropped")
    /\ KeepEnds
    /\ UNCHANGED <<wsVars, receiveVars, received, sent, ownerVars, closeVars>>

KeepStop ==
    /\ keep = "select" /\ shutdown
    /\ KeepEnds
    /\ UNCHANGED <<wsVars, receiveVars, received, sent, ownerVars, closeVars>>

\* last_received = now
KeepReceived ==
    /\ keep = "select" /\ received
    /\ received' = FALSE
    /\ silence' = 0
    /\ UNCHANGED <<wsVars, receiveVars, keep, quiet, sent, ownerVars, closeVars, historyVars>>

KeepSent ==
    /\ keep = "select" /\ sent
    /\ sent' = FALSE
    /\ quiet' = 0
    /\ UNCHANGED <<wsVars, receiveVars, received, keep, silence, ownerVars, closeVars,
                   historyVars>>

\* Any ready branch of the select may be taken: the deadline even if a message
\* has just been received.
KeepTimeout ==
    /\ keep = "select" /\ silence >= ServerTimeout
    /\ Signal("timeout")
    /\ keep' = "closing"
    /\ UNCHANGED <<wsVars, receiveVars, received, silence, quiet, sent, ownerVars,
                   historyVars>>

\* transport.close() has returned.
KeepClose(ok) ==
    /\ keep = "closing"
    /\ CloseTransport(ok)
    /\ KeepEnds
    /\ UNCHANGED <<peer, frames, incoming, receiveVars, received, sent, ownerVars,
                   closeVars>>

KeepPing ==
    /\ keep = "select" /\ quiet >= KeepAlive
    /\ keep' = "pinging"
    /\ UNCHANGED <<wsVars, receiveVars, received, silence, quiet, sent, ownerVars, closeVars,
                   historyVars>>

KeepPinged ==
    /\ keep = "pinging"
    /\ keep' = "select"
    /\ quiet' = 0
    /\ UNCHANGED <<wsVars, receiveVars, received, silence, sent, ownerVars, closeVars, heard,
                   fresh, slow, told>>

-----------------------------------------------------------------------------
(* The owner *)

\* send(), and send_initial_ping()
Send ==
    /\ owner = "running" /\ sends < MaxSends
    /\ sends' = sends + 1
    /\ sent' = TRUE
    /\ UNCHANGED <<wsVars, receiveVars, received, keepVars, owner, shutdown, closeVars, heard,
                   fresh, slow, told>>

\* shutdown() and abort_without_close()
Shutdown ==
    /\ owner = "running"
    /\ owner' = "closing"
    /\ shutdown' = TRUE
    /\ UNCHANGED <<wsVars, receiveVars, received, keepVars, sent, sends, closeVars,
                   historyVars>>

\* The Close message is written and transport.close() has returned.  shutdown()
\* returns its error and aborts nothing.
ShutdownClose(ok) ==
    /\ owner = "closing"
    /\ CloseTransport(ok)
    /\ owner' \in IF ok THEN {"aborting"} ELSE {"aborting", "stopped"}
    /\ UNCHANGED <<peer, frames, incoming, receiveVars, received, keepVars, sent,
                   shutdown, sends, closeVars, historyVars>>

ShutdownAbort ==
    /\ owner = "aborting"
    /\ owner' = "stopped"
    /\ receive' = "done" /\ todo' = <<>> /\ busy' = "no"
    /\ KeepEnds
    /\ UNCHANGED <<wsVars, received, sent, shutdown, sends, closeVars>>

\* The HubRuntime is dropped, as by an aborted supervisor: its tasks go on.
DropRuntime ==
    /\ owner = "running"
    /\ owner' = "dropped"
    /\ UNCHANGED <<wsVars, receiveVars, received, keepVars, sent, shutdown, sends, closeVars,
                   historyVars>>

-----------------------------------------------------------------------------
(* The server and the clock, external *)

\* The server closes, or the connection breaks.
ServerEnd ==
    /\ peer = "open"
    /\ peer' = "ended"
    /\ UNCHANGED <<frames, read, incoming, closed, receiveVars, received, keepVars,
                   sent, ownerVars, closeVars, historyVars>>

Ready ==
    \/ read = "running" /\ peer = "ended"
    \/ busy = "no" /\ receive \in {"initial", "frame"}
    \/ receive = "select" /\ (incoming # <<>> \/ read # "running" \/ shutdown
                                \/ owner = "dropped")
    \/ keep = "select" /\ (shutdown \/ received \/ sent \/ silence >= ServerTimeout
                             \/ quiet >= KeepAlive)
    \/ owner = "aborting"

Up(n, max) == IF n < max THEN n + 1 ELSE n

Tick ==
    /\ ~Ready /\ keep # "done"
    /\ silence' = Up(silence, ServerTimeout) /\ quiet' = Up(quiet, KeepAlive)
    /\ heard' = (IF fresh THEN 1 ELSE Up(heard, ServerTimeout)) /\ fresh' = FALSE
    /\ slow' = (slow \/ busy # "no" \/ keep = "pinging")
    /\ UNCHANGED <<wsVars, receiveVars, received, keep, sent, ownerVars, closeVars, told>>

-----------------------------------------------------------------------------
Receive ==
    \/ DispatchStop \/ DispatchPing \/ DispatchInvocation \/ DispatchClose \/ FrameDone
    \/ ReceiveStop \/ ReceiveFrame \/ ReceiveEnd

Keepalive ==
    \/ KeepStop \/ KeepReceived \/ KeepSent \/ KeepTimeout \/ KeepPing

\* What a task waits for.
Awaited ==
    \/ KeepPinged
    \/ \E ok \in BOOLEAN :
         HandlerDone(ok) \/ DispatchCloseDone(ok) \/ KeepClose(ok) \/ ShutdownClose(ok)

Next ==
    \/ (\E f \in Frames : ReadFrame(f)) \/ ReadEnd \/ Receive \/ Keepalive \/ Awaited
    \/ Send \/ Shutdown \/ ShutdownAbort \/ DropRuntime
    \/ ServerEnd \/ Tick

Spec == Init /\ [][Next]_vars

\* Tasks that are ready run, and time passes.  A handler, a write to the transport and
\* its close() need not return, and the server need not do anything.
FairSpec ==
    /\ Spec
    /\ WF_vars(ReadEnd) /\ WF_vars(Receive) /\ WF_vars(Keepalive) /\ WF_vars(ShutdownAbort)
    /\ WF_vars(Tick)

-----------------------------------------------------------------------------
(* Properties *)

\* The first event, which is the one the supervisor acts on, says "dropped",
\* after which the connection may be resumed, only if the transport ended by
\* itself: not after a Close message or a timeout.
DroppedMeansDropped ==
    events # <<>> /\ Head(events) = "dropped" =>
        ~told /\ (peer = "ended" \/ owner # "running")

\* "The server timeout restarts on every message received": it elapses only if
\* no frame reached a running receive task for so long, unless dispatch() held
\* that task, or a ping the keepalive task, for a while.
TimeoutMeansSilence ==
    [][KeepTimeout /\ receive # "done" => heard = ServerTimeout \/ slow]_vars

\* Every ping is written; and so close() of the transport returns to the tasks.
PingsReturn == []<>(keep # "pinging")
ClosesReturn == []<>(keep # "closing") /\ []<>(busy # "close")

\* Unless it is shut down, a transport that ends, or whose server falls silent, is
\* reported, and closed if close() returns, whatever a handler does and even if
\* nobody owns the HubRuntime any more.  If pings are written.
EndReported ==
    PingsReturn => <>(shutdown \/ events # <<>>) /\ (ClosesReturn => <>(shutdown \/ closed))

\* After shutdown() or abort_without_close() has begun, both tasks end; only a handler
\* that does not return may stay.  If pings are written and close() returns to them.
TasksEnd ==
    PingsReturn /\ ClosesReturn =>
        (shutdown ~> keep = "done" /\ (receive = "done" \/ busy = "handler"))
=============================================================================
