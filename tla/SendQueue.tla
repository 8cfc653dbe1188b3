----------------------------- MODULE SendQueue -----------------------------
(***************************************************************************)
(* TransportSendQueue (src/transport/send_queue.rs): the callers of send() *)
(* and stop() on one side, the worker task send_loop() on the other, and   *)
(* the unbounded command channel between them.  A payload is the identity  *)
(* of the call that sends it; only its type, text or binary, matters.      *)
(*                                                                         *)
(* A caller may drop the future of send() or stop() at any await, which is *)
(* what aborting its task does.                                            *)
(***************************************************************************)
EXTENDS Naturals, Sequences

CONSTANTS
    Sends,      \* calls of send()
    Binary,     \* those whose payload is binary; the others carry text
    Stops,      \* calls of stop()
    Shutdown    \* QueueCommand::Shutdown

ASSUME SendQueueAssumption == /\ Binary \subseteq Sends
                              /\ Shutdown \notin Sends

VARIABLES
    commands,   \* the mpsc channel: Send commands, by their call, and Shutdown
    dropped,    \* the TransportSendQueue is gone: the channel has no sender left
    outcome,    \* what each call of send() returned, or where it is
    ticket,     \* history: ticket[s] is the rank at which call s entered the channel
    issued,     \* history: the number of tickets given out
    stop,       \* where each call of stop() is
    handle,     \* `worker` still holds the JoinHandle
    worker,     \* where send_loop() is
    buffer,     \* send_loop's payloads not yet written
    pending,    \* calls whose response sender is in pending_responses
    wire        \* history: the payloads written, in order

sendVars == <<outcome, ticket, issued>>
stopVars == <<stop, handle>>
workerVars == <<worker, buffer, pending, wire>>
vars == <<commands, dropped, sendVars, stopVars, workerVars>>

Outcomes == {"new", "waiting", "ok", "failed", "rejected", "stopped",
             "dropped", "closed", "abandoned"}

Kind(s) == IF s \in Binary THEN "binary" ELSE "text"

\* TransportSendQueue::new
Init ==
    /\ commands = <<>>
    /\ dropped = FALSE
    /\ outcome = [s \in Sends |-> "new"]
    /\ ticket = [s \in Sends |-> 0]
    /\ issued = 0
    /\ stop = [p \in Stops |-> "idle"]
    /\ handle = TRUE
    /\ worker = "recv"
    /\ buffer = <<>>
    /\ pending = {}
    /\ wire = <<>>

\* The response senders of the calls in S are used: each call returns r,
\* unless its future is gone.
Respond(S, r) ==
    [s \in Sends |-> IF s \in S /\ outcome[s] = "waiting" THEN r ELSE outcome[s]]

-----------------------------------------------------------------------------
(* The callers *)

\* send(): the channel accepts a command as long as its receiver lives.
Send(s) ==
    /\ ~dropped
    /\ outcome[s] = "new"
    /\ IF worker = "done"
         THEN /\ outcome' = [outcome EXCEPT ![s] = "closed"]
              /\ UNCHANGED <<commands, ticket, issued>>
         ELSE /\ outcome' = [outcome EXCEPT ![s] = "waiting"]
              /\ commands' = Append(commands, s)
              /\ issued' = issued + 1
              /\ ticket' = [ticket EXCEPT ![s] = issued + 1]
    /\ UNCHANGED <<dropped, stopVars, workerVars>>

\* The caller drops the future of send() while it awaits the response.
AbandonSend(s) ==
    /\ outcome[s] = "waiting"
    /\ outcome' = [outcome EXCEPT ![s] = "abandoned"]
    /\ UNCHANGED <<commands, dropped, ticket, issued, stopVars, workerVars>>

\* stop(), up to its first await: Shutdown is sent, an error ignored.
StopCall(p) ==
    /\ ~dropped
    /\ stop[p] = "idle"
    /\ stop' = [stop EXCEPT ![p] = "locking"]
    /\ commands' = IF worker = "done" THEN commands ELSE Append(commands, Shutdown)
    /\ UNCHANGED <<dropped, sendVars, handle, workerVars>>

\* Variant of StopLock: the mutex is released before the task is joined.
StopLockEarly(p) ==
    /\ stop[p] = "locking"
    /\ stop' = [stop EXCEPT ![p] = IF handle THEN "joining" ELSE "done"]
    /\ handle' = FALSE
    /\ UNCHANGED <<commands, dropped, sendVars, workerVars>>

\* stop() gets the mutex of `worker` and takes the JoinHandle.  The guard
\* lives to the end of the `if let`, so it is held while the task is joined.
StopLock(p) ==
    /\ stop[p] = "locking"
    /\ \A q \in Stops : stop[q] # "joining"
    /\ stop' = [stop EXCEPT ![p] = IF handle THEN "joining" ELSE "done"]
    /\ handle' = FALSE
    /\ UNCHANGED <<commands, dropped, sendVars, workerVars>>

\* stop(): the worker task has ended.
StopJoin(p) ==
    /\ stop[p] = "joining"
    /\ worker = "done"
    /\ stop' = [stop EXCEPT ![p] = "done"]
    /\ UNCHANGED <<commands, dropped, sendVars, handle, workerVars>>

\* The caller drops the future of stop(); a JoinHandle it took is detached.
AbandonStop(p) ==
    /\ stop[p] \in {"locking", "joining"}
    /\ stop' = [stop EXCEPT ![p] = "abandoned"]
    /\ UNCHANGED <<commands, dropped, sendVars, handle, workerVars>>

\* The last clone of the transport goes away; running calls borrow the queue.
DropQueue ==
    /\ ~dropped
    /\ \A s \in Sends : outcome[s] # "waiting"
    /\ \A p \in Stops : stop[p] \notin {"locking", "joining"}
    /\ dropped' = TRUE
    /\ UNCHANGED <<commands, sendVars, stopVars, workerVars>>

-----------------------------------------------------------------------------
(* The worker task *)

\* Variants of Push: no type check; newest payload first; the response
\* sender of a payload that joins others is lost.
PushMixed(s) ==
    /\ buffer' = Append(buffer, s)
    /\ pending' = pending \cup {s}
    /\ UNCHANGED outcome

PushFront(s) ==
    IF buffer = <<>> \/ Kind(Head(buffer)) = Kind(s)
      THEN /\ buffer' = <<s>> \o buffer
           /\ pending' = pending \cup {s}
           /\ UNCHANGED outcome
      ELSE /\ outcome' = Respond({s}, "rejected")
           /\ UNCHANGED <<buffer, pending>>

PushUntracked(s) ==
    IF buffer = <<>> \/ Kind(Head(buffer)) = Kind(s)
      THEN /\ buffer' = Append(buffer, s)
           /\ pending' = IF buffer = <<>> THEN {s} ELSE pending
           /\ UNCHANGED outcome
      ELSE /\ outcome' = Respond({s}, "rejected")
           /\ UNCHANGED <<buffer, pending>>

\* push_payload() and the two ways its callers go on: the response sender
\* is kept, or it is answered with the error at once.
Push(s) ==
    IF buffer = <<>> \/ Kind(Head(buffer)) = Kind(s)
      THEN /\ buffer' = Append(buffer, s)
           /\ pending' = pending \cup {s}
           /\ UNCHANGED outcome
      ELSE /\ outcome' = Respond({s}, "rejected")
           /\ UNCHANGED <<buffer, pending>>

\* send_loop(): recv() yields a Send.  A rejected payload leaves
\* wait_for_data set; an accepted one is followed by drain_ready_commands().
RecvSend ==
    /\ worker = "recv"
    /\ commands # <<>>
    /\ Head(commands) \in Sends
    /\ Push(Head(commands))
    /\ worker' = IF Head(commands) \in pending' THEN "drain" ELSE "recv"
    /\ commands' = Tail(commands)
    /\ UNCHANGED <<dropped, ticket, issued, stopVars, wire>>

\* send_loop(): recv() yields Shutdown, or None once every sender is gone.
\* fail_pending(), then the loop ends: the receiver is dropped, and the
\* response senders still in the channel with it.
RecvShutdown ==
    /\ worker = "recv"
    /\ \/ commands # <<>> /\ Head(commands) = Shutdown
       \/ commands = <<>> /\ dropped
    /\ worker' = "done"
    /\ outcome' = [s \in Sends |-> IF s \in pending THEN Respond(pending, "stopped")[s]
                                                    ELSE Respond(Sends, "dropped")[s]]
    /\ pending' = {}
    /\ commands' = <<>>
    /\ UNCHANGED <<dropped, ticket, issued, stopVars, buffer, wire>>

\* drain_ready_commands(): try_recv() yields a Send.
DrainSend ==
    /\ worker = "drain"
    /\ commands # <<>>
    /\ Head(commands) \in Sends
    /\ Push(Head(commands))
    /\ commands' = Tail(commands)
    /\ UNCHANGED <<dropped, ticket, issued, stopVars, worker, wire>>

\* drain_ready_commands(): try_recv() yields Shutdown.  The pending calls
\* fail, the buffer stays, and the loop goes on to flush it.
DrainShutdown ==
    /\ worker = "drain"
    /\ commands # <<>>
    /\ Head(commands) = Shutdown
    /\ outcome' = Respond(pending, "stopped")
    /\ pending' = {}
    /\ commands' = Tail(commands)
    /\ worker' = "flush"
    /\ UNCHANGED <<dropped, ticket, issued, stopVars, buffer, wire>>

\* drain_ready_commands(): the channel is empty.
DrainEmpty ==
    /\ worker = "drain"
    /\ commands = <<>>
    /\ worker' = "flush"
    /\ UNCHANGED <<commands, dropped, sendVars, stopVars, buffer, pending, wire>>

\* Variants of Answer: a failed write is answered Ok; nothing is answered.
AnswerOk(ok) == "ok"
AnswerNone(ok) == "waiting"

\* complete_pending(): the result each call gets.
Answer(ok) == IF ok THEN "ok" ELSE "failed"

\* flush_buffer() writes the whole buffer as one frame, or the sink fails;
\* complete_pending() answers with the result.
Flush(ok) ==
    /\ worker = "flush"
    /\ ok \/ buffer # <<>>
    /\ wire' = IF ok THEN wire \o buffer ELSE wire
    /\ buffer' = <<>>
    /\ outcome' = Respond(pending, Answer(ok))
    /\ pending' = {}
    /\ worker' = "recv"
    /\ UNCHANGED <<commands, dropped, ticket, issued, stopVars>>

Work ==
    \/ RecvSend \/ RecvShutdown
    \/ DrainSend \/ DrainShutdown \/ DrainEmpty
    \/ \E ok \in BOOLEAN : Flush(ok)

Next ==
    \/ \E s \in Sends : Send(s) \/ AbandonSend(s)
    \/ \E p \in Stops : StopCall(p) \/ StopLock(p) \/ StopJoin(p) \/ AbandonStop(p)
    \/ DropQueue
    \/ Work

Spec == Init /\ [][Next]_vars

\* The scheduler polls every ready task: the worker keeps taking steps, and
\* so does a call of stop() that has not been dropped.
FairSpec ==
    /\ Spec
    /\ WF_vars(Work)
    /\ \A p \in Stops : WF_vars(StopLock(p)) /\ WF_vars(StopJoin(p))

-----------------------------------------------------------------------------
(* Properties *)

Elements(seq) == {seq[i] : i \in DOMAIN seq}

\* The state has the shape of the code's: a channel of commands, one response
\* sender per pending call, a worker at one of send_loop's suspension points.
TypeOK ==
    /\ commands \in Seq(Sends \cup {Shutdown})
    /\ dropped \in BOOLEAN
    /\ outcome \in [Sends -> Outcomes]
    /\ ticket \in [Sends -> Nat]
    /\ issued \in Nat
    /\ stop \in [Stops -> {"idle", "locking", "joining", "done", "abandoned"}]
    /\ handle \in BOOLEAN
    /\ worker \in {"recv", "drain", "flush", "done"}
    /\ buffer \in Seq(Sends)
    /\ pending \in SUBSET Sends
    /\ wire \in Seq(Sends)

\* flush_buffer() converts the whole buffer according to its first payload and
\* calls unreachable!() on a payload of the other type: the buffer is uniform.
UniformBuffer ==
    \A i \in DOMAIN buffer : Kind(buffer[i]) = Kind(buffer[1])

\* "Serializes transport sends so frames are written in order": payloads reach
\* the wire in the order their calls entered the channel, each at most once,
\* whatever was rejected, failed or abandoned in between.
WrittenInOrder ==
    \A i, j \in DOMAIN wire : i < j => ticket[wire[i]] < ticket[wire[j]]

\* What send() returns tells what happened to the payload.  Ok means written;
\* a payload whose call was rejected, found the queue closed, or saw its write
\* fail is never written.  Only "connection stopped" leaves it open.
AnswersMatchWire ==
    \A s \in Sends :
        /\ outcome[s] = "ok" => s \in Elements(wire)
        /\ s \in Elements(wire) => outcome[s] \in {"ok", "stopped", "abandoned"}

\* A call that waits for its response is never forgotten: its sender is in the
\* channel of a worker that still reads it, or in pending_responses of a worker
\* that is about to flush.
NoLostResponse ==
    \A s \in Sends : outcome[s] = "waiting" =>
        \/ s \in Elements(commands) /\ worker # "done"
        \/ s \in pending /\ worker \in {"drain", "flush"}

\* When stop() returns the worker has ended, so the transport can close its
\* sink without racing a write; a stop() dropped half-way gives up that promise.
StopJoinsWorker ==
    \A p \in Stops : stop[p] = "done" =>
        \/ worker = "done"
        \/ \E q \in Stops : stop[q] = "abandoned"

\* No call of send() waits for ever: the worker answers it, or drops its
\* response sender when it ends.
EverySendAnswered ==
    \A s \in Sends : outcome[s] = "waiting" ~> outcome[s] # "waiting"

\* stop() returns, as the test stop_fails_pending_sends() takes for granted.
StopReturns ==
    \A p \in Stops : stop[p] \in {"locking", "joining"}
                         ~> stop[p] \in {"done", "abandoned"}
=============================================================================
