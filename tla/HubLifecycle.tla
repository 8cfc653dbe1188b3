---------------------------- MODULE HubLifecycle ----------------------------
(***************************************************************************)
(* The life of a HubConnection (src/hub_connection/mod.rs): concurrent     *)
(* calls of start() and close(), the supervisor task that resumes or       *)
(* reconnects a lost connection, and the lifecycle callbacks.              *)
(*                                                                         *)
(* A task runs from one await that is not ready to the next.  On tokio's   *)
(* current-thread runtime such a stretch is atomic; on the multi-thread    *)
(* runtime (config.parallel) the stretches of two tasks interleave.        *)
(* Aborting a task ends it where it awaits: one that is running goes on    *)
(* until then.                                                             *)
(*                                                                         *)
(* The server, the network and the RetryPolicy are external: each choice   *)
(* of theirs is nondeterministic.                                          *)
(***************************************************************************)
EXTENDS Naturals, Sequences, FiniteSets

CONSTANTS
    Starts,       \* calls of start(); also names the supervisor a call spawns
    Closes,       \* calls of close()
    None,         \* no supervisor
    Configs       \* the environments: which threads, server, policy, and the bounds

ASSUME LifecycleAssumption ==
    /\ Starts \cap Closes = {}
    /\ None \notin Starts
    /\ Configs \subseteq
         [parallel : BOOLEAN,       \* tasks run on several threads
          stateful : BOOLEAN,       \* the server agrees to stateful reconnect
          policy : BOOLEAN,         \* a reconnect policy is configured
          closeErrors : BOOLEAN,    \* closing a transport may fail
          starts : SUBSET Starts,   \* the calls of start() the application makes
          conns : Nat]              \* bound: transports opened

VARIABLES
    config,       \* the environment this HubConnection lives in
    (* fields of HubConnection *)
    state,        \* HubConnectionState
    closing,
    stop,         \* the value in the watch channel stop_reconnect
    connect,      \* connect_operation: the calls that wait for it, its holder first
    runtime,      \* the transport of the HubRuntime, 0 for None
    resumable,    \* message_buffer and resume are Some
    supervisor,   \* whose supervisor the JoinHandle is
    started,      \* connection_started
    (* calls *)
    pc,           \* where each call is
    mine,         \* the transport it, or its supervisor, has opened or taken
    (* supervisor tasks *)
    task,         \* where each supervisor is
    on,           \* the transport whose events it reads
    why,          \* the event it handles
    unseen,       \* supervisors whose receiver has not seen the last value of stop
    aborted,      \* supervisors that end at their next await
    (* transports, numbered in the order they are opened *)
    conns,        \* transports opened so far
    live,         \* those that are open
    event,        \* event[c]: the TransportEvent in the channel of c
    (* history *)
    told,         \* the last event the application was told of
    opened,       \* how often start() succeeded
    ended,        \* how often on_close was called
    quiet,        \* close() has begun since start() last passed its check
    doomed,       \* calls of start() during which close() was called
    calm          \* calls of start() made while no close() ran

Calls == Starts \cup Closes
Events == {"none", "dropped", "closed", "final"}

flagVars == <<closing, stop, unseen>>
connVars == <<runtime, conns, live, event, resumable>>
callVars == <<pc, mine, connect>>
taskVars == <<task, on, why, aborted>>
appVars == <<started, told, opened, ended>>
historyVars == <<quiet, doomed, calm>>
vars == <<state, flagVars, connVars, callVars, supervisor, taskVars, appVars, historyVars>>

\* HubConnection::new
Init ==
    /\ config \in Configs
    /\ state = "Disconnected" /\ closing = FALSE /\ stop = FALSE
    /\ connect = <<>> /\ runtime = 0 /\ resumable = FALSE
    /\ supervisor = None /\ started = FALSE
    /\ pc = [p \in Calls |-> "idle"] /\ mine = [p \in Calls |-> 0]
    /\ task = [t \in Starts |-> "none"] /\ on = [t \in Starts |-> 0]
    /\ why = [t \in Starts |-> "none"] /\ unseen = {} /\ aborted = {}
    /\ conns = 0 /\ live = {} /\ event = [c \in 1..config.conns |-> "none"]
    /\ told = "closed" /\ opened = 0 /\ ended = 0
    /\ quiet = FALSE /\ doomed = {} /\ calm = {}

-----------------------------------------------------------------------------
(* Scheduling *)

Returned == {"ok", "err", "refused"}

\* Where a call or a supervisor awaits something that is not ready.
CallAwaits == {"idle", "locking", "connecting", "pinging", "taking", "shutting",
               "waiting"} \cup Returned
TaskAwaits == {"none", "watch", "reopening", "swap", "resending", "cancel", "aborting",
               "sleep", "dialing", "pinging", "canceled", "ended"}

CallTurn(p) ==
    \/ config.parallel
    \/ /\ \A q \in Calls \ {p} : pc[q] \in CallAwaits
       /\ \A t \in Starts : task[t] \in TaskAwaits

TaskTurn(t) ==
    \/ config.parallel
    \/ /\ \A p \in Calls : pc[p] \in CallAwaits
       /\ \A u \in Starts \ {t} : task[u] \in TaskAwaits

At(p, where) == pc[p] = where /\ CallTurn(p)
Go(p, where) == pc' = [pc EXCEPT ![p] = where]

Locked(p) == At(p, "locked") \/ (At(p, "locking") /\ Head(connect) = p)

TaskAt(t, where) == task[t] = where /\ TaskTurn(t)
TaskGo(t, where) ==
    task' = [task EXCEPT ![t] = IF t \in aborted /\ where \in TaskAwaits THEN "ended" ELSE where]

\* Variant of AbortSupervisor: the handle is dropped.
AbortSupervisorNot == UNCHANGED <<task, aborted>>

\* JoinHandle::abort() on the supervisor, if there is one.
AbortSupervisor ==
    IF supervisor = None \/ task[supervisor] = "ended"
      THEN UNCHANGED <<task, aborted>>
      ELSE IF task[supervisor] \in TaskAwaits
        THEN task' = [task EXCEPT ![supervisor] = "canceled"] /\ UNCHANGED aborted
        ELSE aborted' = aborted \cup {supervisor} /\ UNCHANGED task

\* The runtime drops a canceled task.
DropCanceled(t) ==
    /\ TaskAt(t, "canceled")
    /\ TaskGo(t, "ended")
    /\ UNCHANGED <<state, flagVars, connVars, callVars, supervisor, on, why, aborted,
                   appVars, historyVars>>

\* watch::Sender::send() changes nothing when no receiver is left.  connect_runtime()
\* and every supervisor hold one.
Receivers ==
    {s \in Starts : pc[s] \in {"connecting", "pinging"}}
      \cup {t \in Starts : task[t] \notin {"none", "ended"}}

SendStop(value) ==
    IF Receivers = {}
      THEN UNCHANGED <<stop, unseen>>
      ELSE /\ stop' = value
           /\ unseen' = {t \in Starts : task[t] \notin {"none", "ended"}}

\* A new transport c is open.
Open(c) ==
    /\ c <= config.conns
    /\ conns' = c
    /\ live' = live \cup {c}

\* Variants of InvokeClosed: whether or not start() has succeeded since; not
\* at all.
InvokeClosedAlways ==
    /\ started' = FALSE
    /\ told' = "closed"
    /\ ended' = ended + 1
    /\ UNCHANGED opened

InvokeClosedNever == UNCHANGED appVars

\* invoke_closed(): connection_started.swap(false), and on_close if it was set.
InvokeClosed ==
    /\ started' = FALSE
    /\ told' = IF started THEN "closed" ELSE told
    /\ ended' = IF started THEN ended + 1 ELSE ended
    /\ UNCHANGED opened

\* connect_operation.lock(): at once when it is free, else in turn.
Lock(p) ==
    /\ At(p, "queueing")
    /\ connect' = Append(connect, p)
    /\ Go(p, IF connect = <<>> THEN "locked" ELSE "locking")
    /\ UNCHANGED <<state, flagVars, connVars, mine, supervisor, taskVars, appVars,
                   historyVars>>

-----------------------------------------------------------------------------
(* start() *)

StartCheck(s) ==
    /\ s \in config.starts
    /\ At(s, "idle")
    /\ IF state = "Disconnected"
         THEN Go(s, "passed") /\ quiet' = FALSE
         ELSE Go(s, "refused") /\ UNCHANGED quiet
    /\ calm' = IF \A k \in Closes : pc[k] \in Returned \cup {"idle"}
                 THEN calm \cup {s} ELSE calm
    /\ UNCHANGED <<state, flagVars, connVars, mine, connect, supervisor, taskVars,
                   appVars, doomed>>

StartMark(s) ==
    /\ At(s, "passed")
    /\ state' = "Connecting"
    /\ Go(s, "marked")
    /\ UNCHANGED <<flagVars, connVars, mine, connect, supervisor, taskVars,
                   appVars, historyVars>>

StartReset(s) ==
    /\ At(s, "marked")
    /\ closing' = FALSE
    /\ SendStop(FALSE)
    /\ Go(s, "queueing")
    /\ UNCHANGED <<state, connVars, mine, connect, supervisor, taskVars, appVars, historyVars>>

\* connect_operation is acquired and closing is checked.
StartLocked(s) ==
    /\ Locked(s)
    /\ Go(s, IF closing THEN "stopped" ELSE "subscribing")
    /\ UNCHANGED <<state, flagVars, connVars, mine, connect, supervisor, taskVars,
                   appVars, historyVars>>

\* connect_runtime() subscribes to stop_reconnect: a value that is true already
\* wins over a connection that is not yet made.
StartSubscribe(s) ==
    /\ At(s, "subscribing")
    /\ Go(s, IF stop THEN "failing" ELSE "connecting")
    /\ UNCHANGED <<state, flagVars, connVars, mine, connect, supervisor, taskVars,
                   appVars, historyVars>>

StartStopped(s) ==
    /\ At(s, "stopped")
    /\ state' = "Disconnected"
    /\ connect' = Tail(connect)
    /\ Go(s, "err")
    /\ UNCHANGED <<flagVars, connVars, mine, supervisor, taskVars, appVars, historyVars>>

\* connect_runtime(): the value of stop_reconnect becomes true.
ConnectStopped(s) ==
    /\ At(s, "connecting")
    /\ stop
    /\ Go(s, "failing")
    /\ UNCHANGED <<state, flagVars, connVars, mine, connect, supervisor, taskVars,
                   appVars, historyVars>>

\* connect_runtime(): negotiate, the WebSocket or the handshake fails.
ConnectFails(s) ==
    /\ At(s, "connecting")
    /\ Go(s, "failing")
    /\ UNCHANGED <<state, flagVars, connVars, mine, connect, supervisor, taskVars,
                   appVars, historyVars>>

\* connect_runtime(): the connection stands and its HubRuntime runs.
ConnectOk(s) ==
    /\ At(s, "connecting")
    /\ Open(conns + 1)
    /\ mine' = [mine EXCEPT ![s] = conns + 1]
    /\ resumable' = config.stateful
    /\ Go(s, "pinging")
    /\ UNCHANGED <<state, flagVars, runtime, event, connect, supervisor, taskVars,
                   appVars, historyVars>>

\* What HubRuntime::shutdown() leaves of the open transports: if close() of the
\* transport fails, its read task and those of the HubRuntime are not aborted.
AfterShutdown(c) == {live \ {c}} \cup (IF config.closeErrors THEN {live} ELSE {})

\* The first ping fails, and shutdown() has returned; its error is ignored.
PingFails(s) ==
    /\ At(s, "pinging")
    /\ live' \in AfterShutdown(mine[s])
    /\ Go(s, "failing")
    /\ UNCHANGED <<state, flagVars, runtime, conns, event, resumable, mine, connect,
                   supervisor, taskVars, appVars, historyVars>>

PingOk(s) ==
    /\ At(s, "pinging")
    /\ runtime' = mine[s]
    /\ Go(s, "connected")
    /\ UNCHANGED <<state, flagVars, conns, live, event, resumable, mine, connect,
                   supervisor, taskVars, appVars, historyVars>>

\* Variant of AfterConnect: closing is not looked at again.
AfterConnectBlind == "announce"

AfterConnect == IF closing THEN "shutdown" ELSE "announce"

StartConnected(s) ==
    /\ At(s, "connected")
    /\ Go(s, AfterConnect)
    /\ UNCHANGED <<state, flagVars, connVars, mine, connect, supervisor, taskVars,
                   appVars, historyVars>>

StartAnnounce(s) ==
    /\ At(s, "announce")
    /\ state' = "Connected"
    /\ started' = TRUE
    /\ told' = "up"
    /\ opened' = opened + 1
    /\ Go(s, "spawn")
    /\ UNCHANGED <<flagVars, connVars, mine, connect, supervisor, taskVars, ended,
                   historyVars>>

\* spawn_supervisor()
StartSpawn(s) ==
    /\ At(s, "spawn")
    /\ LET old == supervisor IN
         /\ task' = [t \in Starts |->
                       IF t = s THEN "watch"
                       ELSE IF t = old /\ task[t] # "ended" /\ task[t] \in TaskAwaits
                         THEN "canceled" ELSE task[t]]
         /\ aborted' = IF old = None \/ task[old] \in TaskAwaits THEN aborted
                                                               ELSE aborted \cup {old}
    /\ supervisor' = s
    /\ on' = [on EXCEPT ![s] = mine[s]]
    /\ connect' = Tail(connect)
    /\ Go(s, "ok")
    /\ UNCHANGED <<state, flagVars, connVars, mine, why, appVars, historyVars>>

StartFail(s) ==
    /\ At(s, "failing")
    /\ runtime' = 0
    /\ state' = "Disconnected"
    /\ connect' = Tail(connect)
    /\ Go(s, "err")
    /\ UNCHANGED <<flagVars, conns, live, event, resumable, mine, supervisor, taskVars,
                   appVars, historyVars>>

-----------------------------------------------------------------------------
(* close() *)

CloseRead(k) ==
    /\ At(k, "idle")
    /\ Go(k, CASE state = "Disconnected" -> "ok"
               [] state = "Disconnecting" -> "registering"
               [] OTHER -> "marking")
    /\ doomed' = doomed \cup
         {s \in Starts : pc[s] \in {"marked", "queueing", "locking", "locked", "subscribing",
                                 "connecting", "pinging", "connected", "failing"}}
    /\ UNCHANGED <<state, flagVars, connVars, mine, connect, supervisor, taskVars,
                   appVars, quiet, calm>>

\* Another close() runs: close_notify.notified()
CloseRegister(k) ==
    /\ At(k, "registering")
    /\ Go(k, "waiting")
    /\ UNCHANGED <<state, flagVars, connVars, mine, connect, supervisor, taskVars,
                   appVars, historyVars>>

CloseMark(k) ==
    /\ At(k, "marking")
    /\ state' = "Disconnecting"
    /\ quiet' = TRUE
    /\ Go(k, "signaling")
    /\ UNCHANGED <<flagVars, connVars, mine, connect, supervisor, taskVars, appVars,
                   doomed, calm>>

CloseSignal(k) ==
    /\ At(k, "signaling")
    /\ closing' = TRUE
    /\ SendStop(TRUE)
    /\ Go(k, "queueing")
    /\ UNCHANGED <<state, connVars, mine, connect, supervisor, taskVars, appVars, historyVars>>

CloseLocked(k) ==
    /\ Locked(k)
    /\ Go(k, "shutdown")
    /\ UNCHANGED <<state, flagVars, connVars, mine, connect, supervisor, taskVars,
                   appVars, historyVars>>

-----------------------------------------------------------------------------
(* shutdown_active_connection(), called by close() and by start() *)

ShutdownAbort(p) ==
    /\ At(p, "shutdown")
    /\ AbortSupervisor
    /\ supervisor' = None
    /\ Go(p, "taking")
    /\ UNCHANGED <<state, flagVars, connVars, mine, connect, on, why, appVars, historyVars>>

\* Variant of AfterTake: the HubRuntime is dropped, not shut down.
AfterTakeDrop == "finish"

AfterTake == IF runtime = 0 THEN "finish" ELSE "shutting"

\* Callers that send hold the runtime's lock, so this may have to wait.
ShutdownTake(p) ==
    /\ At(p, "taking")
    /\ mine' = [mine EXCEPT ![p] = runtime]
    /\ runtime' = 0
    /\ Go(p, AfterTake)
    /\ UNCHANGED <<state, flagVars, conns, live, event, resumable, connect, supervisor,
                   taskVars, appVars, historyVars>>

\* HubRuntime::shutdown() has returned: it writes a Close message and awaits
\* close(), whose stop() of the send queue may never return.
ShutdownOk(p) ==
    /\ At(p, "shutting")
    /\ live' = live \ {mine[p]}
    /\ Go(p, "finish")
    /\ UNCHANGED <<state, flagVars, runtime, conns, event, resumable, mine, connect,
                   supervisor, taskVars, appVars, historyVars>>

\* It returns an error, and so does the call: nothing was aborted.
ShutdownErr(p) ==
    /\ config.closeErrors
    /\ At(p, "shutting")
    /\ connect' = Tail(connect)
    /\ Go(p, "err")
    /\ UNCHANGED <<state, flagVars, connVars, mine, supervisor, taskVars, appVars,
                   historyVars>>

ShutdownFinish(p) ==
    /\ At(p, "finish")
    /\ resumable' = FALSE
    /\ state' = "Disconnected"
    /\ Go(p, "notify")
    /\ UNCHANGED <<flagVars, runtime, conns, live, event, mine, connect, supervisor,
                   taskVars, appVars, historyVars>>

\* Variant of Notified: nobody is.
NotifiedNone == {}

\* notify_waiters()
Notified == {q \in Calls : pc[q] = "waiting"}

\* on_close, then every close() that waits returns.
ShutdownNotify(p) ==
    /\ At(p, "notify")
    /\ InvokeClosed
    /\ connect' = Tail(connect)
    /\ pc' = [q \in Calls |-> IF q = p THEN IF p \in Starts THEN "err" ELSE "ok"
                              ELSE IF q \in Notified THEN "ok" ELSE pc[q]]
    /\ UNCHANGED <<state, flagVars, connVars, mine, supervisor, taskVars, historyVars>>

-----------------------------------------------------------------------------
(* The supervisor task *)

\* stop_reconnect.changed()
SupStop(t) ==
    /\ TaskAt(t, "watch")
    /\ t \in unseen
    /\ unseen' = unseen \ {t}
    /\ TaskGo(t, IF stop THEN "ended" ELSE "watch")
    /\ UNCHANGED <<state, closing, stop, connVars, callVars, supervisor, on, why, aborted,
                   appVars, historyVars>>

\* events_rx.recv(): an event, or the end of the channel once the tasks of the
\* HubRuntime are gone.  A dropped transport is resumed if it can be.
SupEvent(t) ==
    /\ TaskAt(t, "watch")
    /\ event[on[t]] # "none" \/ on[t] \notin live
    /\ event' = [event EXCEPT ![on[t]] = "none"]
    /\ why' = [why EXCEPT ![t] = event[on[t]]]
    /\ TaskGo(t, IF closing \/ event[on[t]] = "none" THEN "ended"
                 ELSE IF event[on[t]] = "dropped" /\ resumable THEN "reopening" ELSE "cancel")
    /\ UNCHANGED <<state, flagVars, runtime, conns, live, resumable, callVars, supervisor,
                   on, aborted, appVars, historyVars>>

\* resume_transport(): the transport is reopened and its HubRuntime runs.
ReopenOk(t) ==
    /\ TaskAt(t, "reopening")
    /\ Open(conns + 1)
    /\ on' = [on EXCEPT ![t] = conns + 1]
    /\ TaskGo(t, "swap")
    /\ UNCHANGED <<state, flagVars, runtime, event, resumable, callVars, supervisor, why,
                   aborted, appVars, historyVars>>

ResumeSwap(t) ==
    /\ TaskAt(t, "swap")
    /\ runtime' = on[t]
    /\ TaskGo(t, "resending")
    /\ UNCHANGED <<state, flagVars, conns, live, event, resumable, callVars, supervisor,
                   on, why, aborted, appVars, historyVars>>

ResumeOk(t) ==
    /\ TaskAt(t, "resending")
    /\ TaskGo(t, "watch")
    /\ UNCHANGED <<state, flagVars, connVars, callVars, supervisor, on, why, aborted,
                   appVars, historyVars>>

ResumeFails(t) ==
    /\ TaskAt(t, "reopening") \/ TaskAt(t, "resending")
    /\ TaskGo(t, "cancel")
    /\ UNCHANGED <<state, flagVars, connVars, callVars, supervisor, on, why, aborted,
                   appVars, historyVars>>

\* No policy, or the server said allow_reconnect = false: closed for good.
SupGiveUp(t) ==
    /\ TaskAt(t, "cancel")
    /\ ~config.policy \/ why[t] = "final"
    /\ state' = "Disconnected"
    /\ TaskGo(t, "closed")
    /\ UNCHANGED <<flagVars, connVars, callVars, supervisor, on, why, aborted, appVars,
                   historyVars>>

SupClosed(t) ==
    /\ TaskAt(t, "closed")
    /\ InvokeClosed
    /\ TaskGo(t, "ended")
    /\ UNCHANGED <<state, flagVars, connVars, callVars, supervisor, on, why, aborted,
                   historyVars>>

\* The HubRuntime is taken; abort_without_close() awaits close().
SupTake(t) ==
    /\ TaskAt(t, "cancel")
    /\ config.policy /\ why[t] # "final"
    /\ mine' = [mine EXCEPT ![t] = runtime]
    /\ runtime' = 0
    /\ TaskGo(t, IF runtime = 0 THEN "delay" ELSE "aborting")
    /\ UNCHANGED <<state, flagVars, conns, live, event, resumable, pc, connect, supervisor,
                   on, why, aborted, appVars, historyVars>>

\* abort_without_close() has returned: the tasks are aborted whatever close() says.
SupAborted(t) ==
    /\ TaskAt(t, "aborting")
    /\ live' = live \ {mine[t]}
    /\ TaskGo(t, "delay")
    /\ UNCHANGED <<state, flagVars, runtime, conns, event, resumable, callVars, supervisor,
                   on, why, aborted, appVars, historyVars>>

\* The policy gives a first delay.
SupReconnect(t) ==
    /\ TaskAt(t, "delay")
    /\ state' = "Reconnecting"
    /\ TaskGo(t, "announce")
    /\ UNCHANGED <<flagVars, connVars, callVars, supervisor, on, why, aborted, appVars,
                   historyVars>>

\* The policy gives no first, or no further, delay.
SupExhausted(t) ==
    /\ TaskAt(t, "delay") \/ TaskAt(t, "failed")
    /\ state' = "Disconnected"
    /\ TaskGo(t, "closed")
    /\ UNCHANGED <<flagVars, connVars, callVars, supervisor, on, why, aborted, appVars,
                   historyVars>>

\* on_reconnecting, and the check that nobody closed the connection in it.
SupAnnounce(t) ==
    /\ TaskAt(t, "announce")
    /\ told' = "reconnecting"
    /\ TaskGo(t, IF closing \/ state # "Reconnecting" THEN "ended" ELSE "sleep")
    /\ UNCHANGED <<state, flagVars, connVars, callVars, supervisor, on, why, aborted,
                   started, opened, ended, historyVars>>

SupWake(t) ==
    /\ TaskAt(t, "sleep")
    /\ TaskGo(t, IF closing \/ stop \/ state # "Reconnecting" THEN "watch" ELSE "dialing")
    /\ UNCHANGED <<state, flagVars, connVars, callVars, supervisor, on, why, aborted,
                   appVars, historyVars>>

\* reconnect_once(): the new connection stands and its HubRuntime runs.
DialOk(t) ==
    /\ TaskAt(t, "dialing")
    /\ Open(conns + 1)
    /\ on' = [on EXCEPT ![t] = conns + 1]
    /\ resumable' = config.stateful
    /\ TaskGo(t, "pinging")
    /\ UNCHANGED <<state, flagVars, runtime, event, callVars, supervisor, why, aborted,
                   appVars, historyVars>>

DialFails(t) ==
    /\ \/ TaskAt(t, "dialing") /\ UNCHANGED live
       \/ TaskAt(t, "pinging") /\ live' \in AfterShutdown(on[t])
    /\ TaskGo(t, "failed")
    /\ UNCHANGED <<state, flagVars, runtime, conns, event, resumable, callVars, supervisor,
                   on, why, aborted, appVars, historyVars>>

\* The policy gives another delay.
SupRetry(t) ==
    /\ TaskAt(t, "failed")
    /\ TaskGo(t, "sleep")
    /\ UNCHANGED <<state, flagVars, connVars, callVars, supervisor, on, why, aborted,
                   appVars, historyVars>>

DialPinged(t) ==
    /\ TaskAt(t, "pinging")
    /\ runtime' = on[t]
    /\ TaskGo(t, "restored")
    /\ UNCHANGED <<state, flagVars, conns, live, event, resumable, callVars, supervisor,
                   on, why, aborted, appVars, historyVars>>

SupRestored(t) ==
    /\ TaskAt(t, "restored")
    /\ state' = "Connected"
    /\ TaskGo(t, "reconnected")
    /\ UNCHANGED <<flagVars, connVars, callVars, supervisor, on, why, aborted, appVars,
                   historyVars>>

SupReconnected(t) ==
    /\ TaskAt(t, "reconnected")
    /\ told' = "up"
    /\ TaskGo(t, "watch")
    /\ UNCHANGED <<state, flagVars, connVars, callVars, supervisor, on, why, aborted,
                   started, opened, ended, historyVars>>

-----------------------------------------------------------------------------
(* The network and the server, external *)

\* A transport ends by itself, by a server timeout or by a Close message.
Lose(c, e) ==
    /\ c \in live
    /\ live' = live \ {c}
    /\ event' = [event EXCEPT ![c] = e]
    /\ UNCHANGED <<state, flagVars, runtime, conns, resumable, callVars, supervisor,
                   taskVars, appVars, historyVars>>

-----------------------------------------------------------------------------
Shutdown(p) == ShutdownAbort(p) \/ ShutdownFinish(p) \/ ShutdownNotify(p)

\* The steps of start() and close() that wait for no server and no transport.
StartStep(s) ==
    \/ StartMark(s) \/ StartReset(s) \/ Lock(s) \/ StartLocked(s)
    \/ StartStopped(s) \/ StartSubscribe(s)
    \/ ConnectStopped(s) \/ StartConnected(s)
    \/ StartAnnounce(s) \/ StartSpawn(s) \/ StartFail(s) \/ Shutdown(s)

CloseStep(k) ==
    \/ CloseRegister(k) \/ CloseMark(k) \/ CloseSignal(k) \/ Lock(k) \/ CloseLocked(k)
    \/ Shutdown(k)

TaskStep(t) ==
    \/ DropCanceled(t) \/ SupStop(t) \/ SupEvent(t)
    \/ SupGiveUp(t) \/ SupClosed(t) \/ SupReconnect(t) \/ SupExhausted(t)
    \/ SupAnnounce(t) \/ SupWake(t) \/ SupRetry(t)
    \/ SupRestored(t) \/ SupReconnected(t)

\* What a call and a supervisor wait for: an answer of the server, a write to the
\* transport, its own or that of a caller with the runtime's lock, and the end of close().
CallAwaited(p) ==
    \/ p \in Starts /\ (ConnectFails(p) \/ ConnectOk(p) \/ PingFails(p) \/ PingOk(p))
    \/ ShutdownTake(p) \/ ShutdownOk(p) \/ ShutdownErr(p)

TaskAwaited(t) ==
    \/ ReopenOk(t) \/ ResumeSwap(t) \/ ResumeOk(t) \/ ResumeFails(t)
    \/ SupTake(t) \/ SupAborted(t)
    \/ DialOk(t) \/ DialPinged(t) \/ DialFails(t)

Next ==
    /\ UNCHANGED config
    /\ \/ \E s \in Starts : StartCheck(s) \/ StartStep(s)
       \/ \E k \in Closes : CloseRead(k) \/ CloseStep(k)
       \/ \E p \in Calls : CallAwaited(p)
       \/ \E t \in Starts : TaskStep(t) \/ TaskAwaited(t)
       \/ \E c \in 1..config.conns, e \in Events \ {"none"} : Lose(c, e)

Spec == Init /\ [][Next]_<<config, vars>>

\* The scheduler polls every ready task.  Nothing makes a server answer, a transport
\* take a write or close, nor the application call.
FairSpec ==
    /\ Spec
    /\ \A s \in Starts : WF_vars(StartStep(s)) /\ WF_vars(TaskStep(s))
    /\ \A k \in Closes : WF_vars(CloseStep(k))

-----------------------------------------------------------------------------
(* Properties *)

AllReturned == \A p \in Calls : pc[p] \in Returned \cup {"idle"}

\* Every start() so far was called while no close() ran.
Calm == \A s \in Starts : pc[s] # "idle" => s \in calm

\* close() leaves the connection closed: once every call has returned and no
\* start() has begun since, the state is Disconnected, no HubRuntime is
\* installed and no supervisor will change that.  For tasks that do not run in
\* parallel.
ClosedMeansClosed ==
    ~config.parallel /\ quiet /\ AllReturned /\ (\A k \in Closes : pc[k] # "err") =>
        /\ state = "Disconnected"
        /\ runtime = 0
        /\ \A t \in Starts : task[t] \in {"none", "canceled", "ended"}

\* A start() that close() finds under way, before its last look at closing,
\* does not report success.  For tasks that do not run in parallel, and an
\* application that calls no start() while a close() runs.
StartYieldsToClose == ~config.parallel /\ Calm => \A s \in doomed : pc[s] # "ok"

\* One task at a time; or one start() on several threads, without a supervisor that
\* resumes or reconnects.
Simple ==
    \/ ~config.parallel
    \/ ~config.policy /\ ~config.stateful /\ Cardinality(config.starts) <= 1

\* "Closes the underlying transport connection": after that none is open, if
\* every start() that it found under way has yielded.  For connections that are not
\* resumed or reconnected, transports that close without an error, and tasks that do
\* not run in parallel unless there is but one start().
NothingOpen ==
    /\ Simple /\ ~config.policy /\ ~config.stateful /\ ~config.closeErrors
    /\ quiet /\ AllReturned /\ \A s \in doomed : pc[s] # "ok"
    => live = {}

\* A start() during which close() is not called is not stopped by one.
OnlyCloseStops == \A s \in calm \ doomed : ~(pc[s] = "failing" /\ stop)

\* The callbacks report the connection's life in order, on_close once.  For tasks
\* that do not run in parallel unless there is but one start() and no reconnect.
Reports == INSTANCE ConnectionEvents
CallbacksInOrder ==
    Reports!Init /\ [][~Simple \/ Reports!Next]_<<told, opened, ended>>

\* Every first ping of start(), every shutdown(), and what a caller writes meanwhile,
\* returns.
TransportsReturn == \A p \in Calls : []<>(pc[p] \notin {"pinging", "taking", "shutting"})

\* close() returns, whatever the server does, if transports take what is written and
\* close, without an error.  For tasks that do not run in parallel.
CloseReturns ==
    TransportsReturn =>
        \A k \in Closes :
            (~config.parallel /\ ~config.closeErrors /\ pc[k] # "idle") ~> pc[k] \in Returned

\* Once a started connection is Disconnected, on_close is called.
CloseReported == state = "Disconnected" /\ started ~> ~started
=============================================================================
