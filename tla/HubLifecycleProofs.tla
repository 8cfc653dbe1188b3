------------------------ MODULE HubLifecycleProofs -------------------------
(***************************************************************************)
(* What start(), close() and the supervisor of a HubConnection keep, for   *)
(* any number of calls and transports, on one thread.                      *)
(***************************************************************************)
EXTENDS HubLifecycle, TLAPS

(* Where a call or a task can be *)

Entering == {"passed", "marked", "queueing"}
Holding == {"locked", "stopped", "subscribing", "connecting", "pinging", "connected",
            "announce", "spawn", "failing", "shutdown", "taking", "shutting", "finish",
            "notify"}
InLock == Holding \cup {"locking"}
StartPcs == {"idle"} \cup Returned \cup Entering \cup InLock
ClosePcs == {"idle", "registering", "waiting", "marking", "signaling", "queueing",
             "locked", "locking", "shutdown", "taking", "shutting", "finish", "notify"}
              \cup Returned
TaskPcs == TaskAwaits \cup {"delay", "closed", "announce", "failed", "restored", "reconnected"}

\* Supervisors that do nothing any more.
Over == {"none", "canceled", "ended"}

Queued(c) == {c[i] : i \in DOMAIN c}
Once(c) == \A i, j \in DOMAIN c : c[i] = c[j] => i = j

\* The types, and that abort() always meets a supervisor at an await.
Typed ==
    /\ pc \in [Calls -> StartPcs \cup ClosePcs]
    /\ \A s \in Starts : pc[s] \in StartPcs
    /\ \A k \in Closes : pc[k] \in ClosePcs
    /\ task \in [Starts -> TaskPcs]
    /\ connect \in Seq(Calls)
    /\ supervisor \in Starts \cup {None}
    /\ aborted = {}

\* connect_operation is held by the call in front.
Lined ==
    /\ Once(connect)
    /\ \A p \in Calls : pc[p] \in InLock <=> p \in Queued(connect)
    /\ \A p \in Calls : pc[p] \in Holding => connect # <<>> /\ Head(connect) = p

\* The JoinHandle is that of the one supervisor there is.
Owner == \A t \in Starts : task[t] \notin Over => supervisor = t

\* How far shutdown_active_connection() has come.
Shut ==
    \A p \in Calls :
        /\ pc[p] \in {"taking", "shutting", "finish", "notify"} => supervisor = None
        /\ pc[p] \in {"shutting", "finish", "notify"} => runtime = 0
        /\ pc[p] = "notify" => state = "Disconnected"
        /\ pc[p] = "marking" => state # "Disconnected"

\* Closed for good, until start() is called.
Finished ==
    /\ state = "Disconnected"
    /\ runtime = 0
    /\ \A t \in Starts : task[t] \in Over
    /\ \A s \in Starts : pc[s] \in Returned \cup {"idle"}

\* A close() that has begun is still to come, or all is closed.
Quiet ==
    quiet =>
        /\ \A s \in Starts : pc[s] \notin Entering
        /\ \/ \E k \in Closes : pc[k] \in {"signaling", "queueing", "err"}
           \/ connect # <<>> /\ connect[Len(connect)] \in Closes
           \/ Finished

CloseInv == Typed /\ Lined /\ Owner /\ Shut /\ Quiet

(* An application that calls no start() while a close() runs *)

Way == Entering \cup Holding
Idle == Returned \cup {"idle"}

\* One start() at a time, and no supervisor beside it.
AloneAt(s) ==
    /\ \A r \in Starts \ {s} : pc[r] \notin Way
    /\ \A t \in Starts : task[t] \in Over
    /\ pc[s] = "passed" => state = "Disconnected"
    /\ pc[s] = "marked" => state = "Connecting"
    /\ pc[s] = "spawn" => state = "Connected"
    /\ pc[s] \notin {"passed", "notify", "spawn"} => state \in {"Connecting", "Disconnecting"}
    /\ pc[s] \in Entering => connect = <<>> /\ \A k \in Closes : pc[k] \in Idle

Alone == \A s \in Starts : pc[s] # "locking" /\ (pc[s] \in Way => AloneAt(s))

\* closing and stop_reconnect tell of the close() that is under way.
Signalled ==
    /\ state = "Disconnecting" => closing \/ \E k \in Closes : pc[k] = "signaling"
    /\ \A s \in Starts : \A k \in Closes :
         pc[s] \in Way /\ pc[k] \in InLock \cup {"queueing"} => closing
    /\ \A s \in Starts :
         /\ pc[s] \in {"connecting", "pinging", "connected"} => (stop => closing)
         /\ pc[s] \in {"announce", "spawn"} => ~closing /\ ~stop

\* start() yields to a close() that found it under way.
Yields ==
    \A s \in doomed :
        /\ s \in Starts
        /\ pc[s] \notin {"idle", "passed", "marked", "announce", "spawn", "ok"}
        /\ pc[s] \in Way => closing \/ \E k \in Closes : pc[k] \in {"marking", "signaling"}

Asleep == {"announce", "sleep", "dialing", "pinging", "failed", "restored"}
StateOf(w) == IF w = "closed" THEN "Disconnected"
              ELSE IF w \in Asleep THEN "Reconnecting" ELSE "Connected"

\* Nobody waits for connect_operation while a supervisor works, and the state
\* is the supervisor's until a close() begins.
Watched ==
    \A t \in Starts : task[t] \notin Over =>
        /\ \A p \in Calls : pc[p] \in InLock => p \in Closes /\ pc[p] \in {"locked", "shutdown"}
        /\ \/ ~closing /\ ~stop /\ state = StateOf(task[t])
           \/ \E k \in Closes : pc[k] \in {"signaling", "queueing", "locked", "shutdown"}

TellsUp == {"watch", "reopening", "swap", "resending", "cancel", "aborting", "delay",
            "announce"}
TellsDown == {"sleep", "dialing", "pinging", "failed", "restored", "reconnected"}

\* What the application was told last fits where start() and the supervisor are.
Telling ==
    /\ told \in {"closed", "up", "reconnecting"}
    /\ started \in BOOLEAN
    /\ started <=> told # "closed"
    /\ \A s \in Starts : (pc[s] \in Way \ {"spawn"} => ~started) /\ (pc[s] = "spawn" => told = "up")
    /\ \A t \in Starts : (task[t] \in TellsUp => told = "up")
                      /\ (task[t] \in TellsDown => told = "reconnecting")
    /\ state = "Disconnected" /\ started =>
         (\E t \in Starts : task[t] = "closed") \/ (\E p \in Calls : pc[p] = "notify")

Called == calm \subseteq Starts /\ \A s \in calm : pc[s] # "idle"

CalmInv == Calm => Alone /\ Signalled /\ Yields /\ Watched /\ Telling

\* Transports, of a connection that is not reconnected
Counted ==
    /\ config.conns \in Nat /\ config.stateful \in BOOLEAN /\ conns \in 0..config.conns
    /\ live \subseteq 1..conns /\ runtime \in 0..conns
    /\ mine \in [Calls -> 0..conns] /\ on \in [Starts -> 0..conns]
    /\ event \in [1..config.conns -> Events]
    /\ \A c \in 1..config.conns : c \in live \/ c > conns => event[c] = "none"

Held(c) == c = runtime \/ \E p \in Calls : pc[p] \in {"pinging", "shutting"} /\ mine[p] = c

Bare == Entering \cup {"locked", "stopped", "subscribing", "connecting", "pinging", "failing"}

\* Every open transport is that of the HubRuntime, or of a call that is opening
\* or closing it; what the HubRuntime holds is open only while it is needed.
Accounted ==
    /\ resumable = FALSE
    /\ \A c \in live : Held(c)
    /\ \A t \in Starts :
         /\ task[t] \in Over \cup {"watch", "cancel", "closed"}
         /\ task[t] = "watch" => on[t] = runtime
         /\ task[t] = "cancel" => runtime \notin live
    /\ state = "Disconnected" => runtime \notin live
    /\ \A s \in Starts :
         /\ pc[s] \in Bare => runtime \notin live
         /\ pc[s] \in {"connected", "announce", "spawn"} => runtime = mine[s]

OpenInv ==
    Calm /\ ~config.policy /\ ~config.stateful /\ ~config.closeErrors => Counted /\ Accounted

\* close() fails only if closing a transport may.
Unfailing == ~config.closeErrors => \A k \in Closes : pc[k] # "err"

-----------------------------------------------------------------------------
(* The queue of connect_operation *)

\* Joining the queue.
LEMMA AppendLine ==
    ASSUME NEW S, NEW c \in Seq(S), NEW e \in S
    PROVE  /\ Append(c, e) \in Seq(S)
           /\ Append(c, e) # <<>>
           /\ Queued(Append(c, e)) = Queued(c) \cup {e}
           /\ Head(Append(c, e)) = IF c = <<>> THEN e ELSE Head(c)
           /\ Append(c, e)[Len(Append(c, e))] = e
           /\ Once(c) /\ e \notin Queued(c) => Once(Append(c, e))
<1> DEFINE d == Append(c, e)
<1>1. /\ d \in Seq(S) /\ d # <<>> /\ Len(c) \in Nat /\ Len(d) = Len(c) + 1
      /\ DOMAIN c = 1..Len(c) /\ DOMAIN d = 1..(Len(c) + 1)
      /\ \A i \in DOMAIN c : d[i] = c[i]
      /\ d[Len(c) + 1] = e
  OBVIOUS
<1>2. Head(d) = IF c = <<>> THEN e ELSE Head(c)
  OBVIOUS
<1>3. \A i \in DOMAIN d : i \in DOMAIN c \/ i = Len(c) + 1
  BY <1>1
<1>4. \A i \in DOMAIN c : i \in DOMAIN d
  BY <1>1
<1>5. Len(c) + 1 \in DOMAIN d
  BY <1>1
<1> HIDE DEF d
<1>6. Queued(d) = Queued(c) \cup {e}
  BY <1>1, <1>3, <1>4, <1>5 DEF Queued
<1>7. Once(c) /\ e \notin Queued(c) => Once(d)
  BY <1>1, <1>3 DEF Queued, Once
<1> QED
  BY <1>1, <1>2, <1>6, <1>7 DEF d

\* Leaving it.
LEMMA TailLine ==
    ASSUME NEW S, NEW c \in Seq(S), c # <<>>, Once(c)
    PROVE  /\ Tail(c) \in Seq(S)
           /\ Queued(Tail(c)) = Queued(c) \ {Head(c)}
           /\ Once(Tail(c))
           /\ Tail(c) # <<>> => Tail(c)[Len(Tail(c))] = c[Len(c)]
           /\ Tail(c) = <<>> => c[Len(c)] = Head(c) /\ Queued(c) = {Head(c)}
<1> DEFINE d == Tail(c)
<1>1. /\ d \in Seq(S) /\ Len(c) \in Nat /\ Len(c) > 0 /\ Len(d) = Len(c) - 1
      /\ DOMAIN c = 1..Len(c) /\ DOMAIN d = 1..(Len(c) - 1)
      /\ Head(c) = c[1]
      /\ \A i \in DOMAIN d : i + 1 \in DOMAIN c /\ d[i] = c[i + 1]
      /\ \A i \in DOMAIN c : i # 1 => i - 1 \in DOMAIN d /\ d[i - 1] = c[i]
  OBVIOUS
<1>2. d = <<>> => Len(c) = 1
  BY <1>1
<1>3. d # <<>> => Len(c) - 1 \in DOMAIN d /\ (Len(c) - 1) + 1 = Len(c)
  BY <1>1
<1> HIDE DEF d
<1>4. Queued(d) = Queued(c) \ {Head(c)}
  <2>1. ASSUME NEW x \in Queued(d) PROVE x \in Queued(c) \ {Head(c)}
    <3>1. PICK i \in DOMAIN d : x = d[i]
      BY <2>1 DEF Queued
    <3>2. i + 1 \in DOMAIN c /\ x = c[i + 1] /\ i + 1 # 1 /\ 1 \in DOMAIN c
      BY <3>1, <1>1
    <3> QED
      BY <3>2, <1>1 DEF Queued, Once
  <2>2. ASSUME NEW x \in Queued(c) \ {Head(c)} PROVE x \in Queued(d)
    <3>1. PICK i \in DOMAIN c : x = c[i]
      BY <2>2 DEF Queued
    <3> QED
      BY <3>1, <2>2, <1>1 DEF Queued
  <2> QED
    BY <2>1, <2>2
<1>5. Once(d)
  <2> SUFFICES ASSUME NEW i \in DOMAIN d, NEW j \in DOMAIN d, d[i] = d[j] PROVE i = j
    BY DEF Once
  <2>1. i + 1 = j + 1
    BY <1>1 DEF Once
  <2> QED
    BY <2>1, <1>1
<1>6. d # <<>> => d[Len(d)] = c[Len(c)]
  BY <1>1, <1>3, Zenon
<1>7. d = <<>> => c[Len(c)] = Head(c) /\ Queued(c) = {Head(c)}
  BY <1>1, <1>2 DEF Queued
<1> QED
  BY <1>1, <1>4, <1>5, <1>6, <1>7 DEF d

-----------------------------------------------------------------------------
(* The steps *)

Pcs == StartPcs \cup ClosePcs

\* The steps of one actor, those that wait for the server or a transport included.
ShutdownAct(p) == Shutdown(p) \/ ShutdownTake(p) \/ ShutdownOk(p) \/ ShutdownErr(p)
StartAct(s) ==
    \/ StartCheck(s) \/ StartStep(s) \/ ShutdownAct(s)
    \/ ConnectFails(s) \/ ConnectOk(s) \/ PingFails(s) \/ PingOk(s)
CloseAct(k) == CloseRead(k) \/ CloseStep(k) \/ ShutdownAct(k)
TaskAct(t) == TaskStep(t) \/ TaskAwaited(t)

\* Calls that p does not wake stay where they are.
Others(p) == \A q \in Calls \ {p} : pc'[q] = pc[q] \/ (pc[q] = "waiting" /\ pc'[q] = "ok")

Stays(p) ==
    /\ connect' = connect
    /\ pc'[p] \in InLock <=> pc[p] \in InLock
    /\ pc'[p] \in Holding => pc[p] \in Holding \/ (pc[p] = "locking" /\ Head(connect) = p)

Leaves(p) ==
    /\ connect' = Tail(connect)
    /\ pc[p] \in Holding
    /\ pc'[p] \in {"ok", "err"}

\* What every step of a call has in common.
Moves(p) ==
    /\ CallTurn(p)
    /\ pc' \in [Calls -> Pcs]
    /\ Others(p)
    /\ Stays(p) \/ Lock(p) \/ Leaves(p)

\* Go moves one call.
LEMMA GoFacts ==
    ASSUME Typed, NEW p \in Calls, NEW w \in Pcs, Go(p, w)
    PROVE  pc' \in [Calls -> Pcs] /\ pc'[p] = w /\ \A q \in Calls \ {p} : pc'[q] = pc[q]
  BY DEF Typed, Go, Pcs

\* Every step of shutdown_active_connection() is a step of its caller alone, which
\* keeps connect_operation or gives it back.
LEMMA ShutdownMoves ==
    ASSUME Typed, NEW p \in Calls, ShutdownAct(p)
    PROVE  Moves(p) /\ pc'[p] \in StartPcs \cap ClosePcs
<1>1. ASSUME NEW w \in StartPcs \cap ClosePcs, Go(p, w)
      PROVE  pc' \in [Calls -> Pcs] /\ Others(p) /\ pc'[p] = w
  BY <1>1, GoFacts, Zenon DEF Pcs, Others
<1>2. CASE ShutdownAbort(p) \/ ShutdownOk(p) \/ ShutdownFinish(p)
  BY <1>1, <1>2, Zenon DEF ShutdownAbort, ShutdownOk, ShutdownFinish, At, Moves, Stays, InLock, Holding,
     StartPcs, ClosePcs
<1>3. CASE ShutdownTake(p)
  <2>1. \E w \in {"finish", "shutting"} : Go(p, w)
    BY <1>3, Zenon DEF ShutdownTake, AfterTake
  <2> QED
    BY <2>1, <1>1, <1>3, Zenon DEF ShutdownTake, At, Moves, Stays, InLock, Holding, StartPcs, ClosePcs
<1>4. CASE ShutdownErr(p)
  BY <1>1, <1>4, Zenon DEF ShutdownErr, At, Moves, Leaves, Holding, StartPcs, ClosePcs, Returned
<1>5. CASE ShutdownNotify(p)
  <2>1. /\ pc'[p] \in {"ok", "err"}
        /\ \A q \in Calls \ {p} : pc'[q] = IF pc[q] = "waiting" THEN "ok" ELSE pc[q]
    BY <1>5, Zenon DEF ShutdownNotify, Notified
  <2>2. \A q \in Calls : pc'[q] \in Pcs
    BY <2>1, Zenon DEF Typed, Pcs, StartPcs, Returned
  <2>3. pc' \in [Calls -> Pcs]
    BY <1>5, <2>2, Zenon DEF ShutdownNotify
  <2> QED
    BY <1>5, <2>1, <2>3, Zenon DEF ShutdownNotify, At, Moves, Others, Leaves, Holding, StartPcs, ClosePcs, Returned
<1> QED
  BY <1>2, <1>3, <1>4, <1>5, Zenon DEF Shutdown, ShutdownAct

\* So is every step of start(), apart from Lock, which joins the queue.
LEMMA StartMoves ==
    ASSUME Typed, NEW s \in Starts, StartAct(s)
    PROVE  Moves(s) /\ pc'[s] \in StartPcs
<1> s \in Calls
  BY Zenon DEF Calls
<1>1. ASSUME NEW w \in StartPcs, Go(s, w) PROVE pc' \in [Calls -> Pcs] /\ Others(s) /\ pc'[s] = w
  BY <1>1, GoFacts, Zenon DEF Pcs, Others
<1>2. CASE StartCheck(s)
  <2>1. \E w \in {"passed", "refused"} : Go(s, w)
    BY <1>2, Zenon DEF StartCheck
  <2> QED
    BY <2>1, <1>1, <1>2, Zenon DEF StartCheck, At, Moves, Stays, InLock, Holding, StartPcs, Returned, Entering
<1>3. CASE StartMark(s) \/ StartReset(s)
  <2>1. (pc[s] = "passed" /\ Go(s, "marked")) \/ (pc[s] = "marked" /\ Go(s, "queueing"))
    BY <1>3, Zenon DEF StartMark, StartReset, At
  <2>3. pc[s] \notin InLock /\ pc'[s] \notin InLock /\ pc'[s] \notin Holding
    <3>1. pc[s] \in Entering /\ pc'[s] \in Entering
      BY <1>1, <2>1, Zenon DEF StartPcs, Entering
    <3> QED
      BY <3>1 DEF InLock, Holding, Entering
  <2>2. CallTurn(s) /\ connect' = connect
    BY <1>3, Zenon DEF StartMark, StartReset, At
  <2> QED
    BY <1>1, <2>1, <2>2, <2>3, Zenon DEF Moves, Stays, StartPcs, Entering
<1>4. CASE Lock(s)
  <2>1. \E w \in {"locked", "locking"} : Go(s, w)
    BY <1>4, Zenon DEF Lock
  <2> QED
    BY <2>1, <1>1, <1>4, Zenon DEF Lock, At, Moves, InLock, Holding, StartPcs
<1>5. CASE StartLocked(s)
  <2>1. \E w \in {"stopped", "subscribing"} : Go(s, w)
    BY <1>5, Zenon DEF StartLocked
  <2> QED
    BY <2>1, <1>1, <1>5, Zenon DEF StartLocked, Locked, At, Moves, Stays, InLock, Holding, StartPcs
<1>6. CASE StartSubscribe(s)
  <2>1. \E w \in {"failing", "connecting"} : Go(s, w)
    BY <1>6, Zenon DEF StartSubscribe
  <2> QED
    BY <2>1, <1>1, <1>6, Zenon DEF StartSubscribe, At, Moves, Stays, InLock, Holding, StartPcs
<1>7. CASE ConnectStopped(s) \/ ConnectFails(s) \/ ConnectOk(s)
  BY <1>1, <1>7, Zenon DEF ConnectStopped, ConnectFails, ConnectOk, At, Moves, Stays, InLock, Holding, StartPcs
<1>8. CASE PingFails(s) \/ PingOk(s)
  BY <1>1, <1>8, Zenon DEF PingFails, PingOk, At, Moves, Stays, InLock, Holding, StartPcs
<1>9. CASE StartConnected(s)
  <2>1. \E w \in {"shutdown", "announce"} : Go(s, w)
    BY <1>9, Zenon DEF StartConnected, AfterConnect
  <2> QED
    BY <2>1, <1>1, <1>9, Zenon DEF StartConnected, At, Moves, Stays, InLock, Holding, StartPcs
<1>10. CASE StartAnnounce(s)
  BY <1>1, <1>10, Zenon DEF StartAnnounce, At, Moves, Stays, InLock, Holding, StartPcs
<1>11. CASE StartStopped(s) \/ StartSpawn(s) \/ StartFail(s)
  BY <1>1, <1>11, Zenon DEF StartStopped, StartSpawn, StartFail, At, Moves, Leaves, Holding, StartPcs, Returned
<1>12. CASE ShutdownAct(s)
  BY <1>12, ShutdownMoves, Zenon
<1> QED
  BY <1>2, <1>3, <1>4, <1>5, <1>6, <1>7, <1>8, <1>9, <1>10, <1>11, <1>12, Zenon DEF StartAct, StartStep,
     ShutdownAct

\* And every step of close().
LEMMA CloseMoves ==
    ASSUME Typed, NEW k \in Closes, CloseAct(k)
    PROVE  Moves(k) /\ pc'[k] \in ClosePcs
<1> k \in Calls
  BY Zenon DEF Calls
<1>1. ASSUME NEW w \in ClosePcs, Go(k, w) PROVE pc' \in [Calls -> Pcs] /\ Others(k) /\ pc'[k] = w
  BY <1>1, GoFacts, Zenon DEF Pcs, Others
<1>2. CASE CloseRead(k)
  <2>1. \E w \in {"ok", "registering", "marking"} : Go(k, w)
    BY <1>2 DEF CloseRead
  <2> QED
    BY <2>1, <1>1, <1>2, Zenon DEF CloseRead, At, Moves, Stays, InLock, Holding, ClosePcs, Returned
<1>3. CASE CloseRegister(k) \/ CloseMark(k) \/ CloseSignal(k)
  <2>1. \/ pc[k] = "registering" /\ Go(k, "waiting")
        \/ pc[k] = "marking" /\ Go(k, "signaling")
        \/ pc[k] = "signaling" /\ Go(k, "queueing")
    BY <1>3, Zenon DEF CloseRegister, CloseMark, CloseSignal, At
  <2>3. pc[k] \notin InLock /\ pc'[k] \notin InLock /\ pc'[k] \notin Holding
    <3>1. pc[k] \in {"registering", "waiting", "marking", "signaling", "queueing"} /\ pc'[k] \in {"registering", "waiting", "marking", "signaling", "queueing"}
      BY <1>1, <2>1, Zenon DEF ClosePcs
    <3> QED
      BY <3>1 DEF InLock, Holding
  <2>2. CallTurn(k) /\ connect' = connect
    BY <1>3, Zenon DEF CloseRegister, CloseMark, CloseSignal, At
  <2> QED
    BY <1>1, <2>1, <2>2, <2>3, Zenon DEF Moves, Stays, ClosePcs
<1>4. CASE Lock(k)
  <2>1. \E w \in {"locked", "locking"} : Go(k, w)
    BY <1>4, Zenon DEF Lock
  <2> QED
    BY <2>1, <1>1, <1>4, Zenon DEF Lock, At, Moves, ClosePcs
<1>5. CASE CloseLocked(k)
  BY <1>1, <1>5, Zenon DEF CloseLocked, Locked, At, Moves, Stays, InLock, Holding, ClosePcs
<1>6. CASE ShutdownAct(k)
  BY <1>6, ShutdownMoves, Zenon
<1> QED
  BY <1>2, <1>3, <1>4, <1>5, <1>6, Zenon DEF CloseAct, CloseStep, ShutdownAct

\* What every step of a supervisor has in common.
TaskMoves(t) ==
    /\ TaskTurn(t)
    /\ UNCHANGED <<pc, connect, supervisor, aborted, closing, stop, historyVars>>
    /\ task' \in [Starts -> TaskPcs]
    /\ \A u \in Starts \ {t} : task'[u] = task[u]
    /\ \/ task[t] \notin Over
       \/ task'[t] = "ended" /\ UNCHANGED <<state, runtime, appVars>>

\* TaskGo moves one supervisor.
LEMMA TaskGoFacts ==
    ASSUME Typed, NEW t \in Starts, NEW w \in TaskPcs, TaskGo(t, w)
    PROVE  task' \in [Starts -> TaskPcs] /\ task'[t] = w /\ \A u \in Starts \ {t} : task'[u] = task[u]
<1>1. task' = [task EXCEPT ![t] = w]
  BY Zenon DEF Typed, TaskGo
<1> QED
  BY <1>1, Zenon DEF Typed

\* Every step of a supervisor is its own, and one that is over changes nothing.
LEMMA SupervisorMoves ==
    ASSUME Typed, NEW t \in Starts, TaskAct(t)
    PROVE  TaskMoves(t)
<1>1. ASSUME NEW w \in TaskPcs, TaskGo(t, w)
      PROVE  /\ task' \in [Starts -> TaskPcs]
             /\ \A u \in Starts \ {t} : task'[u] = task[u]
  BY <1>1, TaskGoFacts, Zenon
<1>2. CASE DropCanceled(t)
  <2>1. task'[t] = "ended"
    BY <1>2, TaskGoFacts, Zenon DEF DropCanceled, TaskPcs, TaskAwaits
  <2> QED
    BY <1>1, <1>2, <2>1, Zenon DEF DropCanceled, TaskAt, TaskMoves, TaskPcs, TaskAwaits, flagVars, connVars, callVars
<1>3. CASE SupStop(t)
  <2>1. \E w \in {"ended", "watch"} : TaskGo(t, w)
    BY <1>3, Zenon DEF SupStop
  <2> QED
    BY <1>1, <1>3, <2>1, Zenon DEF SupStop, TaskAt, TaskMoves, Over, TaskPcs, TaskAwaits, flagVars, callVars
<1>4. CASE SupEvent(t)
  <2>1. \E w \in {"ended", "reopening", "cancel"} : TaskGo(t, w)
    BY <1>4, Zenon DEF SupEvent
  <2> QED
    BY <1>1, <1>4, <2>1, Zenon DEF SupEvent, TaskAt, TaskMoves, Over, TaskPcs, TaskAwaits, flagVars, callVars
<1>5. CASE ReopenOk(t)
  BY <1>1, <1>5, Zenon DEF ReopenOk, TaskAt, TaskMoves, Over, TaskPcs, TaskAwaits, flagVars, callVars
<1>6. CASE ResumeSwap(t)
  BY <1>1, <1>6, Zenon DEF ResumeSwap, TaskAt, TaskMoves, Over, TaskPcs, TaskAwaits, flagVars, callVars
<1>7. CASE ResumeOk(t)
  BY <1>1, <1>7, Zenon DEF ResumeOk, TaskAt, TaskMoves, Over, TaskPcs, TaskAwaits, flagVars, callVars
<1>8. CASE ResumeFails(t)
  BY <1>1, <1>8, Zenon DEF ResumeFails, TaskAt, TaskMoves, Over, TaskPcs, TaskAwaits, flagVars, callVars
<1>9. CASE SupGiveUp(t)
  BY <1>1, <1>9, Zenon DEF SupGiveUp, TaskAt, TaskMoves, Over, TaskPcs, TaskAwaits, flagVars, callVars
<1>10. CASE SupClosed(t)
  BY <1>1, <1>10, Zenon DEF SupClosed, TaskAt, TaskMoves, Over, TaskPcs, TaskAwaits, flagVars, callVars
<1>11. CASE SupTake(t)
  <2>1. \E w \in {"delay", "aborting"} : TaskGo(t, w)
    BY <1>11, Zenon DEF SupTake
  <2> QED
    BY <1>1, <1>11, <2>1, Zenon DEF SupTake, TaskAt, TaskMoves, Over, TaskPcs, TaskAwaits, flagVars, callVars
<1>22. CASE SupAborted(t)
  BY <1>1, <1>22, Zenon DEF SupAborted, TaskAt, TaskMoves, Over, TaskPcs, TaskAwaits, flagVars, callVars
<1>12. CASE SupReconnect(t)
  BY <1>1, <1>12, Zenon DEF SupReconnect, TaskAt, TaskMoves, Over, TaskPcs, TaskAwaits, flagVars, callVars
<1>13. CASE SupExhausted(t)
  BY <1>1, <1>13, Zenon DEF SupExhausted, TaskAt, TaskMoves, Over, TaskPcs, TaskAwaits, flagVars, callVars
<1>14. CASE SupAnnounce(t)
  <2>1. \E w \in {"ended", "sleep"} : TaskGo(t, w)
    BY <1>14, Zenon DEF SupAnnounce
  <2> QED
    BY <1>1, <1>14, <2>1, Zenon DEF SupAnnounce, TaskAt, TaskMoves, Over, TaskPcs, TaskAwaits, flagVars, callVars
<1>15. CASE SupWake(t)
  <2>1. \E w \in {"watch", "dialing"} : TaskGo(t, w)
    BY <1>15, Zenon DEF SupWake
  <2> QED
    BY <1>1, <1>15, <2>1, Zenon DEF SupWake, TaskAt, TaskMoves, Over, TaskPcs, TaskAwaits, flagVars, callVars
<1>16. CASE DialOk(t)
  BY <1>1, <1>16, Zenon DEF DialOk, TaskAt, TaskMoves, Over, TaskPcs, TaskAwaits, flagVars, callVars
<1>17. CASE DialFails(t)
  BY <1>1, <1>17, Zenon DEF DialFails, TaskAt, TaskMoves, Over, TaskPcs, TaskAwaits, flagVars, callVars
<1>18. CASE SupRetry(t)
  BY <1>1, <1>18, Zenon DEF SupRetry, TaskAt, TaskMoves, Over, TaskPcs, TaskAwaits, flagVars, callVars
<1>19. CASE DialPinged(t)
  BY <1>1, <1>19, Zenon DEF DialPinged, TaskAt, TaskMoves, Over, TaskPcs, TaskAwaits, flagVars, callVars
<1>20. CASE SupRestored(t)
  BY <1>1, <1>20, Zenon DEF SupRestored, TaskAt, TaskMoves, Over, TaskPcs, TaskAwaits, flagVars, callVars
<1>21. CASE SupReconnected(t)
  BY <1>1, <1>21, Zenon DEF SupReconnected, TaskAt, TaskMoves, Over, TaskPcs, TaskAwaits, flagVars, callVars
<1> QED
  BY <1>2, <1>3, <1>4, <1>5, <1>6, <1>7, <1>8, <1>9, <1>10, <1>11, <1>12, <1>13, <1>14, <1>15, <1>16, <1>17, <1>18, <1>19, <1>20, <1>21, <1>22, Zenon
     DEF TaskAct, TaskStep, TaskAwaited

\* Only the holder of connect_operation touches the supervisor and the HubRuntime.
LEMMA HolderOnly ==
    ASSUME NEW p \in Calls, (p \in Starts /\ StartAct(p)) \/ (p \in Closes /\ CloseAct(p))
    PROVE  /\ UNCHANGED <<taskVars, supervisor>> \/ ShutdownAbort(p) \/ (p \in Starts /\ StartSpawn(p))
           /\ UNCHANGED runtime \/ pc[p] \in Holding
<1>1. CASE StartCheck(p) \/ StartMark(p) \/ StartReset(p) \/ Lock(p) \/ StartLocked(p) \/ StartSubscribe(p)
  BY <1>1, Zenon DEF StartCheck, StartMark, StartReset, Lock, StartLocked, StartSubscribe, connVars
<1>2. CASE ConnectStopped(p) \/ ConnectFails(p) \/ ConnectOk(p) \/ PingFails(p) \/ StartConnected(p)
           \/ StartAnnounce(p) \/ StartStopped(p)
  BY <1>2, Zenon DEF ConnectStopped, ConnectFails, ConnectOk, PingFails, StartConnected, StartAnnounce,
     StartStopped, connVars
<1>3. CASE PingOk(p) \/ StartFail(p)
  BY <1>3, Zenon DEF PingOk, StartFail, At, Holding
<1>4. CASE p \in Starts /\ StartSpawn(p)
  BY <1>4, Zenon DEF StartSpawn, connVars
<1>5. CASE CloseRead(p) \/ CloseRegister(p) \/ CloseMark(p) \/ CloseSignal(p) \/ CloseLocked(p)
  BY <1>5, Zenon DEF CloseRead, CloseRegister, CloseMark, CloseSignal, CloseLocked, connVars
<1>6. CASE ShutdownAbort(p) \/ ShutdownOk(p) \/ ShutdownErr(p) \/ ShutdownFinish(p) \/ ShutdownNotify(p)
  BY <1>6, Zenon DEF ShutdownAbort, ShutdownOk, ShutdownErr, ShutdownFinish, ShutdownNotify, connVars
<1>7. CASE ShutdownTake(p)
  BY <1>7, Zenon DEF ShutdownTake, At, Holding
<1> QED
  BY <1>1, <1>2, <1>3, <1>4, <1>5, <1>6, <1>7, Zenon DEF StartAct, StartStep, CloseAct, CloseStep, Shutdown, ShutdownAct

\* ShutdownAbort and StartSpawn leave no supervisor running but the new one.
LEMMA Replaced ==
    ASSUME Typed, Owner, ~config.parallel, NEW p \in Calls,
           ShutdownAbort(p) \/ (p \in Starts /\ StartSpawn(p))
    PROVE  /\ task' \in [Starts -> TaskPcs] /\ aborted' = {}
           /\ supervisor' = IF ShutdownAbort(p) THEN None ELSE p
           /\ \A t \in Starts : task'[t] \in Over \/ (t = p /\ ~ShutdownAbort(p))
<1>1. CallTurn(p)
  BY Zenon DEF ShutdownAbort, StartSpawn, At
<1>2. /\ \A t \in Starts : task[t] \in TaskAwaits
      /\ \A t \in Starts : task[t] \notin Over => supervisor = t
      /\ task \in [Starts -> TaskPcs] /\ supervisor \in Starts \cup {None} /\ aborted = {}
  BY <1>1, Zenon DEF CallTurn, Owner, Typed
<1>3. CASE ShutdownAbort(p)
  <2>1. supervisor' = None /\ AbortSupervisor
    BY <1>3, Zenon DEF ShutdownAbort
  <2>2. CASE supervisor = None \/ task[supervisor] = "ended"
    <3>1. task' = task /\ aborted' = aborted
      BY <2>1, <2>2, Zenon DEF AbortSupervisor
    <3>2. \A t \in Starts : task[t] \in Over
      BY <2>2, <1>2, LifecycleAssumption, Zenon DEF Over
    <3> QED
      BY <3>1, <3>2, <2>1, <1>2, <1>3, Zenon
  <2>3. CASE supervisor # None /\ task[supervisor] # "ended"
    <3>1. supervisor \in Starts /\ task' = [task EXCEPT ![supervisor] = "canceled"] /\ aborted' = aborted
      BY <2>1, <2>3, <1>2, Zenon DEF AbortSupervisor
    <3>2. \A t \in Starts : task'[t] = IF t = supervisor THEN "canceled" ELSE task[t]
      BY <3>1, <1>2, Zenon
    <3>3. task' \in [Starts -> TaskPcs]
      BY <3>1, <1>2, Zenon DEF TaskPcs, TaskAwaits
    <3> QED
      BY <3>1, <3>2, <3>3, <2>1, <1>2, <1>3, Zenon DEF Over
  <2> QED
    BY <2>2, <2>3, Zenon
<1>4. CASE ~ShutdownAbort(p) /\ p \in Starts /\ StartSpawn(p)
  <2>1. /\ task' = [t \in Starts |->
                      IF t = p THEN "watch"
                      ELSE IF t = supervisor /\ task[t] # "ended" /\ task[t] \in TaskAwaits
                        THEN "canceled" ELSE task[t]]
        /\ aborted' = aborted
        /\ supervisor' = p
    BY <1>2, <1>4, Zenon DEF StartSpawn
  <2>2. task' \in [Starts -> TaskPcs]
    BY <2>1, <1>2, Zenon DEF TaskPcs, TaskAwaits
  <2>3. \A t \in Starts \ {p} : task'[t] \in Over
    BY <2>1, <1>2, Zenon DEF Over
  <2> QED
    BY <2>1, <2>2, <2>3, <1>2, <1>4, Zenon
<1> QED
  BY <1>3, <1>4, Zenon

\* Who takes a step.
LEMMA Actors ==
    ASSUME Next
    PROVE  \/ \E p \in Calls : (p \in Starts /\ StartAct(p)) \/ (p \in Closes /\ CloseAct(p))
           \/ \E t \in Starts : TaskAct(t)
           \/ \E c \in 1..config.conns, e \in Events \ {"none"} : Lose(c, e)
  BY Zenon DEF Next, StartAct, CloseAct, ShutdownAct, CallAwaited, TaskAct, Calls

\* Every step keeps the types; on one thread nothing is aborted while it runs.
LEMMA TypedStep ==
    ASSUME Typed, Lined, Owner, ~config.parallel, Next
    PROVE  Typed'
<1>1. ASSUME NEW p \in Calls, (p \in Starts /\ StartAct(p)) \/ (p \in Closes /\ CloseAct(p))
      PROVE  Typed'
  <2>1. /\ Moves(p)
        /\ p \in Starts => pc'[p] \in StartPcs
        /\ p \in Closes => pc'[p] \in ClosePcs
    BY <1>1, StartMoves, CloseMoves, LifecycleAssumption, Zenon
  <2>2. /\ pc' \in [Calls -> Pcs]
        /\ \A q \in Calls \ {p} : pc'[q] = pc[q] \/ pc'[q] = "ok"
    BY <2>1, Zenon DEF Moves, Others
  <2>3. /\ \A s \in Starts : pc'[s] \in StartPcs
        /\ \A k \in Closes : pc'[k] \in ClosePcs
    <3>1. "ok" \in StartPcs /\ "ok" \in ClosePcs
      BY Zenon DEF StartPcs, ClosePcs, Returned
    <3> QED
      BY <3>1, <2>1, <2>2, Zenon DEF Typed, Calls
  <2>4. connect' \in Seq(Calls)
    <3>0. connect \in Seq(Calls)
      BY Zenon DEF Typed
    <3>1. CASE Stays(p)
      BY <3>0, <3>1, Zenon DEF Stays
    <3>2. CASE Lock(p)
      BY <3>0, <3>2, AppendLine, Zenon DEF Lock
    <3>3. CASE Leaves(p)
      <4>1. connect # <<>> /\ Once(connect)
        BY <3>3, Zenon DEF Leaves, Lined
      <4> QED
        BY <3>0, <3>3, <4>1, TailLine, Zenon DEF Leaves
    <3> QED
      BY <2>1, <3>1, <3>2, <3>3, Zenon DEF Moves
  <2>5. /\ task' \in [Starts -> TaskPcs]
        /\ supervisor' \in Starts \cup {None}
        /\ aborted' = {}
    <3>1. CASE UNCHANGED <<taskVars, supervisor>>
      BY <3>1, Zenon DEF Typed, taskVars
    <3>2. CASE ShutdownAbort(p) \/ (p \in Starts /\ StartSpawn(p))
      BY <3>2, Replaced, Zenon
    <3> QED
      BY <1>1, <3>1, <3>2, HolderOnly, Zenon
  <2> QED
    BY <2>2, <2>3, <2>4, <2>5, Zenon DEF Typed, Pcs
<1>2. ASSUME NEW t \in Starts, TaskAct(t) PROVE Typed'
  BY <1>2, SupervisorMoves, Zenon DEF TaskMoves, Typed, callVars
<1>3. ASSUME NEW c, NEW e, Lose(c, e) PROVE Typed'
  BY <1>3, Zenon DEF Lose, Typed, callVars, taskVars
<1> QED
  BY <1>1, <1>2, <1>3, Actors, Zenon
\* connect_operation passes from the front of the queue to the next in it.
LEMMA LinedStep ==
    ASSUME Typed, Lined, ~config.parallel, Next
    PROVE  Lined'
<1>0. /\ connect \in Seq(Calls) /\ Once(connect)
      /\ \A q \in Calls : pc[q] \in InLock <=> q \in Queued(connect)
      /\ \A q \in Calls : pc[q] \in Holding => connect # <<>> /\ Head(connect) = q
  BY Zenon DEF Typed, Lined
<1>1. ASSUME NEW p \in Calls, (p \in Starts /\ StartAct(p)) \/ (p \in Closes /\ CloseAct(p))
      PROVE  Lined'
  <2>1. Moves(p)
    BY <1>1, StartMoves, CloseMoves, Zenon
  <2>2. \A q \in Calls \ {p} : (pc'[q] \in InLock <=> pc[q] \in InLock) /\ (pc'[q] \in Holding => pc[q] \in Holding)
    BY <2>1, Zenon DEF Moves, Others, InLock, Holding
  <2>3. CASE Stays(p)
    <3>1. pc[p] = "locking" => connect # <<>>
      <4>1. pc[p] = "locking" => p \in Queued(connect)
        BY <1>0, Zenon DEF InLock
      <4>2. connect = <<>> => Queued(connect) = {}
        BY DEF Queued
      <4> QED
        BY <4>1, <4>2, Zenon
    <3>2. \A q \in Calls : pc'[q] \in InLock <=> q \in Queued(connect)
      BY <1>0, <2>2, <2>3, Zenon DEF Stays
    <3>3. \A q \in Calls : pc'[q] \in Holding => connect # <<>> /\ Head(connect) = q
      BY <1>0, <2>2, <2>3, <3>1, Zenon DEF Stays
    <3> QED
      BY <1>0, <2>3, <3>2, <3>3, Zenon DEF Stays, Lined
  <2>4. CASE Lock(p)
    <3>1. /\ connect' = Append(connect, p)
          /\ pc[p] = "queueing"
          /\ pc'[p] = IF connect = <<>> THEN "locked" ELSE "locking"
      <4>1. "locked" \in Pcs /\ "locking" \in Pcs
        BY Zenon DEF Pcs, StartPcs, InLock, Holding
      <4>2. (IF connect = <<>> THEN "locked" ELSE "locking") \in Pcs
        BY <4>1, Zenon
      <4> QED
        BY <2>4, <4>2, GoFacts, Zenon DEF Lock, At
    <3>2. pc[p] \notin InLock /\ pc'[p] \in InLock /\ (pc'[p] \in Holding => connect = <<>>)
      BY <3>1 DEF InLock, Holding
    <3>3. p \notin Queued(connect)
      BY <1>0, <3>2, Zenon
    <3>4. /\ Once(connect') /\ connect' # <<>>
          /\ Queued(connect') = Queued(connect) \cup {p}
          /\ Head(connect') = IF connect = <<>> THEN p ELSE Head(connect)
      <4>1. /\ Append(connect, p) # <<>>
            /\ Queued(Append(connect, p)) = Queued(connect) \cup {p}
            /\ Head(Append(connect, p)) = IF connect = <<>> THEN p ELSE Head(connect)
            /\ Once(connect) /\ p \notin Queued(connect) => Once(Append(connect, p))
        BY <1>0, AppendLine
      <4> QED
        BY <1>0, <3>1, <3>3, <4>1, Zenon
    <3>5. \A q \in Calls : pc'[q] \in InLock <=> q \in Queued(connect')
      BY <1>0, <2>2, <3>2, <3>4, Zenon
    <3>6. \A q \in Calls : pc'[q] \in Holding => Head(connect') = q
      BY <1>0, <2>2, <3>2, <3>4, Zenon
    <3> QED
      BY <3>4, <3>5, <3>6, Zenon DEF Lined
  <2>5. CASE Leaves(p)
    <3>1. connect # <<>> /\ Head(connect) = p /\ connect' = Tail(connect)
      BY <1>0, <2>5, Zenon DEF Leaves
    <3>2. pc'[p] \notin InLock /\ pc'[p] \notin Holding
      <4>1. pc'[p] \in {"ok", "err"}
        BY <2>5, Zenon DEF Leaves
      <4> QED
        BY <4>1 DEF InLock, Holding
    <3>3. Once(connect') /\ Queued(connect') = Queued(connect) \ {p}
      BY <1>0, <3>1, TailLine, Zenon
    <3>4. \A q \in Calls : pc'[q] \in InLock <=> q \in Queued(connect')
      BY <1>0, <2>2, <3>2, <3>3, Zenon
    <3>5. \A q \in Calls : pc'[q] \notin Holding
      BY <1>0, <2>2, <3>1, <3>2, Zenon
    <3> QED
      BY <3>3, <3>4, <3>5, Zenon DEF Lined
  <2> QED
    BY <2>1, <2>3, <2>4, <2>5, Zenon DEF Moves
<1>2. ASSUME NEW t \in Starts, TaskAct(t) PROVE Lined'
  BY <1>2, SupervisorMoves, Zenon DEF TaskMoves, Lined, callVars
<1>3. ASSUME NEW c, NEW e, Lose(c, e) PROVE Lined'
  BY <1>3, Zenon DEF Lose, Lined, callVars
<1> QED
  BY <1>1, <1>2, <1>3, Actors, Zenon

\* A supervisor that may still act is the one whose handle is kept.
LEMMA OwnerStep ==
    ASSUME Typed, Owner, ~config.parallel, Next
    PROVE  Owner'
<1>1. ASSUME NEW p \in Calls, (p \in Starts /\ StartAct(p)) \/ (p \in Closes /\ CloseAct(p))
      PROVE  Owner'
  <2>1. CASE UNCHANGED <<taskVars, supervisor>>
    BY <2>1, Zenon DEF Owner, taskVars
  <2>2. CASE ShutdownAbort(p) \/ (p \in Starts /\ StartSpawn(p))
    BY <2>2, Replaced, Zenon DEF Owner
  <2> QED
    BY <1>1, <2>1, <2>2, HolderOnly, Zenon
<1>2. ASSUME NEW t \in Starts, TaskAct(t) PROVE Owner'
  BY <1>2, SupervisorMoves, Zenon DEF TaskMoves, Owner, Over
<1>3. ASSUME NEW c, NEW e, Lose(c, e) PROVE Owner'
  BY <1>3, Zenon DEF Lose, Owner, taskVars
<1> QED
  BY <1>1, <1>2, <1>3, Actors, Zenon

\* Where the other steps of a call lead.
LEMMA Elsewhere ==
    ASSUME Typed, NEW p \in Calls, (p \in Starts /\ StartAct(p)) \/ (p \in Closes /\ CloseAct(p)),
           ~ShutdownAbort(p) /\ ~ShutdownTake(p) /\ ~ShutdownOk(p) /\ ~ShutdownFinish(p),
           ~(p \in Closes /\ CloseRead(p))
    PROVE  pc'[p] \notin {"taking", "shutting", "finish", "notify", "marking"}
<1> DEFINE Where == {"passed", "refused", "marked", "queueing", "locked", "locking", "stopped",
                     "subscribing", "failing", "connecting", "pinging", "connected", "shutdown",
                     "announce", "spawn", "ok", "err", "waiting", "signaling"}
<1>1. \A w \in Where : w \in Pcs
  BY DEF Pcs, StartPcs, ClosePcs, Returned, Entering, InLock, Holding
<1>2. ASSUME NEW w \in Where, Go(p, w) PROVE pc'[p] \in Where
  BY <1>1, <1>2, GoFacts, Zenon
<1>3. CASE StartCheck(p) \/ StartMark(p) \/ StartReset(p) \/ Lock(p) \/ StartLocked(p) \/ StartSubscribe(p)
  BY <1>2, <1>3, Zenon DEF StartCheck, StartMark, StartReset, Lock, StartLocked, StartSubscribe
<1>4. CASE ConnectStopped(p) \/ ConnectFails(p) \/ ConnectOk(p) \/ PingFails(p) \/ PingOk(p)
           \/ StartConnected(p) \/ StartAnnounce(p)
  BY <1>2, <1>4, Zenon DEF ConnectStopped, ConnectFails, ConnectOk, PingFails, PingOk, StartConnected,
     StartAnnounce, AfterConnect
<1>5. CASE StartStopped(p) \/ StartSpawn(p) \/ StartFail(p) \/ ShutdownErr(p)
  BY <1>2, <1>5, Zenon DEF StartStopped, StartSpawn, StartFail, ShutdownErr
<1>6. CASE CloseRegister(p) \/ CloseMark(p) \/ CloseSignal(p) \/ CloseLocked(p)
  BY <1>2, <1>6, Zenon DEF CloseRegister, CloseMark, CloseSignal, CloseLocked
<1>7. CASE ShutdownNotify(p)
  BY <1>7, Zenon DEF ShutdownNotify
<1> QED
  BY <1>3, <1>4, <1>5, <1>6, <1>7, Zenon DEF StartAct, StartStep, CloseAct, CloseStep, Shutdown, ShutdownAct

\* At every step of another, a call is where it awaits.
LEMMA Resting ==
    ASSUME ~config.parallel, Typed, NEW p \in Calls, NEW q \in Calls \ {p}, Moves(p)
    PROVE  /\ pc[q] \in CallAwaits
           /\ pc'[q] = pc[q] \/ pc'[q] = "ok"
           /\ \A t \in Starts : task[t] \in TaskAwaits
  BY Zenon DEF Moves, Others, CallTurn

\* shutdown_active_connection() finds what it left at its last await.
LEMMA ShutStep ==
    ASSUME Typed, Lined, Owner, Shut, ~config.parallel, Next
    PROVE  Shut'
<1> DEFINE Phase(q, sup, run, st) ==
        /\ pc'[q] \in {"taking", "shutting", "finish", "notify"} => sup = None
        /\ pc'[q] \in {"shutting", "finish", "notify"} => run = 0
        /\ pc'[q] = "notify" => st = "Disconnected"
        /\ pc'[q] = "marking" => st # "Disconnected"
<1>1. ASSUME NEW p \in Calls, (p \in Starts /\ StartAct(p)) \/ (p \in Closes /\ CloseAct(p)),
             NEW q \in Calls
      PROVE  Phase(q, supervisor', runtime', state')
  <2>1. Moves(p)
    BY <1>1, StartMoves, CloseMoves, Zenon
  <2>2. CASE q # p /\ pc'[q] \in {"taking", "shutting", "finish", "notify", "marking"}
    <3>1. pc'[q] = pc[q] /\ pc[q] \in {"taking", "shutting"}
      BY <2>1, <2>2, Resting DEF CallAwaits, Returned
    <3>2. pc[p] \notin Holding
      BY <2>2, <3>1, Zenon DEF Lined, Holding
    <3>3. supervisor' = supervisor /\ runtime' = runtime
      BY <3>2, <1>1, HolderOnly, Zenon DEF ShutdownAbort, StartSpawn, At, Holding
    <3> QED
      BY <3>1, <3>3, Zenon DEF Shut
  <2>3. CASE q # p /\ pc'[q] \notin {"taking", "shutting", "finish", "notify", "marking"}
    BY <2>3, Zenon
  <2>4. CASE q = p /\ ShutdownAbort(p)
    <3>1. pc'[p] = "taking" /\ supervisor' = None
      BY <2>4, GoFacts, Zenon DEF ShutdownAbort, Pcs, StartPcs, InLock, Holding
    <3> QED
      BY <2>4, <3>1, Zenon
  <2>5. CASE q = p /\ ShutdownTake(p)
    <3>1. pc[p] = "taking" /\ supervisor' = supervisor /\ runtime' = 0
      BY <2>5, Zenon DEF ShutdownTake, At
    <3>2. pc'[p] \in {"finish", "shutting"}
      <4>1. \E w \in {"finish", "shutting"} : Go(p, w)
        BY <2>5, Zenon DEF ShutdownTake, AfterTake
      <4> QED
        BY <4>1, GoFacts, Zenon DEF Pcs, StartPcs, InLock, Holding
    <3> QED
      BY <2>5, <3>1, <3>2, Zenon DEF Shut
  <2>6. CASE q = p /\ (ShutdownOk(p) \/ ShutdownFinish(p))
    <3>1. /\ pc[p] \in {"shutting", "finish"} /\ supervisor' = supervisor /\ runtime' = runtime
          /\ \/ pc'[p] = "finish"
             \/ pc'[p] = "notify" /\ state' = "Disconnected"
      BY <2>6, GoFacts, Zenon DEF ShutdownOk, ShutdownFinish, At, Pcs, StartPcs, InLock, Holding
    <3> QED
      BY <2>6, <3>1, Zenon DEF Shut
  <2>7. CASE q = p /\ p \in Closes /\ CloseRead(p)
    <3>1. pc'[p] \in {"ok", "registering"} \/ (pc'[p] = "marking" /\ state' = state /\ state # "Disconnected")
      <4>1. Go(p, "ok") \/ Go(p, "registering") \/ (Go(p, "marking") /\ state # "Disconnected")
        BY <2>7 DEF CloseRead
      <4>2. "ok" \in Pcs /\ "registering" \in Pcs /\ "marking" \in Pcs
        BY Zenon DEF Pcs, ClosePcs, Returned
      <4> QED
        BY <4>1, <4>2, <2>7, GoFacts, Zenon DEF CloseRead
    <3> QED
      BY <2>7, <3>1, Zenon
  <2>8. CASE /\ q = p
             /\ ~ShutdownAbort(p) /\ ~ShutdownTake(p) /\ ~ShutdownOk(p) /\ ~ShutdownFinish(p)
             /\ ~(p \in Closes /\ CloseRead(p))
    <3>1. pc'[p] \notin {"taking", "shutting", "finish", "notify", "marking"}
      BY <1>1, <2>8, Elsewhere, Zenon
    <3> QED
      BY <2>8, <3>1, Zenon
  <2> QED
    BY <1>1, <2>2, <2>3, <2>4, <2>5, <2>6, <2>7, <2>8, Zenon
<1>2. ASSUME NEW t \in Starts, TaskAct(t), NEW q \in Calls
      PROVE  Phase(q, supervisor', runtime', state')
  <2>1. /\ pc' = pc /\ supervisor' = supervisor
        /\ pc[q] \in CallAwaits
        /\ task[t] \notin Over \/ runtime' = runtime
    BY <1>2, SupervisorMoves, Zenon DEF TaskMoves, TaskTurn, callVars
  <2>2. pc[q] \in {"taking", "shutting"} => supervisor = None /\ (pc[q] = "shutting" => runtime = 0)
    BY Zenon DEF Shut
  <2>3. supervisor = None => runtime' = runtime
    BY <2>1, LifecycleAssumption, Zenon DEF Owner
  <2>4. pc[q] \notin {"finish", "notify", "marking"}
    BY <2>1 DEF CallAwaits, Returned
  <2> QED
    BY <2>1, <2>2, <2>3, <2>4, Zenon
<1>3. ASSUME NEW c, NEW e, Lose(c, e) PROVE Shut'
  BY <1>3, Zenon DEF Lose, Shut, callVars
<1>4. (\A q \in Calls : Phase(q, supervisor', runtime', state')) => Shut'
  BY Zenon DEF Shut
<1> QED
  BY <1>1, <1>2, <1>3, <1>4, Actors, Zenon

\* A start() that has not been called, or that has returned, can only be called.
LEMMA FromRest ==
    ASSUME NEW s \in Starts, StartAct(s), pc[s] \in Returned \cup {"idle"}
    PROVE  StartCheck(s)
<1>1. pc[s] \in {"ok", "err", "refused", "idle"}
  BY Zenon DEF Returned
<1>2. ~StartMark(s) /\ ~StartReset(s) /\ ~Lock(s) /\ ~StartLocked(s) /\ ~StartStopped(s) /\ ~StartSubscribe(s)
  BY <1>1, Zenon DEF StartMark, StartReset, Lock, StartLocked, Locked, StartStopped, StartSubscribe, At
<1>3. /\ ~ConnectStopped(s) /\ ~ConnectFails(s) /\ ~ConnectOk(s) /\ ~PingFails(s) /\ ~PingOk(s)
      /\ ~StartConnected(s) /\ ~StartAnnounce(s) /\ ~StartSpawn(s) /\ ~StartFail(s)
  BY <1>1, Zenon DEF ConnectStopped, ConnectFails, ConnectOk, PingFails, PingOk, StartConnected,
     StartAnnounce, StartSpawn, StartFail, At
<1>4. ~ShutdownAct(s)
  BY <1>1, Zenon DEF Shutdown, ShutdownAct, ShutdownAbort, ShutdownTake, ShutdownOk, ShutdownErr, ShutdownFinish,
     ShutdownNotify, At
<1> QED
  BY <1>2, <1>3, <1>4, Zenon DEF StartAct, StartStep, ShutdownAct

\* Only StartCheck writes the history of start().
LEMMA StartKeepsQuiet ==
    ASSUME NEW s \in Starts, StartAct(s), ~StartCheck(s)
    PROVE  UNCHANGED historyVars
  BY Zenon DEF StartAct, StartStep, StartMark, StartReset, Lock, StartLocked, StartStopped,
     StartSubscribe, ConnectStopped, ConnectFails, ConnectOk, PingFails, PingOk, StartConnected,
     StartAnnounce, StartSpawn, StartFail, Shutdown, ShutdownAct, ShutdownAbort, ShutdownTake, ShutdownOk,
     ShutdownErr, ShutdownFinish, ShutdownNotify

\* Only a start() that passes its check comes to wait for connect_operation.
LEMMA QuietStarts ==
    ASSUME Typed, NEW s \in Starts, StartAct(s), quiet', pc[s] \notin Entering
    PROVE  quiet /\ pc'[s] \notin Entering /\ (StartCheck(s) => state # "Disconnected")
<1> s \in Calls
  BY Zenon DEF Calls
<1>1. CASE StartCheck(s)
  <2>1. state # "Disconnected" /\ Go(s, "refused") /\ quiet' = quiet
    BY <1>1, Zenon DEF StartCheck
  <2>2. pc'[s] = "refused"
    BY <2>1, GoFacts, Zenon DEF Pcs, StartPcs, Returned
  <2> QED
    BY <2>1, <2>2, Zenon DEF Entering
<1>2. CASE ~StartCheck(s)
  <2>1. quiet' = quiet
    BY <1>2, StartKeepsQuiet, Zenon DEF historyVars
  <2>2. pc[s] \in Holding \cup {"locking"}
    <3>1. pc[s] \in StartPcs /\ pc[s] \notin Returned \cup {"idle"}
      BY <1>2, FromRest, Zenon DEF Typed
    <3> QED
      BY <3>1, Zenon DEF StartPcs, InLock
  <2>3. Moves(s)
    BY StartMoves, Zenon
  <2>4. pc'[s] \in InLock \cup {"ok", "err"}
    <3>1. ~Lock(s)
      BY <2>2 DEF Lock, At, Holding
    <3> QED
      BY <2>2, <2>3, <3>1, Zenon DEF Moves, Stays, Leaves, InLock
  <2>5. pc'[s] \notin Entering
    BY <2>4 DEF InLock, Holding, Entering
  <2> QED
    BY <1>2, <2>1, <2>5, Zenon
<1> QED
  BY <1>1, <1>2, Zenon

\* What close() does to the state, besides marking it, and to the HubRuntime.
LEMMA CloseFrees ==
    ASSUME Typed, NEW k \in Closes, CloseAct(k), ~CloseMark(k)
    PROVE  /\ state' = state \/ state' = "Disconnected"
           /\ runtime' = runtime \/ runtime' = 0
           /\ quiet' = quiet
           /\ pc[k] = "signaling" => pc'[k] = "queueing"
           /\ pc[k] = "queueing" => Lock(k)
           /\ pc[k] # "err"
           /\ Leaves(k) => ShutdownErr(k) \/ ShutdownNotify(k)
<1> k \in Calls
  BY Zenon DEF Calls
<1>1. CASE CloseRead(k)
  BY <1>1, Zenon DEF CloseRead, At, Leaves, Holding, connVars
<1>2. CASE CloseRegister(k)
  BY <1>2, Zenon DEF CloseRegister, At, Leaves, Holding, connVars, historyVars
<1>3. CASE CloseSignal(k)
  <2>1. pc'[k] = "queueing"
    BY <1>3, GoFacts, Zenon DEF CloseSignal, Pcs, ClosePcs
  <2> QED
    BY <1>3, <2>1, Zenon DEF CloseSignal, At, Leaves, Holding, connVars, historyVars
<1>4. CASE Lock(k)
  BY <1>4, Zenon DEF Lock, At, Leaves, Holding, connVars, historyVars
<1>5. CASE CloseLocked(k)
  <2>1. pc'[k] = "shutdown"
    BY <1>5, GoFacts, Zenon DEF CloseLocked, Pcs, ClosePcs
  <2> QED
    BY <1>5, <2>1, Zenon DEF CloseLocked, Locked, At, Leaves, connVars, historyVars
<1>6. CASE ShutdownAbort(k) \/ ShutdownOk(k) \/ ShutdownFinish(k)
  <2>1. pc'[k] \in {"taking", "finish", "notify"}
    BY <1>6, GoFacts, Zenon DEF ShutdownAbort, ShutdownOk, ShutdownFinish, Pcs, ClosePcs
  <2>2. ~Leaves(k)
    BY <2>1 DEF Leaves
  <2> QED
    BY <1>6, <2>2, Zenon DEF ShutdownAbort, ShutdownOk, ShutdownFinish, At, connVars, historyVars
<1>7. CASE ShutdownTake(k)
  <2>1. \E w \in {"finish", "shutting"} : Go(k, w)
    BY <1>7, Zenon DEF ShutdownTake, AfterTake
  <2>2. pc'[k] \in {"finish", "shutting"}
    BY <2>1, GoFacts, Zenon DEF Pcs, ClosePcs
  <2>3. ~Leaves(k)
    BY <2>2 DEF Leaves
  <2> QED
    BY <1>7, <2>3, Zenon DEF ShutdownTake, At, historyVars
<1>8. CASE ShutdownErr(k) \/ ShutdownNotify(k)
  BY <1>8, Zenon DEF ShutdownErr, ShutdownNotify, At, connVars, historyVars
<1> QED
  BY <1>1, <1>2, <1>3, <1>4, <1>5, <1>6, <1>7, <1>8, Zenon DEF CloseAct, CloseStep, Shutdown, ShutdownAct

\* Once close() has marked the state, a close() is still to come or all is closed.
LEMMA QuietStep ==
    ASSUME Typed, Lined, Owner, Shut, Quiet, ~config.parallel, Next
    PROVE  Quiet'
<1> DEFINE Coming == \/ \E k \in Closes : pc[k] \in {"signaling", "queueing", "err"}
                     \/ connect # <<>> /\ connect[Len(connect)] \in Closes
<1>0. quiet => (\A s \in Starts : pc[s] \notin Entering) /\ (Coming \/ Finished)
  BY Zenon DEF Quiet
<1>q. (quiet' => (\A s \in Starts : pc'[s] \notin Entering) /\ (Coming' \/ Finished')) => Quiet'
  BY Zenon DEF Quiet
<1>1. ASSUME NEW s \in Starts, StartAct(s), quiet'
      PROVE  (\A r \in Starts : pc'[r] \notin Entering) /\ (Coming' \/ Finished')
  <2> s \in Calls /\ s \notin Closes
    BY LifecycleAssumption, Zenon DEF Calls
  <2>1. Moves(s)
    BY <1>1, StartMoves, Zenon
  <2>2. pc[s] \notin Entering
    <3>1. CASE StartCheck(s)
      BY <3>1, Zenon DEF StartCheck, At, Entering
    <3>2. CASE ~StartCheck(s)
      <4>1. quiet' = quiet
        BY <1>1, <3>2, StartKeepsQuiet, Zenon DEF historyVars
      <4> QED
        BY <1>0, <1>1, <4>1, Zenon
    <3> QED
      BY <3>1, <3>2, Zenon
  <2>3. quiet /\ pc'[s] \notin Entering /\ (StartCheck(s) => state # "Disconnected")
    BY <1>1, <2>2, QuietStarts, Zenon
  <2>4. \A r \in Starts : pc'[r] \notin Entering
    BY <1>0, <2>1, <2>3, Zenon DEF Moves, Others, Entering, Calls
  <2>5. ~Finished
    BY <1>1, <2>3, FromRest, Zenon DEF Finished
  <2>6. CASE \E k \in Closes : pc[k] \in {"signaling", "queueing", "err"}
    <3>1. PICK k \in Closes : pc[k] \in {"signaling", "queueing", "err"}
      BY <2>6, Zenon
    <3>2. k \in Calls \ {s}
      BY Zenon DEF Calls
    <3>3. pc'[k] = pc[k]
      BY <3>1, <3>2, <2>1, Zenon DEF Moves, Others
    <3> QED
      BY <3>1, <3>3, <2>4, Zenon
  <2>7. CASE connect # <<>> /\ connect[Len(connect)] \in Closes
    <3>1. connect' # <<>> /\ connect'[Len(connect')] \in Closes
      <4>1. CASE Stays(s)
        BY <2>7, <4>1, Zenon DEF Stays
      <4>2. ~Lock(s)
        BY <2>2, Zenon DEF Lock, At, Entering
      <4>3. CASE Leaves(s)
        <5>1. connect \in Seq(Calls) /\ Once(connect) /\ Head(connect) = s /\ connect' = Tail(connect)
          BY <4>3, Zenon DEF Typed, Lined, Leaves
        <5>2. /\ Tail(connect) # <<>> => Tail(connect)[Len(Tail(connect))] = connect[Len(connect)]
              /\ Tail(connect) = <<>> => connect[Len(connect)] = s
          BY <2>7, <5>1, TailLine, Zenon
        <5> QED
          BY <2>7, <5>1, <5>2, Zenon
      <4> QED
        BY <2>1, <4>1, <4>2, <4>3, Zenon DEF Moves
    <3> QED
      BY <3>1, <2>4, Zenon
  <2> QED
    BY <1>0, <2>3, <2>5, <2>6, <2>7, Zenon
<1>2. ASSUME NEW k \in Closes, CloseAct(k), quiet'
      PROVE  (\A s \in Starts : pc'[s] \notin Entering) /\ (Coming' \/ Finished')
  <2> k \in Calls /\ k \notin Starts
    BY LifecycleAssumption, Zenon DEF Calls
  <2>1. Moves(k)
    BY <1>2, CloseMoves, Zenon
  <2>2. \A s \in Starts : s \in Calls \ {k} /\ (pc'[s] = pc[s] \/ pc'[s] = "ok")
    BY <2>1, Zenon DEF Moves, Others, Calls
  <2>3. CASE CloseMark(k)
    <3>1. pc'[k] = "signaling"
      BY <2>3, GoFacts, Zenon DEF CloseMark, Pcs, ClosePcs
    <3>2. \A s \in Starts : pc[s] \in CallAwaits
      BY <2>1, <2>2, Zenon DEF Moves, CallTurn
    <3>3. \A s \in Starts : pc'[s] \notin Entering
      BY <2>2, <3>2 DEF CallAwaits, Returned, Entering
    <3> QED
      BY <3>1, <3>3, Zenon
  <2>4. CASE ~CloseMark(k)
    <3>1. /\ state' = state \/ state' = "Disconnected"
          /\ runtime' = runtime \/ runtime' = 0
          /\ quiet' = quiet
          /\ pc[k] = "signaling" => pc'[k] = "queueing"
          /\ pc[k] = "queueing" => Lock(k)
          /\ pc[k] # "err"
          /\ Leaves(k) => ShutdownErr(k) \/ ShutdownNotify(k)
      BY <1>2, <2>4, CloseFrees, Zenon
    <3>2. (\A s \in Starts : pc[s] \notin Entering) /\ (Coming \/ Finished)
      BY <1>0, <1>2, <3>1, Zenon
    <3>3. \A s \in Starts : pc'[s] \notin Entering
      BY <2>2, <3>2, Zenon DEF Entering
    <3>4. CASE Finished
      <4>1. \A t \in Starts : task'[t] \in Over
        <5>1. CASE UNCHANGED <<taskVars, supervisor>>
          BY <5>1, <3>4, Zenon DEF Finished, taskVars
        <5>2. CASE ShutdownAbort(k)
          BY <5>2, Replaced, Zenon
        <5> QED
          BY <1>2, <5>1, <5>2, HolderOnly, Zenon
      <4>2. \A s \in Starts : pc'[s] \in Returned \cup {"idle"}
        BY <2>2, <3>4, Zenon DEF Finished, Returned
      <4> QED
        BY <3>1, <3>3, <3>4, <4>1, <4>2, Zenon DEF Finished
    <3>5. CASE \E j \in Closes : pc[j] \in {"signaling", "queueing", "err"}
      <4>1. PICK j \in Closes : pc[j] \in {"signaling", "queueing", "err"}
        BY <3>5, Zenon
      <4>2. CASE j # k
        <5>1. j \in Calls \ {k}
          BY <4>2, Zenon DEF Calls
        <5>2. pc'[j] = pc[j]
          BY <4>1, <5>1, <2>1, Zenon DEF Moves, Others
        <5> QED
          BY <4>1, <5>2, <3>3, Zenon
      <4>3. CASE j = k /\ pc[k] = "signaling"
        BY <3>1, <3>3, <4>3, Zenon
      <4>4. CASE j = k /\ Lock(k)
        <5>1. connect \in Seq(Calls) /\ connect' = Append(connect, k)
          BY <4>4, Zenon DEF Typed, Lock
        <5>2. connect' # <<>> /\ connect'[Len(connect')] = k
          <6>1. Append(connect, k) # <<>> /\ Append(connect, k)[Len(Append(connect, k))] = k
            BY <5>1, AppendLine
          <6> QED
            BY <5>1, <6>1, Zenon
        <5> QED
          BY <5>2, <3>3, Zenon
      <4> QED
        BY <3>1, <4>1, <4>2, <4>3, <4>4, Zenon
    <3>6. CASE connect # <<>> /\ connect[Len(connect)] \in Closes
      <4>0. connect \in Seq(Calls) /\ Once(connect)
        BY Zenon DEF Typed, Lined
      <4>1. CASE Stays(k)
        BY <3>3, <3>6, <4>1, Zenon DEF Stays
      <4>2. CASE Lock(k)
        <5>1. connect' = Append(connect, k)
          BY <4>2, Zenon DEF Lock
        <5>2. connect' # <<>> /\ connect'[Len(connect')] = k
          <6>1. Append(connect, k) # <<>> /\ Append(connect, k)[Len(Append(connect, k))] = k
            BY <4>0, AppendLine
          <6> QED
            BY <5>1, <6>1, Zenon
        <5> QED
          BY <5>2, <3>3, Zenon
      <4>3. CASE Leaves(k)
        <5>1. Head(connect) = k /\ connect' = Tail(connect)
          BY <4>3, Zenon DEF Lined, Leaves
        <5>2. /\ Tail(connect) # <<>> => Tail(connect)[Len(Tail(connect))] = connect[Len(connect)]
              /\ Tail(connect) = <<>> => Queued(connect) = {k}
          BY <3>6, <4>0, <5>1, TailLine, Zenon
        <5>3. CASE Tail(connect) # <<>>
          <6>1. connect' # <<>> /\ connect'[Len(connect')] = connect[Len(connect)]
            BY <5>1, <5>2, <5>3, Zenon
          <6> QED
            BY <6>1, <3>3, <3>6, Zenon
        <5>4. CASE ShutdownErr(k)
          <6>1. pc'[k] = "err"
            BY <5>4, GoFacts, Zenon DEF ShutdownErr, Pcs, ClosePcs, Returned
          <6> QED
            BY <6>1, <3>3, Zenon
        <5>5. CASE Tail(connect) = <<>> /\ ShutdownNotify(k)
          <6>1. pc[k] = "notify" /\ state' = state /\ runtime' = runtime /\ task' = task
            BY <5>5, Zenon DEF ShutdownNotify, At, connVars, taskVars
          <6>2. state = "Disconnected" /\ runtime = 0 /\ supervisor = None
            BY <6>1, Zenon DEF Shut
          <6>3. \A t \in Starts : task[t] \in Over
            BY <6>2, LifecycleAssumption, Zenon DEF Owner
          <6>4. \A s \in Starts : pc[s] \notin InLock
            BY <5>2, <5>5, <2>2, Zenon DEF Lined
          <6>5. \A s \in Starts : pc'[s] \in Returned \cup {"idle"}
            BY <6>4, <3>2, <2>2, Zenon DEF Typed, StartPcs, Returned
          <6> QED
            BY <6>1, <6>2, <6>3, <6>5, <3>3, Zenon DEF Finished
        <5> QED
          BY <3>1, <4>3, <5>3, <5>4, <5>5, Zenon
      <4> QED
        BY <2>1, <4>1, <4>2, <4>3, Zenon DEF Moves
    <3> QED
      BY <3>2, <3>4, <3>5, <3>6, Zenon
  <2> QED
    BY <2>3, <2>4, Zenon
<1>3. ASSUME NEW t \in Starts, TaskAct(t) PROVE Quiet'
  <2>1. TaskMoves(t)
    BY <1>3, SupervisorMoves, Zenon
  <2>2. pc' = pc /\ connect' = connect /\ quiet' = quiet
    BY <2>1, Zenon DEF TaskMoves, callVars, historyVars
  <2>3. Finished => Finished'
    <3> SUFFICES ASSUME Finished PROVE Finished'
      BY Zenon
    <3>1. task'[t] = "ended" /\ state' = state /\ runtime' = runtime
      BY <2>1, Zenon DEF TaskMoves, Finished
    <3>2. \A u \in Starts : task'[u] \in Over
      BY <2>1, <3>1, Zenon DEF TaskMoves, Finished, Over
    <3> QED
      BY <2>2, <3>1, <3>2, Zenon DEF Finished
  <2> QED
    BY <2>2, <2>3, Zenon DEF Quiet
<1>4. ASSUME NEW c, NEW e, Lose(c, e) PROVE Quiet'
  BY <1>4, Zenon DEF Lose, Quiet, Finished, callVars, taskVars, historyVars
<1> QED
  BY <1>q, <1>1, <1>2, <1>3, <1>4, Actors, Zenon

-----------------------------------------------------------------------------
(* close() leaves the connection closed *)

\* A new HubConnection satisfies the invariant.
LEMMA CloseInit == Init => CloseInv
<1> SUFFICES ASSUME Init PROVE CloseInv
  BY Zenon
<1>1. /\ pc = [p \in Calls |-> "idle"] /\ task = [t \in Starts |-> "none"]
      /\ connect = <<>> /\ supervisor = None /\ aborted = {} /\ quiet = FALSE
  BY Zenon DEF Init
<1>2. Typed
  <2>1. "idle" \in StartPcs /\ "idle" \in ClosePcs /\ "none" \in TaskPcs
    BY Zenon DEF StartPcs, ClosePcs, TaskPcs, TaskAwaits
  <2>2. connect \in Seq(Calls)
    BY <1>1
  <2> QED
    BY <1>1, <2>1, <2>2, Zenon DEF Typed, Calls
<1>3. Lined
  <2>1. Queued(connect) = {} /\ Once(connect)
    BY <1>1 DEF Queued, Once
  <2>2. "idle" \notin InLock /\ "idle" \notin Holding
    BY DEF InLock, Holding
  <2> QED
    BY <1>1, <2>1, <2>2, Zenon DEF Lined
<1>4. Owner /\ Shut /\ Quiet
  BY <1>1, Zenon DEF Owner, Over, Shut, Quiet
<1> QED
  BY <1>2, <1>3, <1>4, Zenon DEF CloseInv

\* Every step keeps it, whatever calls overlap.
LEMMA CloseInvStep ==
    ASSUME CloseInv, ~config.parallel, [Next]_<<config, vars>>
    PROVE  CloseInv'
<1>1. CASE Next
  BY <1>1, TypedStep, LinedStep, OwnerStep, ShutStep, QuietStep, Zenon DEF CloseInv
<1>2. CASE UNCHANGED <<config, vars>>
  <2>1. /\ UNCHANGED <<pc, mine, connect, task, aborted, supervisor, state, quiet>>
        /\ runtime' = runtime
    BY <1>2, Zenon DEF vars, callVars, taskVars, historyVars, connVars
  <2> QED
    BY <2>1, Zenon DEF CloseInv, Typed, Lined, Owner, Shut, Quiet, Finished
<1> QED
  BY <1>1, <1>2, Zenon

\* The configuration is chosen once.
LEMMA ConfigStep == [Next]_<<config, vars>> => config' = config
  BY Zenon DEF Next

\* Where the calls of close() have brought it once all have returned.
LEMMA LifeReturned ==
    ASSUME CloseInv, quiet, AllReturned, \A k \in Closes : pc[k] # "err"
    PROVE  /\ state = "Disconnected" /\ runtime = 0
           /\ \A t \in Starts : task[t] \in {"none", "canceled", "ended"}
<1>1. \A p \in Calls : pc[p] \in {"ok", "err", "refused", "idle"}
  BY Zenon DEF AllReturned, Returned
<1>2. connect = <<>>
  <2>1. \A p \in Calls : pc[p] \notin InLock
    BY <1>1 DEF InLock, Holding
  <2>2. connect \in Seq(Calls) /\ \A p \in Calls : p \notin Queued(connect)
    BY <2>1, Zenon DEF CloseInv, Typed, Lined
  <2>3. connect # <<>> => connect[1] \in Calls /\ connect[1] \in Queued(connect)
    BY <2>2 DEF Queued
  <2> QED
    BY <2>2, <2>3, Zenon
<1>3. \A k \in Closes : pc[k] \notin {"signaling", "queueing", "err"}
  BY <1>1, Zenon DEF Calls
<1>4. Finished
  BY <1>2, <1>3, Zenon DEF CloseInv, Quiet
<1> QED
  BY <1>4, Zenon DEF Finished, Over

\* After close() the connection stays closed until start() is called: the state
\* is Disconnected, no HubRuntime is installed and no supervisor will act.  For
\* any number of calls of start() and close(), in any order and overlap.
THEOREM StaysClosed == Spec => []ClosedMeansClosed
<1> DEFINE I == ~config.parallel => CloseInv
<1>1. Init => I
  BY CloseInit, Zenon
<1>2. I /\ [Next]_<<config, vars>> => I'
  BY CloseInvStep, ConfigStep, Zenon
<1>3. I => ClosedMeansClosed
  BY LifeReturned, Zenon DEF ClosedMeansClosed
<1> QED
  BY <1>1, <1>2, <1>3, PTL DEF Spec

-----------------------------------------------------------------------------
(* An application that calls no start() while a close() runs *)

\* Nobody is in the queue when no call waits for connect_operation or holds it.
LEMMA NobodyWaits ==
    ASSUME Typed, Lined, \A p \in Calls : pc[p] \notin InLock
    PROVE  connect = <<>>
<1>1. connect \in Seq(Calls) /\ \A p \in Calls : p \notin Queued(connect)
  BY Zenon DEF Typed, Lined
<1>2. connect # <<>> => connect[1] \in Calls /\ connect[1] \in Queued(connect)
  BY <1>1 DEF Queued
<1> QED
  BY <1>1, <1>2, Zenon

\* The steps of start() between its locks and its announcement.
Inner(s) ==
    \/ StartLocked(s) \/ StartSubscribe(s) \/ ConnectStopped(s) \/ ConnectFails(s) \/ ConnectOk(s)
    \/ PingFails(s) \/ PingOk(s) \/ StartConnected(s)

\* The steps of start() under connect_operation, up to its last look at closing.
LEMMA InnerMoves ==
    ASSUME Typed, NEW s \in Starts, Inner(s)
    PROVE  /\ UNCHANGED <<state, closing, stop, connect, task, supervisor, appVars, historyVars>>
           /\ pc[s] \in {"locked", "locking", "subscribing", "connecting", "pinging", "connected"}
           /\ \/ pc'[s] \in {"stopped", "subscribing", "failing"}
              \/ pc'[s] = "connecting" /\ ~stop
              \/ pc'[s] = "pinging" /\ pc[s] = "connecting"
              \/ pc'[s] = "connected" /\ pc[s] = "pinging"
              \/ pc'[s] = "announce" /\ pc[s] = "connected" /\ ~closing
              \/ pc'[s] = "shutdown" /\ closing
<1> s \in Calls
  BY Zenon DEF Calls
<1>1. /\ "stopped" \in Pcs /\ "subscribing" \in Pcs /\ "failing" \in Pcs /\ "connecting" \in Pcs
      /\ "pinging" \in Pcs /\ "connected" \in Pcs /\ "announce" \in Pcs /\ "shutdown" \in Pcs
  BY Zenon DEF Pcs, StartPcs, InLock, Holding
<1>2. CASE StartLocked(s)
  <2>1. Go(s, "stopped") \/ Go(s, "subscribing")
    BY <1>2, Zenon DEF StartLocked
  <2>2. pc'[s] \in {"stopped", "subscribing"}
    BY <1>1, <2>1, GoFacts, Zenon
  <2> QED
    BY <1>2, <2>2, Zenon DEF StartLocked, Locked, At, flagVars, taskVars
<1>3. CASE StartSubscribe(s)
  <2>1. Go(s, "failing") \/ (Go(s, "connecting") /\ ~stop)
    BY <1>3, Zenon DEF StartSubscribe
  <2>2. pc'[s] = "failing" \/ (pc'[s] = "connecting" /\ ~stop)
    BY <1>1, <2>1, GoFacts, Zenon
  <2> QED
    BY <1>3, <2>2, Zenon DEF StartSubscribe, At, flagVars, taskVars
<1>4. CASE ConnectStopped(s) \/ ConnectFails(s) \/ PingFails(s)
  <2>1. pc'[s] = "failing"
    BY <1>1, <1>4, GoFacts, Zenon DEF ConnectStopped, ConnectFails, PingFails
  <2> QED
    BY <1>4, <2>1, Zenon DEF ConnectStopped, ConnectFails, PingFails, At, flagVars, taskVars
<1>5. CASE ConnectOk(s)
  <2>1. pc'[s] = "pinging"
    BY <1>1, <1>5, GoFacts, Zenon DEF ConnectOk
  <2> QED
    BY <1>5, <2>1, Zenon DEF ConnectOk, At, flagVars, taskVars
<1>6. CASE PingOk(s)
  <2>1. pc'[s] = "connected"
    BY <1>1, <1>6, GoFacts, Zenon DEF PingOk
  <2> QED
    BY <1>6, <2>1, Zenon DEF PingOk, At, flagVars, taskVars
<1>7. CASE StartConnected(s)
  <2>1. (Go(s, "shutdown") /\ closing) \/ (Go(s, "announce") /\ ~closing)
    BY <1>7, Zenon DEF StartConnected, AfterConnect
  <2>2. (pc'[s] = "shutdown" /\ closing) \/ (pc'[s] = "announce" /\ ~closing)
    BY <1>1, <2>1, GoFacts, Zenon
  <2> QED
    BY <1>7, <2>2, Zenon DEF StartConnected, At, flagVars, taskVars
<1> QED
  BY <1>2, <1>3, <1>4, <1>5, <1>6, <1>7, Zenon DEF Inner

\* What shutdown_active_connection() does not touch.
LEMMA ShutdownFrame ==
    ASSUME Typed, NEW p \in Calls, ShutdownAct(p)
    PROVE  /\ UNCHANGED <<closing, stop, historyVars>>
           /\ p \in Starts => pc'[p] # "ok"
           /\ pc[p] \in {"shutdown", "taking", "shutting", "finish", "notify"}
           /\ \/ pc'[p] \in {"taking", "shutting", "finish"} /\ pc[p] # "notify" /\ UNCHANGED <<state, appVars>>
              \/ pc'[p] = "notify" /\ pc[p] = "finish" /\ state' = "Disconnected" /\ UNCHANGED appVars
              \/ pc'[p] \in {"ok", "err"} /\ pc[p] # "notify" /\ UNCHANGED <<state, appVars>>
              \/ pc'[p] \in {"ok", "err"} /\ pc[p] = "notify" /\ InvokeClosed /\ UNCHANGED state
<1>1. /\ "taking" \in Pcs /\ "shutting" \in Pcs /\ "finish" \in Pcs /\ "notify" \in Pcs
      /\ "err" \in Pcs
  BY Zenon DEF Pcs, StartPcs, InLock, Holding, Returned
<1>2. CASE ShutdownAbort(p)
  <2>1. pc'[p] = "taking"
    BY <1>1, <1>2, GoFacts, Zenon DEF ShutdownAbort
  <2> QED
    BY <1>2, <2>1, Zenon DEF ShutdownAbort, At, flagVars
<1>3. CASE ShutdownTake(p)
  <2>1. Go(p, "finish") \/ Go(p, "shutting")
    BY <1>3, Zenon DEF ShutdownTake, AfterTake
  <2>2. pc'[p] \in {"finish", "shutting"}
    BY <1>1, <2>1, GoFacts, Zenon
  <2> QED
    BY <1>3, <2>2, Zenon DEF ShutdownTake, At, flagVars
<1>4. CASE ShutdownOk(p)
  <2>1. pc'[p] = "finish"
    BY <1>1, <1>4, GoFacts, Zenon DEF ShutdownOk
  <2> QED
    BY <1>4, <2>1, Zenon DEF ShutdownOk, At, flagVars
<1>5. CASE ShutdownErr(p)
  <2>1. pc'[p] = "err"
    BY <1>1, <1>5, GoFacts, Zenon DEF ShutdownErr
  <2> QED
    BY <1>5, <2>1, Zenon DEF ShutdownErr, At, flagVars
<1>6. CASE ShutdownFinish(p)
  <2>1. pc'[p] = "notify"
    BY <1>1, <1>6, GoFacts, Zenon DEF ShutdownFinish
  <2> QED
    BY <1>6, <2>1, Zenon DEF ShutdownFinish, At, flagVars
<1>7. CASE ShutdownNotify(p)
  <2>1. pc'[p] \in {"ok", "err"}
    BY <1>7, Zenon DEF ShutdownNotify
  <2> QED
    BY <1>7, <2>1, Zenon DEF ShutdownNotify, At, flagVars
<1> QED
  BY <1>2, <1>3, <1>4, <1>5, <1>6, <1>7, Zenon DEF Shutdown, ShutdownAct

\* Where Lock leads.
LEMMA LockWhere ==
    ASSUME Typed, NEW p \in Calls, Lock(p)
    PROVE  pc[p] = "queueing" /\ pc'[p] = IF connect = <<>> THEN "locked" ELSE "locking"
<1>1. "locked" \in Pcs /\ "locking" \in Pcs
  BY Zenon DEF Pcs, StartPcs, InLock, Holding
<1>2. (IF connect = <<>> THEN "locked" ELSE "locking") \in Pcs
  BY <1>1, Zenon
<1> QED
  BY <1>2, GoFacts, Zenon DEF Lock, At

\* Where each step of start() leads.
LEMMA StartWhere ==
    ASSUME Typed, NEW s \in Starts
    PROVE  /\ StartCheck(s) => /\ pc[s] = "idle"
                               /\ \/ state = "Disconnected" /\ pc'[s] = "passed"
                                  \/ state # "Disconnected" /\ pc'[s] = "refused"
           /\ StartMark(s) => pc[s] = "passed" /\ pc'[s] = "marked"
           /\ StartReset(s) => pc[s] = "marked" /\ pc'[s] = "queueing"
           /\ StartAnnounce(s) => pc[s] = "announce" /\ pc'[s] = "spawn"
           /\ StartSpawn(s) => pc[s] = "spawn" /\ pc'[s] = "ok"
           /\ StartStopped(s) => pc[s] = "stopped" /\ pc'[s] = "err"
           /\ StartFail(s) => pc[s] = "failing" /\ pc'[s] = "err"
<1> s \in Calls
  BY Zenon DEF Calls
<1>1. /\ "passed" \in Pcs /\ "refused" \in Pcs /\ "marked" \in Pcs /\ "queueing" \in Pcs
      /\ "spawn" \in Pcs /\ "ok" \in Pcs /\ "err" \in Pcs
  BY Zenon DEF Pcs, StartPcs, InLock, Holding, Entering, Returned
<1>2. StartCheck(s) => /\ pc[s] = "idle"
                       /\ \/ state = "Disconnected" /\ pc'[s] = "passed"
                          \/ state # "Disconnected" /\ pc'[s] = "refused"
  <2>1. StartCheck(s) => /\ pc[s] = "idle"
                         /\ \/ state = "Disconnected" /\ Go(s, "passed")
                            \/ state # "Disconnected" /\ Go(s, "refused")
    BY Zenon DEF StartCheck, At
  <2> QED
    BY <1>1, <2>1, GoFacts, Zenon
<1>3. /\ StartMark(s) => pc[s] = "passed" /\ pc'[s] = "marked"
      /\ StartReset(s) => pc[s] = "marked" /\ pc'[s] = "queueing"
  BY <1>1, GoFacts, Zenon DEF StartMark, StartReset, At
<1>4. /\ StartAnnounce(s) => pc[s] = "announce" /\ pc'[s] = "spawn"
      /\ StartSpawn(s) => pc[s] = "spawn" /\ pc'[s] = "ok"
  BY <1>1, GoFacts, Zenon DEF StartAnnounce, StartSpawn, At
<1>5. /\ StartStopped(s) => pc[s] = "stopped" /\ pc'[s] = "err"
      /\ StartFail(s) => pc[s] = "failing" /\ pc'[s] = "err"
  BY <1>1, GoFacts, Zenon DEF StartStopped, StartFail, At
<1> QED
  BY <1>2, <1>3, <1>4, <1>5, Zenon

\* Where each step of close() leads.
LEMMA CloseWhere ==
    ASSUME Typed, NEW k \in Closes
    PROVE  /\ CloseRead(k) => /\ pc[k] = "idle"
                              /\ \/ state = "Disconnected" /\ pc'[k] = "ok"
                                 \/ state = "Disconnecting" /\ pc'[k] = "registering"
                                 \/ state \notin {"Disconnected", "Disconnecting"} /\ pc'[k] = "marking"
           /\ CloseRegister(k) => pc[k] = "registering" /\ pc'[k] = "waiting"
           /\ CloseMark(k) => pc[k] = "marking" /\ pc'[k] = "signaling"
           /\ CloseSignal(k) => pc[k] = "signaling" /\ pc'[k] = "queueing"
           /\ CloseLocked(k) => pc[k] \in {"locked", "locking"} /\ pc'[k] = "shutdown"
<1> k \in Calls
  BY Zenon DEF Calls
<1>1. /\ "ok" \in Pcs /\ "registering" \in Pcs /\ "marking" \in Pcs /\ "waiting" \in Pcs
      /\ "signaling" \in Pcs /\ "queueing" \in Pcs /\ "shutdown" \in Pcs
  BY Zenon DEF Pcs, ClosePcs, Returned
<1>2. CloseRead(k) => /\ pc[k] = "idle"
                      /\ \/ state = "Disconnected" /\ pc'[k] = "ok"
                         \/ state = "Disconnecting" /\ pc'[k] = "registering"
                         \/ state \notin {"Disconnected", "Disconnecting"} /\ pc'[k] = "marking"
  <2>1. CloseRead(k) => \/ state = "Disconnected" /\ Go(k, "ok")
                        \/ state = "Disconnecting" /\ Go(k, "registering")
                        \/ state \notin {"Disconnected", "Disconnecting"} /\ Go(k, "marking")
    BY DEF CloseRead
  <2>2. CloseRead(k) => pc[k] = "idle"
    BY Zenon DEF CloseRead, At
  <2> QED
    BY <1>1, <2>1, <2>2, GoFacts, Zenon
<1>3. /\ CloseRegister(k) => pc[k] = "registering" /\ pc'[k] = "waiting"
      /\ CloseMark(k) => pc[k] = "marking" /\ pc'[k] = "signaling"
  BY <1>1, GoFacts, Zenon DEF CloseRegister, CloseMark, At
<1>4. /\ CloseSignal(k) => pc[k] = "signaling" /\ pc'[k] = "queueing"
      /\ CloseLocked(k) => pc[k] \in {"locked", "locking"} /\ pc'[k] = "shutdown"
  BY <1>1, GoFacts, Zenon DEF CloseSignal, CloseLocked, Locked, At
<1> QED
  BY <1>2, <1>3, <1>4, Zenon

\* The steps of start(), in groups.
LEMMA StartSteps ==
    ASSUME NEW s \in Starts, StartAct(s)
    PROVE  \/ StartCheck(s) \/ StartMark(s) \/ StartReset(s) \/ Lock(s) \/ Inner(s)
           \/ StartAnnounce(s) \/ StartSpawn(s) \/ StartStopped(s) \/ StartFail(s) \/ ShutdownAct(s)
  BY Zenon DEF StartAct, StartStep, ShutdownAct, Inner

\* The steps of close(), in groups.
LEMMA CloseSteps ==
    ASSUME NEW k \in Closes, CloseAct(k)
    PROVE  \/ CloseRead(k) \/ CloseRegister(k) \/ CloseMark(k) \/ CloseSignal(k) \/ Lock(k)
           \/ CloseLocked(k) \/ ShutdownAct(k)
  BY Zenon DEF CloseAct, CloseStep, ShutdownAct

\* No step leads back to before the call.
LEMMA NeverIdle ==
    ASSUME Typed, NEW p \in Calls, (p \in Starts /\ StartAct(p)) \/ (p \in Closes /\ CloseAct(p))
    PROVE  pc'[p] # "idle"
<1>1. CASE p \in Starts /\ StartAct(p)
  BY <1>1, StartSteps, StartWhere, LockWhere, InnerMoves, ShutdownFrame, Zenon
<1>2. CASE p \in Closes /\ CloseAct(p)
  BY <1>2, CloseSteps, CloseWhere, LockWhere, ShutdownFrame, Zenon
<1> QED
  BY <1>1, <1>2, Zenon

\* Only StartCheck and CloseRead write calm and doomed.
LEMMA HistoryFrame ==
    ASSUME NEW p \in Calls, (p \in Starts /\ StartAct(p)) \/ (p \in Closes /\ CloseAct(p))
    PROVE  /\ calm' = calm \/ (p \in Starts /\ StartCheck(p) /\ calm' = calm \cup {p})
           /\ doomed' = doomed \/ (p \in Closes /\ CloseRead(p))
<1>1. CASE p \in Starts /\ StartCheck(p)
  BY <1>1, Zenon DEF StartCheck
<1>2. CASE p \in Starts /\ StartAct(p) /\ ~StartCheck(p)
  BY <1>2, StartKeepsQuiet, Zenon DEF historyVars
<1>3. CASE p \in Closes /\ (CloseRead(p) \/ CloseRegister(p) \/ CloseMark(p) \/ CloseSignal(p) \/ Lock(p)
                            \/ CloseLocked(p))
  BY <1>3, Zenon DEF CloseRead, CloseRegister, CloseMark, CloseSignal, Lock, CloseLocked, historyVars
<1>4. CASE p \in Closes /\ ShutdownAct(p)
  BY <1>4, Zenon DEF Shutdown, ShutdownAct, ShutdownAbort, ShutdownTake, ShutdownOk, ShutdownErr, ShutdownFinish,
     ShutdownNotify, historyVars
<1> QED
  BY <1>1, <1>2, <1>3, <1>4, CloseSteps, Zenon

\* calm holds calls of start() that were made.
LEMMA CalledStep ==
    ASSUME Typed, Called, ~config.parallel, Next
    PROVE  Called'
<1>1. ASSUME NEW p \in Calls, (p \in Starts /\ StartAct(p)) \/ (p \in Closes /\ CloseAct(p))
      PROVE  Called'
  <2>1. pc'[p] # "idle" /\ \A q \in Calls \ {p} : pc'[q] = pc[q] \/ pc'[q] = "ok"
    BY <1>1, NeverIdle, StartMoves, CloseMoves, Zenon DEF Moves, Others
  <2>2. calm' = calm \/ (p \in Starts /\ calm' = calm \cup {p})
    BY <1>1, HistoryFrame, Zenon
  <2> QED
    BY <2>1, <2>2, Zenon DEF Called, Calls
<1>2. ASSUME NEW t \in Starts, TaskAct(t) PROVE Called'
  BY <1>2, SupervisorMoves, Zenon DEF TaskMoves, Called, callVars, historyVars
<1>3. ASSUME NEW c, NEW e, Lose(c, e) PROVE Called'
  BY <1>3, Zenon DEF Lose, Called, callVars, historyVars
<1> QED
  BY <1>1, <1>2, <1>3, Actors, Zenon

\* An application that has been calm so far has always been.
LEMMA CalmBack ==
    ASSUME Typed, Called, ~config.parallel, Next, Calm'
    PROVE  Calm
<1>1. ASSUME NEW p \in Calls, (p \in Starts /\ StartAct(p)) \/ (p \in Closes /\ CloseAct(p))
      PROVE  Calm
  <2> SUFFICES ASSUME NEW s \in Starts, pc[s] # "idle" PROVE s \in calm
    BY Zenon DEF Calm
  <2>1. pc'[s] # "idle"
    BY <1>1, NeverIdle, StartMoves, CloseMoves, Zenon DEF Moves, Others, Calls
  <2>2. s \in calm'
    BY <2>1, Zenon DEF Calm
  <2>3. CASE calm' = calm
    BY <2>2, <2>3, Zenon
  <2>4. CASE p \in Starts /\ StartCheck(p) /\ calm' = calm \cup {p}
    BY <2>2, <2>4, Zenon DEF StartCheck, At
  <2> QED
    BY <1>1, <2>3, <2>4, HistoryFrame, Zenon
<1>2. ASSUME NEW t \in Starts, TaskAct(t) PROVE Calm
  BY <1>2, SupervisorMoves, Zenon DEF TaskMoves, Calm, callVars, historyVars
<1>3. ASSUME NEW c, NEW e, Lose(c, e) PROVE Calm
  BY <1>3, Zenon DEF Lose, Calm, callVars, historyVars
<1> QED
  BY <1>1, <1>2, <1>3, Actors, Zenon

\* Its start() finds no close() running.
LEMMA CalmStart ==
    ASSUME Typed, Called, NEW s \in Starts, StartCheck(s), Calm'
    PROVE  \A k \in Closes : pc[k] \in Idle
<1>1. pc'[s] # "idle" /\ s \notin calm
  BY StartWhere, Zenon DEF Called
<1>2. s \in calm'
  BY <1>1, Zenon DEF Calm
<1> QED
  BY <1>1, <1>2, Zenon DEF StartCheck, Idle

\* Where a call can be while another takes a step.
LEMMA AwaitFacts ==
    ASSUME NEW w \in CallAwaits
    PROVE  /\ w \in Way => w \in {"connecting", "pinging", "taking", "shutting"}
           /\ w \in InLock => w = "locking" \/ w \in {"connecting", "pinging", "taking", "shutting"}
           /\ w \notin Entering
           /\ w \notin {"locked", "notify", "spawn", "signaling", "marking", "shutdown", "announce"}
  BY DEF CallAwaits, Returned, Way, Entering, Holding, InLock

\* A call that has returned is out of the way.
LEMMA OutOfWay == \A w \in {"ok", "err", "refused", "idle"} : w \notin Way /\ w \notin InLock
  BY DEF Way, Entering, Holding, InLock

\* start() stays alone while others take their steps.
LEMMA AloneOther ==
    ASSUME Typed, Alone, ~config.parallel, NEW p \in Calls, Moves(p),
           p \in Starts => pc'[p] \notin Way,
           (\A t \in Starts : task[t] \in Over) => \A t \in Starts : task'[t] \in Over,
           state' \in {state, "Disconnecting"},
           NEW s \in Starts \ {p}
    PROVE  pc'[s] # "locking" /\ (pc'[s] \in Way => AloneAt(s)')
<1>1. \A r \in Starts \ {p} : pc[r] \in CallAwaits /\ (pc'[r] = pc[r] \/ pc'[r] = "ok")
  BY Zenon DEF Moves, Others, CallTurn, Calls
<1>2. \A r \in Starts \ {p} : pc'[r] \in Way => pc[r] \in Way /\ pc'[r] = pc[r]
  BY <1>1, OutOfWay, Zenon
<1>3. pc'[s] # "locking"
  BY <1>1, Zenon DEF Alone
<1>4. ASSUME pc'[s] \in Way PROVE AloneAt(s)'
  <2>1. pc'[s] = pc[s] /\ pc[s] \in {"connecting", "pinging", "taking", "shutting"} /\ AloneAt(s)
    BY <1>1, <1>2, <1>4, AwaitFacts, Zenon DEF Alone
  <2>2. \A r \in Starts \ {s} : pc'[r] \notin Way
    BY <1>2, <2>1, Zenon DEF AloneAt
  <2>3. \A t \in Starts : task'[t] \in Over
    BY <2>1, Zenon DEF AloneAt
  <2>4. state' \in {"Connecting", "Disconnecting"}
    BY <2>1, Zenon DEF AloneAt
  <2>5. pc'[s] \notin Entering
    BY <2>1 DEF Entering
  <2> QED
    BY <2>1, <2>2, <2>3, <2>4, <2>5, Zenon DEF AloneAt
<1> QED
  BY <1>3, <1>4, Zenon

\* start() is alone while it runs.
LEMMA AloneStarts ==
    ASSUME Typed, Lined, Owner, Called, Alone, Watched, ~config.parallel, Calm',
           NEW s \in Starts, StartAct(s)
    PROVE  Alone'
<1> s \in Calls /\ s \notin Closes
  BY LifecycleAssumption, Zenon DEF Calls
<1>1. Moves(s)
  BY StartMoves, Zenon
<1>2. \A q \in Calls \ {s} : pc[q] \in CallAwaits /\ (pc'[q] = pc[q] \/ pc'[q] = "ok")
  BY <1>1, Zenon DEF Moves, Others, CallTurn
<1>3. \A t \in Starts : task[t] \in TaskAwaits
  BY <1>1, Zenon DEF Moves, CallTurn
<1>4. \A r \in Starts \ {s} : r \in Calls \ {s} /\ pc'[r] # "locking" /\ (pc'[r] \in Way => pc[r] \in Way)
  <2> TAKE r \in Starts \ {s}
  <2>1. r \in Calls \ {s} /\ pc[r] # "locking"
    BY Zenon DEF Calls, Alone
  <2>2. pc'[r] = pc[r] \/ pc'[r] = "ok"
    BY <1>2, <2>1, Zenon
  <2> QED
    BY <2>1, <2>2, OutOfWay, Zenon
<1>5. (\A k \in Closes : pc[k] \in Idle) => \A k \in Closes : pc'[k] \in Idle
  BY <1>2, Zenon DEF Calls, Idle, Returned
<1>6. CASE StartCheck(s) /\ state # "Disconnected"
  <2>1. pc'[s] = "refused" /\ task' = task /\ state' = state
    BY <1>6, StartWhere, Zenon DEF StartCheck, taskVars
  <2>2. pc'[s] \notin Way
    BY <2>1, OutOfWay, Zenon
  <2> QED
    BY <1>1, <2>1, <2>2, AloneOther, Zenon DEF Alone
<1>7. CASE StartCheck(s) /\ state = "Disconnected"
  <2>1. pc'[s] = "passed" /\ task' = task /\ state' = state /\ connect' = connect
    BY <1>7, StartWhere, Zenon DEF StartCheck, taskVars
  <2>2. \A k \in Closes : pc[k] \in Idle
    BY <1>7, CalmStart, Zenon
  <2>3. \A r \in Starts \ {s} : pc[r] \notin Way
    BY <1>2, <1>4, <1>7, AwaitFacts, Zenon DEF Alone, AloneAt
  <2>4. \A t \in Starts : task[t] \in Over
    <3> SUFFICES ASSUME NEW t \in Starts, task[t] \notin Over PROVE FALSE
      BY Zenon
    <3>1. task[t] # "closed"
      BY <1>3 DEF TaskAwaits
    <3>2. state # StateOf(task[t])
      BY <1>7, <3>1, Zenon DEF StateOf
    <3>3. PICK k \in Closes : pc[k] \in {"signaling", "queueing", "locked", "shutdown"}
      BY <3>2, Zenon DEF Watched
    <3> QED
      BY <2>2, <3>3 DEF Idle, Returned
  <2>5. connect = <<>>
    <3>1. \A r \in Starts : pc[r] \notin InLock
      <4>1. pc[s] \notin InLock
        BY <1>7, StartWhere, OutOfWay, Zenon
      <4> QED
        BY <4>1, <2>3, Zenon DEF Alone, Way, InLock
    <3>2. \A k \in Closes : pc[k] \notin InLock
      BY <2>2, OutOfWay, Zenon DEF Idle, Returned
    <3> QED
      BY <3>1, <3>2, NobodyWaits, Zenon DEF Calls
  <2>6. AloneAt(s)'
    BY <1>4, <1>5, <1>7, <2>1, <2>2, <2>3, <2>4, <2>5, Zenon DEF AloneAt
  <2>7. \A r \in Starts \ {s} : pc'[r] \notin Way
    BY <1>4, <2>3, Zenon
  <2> QED
    BY <1>4, <2>1, <2>6, <2>7, Zenon DEF Alone
<1>8. CASE pc[s] \in Way
  <2>1. AloneAt(s)
    BY <1>8, Zenon DEF Alone
  <2>2. \A r \in Starts \ {s} : pc'[r] \notin Way
    BY <1>4, <2>1, Zenon DEF AloneAt
  <2>3. \A t \in Starts : task[t] \in Over
    BY <2>1, Zenon DEF AloneAt
  <2>4. CASE StartMark(s) \/ StartReset(s)
    <3>1. /\ connect' = connect /\ task' = task
          /\ \/ pc'[s] = "marked" /\ state' = "Connecting"
             \/ pc'[s] = "queueing" /\ state' = state /\ state = "Connecting"
      BY <2>1, <2>4, StartWhere, Zenon DEF StartMark, StartReset, AloneAt, taskVars
    <3>2. pc[s] \in Entering
      BY <2>4, StartWhere, Zenon DEF Entering
    <3>3. AloneAt(s)'
      BY <3>1, <3>2, <1>5, <2>1, <2>2, <2>3, Zenon DEF AloneAt
    <3> QED
      BY <1>4, <2>2, <3>1, <3>3, Zenon DEF Alone
  <2>5. CASE Lock(s)
    <3>1. pc[s] = "queueing" /\ connect = <<>>
      BY <2>1, <2>5, LockWhere, Zenon DEF AloneAt, Entering
    <3>2. pc'[s] = "locked" /\ state' = state /\ task' = task
      BY <2>5, <3>1, LockWhere, Zenon DEF Lock, taskVars
    <3>3. AloneAt(s)'
      BY <3>1, <3>2, <2>1, <2>2, <2>3, Zenon DEF AloneAt, Entering
    <3> QED
      BY <1>4, <2>2, <3>2, <3>3, Zenon DEF Alone
  <2>6. CASE Inner(s)
    <3>1. /\ state' = state /\ task' = task
          /\ pc[s] \in {"locked", "locking", "subscribing", "connecting", "pinging", "connected"}
          /\ pc'[s] \in {"stopped", "subscribing", "failing", "connecting", "pinging", "connected",
                         "announce", "shutdown"}
      BY <2>6, InnerMoves, Zenon
    <3>2. state' \in {"Connecting", "Disconnecting"}
      BY <2>1, <3>1, Zenon DEF AloneAt
    <3>3. pc'[s] \notin Entering /\ pc'[s] # "locking"
      BY <3>1 DEF Entering
    <3>4. AloneAt(s)'
      BY <3>1, <3>2, <3>3, <2>2, <2>3, Zenon DEF AloneAt, Entering
    <3> QED
      BY <1>4, <2>2, <3>3, <3>4, Zenon DEF Alone
  <2>7. CASE StartAnnounce(s)
    <3>1. pc'[s] = "spawn" /\ task' = task /\ state' = "Connected"
      BY <2>7, StartWhere, Zenon DEF StartAnnounce, taskVars
    <3>2. AloneAt(s)'
      BY <3>1, <2>2, <2>3, Zenon DEF AloneAt, Entering
    <3> QED
      BY <1>4, <2>2, <3>1, <3>2, Zenon DEF Alone
  <2>8. CASE StartSpawn(s) \/ StartStopped(s) \/ StartFail(s)
    <3>1. pc'[s] \in {"ok", "err"}
      BY <2>8, StartWhere, Zenon
    <3>2. pc'[s] \notin Way
      BY <3>1, OutOfWay, Zenon
    <3> QED
      BY <1>4, <2>2, <3>1, <3>2, Zenon DEF Alone
  <2>9. CASE ShutdownAct(s)
    <3>1. /\ pc[s] \in {"shutdown", "taking", "shutting", "finish", "notify"}
          /\ \/ pc'[s] \in {"taking", "shutting", "finish"} /\ state' = state /\ pc[s] # "notify"
             \/ pc'[s] \in {"notify", "ok", "err"}
      BY <2>9, ShutdownFrame, Zenon
    <3>2. \A t \in Starts : task'[t] \in Over
      <4>1. CASE UNCHANGED <<taskVars, supervisor>>
        BY <2>3, <4>1, Zenon DEF taskVars
      <4>2. CASE ShutdownAbort(s)
        BY <4>2, Replaced, Zenon
      <4>3. ~StartSpawn(s)
        BY <3>1, StartWhere, Zenon
      <4> QED
        BY <4>1, <4>2, <4>3, HolderOnly, Zenon
    <3>3. pc'[s] \notin Entering /\ pc'[s] # "locking"
      BY <3>1 DEF Entering
    <3>4. pc'[s] \in Way => AloneAt(s)'
      <4>1. CASE pc'[s] \in {"taking", "shutting", "finish"}
        <5>1. state' \in {"Connecting", "Disconnecting"}
          BY <2>1, <3>1, <4>1, Zenon DEF AloneAt
        <5> QED
          BY <2>2, <3>2, <3>3, <4>1, <5>1, Zenon DEF AloneAt
      <4>2. CASE pc'[s] = "notify"
        BY <2>2, <3>2, <3>3, <4>2, Zenon DEF AloneAt
      <4>3. CASE pc'[s] \in {"ok", "err"}
        BY <4>3, OutOfWay, Zenon
      <4> QED
        BY <3>1, <4>1, <4>2, <4>3, Zenon
    <3> QED
      BY <1>4, <2>2, <3>3, <3>4, Zenon DEF Alone
  <2>10. ~StartCheck(s)
    BY <1>8, StartWhere, OutOfWay, Zenon
  <2> QED
    BY <2>4, <2>5, <2>6, <2>7, <2>8, <2>9, <2>10, StartSteps, Zenon
<1>9. CASE ~StartCheck(s) /\ pc[s] \notin Way
  <2>1. pc[s] \in StartPcs /\ pc[s] # "locking"
    BY Zenon DEF Typed, Alone
  <2>2. pc[s] \in Returned \cup {"idle"}
    BY <1>9, <2>1, Zenon DEF StartPcs, Way, InLock
  <2> QED
    BY <1>9, <2>2, FromRest, Zenon
<1> QED
  BY <1>6, <1>7, <1>8, <1>9, Zenon

\* start() stays alone while close() runs.
LEMMA AloneCloses ==
    ASSUME Typed, Lined, Owner, Alone, ~config.parallel, NEW k \in Closes, CloseAct(k)
    PROVE  Alone'
<1> k \in Calls /\ k \notin Starts
  BY LifecycleAssumption, Zenon DEF Calls
<1>1. Moves(k)
  BY CloseMoves, Zenon
<1>2. (\A t \in Starts : task[t] \in Over) => \A t \in Starts : task'[t] \in Over
  <2>1. CASE UNCHANGED <<taskVars, supervisor>>
    BY <2>1, Zenon DEF taskVars
  <2>2. CASE ShutdownAbort(k)
    BY <2>2, Replaced, Zenon
  <2> QED
    BY <2>1, <2>2, HolderOnly, Zenon
<1>3. CASE state' \in {state, "Disconnecting"}
  BY <1>1, <1>2, <1>3, AloneOther, Zenon DEF Alone
<1>4. CASE ShutdownFinish(k)
  <2>1. pc[k] \in Holding
    BY <1>4, Zenon DEF ShutdownFinish, At, Holding
  <2>2. connect # <<>> /\ Head(connect) = k
    BY <2>1, Zenon DEF Lined
  <2>3. \A r \in Starts : pc[r] \notin Way
    <3> SUFFICES ASSUME NEW r \in Starts, pc[r] \in Way PROVE FALSE
      BY Zenon
    <3>1. pc[r] \notin Entering
      BY <2>2, Zenon DEF Alone, AloneAt
    <3>2. r \in Calls /\ pc[r] \in Holding
      BY <3>1, Zenon DEF Way, Calls
    <3> QED
      BY <2>2, <3>2, Zenon DEF Lined
  <2>4. \A r \in Starts : pc'[r] = pc[r] \/ pc'[r] = "ok"
    BY <1>1, Zenon DEF Moves, Others, Calls
  <2>5. \A r \in Starts : pc'[r] \notin Way
    BY <2>3, <2>4, OutOfWay, Zenon
  <2>6. \A r \in Starts : pc'[r] # "locking"
    BY <2>4, Zenon DEF Alone
  <2> QED
    BY <2>5, <2>6, Zenon DEF Alone
<1>5. state' = state \/ CloseMark(k) \/ ShutdownFinish(k)
  BY Zenon DEF CloseAct, CloseRead, CloseStep, CloseRegister, CloseSignal, Lock, CloseLocked, Shutdown, ShutdownAct,
     ShutdownAbort, ShutdownTake, ShutdownOk, ShutdownErr, ShutdownNotify
<1>6. CloseMark(k) => state' = "Disconnecting"
  BY Zenon DEF CloseMark
<1> QED
  BY <1>3, <1>4, <1>5, <1>6, Zenon

\* start() and a supervisor do not work side by side.
LEMMA AloneTasks ==
    ASSUME Typed, Alone, ~config.parallel, NEW t \in Starts, TaskAct(t)
    PROVE  Alone'
<1>1. TaskMoves(t)
  BY SupervisorMoves, Zenon
<1>2. pc' = pc /\ connect' = connect
  BY <1>1, Zenon DEF TaskMoves, callVars
<1>3. CASE task'[t] = "ended" /\ state' = state
  <2>2. (\A u \in Starts : task[u] \in Over) => \A u \in Starts : task'[u] \in Over
    BY <1>1, <1>3, Zenon DEF TaskMoves, Over
  <2>3. \A s \in Starts : AloneAt(s) => AloneAt(s)'
    BY <1>2, <1>3, <2>2, Zenon DEF AloneAt
  <2> QED
    BY <1>2, <2>3, Zenon DEF Alone
<1>4. CASE task[t] \notin Over
  BY <1>2, <1>4, Zenon DEF Alone, AloneAt
<1> QED
  BY <1>1, <1>3, <1>4, Zenon DEF TaskMoves

-----------------------------------------------------------------------------
(* What closing and stop_reconnect say *)

LateStart(s) ==
    /\ pc[s] \in {"connecting", "pinging", "connected"} => (stop => closing)
    /\ pc[s] \in {"announce", "spawn"} => ~closing /\ ~stop

\* The steps of a call that leave closing and stop_reconnect alone.
LEMMA SignalledCall ==
    ASSUME Signalled, ~config.parallel, NEW p \in Calls, Moves(p),
           closing' = closing, stop' = stop,
           state' = "Disconnecting" =>
             (state = "Disconnecting" /\ pc[p] # "signaling") \/ (p \in Closes /\ pc'[p] = "signaling"),
           p \in Closes /\ pc'[p] \in InLock \cup {"queueing"} => pc[p] \in InLock \cup {"queueing"},
           p \in Starts /\ pc'[p] \in Way => pc[p] \in Way \/ \A k \in Closes : pc[k] \in Idle,
           p \in Starts => LateStart(p)'
    PROVE  Signalled'
<1>1. \A q \in Calls \ {p} : pc[q] \in CallAwaits /\ (pc'[q] = pc[q] \/ pc'[q] = "ok")
  BY Zenon DEF Moves, Others, CallTurn
<1>2. \A q \in Calls \ {p} : pc[q] # "signaling" /\ pc[q] # "queueing"
  BY <1>1 DEF CallAwaits, Returned
<1>3. state' = "Disconnecting" => closing' \/ \E k \in Closes : pc'[k] = "signaling"
  BY <1>2, Zenon DEF Signalled, Calls
<1>4. ASSUME NEW s \in Starts, NEW k \in Closes, pc'[s] \in Way, pc'[k] \in InLock \cup {"queueing"}
      PROVE  closing'
  <2> s \in Calls /\ k \in Calls /\ s # k
    BY LifecycleAssumption, Zenon DEF Calls
  <2>1. pc[k] \in InLock \cup {"queueing"}
    <3>1. CASE k = p
      BY <1>4, <3>1, Zenon
    <3>2. CASE k # p
      <4>1. pc'[k] # "ok"
        BY <1>4 DEF InLock, Holding
      <4> QED
        BY <1>1, <1>4, <3>2, <4>1, Zenon
    <3> QED
      BY <3>1, <3>2, Zenon
  <2>2. pc[k] \notin Idle
    BY <2>1 DEF InLock, Holding, Idle, Returned
  <2>3. pc[s] \in Way
    <3>1. CASE s = p
      BY <1>4, <2>2, <3>1, Zenon
    <3>2. CASE s # p
      BY <1>1, <1>4, <3>2, OutOfWay, Zenon
    <3> QED
      BY <3>1, <3>2, Zenon
  <2> QED
    BY <2>1, <2>3, Zenon DEF Signalled
<1>5. ASSUME NEW s \in Starts PROVE LateStart(s)'
  <2>1. CASE s = p
    BY <2>1, Zenon
  <2>2. CASE s # p /\ pc'[s] = pc[s]
    BY <2>2, Zenon DEF Signalled, LateStart
  <2>3. CASE s # p /\ pc'[s] = "ok"
    BY <2>3, Zenon DEF LateStart
  <2> QED
    BY <1>1, <2>1, <2>2, <2>3, Zenon DEF Calls
<1> QED
  BY <1>3, <1>4, <1>5, Zenon DEF Signalled, LateStart

\* start() resets closing and stop_reconnect only while no close() runs.
LEMMA SignalledStarts ==
    ASSUME Typed, Called, Alone, Signalled, ~config.parallel, Calm', NEW s \in Starts, StartAct(s)
    PROVE  Signalled'
<1> s \in Calls /\ s \notin Closes
  BY LifecycleAssumption, Zenon DEF Calls
<1>1. Moves(s) /\ pc[s] # "signaling"
  BY StartMoves, Zenon DEF Typed, StartPcs, Returned, Entering, InLock, Holding
<1>2. CASE StartCheck(s)
  <2>1. pc'[s] \in {"passed", "refused"} /\ closing' = closing /\ stop' = stop /\ state' = state
    BY <1>2, StartWhere, Zenon DEF StartCheck, flagVars
  <2>2. \A k \in Closes : pc[k] \in Idle
    BY <1>2, CalmStart, Zenon
  <2>3. LateStart(s)'
    BY <2>1, Zenon DEF LateStart
  <2> QED
    BY <1>1, <2>1, <2>2, <2>3, SignalledCall, Zenon
<1>3. CASE StartMark(s) \/ Lock(s)
  <2>1. pc[s] \in Way /\ AloneAt(s) /\ pc[s] \in Entering
    BY <1>3, StartWhere, LockWhere, Zenon DEF Alone, Way, Entering
  <2>2. /\ pc'[s] \in {"marked", "locked", "locking"} /\ closing' = closing /\ stop' = stop
        /\ state' \in {state, "Connecting"}
    BY <1>3, StartWhere, LockWhere, Zenon DEF StartMark, Lock, flagVars
  <2>3. LateStart(s)'
    BY <2>2, Zenon DEF LateStart
  <2> QED
    BY <1>1, <2>1, <2>2, <2>3, SignalledCall, Zenon
<1>4. CASE StartReset(s)
  <2>1. pc[s] = "marked" /\ pc'[s] = "queueing" /\ state' = state
    BY <1>4, StartWhere, Zenon DEF StartReset
  <2>2. AloneAt(s) /\ state = "Connecting" /\ \A k \in Closes : pc[k] \in Idle
    BY <2>1, Zenon DEF Alone, AloneAt, Way, Entering
  <2>3. \A q \in Calls \ {s} : pc'[q] = pc[q] \/ pc'[q] = "ok"
    BY <1>1, Zenon DEF Moves, Others
  <2>4. \A k \in Closes : pc'[k] \in Idle
    BY <2>2, <2>3, Zenon DEF Calls, Idle, Returned
  <2>5. \A k \in Closes : pc'[k] \notin InLock \cup {"queueing"}
    BY <2>4 DEF InLock, Holding, Idle, Returned
  <2>6. \A r \in Starts : pc'[r] = "queueing" \/ pc'[r] \notin Way
    BY <2>1, <2>2, <2>3, OutOfWay, Zenon DEF AloneAt, Calls
  <2>7. \A r \in Starts : pc'[r] \notin {"connecting", "pinging", "connected", "announce", "spawn"}
    BY <2>6 DEF Way, Holding
  <2> QED
    BY <2>1, <2>2, <2>5, <2>7, Zenon DEF Signalled
<1>5. CASE Inner(s)
  <2>1. closing' = closing /\ stop' = stop /\ state' = state /\ pc[s] # "locking"
    BY <1>5, InnerMoves, Zenon DEF Alone
  <2>2. pc[s] \in Way
    BY <1>5, <2>1, InnerMoves, Zenon DEF Way, Holding
  <2>3. LateStart(s)'
    BY <1>5, <2>1, InnerMoves, Zenon DEF LateStart, Signalled
  <2> QED
    BY <1>1, <2>1, <2>2, <2>3, SignalledCall, Zenon
<1>6. CASE StartAnnounce(s)
  <2>1. /\ closing' = closing /\ stop' = stop /\ state' = "Connected"
        /\ pc[s] = "announce" /\ pc'[s] = "spawn"
    BY <1>6, StartWhere, Zenon DEF StartAnnounce, flagVars
  <2>2. pc[s] \in Way
    BY <2>1, Zenon DEF Way, Holding
  <2>3. LateStart(s)'
    BY <2>1, Zenon DEF LateStart, Signalled
  <2> QED
    BY <1>1, <2>1, <2>2, <2>3, SignalledCall, Zenon
<1>7. CASE StartSpawn(s) \/ StartStopped(s) \/ StartFail(s)
  <2>1. /\ closing' = closing /\ stop' = stop /\ state' \in {state, "Disconnected"}
        /\ pc'[s] \in {"ok", "err"}
    BY <1>7, StartWhere, Zenon DEF StartSpawn, StartStopped, StartFail, flagVars
  <2>3. LateStart(s)'
    BY <2>1, Zenon DEF LateStart
  <2> QED
    BY <1>1, <2>1, <2>3, OutOfWay, SignalledCall, Zenon
<1>8. CASE ShutdownAct(s)
  <2>1. /\ closing' = closing /\ stop' = stop /\ state' \in {state, "Disconnected"}
        /\ pc'[s] \in {"taking", "shutting", "finish", "notify", "ok", "err"}
        /\ pc[s] \in {"shutdown", "taking", "shutting", "finish", "notify"}
    BY <1>8, ShutdownFrame, Zenon
  <2>2. pc[s] \in Way
    BY <2>1, Zenon DEF Way, Holding
  <2>3. LateStart(s)'
    BY <2>1, Zenon DEF LateStart
  <2> QED
    BY <1>1, <2>1, <2>2, <2>3, SignalledCall, Zenon
<1> QED
  BY <1>2, <1>3, <1>4, <1>5, <1>6, <1>7, <1>8, StartSteps, Zenon

\* close() raises both before it queues.
LEMMA SignalledCloses ==
    ASSUME Typed, Signalled, ~config.parallel, NEW k \in Closes, CloseAct(k)
    PROVE  Signalled'
<1> k \in Calls /\ k \notin Starts
  BY LifecycleAssumption, Zenon DEF Calls
<1>1. Moves(k)
  BY CloseMoves, Zenon
<1>2. CASE CloseRead(k) \/ CloseRegister(k) \/ CloseMark(k)
  <2>1. /\ pc'[k] \in {"ok", "registering", "marking", "waiting", "signaling"} /\ pc[k] # "signaling"
        /\ closing' = closing /\ stop' = stop
        /\ state' = state \/ pc'[k] = "signaling"
    BY <1>2, CloseWhere, Zenon DEF CloseRead, CloseRegister, CloseMark, flagVars
  <2>2. pc'[k] \notin InLock \cup {"queueing"}
    BY <2>1 DEF InLock, Holding
  <2> QED
    BY <1>1, <2>1, <2>2, SignalledCall, Zenon
<1>3. CASE CloseSignal(k)
  <2>1. \A s \in Starts : s \in Calls \ {k}
    BY Zenon DEF Calls
  <2>2. \A s \in Starts : pc[s] \in CallAwaits /\ (pc'[s] = pc[s] \/ pc'[s] = "ok")
    BY <1>1, <2>1, Zenon DEF Moves, Others, CallTurn
  <2>3. \A s \in Starts : pc'[s] \notin {"announce", "spawn"}
    BY <2>2, AwaitFacts, Zenon
  <2>4. closing'
    BY <1>3, Zenon DEF CloseSignal
  <2> QED
    BY <2>3, <2>4, Zenon DEF Signalled
<1>4. CASE Lock(k) \/ CloseLocked(k)
  <2>1. /\ pc[k] \in {"queueing", "locked", "locking"}
        /\ closing' = closing /\ stop' = stop /\ state' = state
    BY <1>4, CloseWhere, LockWhere, Zenon DEF Lock, CloseLocked, flagVars
  <2>2. pc[k] \in InLock \cup {"queueing"}
    BY <2>1, Zenon DEF InLock, Holding
  <2> QED
    BY <1>1, <2>1, <2>2, SignalledCall, Zenon
<1>5. CASE ShutdownAct(k)
  <2>1. /\ closing' = closing /\ stop' = stop /\ state' \in {state, "Disconnected"}
        /\ pc[k] \in {"shutdown", "taking", "shutting", "finish", "notify"}
    BY <1>5, ShutdownFrame, Zenon
  <2>2. pc[k] \in InLock \cup {"queueing"}
    BY <2>1, Zenon DEF InLock, Holding
  <2> QED
    BY <1>1, <2>1, <2>2, SignalledCall, Zenon
<1> QED
  BY <1>2, <1>3, <1>4, <1>5, CloseSteps, Zenon

\* A supervisor leaves them alone.
LEMMA SignalledTasks ==
    ASSUME Typed, Signalled, NEW t \in Starts, TaskAct(t)
    PROVE  Signalled'
<1>1. closing' = closing /\ stop' = stop /\ pc' = pc
  BY SupervisorMoves, Zenon DEF TaskMoves, callVars
<1>2. state' \in {state, "Disconnected", "Reconnecting", "Connected"}
  BY Zenon DEF TaskAct, TaskStep, TaskAwaited, DropCanceled, SupStop, SupEvent, ReopenOk, ResumeSwap,
     ResumeOk, ResumeFails, SupGiveUp, SupClosed, SupTake, SupAborted, SupReconnect, SupExhausted, SupAnnounce,
     SupWake, DialOk, DialFails, SupRetry, DialPinged, SupRestored, SupReconnected
<1> QED
  BY <1>1, <1>2, Zenon DEF Signalled

-----------------------------------------------------------------------------
(* start() yields to close() *)

Yielding(s) ==
    /\ pc[s] \notin {"idle", "passed", "marked", "announce", "spawn", "ok"}
    /\ pc[s] \in Way => closing \/ \E k \in Closes : pc[k] \in {"marking", "signaling"}

\* A start() that close() found under way sees closing before it succeeds.
LEMMA YieldsStarts ==
    ASSUME Typed, Alone, Yields, ~config.parallel, NEW r \in Starts, StartAct(r)
    PROVE  Yields'
<1> r \in Calls /\ r \notin Closes
  BY LifecycleAssumption, Zenon DEF Calls
<1>1. Moves(r)
  BY StartMoves, Zenon
<1>2. doomed' = doomed
  BY HistoryFrame, Zenon
<1>3. \A k \in Closes : pc[k] \notin {"marking", "signaling"}
  BY <1>1, AwaitFacts, Zenon DEF Moves, CallTurn, Calls
<1>4. closing' = closing \/ StartReset(r)
  BY StartSteps, InnerMoves, ShutdownFrame, Zenon DEF StartCheck, StartMark, Lock, StartAnnounce,
     StartSpawn, StartStopped, StartFail, flagVars
<1>5. ASSUME NEW s \in doomed, s # r, s \in Starts PROVE Yielding(s)'
  <2>1. pc[s] # "waiting"
    BY <1>5 DEF Typed, StartPcs, Returned, Entering, InLock, Holding
  <2>2. pc'[s] = pc[s]
    BY <1>1, <1>5, <2>1, Zenon DEF Moves, Others, Calls
  <2>3. pc[s] \in Way => closing
    BY <1>3, <1>5, Zenon DEF Yields
  <2>4. CASE StartReset(r)
    <3>1. pc[r] \in Way
      BY <2>4, StartWhere, Zenon DEF Way, Entering
    <3>2. pc[s] \notin Way
      BY <1>5, <3>1, Zenon DEF Alone, AloneAt
    <3> QED
      BY <1>5, <2>2, <3>2, Zenon DEF Yields, Yielding
  <2>5. CASE closing' = closing
    BY <1>5, <2>2, <2>3, <2>5, Zenon DEF Yields, Yielding
  <2> QED
    BY <1>4, <2>4, <2>5, Zenon
<1>6. ASSUME r \in doomed PROVE Yielding(r)'
  <2>1. pc[r] \notin {"idle", "passed", "marked", "announce", "spawn", "ok"} /\ (pc[r] \in Way => closing)
    BY <1>3, <1>6, Zenon DEF Yields
  <2>2. closing' = closing
    BY <1>4, <2>1, StartWhere, Zenon
  <2>3. CASE Lock(r)
    <3>1. pc[r] \in Way /\ pc'[r] \in {"locked", "locking"}
      BY <2>3, LockWhere, Zenon DEF Way, Entering
    <3> QED
      BY <2>1, <2>2, <3>1, Zenon DEF Yielding
  <2>4. CASE Inner(r)
    <3>1. pc[r] \in Way
      BY <2>4, InnerMoves, Zenon DEF Alone, Way, Holding
    <3>2. pc'[r] \in {"stopped", "subscribing", "failing", "connecting", "pinging", "connected", "shutdown"}
      BY <2>1, <2>4, <3>1, InnerMoves, Zenon
    <3> QED
      BY <2>1, <2>2, <3>1, <3>2, Zenon DEF Yielding
  <2>5. CASE StartStopped(r) \/ StartFail(r)
    <3>1. pc'[r] = "err"
      BY <2>5, StartWhere, Zenon
    <3> QED
      BY <3>1, OutOfWay, Zenon DEF Yielding
  <2>6. CASE ShutdownAct(r)
    <3>1. /\ pc'[r] \in {"taking", "shutting", "finish", "notify", "err"}
          /\ pc[r] \in {"shutdown", "taking", "shutting", "finish", "notify"}
      BY <2>6, ShutdownFrame, Zenon
    <3>2. pc[r] \in Way
      BY <3>1, Zenon DEF Way, Holding
    <3> QED
      BY <2>1, <2>2, <3>1, <3>2, Zenon DEF Yielding
  <2> QED
    BY <2>1, <2>3, <2>4, <2>5, <2>6, StartSteps, StartWhere, Zenon
<1>7. doomed \subseteq Starts
  BY Zenon DEF Yields
<1> QED
  BY <1>2, <1>5, <1>6, <1>7, Zenon DEF Yields, Yielding

\* close() marks and signals after it has found a start() under way.
LEMMA YieldsCloses ==
    ASSUME Typed, Alone, Signalled, Yields, ~config.parallel, NEW k \in Closes, CloseAct(k)
    PROVE  Yields'
<1> k \in Calls /\ k \notin Starts
  BY LifecycleAssumption, Zenon DEF Calls
<1>1. Moves(k)
  BY CloseMoves, Zenon
<1>2. \A q \in Calls \ {k} : pc[q] \in CallAwaits
  BY <1>1, Zenon DEF Moves, CallTurn
<1>3. \A j \in Closes \ {k} : pc[j] \notin {"marking", "signaling"}
  BY <1>2, AwaitFacts, Zenon DEF Calls
<1>4. \A s \in Starts : pc'[s] = pc[s]
  <2> TAKE s \in Starts
  <2>1. pc[s] # "waiting"
    BY DEF Typed, StartPcs, Returned, Entering, InLock, Holding
  <2> QED
    BY <1>1, <2>1, Zenon DEF Moves, Others, Calls
<1>5. doomed \subseteq Starts
  BY Zenon DEF Yields
<1>6. CASE CloseRead(k)
  <2>1. /\ pc[k] = "idle" /\ closing' = closing
        /\ state \notin {"Disconnected", "Disconnecting"} => pc'[k] = "marking"
    BY <1>6, CloseWhere, Zenon DEF CloseRead, flagVars
  <2>2. ASSUME NEW s \in doomed PROVE s \in Starts /\ Yielding(s)'
    BY <1>3, <1>4, <1>5, <2>1, <2>2, Zenon DEF Yields, Yielding
  <2>3. ASSUME NEW s \in Starts,
               pc[s] \in {"marked", "queueing", "locking", "locked", "subscribing",
                          "connecting", "pinging", "connected", "failing"}
        PROVE  Yielding(s)'
    <3>1. pc[s] \in CallAwaits /\ pc[s] # "locking"
      BY <1>2, Zenon DEF Calls, Alone
    <3>2. pc[s] \in {"connecting", "pinging"}
      BY <2>3, <3>1, AwaitFacts, Zenon DEF Entering, CallAwaits, Returned
    <3>3. pc[s] \in Way
      BY <3>2, Zenon DEF Way, Holding
    <3>4. state \in {"Connecting", "Disconnecting"}
      BY <3>2, <3>3, Zenon DEF Alone, AloneAt
    <3>5. closing \/ pc'[k] = "marking"
      BY <1>3, <2>1, <3>4, Zenon DEF Signalled
    <3> QED
      BY <1>4, <2>1, <3>2, <3>5, Zenon DEF Yielding
  <2>4. doomed' = doomed \cup
          {s \in Starts : pc[s] \in {"marked", "queueing", "locking", "locked", "subscribing",
                                  "connecting", "pinging", "connected", "failing"}}
    BY <1>6, Zenon DEF CloseRead
  <2> QED
    BY <2>2, <2>3, <2>4, Zenon DEF Yields, Yielding
<1>7. CASE ~CloseRead(k)
  <2>1. doomed' = doomed
    BY <1>7, HistoryFrame, Zenon
  <2>2. \/ pc[k] = "marking" /\ pc'[k] = "signaling" /\ closing' = closing
        \/ closing'
        \/ pc[k] \notin {"marking", "signaling"} /\ closing' = closing
    <3>1. CASE CloseRegister(k) \/ CloseMark(k) \/ CloseSignal(k) \/ Lock(k) \/ CloseLocked(k)
      BY <3>1, CloseWhere, LockWhere, Zenon DEF CloseRegister, CloseMark, CloseSignal, Lock, CloseLocked,
         flagVars
    <3>2. CASE ShutdownAct(k)
      BY <3>2, ShutdownFrame, Zenon
    <3> QED
      BY <1>7, <3>1, <3>2, CloseSteps, Zenon
  <2>3. ASSUME NEW s \in doomed PROVE s \in Starts /\ Yielding(s)'
    <3>1. s \in Starts /\ Yielding(s)
      BY <2>3, Zenon DEF Yields, Yielding
    <3>2. pc'[s] = pc[s]
      BY <1>4, <3>1, Zenon
    <3>3. CASE pc[k] = "marking" /\ pc'[k] = "signaling" /\ closing' = closing
      BY <3>1, <3>2, <3>3, Zenon DEF Yielding
    <3>4. CASE closing'
      BY <3>1, <3>2, <3>4, Zenon DEF Yielding
    <3>5. CASE pc[k] \notin {"marking", "signaling"} /\ closing' = closing
      <4>1. \A j \in Closes : pc[j] \notin {"marking", "signaling"}
        BY <1>3, <3>5, Zenon
      <4> QED
        BY <3>1, <3>2, <3>5, <4>1, Zenon DEF Yielding
    <3> QED
      BY <2>2, <3>3, <3>4, <3>5, Zenon
  <2> QED
    BY <2>1, <2>3, Zenon DEF Yields, Yielding
<1> QED
  BY <1>6, <1>7, Zenon

\* A supervisor has no part in it.
LEMMA YieldsTasks ==
    ASSUME Typed, Yields, NEW t \in Starts, TaskAct(t)
    PROVE  Yields'
<1>1. closing' = closing /\ pc' = pc /\ doomed' = doomed
  BY SupervisorMoves, Zenon DEF TaskMoves, callVars, historyVars
<1> QED
  BY <1>1, Zenon DEF Yields

-----------------------------------------------------------------------------
(* The supervisor and the state *)

\* While start() works no supervisor does, until it spawns one.
LEMMA StartsNone ==
    ASSUME Typed, Owner, Alone, ~config.parallel, NEW s \in Starts, StartAct(s), pc[s] \in Way
    PROVE  \A t \in Starts : task'[t] \in Over \/ (t = s /\ StartSpawn(s) /\ task'[t] = "watch")
<1> s \in Calls
  BY Zenon DEF Calls
<1>1. \A t \in Starts : task[t] \in Over
  BY Zenon DEF Alone, AloneAt
<1>2. CASE UNCHANGED <<taskVars, supervisor>>
  BY <1>1, <1>2, Zenon DEF taskVars
<1>3. CASE ShutdownAbort(s)
  BY <1>3, Replaced, Zenon
<1>4. CASE StartSpawn(s)
  BY <1>1, <1>4, Zenon DEF StartSpawn, Over
<1> QED
  BY <1>2, <1>3, <1>4, HolderOnly, Zenon

\* A start() that is not on its way can only begin.
LEMMA StartsBegin ==
    ASSUME Typed, Alone, NEW s \in Starts, StartAct(s), pc[s] \notin Way
    PROVE  StartCheck(s)
<1>1. pc[s] \in StartPcs /\ pc[s] # "locking"
  BY Zenon DEF Typed, Alone
<1>2. pc[s] \in Returned \cup {"idle"}
  BY <1>1, Zenon DEF StartPcs, Way, InLock
<1> QED
  BY <1>2, FromRest, Zenon

Undisturbed(t) ==
    /\ \A p \in Calls : pc[p] \in InLock => p \in Closes /\ pc[p] \in {"locked", "shutdown"}
    /\ \/ ~closing /\ ~stop /\ state = StateOf(task[t])
       \/ \E k \in Closes : pc[k] \in {"signaling", "queueing", "locked", "shutdown"}

\* start() spawns a supervisor only when no close() waits.
LEMMA WatchedStarts ==
    ASSUME Typed, Owner, Alone, Signalled, Watched, ~config.parallel, NEW s \in Starts, StartAct(s)
    PROVE  Watched'
<1> s \in Calls /\ s \notin Closes
  BY LifecycleAssumption, Zenon DEF Calls
<1>1. Moves(s)
  BY StartMoves, Zenon
<1>2. \A q \in Calls \ {s} : pc[q] \in CallAwaits /\ (pc'[q] = pc[q] \/ pc'[q] = "ok")
  BY <1>1, Zenon DEF Moves, Others, CallTurn
<1>3. CASE pc[s] \notin Way
  <2>1. StartCheck(s)
    BY <1>3, StartsBegin, Zenon
  <2>2. /\ task' = task /\ state' = state /\ closing' = closing /\ stop' = stop
        /\ pc'[s] \in {"passed", "refused"}
    BY <2>1, StartWhere, Zenon DEF StartCheck, taskVars, flagVars
  <2>3. \A k \in Closes : pc[k] \notin {"signaling", "queueing", "locked", "shutdown"}
    <3> TAKE k \in Closes
    <3>1. pc[k] \in CallAwaits
      BY <1>2, Zenon DEF Calls
    <3> QED
      BY <3>1 DEF CallAwaits, Returned
  <2>4. \A p \in Calls : pc'[p] \in InLock => pc[p] \in InLock /\ pc'[p] = pc[p]
    <3> TAKE p \in Calls
    <3>1. CASE p = s
      BY <2>2, <3>1 DEF InLock, Holding
    <3>2. CASE p # s
      <4>1. pc'[p] = pc[p] \/ pc'[p] = "ok"
        BY <1>2, <3>2, Zenon
      <4> QED
        BY <4>1, OutOfWay, Zenon
    <3> QED
      BY <3>1, <3>2, Zenon
  <2> QED
    BY <2>2, <2>3, <2>4, Zenon DEF Watched
<1>4. CASE pc[s] \in Way
  <2>1. CASE StartSpawn(s)
    <3>1. /\ pc[s] = "spawn" /\ pc'[s] = "ok"
          /\ closing' = closing /\ stop' = stop /\ state' = state
      BY <2>1, StartWhere, Zenon DEF StartSpawn, flagVars
    <3>2. ~closing /\ ~stop /\ state = "Connected"
      BY <1>4, <3>1, Zenon DEF Signalled, Alone, AloneAt
    <3>3. \A p \in Calls : pc'[p] \notin InLock
      <4> TAKE p \in Calls
      <4>1. CASE p = s
        BY <3>1, <4>1, OutOfWay, Zenon
      <4>2. CASE p # s /\ p \in Starts
        <5>1. pc[p] \notin Way /\ pc[p] # "locking"
          BY <1>4, <4>2, Zenon DEF Alone, AloneAt
        <5>2. pc[p] \notin InLock
          BY <5>1, Zenon DEF Way, InLock
        <5>3. pc'[p] = pc[p] \/ pc'[p] = "ok"
          BY <1>2, <4>2, Zenon
        <5> QED
          BY <5>2, <5>3, OutOfWay, Zenon
      <4>3. CASE p \in Closes
        <5>1. pc[p] \notin InLock
          BY <1>4, <3>2, <4>3, Zenon DEF Signalled
        <5>2. pc'[p] = pc[p] \/ pc'[p] = "ok"
          BY <1>2, <4>3, Zenon
        <5> QED
          BY <5>1, <5>2, OutOfWay, Zenon
      <4> QED
        BY <4>1, <4>2, <4>3, Zenon DEF Calls
    <3>4. \A t \in Starts : task'[t] \notin Over => task'[t] = "watch"
      BY <1>4, StartsNone, Zenon
    <3>5. StateOf("watch") = "Connected"
      BY DEF StateOf, Asleep
    <3> QED
      BY <3>1, <3>2, <3>3, <3>4, <3>5, Zenon DEF Watched
  <2>2. CASE ~StartSpawn(s)
    BY <1>4, <2>2, StartsNone, Zenon DEF Watched
  <2> QED
    BY <2>1, <2>2, Zenon
<1> QED
  BY <1>3, <1>4, Zenon

\* close() reaches the supervisor without a wait.
LEMMA WatchedCloses ==
    ASSUME Typed, Lined, Owner, Watched, ~config.parallel, NEW k \in Closes, CloseAct(k)
    PROVE  Watched'
<1> k \in Calls /\ k \notin Starts
  BY LifecycleAssumption, Zenon DEF Calls
<1>1. Moves(k)
  BY CloseMoves, Zenon
<1>2. \A q \in Calls \ {k} : pc[q] \in CallAwaits /\ (pc'[q] = pc[q] \/ pc'[q] = "ok")
  BY <1>1, Zenon DEF Moves, Others, CallTurn
<1>3. \A j \in Closes \ {k} : pc[j] \notin {"signaling", "queueing", "locked", "shutdown"}
  <2> TAKE j \in Closes \ {k}
  <2>1. pc[j] \in CallAwaits
    BY <1>2, Zenon DEF Calls
  <2> QED
    BY <2>1 DEF CallAwaits, Returned
<1>4. CASE \A t \in Starts : task[t] \in Over
  <2>1. CASE UNCHANGED <<taskVars, supervisor>>
    BY <1>4, <2>1, Zenon DEF taskVars, Watched
  <2>2. CASE ShutdownAbort(k)
    BY <2>2, Replaced, Zenon DEF Watched
  <2> QED
    BY <2>1, <2>2, HolderOnly, Zenon
<1>5. ASSUME NEW t \in Starts, task[t] \notin Over PROVE Watched'
  <2>1. Undisturbed(t)
    BY <1>5, Zenon DEF Watched, Undisturbed
  <2>2. \A q \in Calls \ {k} : pc[q] \notin InLock
    <3> TAKE q \in Calls \ {k}
    <3>1. pc[q] \in CallAwaits
      BY <1>2, Zenon
    <3>2. pc[q] \notin {"locked", "shutdown"}
      BY <3>1, AwaitFacts, Zenon
    <3> QED
      BY <2>1, <3>2, Zenon DEF Undisturbed
  <2>3. \A q \in Calls \ {k} : pc'[q] \notin InLock
    BY <1>2, <2>2, OutOfWay, Zenon
  <2>4. CASE ShutdownAbort(k)
    BY <2>4, Replaced, Zenon DEF Watched
  <2>5. ~(ShutdownAct(k) /\ ~ShutdownAbort(k))
    <3>1. CASE ShutdownTake(k) \/ ShutdownOk(k) \/ ShutdownErr(k) \/ ShutdownFinish(k) \/ ShutdownNotify(k)
      <4>1. pc[k] \in {"taking", "shutting", "finish", "notify"}
        BY <3>1, Zenon DEF ShutdownTake, ShutdownOk, ShutdownErr, ShutdownFinish, ShutdownNotify, At
      <4>2. pc[k] \in InLock
        BY <4>1, Zenon DEF InLock, Holding
      <4> QED
        BY <2>1, <4>1, <4>2, Zenon DEF Undisturbed
    <3> QED
      BY <3>1, Zenon DEF Shutdown, ShutdownAct
  <2>6. CASE CloseRead(k) \/ CloseRegister(k)
    <3>1. /\ pc[k] \in {"idle", "registering"} /\ pc'[k] \in {"ok", "registering", "marking", "waiting"}
          /\ task' = task /\ state' = state /\ closing' = closing /\ stop' = stop
      BY <2>6, CloseWhere, Zenon DEF CloseRead, CloseRegister, taskVars, flagVars
    <3>2. pc'[k] \notin InLock
      BY <3>1 DEF InLock, Holding
    <3>3. \A j \in Closes : pc[j] \notin {"signaling", "queueing", "locked", "shutdown"}
      BY <1>3, <3>1, Zenon
    <3> QED
      BY <2>3, <3>1, <3>2, <3>3, Zenon DEF Watched
  <2>7. CASE CloseMark(k) \/ CloseSignal(k) \/ Lock(k) \/ CloseLocked(k)
    <3>1. Lock(k) => connect = <<>>
      <4>1. Lock(k) => pc[k] = "queueing"
        BY LockWhere, Zenon
      <4>2. Lock(k) => pc[k] \notin InLock
        BY <4>1 DEF InLock, Holding
      <4> QED
        BY <2>2, <4>2, NobodyWaits, Zenon
    <3>2. pc'[k] \in {"signaling", "queueing", "locked", "shutdown"}
      BY <2>7, <3>1, CloseWhere, LockWhere, Zenon
    <3>3. pc'[k] \in InLock => pc'[k] \in {"locked", "shutdown"}
      BY <3>2 DEF InLock, Holding
    <3> QED
      BY <2>3, <3>2, <3>3, Zenon DEF Watched
  <2> QED
    BY <2>4, <2>5, <2>6, <2>7, CloseSteps, Zenon
<1> QED
  BY <1>4, <1>5, Zenon

\* Where a supervisor's step leads, and what it reports.
LEMMA TaskPaths ==
    ASSUME Typed, NEW t \in Starts, TaskAct(t), ~closing, ~stop, state = StateOf(task[t])
    PROVE  \/ task[t] # "closed" /\ task'[t] = "ended" /\ UNCHANGED <<state, appVars>>
           \/ /\ task[t] \in {"watch", "reopening", "swap", "resending"}
              /\ task'[t] \in {"watch", "reopening", "swap", "resending", "cancel"}
              /\ UNCHANGED <<state, appVars>>
           \/ /\ task[t] \in {"cancel", "aborting"} /\ task'[t] \in {"aborting", "delay"}
              /\ UNCHANGED <<state, appVars>>
           \/ task[t] # "closed" /\ task'[t] = "closed" /\ state' = "Disconnected" /\ UNCHANGED appVars
           \/ task[t] = "closed" /\ task'[t] = "ended" /\ UNCHANGED state /\ InvokeClosed
           \/ task[t] = "delay" /\ task'[t] = "announce" /\ state' = "Reconnecting" /\ UNCHANGED appVars
           \/ /\ task[t] = "announce" /\ task'[t] = "sleep" /\ told' = "reconnecting"
              /\ UNCHANGED <<state, started, opened, ended>>
           \/ /\ task[t] \in {"sleep", "dialing", "pinging", "failed"}
              /\ task'[t] \in {"sleep", "dialing", "pinging", "failed", "restored"}
              /\ UNCHANGED <<state, appVars>>
           \/ /\ task[t] = "restored" /\ task'[t] = "reconnected" /\ state' = "Connected"
              /\ UNCHANGED appVars
           \/ /\ task[t] = "reconnected" /\ task'[t] = "watch" /\ told' = "up"
              /\ UNCHANGED <<state, started, opened, ended>>
<1>0. \A w \in TaskAwaits \cup {"delay", "closed", "announce", "failed", "restored", "reconnected"} : w \in TaskPcs
  BY Zenon DEF TaskPcs
<1>1. /\ "ended" \in TaskPcs /\ "watch" \in TaskPcs /\ "reopening" \in TaskPcs /\ "swap" \in TaskPcs
      /\ "resending" \in TaskPcs /\ "cancel" \in TaskPcs /\ "delay" \in TaskPcs /\ "closed" \in TaskPcs
      /\ "aborting" \in TaskPcs /\ "announce" \in TaskPcs /\ "sleep" \in TaskPcs /\ "dialing" \in TaskPcs /\ "pinging" \in TaskPcs
      /\ "failed" \in TaskPcs /\ "restored" \in TaskPcs /\ "reconnected" \in TaskPcs
  BY <1>0, Zenon DEF TaskAwaits
<1>2. CASE DropCanceled(t)
  BY <1>1, <1>2, TaskGoFacts, Zenon DEF DropCanceled, TaskAt
<1>3. CASE SupStop(t)
  <2>1. TaskGo(t, "ended") \/ TaskGo(t, "watch")
    BY <1>3, Zenon DEF SupStop
  <2>2. task'[t] = "ended" \/ task'[t] = "watch"
    BY <1>1, <2>1, TaskGoFacts, Zenon
  <2> QED
    BY <1>3, <2>2, Zenon DEF SupStop, TaskAt
<1>4. CASE SupEvent(t)
  <2>1. TaskGo(t, "ended") \/ TaskGo(t, "reopening") \/ TaskGo(t, "cancel")
    BY <1>4, Zenon DEF SupEvent
  <2>2. task'[t] = "ended" \/ task'[t] \in {"reopening", "cancel"}
    BY <1>1, <2>1, TaskGoFacts, Zenon
  <2> QED
    BY <1>4, <2>2, Zenon DEF SupEvent, TaskAt
<1>5. CASE ReopenOk(t) \/ ResumeSwap(t) \/ ResumeOk(t) \/ ResumeFails(t)
  <2>1. task'[t] \in {"swap", "resending", "watch", "cancel"}
    BY <1>1, <1>5, TaskGoFacts, Zenon DEF ReopenOk, ResumeSwap, ResumeOk, ResumeFails
  <2> QED
    BY <1>5, <2>1, Zenon DEF ReopenOk, ResumeSwap, ResumeOk, ResumeFails, TaskAt
<1>6. CASE SupGiveUp(t) \/ SupExhausted(t)
  BY <1>1, <1>6, TaskGoFacts, Zenon DEF SupGiveUp, SupExhausted, TaskAt
<1>7. CASE SupClosed(t)
  BY <1>1, <1>7, TaskGoFacts, Zenon DEF SupClosed, TaskAt
<1>8. CASE SupAborted(t) \/ SupReconnect(t)
  BY <1>1, <1>8, TaskGoFacts, Zenon DEF SupAborted, SupReconnect, TaskAt
<1>13. CASE SupTake(t)
  <2>1. TaskGo(t, "delay") \/ TaskGo(t, "aborting")
    BY <1>13, Zenon DEF SupTake
  <2>2. task'[t] = "delay" \/ task'[t] = "aborting"
    BY <1>1, <2>1, TaskGoFacts, Zenon
  <2> QED
    BY <1>13, <2>2, Zenon DEF SupTake, TaskAt
<1>9. CASE SupAnnounce(t)
  <2>1. state = "Reconnecting"
    BY <1>9, Zenon DEF SupAnnounce, TaskAt, StateOf, Asleep
  <2>2. TaskGo(t, "sleep")
    BY <1>9, <2>1, Zenon DEF SupAnnounce
  <2> QED
    BY <1>1, <1>9, <2>2, TaskGoFacts, Zenon DEF SupAnnounce, TaskAt
<1>10. CASE SupWake(t)
  <2>1. state = "Reconnecting"
    BY <1>10, Zenon DEF SupWake, TaskAt, StateOf, Asleep
  <2>2. TaskGo(t, "dialing")
    BY <1>10, <2>1, Zenon DEF SupWake
  <2> QED
    BY <1>1, <1>10, <2>2, TaskGoFacts, Zenon DEF SupWake, TaskAt
<1>11. CASE DialOk(t) \/ DialFails(t) \/ SupRetry(t) \/ DialPinged(t)
  <2>1. task'[t] \in {"pinging", "failed", "sleep", "restored"}
    BY <1>1, <1>11, TaskGoFacts, Zenon DEF DialOk, DialFails, SupRetry, DialPinged
  <2> QED
    BY <1>11, <2>1, Zenon DEF DialOk, DialFails, SupRetry, DialPinged, TaskAt
<1>12. CASE SupRestored(t) \/ SupReconnected(t)
  BY <1>1, <1>12, TaskGoFacts, Zenon DEF SupRestored, SupReconnected, TaskAt
<1> QED
  BY <1>2, <1>3, <1>4, <1>5, <1>6, <1>7, <1>8, <1>9, <1>10, <1>11, <1>12, <1>13, ZenonT(30)
     DEF TaskAct, TaskStep, TaskAwaited

\* A supervisor that gets its turn is not being closed.
LEMMA TaskAlone ==
    ASSUME Watched, ~config.parallel, NEW t \in Starts, TaskTurn(t), task[t] \notin Over
    PROVE  ~closing /\ ~stop /\ state = StateOf(task[t])
<1>1. \A k \in Closes : pc[k] \in CallAwaits
  BY Zenon DEF TaskTurn, Calls
<1>2. \A k \in Closes : pc[k] \notin {"signaling", "queueing", "locked", "shutdown"}
  BY <1>1 DEF CallAwaits, Returned
<1> QED
  BY <1>2, Zenon DEF Watched

\* A supervisor keeps the state in step with where it is.
LEMMA WatchedTasks ==
    ASSUME Typed, Owner, Watched, ~config.parallel, NEW t \in Starts, TaskAct(t)
    PROVE  Watched'
<1>1. TaskMoves(t)
  BY SupervisorMoves, Zenon
<1>2. /\ TaskTurn(t) /\ pc' = pc /\ closing' = closing /\ stop' = stop
      /\ \A u \in Starts \ {t} : task'[u] = task[u]
  BY <1>1, Zenon DEF TaskMoves, callVars
<1>3. CASE task[t] \in Over
  <2>1. task'[t] = "ended" /\ state' = state
    BY <1>1, <1>3, Zenon DEF TaskMoves
  <2>2. \A u \in Starts : task'[u] \notin Over => task'[u] = task[u]
    BY <1>2, <2>1, Zenon DEF Over
  <2> QED
    BY <1>2, <2>1, <2>2, Zenon DEF Watched
<1>4. CASE task[t] \notin Over
  <2>1. ~closing /\ ~stop /\ state = StateOf(task[t])
    BY <1>2, <1>4, TaskAlone, Zenon
  <2>2. \A u \in Starts \ {t} : task'[u] \in Over
    BY <1>2, <1>4, Zenon DEF Owner
  <2>3. task'[t] \in Over \/ state' = StateOf(task'[t])
    BY <2>1, TaskPaths DEF StateOf, Asleep, Over
  <2> QED
    BY <1>2, <1>4, <2>1, <2>2, <2>3, Zenon DEF Watched
<1> QED
  BY <1>3, <1>4, Zenon

-----------------------------------------------------------------------------
(* What the application is told *)

Reporting == Reports!Next \/ UNCHANGED <<told, opened, ended>>

\* invoke_closed() reports the end of a connection that was reported up.
LEMMA ClosedReport ==
    ASSUME Telling, InvokeClosed
    PROVE  started' = FALSE /\ told' = "closed" /\ Reporting
<1>1. started' = FALSE /\ opened' = opened
  BY Zenon DEF InvokeClosed
<1>2. CASE started
  <2>1. told \in {"up", "reconnecting"} /\ told' = "closed" /\ ended' = ended + 1
    BY <1>2, Zenon DEF Telling, InvokeClosed
  <2> QED
    BY <1>1, <2>1, Zenon DEF Reporting, Reports!Next, Reports!Closed
<1>3. CASE ~started
  BY <1>1, <1>3, Zenon DEF Telling, InvokeClosed, Reporting
<1> QED
  BY <1>2, <1>3, Zenon

\* Nothing is wrong while the connection is reported closed.
LEMMA ToldClosed ==
    ASSUME started' = FALSE, told' = "closed",
           \A s \in Starts : pc'[s] # "spawn",
           \A t \in Starts : task'[t] \in Over
    PROVE  Telling'
<1>1. \A t \in Starts : task'[t] \notin TellsUp /\ task'[t] \notin TellsDown
  BY DEF Over, TellsUp, TellsDown
<1> QED
  BY <1>1, Zenon DEF Telling

\* The steps of start(): it succeeds after a reported end only.
LEMMA TellingStarts ==
    ASSUME Typed, Owner, Alone, Telling, ~config.parallel, NEW s \in Starts, StartAct(s)
    PROVE  Telling' /\ Reporting
<1> s \in Calls /\ s \notin Closes
  BY LifecycleAssumption, Zenon DEF Calls
<1>1. Moves(s)
  BY StartMoves, Zenon
<1>2. \A q \in Calls \ {s} : pc[q] \in CallAwaits /\ (pc'[q] = pc[q] \/ pc'[q] = "ok")
  BY <1>1, Zenon DEF Moves, Others, CallTurn
<1>3. \A t \in Starts : task[t] \in TaskAwaits
  BY <1>1, Zenon DEF Moves, CallTurn
<1>4. CASE pc[s] \notin Way
  <2>1. StartCheck(s)
    BY <1>4, StartsBegin, Zenon
  <2>2. /\ task' = task /\ state' = state /\ UNCHANGED appVars /\ pc[s] = "idle"
        /\ pc'[s] = "refused" \/ (pc'[s] = "passed" /\ state = "Disconnected")
    BY <2>1, StartWhere, Zenon DEF StartCheck, taskVars
  <2>3. state = "Disconnected" => ~started
    <3>1. \A t \in Starts : task[t] # "closed"
      BY <1>3 DEF TaskAwaits
    <3>2. \A p \in Calls : pc[p] # "notify"
      BY <1>2, <2>2, AwaitFacts, Zenon
    <3> QED
      BY <3>1, <3>2, Zenon DEF Telling
  <2>4. \A r \in Starts : \/ r # s /\ pc'[r] = pc[r]
                          \/ pc'[r] \in {"ok", "refused"}
                          \/ pc'[r] = "passed" /\ ~started
    BY <1>2, <2>2, <2>3, Zenon DEF Calls
  <2>5. \A r \in Starts : (pc'[r] \in Way \ {"spawn"} => ~started) /\ (pc'[r] = "spawn" => told = "up")
    BY <2>4, OutOfWay, Zenon DEF Telling
  <2>6. /\ started' = started /\ told' = told /\ opened' = opened /\ ended' = ended
    BY <2>2, Zenon DEF appVars
  <2> QED
    BY <2>2, <2>3, <2>5, <2>6, Zenon DEF Telling, Reporting
<1>5. CASE pc[s] \in Way
  <2>1. \A r \in Starts \ {s} : pc'[r] \notin Way
    <3> TAKE r \in Starts \ {s}
    <3>1. pc[r] \notin Way
      BY <1>5, Zenon DEF Alone, AloneAt
    <3>2. pc'[r] = pc[r] \/ pc'[r] = "ok"
      BY <1>2, Zenon DEF Calls
    <3> QED
      BY <3>1, <3>2, OutOfWay, Zenon
  <2>2. \A r \in Starts \ {s} : pc'[r] # "spawn"
    BY <2>1 DEF Way, Holding
  <2>3. CASE StartAnnounce(s)
    <3>1. /\ pc[s] = "announce" /\ pc'[s] = "spawn" /\ state' = "Connected" /\ started' = TRUE
          /\ told' = "up" /\ opened' = opened + 1 /\ ended' = ended
      BY <2>3, StartWhere, Zenon DEF StartAnnounce
    <3>2. told = "closed"
      BY <1>5, <3>1, Zenon DEF Telling
    <3>3. \A t \in Starts : task'[t] \notin TellsDown
      <4>1. \A t \in Starts : task'[t] \in Over
        BY <1>5, <3>1, StartsNone, StartWhere, Zenon
      <4> QED
        BY <4>1 DEF Over, TellsDown
    <3> QED
      BY <2>1, <3>1, <3>2, <3>3, Zenon DEF Telling, Reporting, Reports!Next, Reports!Started
  <2>4. CASE StartSpawn(s)
    <3>1. /\ pc[s] = "spawn" /\ pc'[s] = "ok" /\ state' = state /\ started' = started
          /\ told' = told /\ opened' = opened /\ ended' = ended
      BY <2>4, StartWhere, Zenon DEF StartSpawn, appVars
    <3>2. told = "up" /\ state = "Connected"
      BY <1>5, <3>1, Zenon DEF Telling, Alone, AloneAt
    <3>3. \A t \in Starts : task'[t] \notin TellsDown
      <4>1. \A t \in Starts : task'[t] \in Over \/ task'[t] = "watch"
        BY <1>5, StartsNone, Zenon
      <4> QED
        BY <4>1 DEF Over, TellsDown
    <3>4. pc'[s] \notin Way
      BY <3>1, OutOfWay, Zenon
    <3> QED
      BY <2>1, <2>2, <3>1, <3>2, <3>3, <3>4, Zenon DEF Telling, Reporting
  <2>5. CASE ~StartAnnounce(s) /\ ~StartSpawn(s)
    <3>1. \A t \in Starts : task'[t] \in Over
      BY <1>5, <2>5, StartsNone, Zenon
    <3>2. pc[s] # "spawn" /\ pc'[s] # "spawn" /\ (UNCHANGED appVars \/ InvokeClosed)
      <4>1. CASE StartMark(s) \/ StartReset(s) \/ StartStopped(s) \/ StartFail(s)
        BY <4>1, StartWhere, Zenon DEF StartMark, StartReset, StartStopped, StartFail
      <4>2. CASE Lock(s)
        BY <4>2, LockWhere, Zenon DEF Lock
      <4>3. CASE Inner(s)
        BY <4>3, InnerMoves, Zenon
      <4>4. CASE ShutdownAct(s)
        BY <4>4, ShutdownFrame, Zenon
      <4>5. ~StartCheck(s)
        BY <1>5, StartWhere, OutOfWay, Zenon
      <4> QED
        BY <2>5, <4>1, <4>2, <4>3, <4>4, <4>5, StartSteps, Zenon
    <3>3. ~started /\ started \in BOOLEAN /\ told = "closed"
      BY <1>5, <3>2, Zenon DEF Telling
    <3>4. started' = FALSE /\ told' = "closed" /\ Reporting
      <4>1. CASE UNCHANGED appVars
        BY <3>3, <4>1, Zenon DEF appVars, Reporting
      <4>2. CASE InvokeClosed
        BY <4>2, ClosedReport, Zenon
      <4> QED
        BY <3>2, <4>1, <4>2, Zenon
    <3> QED
      BY <2>2, <3>1, <3>2, <3>4, ToldClosed, Zenon
  <2> QED
    BY <2>3, <2>4, <2>5, Zenon
<1> QED
  BY <1>4, <1>5, Zenon

\* The steps of close(): on_close is called when no supervisor is left.
LEMMA TellingCloses ==
    ASSUME Typed, Owner, Shut, Telling, ~config.parallel, NEW k \in Closes, CloseAct(k)
    PROVE  Telling' /\ Reporting
<1> k \in Calls /\ k \notin Starts
  BY LifecycleAssumption, Zenon DEF Calls
<1>1. Moves(k)
  BY CloseMoves, Zenon
<1>2. \A q \in Calls \ {k} : pc[q] \in CallAwaits
  BY <1>1, Zenon DEF Moves, CallTurn
<1>3. \A t \in Starts : task[t] # "closed"
  <2>1. \A t \in Starts : task[t] \in TaskAwaits
    BY <1>1, Zenon DEF Moves, CallTurn
  <2> QED
    BY <2>1 DEF TaskAwaits
<1>4. \A s \in Starts : pc'[s] = pc[s] /\ pc[s] # "spawn"
  <2> TAKE s \in Starts
  <2>1. pc[s] # "waiting"
    BY DEF Typed, StartPcs, Returned, Entering, InLock, Holding
  <2>2. s \in Calls \ {k}
    BY Zenon DEF Calls
  <2> QED
    BY <1>1, <1>2, <2>1, <2>2, AwaitFacts, Zenon DEF Moves, Others
<1>5. \A t \in Starts : task'[t] \in Over \/ task'[t] = task[t]
  <2>1. CASE UNCHANGED <<taskVars, supervisor>>
    BY <2>1, Zenon DEF taskVars
  <2>2. CASE ShutdownAbort(k)
    BY <2>2, Replaced, Zenon
  <2> QED
    BY <2>1, <2>2, HolderOnly, Zenon
<1>6. CASE pc[k] = "notify"
  <2>1. InvokeClosed
    <3>1. /\ ~CloseRead(k) /\ ~CloseRegister(k) /\ ~CloseMark(k) /\ ~CloseSignal(k)
          /\ ~Lock(k) /\ ~CloseLocked(k)
      BY <1>6, Zenon DEF CloseRead, CloseRegister, CloseMark, CloseSignal, Lock, CloseLocked, Locked, At
    <3>2. ShutdownAct(k)
      BY <3>1, CloseSteps, Zenon
    <3> QED
      BY <1>6, <3>2, ShutdownFrame, Zenon
  <2>2. \A t \in Starts : task'[t] \in Over
    BY <1>5, <1>6, LifecycleAssumption, Zenon DEF Shut, Owner
  <2> QED
    BY <1>4, <2>1, <2>2, ClosedReport, ToldClosed, Zenon
<1>7. CASE pc[k] # "notify"
  <2>1. /\ UNCHANGED appVars
        /\ state' \in {state, "Disconnecting"} \/ pc'[k] = "notify"
    <3>1. CASE CloseRead(k) \/ CloseRegister(k) \/ CloseMark(k) \/ CloseSignal(k) \/ Lock(k) \/ CloseLocked(k)
      BY <3>1, Zenon DEF CloseRead, CloseRegister, CloseMark, CloseSignal, Lock, CloseLocked
    <3>2. CASE ShutdownAct(k)
      BY <1>7, <3>2, ShutdownFrame, Zenon
    <3> QED
      BY <3>1, <3>2, CloseSteps, Zenon
  <2>2. state = "Disconnected" => ~started
    <3>1. \A p \in Calls : pc[p] # "notify"
      BY <1>2, <1>7, AwaitFacts, Zenon
    <3> QED
      BY <1>3, <3>1, Zenon DEF Telling
  <2>3. started' = started /\ told' = told /\ opened' = opened /\ ended' = ended
    BY <2>1, Zenon DEF appVars
  <2>4. \A t \in Starts : /\ task'[t] \in TellsUp => task[t] \in TellsUp
                          /\ task'[t] \in TellsDown => task[t] \in TellsDown
    <3>1. \A w \in Over : w \notin TellsUp /\ w \notin TellsDown
      BY DEF Over, TellsUp, TellsDown
    <3> QED
      BY <1>5, <3>1, Zenon
  <2>5. state' = "Disconnected" /\ started' => \E p \in Calls : pc'[p] = "notify"
    BY <2>1, <2>2, <2>3, Zenon
  <2> QED
    BY <1>4, <2>3, <2>4, <2>5, Zenon DEF Telling, Reporting
<1> QED
  BY <1>6, <1>7, Zenon

\* The steps of a supervisor: on_reconnecting and on_reconnected alternate.
LEMMA TellingTasks ==
    ASSUME Typed, Owner, Alone, Watched, Telling, ~config.parallel, NEW t \in Starts, TaskAct(t)
    PROVE  Telling' /\ Reporting
<1>1. TaskMoves(t)
  BY SupervisorMoves, Zenon
<1>2. /\ TaskTurn(t) /\ pc' = pc
      /\ \A u \in Starts \ {t} : task'[u] = task[u]
  BY <1>1, Zenon DEF TaskMoves, callVars
<1>3. \A w \in Over : w \notin TellsUp /\ w \notin TellsDown /\ w # "closed"
  BY DEF Over, TellsUp, TellsDown
<1>4. CASE task[t] \in Over
  <2>1. task'[t] = "ended" /\ state' = state /\ UNCHANGED appVars
    BY <1>1, <1>4, Zenon DEF TaskMoves
  <2>2. started' = started /\ told' = told /\ opened' = opened /\ ended' = ended
    BY <2>1, Zenon DEF appVars
  <2>3. task'[t] \in Over
    BY <2>1, Zenon DEF Over
  <2>4. \A u \in Starts : /\ task'[u] \in TellsUp => task[u] \in TellsUp
                          /\ task'[u] \in TellsDown => task[u] \in TellsDown
                          /\ task[u] = "closed" => task'[u] = "closed"
    BY <1>2, <1>3, <1>4, <2>3, Zenon
  <2> QED
    BY <1>2, <2>1, <2>2, <2>4, Zenon DEF Telling, Reporting
<1>5. CASE task[t] \notin Over
  <2>1. ~closing /\ ~stop /\ state = StateOf(task[t])
    BY <1>2, <1>5, TaskAlone, Zenon
  <2>2. \A u \in Starts \ {t} : task'[u] \in Over
    BY <1>2, <1>5, Zenon DEF Owner
  <2>3. \A s \in Starts : pc'[s] \notin Way /\ pc'[s] # "spawn"
    <3>1. \A s \in Starts : pc'[s] \notin Way
      BY <1>2, <1>5, Zenon DEF Alone, AloneAt
    <3> QED
      BY <3>1 DEF Way, Holding
  <2>4. ASSUME started' = started, told' \in {"up", "reconnecting", "closed"},
               told' = "closed" <=> told = "closed",
               task'[t] \in TellsUp => told' = "up",
               task'[t] \in TellsDown => told' = "reconnecting",
               state' = "Disconnected" => task'[t] = "closed"
        PROVE  Telling'
    BY <1>3, <2>2, <2>3, <2>4, Zenon DEF Telling
  <2>5. CASE InvokeClosed /\ task'[t] = "ended"
    <3>1. \A u \in Starts : task'[u] \in Over
      BY <2>2, <2>5, Zenon DEF Over
    <3> QED
      BY <2>3, <2>5, <3>1, ClosedReport, ToldClosed, Zenon
  <2>6. task[t] # "closed" => state # "Disconnected"
    BY <2>1, Zenon DEF StateOf
  <2>7. /\ task[t] \in TellsUp => told = "up"
        /\ task[t] \in TellsDown => told = "reconnecting"
        /\ told \in {"up", "reconnecting", "closed"}
    BY Zenon DEF Telling
  <2>8. CASE ~(InvokeClosed /\ task'[t] = "ended")
    <3>1. /\ started' = started /\ opened' = opened /\ ended' = ended
          /\ \/ told' = told
             \/ told = "up" /\ told' = "reconnecting"
             \/ told = "reconnecting" /\ told' = "up"
          /\ task'[t] \in TellsUp => told' = "up"
          /\ task'[t] \in TellsDown => told' = "reconnecting"
          /\ state' = "Disconnected" => task'[t] = "closed"
      BY <2>1, <2>6, <2>7, <2>8, TaskPaths DEF appVars, TellsUp, TellsDown
    <3>2. told' \in {"up", "reconnecting", "closed"} /\ (told' = "closed" <=> told = "closed")
      BY <2>7, <3>1, Zenon
    <3>3. Reporting
      BY <3>1, Zenon DEF Reporting, Reports!Next, Reports!Reconnecting, Reports!Reconnected
    <3> QED
      BY <2>4, <3>1, <3>2, <3>3, Zenon
  <2> QED
    BY <2>5, <2>8, Zenon
<1> QED
  BY <1>4, <1>5, Zenon

-----------------------------------------------------------------------------
(* The theorems about a calm application *)

\* A new HubConnection satisfies the invariant of a calm application.
LEMMA CalmInit == Init => Called /\ CalmInv
<1> SUFFICES ASSUME Init PROVE Called /\ CalmInv
  BY Zenon
<1>1. /\ pc = [p \in Calls |-> "idle"] /\ task = [t \in Starts |-> "none"]
      /\ state = "Disconnected" /\ doomed = {} /\ calm = {} /\ started = FALSE /\ told = "closed"
  BY Zenon DEF Init
<1>2. \A p \in Calls : pc[p] = "idle"
  BY <1>1, Zenon
<1>3. \A s \in Starts : s \in Calls
  BY Zenon DEF Calls
<1>4. Called /\ Yields
  BY <1>1, Zenon DEF Called, Yields
<1>5. Alone /\ Signalled
  BY <1>1, <1>2, <1>3, OutOfWay, Zenon DEF Alone, Signalled
<1>6. "none" \in Over /\ "none" \notin TellsUp /\ "none" \notin TellsDown
  BY DEF Over, TellsUp, TellsDown
<1>7. Watched /\ Telling
  BY <1>1, <1>2, <1>3, <1>6, Zenon DEF Watched, Telling
<1> QED
  BY <1>4, <1>5, <1>7, Zenon DEF CalmInv

\* Every step keeps the invariant, and tells the application what it may.
LEMMA CalmStep ==
    ASSUME CloseInv, Called, CalmInv, ~config.parallel, Next, Calm'
    PROVE  Alone' /\ Signalled' /\ Yields' /\ Watched' /\ Telling' /\ Reporting
<1>0. Typed /\ Lined /\ Owner /\ Shut
  BY Zenon DEF CloseInv
<1>a. Alone /\ Signalled /\ Yields /\ Watched /\ Telling
  BY <1>0, CalmBack, Zenon DEF CalmInv
<1>1. ASSUME NEW s \in Starts, StartAct(s)
      PROVE  Alone' /\ Signalled' /\ Yields' /\ Watched' /\ Telling' /\ Reporting
  <2>1. Alone'
    BY <1>0, <1>a, <1>1, AloneStarts, Zenon
  <2>2. Signalled'
    BY <1>0, <1>a, <1>1, SignalledStarts, Zenon
  <2> QED
    BY <1>0, <1>a, <1>1, <2>1, <2>2, YieldsStarts, WatchedStarts, TellingStarts, Zenon
<1>2. ASSUME NEW k \in Closes, CloseAct(k)
      PROVE  Alone' /\ Signalled' /\ Yields' /\ Watched' /\ Telling' /\ Reporting
  BY <1>0, <1>a, <1>2, AloneCloses, SignalledCloses, YieldsCloses, WatchedCloses, TellingCloses, Zenon
<1>3. ASSUME NEW t \in Starts, TaskAct(t)
      PROVE  Alone' /\ Signalled' /\ Yields' /\ Watched' /\ Telling' /\ Reporting
  BY <1>0, <1>a, <1>3, AloneTasks, SignalledTasks, YieldsTasks, WatchedTasks, TellingTasks, Zenon
<1>4. ASSUME NEW c, NEW e, Lose(c, e)
      PROVE  Alone' /\ Signalled' /\ Yields' /\ Watched' /\ Telling' /\ Reporting
  <2>1. /\ pc' = pc /\ connect' = connect /\ task' = task /\ state' = state /\ closing' = closing
        /\ stop' = stop /\ doomed' = doomed /\ told' = told /\ started' = started
        /\ opened' = opened /\ ended' = ended
    BY <1>4, Zenon DEF Lose, callVars, taskVars, flagVars, historyVars, appVars
  <2>2. Alone' /\ Signalled' /\ Yields' /\ Watched'
    BY <1>a, <2>1, Zenon DEF Alone, AloneAt, Signalled, Yields, Watched
  <2> QED
    BY <1>a, <2>1, <2>2, Zenon DEF Telling, Reporting
<1> QED
  BY <1>1, <1>2, <1>3, <1>4, Actors, Zenon

LifeInv == CloseInv /\ Called /\ CalmInv

\* Both invariants hold at first.
LEMMA LifeInit == Init => LifeInv
  BY CloseInit, CalmInit, Zenon DEF LifeInv

\* Every step keeps both and reports as ConnectionEvents does.
LEMMA LifeStep ==
    ASSUME LifeInv, ~config.parallel, [Next]_<<config, vars>>
    PROVE  LifeInv' /\ (Calm' => Reporting)
<1>0. CloseInv /\ Called /\ CalmInv /\ Typed
  BY Zenon DEF LifeInv, CloseInv
<1>1. CloseInv'
  BY <1>0, CloseInvStep, Zenon
<1>2. CASE Next
  BY <1>0, <1>1, <1>2, CalledStep, CalmStep, Zenon DEF LifeInv, CalmInv
<1>3. CASE UNCHANGED <<config, vars>>
  <2>1. /\ pc' = pc /\ connect' = connect /\ task' = task /\ state' = state /\ closing' = closing
        /\ stop' = stop /\ doomed' = doomed /\ calm' = calm /\ told' = told /\ started' = started
        /\ opened' = opened /\ ended' = ended
    BY <1>3, Zenon DEF vars, callVars, taskVars, flagVars, historyVars, appVars
  <2>2. Called' /\ (Calm' => Calm) /\ Reporting
    BY <1>0, <2>1, Zenon DEF Called, Calm, Reporting
  <2>3. (Alone => Alone') /\ (Signalled => Signalled') /\ (Yields => Yields')
    BY <2>1, Zenon DEF Alone, AloneAt, Signalled, Yields
  <2>4. (Watched => Watched') /\ (Telling => Telling')
    BY <2>1, Zenon DEF Watched, Telling
  <2> QED
    BY <1>0, <1>1, <2>2, <2>3, <2>4, Zenon DEF LifeInv, CalmInv
<1> QED
  BY <1>2, <1>3, Zenon

\* A start() that close() finds under way does not report success, for any
\* number of calls: closing, which close() sets before it queues for
\* connect_operation, is still set when start() looks at it last.
THEOREM StartYields == Spec => []StartYieldsToClose
<1> DEFINE I == ~config.parallel => LifeInv
<1>1. Init => I
  BY LifeInit, Zenon
<1>2. I /\ [Next]_<<config, vars>> => I'
  BY LifeStep, ConfigStep, Zenon
<1>3. I => StartYieldsToClose
  BY Zenon DEF LifeInv, CalmInv, Yields, StartYieldsToClose
<1> QED
  BY <1>1, <1>2, <1>3, PTL DEF Spec

\* The callbacks of a HubConnection implement ConnectionEvents: whatever the
\* server and the RetryPolicy do, start() succeeds, on_reconnecting,
\* on_reconnected and on_close come in order, and on_close at most once for each
\* start() that succeeded.  On one thread, for an application that calls no
\* start() while a close() runs.
THEOREM EventsInOrder == Spec /\ [](~config.parallel /\ Calm) => CallbacksInOrder
<1> DEFINE I == ~config.parallel => LifeInv
<1> DEFINE P == ~config.parallel /\ Calm
<1>1. Init => I
  BY LifeInit, Zenon
<1>2. I /\ [Next]_<<config, vars>> => I'
  BY LifeStep, ConfigStep, Zenon
<1>3. Init => Reports!Init
  BY Zenon DEF Init, Reports!Init
<1>4. I /\ P /\ P' /\ [Next]_<<config, vars>> => [~Simple \/ Reports!Next]_<<told, opened, ended>>
  BY LifeStep, Zenon DEF Reporting
<1> QED
  BY <1>1, <1>2, <1>3, <1>4, PTL DEF Spec, CallbacksInOrder

-----------------------------------------------------------------------------
(* Transports *)

Bound(s) ==
    /\ pc[s] \in Bare => runtime \notin live
    /\ pc[s] \in {"connected", "announce", "spawn"} => runtime = mine[s]

\* The calls that are not taking this step.
LEMMA OthersStay ==
    ASSUME Typed, NEW p \in Calls, Moves(p), NEW q \in Calls \ {p}
    PROVE  /\ pc'[q] = pc[q] \/ (pc[q] = "waiting" /\ pc'[q] = "ok")
           /\ q \in Starts => pc'[q] = pc[q]
<1>1. q \in Starts => pc[q] # "waiting"
  BY DEF Typed, StartPcs, Returned, Entering, InLock, Holding
<1> QED
  BY <1>1, Zenon DEF Moves, Others

\* The steps of a call that neither open nor close a transport.
LEMMA OpenFrame ==
    ASSUME Typed, Counted, Accounted, config' = config, NEW p \in Calls, Moves(p),
           UNCHANGED <<connVars, mine, on>>, pc[p] \notin {"pinging", "shutting"},
           \A t \in Starts : task'[t] \in Over \/ task'[t] = task[t],
           state' = "Disconnected" => state = "Disconnected" \/ runtime \notin live,
           p \in Starts => Bound(p)'
    PROVE  Counted' /\ Accounted'
<1>1. /\ conns' = conns /\ live' = live /\ runtime' = runtime /\ event' = event
      /\ resumable' = resumable /\ mine' = mine /\ on' = on
  BY Zenon DEF connVars
<1>2. Counted'
  BY <1>1, Zenon DEF Counted
<1>3. ASSUME NEW c \in live PROVE Held(c)'
  <2>1. CASE c = runtime
    BY <1>1, <2>1, Zenon DEF Held
  <2>2. ASSUME NEW q \in Calls, pc[q] \in {"pinging", "shutting"}, mine[q] = c PROVE Held(c)'
    <3>1. q # p
      BY <2>2, Zenon
    <3>2. pc'[q] = pc[q]
      BY <2>2, <3>1, OthersStay, Zenon
    <3> QED
      BY <1>1, <2>2, <3>2, Zenon DEF Held
  <2> QED
    BY <1>3, <2>1, <2>2, Zenon DEF Accounted, Held
<1>4. ASSUME NEW s \in Starts PROVE Bound(s)'
  <2>1. CASE s = p
    BY <2>1, Zenon
  <2>2. CASE s # p
    <3>1. pc'[s] = pc[s]
      BY <2>2, OthersStay, Zenon DEF Calls
    <3> QED
      BY <1>1, <3>1, Zenon DEF Accounted, Bound
  <2> QED
    BY <2>1, <2>2, Zenon
<1>5. ASSUME NEW t \in Starts
      PROVE  /\ task'[t] \in Over \cup {"watch", "cancel", "closed"}
             /\ task'[t] = "watch" => on'[t] = runtime'
             /\ task'[t] = "cancel" => runtime' \notin live'
  <2>1. CASE task'[t] = task[t]
    BY <1>1, <2>1, Zenon DEF Accounted
  <2>2. CASE task'[t] \in Over
    <3>1. task'[t] \notin {"watch", "cancel"}
      BY <2>2 DEF Over
    <3> QED
      BY <2>2, <3>1, Zenon
  <2> QED
    BY <2>1, <2>2, Zenon
<1>6. state' = "Disconnected" => runtime' \notin live'
  BY <1>1, Zenon DEF Accounted
<1> QED
  BY <1>1, <1>2, <1>3, <1>4, <1>5, <1>6, Zenon DEF Accounted, Bound

\* A transport that its call closes.
LEMMA OpenCloses ==
    ASSUME Typed, Counted, Accounted, config' = config, NEW p \in Calls, Moves(p),
           live' = live \ {mine[p]}, UNCHANGED <<runtime, conns, event, resumable, mine, on, task, state>>,
           p \in Starts => pc'[p] \notin {"connected", "announce", "spawn"} /\ (pc'[p] \in Bare => pc[p] \in Bare)
    PROVE  Counted' /\ Accounted'
<1>1. live' \subseteq live
  BY Zenon
<1>2. Counted'
  BY <1>1, Zenon DEF Counted
<1>3. ASSUME NEW c \in live' PROVE Held(c)'
  <2>1. c \in live /\ c # mine[p]
    BY <1>3, Zenon
  <2>2. CASE c = runtime
    BY <2>2, Zenon DEF Held
  <2>3. ASSUME NEW q \in Calls, pc[q] \in {"pinging", "shutting"}, mine[q] = c PROVE Held(c)'
    <3>1. q # p
      BY <2>1, <2>3, Zenon
    <3>2. pc'[q] = pc[q]
      BY <2>3, <3>1, OthersStay, Zenon
    <3> QED
      BY <2>3, <3>2, Zenon DEF Held
  <2> QED
    BY <2>1, <2>2, <2>3, Zenon DEF Accounted, Held
<1>4. ASSUME NEW s \in Starts PROVE Bound(s)'
  <2>1. CASE s = p
    BY <1>1, <2>1, Zenon DEF Accounted, Bound
  <2>2. CASE s # p
    <3>1. pc'[s] = pc[s]
      BY <2>2, OthersStay, Zenon DEF Calls
    <3> QED
      BY <1>1, <3>1, Zenon DEF Accounted, Bound
  <2> QED
    BY <2>1, <2>2, Zenon
<1>5. ASSUME NEW t \in Starts
      PROVE  /\ task'[t] \in Over \cup {"watch", "cancel", "closed"}
             /\ task'[t] = "watch" => on'[t] = runtime'
             /\ task'[t] = "cancel" => runtime' \notin live'
  BY <1>1, Zenon DEF Accounted
<1>6. state' = "Disconnected" => runtime' \notin live'
  BY <1>1, Zenon DEF Accounted
<1> QED
  BY <1>2, <1>3, <1>4, <1>5, <1>6, Zenon DEF Accounted, Bound

\* shutdown_active_connection()
LEMMA OpenShutdown ==
    ASSUME Typed, Lined, Owner, Shut, Alone, Counted, Accounted, ~config.parallel, ~config.closeErrors, config' = config,
           NEW p \in Calls, Moves(p), ShutdownAct(p)
    PROVE  Counted' /\ Accounted'
<1>0. pc'[p] \in {"taking", "shutting", "finish", "notify", "ok", "err"}
  BY ShutdownFrame, Zenon
<1>a. pc'[p] \notin Bare /\ pc'[p] \notin {"connected", "announce", "spawn"}
  BY <1>0 DEF Bare, Entering
<1>b. Bound(p)'
  BY <1>a, Zenon DEF Bound
<1>1. CASE ShutdownAbort(p)
  <2>1. UNCHANGED <<connVars, mine, on>> /\ state' = state /\ pc[p] = "shutdown"
    BY <1>1, Zenon DEF ShutdownAbort, At
  <2>2. \A t \in Starts : task'[t] \in Over
    BY <1>1, Replaced, Zenon
  <2> QED
    BY <1>b, <2>1, <2>2, OpenFrame, Zenon
<1>2. CASE ShutdownTake(p)
  <2>1. /\ pc[p] = "taking" /\ mine' = [mine EXCEPT ![p] = runtime] /\ runtime' = 0
        /\ conns' = conns /\ live' = live /\ event' = event /\ resumable' = resumable
        /\ on' = on /\ task' = task /\ state' = state
    BY <1>2, Zenon DEF ShutdownTake, At, taskVars
  <2>2. runtime = 0 \/ pc'[p] = "shutting"
    <3>1. runtime = 0 \/ Go(p, "shutting")
      BY <1>2, Zenon DEF ShutdownTake, AfterTake
    <3>2. "shutting" \in Pcs
      BY Zenon DEF Pcs, StartPcs, InLock, Holding
    <3> QED
      BY <3>1, <3>2, GoFacts, Zenon
  <2>3. 0 \notin live
    BY DEF Counted
  <2>4. Counted'
    <3>1. 0 \in 0..conns
      BY DEF Counted
    <3>2. mine' \in [Calls -> 0..conns]
      BY <2>1, Zenon DEF Counted
    <3> QED
      BY <2>1, <3>1, <3>2, Zenon DEF Counted
  <2>5. mine'[p] = runtime /\ \A q \in Calls \ {p} : mine'[q] = mine[q]
    BY <2>1, Zenon DEF Counted
  <2>6. ASSUME NEW c \in live PROVE Held(c)'
    <3>1. CASE c = runtime
      BY <2>2, <2>3, <2>5, <2>6, <3>1, Zenon DEF Held
    <3>2. ASSUME NEW q \in Calls, pc[q] \in {"pinging", "shutting"}, mine[q] = c PROVE Held(c)'
      <4>1. q # p
        BY <2>1, <3>2, Zenon
      <4>2. pc'[q] = pc[q] /\ mine'[q] = mine[q]
        BY <2>5, <3>2, <4>1, OthersStay, Zenon
      <4> QED
        BY <3>2, <4>2, Zenon DEF Held
    <3> QED
      BY <2>6, <3>1, <3>2, Zenon DEF Accounted, Held
  <2>7. ASSUME NEW s \in Starts PROVE Bound(s)'
    <3>1. CASE s = p
      BY <1>b, <3>1, Zenon
    <3>2. CASE s # p
      <4>1. pc'[s] = pc[s] /\ s \in Calls
        BY <3>2, OthersStay, Zenon DEF Calls
      <4>2. pc[p] \in Holding
        BY <2>1, Zenon DEF Holding
      <4>3. pc[s] \notin Holding
        BY <3>2, <4>1, <4>2, Zenon DEF Lined
      <4>4. pc[s] \notin {"connected", "announce", "spawn"}
        BY <4>3, Zenon DEF Holding
      <4> QED
        BY <2>1, <2>3, <4>1, <4>4, Zenon DEF Bound
    <3> QED
      BY <3>1, <3>2, Zenon
  <2>8. \A t \in Starts : task'[t] \in Over /\ task'[t] \notin {"watch", "cancel"}
    <3>1. \A t \in Starts : task[t] \in Over
      BY <2>1, LifecycleAssumption, Zenon DEF Shut, Owner
    <3> QED
      BY <2>1, <3>1 DEF Over
  <2> QED
    BY <2>1, <2>3, <2>4, <2>6, <2>7, <2>8, Zenon DEF Accounted, Bound
<1>6. ~ShutdownErr(p)
  BY Zenon DEF ShutdownErr
<1>3. CASE ShutdownOk(p)
  <2>1. live' = live \ {mine[p]} /\ UNCHANGED <<runtime, conns, event, resumable, mine, on, task, state>>
    BY <1>3, Zenon DEF ShutdownOk, taskVars
  <2> QED
    BY <1>a, <2>1, OpenCloses, Zenon
<1>4. CASE ShutdownFinish(p)
  <2>1. UNCHANGED <<connVars, mine, on, task>> /\ pc[p] = "finish"
    BY <1>4, Zenon DEF ShutdownFinish, At, taskVars, connVars, Accounted
  <2>2. runtime \notin live
    <3>1. runtime = 0
      BY <2>1, Zenon DEF Shut
    <3> QED
      BY <3>1 DEF Counted
  <2> QED
    BY <1>b, <2>1, <2>2, OpenFrame, Zenon
<1>5. CASE ShutdownNotify(p)
  <2>1. UNCHANGED <<connVars, mine, on, task, state>> /\ pc[p] = "notify"
    BY <1>5, Zenon DEF ShutdownNotify, At, taskVars
  <2> QED
    BY <1>b, <2>1, OpenFrame, Zenon
<1> QED
  BY <1>1, <1>2, <1>3, <1>4, <1>5, <1>6, Zenon DEF Shutdown, ShutdownAct

\* connect_runtime() opens a transport.
LEMMA OpenConnects ==
    ASSUME Typed, Alone, Counted, Accounted, ~config.stateful, config' = config,
           NEW s \in Starts, Moves(s), ConnectOk(s)
    PROVE  Counted' /\ Accounted'
<1> s \in Calls
  BY Zenon DEF Calls
<1> DEFINE n == conns + 1
<1>1. /\ pc[s] = "connecting" /\ n <= config.conns /\ conns' = n /\ live' = live \cup {n}
      /\ mine' = [mine EXCEPT ![s] = n] /\ resumable' = FALSE /\ runtime' = runtime /\ event' = event
      /\ on' = on /\ task' = task /\ state' = state
  <2>1. config.stateful \in BOOLEAN => resumable' = FALSE
    BY Zenon DEF ConnectOk
  <2>2. resumable' = config.stateful
    BY Zenon DEF ConnectOk
  <2> QED
    BY <2>1, <2>2, Zenon DEF ConnectOk, Open, At, taskVars, Counted
<1>2. pc'[s] = "pinging"
  <2>1. "pinging" \in Pcs
    BY Zenon DEF Pcs, StartPcs, InLock, Holding
  <2> QED
    BY <2>1, GoFacts, Zenon DEF ConnectOk
<1>3. n \in 0..config.conns /\ n \in 0..n /\ n \in 1..config.conns /\ 0..conns \subseteq 0..n
  BY <1>1 DEF Counted
<1>4. runtime # n /\ n \notin live
  BY DEF Counted
<1>5. live \cup {n} \subseteq 1..n
  BY DEF Counted
<1>6. \A c \in 1..config.conns : c \in live \cup {n} \/ c > n => c \in live \/ c > conns
  BY <1>1 DEF Counted
<1>7. mine'[s] = n /\ (\A q \in Calls \ {s} : mine'[q] = mine[q]) /\ mine' \in [Calls -> 0..n]
  BY <1>1, <1>3 DEF Counted
<1>8. on \in [Starts -> 0..n] /\ runtime \in 0..n
  BY <1>3 DEF Counted
<1> HIDE DEF n
<1>9. Counted'
  BY <1>1, <1>3, <1>5, <1>6, <1>7, <1>8, Zenon DEF Counted
<1>10. pc[s] \in Bare /\ pc[s] \in Way
  BY <1>1, Zenon DEF Bare, Way, Holding
<1>11. runtime' \notin live'
  BY <1>1, <1>4, <1>10, Zenon DEF Accounted
<1>12. ASSUME NEW c \in live' PROVE Held(c)'
  <2>1. CASE c = n
    BY <1>2, <1>7, <2>1, Zenon DEF Held
  <2>2. CASE c = runtime
    BY <1>1, <2>2, Zenon DEF Held
  <2>3. ASSUME NEW q \in Calls, pc[q] \in {"pinging", "shutting"}, mine[q] = c PROVE Held(c)'
    <3>1. q # s
      BY <1>1, <2>3, Zenon
    <3>2. pc'[q] = pc[q] /\ mine'[q] = mine[q]
      BY <1>7, <2>3, <3>1, OthersStay, Zenon
    <3> QED
      BY <2>3, <3>2, Zenon DEF Held
  <2> QED
    BY <1>1, <1>12, <2>1, <2>2, <2>3, Zenon DEF Accounted, Held
<1>13. ASSUME NEW r \in Starts PROVE Bound(r)'
  <2>1. CASE r = s
    BY <1>2, <1>11, <2>1, Zenon DEF Bound
  <2>2. CASE r # s
    <3>1. pc'[r] = pc[r] /\ mine'[r] = mine[r]
      BY <1>7, <2>2, OthersStay, Zenon DEF Calls
    <3> QED
      BY <1>1, <1>11, <3>1, Zenon DEF Accounted, Bound
  <2> QED
    BY <2>1, <2>2, Zenon
<1> QED
  BY <1>1, <1>9, <1>11, <1>12, <1>13, Zenon DEF Accounted, Bound

\* The HubRuntime of a new transport is installed, or none.
LEMMA OpenInstalls ==
    ASSUME Typed, Alone, Counted, Accounted, config' = config,
           NEW s \in Starts, Moves(s), PingOk(s) \/ StartFail(s)
    PROVE  Counted' /\ Accounted'
<1> s \in Calls
  BY Zenon DEF Calls
<1>1. /\ conns' = conns /\ live' = live /\ event' = event /\ resumable' = resumable /\ mine' = mine
      /\ on' = on /\ task' = task
      /\ \/ pc[s] = "pinging" /\ runtime' = mine[s] /\ state' = state /\ Go(s, "connected")
         \/ pc[s] = "failing" /\ runtime' = 0 /\ Go(s, "err")
  BY Zenon DEF PingOk, StartFail, At, taskVars
<1>2. "connected" \in Pcs /\ "err" \in Pcs
  BY Zenon DEF Pcs, StartPcs, InLock, Holding, Returned
<1>3. \/ pc[s] = "pinging" /\ runtime' = mine[s] /\ state' = state /\ pc'[s] = "connected"
      \/ pc[s] = "failing" /\ runtime' = 0 /\ pc'[s] = "err"
  BY <1>1, <1>2, GoFacts, Zenon
<1>4. 0 \notin live /\ 0 \in 0..conns
  BY DEF Counted
<1>5. Counted'
  <2>1. runtime' \in 0..conns
    BY <1>3, <1>4, Zenon DEF Counted
  <2> QED
    BY <1>1, <2>1, Zenon DEF Counted
<1>6. pc[s] \in Bare /\ pc[s] \in Way
  BY <1>3, Zenon DEF Bare, Way, Holding
<1>7. runtime \notin live
  BY <1>6, Zenon DEF Accounted
<1>8. ASSUME NEW c \in live PROVE Held(c)'
  <2>1. PICK q \in Calls : pc[q] \in {"pinging", "shutting"} /\ mine[q] = c
    BY <1>7, <1>8, Zenon DEF Accounted, Held
  <2>2. CASE q = s
    BY <1>3, <2>1, <2>2, Zenon DEF Held
  <2>3. CASE q # s
    <3>1. pc'[q] = pc[q]
      BY <2>1, <2>3, OthersStay, Zenon
    <3> QED
      BY <1>1, <2>1, <3>1, Zenon DEF Held
  <2> QED
    BY <2>2, <2>3, Zenon
<1>9. ASSUME NEW r \in Starts PROVE Bound(r)'
  <2>1. CASE r = s
    <3>1. pc'[s] \notin Bare /\ pc'[s] \notin {"announce", "spawn"}
      BY <1>3 DEF Bare, Entering
    <3> QED
      BY <1>1, <1>3, <2>1, <3>1, Zenon DEF Bound
  <2>2. CASE r # s
    <3>1. pc'[r] = pc[r] /\ pc[r] \notin Way
      BY <1>6, <2>2, OthersStay, Zenon DEF Calls, Alone, AloneAt
    <3>2. pc[r] \notin Bare /\ pc[r] \notin {"connected", "announce", "spawn"}
      BY <3>1 DEF Way, Bare, Holding
    <3> QED
      BY <3>1, <3>2, Zenon DEF Bound
  <2> QED
    BY <2>1, <2>2, Zenon
<1>10. \A t \in Starts : task'[t] \in Over /\ task'[t] \notin {"watch", "cancel"}
  <2>1. \A t \in Starts : task[t] \in Over
    BY <1>6, Zenon DEF Alone, AloneAt
  <2> QED
    BY <1>1, <2>1 DEF Over
<1>11. state' = "Disconnected" => runtime' \notin live'
  <2>1. CASE runtime' = 0
    BY <1>1, <1>4, <2>1, Zenon
  <2>2. CASE pc[s] = "pinging" /\ state' = state
    BY <1>6, <2>2, Zenon DEF Alone, AloneAt
  <2> QED
    BY <1>3, <2>1, <2>2, Zenon
<1> QED
  BY <1>1, <1>5, <1>8, <1>9, <1>10, <1>11, Zenon DEF Accounted, Bound

\* What start() does between opening and installing.
LEMMA Wanders ==
    ASSUME Typed, NEW s \in Starts,
           StartLocked(s) \/ StartSubscribe(s) \/ ConnectStopped(s) \/ ConnectFails(s) \/ StartConnected(s)
    PROVE  \/ pc[s] \in {"locked", "locking", "subscribing", "connecting"}
              /\ pc'[s] \in {"stopped", "subscribing", "failing", "connecting"}
           \/ pc[s] = "connected" /\ pc'[s] \in {"announce", "shutdown"}
<1> s \in Calls
  BY Zenon DEF Calls
<1>1. /\ "stopped" \in Pcs /\ "subscribing" \in Pcs /\ "failing" \in Pcs /\ "connecting" \in Pcs
      /\ "announce" \in Pcs /\ "shutdown" \in Pcs
  BY Zenon DEF Pcs, StartPcs, InLock, Holding
<1>2. CASE StartLocked(s) \/ StartSubscribe(s) \/ ConnectStopped(s) \/ ConnectFails(s)
  <2>1. Go(s, "stopped") \/ Go(s, "subscribing") \/ Go(s, "failing") \/ Go(s, "connecting")
    BY <1>2, Zenon DEF StartLocked, StartSubscribe, ConnectStopped, ConnectFails
  <2>2. pc'[s] \in {"stopped", "subscribing", "failing", "connecting"}
    BY <1>1, <2>1, GoFacts, Zenon
  <2> QED
    BY <1>2, <2>2, Zenon DEF StartLocked, Locked, StartSubscribe, ConnectStopped, ConnectFails, At
<1>3. CASE StartConnected(s)
  <2>1. Go(s, "announce") \/ Go(s, "shutdown")
    BY <1>3, Zenon DEF StartConnected, AfterConnect
  <2>2. pc'[s] \in {"announce", "shutdown"}
    BY <1>1, <2>1, GoFacts, Zenon
  <2> QED
    BY <1>3, <2>2, Zenon DEF StartConnected, At
<1> QED
  BY <1>2, <1>3, Zenon

\* The steps of start().
LEMMA OpenStarts ==
    ASSUME Typed, Lined, Owner, Shut, Alone, Counted, Accounted, ~config.parallel, ~config.closeErrors, ~config.stateful,
           config' = config, NEW s \in Starts, StartAct(s)
    PROVE  Counted' /\ Accounted'
<1> s \in Calls
  BY Zenon DEF Calls
<1>1. Moves(s)
  BY StartMoves, Zenon
<1>2. CASE StartCheck(s) \/ StartMark(s) \/ StartReset(s) \/ Lock(s) \/ StartAnnounce(s) \/ StartStopped(s)
  <2>1. UNCHANGED <<connVars, mine, on, task>>
    BY <1>2, Zenon DEF StartCheck, StartMark, StartReset, Lock, StartAnnounce, StartStopped, taskVars
  <2>2. \/ /\ pc[s] = "idle" /\ state' = state
           /\ (pc'[s] = "passed" /\ state = "Disconnected") \/ pc'[s] = "refused"
        \/ pc[s] = "passed" /\ pc'[s] = "marked" /\ state' = "Connecting"
        \/ pc[s] = "marked" /\ pc'[s] = "queueing" /\ state' = state
        \/ pc[s] = "queueing" /\ pc'[s] \in {"locked", "locking"} /\ state' = state
        \/ pc[s] = "announce" /\ pc'[s] = "spawn" /\ state' = "Connected"
        \/ pc[s] = "stopped" /\ pc'[s] = "err" /\ state' = "Disconnected"
    <3>1. CASE StartCheck(s) \/ StartMark(s) \/ StartReset(s)
      BY <3>1, StartWhere, Zenon DEF StartCheck, StartMark, StartReset
    <3>2. CASE StartAnnounce(s) \/ StartStopped(s)
      BY <3>2, StartWhere, Zenon DEF StartAnnounce, StartStopped
    <3>3. CASE Lock(s)
      BY <3>3, LockWhere, Zenon DEF Lock
    <3> QED
      BY <1>2, <3>1, <3>2, <3>3, Zenon
  <2>3. live' = live /\ runtime' = runtime /\ mine' = mine
    BY <2>1, Zenon DEF connVars
  <2>4. pc[s] \in {"passed", "marked", "queueing", "stopped"} => pc[s] \in Bare
    BY Zenon DEF Bare, Entering
  <2>5. /\ Bound(s)'
        /\ state' = "Disconnected" => state = "Disconnected" \/ runtime \notin live
    <3>1. \A w \in {"refused", "locking", "spawn", "err"} : w \notin Bare
      BY DEF Bare, Entering
    <3>2. pc[s] \in {"passed", "marked", "queueing", "stopped"} => runtime \notin live
      BY <2>4, Zenon DEF Accounted
    <3>3. pc[s] = "idle" /\ pc'[s] = "passed" /\ state = "Disconnected" => runtime \notin live
      BY Zenon DEF Accounted
    <3>4. pc[s] = "announce" => runtime = mine[s]
      BY Zenon DEF Accounted
    <3> QED
      BY <2>2, <2>3, <3>1, <3>2, <3>3, <3>4, Zenon DEF Bound
  <2> QED
    BY <1>1, <2>1, <2>2, <2>5, OpenFrame, Zenon
<1>3. CASE StartLocked(s) \/ StartSubscribe(s) \/ ConnectStopped(s) \/ ConnectFails(s) \/ StartConnected(s)
  <2>1. UNCHANGED <<connVars, mine, on, task, state>> /\ Inner(s)
    BY <1>3, Zenon DEF StartLocked, StartSubscribe, ConnectStopped, ConnectFails, StartConnected, taskVars,
       Inner
  <2>2. live' = live /\ runtime' = runtime /\ mine' = mine
    BY <2>1, Zenon DEF connVars
  <2>3. \/ pc[s] \in {"locked", "locking", "subscribing", "connecting"}
           /\ pc'[s] \in {"stopped", "subscribing", "failing", "connecting"}
        \/ pc[s] = "connected" /\ pc'[s] \in {"announce", "shutdown"}
    BY <1>3, <2>1, Wanders, Zenon
  <2>4. Bound(s)'
    <3>1. CASE pc[s] = "connected" /\ pc'[s] \in {"announce", "shutdown"}
      <4>1. pc'[s] \notin Bare
        BY <3>1 DEF Bare, Entering
      <4> QED
        BY <2>2, <3>1, <4>1, Zenon DEF Accounted, Bound
    <3>2. CASE /\ pc[s] \in {"locked", "locking", "subscribing", "connecting"}
               /\ pc'[s] \in {"stopped", "subscribing", "failing", "connecting"}
      <4>1. pc[s] \in Bare
        BY <3>2, Zenon DEF Bare, Alone
      <4> QED
        BY <2>2, <3>2, <4>1, Zenon DEF Accounted, Bound
    <3> QED
      BY <2>3, <3>1, <3>2, Zenon
  <2> QED
    BY <1>1, <2>1, <2>3, <2>4, OpenFrame, Zenon
<1>4. CASE ConnectOk(s)
  BY <1>1, <1>4, OpenConnects, Zenon
<1>5. CASE PingOk(s) \/ StartFail(s)
  BY <1>1, <1>5, OpenInstalls, Zenon
<1>6. CASE PingFails(s)
  <2>1. /\ live' = live \ {mine[s]} /\ UNCHANGED <<runtime, conns, event, resumable, mine, on, task, state>>
        /\ pc[s] = "pinging" /\ Go(s, "failing")
    <3>1. live' \in {live \ {mine[s]}}
      BY <1>6, Zenon DEF PingFails, AfterShutdown
    <3> QED
      BY <1>6, <3>1, Zenon DEF PingFails, At, taskVars
  <2>2. pc'[s] = "failing"
    <3>1. "failing" \in Pcs
      BY Zenon DEF Pcs, StartPcs, InLock, Holding
    <3> QED
      BY <2>1, <3>1, GoFacts, Zenon
  <2>3. pc[s] \in Bare
    BY <2>1, Zenon DEF Bare
  <2> QED
    BY <1>1, <2>1, <2>2, <2>3, OpenCloses, Zenon
<1>7. CASE StartSpawn(s)
  <2>1. /\ UNCHANGED connVars /\ mine' = mine /\ state' = state /\ on' = [on EXCEPT ![s] = mine[s]]
        /\ pc[s] = "spawn" /\ pc'[s] = "ok"
    BY <1>7, StartWhere, Zenon DEF StartSpawn
  <2>2. /\ conns' = conns /\ live' = live /\ runtime' = runtime /\ event' = event
        /\ resumable' = resumable
    BY <2>1, Zenon DEF connVars
  <2>3. runtime = mine[s]
    BY <2>1, Zenon DEF Accounted
  <2>4. Counted'
    <3>1. on' \in [Starts -> 0..conns]
      BY <2>1, Zenon DEF Counted
    <3> QED
      BY <2>1, <2>2, <3>1, Zenon DEF Counted
  <2>5. ASSUME NEW c \in live PROVE Held(c)'
    <3>1. CASE c = runtime
      BY <2>2, <3>1, Zenon DEF Held
    <3>2. ASSUME NEW q \in Calls, pc[q] \in {"pinging", "shutting"}, mine[q] = c PROVE Held(c)'
      <4>1. q # s
        BY <2>1, <3>2, Zenon
      <4>2. pc'[q] = pc[q]
        BY <1>1, <3>2, <4>1, OthersStay, Zenon
      <4> QED
        BY <2>1, <3>2, <4>2, Zenon DEF Held
    <3> QED
      BY <2>5, <3>1, <3>2, Zenon DEF Accounted, Held
  <2>6. ASSUME NEW r \in Starts PROVE Bound(r)'
    <3>1. CASE r = s
      <4>1. pc'[s] \notin Bare
        BY <2>1 DEF Bare, Entering
      <4> QED
        BY <2>1, <3>1, <4>1, Zenon DEF Bound
    <3>2. CASE r # s
      <4>1. pc'[r] = pc[r]
        BY <1>1, <3>2, OthersStay, Zenon DEF Calls
      <4> QED
        BY <2>1, <2>2, <4>1, Zenon DEF Accounted, Bound
    <3> QED
      BY <3>1, <3>2, Zenon
  <2>7. \A t \in Starts : task'[t] \in Over \/ (t = s /\ task'[t] = "watch")
    <3>1. pc[s] \in Way
      BY <2>1, Zenon DEF Way, Holding
    <3> QED
      BY <3>1, StartsNone, Zenon
  <2>8. on'[s] = runtime'
    BY <2>1, <2>2, <2>3, Zenon DEF Counted
  <2>9. \A w \in Over : w # "watch" /\ w # "cancel"
    BY DEF Over
  <2> QED
    BY <2>1, <2>2, <2>4, <2>5, <2>6, <2>7, <2>8, <2>9, ZenonT(30) DEF Accounted, Bound
<1>8. CASE ShutdownAct(s)
  BY <1>1, <1>8, OpenShutdown, Zenon
<1> QED
  BY <1>2, <1>3, <1>4, <1>5, <1>6, <1>7, <1>8, StartSteps, ZenonT(30) DEF Inner

\* The steps of close().
LEMMA OpenEnds ==
    ASSUME Typed, Lined, Owner, Shut, Alone, Counted, Accounted, ~config.parallel, ~config.closeErrors, config' = config,
           NEW k \in Closes, CloseAct(k)
    PROVE  Counted' /\ Accounted'
<1> k \in Calls /\ k \notin Starts
  BY LifecycleAssumption, Zenon DEF Calls
<1>1. Moves(k)
  BY CloseMoves, Zenon
<1>2. CASE CloseRead(k) \/ CloseRegister(k) \/ CloseMark(k) \/ CloseSignal(k) \/ Lock(k) \/ CloseLocked(k)
  <2>1. UNCHANGED <<connVars, mine, on, task>> /\ state' \in {state, "Disconnecting"}
    BY <1>2, Zenon DEF CloseRead, CloseRegister, CloseMark, CloseSignal, Lock, CloseLocked, taskVars
  <2>2. pc[k] \notin {"pinging", "shutting"}
    BY <1>2, Zenon DEF CloseRead, CloseRegister, CloseMark, CloseSignal, Lock, CloseLocked, Locked, At
  <2> QED
    BY <1>1, <2>1, <2>2, OpenFrame, Zenon
<1>3. CASE ShutdownAct(k)
  BY <1>1, <1>3, OpenShutdown, Zenon
<1> QED
  BY <1>2, <1>3, CloseSteps, Zenon

\* The steps of a supervisor: without a policy, it watches until the transport
\* is gone.
LEMMA OpenTasks ==
    ASSUME Typed, Counted, Accounted, ~config.policy, config' = config, NEW t \in Starts, TaskAct(t)
    PROVE  Counted' /\ Accounted'
<1>1. TaskMoves(t)
  BY SupervisorMoves, Zenon
<1>2. pc' = pc /\ \A u \in Starts \ {t} : task'[u] = task[u]
  BY <1>1, Zenon DEF TaskMoves
<1>3. task[t] \in Over \cup {"watch", "cancel", "closed"}
  BY Zenon DEF Accounted
<1>4. task[t] \in {"none", "canceled", "ended", "watch", "cancel", "closed"}
  BY <1>3 DEF Over
<1>5. DropCanceled(t) \/ SupStop(t) \/ SupEvent(t) \/ SupGiveUp(t) \/ SupClosed(t)
  <2>1. /\ ~ResumeSwap(t) /\ ~ResumeOk(t) /\ ~SupReconnect(t) /\ ~SupExhausted(t) /\ ~SupAnnounce(t)
        /\ ~SupWake(t) /\ ~SupRetry(t) /\ ~DialPinged(t) /\ ~SupRestored(t) /\ ~SupReconnected(t)
    BY <1>4, SMTT(30) DEF ResumeSwap, ResumeOk, SupReconnect, SupExhausted, SupAnnounce, SupWake, SupRetry,
       DialPinged, SupRestored, SupReconnected, TaskAt
  <2>2. ~ReopenOk(t) /\ ~ResumeFails(t) /\ ~DialOk(t) /\ ~DialFails(t)
    BY <1>4 DEF ReopenOk, ResumeFails, DialOk, DialFails, TaskAt
  <2>3. ~SupTake(t) /\ ~SupAborted(t)
    BY <1>4 DEF SupTake, SupAborted, TaskAt
  <2> QED
    BY <2>1, <2>2, <2>3, ZenonT(30) DEF TaskAct, TaskStep, TaskAwaited
<1>6. /\ runtime' = runtime /\ conns' = conns /\ live' = live /\ resumable' = resumable /\ on' = on
      /\ event' = event \/ event' = [event EXCEPT ![on[t]] = "none"]
      /\ mine' = mine
  BY <1>5, Zenon DEF DropCanceled, SupStop, SupEvent, SupGiveUp, SupClosed, connVars, callVars
<1>7. Counted'
  <2>1. "none" \in Events
    BY Zenon DEF Events
  <2>2. event' \in [1..config.conns -> Events]
    BY <1>6, <2>1, Zenon DEF Counted
  <2>3. \A c \in 1..config.conns : event[c] = "none" => event'[c] = "none"
    BY <1>6, Zenon DEF Counted
  <2> QED
    BY <1>2, <1>6, <2>2, <2>3, Zenon DEF Counted
<1>8. "ended" \in TaskPcs /\ "watch" \in TaskPcs /\ "cancel" \in TaskPcs /\ "closed" \in TaskPcs
  BY Zenon DEF TaskPcs, TaskAwaits
<1>9. /\ \/ task'[t] = "ended"
         \/ task'[t] = "watch" /\ task[t] = "watch"
         \/ task'[t] = "cancel" /\ runtime \notin live
         \/ task'[t] = "closed"
      /\ state' = "Disconnected" => state = "Disconnected" \/ runtime \notin live
  <2>1. CASE DropCanceled(t) \/ SupClosed(t)
    BY <1>8, <2>1, TaskGoFacts, Zenon DEF DropCanceled, SupClosed
  <2>2. CASE SupStop(t)
    <3>1. TaskGo(t, "ended") \/ TaskGo(t, "watch")
      BY <2>2, Zenon DEF SupStop
    <3>2. task'[t] = "ended" \/ task'[t] = "watch"
      BY <1>8, <3>1, TaskGoFacts, Zenon
    <3> QED
      BY <2>2, <3>2, Zenon DEF SupStop, TaskAt
  <2>3. CASE SupEvent(t)
    <3>1. state' = state /\ task[t] = "watch" /\ on[t] = runtime
      BY <2>3, Zenon DEF SupEvent, TaskAt, Accounted
    <3>2. TaskGo(t, "ended") \/ (TaskGo(t, "cancel") /\ event[runtime] # "none")
      BY <2>3, <3>1, Zenon DEF SupEvent, Accounted
    <3>3. task'[t] = "ended" \/ (task'[t] = "cancel" /\ event[runtime] # "none")
      BY <1>8, <3>2, TaskGoFacts, Zenon
    <3>4. runtime \in live => event[runtime] = "none"
      <4>1. runtime \in live => runtime \in 1..config.conns
        BY DEF Counted
      <4> QED
        BY <4>1, Zenon DEF Counted
    <3> QED
      BY <3>1, <3>3, <3>4, Zenon
  <2>4. CASE SupGiveUp(t)
    <3>1. task[t] = "cancel" /\ TaskGo(t, "closed")
      BY <2>4, Zenon DEF SupGiveUp, TaskAt
    <3> QED
      BY <1>8, <3>1, TaskGoFacts, Zenon DEF Accounted
  <2> QED
    BY <1>5, <2>1, <2>2, <2>3, <2>4, Zenon
<1>10. "ended" \in Over
  BY Zenon DEF Over
<1>11. ASSUME NEW u \in Starts
       PROVE  /\ task'[u] \in Over \cup {"watch", "cancel", "closed"}
              /\ task'[u] = "watch" => on'[u] = runtime'
              /\ task'[u] = "cancel" => runtime' \notin live'
  <2>1. CASE u = t
    BY <1>6, <1>9, <1>10, <2>1, Zenon DEF Accounted
  <2>2. CASE u # t
    <3>1. task'[u] = task[u]
      BY <1>2, <2>2, Zenon
    <3> QED
      BY <1>6, <3>1, Zenon DEF Accounted
  <2> QED
    BY <2>1, <2>2, Zenon
<1>12. (\A c \in live' : Held(c)') /\ \A s \in Starts : Bound(s)'
  BY <1>2, <1>6, Zenon DEF Accounted, Held, Bound
<1>13. state' = "Disconnected" => runtime' \notin live'
  BY <1>6, <1>9, Zenon DEF Accounted
<1> QED
  BY <1>6, <1>7, <1>11, <1>12, <1>13, Zenon DEF Accounted, Bound

\* A transport that ends by itself.
LEMMA OpenLoses ==
    ASSUME Counted, Accounted, config' = config, NEW c \in 1..config.conns, NEW e \in Events, Lose(c, e)
    PROVE  Counted' /\ Accounted'
<1>1. /\ c \in live /\ live' = live \ {c} /\ event' = [event EXCEPT ![c] = e]
      /\ runtime' = runtime /\ conns' = conns /\ resumable' = resumable /\ pc' = pc /\ mine' = mine
      /\ task' = task /\ on' = on /\ state' = state
  BY Zenon DEF Lose, callVars, taskVars
<1>2. live' \subseteq live
  BY <1>1, Zenon
<1>3. Counted'
  <2>1. event' \in [1..config.conns -> Events] /\ \A d \in 1..config.conns : d # c => event'[d] = event[d]
    BY <1>1, Zenon DEF Counted
  <2>2. ~(c > conns)
    BY <1>1 DEF Counted
  <2>3. \A d \in 1..config.conns : d \in live' \/ d > conns => event'[d] = "none"
    BY <1>1, <2>1, <2>2, Zenon DEF Counted
  <2> QED
    BY <1>1, <1>2, <2>1, <2>3, Zenon DEF Counted
<1>4. \A d \in live' : Held(d)'
  BY <1>1, <1>2, Zenon DEF Accounted, Held
<1>5. \A s \in Starts : Bound(s)'
  BY <1>1, <1>2, Zenon DEF Accounted, Bound
<1>6. \A t \in Starts : /\ task'[t] \in Over \cup {"watch", "cancel", "closed"}
                        /\ task'[t] = "watch" => on'[t] = runtime'
                        /\ task'[t] = "cancel" => runtime' \notin live'
  BY <1>1, <1>2, Zenon DEF Accounted
<1>7. state' = "Disconnected" => runtime' \notin live'
  BY <1>1, <1>2, Zenon DEF Accounted
<1> QED
  BY <1>1, <1>3, <1>4, <1>5, <1>6, <1>7, ZenonT(30) DEF Accounted, Bound

\* A new HubConnection has no transport.
LEMMA OpenInit == Init => OpenInv
<1> SUFFICES ASSUME Init PROVE Counted /\ Accounted
  BY Zenon DEF OpenInv
<1>1. /\ config \in Configs /\ conns = 0 /\ live = {} /\ runtime = 0 /\ mine = [p \in Calls |-> 0]
      /\ on = [t \in Starts |-> 0] /\ event = [c \in 1..config.conns |-> "none"] /\ resumable = FALSE
      /\ task = [t \in Starts |-> "none"] /\ pc = [p \in Calls |-> "idle"]
  BY Zenon DEF Init
<1>2. config.conns \in Nat /\ config.stateful \in BOOLEAN
  BY <1>1, LifecycleAssumption
<1>3. 0 \in 0..config.conns /\ 0 \in 0..0
  BY <1>2
<1>4. Counted
  BY <1>1, <1>2, <1>3, Zenon DEF Counted, Events
<1>5. \A t \in Starts : task[t] \in Over /\ task[t] \notin {"watch", "cancel"}
  BY <1>1 DEF Over
<1>6. \A s \in Starts : pc[s] = "idle"
  BY <1>1, Zenon DEF Calls
<1> QED
  BY <1>1, <1>4, <1>5, <1>6, Zenon DEF Accounted

\* Every step keeps account of the transports.
LEMMA OpenStep ==
    ASSUME LifeInv, OpenInv, ~config.parallel, [Next]_<<config, vars>>
    PROVE  OpenInv'
<1>0. /\ Typed /\ Lined /\ Owner /\ Shut /\ Called /\ (Calm => Alone)
      /\ config' = config
  BY ConfigStep, Zenon DEF LifeInv, CloseInv, CalmInv
<1> SUFFICES ASSUME Calm', ~config.policy, ~config.stateful, ~config.closeErrors
             PROVE  Counted' /\ Accounted'
  BY <1>0, Zenon DEF OpenInv
<1>1. CASE Next
  <2>1. Alone /\ Counted /\ Accounted
    BY <1>0, <1>1, CalmBack, Zenon DEF OpenInv
  <2>2. ASSUME NEW s \in Starts, StartAct(s) PROVE Counted' /\ Accounted'
    BY <1>0, <2>1, <2>2, OpenStarts, Zenon
  <2>3. ASSUME NEW k \in Closes, CloseAct(k) PROVE Counted' /\ Accounted'
    BY <1>0, <2>1, <2>3, OpenEnds, Zenon
  <2>4. ASSUME NEW t \in Starts, TaskAct(t) PROVE Counted' /\ Accounted'
    BY <1>0, <2>1, <2>4, OpenTasks, Zenon
  <2>5. ASSUME NEW c \in 1..config.conns, NEW e \in Events \ {"none"}, Lose(c, e)
        PROVE  Counted' /\ Accounted'
    BY <1>0, <2>1, <2>5, OpenLoses, Zenon
  <2> QED
    BY <1>1, <2>2, <2>3, <2>4, <2>5, Actors, Zenon
<1>2. CASE UNCHANGED <<config, vars>>
  <2>1. /\ pc' = pc /\ mine' = mine /\ task' = task /\ on' = on /\ state' = state
        /\ conns' = conns /\ live' = live /\ runtime' = runtime /\ event' = event
        /\ resumable' = resumable /\ calm' = calm
    BY <1>2, Zenon DEF vars, callVars, taskVars, connVars, historyVars
  <2>2. Counted /\ Accounted
    BY <2>1, Zenon DEF OpenInv, Calm
  <2> QED
    BY <1>0, <2>1, <2>2, Zenon DEF Counted, Accounted, Held
<1> QED
  BY <1>1, <1>2, Zenon

\* shutdown_active_connection() fails only if closing the transport does.
LEMMA UnfailingStep ==
    ASSUME Typed, Unfailing, [Next]_<<config, vars>>
    PROVE  Unfailing'
<1> SUFFICES ASSUME ~config.closeErrors, NEW k \in Closes PROVE pc'[k] # "err"
  BY ConfigStep, Zenon DEF Unfailing
<1>0. pc[k] # "err" /\ k \in Calls /\ k \notin Starts
  BY LifecycleAssumption, Zenon DEF Unfailing, Calls
<1>1. ASSUME NEW p \in Calls \ {k}, Moves(p) PROVE pc'[k] # "err"
  BY <1>0, <1>1, Zenon DEF Moves, Others
<1>2. ASSUME CloseAct(k) PROVE pc'[k] # "err"
  <2>1. CASE ShutdownAct(k)
    <3>1. ~ShutdownErr(k)
      BY Zenon DEF ShutdownErr
    <3>2. CASE ShutdownNotify(k)
      BY <1>0, <3>2, Zenon DEF ShutdownNotify
    <3>3. CASE ShutdownAbort(k) \/ ShutdownOk(k) \/ ShutdownFinish(k)
      <4>1. Go(k, "taking") \/ Go(k, "finish") \/ Go(k, "notify")
        BY <3>3, Zenon DEF ShutdownAbort, ShutdownOk, ShutdownFinish
      <4> QED
        BY <1>0, <4>1 DEF Go, Typed
    <3>4. CASE ShutdownTake(k)
      <4>1. Go(k, "finish") \/ Go(k, "shutting")
        BY <3>4, Zenon DEF ShutdownTake, AfterTake
      <4> QED
        BY <1>0, <4>1 DEF Go, Typed
    <3> QED
      BY <2>1, <3>1, <3>2, <3>3, <3>4, Zenon DEF ShutdownAct, Shutdown
  <2>2. CASE CloseRead(k)
    <3>1. Go(k, "ok") \/ Go(k, "registering") \/ Go(k, "marking")
      BY <2>2 DEF CloseRead
    <3> QED
      BY <1>0, <3>1 DEF Go, Typed
  <2>3. CASE CloseRegister(k) \/ CloseMark(k) \/ CloseSignal(k) \/ CloseLocked(k)
    <3>1. Go(k, "waiting") \/ Go(k, "signaling") \/ Go(k, "queueing") \/ Go(k, "shutdown")
      BY <2>3, Zenon DEF CloseRegister, CloseMark, CloseSignal, CloseLocked
    <3> QED
      BY <1>0, <3>1 DEF Go, Typed
  <2>4. CASE Lock(k)
    <3>1. Go(k, "locked") \/ Go(k, "locking")
      BY <2>4, Zenon DEF Lock
    <3> QED
      BY <1>0, <3>1 DEF Go, Typed
  <2> QED
    BY <1>2, <2>1, <2>2, <2>3, <2>4, CloseSteps, Zenon
<1>3. CASE Next
  <2>1. ASSUME NEW s \in Starts, StartAct(s) PROVE pc'[k] # "err"
    BY <1>0, <1>1, <2>1, StartMoves, Zenon DEF Calls
  <2>2. ASSUME NEW j \in Closes, CloseAct(j) PROVE pc'[k] # "err"
    BY <1>1, <1>2, <2>2, CloseMoves, Zenon DEF Calls
  <2>3. ASSUME NEW t \in Starts, TaskAct(t) PROVE pc'[k] # "err"
    BY <1>0, <2>3, SupervisorMoves, Zenon DEF TaskMoves
  <2>4. ASSUME NEW c \in 1..config.conns, NEW e \in Events, Lose(c, e) PROVE pc'[k] # "err"
    BY <1>0, <2>4, Zenon DEF Lose, callVars
  <2> QED
    BY <1>3, <2>1, <2>2, <2>3, <2>4, Actors, Zenon
<1>4. CASE UNCHANGED <<config, vars>>
  BY <1>0, <1>4, Zenon DEF vars, callVars
<1> QED
  BY <1>3, <1>4, Zenon

\* After close() no transport is open, for any number of calls: every transport
\* ever opened was installed and shut down, or closed by the call that opened it.
\* On one thread, for an application that calls no start() while a close() runs, and
\* transports that close without an error.
THEOREM ClosesAll == Spec => [](~config.parallel /\ Calm => NothingOpen)
<1> DEFINE I == ~config.parallel => LifeInv /\ OpenInv /\ Unfailing
<1>1. Init => I
  <2>1. Init => Unfailing
    BY Zenon DEF Init, Unfailing, Calls
  <2> QED
    BY <2>1, LifeInit, OpenInit, Zenon
<1>2. I /\ [Next]_<<config, vars>> => I'
  <2>1. LifeInv => Typed
    BY Zenon DEF LifeInv, CloseInv
  <2> QED
    BY <2>1, LifeStep, OpenStep, UnfailingStep, ConfigStep, Zenon
<1>3. I => (~config.parallel /\ Calm => NothingOpen)
  <2> SUFFICES ASSUME LifeInv, Counted, Accounted, quiet, AllReturned, \A k \in Closes : pc[k] # "err",
                      NEW c \in live
               PROVE  FALSE
    BY Zenon DEF NothingOpen, OpenInv, Unfailing
  <2>1. runtime = 0
    BY LifeReturned, Zenon DEF LifeInv
  <2>2. \A p \in Calls : pc[p] \notin {"pinging", "shutting"}
    BY Zenon DEF AllReturned, Returned
  <2>3. c = 0
    BY <2>1, <2>2, Zenon DEF Accounted, Held
  <2> QED
    BY <2>3 DEF Counted
<1> QED
  BY <1>1, <1>2, <1>3, PTL DEF Spec
=============================================================================
