------------------------------ MODULE Uploads ------------------------------
(***************************************************************************)
(* Upload streams (upload_stream.rs) and the calls that announce them      *)
(* (invoke(), stream() and send() in hub_connection/mod.rs): streams and   *)
(* calls take their ids from the runtime that is active, the call is sent, *)
(* and a task per call then sends what its streams yield, while resumes    *)
(* and reconnects replace the runtime, whose ids start over.               *)
(***************************************************************************)
EXTENDS Naturals, Sequences

CONSTANTS
  Calls,        \* calls of invoke(), stream() and send()
  Sends,        \* those of send(), which take no id of their own
  Streams,      \* upload streams among their arguments
  Scenarios,    \* the calls that are made, the call each stream is an argument of,
                \* and whether there is a MessageBuffer
  MaxItems,     \* bound: items a stream yields
  MaxRuntimes   \* bound: runtimes there are one after the other

ASSUME UploadsAssumption ==
  /\ Calls \cap Streams = {}
  /\ Sends \subseteq Calls
  /\ Scenarios \subseteq [calls : SUBSET Calls, of : [Streams -> Calls], stateful : BOOLEAN]
  /\ MaxItems \in Nat
  /\ MaxRuntimes \in Nat \ {0}

VARIABLES
  of,        \* the call a stream is an argument of
  stateful,  \* whether there is a MessageBuffer
  resuming,  \* MessageBuffer::reconnect_in_progress
  state,     \* HubConnectionState
  active,    \* the runtime that is active, 0 for None
  runtimes,  \* how many there have been
  counter,   \* HubRuntime::invocation_id of each
  up,        \* the runtimes whose transport still works
  pc,        \* where a call is
  id,        \* the ids of calls and streams
  task,      \* the task of a stream: "none", "running" or "ended"
  commands,  \* the channel from the tasks of a call's streams to its sender
  sender,    \* the task that sends: "none", "running", "done" or "broken"
  yielded,   \* history: what a stream has yielded
  wire       \* history: what runtimes took, to send at once or out of the buffer

hubVars == <<stateful, resuming, state>>
vars == <<of, hubVars, active, runtimes, counter, up, pc, id, task, commands, sender, yielded, wire>>

Runtimes == 1..MaxRuntimes
NoId == [runtime |-> 0, n |-> 0]
Ids == [runtime : 0..MaxRuntimes, n : Nat]
StreamsOf(c) == {s \in Streams : of[s] = c}

Init ==
  /\ \E scenario \in Scenarios :
       /\ of = scenario.of
       /\ stateful = scenario.stateful
       /\ pc = [c \in Calls |-> IF c \in scenario.calls THEN "start" ELSE "idle"]
  /\ resuming = FALSE
  /\ state = "Connected"
  /\ active = 1
  /\ runtimes = 1
  /\ counter = [r \in Runtimes |-> 0]
  /\ up = {1}
  /\ id = [x \in Calls \cup Streams |-> NoId]
  /\ task = [s \in Streams |-> "none"]
  /\ commands = [c \in Calls |-> <<>>]
  /\ sender = [c \in Calls |-> "none"]
  /\ yielded = [s \in Streams |-> <<>>]
  /\ wire = <<>>
-----------------------------------------------------------------------------
\* A call between its first and its last stream id holds the lock on the runtime.
HoldsRuntime(c) ==
  pc[c] = "ids" /\ \E s \in StreamsOf(c) : id[s] # NoId

RequireConnected(c) ==
  /\ pc[c] = "start"
  /\ pc' = [pc EXCEPT ![c] = IF state = "Connected" THEN "ids" ELSE "failed"]
  /\ UNCHANGED <<of, hubVars, active, runtimes, counter, up, id, task, commands, sender, yielded, wire>>

\* Variant of TakeId: a call does not count.
TakeIdShared(x) ==
  /\ id' = [id EXCEPT ![x] = [runtime |-> active, n |-> counter[active] + 1]]
  /\ counter' = [counter EXCEPT ![active] = IF x \in Streams THEN @ + 1 ELSE @]

\* next_invocation_id() of the active runtime, for a call or one of its streams
TakeId(x) ==
  /\ id' = [id EXCEPT ![x] = [runtime |-> active, n |-> counter[active] + 1]]
  /\ counter' = [counter EXCEPT ![active] = @ + 1]

\* replace_streaming_params(): the next stream gets its id.
TakeStreamId(c) ==
  /\ pc[c] = "ids"
  /\ active # 0
  /\ \E s \in StreamsOf(c) : id[s] = NoId /\ TakeId(s)
  /\ UNCHANGED <<of, hubVars, active, runtimes, up, pc, task, commands, sender, yielded, wire>>

\* The lock is released; invoke() and stream() go on to take an id of their own.
IdsTaken(c) ==
  /\ pc[c] = "ids"
  /\ IF active = 0 THEN pc' = [pc EXCEPT ![c] = "failed"]
     ELSE /\ \A s \in StreamsOf(c) : id[s] # NoId
          /\ pc' = [pc EXCEPT ![c] = IF c \in Sends THEN "send" ELSE "id"]
  /\ UNCHANGED <<of, hubVars, active, runtimes, counter, up, id, task, commands, sender, yielded, wire>>

TakeCallId(c) ==
  /\ pc[c] = "id"
  /\ IF active = 0
     THEN pc' = [pc EXCEPT ![c] = "failed"] /\ UNCHANGED <<id, counter>>
     ELSE pc' = [pc EXCEPT ![c] = "send"] /\ TakeId(c)
  /\ UNCHANGED <<of, hubVars, active, runtimes, up, task, commands, sender, yielded, wire>>

Given(from, what) == wire' = Append(wire, [from |-> from, what |-> what])

\* HubRuntime::send(): the transport takes the message, or the buffer keeps it
\* for the resume that is under way.
SendOk(from, what) ==
  /\ active # 0
  /\ active \in up \/ resuming
  /\ Given(from, what)
  /\ UNCHANGED resuming

\* It fails without a runtime and once the transport is gone; a buffer has the
\* message even so, and disconnected() is called.
SendErr(from, what) ==
  \/ active = 0 /\ UNCHANGED <<wire, resuming>>
  \/ /\ active # 0 /\ active \notin up /\ ~resuming
     /\ IF stateful THEN Given(from, what) ELSE UNCHANGED wire
     /\ resuming' = stateful

\* send_through(): an error is returned to the caller, and no stream is started.
SendCall(c) ==
  /\ pc[c] = "send"
  /\ \/ SendOk(c, <<"call">>) /\ pc' = [pc EXCEPT ![c] = "sent"]
     \/ SendErr(c, <<"call">>) /\ pc' = [pc EXCEPT ![c] = "failed"]
  /\ UNCHANGED <<of, stateful, state, active, runtimes, counter, up, id, task, commands, sender, yielded>>

\* launch_upload_streams(), after a full stateful reconnect buffer was waited for
Launch(c) ==
  /\ pc[c] = "sent"
  /\ pc' = [pc EXCEPT ![c] = "launched"]
  /\ sender' = [sender EXCEPT ![c] = IF StreamsOf(c) = {} THEN "none" ELSE "running"]
  /\ task' = [s \in Streams |-> IF of[s] = c THEN "running" ELSE task[s]]
  /\ UNCHANGED <<of, hubVars, active, runtimes, counter, up, id, commands, yielded, wire>>
-----------------------------------------------------------------------------
Item(n) == <<"item", n>>
End == <<"end">>

\* A command for the sender of a stream's call; the channel is closed once it has stopped.
Command(s, what) ==
  /\ yielded' = [yielded EXCEPT ![s] = Append(@, what)]
  /\ commands' = IF sender[of[s]] = "running"
                 THEN [commands EXCEPT ![of[s]] = Append(@, [from |-> s, what |-> what])] ELSE commands
  /\ UNCHANGED <<of, hubVars, active, runtimes, counter, up, pc, id, sender, wire>>

\* The task of a stream: the next item goes to the sender; if that has stopped, the task ends.
YieldItem(s) ==
  /\ task[s] = "running"
  /\ Len(yielded[s]) < MaxItems
  /\ Command(s, Item(Len(yielded[s]) + 1))
  /\ task' = [task EXCEPT ![s] = IF sender[of[s]] = "running" THEN @ ELSE "ended"]

\* The end of the stream, or an error in place of an item, is the last command; the
\* completion that is sent for it tells which.
YieldEnd(s) ==
  /\ task[s] = "running"
  /\ Command(s, End)
  /\ task' = [task EXCEPT ![s] = "ended"]

\* Variant of SendCommand: a command that cannot be sent is skipped.
SendCommandSkip(c) ==
  /\ sender[c] = "running"
  /\ commands[c] # <<>>
  /\ LET next == Head(commands[c]) IN SendOk(next.from, next.what) \/ SendErr(next.from, next.what)
  /\ commands' = [commands EXCEPT ![c] = Tail(@)]
  /\ UNCHANGED <<of, stateful, state, active, runtimes, counter, up, pc, id, task, yielded, sender>>

\* The sender: the next command is sent; without a runtime, or when sending
\* fails, it stops, and what is in the channel is lost.
SendCommand(c) ==
  /\ sender[c] = "running"
  /\ commands[c] # <<>>
  /\ LET next == Head(commands[c])
     IN \/ /\ SendOk(next.from, next.what)
           /\ commands' = [commands EXCEPT ![c] = Tail(@)]
           /\ UNCHANGED sender
        \/ /\ SendErr(next.from, next.what)
           /\ commands' = [commands EXCEPT ![c] = <<>>]
           /\ sender' = [sender EXCEPT ![c] = "broken"]
  /\ UNCHANGED <<of, stateful, state, active, runtimes, counter, up, pc, id, task, yielded>>

\* Variant of SenderEnds: an empty channel is taken for a closed one.
SenderEndsEmpty(c) ==
  /\ sender[c] = "running"
  /\ commands[c] = <<>>
  /\ sender' = [sender EXCEPT ![c] = "done"]
  /\ UNCHANGED <<of, hubVars, active, runtimes, counter, up, pc, id, task, commands, yielded, wire>>

\* The channel is empty, and every task that could write to it has ended.
SenderEnds(c) ==
  /\ sender[c] = "running"
  /\ commands[c] = <<>>
  /\ \A s \in StreamsOf(c) : task[s] = "ended"
  /\ sender' = [sender EXCEPT ![c] = "done"]
  /\ UNCHANGED <<of, hubVars, active, runtimes, counter, up, pc, id, task, commands, yielded, wire>>
-----------------------------------------------------------------------------
callVars == <<pc, id, task, commands, sender, yielded, wire>>

\* The transport goes away.
Lose ==
  /\ active \in up
  /\ up' = up \ {active}
  /\ UNCHANGED <<of, hubVars, active, runtimes, counter, callVars>>

\* The supervisor has noticed: what it does under the state Connected.
Noticed == state = "Connected" /\ active # 0 /\ active \notin up

\* *runtime.write().await = ..: no call may be between two ids.
Replace(r) == (\A c \in Calls : ~HoldsRuntime(c)) /\ active' = r

\* A new runtime counts from the start.
NewRuntime ==
  /\ runtimes < MaxRuntimes
  /\ runtimes' = runtimes + 1
  /\ Replace(runtimes + 1)
  /\ up' = up \cup {runtimes + 1}
  /\ resuming' = FALSE

\* resume_transport(), up to the new transport and from there on
BeginResume ==
  /\ stateful /\ Noticed
  /\ resuming' = TRUE
  /\ UNCHANGED <<of, stateful, state, active, runtimes, counter, up, callVars>>

Resume ==
  /\ resuming /\ Noticed
  /\ NewRuntime
  /\ UNCHANGED <<of, stateful, state, counter, callVars>>

\* Without a buffer, or when the resume failed: the supervisor gives up, or
\* takes the runtime away, announces Reconnecting, connects, and is Connected.
GiveUp ==
  /\ Noticed \/ (active = 0 /\ state \in {"Connected", "Reconnecting"})
  /\ state' = "Disconnected"
  /\ UNCHANGED <<of, stateful, resuming, active, runtimes, counter, up, callVars>>

Take ==
  /\ Noticed
  /\ Replace(0)
  /\ resuming' = stateful
  /\ UNCHANGED <<of, stateful, state, runtimes, counter, up, callVars>>

Announce ==
  /\ state = "Connected" /\ active = 0
  /\ state' = "Reconnecting"
  /\ UNCHANGED <<of, stateful, resuming, active, runtimes, counter, up, callVars>>

\* A new connection has a buffer of its own, if the server agrees.
Reconnect ==
  /\ state = "Reconnecting" /\ active = 0
  /\ NewRuntime
  /\ stateful' \in {stateful, FALSE}
  /\ UNCHANGED <<of, state, counter, callVars>>

Restored ==
  /\ state = "Reconnecting" /\ active # 0
  /\ state' = "Connected"
  /\ UNCHANGED <<of, stateful, resuming, active, runtimes, counter, up, callVars>>

\* close(), and its shutdown_active_connection()
Close ==
  /\ state \in {"Connected", "Reconnecting"}
  /\ state' = "Disconnecting"
  /\ UNCHANGED <<of, stateful, resuming, active, runtimes, counter, up, callVars>>

Shutdown ==
  /\ state = "Disconnecting"
  /\ Replace(0)
  /\ up' = {}
  /\ state' = "Disconnected"
  /\ UNCHANGED <<of, stateful, resuming, runtimes, counter, callVars>>

Next ==
  \/ \E c \in Calls :
       \/ RequireConnected(c) \/ TakeStreamId(c) \/ IdsTaken(c) \/ TakeCallId(c)
       \/ SendCall(c) \/ Launch(c) \/ SendCommand(c) \/ SenderEnds(c)
  \/ \E s \in Streams : YieldItem(s) \/ YieldEnd(s)
  \/ Lose
  \/ BeginResume \/ Resume \/ GiveUp \/ Take \/ Announce \/ Reconnect \/ Restored
  \/ Close \/ Shutdown

Spec == Init /\ [][Next]_vars

\* Tasks that can go on do; streams yield when they like, and end some time.  A
\* write to a transport and its close, which hold the lock on the runtime, return.
FairSpec ==
  /\ Spec
  /\ \A c \in Calls : WF_vars(SendCommand(c)) /\ WF_vars(SenderEnds(c))
  /\ \A s \in Streams : WF_vars(YieldEnd(s))
-----------------------------------------------------------------------------
(***************************************************************************)
(* Properties                                                              *)
(***************************************************************************)

\* Every variable has the values it is meant to have.
TypeOK ==
  /\ of \in [Streams -> Calls]
  /\ active \in 0..runtimes
  /\ runtimes \in Runtimes
  /\ counter \in [Runtimes -> Nat]
  /\ id \in [Calls \cup Streams -> Ids]

\* What is of a stream among the entries of a channel.
From(entries, s) ==
  LET own[i \in 0..Len(entries)] ==
        IF i = 0 THEN <<>>
        ELSE IF entries[i].from = s THEN Append(own[i - 1], entries[i].what)
        ELSE own[i - 1]
  IN own[Len(entries)]

\* Connections are given what a stream yields, in order and without a gap, nothing of
\* it before the call that announces it and nothing of it after its end; and all of it
\* unless its sender had to stop, a resume or a reconnect in between or not.
UploadedInOrder ==
  \A s \in Streams :
    LET position == {i \in DOMAIN wire : wire[i].from = s}
    IN /\ \E n \in 0..Len(yielded[s]) : From(wire, s) = SubSeq(yielded[s], 1, n)
       /\ sender[of[s]] # "broken" => From(wire, s) \o From(commands[of[s]], s) = yielded[s]
       /\ \A i \in position : \E j \in 1..i - 1 : wire[j].from = of[s]

\* No two calls or streams have the same id of the same runtime, so what the server
\* reads under an id on a connection is of one stream, as long as the ids are of the
\* runtime they are used on.
OwnIds ==
  \A x, y \in Calls \cup Streams : id[x] = id[y] /\ id[x] # NoId => x = y

\* When a stream has ended, a runtime takes its end, to send it or to keep it in its
\* buffer, unless the sender had to stop.  The server learns of it if the transport
\* holds or the resume succeeds, and if the connection is the one that announced the
\* stream.
StreamsCompleted ==
  \A s \in Streams :
    task[s] = "running" ~> \/ sender[of[s]] = "broken"
                           \/ \E i \in DOMAIN wire : wire[i].from = s /\ wire[i].what = End
=============================================================================
