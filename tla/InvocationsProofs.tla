------------------------- MODULE InvocationsProofs -------------------------
(***************************************************************************)
(* Proofs about Invocations for any number of calls, connections and items *)
(* of a stream: whose answer and whose items a call gets, and that no call *)
(* ends another.                                                           *)
(***************************************************************************)
EXTENDS Invocations, TLAPS

Outcomes == {"none", "refused", "gone", "stopped", "canceled"}
Places == {"idle", "ids", "register", "transmit", "cleanup", "room", "waiting", "ended", "dropping",
           "canceling", "revoking", "done"}
StreamItem == [call : Calls, n : Nat]
Invocation == [kind : {"invoke", "cancel"}, id : Nat, call : Calls]
Answered == [kind : {"done", "item"}, id : Nat, call : Calls, n : Nat]
              \cup {[kind |-> "close", id |-> 0, call |-> None, n |-> 0]}
Work == [id : Nat, call : Calls, n : Nat]

TypeOK ==
    /\ config \in Configs
    /\ runtime \in BOOLEAN /\ counter \in Nat
    /\ supervisor \in {"watch", "taking", "aborting", "dialing", "mark", "ended"}
    /\ pending \in [Ids -> Calls \cup {None}]
    /\ pc \in [Calls -> Places]
    /\ id \in [Calls -> Nat] /\ sess \in [Calls -> Nat]
    /\ result \in [Calls -> Calls \cup Outcomes]
    /\ items \in [Calls -> Seq(StreamItem)]
    /\ session \in Nat \ {0} /\ resumes \in Nat
    /\ up \in Seq(Invocation) /\ down \in Seq(Answered) /\ served \subseteq Work

\* What RightUnlessResumed is about.
Apart == resumes = 0 /\ (config.parallel => session = 1)

-----------------------------------------------------------------------------
(* The inductive invariant *)

\* The ids taken so far are keys of the bus.
InRange == counter <= MaxIds

Sending == {"register", "transmit", "cleanup"}

\* The id of the call is one of the HubRuntime there is.
Current(c) == id[c] # 0 /\ (session = 1 \/ pc[c] \in Sending \/ sess[c] = session)

\* A call has no id before it takes one and is of no connection before it is
\* sent; there is no HubRuntime while the supervisor dials.
Progress ==
    /\ \A c \in Calls :
          /\ pc[c] \in {"idle", "ids"} => id[c] = 0
          /\ pc[c] \in {"idle", "ids", "done"} \/ id[c] # 0
          /\ pc[c] \in {"idle", "ids"} \cup Sending => sess[c] = 0
          /\ sess[c] <= session /\ (sess[c] # 0 => id[c] # 0)
          /\ pc[c] = "dropping" => result[c] # "none"
    /\ supervisor \in {"aborting", "dialing"} => ~runtime

\* Current ids are distinct, and the bus holds current calls only, each under
\* its id; between two connections it holds none.
Registered ==
    /\ \A c \in Calls : Current(c) => id[c] <= counter
    /\ \A c, d \in Calls : Current(c) /\ Current(d) /\ id[c] = id[d] => c = d
    /\ \A i \in Ids : pending[i] # None =>
          /\ Current(pending[i]) /\ id[pending[i]] = i
          /\ pc[pending[i]] # "register"
    /\ ~config.parallel /\ supervisor \in {"taking", "aborting", "dialing"} =>
          /\ \A i \in Ids : pending[i] = None
          /\ \A c \in Calls : pc[c] \notin Sending

\* An invocation or an answer is of the call it names, under its id, and of
\* this connection.
Owned(m) == sess[m.call] = session /\ id[m.call] = m.id

Belongs ==
    /\ \A i \in 1..Len(up) : up[i].kind = "invoke" => Owned(up[i])
    /\ \A r \in served : Owned(r)
    /\ \A i \in 1..Len(down) : down[i].kind # "close" => Owned(down[i])

IsItem(i, c) == down[i].kind = "item" /\ down[i].call = c

\* The server has an invocation once, and none of its items is under way
\* before it has.
Once ==
    /\ \A c \in Calls : sess[c] = 0 => items[c] = <<>>
    /\ \A r, q \in served : r.call = q.call => r = q
    /\ \A i \in 1..Len(up) : up[i].kind = "invoke" =>
          /\ items[up[i].call] = <<>>
          /\ \A r \in served : r.call # up[i].call
          /\ \A j \in 1..Len(down) : ~IsItem(j, up[i].call)
          /\ \A j \in 1..Len(up) : up[j].kind = "invoke" /\ up[j].call = up[i].call => j = i

Listening(c) == c \in Streams /\ id[c] \in Ids /\ pending[id[c]] = c /\ pc[c] # "dropping"

\* The items under way to a HubMethodStream continue those it has, without a
\* gap, up to the one the server has sent last.
Continues(c) ==
    /\ \A i \in 1..Len(down) : IsItem(i, c) =>
          /\ \/ down[i].n = Len(items[c]) + 1
             \/ \E j \in 1..(i - 1) : IsItem(j, c) /\ down[i].n = down[j].n + 1
          /\ \A j \in 1..(i - 1) : IsItem(j, c) => down[j].n < down[i].n
    /\ \A r \in served : r.call = c /\ link = "up" =>
          /\ \/ r.n = Len(items[c])
             \/ \E j \in 1..Len(down) : IsItem(j, c) /\ r.n = down[j].n
          /\ \A j \in 1..Len(down) : IsItem(j, c) => down[j].n <= r.n

CallInv ==
    /\ TypeOK /\ InRange
    /\ Progress
    /\ Apart => /\ Registered /\ Belongs /\ Once
                /\ \A c \in Calls : Listening(c) => Continues(c)
    /\ RightUnlessResumed
    /\ OnlyOwnEnd

-----------------------------------------------------------------------------
(* Typing *)

\* What Answer() gives the calls it answers and the others.
LEMMA AnswerFacts ==
    ASSUME TypeOK, NEW C, NEW r \in Calls \cup Outcomes
    PROVE  /\ Answer(C, r) \in [Calls -> Calls \cup Outcomes]
           /\ \A c \in Calls : Answer(C, r)[c] = IF c \in C /\ result[c] = "none" THEN r ELSE result[c]
  BY Zenon DEF Answer, TypeOK

\* The steps of a call keep the variables in their types.
LEMMA CallType ==
    ASSUME TypeOK, NEW c \in Calls, UNCHANGED config, CallStep(c) \/ Unforced(c)
    PROVE  TypeOK'
<1>a. \A C : \A r \in Outcomes : Answer(C, r) \in [Calls -> Calls \cup Outcomes]
  BY AnswerFacts, Zenon
<1>b. \A k \in {"invoke", "cancel"} : Append(up, [kind |-> k, id |-> id[c], call |-> c]) \in Seq(Invocation)
  BY DEF TypeOK, Invocation
<1>c. \A w \in Places : [pc EXCEPT ![c] = w] \in [Calls -> Places]
  BY Zenon DEF TypeOK
<1>t. /\ pc \in [Calls -> Places] /\ result \in [Calls -> Calls \cup Outcomes]
  BY Zenon DEF TypeOK
<1>u. /\ counter \in Nat /\ id \in [Calls -> Nat] /\ sess \in [Calls -> Nat]
      /\ session \in Nat /\ up \in Seq(Invocation)
  BY Zenon DEF TypeOK
<1>e. /\ "ids" \in Places /\ "register" \in Places /\ "transmit" \in Places
      /\ "cleanup" \in Places /\ "room" \in Places /\ "waiting" \in Places /\ "ended" \in Places
      /\ "dropping" \in Places /\ "canceling" \in Places /\ "revoking" \in Places
      /\ "done" \in Places
      /\ "refused" \in Outcomes /\ "gone" \in Outcomes /\ "stopped" \in Outcomes
  BY Zenon DEF Places, Outcomes
<1>d. counter + 1 \in Nat /\ [id EXCEPT ![c] = counter + 1] \in [Calls -> Nat]
  BY DEF TypeOK
<1> USE DEF hubVars, callVars, linkVars, netVars, Go
<1>1. CASE TakeId(c)
  <2>1. pc' \in [Calls -> Places] /\ counter' \in Nat /\ id' \in [Calls -> Nat]
    BY <1>1, <1>t, <1>u, <1>c, <1>e, <1>d, ZenonT(30) DEF TakeId, NextId
  <2>2. result' \in [Calls -> Calls \cup Outcomes]
    BY <1>1, <1>t, <1>a, <1>e DEF TakeId
  <2>3. UNCHANGED <<runtime, supervisor, pending, sess, items, linkVars, netVars>>
    BY <1>1, Zenon DEF TakeId
  <2> QED
    BY <2>1, <2>2, <2>3, Zenon DEF TypeOK
<1>2. CASE Register(c)
  BY <1>2, <1>a, <1>c, <1>e, Zenon DEF TypeOK, Register
<1>3. CASE Transmit(c)
  <2>1. pc' \in [Calls -> Places]
    BY <1>3, <1>c, <1>e, Zenon DEF Transmit
  <2>4. sess' \in [Calls -> Nat]
    BY <1>3, <1>u, Zenon DEF Transmit
  <2>2. up' \in Seq(Invocation)
    BY <1>3, <1>u, <1>b, Zenon DEF Transmit
  <2>3. UNCHANGED <<hubVars, pending, id, result, items, linkVars, down, served>>
    BY <1>3, Zenon DEF Transmit
  <2> QED
    BY <2>1, <2>2, <2>3, <2>4, Zenon DEF TypeOK
<1>4. CASE Cleanup(c)
  BY <1>4, <1>a, <1>c, <1>e, Zenon DEF TypeOK, Cleanup
<1>5. CASE Return(c)
  BY <1>5, <1>c, <1>e, Zenon DEF TypeOK, Return
<1>6. CASE RemoveStream(c)
  BY <1>6, <1>a, <1>c, <1>e, Zenon DEF TypeOK, RemoveStream, Remove
<1>7. CASE SendCancel(c)
  BY <1>7, <1>b, <1>c, <1>e, Zenon DEF TypeOK, SendCancel
<1>8. CASE Require(c)
  <2>1. pc' \in [Calls -> Places] /\ result' \in [Calls -> Calls \cup Outcomes]
    BY <1>8, <1>t, <1>a, <1>c, <1>e DEF Require
  <2>2. UNCHANGED <<hubVars, pending, id, items, sess, linkVars, netVars>>
    BY <1>8, Zenon DEF Require
  <2> QED
    BY <2>1, <2>2, Zenon DEF TypeOK
<1>9. CASE Abandon(c)
  BY <1>9, <1>c, <1>e, Zenon DEF TypeOK, Abandon
<1>10. CASE DropStream(c)
  BY <1>10, <1>a, <1>c, <1>e, Zenon DEF TypeOK, DropStream
<1>11. CASE CancelStream(c)
  BY <1>11, <1>a, <1>c, <1>e, Zenon DEF TypeOK, CancelStream
<1>12. CASE RoomMade(c) \/ RoomGone(c)
  BY <1>12, <1>c, <1>e, Zenon DEF TypeOK, RoomMade, RoomGone
<1> QED
  BY <1>1, <1>2, <1>3, <1>4, <1>5, <1>6, <1>7, <1>8, <1>9, <1>10, <1>11, <1>12, Zenon DEF CallStep, Unforced

\* The steps of the receive task, the supervisor and close() do.
LEMMA ClientType ==
    ASSUME TypeOK, UNCHANGED config, Receive \/ Supervise \/ Resume \/ SupDial \/ SupFail \/ Awaited \/ Close \/ CloseStep
    PROVE  TypeOK'
<1> USE DEF hubVars, callVars, linkVars, netVars
<1>a. \A C : \A r \in Calls \cup Outcomes : Answer(C, r) \in [Calls -> Calls \cup Outcomes]
  BY AnswerFacts, Zenon
<1>b. "canceled" \in Outcomes
  BY Zenon DEF Outcomes
<1>c. down # <<>> => Head(down) \in Answered /\ Tail(down) \in Seq(Answered)
  BY DEF TypeOK
<1>d. [i \in Ids |-> None] \in [Ids -> Calls \cup {None}]
  BY Zenon
<1>e. <<>> \in Seq(Answered) /\ <<>> \in Seq(Invocation)
  OBVIOUS
<1>f. \A i : [pending EXCEPT ![i] = None] \in [Ids -> Calls \cup {None}]
  BY Zenon DEF TypeOK
<1>1. CASE ReceiveItem
  <2>1. down' \in Seq(Answered)
    BY <1>1, <1>c, Zenon DEF ReceiveItem
  <2>2. items' \in [Calls -> Seq(StreamItem)]
    <3> DEFINE c == pending[Head(down).id]
               item == [call |-> Head(down).call, n |-> Head(down).n]
    <3>1. item \in StreamItem
      BY <1>1, <1>c DEF ReceiveItem, Answered, StreamItem
    <3>2. items \in [Calls -> Seq(StreamItem)]
      BY Zenon DEF TypeOK
    <3>3. items' = items \/ (c \in Calls /\ items' = [items EXCEPT ![c] = Append(items[c], item)])
      BY <1>1, Zenon DEF ReceiveItem, Streamed, Calls
    <3> HIDE DEF c, item
    <3>4. ASSUME c \in Calls PROVE Append(items[c], item) \in Seq(StreamItem)
      BY <3>1, <3>2, <3>4
    <3> QED
      BY <3>2, <3>3, <3>4, Zenon
  <2>3. UNCHANGED <<hubVars, pending, pc, id, result, sess, linkVars, up, served>>
    BY <1>1, Zenon DEF ReceiveItem
  <2> QED
    BY <2>1, <2>2, <2>3, Zenon DEF TypeOK
<1>2. CASE ReceiveCompletion
  <2>1. Head(down).call \in Calls \cup Outcomes
    BY <1>2, <1>c DEF ReceiveCompletion, Answered
  <2> QED
    BY <1>2, <2>1, <1>a, <1>c, <1>f, Zenon DEF ReceiveCompletion, TypeOK
<1>3. CASE ReceiveClose
  BY <1>3, <1>a, <1>b, <1>d, <1>e, Zenon DEF ReceiveClose, CancelAll, TypeOK
<1>4. CASE SupCancel
  BY <1>4, <1>a, <1>b, <1>d, Zenon DEF SupCancel, SupGoesOn, CancelAll, TypeOK
<1>5. CASE SupTake \/ SupMark \/ SupFail \/ Awaited \/ Close
  BY <1>5, Zenon DEF SupTake, SupMark, SupFail, Awaited, SupAborted, CloseDone, Close, TypeOK
<1>6. CASE Resume \/ SupDial
  <2>1. 0 \in Nat /\ session + 1 \in Nat \ {0} /\ resumes + 1 \in Nat
    BY DEF TypeOK
  <2>2. {} \subseteq Work
    BY Zenon
  <2> QED
    BY <1>6, <2>1, <2>2, <1>e, Zenon DEF Resume, SupDial, TypeOK
<1>7. CASE CloseCancel
  BY <1>7, <1>a, <1>b, <1>d, Zenon DEF CloseCancel, CancelAll, TypeOK
<1>8. CASE CloseTake
  BY <1>8, <1>e, Zenon DEF CloseTake, TypeOK
<1> QED
  BY <1>1, <1>2, <1>3, <1>4, <1>5, <1>6, <1>7, <1>8, Zenon DEF Receive, Supervise, CloseStep

\* The steps of the network and the server do.
LEMMA ServerType ==
    ASSUME TypeOK, UNCHANGED config, Lose \/ Server
    PROVE  TypeOK'
<1> USE DEF hubVars, callVars, linkVars, netVars
<1>a. \A m \in Answered : Append(down, m) \in Seq(Answered)
  BY DEF TypeOK
<1>b. \A k \in 0..Len(down) : SubSeq(down, 1, k) \in Seq(Answered)
  BY DEF TypeOK
<1>c. up # <<>> => Head(up) \in Invocation /\ Tail(up) \in Seq(Invocation)
  BY DEF TypeOK
<1>d. <<>> \in Seq(Invocation) /\ {} \subseteq Work
  OBVIOUS
<1>1. CASE Lose
  BY <1>1, <1>b, <1>d, Zenon DEF Lose, TypeOK
<1>2. CASE ServerTake
  <2> DEFINE new == [id |-> Head(up).id, call |-> Head(up).call, n |-> 0]
  <2>1. new \in Work
    BY <1>2, <1>c, Zenon DEF ServerTake, Invocation, Work
  <2>2. up' \in Seq(Invocation) /\ (served' = served \/ served' = served \cup {new})
    BY <1>2, <1>c, Zenon DEF ServerTake
  <2>3. UNCHANGED <<hubVars, pending, callVars, result, linkVars, down>>
    BY <1>2, Zenon DEF ServerTake
  <2> HIDE DEF new
  <2>4. served' \subseteq Work
    <3>1. served \subseteq Work
      BY Zenon DEF TypeOK
    <3> QED
      BY <3>1, <2>1, <2>2, Zenon
  <2> QED
    BY <2>2, <2>3, <2>4, Zenon DEF TypeOK
<1>3. ASSUME NEW r \in served, ServerItem(r) PROVE TypeOK'
  <2>0. r \in Work
    BY Zenon DEF TypeOK
  <2>1. r \in Work /\ [r EXCEPT !.n = @ + 1] \in Work
    BY <2>0 DEF Work
  <2>2. Down("item", [r EXCEPT !.n = @ + 1]) \in Answered
    BY <2>1, Zenon DEF Down, Work, Answered
  <2> QED
    BY <1>3, <2>1, <2>2, <1>a, Zenon DEF ServerItem, TypeOK
<1>4. ASSUME NEW r \in served, ServerDone(r) PROVE TypeOK'
  <2>1. Down("done", r) \in Answered
    BY Zenon DEF TypeOK, Work, Down, Answered
  <2> QED
    BY <1>4, <2>1, <1>a, Zenon DEF ServerDone, TypeOK
<1>5. CASE ServerClose
  BY <1>5, <1>a, <1>d, Zenon DEF ServerClose, Answered, TypeOK
<1> QED
  BY <1>1, <1>2, <1>3, <1>4, <1>5, Zenon DEF Server

\* Every step keeps the variables in their types.
LEMMA TypeStep ==
    ASSUME TypeOK, [Next]_<<config, vars>>
    PROVE  TypeOK'
<1>1. CASE Next
  BY <1>1, CallType, ClientType, ServerType, Zenon DEF Next
<1>2. CASE UNCHANGED <<config, vars>>
  BY <1>2, Zenon DEF vars, hubVars, callVars, linkVars, netVars, TypeOK
<1> QED
  BY <1>1, <1>2, Zenon

-----------------------------------------------------------------------------
(* Ids *)

\* What a call's step leaves alone: the places, ids and connections of others,
\* and, unless it takes an id or transmits, its own id and connection.
LEMMA CallFrame ==
    ASSUME TypeOK, NEW c \in Calls, CallStep(c) \/ Unforced(c)
    PROVE  /\ \A d \in Calls : d # c => pc'[d] = pc[d] /\ id'[d] = id[d] /\ sess'[d] = sess[d]
           /\ TakeId(c) \/ id' = id
           /\ TakeId(c) \/ counter' = counter
           /\ Transmit(c) \/ sess' = sess
           /\ UNCHANGED <<items, runtime, supervisor, linkVars, down, served>>
<1> USE DEF Go
<1>t. pc \in [Calls -> Places] /\ id \in [Calls -> Nat] /\ sess \in [Calls -> Nat]
  BY Zenon DEF TypeOK
<1>1. CASE TakeId(c)
  BY <1>1, <1>t, Zenon DEF TakeId, netVars
<1>2. CASE Transmit(c)
  BY <1>2, <1>t, Zenon DEF Transmit, hubVars
<1>3. CASE Register(c) \/ Cleanup(c) \/ Return(c)
  BY <1>3, <1>t, Zenon DEF Register, Cleanup, Return, hubVars, netVars
<1>4. CASE RemoveStream(c) \/ SendCancel(c)
  BY <1>4, <1>t, Zenon DEF RemoveStream, SendCancel, hubVars, netVars
<1>5. CASE Require(c) \/ Abandon(c)
  BY <1>5, <1>t, Zenon DEF Require, Abandon, hubVars, netVars
<1>6. CASE DropStream(c) \/ CancelStream(c) \/ RoomMade(c) \/ RoomGone(c)
  BY <1>6, <1>t, Zenon DEF DropStream, CancelStream, RoomMade, RoomGone, hubVars, netVars
<1> QED
  BY <1>1, <1>2, <1>3, <1>4, <1>5, <1>6, Zenon DEF CallStep, Unforced

\* Where a step takes the call, and what it then has.
LEMMA CallMoves ==
    ASSUME TypeOK, NEW c \in Calls
    PROVE  /\ Require(c) => pc[c] = "idle" /\ pc'[c] \in {"ids", "done"}
           /\ TakeId(c) => /\ pc[c] = "ids"
                           /\ IF runtime THEN /\ pc'[c] = "register" /\ counter' = counter + 1
                                              /\ id' = [id EXCEPT ![c] = counter + 1]
                                         ELSE pc'[c] = "done" /\ UNCHANGED <<id, counter>>
           /\ Register(c) => pc[c] = "register" /\ pc'[c] = "transmit"
           /\ Transmit(c) => /\ pc[c] = "transmit"
                             /\ \/ pc'[c] \in {"room", "waiting"} /\ sess'[c] = session
                                \/ pc'[c] = "cleanup" /\ UNCHANGED <<up, sess>>
           /\ Cleanup(c) => pc[c] = "cleanup" /\ pc'[c] \in {"dropping", "done"} /\ result'[c] = "refused"
           /\ Return(c) => pc[c] = "waiting" /\ pc'[c] \in {"ended", "done"}
           /\ RoomMade(c) \/ RoomGone(c) => pc[c] = "room" /\ pc'[c] = "waiting"
           /\ Abandon(c) => pc[c] \in {"room", "waiting"} /\ pc'[c] = "done"
           /\ DropStream(c) => pc[c] \in {"room", "waiting", "ended"} /\ pc'[c] = "dropping" /\ result'[c] # "none"
           /\ RemoveStream(c) => pc[c] = "dropping" /\ pc'[c] \in {"done", "canceling"}
           /\ SendCancel(c) => pc[c] \in {"canceling", "revoking"} /\ pc'[c] \in {"ended", "done"}
           /\ CancelStream(c) => pc[c] = "waiting" /\ pc'[c] = "revoking"
<1> USE DEF Go, At
<1>t. /\ pc \in [Calls -> Places] /\ result \in [Calls -> Calls \cup Outcomes]
      /\ sess \in [Calls -> Nat]
  BY Zenon DEF TypeOK
<1>1. Require(c) => pc[c] = "idle" /\ pc'[c] \in {"ids", "done"}
  BY <1>t, Zenon DEF Require
<1>2. TakeId(c) => /\ pc[c] = "ids"
                   /\ IF runtime THEN /\ pc'[c] = "register" /\ counter' = counter + 1
                                      /\ id' = [id EXCEPT ![c] = counter + 1]
                                 ELSE pc'[c] = "done" /\ UNCHANGED <<id, counter>>
  BY <1>t, Zenon DEF TakeId, NextId
<1>3. Register(c) => pc[c] = "register" /\ pc'[c] = "transmit"
  BY <1>t, Zenon DEF Register
<1>4. Transmit(c) => /\ pc[c] = "transmit"
                     /\ \/ pc'[c] \in {"room", "waiting"} /\ sess'[c] = session
                        \/ pc'[c] = "cleanup" /\ UNCHANGED <<up, sess>>
  BY <1>t, Zenon DEF Transmit
<1>5. Cleanup(c) => pc[c] = "cleanup" /\ pc'[c] \in {"dropping", "done"} /\ result'[c] = "refused"
  BY <1>t, Zenon DEF Cleanup, Answer
<1>6. Return(c) => pc[c] = "waiting" /\ pc'[c] \in {"ended", "done"}
  BY <1>t, Zenon DEF Return
<1>7. Abandon(c) => pc[c] \in {"room", "waiting"} /\ pc'[c] = "done"
  BY <1>t, Zenon DEF Abandon
<1>8. DropStream(c) => pc[c] \in {"room", "waiting", "ended"} /\ pc'[c] = "dropping" /\ result'[c] # "none"
  BY <1>t, Zenon DEF DropStream, Answer
<1>9. RemoveStream(c) => pc[c] = "dropping" /\ pc'[c] \in {"done", "canceling"}
  BY <1>t, Zenon DEF RemoveStream
<1>10. SendCancel(c) => pc[c] \in {"canceling", "revoking"} /\ pc'[c] \in {"ended", "done"}
  BY <1>t, Zenon DEF SendCancel
<1>11. CancelStream(c) => pc[c] = "waiting" /\ pc'[c] = "revoking"
  BY <1>t, Zenon DEF CancelStream
<1>12. RoomMade(c) \/ RoomGone(c) => pc[c] = "room" /\ pc'[c] = "waiting"
  BY <1>t, Zenon DEF RoomMade, RoomGone
<1> QED
  BY <1>1, <1>2, <1>3, <1>4, <1>5, <1>6, <1>7, <1>8, <1>9, <1>10, <1>11, <1>12, Zenon

\* Once a call has an outcome it keeps one.
LEMMA OutcomeStays ==
    ASSUME TypeOK, Next, NEW c \in Calls, result[c] # "none"
    PROVE  result'[c] # "none"
<1>a. \A C, r : Answer(C, r)[c] = result[c]
  BY Zenon DEF Answer
<1>b. result \in [Calls -> Calls \cup Outcomes] /\ \A C, r : Answer(C, r) \in [Calls -> {r} \cup Calls \cup Outcomes]
  BY Zenon DEF TypeOK, Answer
<1>1. ASSUME NEW d \in Calls, CallStep(d) \/ Unforced(d) PROVE result'[c] # "none"
  BY <1>1, <1>a, <1>b DEF CallStep, Unforced, TakeId, Register, Transmit, Cleanup, Return,
     RemoveStream, Remove, SendCancel, Require, Abandon, RoomMade, RoomGone, DropStream, CancelStream
<1>2. CASE Receive
  BY <1>2, <1>a DEF Receive, ReceiveCompletion, ReceiveItem, ReceiveClose, CancelAll
<1>3. CASE Supervise \/ CloseStep
  BY <1>3, <1>a DEF Supervise, SupCancel, SupTake, SupMark, CloseStep, CloseCancel, CloseTake, CancelAll
<1>4. CASE Resume \/ SupDial \/ SupFail \/ Awaited \/ Close \/ Lose \/ Server
  BY <1>4, Zenon DEF Resume, SupDial, SupFail, Awaited, SupAborted, CloseDone, Close, Lose, Server,
     ServerTake, ServerItem, ServerDone, ServerClose
<1> QED
  BY <1>1, <1>2, <1>3, <1>4, Zenon DEF Next

\* What the steps of everything but the calls leave alone.
LEMMA OtherFrame ==
    ASSUME Receive \/ Supervise \/ Resume \/ SupDial \/ SupFail \/ Awaited \/ Close \/ CloseStep \/ Lose \/ Server
    PROVE  /\ UNCHANGED <<pc, id, sess>>
           /\ ReceiveItem \/ UNCHANGED items
           /\ (SupDial /\ session' = session + 1) \/ session' = session
           /\ (Resume /\ resumes' = resumes + 1) \/ resumes' = resumes
           /\ Resume \/ SupDial \/ counter' = counter
<1> USE DEF hubVars, callVars, linkVars, netVars
<1>1. CASE Receive
  BY <1>1, Zenon DEF Receive, ReceiveCompletion, ReceiveItem, ReceiveClose
<1>2. CASE Supervise \/ CloseStep
  BY <1>2, Zenon DEF Supervise, SupCancel, SupTake, SupMark, CloseStep, CloseCancel, CloseTake
<1>3. CASE Resume \/ SupDial \/ SupFail \/ Awaited \/ Close
  BY <1>3, Zenon DEF Resume, SupDial, SupFail, Awaited, SupAborted, CloseDone, Close
<1>4. CASE Lose \/ Server
  BY <1>4, Zenon DEF Lose, Server, ServerTake, ServerItem, ServerDone, ServerClose
<1> QED
  BY <1>1, <1>2, <1>3, <1>4, Zenon

\* Every step keeps Progress: a call takes its one id before it registers.
LEMMA ProgressStep ==
    ASSUME TypeOK, Progress, Next
    PROVE  Progress'
<1> DEFINE Call(c) == /\ pc[c] \in {"idle", "ids"} => id[c] = 0
                      /\ pc[c] \in {"idle", "ids", "done"} \/ id[c] # 0
                      /\ pc[c] \in {"idle", "ids"} \cup Sending => sess[c] = 0
                      /\ sess[c] <= session /\ (sess[c] # 0 => id[c] # 0)
                      /\ pc[c] = "dropping" => result[c] # "none"
<1>a. (\A c \in Calls : Call(c)) /\ (supervisor \in {"aborting", "dialing"} => ~runtime)
  BY Zenon DEF Progress
<1>b. counter \in Nat /\ session \in Nat \ {0} /\ \A c \in Calls : id[c] \in Nat /\ sess[c] \in Nat
  BY Zenon DEF TypeOK
<1>c. \A c \in Calls : result[c] # "none" => result'[c] # "none"
  BY OutcomeStays, Zenon
<1>1. ASSUME NEW c \in Calls, CallStep(c) \/ Unforced(c) PROVE Progress'
  <2>1. /\ \A d \in Calls : d # c => pc'[d] = pc[d] /\ id'[d] = id[d] /\ sess'[d] = sess[d]
        /\ TakeId(c) \/ id' = id
        /\ TakeId(c) \/ counter' = counter
        /\ Transmit(c) \/ sess' = sess
        /\ UNCHANGED <<runtime, supervisor, session>>
    BY <1>1, CallFrame, Zenon DEF linkVars
  <2>2. \A d \in Calls : d # c => Call(d)'
    BY <2>1, <1>a, <1>c, Zenon
  <2>3. Call(c)'
    <3>1. CASE TakeId(c)
      <4>1. counter + 1 # 0
        BY <1>b
      <4>0. pc[c] = "ids" /\ sess' = sess /\ session' = session
        BY <2>1, <3>1, CallMoves, Zenon
      <4>2. sess'[c] = 0 /\ session' = session /\ 0 <= session
        BY <4>0, <1>a, <1>b, Zenon
      <4>3. CASE runtime
        <5>1. pc'[c] = "register" /\ id'[c] = counter + 1
          BY <3>1, <4>3, CallMoves, Zenon DEF TypeOK
        <5> QED
          BY <4>1, <4>2, <5>1, Zenon DEF Sending
      <4>4. CASE ~runtime
        BY <3>1, <4>4, <4>2, CallMoves, Zenon DEF Sending
      <4> QED
        BY <4>3, <4>4, Zenon
    <3>2. CASE Transmit(c)
      <4>0. pc[c] = "transmit" /\ ~TakeId(c)
        BY <3>2, CallMoves, Zenon
      <4>1. id'[c] # 0 /\ session' = session /\ sess[c] = 0
        BY <4>0, <1>a, <2>1, Zenon DEF Sending
      <4>3. session <= session /\ 0 <= session
        BY <1>b
      <4>2. \/ pc'[c] \in {"room", "waiting"} /\ sess'[c] = session
            \/ pc'[c] = "cleanup" /\ sess'[c] = sess[c]
        BY <3>2, CallMoves, Zenon
      <4> QED
        BY <4>1, <4>2, <4>3, Zenon DEF Sending
    <3>3. CASE ~TakeId(c) /\ ~Transmit(c)
      <4>1. id'[c] = id[c] /\ sess'[c] = sess[c] /\ session' = session
        BY <2>1, <3>3, Zenon
      <4>2. /\ pc[c] \notin {"idle", "ids"} \/ pc'[c] \in {"ids", "done"}
            /\ pc'[c] \in {"idle", "ids"} => pc[c] \in {"idle", "ids"}
            /\ pc'[c] \in Sending => pc[c] \in Sending
            /\ pc'[c] \notin {"ids", "done"} => pc[c] \notin {"idle", "ids", "done"}
            /\ pc'[c] = "dropping" => result'[c] # "none"
        BY <1>1, <3>3, CallMoves, Zenon DEF CallStep, Unforced, Sending
      <4> QED
        BY <4>1, <4>2, <1>a, Zenon
    <3> QED
      BY <3>1, <3>2, <3>3, Zenon
  <2> QED
    BY <2>1, <2>2, <2>3, <1>a, Zenon DEF Progress
<1>2. CASE Receive \/ Supervise \/ Resume \/ SupDial \/ SupFail \/ Awaited \/ Close \/ CloseStep \/ Lose \/ Server
  <2>1. UNCHANGED <<pc, id, sess>> /\ session <= session'
    BY <1>2, <1>b, OtherFrame
  <2>2. \A c \in Calls : sess[c] <= session'
    <3>1. session' \in Nat
      BY <1>2, OtherFrame, <1>b
    <3> QED
      BY <3>1, <2>1, <1>a, <1>b
  <2>3. supervisor' \in {"aborting", "dialing"} => ~runtime'
    <3>1. CASE Supervise \/ Awaited
      BY <1>2, <3>1, <1>a, Zenon DEF Supervise, SupCancel, SupGoesOn, SupTake, SupMark, Awaited, SupAborted, CloseDone
    <3>2. CASE Receive \/ Resume \/ SupDial \/ SupFail \/ Close \/ CloseStep \/ Lose \/ Server
      BY <3>2, <1>a, Zenon DEF Receive, ReceiveCompletion, ReceiveItem, ReceiveClose, CloseStep, CloseCancel,
         CloseTake, Resume, SupDial, SupFail, Close, Lose, Server, ServerTake, ServerItem, ServerDone,
         ServerClose, hubVars
    <3> QED
      BY <1>2, <3>1, <3>2, Zenon
  <2> QED
    BY <2>1, <2>2, <2>3, <1>a, <1>c, Zenon DEF Progress
<1> QED
  BY <1>1, <1>2, Zenon DEF Next

\* A HubRuntime starts counting at 0 and gives out no more ids than the bus has
\* places for.
LEMMA RangeStep ==
    ASSUME TypeOK, InRange, Next
    PROVE  InRange'
<1>t. counter \in Nat /\ MaxIds \in Nat /\ counter <= MaxIds
  BY InvocationsAssumption, Zenon DEF TypeOK, InRange
<1>1. ASSUME NEW c \in Calls, CallStep(c) \/ Unforced(c) PROVE InRange'
  <2>1. CASE TakeId(c) /\ runtime
    <3>1. counter < MaxIds /\ counter' = counter + 1
      BY <2>1, Zenon DEF TakeId
    <3> QED
      BY <3>1, <1>t DEF InRange
  <2>2. CASE TakeId(c) /\ ~runtime
    BY <2>2, <1>t, Zenon DEF TakeId, InRange
  <2>3. CASE ~TakeId(c)
    BY <2>3, <1>1, <1>t, CallFrame, Zenon DEF InRange
  <2> QED
    BY <2>1, <2>2, <2>3, Zenon
<1>2. ASSUME Receive \/ Supervise \/ Resume \/ SupDial \/ SupFail \/ Awaited \/ Close \/ CloseStep \/ Lose \/ Server
      PROVE  InRange'
  <2>1. counter' = counter \/ counter' = 0
    BY <1>2, OtherFrame, Zenon DEF Resume, SupDial
  <2> QED
    BY <2>1, <1>t DEF InRange
<1> QED
  BY <1>1, <1>2, Zenon DEF Next

\* The id of a call of the HubRuntime there is is a key of the bus.
LEMMA IdInRange ==
    ASSUME TypeOK, InRange, Progress, Registered, NEW c \in Calls, Current(c)
    PROVE  id[c] \in Ids
<1>1. id[c] \in Nat /\ id[c] # 0 /\ counter \in Nat
  BY Zenon DEF TypeOK, Current
<1>2. id[c] <= counter
  BY Zenon DEF Registered
<1> QED
  BY <1>1, <1>2, InvocationsAssumption DEF Ids, InRange

\* A step after which no transport was resumed, and of the same or a
\* non-parallel environment, is one before which neither was.
LEMMA ApartBefore ==
    ASSUME TypeOK, Next, Apart'
    PROVE  /\ Apart /\ ~Resume
           /\ SupDial => ~config.parallel
<1>1. config' = config
  BY Zenon DEF Next
<1>2. session \in Nat \ {0} /\ resumes \in Nat
  BY Zenon DEF TypeOK
<1>3. CASE UNCHANGED linkVars
  <2>1. ~Resume /\ ~SupDial
    <3>1. Resume => resumes' # resumes
      BY <1>2 DEF Resume
    <3>2. SupDial => session' # session
      BY <1>2 DEF SupDial
    <3> QED
      BY <1>3, <3>1, <3>2, Zenon DEF linkVars
  <2> QED
    BY <1>1, <1>3, <2>1, Zenon DEF Apart, linkVars
<1>4. CASE Receive \/ Supervise \/ Resume \/ SupDial \/ SupFail \/ Awaited \/ Close \/ CloseStep \/ Lose \/ Server
  <2>1. /\ (SupDial /\ session' = session + 1) \/ session' = session
        /\ (Resume /\ resumes' = resumes + 1) \/ resumes' = resumes
    BY <1>4, OtherFrame, Zenon
  <2>2. resumes' = resumes /\ ~Resume
    <3>1. Resume => resumes' = resumes + 1
      BY Zenon DEF Resume
    <3> QED
      BY <2>1, <3>1, <1>2 DEF Apart
  <2>3. SupDial => session' = session + 1
    BY Zenon DEF SupDial
  <2>4. SupDial => session' # 1
    BY <2>3, <1>2
  <2> QED
    BY <1>1, <2>1, <2>2, <2>4, Zenon DEF Apart
<1>5. ASSUME NEW c \in Calls, CallStep(c) \/ Unforced(c) PROVE UNCHANGED linkVars
  BY <1>5, CallFrame, Zenon
<1> QED
  BY <1>3, <1>4, <1>5, Zenon DEF Next

\* Which calls are of the HubRuntime there is after a step of a call: those
\* that were, but for one whose send has failed, and one that takes an id.
LEMMA CurrentCall ==
    ASSUME TypeOK, Progress, NEW c \in Calls, CallStep(c) \/ Unforced(c)
    PROVE  /\ \A d \in Calls : Current(d)' => Current(d) \/ (d = c /\ TakeId(c) /\ runtime)
           /\ \A d \in Calls : Current(d) => Current(d)' \/ (d = c /\ Cleanup(c))
<1>1. /\ \A d \in Calls : d # c => pc'[d] = pc[d] /\ id'[d] = id[d] /\ sess'[d] = sess[d]
      /\ TakeId(c) \/ id' = id
      /\ Transmit(c) \/ sess' = sess
      /\ session' = session
  BY CallFrame, Zenon DEF linkVars
<1>2. \A d \in Calls : d # c => (Current(d)' <=> Current(d))
  BY <1>1, Zenon DEF Current
<1>3. CASE TakeId(c)
  <2>1. pc[c] = "ids" /\ ~Transmit(c)
    BY <1>3, CallMoves, Zenon
  <2>2. id[c] = 0
    BY <2>1, Zenon DEF Progress
  <2>3. ~runtime => id' = id
    BY <1>3, CallMoves, Zenon
  <2> QED
    BY <1>2, <1>3, <2>2, <2>3, Zenon DEF Current
<1>4. CASE Transmit(c)
  <2>1. pc[c] = "transmit" /\ ~TakeId(c) /\ (sess'[c] = session \/ pc'[c] = "cleanup")
    BY <1>4, CallMoves, Zenon
  <2>2. id' = id
    BY <1>1, <2>1, Zenon
  <2>3. Current(c)' <=> Current(c)
    BY <1>1, <2>1, <2>2, Zenon DEF Current, Sending
  <2> QED
    BY <1>2, <2>3, Zenon
<1>5. CASE ~TakeId(c) /\ ~Transmit(c)
  <2>1. /\ pc'[c] \in Sending => pc[c] \in Sending
        /\ pc[c] \in Sending => pc'[c] \in Sending \/ Cleanup(c)
    BY <1>5, CallMoves, Zenon DEF CallStep, Unforced, Sending
  <2>2. id' = id /\ sess' = sess
    BY <1>1, <1>5, Zenon
  <2> QED
    BY <1>1, <1>2, <2>1, <2>2, Zenon DEF Current
<1> QED
  BY <1>3, <1>4, <1>5, Zenon

\* A step of a call registers the call itself or removes entries; a call whose
\* send has failed leaves no entry under its id.
LEMMA PendingCall ==
    ASSUME TypeOK, NEW c \in Calls, CallStep(c) \/ Unforced(c)
    PROVE  /\ \A i \in Ids : \/ pending'[i] \in {pending[i], None}
                             \/ Register(c) /\ i = id[c] /\ pending'[i] = c
           /\ Cleanup(c) \/ RemoveStream(c) => \A i \in Ids : i = id[c] => pending'[i] = None
<1>t. pending \in [Ids -> Calls \cup {None}]
  BY Zenon DEF TypeOK
<1>1. CASE Register(c)
  <2>1. ~Cleanup(c) /\ ~RemoveStream(c)
    BY <1>1, CallMoves, Zenon
  <2> QED
    BY <1>1, <1>t, <2>1, Zenon DEF Register
<1>2. CASE Cleanup(c) \/ RemoveStream(c) \/ CancelStream(c)
  <2>1. pending' = [pending EXCEPT ![id[c]] = None]
    BY <1>2, Zenon DEF Cleanup, RemoveStream, Remove, CancelStream
  <2> QED
    BY <2>1, <1>t, Zenon
<1>3. CASE TakeId(c) \/ Transmit(c) \/ Return(c) \/ SendCancel(c)
  <2>1. pending' = pending /\ ~Cleanup(c) /\ ~RemoveStream(c)
    <3>1. pending' = pending
      BY <1>3, Zenon DEF TakeId, Transmit, Return, SendCancel
    <3> QED
      BY <1>3, <3>1, CallMoves, Zenon
  <2> QED
    BY <2>1, Zenon
<1>4. CASE Require(c) \/ Abandon(c) \/ DropStream(c) \/ RoomMade(c) \/ RoomGone(c)
  <2>1. pending' = pending /\ ~Cleanup(c) /\ ~RemoveStream(c)
    <3>1. pending' = pending
      BY <1>4, Zenon DEF Require, Abandon, RoomMade, RoomGone, DropStream
    <3> QED
      BY <1>4, <3>1, CallMoves, Zenon
  <2> QED
    BY <2>1, Zenon
<1> QED
  BY <1>1, <1>2, <1>3, <1>4, Zenon DEF CallStep, Unforced

\* A step of a call keeps Registered: the id it takes is a new one, and it
\* takes none while the supervisor replaces the HubRuntime.
LEMMA RegisteredCall ==
    ASSUME TypeOK, Progress, Registered, UNCHANGED config,
           NEW c \in Calls, CallStep(c) \/ Unforced(c)
    PROVE  Registered'
<1>t. /\ counter \in Nat /\ id \in [Calls -> Nat] /\ pending \in [Ids -> Calls \cup {None}]
      /\ pc \in [Calls -> Places]
  BY Zenon DEF TypeOK
<1>u. pending' \in [Ids -> Calls \cup {None}]
  BY CallType, Zenon DEF TypeOK
<1>f. /\ \A d \in Calls : d # c => pc'[d] = pc[d] /\ id'[d] = id[d]
      /\ TakeId(c) \/ id' = id
      /\ TakeId(c) \/ counter' = counter
      /\ supervisor' = supervisor
  BY CallFrame, Zenon
<1>g. TakeId(c) => /\ pc[c] = "ids" /\ id[c] = 0
                   /\ runtime => /\ counter' = counter + 1
                                 /\ id' = [id EXCEPT ![c] = counter + 1]
                   /\ ~runtime => UNCHANGED <<id, counter>> /\ pc'[c] = "done"
  <2>1. pc[c] = "ids" => id[c] = 0
    BY Zenon DEF Progress
  <2> QED
    BY <2>1, CallMoves, Zenon
<1>k. /\ \A d \in Calls : Current(d)' => Current(d) \/ (d = c /\ TakeId(c) /\ runtime)
      /\ \A d \in Calls : Current(d) => Current(d)' \/ (d = c /\ Cleanup(c))
  BY CurrentCall, Zenon
<1>p. /\ \A i \in Ids : \/ pending'[i] \in {pending[i], None}
                        \/ Register(c) /\ i = id[c] /\ pending'[i] = c
      /\ Cleanup(c) => \A i \in Ids : i = id[c] => pending'[i] = None
  BY PendingCall, Zenon
<1>r. /\ \A d \in Calls : Current(d) => id[d] <= counter
      /\ \A d, e \in Calls : Current(d) /\ Current(e) /\ id[d] = id[e] => d = e
      /\ \A i \in Ids : pending[i] # None =>
            /\ Current(pending[i]) /\ id[pending[i]] = i
            /\ pc[pending[i]] # "register"
      /\ ~config.parallel /\ supervisor \in {"taking", "aborting", "dialing"} =>
            /\ \A i \in Ids : pending[i] = None
            /\ \A d \in Calls : pc[d] \notin Sending
  BY Zenon DEF Registered
<1>n. None \notin Calls /\ "supervisor" \notin Calls
  BY InvocationsAssumption, Zenon
<1>i. \A d \in Calls : Current(d) => id'[d] = id[d]
  <2>1. TakeId(c) => ~Current(c)
    BY <1>g, Zenon DEF Current
  <2> QED
    BY <1>f, <2>1, Zenon
<1>1. ASSUME NEW d \in Calls, Current(d)' PROVE id'[d] <= counter'
  <2>1. CASE Current(d)
    <3>1. id'[d] = id[d] /\ id[d] <= counter /\ id[d] \in Nat
      BY <1>i, <1>r, <1>t, <2>1, Zenon
    <3>2. counter' = counter \/ counter' = counter + 1
      BY <1>f, <1>g, Zenon
    <3> QED
      BY <3>1, <3>2, <1>t
  <2>2. CASE d = c /\ TakeId(c) /\ runtime
    BY <2>2, <1>g, <1>t
  <2> QED
    BY <1>1, <1>k, <2>1, <2>2, Zenon
<1>2. ASSUME NEW d \in Calls, NEW e \in Calls, Current(d)', Current(e)', id'[d] = id'[e] PROVE d = e
  <2>1. CASE Current(d) /\ Current(e)
    BY <1>2, <2>1, <1>i, <1>r, Zenon
  <2>2. ASSUME TakeId(c), runtime, NEW g \in Calls, Current(g) PROVE id'[g] # id'[c]
    <3>1. id'[c] = counter + 1 /\ id'[g] = id[g] /\ id[g] <= counter /\ id[g] \in Nat
      BY <2>2, <1>g, <1>i, <1>r, <1>t
    <3> QED
      BY <3>1, <1>t
  <2> QED
    BY <1>2, <1>k, <2>1, <2>2, Zenon
<1>3. ASSUME NEW i \in Ids, NEW d \in Calls, pending'[i] = d
      PROVE  Current(d)' /\ id'[d] = i /\ pc'[d] # "register"
  <2>1. CASE pending'[i] = pending[i]
    <3>1. Current(d) /\ id[d] = i /\ pc[d] # "register"
      BY <1>3, <2>1, <1>r, <1>n
    <3>2. ~(d = c /\ Cleanup(c))
      BY <1>3, <3>1, <1>p, <1>n, Zenon
    <3>3. d = c => pc'[c] # "register"
      <4>1. ~TakeId(c) => pc'[c] # "register"
        BY CallMoves, Zenon DEF CallStep, Unforced
      <4>2. TakeId(c) => ~Current(c)
        BY <1>g, Zenon DEF Current
      <4> QED
        BY <3>1, <4>1, <4>2, Zenon
    <3> QED
      BY <3>1, <3>2, <3>3, <1>f, <1>i, <1>k, Zenon
  <2>2. CASE Register(c) /\ i = id[c] /\ d = c
    <3>1. pc[c] = "register" /\ pc'[c] = "transmit" /\ ~Cleanup(c)
      BY <2>2, CallMoves, Zenon
    <3>2. Current(c)
      BY <3>1, Zenon DEF Progress, Current, Sending
    <3> QED
      BY <2>2, <3>1, <3>2, <1>i, <1>k, Zenon
  <2> QED
    BY <1>3, <2>1, <2>2, <1>p, <1>n, Zenon
<1>4. ASSUME ~config.parallel, supervisor \in {"taking", "aborting", "dialing"}
      PROVE  (\A i \in Ids : pending'[i] = None) /\ \A d \in Calls : pc'[d] \notin Sending
  <2>1. (\A i \in Ids : pending[i] = None) /\ \A d \in Calls : pc[d] \notin Sending
    BY <1>4, <1>r, Zenon
  <2>2. ~Register(c) /\ ~Transmit(c)
    BY <2>1, CallMoves, Zenon DEF Sending
  <2>3. ~(TakeId(c) /\ runtime)
    <3>1. TakeId(c) => supervisor # "taking"
      BY <1>4, <1>n, Zenon DEF TakeId, At, Turn
    <3>2. supervisor \in {"aborting", "dialing"} => ~runtime
      BY Zenon DEF Progress
    <3> QED
      BY <1>4, <3>1, <3>2, Zenon
  <2>4. pc'[c] \notin Sending
    <3>1. CASE TakeId(c)
      BY <2>3, <3>1, <1>g, Zenon DEF Sending
    <3>2. CASE ~TakeId(c)
      BY <2>2, <3>2, CallMoves, Zenon DEF CallStep, Unforced, Sending
    <3> QED
      BY <3>1, <3>2, Zenon
  <2>5. \A i \in Ids : pending'[i] = None
    BY <2>1, <2>2, <1>p, Zenon
  <2> QED
    BY <2>1, <2>4, <2>5, <1>f, Zenon
<1>5. \A i \in Ids : pending'[i] # None => pending'[i] \in Calls
  BY <1>u, Zenon
<1> QED
  BY <1>1, <1>2, <1>3, <1>4, <1>5, <1>f, Zenon DEF Registered

\* The steps of everything but the calls only remove entries of the bus.
LEMMA PendingOther ==
    ASSUME TypeOK, Receive \/ Supervise \/ Resume \/ SupDial \/ SupFail \/ Awaited \/ Close \/ CloseStep \/ Lose \/ Server
    PROVE  \A i \in Ids : pending'[i] \in {pending[i], None}
<1>t. pending \in [Ids -> Calls \cup {None}]
  BY Zenon DEF TypeOK
<1>1. CASE ReceiveCompletion
  <2>1. pending' = [pending EXCEPT ![Head(down).id] = None]
    BY <1>1, Zenon DEF ReceiveCompletion
  <2> QED
    BY <2>1, <1>t, Zenon
<1>2. CASE ReceiveClose \/ SupCancel \/ CloseCancel
  BY <1>2, Zenon DEF ReceiveClose, SupCancel, CloseCancel, CancelAll
<1>3. CASE ReceiveItem \/ SupTake \/ SupMark \/ CloseTake
  BY <1>3, Zenon DEF ReceiveItem, SupTake, SupMark, CloseTake
<1>4. CASE Resume \/ SupDial \/ SupFail \/ Awaited \/ Close \/ Lose \/ Server
  <2>1. pending' = pending
    BY <1>4, Zenon DEF Resume, SupDial, SupFail, Awaited, SupAborted, CloseDone, Close, Lose, Server,
     ServerTake, ServerItem, ServerDone, ServerClose
  <2> QED
    BY <2>1, Zenon
<1> QED
  BY <1>1, <1>2, <1>3, <1>4, Zenon DEF Receive, Supervise, CloseStep

\* The steps of everything but the calls keep Registered: a new HubRuntime
\* finds an empty bus and no call under way.
LEMMA RegisteredOther ==
    ASSUME TypeOK, Progress, Registered, UNCHANGED config, ~Resume, SupDial => ~config.parallel,
           Receive \/ Supervise \/ SupDial \/ SupFail \/ Awaited \/ Close \/ CloseStep \/ Lose \/ Server
    PROVE  Registered'
<1>t. /\ session \in Nat \ {0} /\ sess \in [Calls -> Nat] /\ pending \in [Ids -> Calls \cup {None}]
      /\ id \in [Calls -> Nat]
  BY Zenon DEF TypeOK
<1>f. /\ UNCHANGED <<pc, id, sess>>
      /\ (SupDial /\ session' = session + 1) \/ session' = session
      /\ SupDial \/ counter' = counter
  BY OtherFrame, Zenon
<1>p. \A i \in Ids : pending'[i] \in {pending[i], None}
  BY PendingOther, Zenon
<1>n. \A i \in Ids : pending[i] # None => pending[i] \in Calls
  BY <1>t, Zenon
<1>1. CASE SupDial
  <2>1. /\ \A i \in Ids : pending[i] = None
        /\ \A c \in Calls : pc[c] \notin Sending
    BY <1>1, Zenon DEF SupDial, Registered
  <2>2. \A i \in Ids : pending'[i] = None
    BY <2>1, <1>p, Zenon
  <2>3. session' = session + 1 /\ supervisor' = "mark"
    BY <1>1, Zenon DEF SupDial
  <2>4. \A c \in Calls : sess[c] # session' /\ session' # 1
    <3>1. \A c \in Calls : sess[c] <= session /\ sess[c] \in Nat
      BY <1>t, Zenon DEF Progress
    <3> QED
      BY <3>1, <2>3, <1>t
  <2>5. \A c \in Calls : ~Current(c)'
    BY <2>1, <2>4, <1>f, Zenon DEF Current
  <2> QED
    BY <2>2, <2>3, <2>5, Zenon DEF Registered
<1>2. CASE ~SupDial
  <2>0. session' = session /\ counter' = counter /\ UNCHANGED <<pc, id, sess>>
    BY <1>2, <1>f, Zenon
  <2>1. \A c \in Calls : Current(c)' <=> Current(c)
    BY <2>0, Zenon DEF Current
  <2>2. ASSUME ~config.parallel, supervisor' \in {"taking", "aborting", "dialing"}
        PROVE  (\A i \in Ids : pending'[i] = None) /\ \A c \in Calls : pc'[c] \notin Sending
    <3>1. CASE supervisor \in {"taking", "aborting", "dialing"}
      BY <2>2, <3>1, <1>f, <1>p, Zenon DEF Registered
    <3>2. CASE supervisor \notin {"taking", "aborting", "dialing"}
      <4>1. SupCancel
        BY <1>2, <2>2, <3>2, Zenon DEF Receive, ReceiveCompletion, ReceiveItem, ReceiveClose, Supervise,
           SupTake, SupMark, CloseStep, CloseCancel, CloseTake, SupFail, Awaited, SupAborted, CloseDone, Close, Lose, Server,
           ServerTake, ServerItem, ServerDone, ServerClose, hubVars
      <4>2. \A i \in Ids : pending'[i] = None
        BY <4>1, Zenon DEF SupCancel, CancelAll
      <4>3. "supervisor" \notin Calls
        BY InvocationsAssumption, Zenon
      <4>4. \A c \in Calls : pc[c] \notin Sending
        BY <2>2, <4>1, <4>3, Zenon DEF SupCancel, Turn, Sending
      <4> QED
        BY <4>2, <4>4, <1>f, Zenon
    <3> QED
      BY <3>1, <3>2, Zenon
  <2>3. \A i \in Ids : pending'[i] # None => pending'[i] = pending[i]
    BY <1>p, Zenon
  <2>4. /\ \A c \in Calls : Current(c)' => id'[c] <= counter'
        /\ \A c, d \in Calls : Current(c)' /\ Current(d)' /\ id'[c] = id'[d] => c = d
    BY <2>0, <2>1, Zenon DEF Registered
  <2>5. ASSUME NEW i \in Ids, pending'[i] # None
        PROVE  Current(pending[i])' /\ id'[pending'[i]] = i /\ pc'[pending'[i]] # "register"
    <3>1. pending'[i] = pending[i] /\ Current(pending[i]) /\ id[pending[i]] = i /\ pc[pending[i]] # "register"
      BY <2>3, <2>5, Zenon DEF Registered
    <3> QED
      BY <2>0, <3>1, Zenon DEF Current
  <2> QED
    BY <2>2, <2>4, <2>5, Zenon DEF Registered
<1> QED
  BY <1>1, <1>2, Zenon

\* While the calls of two connections stay apart, every step keeps Registered.
LEMMA RegisteredStep ==
    ASSUME TypeOK, Progress, Registered, Next, Apart'
    PROVE  Registered'
<1>1. ~Resume /\ (SupDial => ~config.parallel) /\ UNCHANGED config
  BY ApartBefore, Zenon DEF Next
<1> QED
  BY <1>1, RegisteredCall, RegisteredOther, Zenon DEF Next

-----------------------------------------------------------------------------
(* Messages *)

\* The elements of the sequences the channels are built with.
LEMMA SeqFacts ==
    ASSUME NEW S, NEW s \in Seq(S)
    PROVE  /\ Len(s) \in Nat
           /\ \A e \in S : /\ Append(s, e) \in Seq(S) /\ Len(Append(s, e)) = Len(s) + 1
                           /\ Append(s, e)[Len(s) + 1] = e
                           /\ \A i \in 1..Len(s) : Append(s, e)[i] = s[i]
           /\ s # <<>> => /\ Head(s) = s[1] /\ 1 \in 1..Len(s) /\ Len(Tail(s)) = Len(s) - 1
                          /\ \A i \in 1..(Len(s) - 1) : i + 1 \in 1..Len(s) /\ Tail(s)[i] = s[i + 1]
           /\ \A k \in 0..Len(s) : /\ Len(SubSeq(s, 1, k)) = k
                                   /\ \A i \in 1..k : i \in 1..Len(s) /\ SubSeq(s, 1, k)[i] = s[i]
<1>1. Len(s) \in Nat
  OBVIOUS
<1>2. \A e \in S : /\ Append(s, e) \in Seq(S) /\ Len(Append(s, e)) = Len(s) + 1
                   /\ Append(s, e)[Len(s) + 1] = e
                   /\ \A i \in 1..Len(s) : Append(s, e)[i] = s[i]
  OBVIOUS
<1>3. s # <<>> => /\ Head(s) = s[1] /\ 1 \in 1..Len(s) /\ Len(Tail(s)) = Len(s) - 1
                  /\ \A i \in 1..(Len(s) - 1) : i + 1 \in 1..Len(s) /\ Tail(s)[i] = s[i + 1]
  OBVIOUS
<1>4. \A k \in 0..Len(s) : /\ Len(SubSeq(s, 1, k)) = k
                           /\ \A i \in 1..k : i \in 1..Len(s) /\ SubSeq(s, 1, k)[i] = s[i]
  OBVIOUS
<1> QED
  BY <1>1, <1>2, <1>3, <1>4, Zenon

\* What a call of this connection is sent as stays true until the next one.
LEMMA OwnedStays ==
    ASSUME TypeOK, Progress, Next, ~SupDial
    PROVE  \A d \in Calls : sess[d] = session => sess'[d] = session' /\ id'[d] = id[d]
<1>1. ASSUME NEW c \in Calls, CallStep(c) \/ Unforced(c), NEW d \in Calls, sess[d] = session
      PROVE  sess'[d] = session' /\ id'[d] = id[d]
  <2>1. /\ d # c => id'[d] = id[d] /\ sess'[d] = sess[d]
        /\ TakeId(c) \/ id' = id
        /\ Transmit(c) \/ sess' = sess
        /\ session' = session
    BY <1>1, CallFrame, Zenon DEF linkVars
  <2>2. session # 0
    BY Zenon DEF TypeOK
  <2>3. d = c => pc[c] \notin {"ids", "transmit"}
    BY <1>1, <2>2, Zenon DEF Progress, Sending
  <2>4. d = c => ~TakeId(c) /\ ~Transmit(c)
    BY <2>3, CallMoves, Zenon
  <2> QED
    BY <1>1, <2>1, <2>4, Zenon
<1>2. CASE Receive \/ Supervise \/ Resume \/ SupFail \/ Awaited \/ Close \/ CloseStep \/ Lose \/ Server
  BY <1>2, OtherFrame, Zenon
<1> QED
  BY <1>1, <1>2, Zenon DEF Next

\* What a step of a call sends.
LEMMA UpCall ==
    ASSUME TypeOK, NEW c \in Calls, CallStep(c) \/ Unforced(c)
    PROVE  \/ up' = up
           \/ up' = Append(up, [kind |-> "cancel", id |-> id[c], call |-> c])
           \/ /\ Transmit(c) /\ pc[c] = "transmit" /\ sess'[c] = session
              /\ up' = Append(up, [kind |-> "invoke", id |-> id[c], call |-> c])
<1>1. CASE Transmit(c)
  <2>1. /\ pc[c] = "transmit"
        /\ \/ pc'[c] \in {"room", "waiting"} /\ sess'[c] = session
           \/ pc'[c] = "cleanup" /\ UNCHANGED <<up, sess>>
    BY <1>1, CallMoves, Zenon
  <2>2. up' = up \/ up' = Append(up, [kind |-> "invoke", id |-> id[c], call |-> c])
    BY <1>1, Zenon DEF Transmit
  <2> QED
    BY <1>1, <2>1, <2>2, Zenon
<1>2. CASE SendCancel(c)
  BY <1>2, Zenon DEF SendCancel
<1>3. CASE TakeId(c) \/ Register(c) \/ Cleanup(c) \/ Return(c) \/ RemoveStream(c) \/ RoomGone(c)
  BY <1>3, Zenon DEF TakeId, Register, Cleanup, Return, RemoveStream, RoomGone, netVars
<1>4. CASE Unforced(c)
  BY <1>4, Zenon DEF Unforced, Require, Abandon, RoomMade, DropStream, CancelStream, netVars
<1> QED
  BY <1>1, <1>2, <1>3, <1>4, Zenon DEF CallStep

\* The steps that neither send nor receive.
Quiet == SupCancel \/ SupTake \/ SupMark \/ Resume \/ SupFail \/ Awaited \/ Close \/ CloseCancel

\* They leave the messages, the server's work and the items alone.
LEMMA QuietFrame ==
    ASSUME Quiet
    PROVE  UNCHANGED <<up, down, served, items>>
  BY Zenon DEF Quiet, SupCancel, SupTake, SupMark, Resume, SupFail, Awaited, SupAborted, CloseDone, Close,
     CloseCancel, netVars, callVars

\* Every step keeps Belongs: the messages and the work of a connection are of
\* calls sent on it.
LEMMA BelongsStep ==
    ASSUME TypeOK, Progress, Belongs, Next
    PROVE  Belongs'
<1>t. up \in Seq(Invocation) /\ down \in Seq(Answered) /\ served \subseteq Work
  BY Zenon DEF TypeOK
<1>u. up' \in Seq(Invocation) /\ down' \in Seq(Answered) /\ served' \subseteq Work
  BY TypeStep, Zenon DEF TypeOK
<1>1. CASE SupDial
  <2>1. up' = <<>> /\ down' = <<>> /\ served' = {}
    BY <1>1, Zenon DEF SupDial
  <2> QED
    BY <2>1 DEF Belongs
<1>2. CASE ~SupDial
  <2>a. \A d \in Calls : sess[d] = session => sess'[d] = session' /\ id'[d] = id[d]
    BY <1>2, OwnedStays, Zenon
  <2>b. /\ \A i \in 1..Len(up) : up[i].call \in Calls
        /\ \A i \in 1..Len(down) : down[i].kind # "close" => down[i].call \in Calls
        /\ \A r \in served : r.call \in Calls
    <3>1. \A i \in 1..Len(up) : up[i] \in Invocation
      BY <1>t
    <3>2. \A i \in 1..Len(down) : down[i] \in Answered
      BY <1>t
    <3>3. \A i \in 1..Len(up) : up[i].call \in Calls
      BY <3>1, Zenon DEF Invocation
    <3>4. \A i \in 1..Len(down) : down[i].kind # "close" => down[i].call \in Calls
      BY <3>2 DEF Answered
    <3>5. \A r \in served : r.call \in Calls
      BY <1>t, Zenon DEF Work
    <3> QED
      BY <3>3, <3>4, <3>5, Zenon
  <2> DEFINE Mine(m) == sess'[m.call] = session' /\ id'[m.call] = m.id
  <2>c. /\ \A i \in 1..Len(up) : up[i].kind = "invoke" => Mine(up[i])
        /\ \A i \in 1..Len(down) : down[i].kind # "close" => Mine(down[i])
        /\ \A r \in served : Mine(r)
    BY <2>a, <2>b, Zenon DEF Belongs, Owned
  <2> SUFFICES /\ \A i \in 1..Len(up') : up'[i].kind = "invoke" => Mine(up'[i])
               /\ \A i \in 1..Len(down') : down'[i].kind # "close" => Mine(down'[i])
               /\ \A r \in served' : Mine(r)
    BY Zenon DEF Belongs, Owned
  <2>s. /\ Len(up) \in Nat /\ Len(down) \in Nat
        /\ \A e \in Invocation : /\ Len(Append(up, e)) = Len(up) + 1 /\ Append(up, e)[Len(up) + 1] = e
                                 /\ \A i \in 1..Len(up) : Append(up, e)[i] = up[i]
        /\ \A e \in Answered : /\ Len(Append(down, e)) = Len(down) + 1 /\ Append(down, e)[Len(down) + 1] = e
                               /\ \A i \in 1..Len(down) : Append(down, e)[i] = down[i]
    BY <1>t, SeqFacts
  <2>d. ASSUME NEW e \in Answered, down' = Append(down, e), e.kind # "close" => Mine(e)
        PROVE  \A i \in 1..Len(down') : down'[i].kind # "close" => Mine(down'[i])
    <3>1. \A i \in 1..Len(down') : i \in 1..Len(down) \/ i = Len(down) + 1
      BY <2>d, <2>s
    <3> HIDE DEF Mine
    <3> QED
      BY <2>c, <2>d, <2>s, <3>1
  <2> HIDE DEF Mine
  <2>1. ASSUME NEW c \in Calls, CallStep(c) \/ Unforced(c)
        PROVE  /\ \A i \in 1..Len(up') : up'[i].kind = "invoke" => Mine(up'[i])
               /\ down' = down /\ served' = served
    <3>1. down' = down /\ served' = served
      BY <2>1, CallFrame, Zenon
    <3>2. ASSUME NEW e \in Invocation, up' = Append(up, e), e.kind = "invoke" => Mine(e)
          PROVE  \A i \in 1..Len(up') : up'[i].kind = "invoke" => Mine(up'[i])
      <4>1. \A i \in 1..Len(up') : i \in 1..Len(up) \/ i = Len(up) + 1
        BY <3>2, <2>s
      <4> QED
        BY <2>c, <3>2, <2>s, <4>1
    <3>3. id[c] \in Nat
      BY Zenon DEF TypeOK
    <3>4. CASE up' = Append(up, [kind |-> "cancel", id |-> id[c], call |-> c])
      <4> DEFINE e == [kind |-> "cancel", id |-> id[c], call |-> c]
      <4>1. e \in Invocation /\ e.kind # "invoke"
        BY <3>3, Zenon DEF Invocation
      <4> QED
        BY <3>1, <3>2, <3>4, <4>1, Zenon
    <3>5. CASE /\ Transmit(c) /\ pc[c] = "transmit" /\ sess'[c] = session
               /\ up' = Append(up, [kind |-> "invoke", id |-> id[c], call |-> c])
      <4> DEFINE e == [kind |-> "invoke", id |-> id[c], call |-> c]
      <4>1. e \in Invocation /\ e.call = c /\ e.id = id[c]
        BY <3>3, Zenon DEF Invocation
      <4>2. ~TakeId(c)
        BY <3>5, CallMoves, Zenon
      <4>3. id' = id /\ session' = session
        BY <2>1, <4>2, CallFrame, Zenon DEF linkVars
      <4>4. Mine(e)
        BY <3>5, <4>1, <4>3, Zenon DEF Mine
      <4> QED
        BY <3>1, <3>2, <3>5, <4>1, <4>4, Zenon
    <3> QED
      BY <2>1, <2>c, <3>1, <3>4, <3>5, UpCall, Zenon
  <2>2. CASE Quiet
    BY <2>2, <2>c, QuietFrame, Zenon
  <2>3. CASE ReceiveCompletion \/ ReceiveItem
    <3>1. down # <<>> /\ down' = Tail(down) /\ up' = up /\ served' = served
      BY <2>3, Zenon DEF ReceiveCompletion, ReceiveItem
    <3>2. /\ Len(down') = Len(down) - 1
          /\ \A i \in 1..(Len(down) - 1) : i + 1 \in 1..Len(down) /\ down'[i] = down[i + 1]
      BY <1>t, <3>1, SeqFacts, Zenon
    <3> QED
      BY <2>c, <3>1, <3>2, Zenon
  <2>4. CASE ReceiveClose \/ CloseTake
    BY <2>4, <2>c DEF ReceiveClose, CloseTake
  <2>5. CASE Lose
    <3>1. PICK k \in 0..Len(down) : down' = SubSeq(down, 1, k)
      BY <2>5, Zenon DEF Lose
    <3>2. up' = <<>> /\ served' = {}
      BY <2>5, Zenon DEF Lose
    <3>3. Len(down') = k /\ \A i \in 1..k : i \in 1..Len(down) /\ down'[i] = down[i]
      BY <1>t, <3>1, SeqFacts
    <3> QED
      BY <2>c, <3>2, <3>3
  <2>6. CASE ServerTake
    <3>1. up # <<>> /\ up' = Tail(up) /\ down' = down
      BY <2>6, Zenon DEF ServerTake
    <3>2. /\ Len(up') = Len(up) - 1 /\ Head(up) = up[1] /\ 1 \in 1..Len(up)
          /\ \A i \in 1..(Len(up) - 1) : i + 1 \in 1..Len(up) /\ up'[i] = up[i + 1]
      BY <1>t, <3>1, SeqFacts, Zenon
    <3> DEFINE new == [id |-> Head(up).id, call |-> Head(up).call, n |-> 0]
    <3>3. \A r \in served' : r \in served \/ (r = new /\ Head(up).kind = "invoke")
      BY <2>6, Zenon DEF ServerTake
    <3>4. Head(up).kind = "invoke" => Mine(new)
      BY <2>c, <3>2, Zenon DEF Mine
    <3> HIDE DEF new
    <3> QED
      BY <2>c, <3>1, <3>2, <3>3, <3>4, Zenon
  <2>7. ASSUME NEW r \in served, ServerItem(r)
        PROVE  /\ up' = up
               /\ \A i \in 1..Len(down') : down'[i].kind # "close" => Mine(down'[i])
               /\ \A q \in served' : Mine(q)
    <3> DEFINE next == [r EXCEPT !.n = @ + 1]
    <3>1. /\ served' = (served \ {r}) \cup {next} /\ down' = Append(down, Down("item", next)) /\ up' = up
      BY <2>7, Zenon DEF ServerItem
    <3>2. r \in Work
      BY <1>t, Zenon
    <3>3. next.call = r.call /\ next.id = r.id /\ next \in Work
      BY <3>2 DEF Work
    <3> HIDE DEF next
    <3>4. Down("item", next) \in Answered /\ Down("item", next).call = r.call /\ Down("item", next).id = r.id
      BY <3>3, Zenon DEF Down, Answered, Work
    <3>5. Mine(r)
      BY <2>c, Zenon
    <3>6. Mine(next) /\ Mine(Down("item", next))
      BY <3>3, <3>4, <3>5, Zenon DEF Mine
    <3> QED
      BY <3>1, <3>4, <3>6, <2>c, <2>d, Zenon
  <2>8. ASSUME NEW r \in served, ServerDone(r)
        PROVE  /\ up' = up
               /\ \A i \in 1..Len(down') : down'[i].kind # "close" => Mine(down'[i])
               /\ \A q \in served' : Mine(q)
    <3>1. served' = served \ {r} /\ down' = Append(down, Down("done", r)) /\ up' = up
      BY <2>8, Zenon DEF ServerDone
    <3>2. r \in Work
      BY <1>t, Zenon
    <3>4. Down("done", r) \in Answered /\ Down("done", r).call = r.call /\ Down("done", r).id = r.id
      BY <3>2, Zenon DEF Down, Answered, Work
    <3>6. Mine(Down("done", r))
      BY <2>c, <3>4, Zenon DEF Mine
    <3> QED
      BY <3>1, <3>4, <3>6, <2>c, <2>d, Zenon
  <2>9. CASE ServerClose
    <3> DEFINE e == [kind |-> "close", id |-> 0, call |-> None, n |-> 0]
    <3>1. up' = <<>> /\ served' = {} /\ down' = Append(down, e)
      BY <2>9, Zenon DEF ServerClose
    <3>2. e \in Answered /\ e.kind = "close"
      BY Zenon DEF Answered
    <3> HIDE DEF e
    <3> QED
      BY <3>1, <3>2, <2>d
  <2> QED
    BY <1>2, <2>c, <2>1, <2>2, <2>3, <2>4, <2>5, <2>6, <2>7, <2>8, <2>9, Zenon
       DEF Next, Receive, Supervise, CloseStep, Server, Quiet
<1> QED
  BY <1>1, <1>2, Zenon

\* A completion or an item leaves the head of the channel.
LEMMA HeadGone ==
    ASSUME TypeOK, ReceiveCompletion \/ ReceiveItem
    PROVE  /\ up' = up /\ served' = served /\ link' = link
           /\ down # <<>> /\ 1 \in 1..Len(down) /\ Len(down) \in Nat /\ Len(down') = Len(down) - 1
           /\ \A i \in 1..(Len(down) - 1) : i + 1 \in 1..Len(down) /\ down'[i] = down[i + 1]
           /\ down[1].kind \in {"done", "item"}
           /\ ReceiveCompletion <=> down[1].kind = "done"
           /\ Head(down) = down[1]
<1>t. down \in Seq(Answered)
  BY Zenon DEF TypeOK
<1>1. up' = up /\ served' = served /\ link' = link /\ down # <<>> /\ down' = Tail(down)
  BY Zenon DEF ReceiveCompletion, ReceiveItem, linkVars
<1>2. Head(down) = down[1] /\ 1 \in 1..Len(down)
  BY <1>1, <1>t, SeqFacts, Zenon
<1>3. Head(down).kind \in {"done", "item"} /\ (ReceiveCompletion <=> Head(down).kind = "done")
  BY Zenon DEF ReceiveCompletion, ReceiveItem
<1> QED
  BY <1>t, <1>1, <1>2, <1>3, SeqFacts, Zenon

\* What the steps of the server append to the channel.
LEMMA Appended ==
    ASSUME TypeOK, NEW e \in Answered, down' = Append(down, e)
    PROVE  /\ Len(down) \in Nat /\ Len(down') = Len(down) + 1 /\ down'[Len(down) + 1] = e
           /\ \A i \in 1..Len(down) : i \in 1..Len(down') /\ down'[i] = down[i]
           /\ \A i \in 1..Len(down') : i \in 1..Len(down) \/ i = Len(down) + 1
<1>t. down \in Seq(Answered)
  BY Zenon DEF TypeOK
<1>1. Len(down) \in Nat /\ Len(down') = Len(down) + 1 /\ down'[Len(down) + 1] = e
  BY <1>t, SeqFacts
<1>2. \A i \in 1..Len(down) : down'[i] = down[i]
  BY <1>t, SeqFacts
<1> QED
  BY <1>1, <1>2

\* What the server's step for an item of a stream does.
LEMMA ItemSent ==
    ASSUME TypeOK, NEW r \in served, ServerItem(r)
    PROVE  \E next \in Work, e \in Answered :
              /\ next.call = r.call /\ next.id = r.id /\ next.n = r.n + 1 /\ r.n \in Nat
              /\ e.kind = "item" /\ e.call = r.call /\ e.n = r.n + 1
              /\ served' = (served \ {r}) \cup {next} /\ down' = Append(down, e)
              /\ up' = up /\ items' = items /\ link = "up" /\ link' = link
<1> DEFINE next == [r EXCEPT !.n = @ + 1]
           e == Down("item", next)
<1>1. r \in Work
  BY Zenon DEF TypeOK
<1>2. next \in Work /\ next.call = r.call /\ next.id = r.id /\ next.n = r.n + 1 /\ r.n \in Nat
  BY <1>1 DEF Work
<1>4. /\ served' = (served \ {r}) \cup {next} /\ down' = Append(down, e)
      /\ up' = up /\ items' = items /\ link = "up" /\ link' = link
  BY Zenon DEF ServerItem, callVars, linkVars
<1> HIDE DEF next
<1>3. e \in Answered /\ e.kind = "item" /\ e.call = r.call /\ e.n = r.n + 1
  BY <1>2, Zenon DEF Down, Answered, Work
<1> HIDE DEF e
<1> QED
  BY <1>2, <1>3, <1>4, Zenon

\* The call a completion or an item names is the one the bus holds under its
\* id, if it holds one.
LEMMA HeadOwner ==
    ASSUME TypeOK, InRange, Progress, Registered, Belongs, ReceiveCompletion \/ ReceiveItem
    PROVE  /\ down[1].call \in Calls /\ down[1].n \in Nat /\ sess[down[1].call] = session /\ session # 0
           /\ id[down[1].call] = down[1].id /\ down[1].id \in Ids /\ down[1].id # 0
           /\ pending[down[1].id] \in {None, down[1].call}
<1>1. 1 \in 1..Len(down) /\ down[1].kind \in {"done", "item"}
  BY HeadGone, Zenon
<1>2. down[1] \in Answered
  BY <1>1 DEF TypeOK
<1>3. down[1].call \in Calls /\ down[1].n \in Nat
  BY <1>1, <1>2 DEF Answered
<1>4. sess[down[1].call] = session /\ id[down[1].call] = down[1].id
  BY <1>1, Zenon DEF Belongs, Owned
<1>5. session # 0
  BY Zenon DEF TypeOK
<1>6. Current(down[1].call)
  BY <1>3, <1>4, <1>5, Zenon DEF Progress, Current
<1>7. down[1].id \in Ids /\ down[1].id # 0
  BY <1>3, <1>4, <1>6, IdInRange, Zenon DEF Current
<1>8. pending[down[1].id] \in Calls \cup {None}
  BY <1>7, Zenon DEF TypeOK
<1>9. pending[down[1].id] # None => pending[down[1].id] = down[1].call
  BY <1>3, <1>4, <1>6, <1>7, <1>8 DEF Registered
<1> QED
  BY <1>3, <1>4, <1>5, <1>7, <1>9, Zenon

\* An item reaches the HubMethodStream of the call it names, or none.
LEMMA ItemOwner ==
    ASSUME TypeOK, InRange, Progress, Registered, Belongs, ReceiveItem
    PROVE  \/ items' = items /\ ~Listening(down[1].call)
           \/ /\ Listening(down[1].call)
              /\ items' = [items EXCEPT ![down[1].call] =
                             Append(items[down[1].call], [call |-> down[1].call, n |-> down[1].n])]
<1>1. /\ pending[down[1].id] \in {None, down[1].call} /\ id[down[1].call] = down[1].id
      /\ down[1].call \in Calls /\ down[1].id \in Ids
  BY HeadOwner, Zenon
<1>2. Head(down) = down[1]
  BY HeadGone, Zenon
<1>3. None \notin Streams /\ None # down[1].call
  BY <1>1, InvocationsAssumption, Zenon DEF Calls
<1> DEFINE c == pending[down[1].id]
           item == [call |-> down[1].call, n |-> down[1].n]
<1>4. items' = IF c \in Streams /\ pc[c] # "dropping"
                 THEN [items EXCEPT ![c] = Append(items[c], item)] ELSE items
  BY <1>2, Zenon DEF ReceiveItem, Streamed
<1>5. Listening(down[1].call) <=> c \in Streams /\ pc[c] # "dropping"
  BY <1>1, <1>3, Zenon DEF Listening
<1>6. c \in Streams => c = down[1].call
  BY <1>1, <1>3, Zenon
<1> HIDE DEF c, item
<1> QED
  BY <1>4, <1>5, <1>6, Zenon DEF item

\* Every step keeps Once: a call is sent once, and its items come after.
LEMMA OnceStep ==
    ASSUME TypeOK, InRange, Progress, Registered, Belongs, Once, Next
    PROVE  Once'
<1> DEFINE Unserved(c) == /\ items[c] = <<>>
                          /\ \A r \in served : r.call # c
                          /\ \A j \in 1..Len(down) : ~IsItem(j, c)
           One(i) == \A j \in 1..Len(up) : up[j].kind = "invoke" /\ up[j].call = up[i].call => j = i
<1>o. /\ \A c \in Calls : sess[c] = 0 => items[c] = <<>>
      /\ \A r, q \in served : r.call = q.call => r = q
      /\ \A i \in 1..Len(up) : up[i].kind = "invoke" => Unserved(up[i].call) /\ One(i)
  BY Zenon DEF Once
<1>q. ASSUME /\ \A c \in Calls : sess'[c] = 0 => items'[c] = <<>>
             /\ \A r, q \in served' : r.call = q.call => r = q
             /\ \A i \in 1..Len(up') : up'[i].kind = "invoke" => Unserved(up[i].call)' /\ One(i)'
      PROVE  Once'
  BY <1>q, Zenon DEF Once
<1>t. /\ up \in Seq(Invocation) /\ down \in Seq(Answered) /\ served \subseteq Work
      /\ items \in [Calls -> Seq(StreamItem)] /\ session # 0 /\ sess \in [Calls -> Nat]
  BY Zenon DEF TypeOK
<1>1. ASSUME NEW c \in Calls, CallStep(c) \/ Unforced(c) PROVE Once'
  <2>1. /\ UNCHANGED <<items, down, served>>
        /\ \A d \in Calls : d # c => sess'[d] = sess[d]
        /\ Transmit(c) \/ sess' = sess
    BY <1>1, CallFrame, Zenon
  <2>2. \A d \in Calls : sess'[d] = 0 => sess[d] = 0
    BY <2>1, <1>t, CallMoves, Zenon
  <2>3. \A d : Unserved(d)' <=> Unserved(d)
    BY <2>1, Zenon DEF IsItem
  <2>4. \A d \in Calls : sess'[d] = 0 => items'[d] = <<>>
    BY <2>1, <2>2, <1>o, Zenon
  <2> HIDE DEF Unserved
  <2>5. /\ Len(up) \in Nat
        /\ \A e \in Invocation : /\ Len(Append(up, e)) = Len(up) + 1 /\ Append(up, e)[Len(up) + 1] = e
                                 /\ \A i \in 1..Len(up) : Append(up, e)[i] = up[i]
    BY <1>t, SeqFacts
  <2>6. CASE up' = up
    BY <2>1, <2>3, <2>4, <2>6, <1>o, <1>q, Zenon
  <2>7. id[c] \in Nat
    BY Zenon DEF TypeOK
  <2>8. CASE up' = Append(up, [kind |-> "cancel", id |-> id[c], call |-> c])
    <3> DEFINE e == [kind |-> "cancel", id |-> id[c], call |-> c]
    <3>1. e \in Invocation /\ e.kind # "invoke" /\ up' = Append(up, e)
      BY <2>7, <2>8, Zenon DEF Invocation
    <3> HIDE DEF e
    <3>2. /\ Len(up') = Len(up) + 1 /\ up'[Len(up) + 1] = e
          /\ \A i \in 1..Len(up) : up'[i] = up[i]
      BY <2>5, <3>1, Zenon
    <3>3. \A i \in 1..Len(up') : up'[i].kind = "invoke" => i \in 1..Len(up)
      BY <2>5, <3>1, <3>2
    <3>4. \A i \in 1..Len(up') : up'[i].kind = "invoke" => Unserved(up[i].call)' /\ One(i)'
      BY <2>3, <3>2, <3>3, <1>o, Zenon
    <3> QED
      BY <2>1, <2>4, <3>4, <1>o, <1>q, Zenon
  <2>9. CASE /\ Transmit(c) /\ pc[c] = "transmit" /\ sess'[c] = session
             /\ up' = Append(up, [kind |-> "invoke", id |-> id[c], call |-> c])
    <3> DEFINE e == [kind |-> "invoke", id |-> id[c], call |-> c]
    <3>1. e \in Invocation /\ e.call = c /\ up' = Append(up, e)
      BY <2>7, <2>9, Zenon DEF Invocation
    <3> HIDE DEF e
    <3>2. /\ Len(up') = Len(up) + 1 /\ up'[Len(up) + 1] = e
          /\ \A i \in 1..Len(up) : up'[i] = up[i]
      BY <2>5, <3>1, Zenon
    <3>3. \A i \in 1..Len(up') : i \in 1..Len(up) \/ i = Len(up) + 1
      BY <2>5, <3>2
    <3>4. sess[c] = 0
      BY <2>9, Zenon DEF Progress, Sending
    <3>5. \A i \in 1..Len(up) : up[i].kind = "invoke" => up[i].call # c
      BY <3>4, <1>t, Zenon DEF Belongs, Owned
    <3>6. Unserved(c)
      <4>1. items[c] = <<>>
        BY <3>4, <1>o, Zenon
      <4>2. \A r \in served : r.call # c
        BY <3>4, <1>t, Zenon DEF Belongs, Owned
      <4>3. \A j \in 1..Len(down) : ~IsItem(j, c)
        BY <3>4, <1>t, Zenon DEF Belongs, Owned, IsItem
      <4> QED
        BY <4>1, <4>2, <4>3, Zenon DEF Unserved
    <3>7. \A i \in 1..Len(up') : up'[i].kind = "invoke" => Unserved(up[i].call)'
      <4>1. \A i \in 1..Len(up') : up'[i].kind = "invoke" => Unserved(up'[i].call)
        BY <3>1, <3>2, <3>3, <3>6, <1>o, Zenon
      <4> QED
        BY <4>1, <2>3, Zenon
    <3>8. \A i \in 1..Len(up') : up'[i].kind = "invoke" => One(i)'
      BY <3>1, <3>2, <3>3, <3>5, <1>o
    <3> QED
      BY <2>1, <2>4, <3>7, <3>8, <1>o, <1>q, Zenon
  <2> QED
    BY <1>1, <2>6, <2>8, <2>9, UpCall, Zenon
<1>2. ASSUME Quiet \/ CloseTake \/ ReceiveClose PROVE Once'
  <2>1. up' = up /\ served' = served /\ items' = items /\ (down' = down \/ down' = <<>>)
    BY <1>2, QuietFrame, Zenon DEF CloseTake, ReceiveClose, callVars
  <2>2. sess' = sess
    BY <1>2, OtherFrame, Zenon DEF Quiet, Supervise, CloseStep, Receive
  <2>3. \A c : Unserved(c) => Unserved(c)'
    BY <2>1 DEF IsItem
  <2> HIDE DEF Unserved
  <2> QED
    BY <2>1, <2>2, <2>3, <1>o, <1>q, Zenon
<1>3. ASSUME ReceiveCompletion \/ ReceiveItem PROVE Once'
  <2>1. /\ up' = up /\ served' = served /\ 1 \in 1..Len(down)
        /\ Len(down) \in Nat /\ Len(down') = Len(down) - 1
        /\ \A i \in 1..(Len(down) - 1) : i + 1 \in 1..Len(down) /\ down'[i] = down[i + 1]
    BY <1>3, HeadGone, Zenon
  <2>2. sess' = sess
    BY <1>3, OtherFrame, Zenon DEF Receive
  <2>3. \A c \in Calls : items'[c] = items[c] \/ (sess[c] # 0 /\ IsItem(1, c))
    <3>1. CASE ReceiveCompletion
      BY <3>1, Zenon DEF ReceiveCompletion, callVars
    <3>2. CASE ReceiveItem
      <4>1. down[1].kind = "item" /\ down[1].call \in Calls /\ sess[down[1].call] # 0
        BY <3>2, HeadGone, HeadOwner, Zenon DEF ReceiveItem
      <4>2. \A c \in Calls : c # down[1].call => items'[c] = items[c]
        BY <3>2, <1>t, ItemOwner, Zenon
      <4> QED
        BY <4>1, <4>2, Zenon DEF IsItem
    <3> QED
      BY <1>3, <3>1, <3>2, Zenon
  <2>4. \A c \in Calls : Unserved(c) => Unserved(c)'
    BY <2>1, <2>3 DEF IsItem
  <2>5. \A i \in 1..Len(up) : up[i].call \in Calls
    <3>1. \A i \in 1..Len(up) : up[i] \in Invocation
      BY <1>t
    <3> QED
      BY <3>1, Zenon DEF Invocation
  <2>6. \A c \in Calls : sess'[c] = 0 => items'[c] = <<>>
    BY <2>2, <2>3, <1>o, Zenon
  <2> HIDE DEF Unserved
  <2> QED
    BY <2>1, <2>4, <2>5, <2>6, <1>o, <1>q, Zenon
<1>4. ASSUME Lose \/ ServerClose \/ SupDial PROVE Once'
  <2>1. up' = <<>> /\ served' = {} /\ items' = items /\ sess' = sess
    BY <1>4, Zenon DEF Lose, ServerClose, SupDial, callVars
  <2> QED
    BY <2>1, <1>o, <1>q
<1>5. ASSUME ServerTake PROVE Once'
  <2>1. up # <<>> /\ up' = Tail(up) /\ down' = down /\ items' = items /\ sess' = sess
    BY <1>5, Zenon DEF ServerTake, callVars
  <2>2. /\ Len(up) \in Nat /\ Len(up') = Len(up) - 1 /\ Head(up) = up[1] /\ 1 \in 1..Len(up)
        /\ \A i \in 1..(Len(up) - 1) : i + 1 \in 1..Len(up) /\ up'[i] = up[i + 1]
    BY <1>t, <2>1, SeqFacts, ZenonT(30)
  <2> DEFINE new == [id |-> Head(up).id, call |-> Head(up).call, n |-> 0]
  <2>3. /\ \A r \in served' : r \in served \/ (r = new /\ up[1].kind = "invoke")
        /\ new.call = up[1].call
    BY <1>5, <2>2, Zenon DEF ServerTake
  <2> HIDE DEF new
  <2>4. \A r, q \in served' : r.call = q.call => r = q
    BY <2>2, <2>3, <1>o
  <2>5. ASSUME NEW i \in 1..Len(up'), up'[i].kind = "invoke" PROVE Unserved(up[i].call)' /\ One(i)'
    <3>1. i + 1 \in 1..Len(up) /\ up'[i] = up[i + 1] /\ i + 1 # 1
      BY <2>2
    <3>2. Unserved(up[i + 1].call) /\ One(i + 1)
      BY <2>5, <3>1, <1>o, Zenon
    <3>3. up[1].kind = "invoke" => up[1].call # up[i + 1].call
      BY <2>2, <3>1, <3>2, Zenon
    <3>4. \A r \in served' : r.call # up'[i].call
      BY <2>3, <3>1, <3>2, <3>3, Zenon
    <3>5. One(i)'
      <4> SUFFICES ASSUME NEW j \in 1..Len(up'), up'[j].kind = "invoke", up'[j].call = up'[i].call PROVE j = i
        BY Zenon
      <4>1. j + 1 \in 1..Len(up) /\ up'[j] = up[j + 1]
        BY <2>2, Zenon
      <4>2. j + 1 = i + 1
        BY <3>1, <3>2, <4>1, Zenon
      <4> QED
        BY <4>2, <2>2
    <3> QED
      BY <2>1, <3>1, <3>2, <3>4, <3>5, Zenon DEF IsItem
  <2> QED
    BY <2>1, <2>4, <2>5, <1>o, <1>q, Zenon
<1>6. ASSUME NEW r \in served, ServerItem(r) PROVE Once'
  <2>1. PICK next \in Work, e \in Answered :
              /\ next.call = r.call
              /\ e.kind = "item" /\ e.call = r.call
              /\ served' = (served \ {r}) \cup {next} /\ down' = Append(down, e)
              /\ up' = up /\ items' = items
    BY <1>6, ItemSent, Zenon
  <2>2. sess' = sess
    BY <1>6, Zenon DEF ServerItem, callVars
  <2>3. \A q, p \in served' : q.call = p.call => q = p
    BY <2>1, <1>o
  <2>4. \A c : Unserved(c) => Unserved(c)'
    <3>1. /\ Len(down') = Len(down) + 1 /\ down'[Len(down) + 1] = e
          /\ \A i \in 1..Len(down) : down'[i] = down[i]
          /\ \A i \in 1..Len(down') : i \in 1..Len(down) \/ i = Len(down) + 1
      BY <2>1, Appended, Zenon
    <3> QED
      BY <2>1, <3>1, ZenonT(30) DEF IsItem
  <2> HIDE DEF Unserved
  <2> QED
    BY <2>1, <2>2, <2>3, <2>4, <1>o, <1>q, Zenon
<1>7. ASSUME NEW r \in served, ServerDone(r) PROVE Once'
  <2>1. /\ served' = served \ {r} /\ down' = Append(down, Down("done", r))
        /\ up' = up /\ items' = items /\ sess' = sess
    BY <1>7, Zenon DEF ServerDone, callVars
  <2>2. Down("done", r) \in Answered /\ Down("done", r).kind = "done"
    BY <1>t, Zenon DEF Down, Answered, Work
  <2>4. \A c : Unserved(c) => Unserved(c)'
    <3>1. /\ Len(down') = Len(down) + 1 /\ down'[Len(down) + 1] = Down("done", r)
          /\ \A i \in 1..Len(down) : down'[i] = down[i]
          /\ \A i \in 1..Len(down') : i \in 1..Len(down) \/ i = Len(down) + 1
      BY <2>1, <2>2, Appended, Zenon
    <3> QED
      BY <2>1, <2>2, <3>1, Zenon DEF IsItem
  <2> HIDE DEF Unserved
  <2> QED
    BY <2>1, <2>4, <1>o, <1>q, Zenon
<1> QED
  BY <1>1, <1>2, <1>3, <1>4, <1>5, <1>6, <1>7, Zenon DEF Next, Receive, Supervise, CloseStep, Server, Quiet

\* The call is sent once it listens, and then every step keeps its items in
\* the server's order.
LEMMA ContinuesStep ==
    ASSUME TypeOK, InRange, Progress, Registered, Belongs, Once, \A c \in Calls : Listening(c) => Continues(c),
           Next, ~SupDial
    PROVE  \A c \in Calls : Listening(c)' => Continues(c)'
<1>t. /\ down \in Seq(Answered) /\ served \subseteq Work /\ Len(down) \in Nat
      /\ items \in [Calls -> Seq(StreamItem)] /\ session # 0 /\ sess \in [Calls -> Nat]
      /\ id \in [Calls -> Nat]
  BY SeqFacts, Zenon DEF TypeOK
<1>n. \A i \in 1..Len(down) : down[i].n \in Nat
  <2>1. \A i \in 1..Len(down) : down[i] \in Answered
    BY <1>t
  <2> QED
    BY <2>1 DEF Answered
<1>1. ASSUME NEW c \in Calls, CallStep(c) \/ Unforced(c), NEW d \in Calls, Listening(d)'
      PROVE  Continues(d)'
  <2>1. UNCHANGED <<items, down, served, link>>
    BY <1>1, CallFrame, Zenon DEF linkVars
  <2>2. Continues(d)
    <3>1. CASE Register(c) /\ d = c
      <4>1. sess[c] = 0
        BY <3>1, CallMoves, Zenon DEF Progress, Sending
      <4>2. \A r \in served : r.call # c
        BY <4>1, <1>t, Zenon DEF Belongs, Owned
      <4>3. \A j \in 1..Len(down) : ~IsItem(j, c)
        BY <4>1, <1>t, Zenon DEF Belongs, Owned, IsItem
      <4> QED
        BY <3>1, <4>2, <4>3, Zenon DEF Continues
    <3>2. CASE ~(Register(c) /\ d = c)
      <4> DEFINE i == id'[d]
      <4>1. d \in Streams /\ i \in Ids /\ pending'[i] = d /\ pc'[d] # "dropping"
        BY <1>1, Zenon DEF Listening, Ids
      <4> HIDE DEF i
      <4>2. \/ pending'[i] \in {pending[i], None}
            \/ Register(c) /\ i = id[c] /\ pending'[i] = c
        BY <1>1, <4>1, PendingCall, Zenon
      <4>3. pending[i] = d /\ d # None
        BY <3>2, <4>1, <4>2, InvocationsAssumption, Zenon
      <4>4. id[d] = i
        BY <4>1, <4>3, Zenon DEF Registered
      <4>5. pc[d] # "dropping"
        <5>1. d # c => pc'[d] = pc[d]
          BY <1>1, CallFrame, Zenon
        <5>2. pc[c] = "dropping" => RemoveStream(c)
          BY <1>1, CallMoves, Zenon DEF CallStep, Unforced
        <5>3. d = c => ~RemoveStream(c)
          BY <1>1, <4>1, <4>3, <4>4, PendingCall, Zenon
        <5> QED
          BY <4>1, <5>1, <5>2, <5>3, Zenon
      <4>6. Listening(d)
        BY <4>1, <4>3, <4>4, <4>5, Zenon DEF Listening
      <4> QED
        BY <4>6, Zenon
    <3> QED
      BY <3>1, <3>2, Zenon
  <2> QED
    BY <2>1, <2>2, Zenon DEF Continues, IsItem
<1>b. ASSUME NEW d \in Calls, Listening(d)', ~\E c \in Calls : CallStep(c) \/ Unforced(c)
      PROVE  Listening(d)
  <2>1. Receive \/ Supervise \/ Resume \/ SupDial \/ SupFail \/ Awaited \/ Close \/ CloseStep \/ Lose \/ Server
    BY <1>b, Zenon DEF Next
  <2>2. pc' = pc /\ id' = id /\ \A i \in Ids : pending'[i] \in {pending[i], None}
    BY <2>1, OtherFrame, PendingOther, Zenon
  <2>3. d # None
    BY InvocationsAssumption, Zenon
  <2> QED
    BY <1>b, <2>2, <2>3, Zenon DEF Listening, Ids
<1>2. ASSUME Quiet, NEW d \in Calls, Listening(d) PROVE Continues(d)'
  <2>1. UNCHANGED <<up, down, served, items>>
    BY <1>2, QuietFrame, Zenon
  <2>2. link' = link \/ link' = "closed"
    BY <1>2, Zenon DEF Quiet, SupCancel, SupTake, SupMark, Resume, SupFail, Awaited, SupAborted, CloseDone,
       Close, CloseCancel, linkVars
  <2>3. Continues(d)
    BY <1>2, Zenon
  <2>4. link' = "up" => link = "up"
    BY <2>2, Zenon
  <2> QED
    BY <2>1, <2>3, <2>4, Zenon DEF Continues, IsItem
<1>3. ASSUME ReceiveClose \/ CloseTake, NEW d \in Calls, Listening(d) PROVE Continues(d)'
  <2>1. down' = <<>> /\ link' = "closed"
    BY <1>3, Zenon DEF ReceiveClose, CloseTake
  <2> QED
    BY <2>1 DEF Continues
<1>4. ASSUME Lose \/ ServerClose, NEW d \in Calls, Listening(d) PROVE Continues(d)'
  <2>1. served' = {} /\ items' = items
    BY <1>4, Zenon DEF Lose, ServerClose, callVars
  <2>2. \A i \in 1..Len(down') : IsItem(i, d)' => /\ i \in 1..Len(down) /\ IsItem(i, d)
                                                 /\ \A j \in 1..i : j \in 1..Len(down') /\ down'[j] = down[j]
    <3>1. CASE Lose
      <4>1. PICK k \in 0..Len(down) : down' = SubSeq(down, 1, k)
        BY <3>1, Zenon DEF Lose
      <4>2. Len(down') = k /\ \A i \in 1..k : i \in 1..Len(down) /\ down'[i] = down[i]
        BY <1>t, <4>1, SeqFacts
      <4> QED
        BY <4>2 DEF IsItem
    <3>2. CASE ServerClose
      <4> DEFINE e == [kind |-> "close", id |-> 0, call |-> None, n |-> 0]
      <4>1. e \in Answered /\ e.kind = "close" /\ down' = Append(down, e)
        BY <3>2, Zenon DEF Answered, ServerClose
      <4> HIDE DEF e
      <4>2. /\ Len(down) \in Nat /\ Len(down') = Len(down) + 1 /\ down'[Len(down) + 1] = e
            /\ \A i \in 1..Len(down) : i \in 1..Len(down') /\ down'[i] = down[i]
            /\ \A i \in 1..Len(down') : i \in 1..Len(down) \/ i = Len(down) + 1
        BY <4>1, Appended, Zenon
      <4>3. \A i \in 1..Len(down') : IsItem(i, d)' => i \in 1..Len(down)
        BY <4>1, <4>2, Zenon DEF IsItem
      <4>4. \A i \in 1..Len(down) : \A j \in 1..i : j \in 1..Len(down)
        BY <1>t
      <4> QED
        BY <4>2, <4>3, <4>4, Zenon DEF IsItem
    <3> QED
      BY <1>4, <3>1, <3>2, Zenon
  <2>3. Continues(d)
    BY <1>4, Zenon
  <2>4. ASSUME NEW i \in 1..Len(down'), IsItem(i, d)'
        PROVE  /\ \/ down'[i].n = Len(items'[d]) + 1
                  \/ \E j \in 1..(i - 1) : IsItem(j, d)' /\ down'[i].n = down'[j].n + 1
               /\ \A j \in 1..(i - 1) : IsItem(j, d)' => down'[j].n < down'[i].n
    <3>1. /\ i \in 1..Len(down) /\ IsItem(i, d)
          /\ \A j \in 1..i : j \in 1..Len(down') /\ down'[j] = down[j]
      BY <2>2, <2>4, Zenon
    <3>2. /\ \/ down[i].n = Len(items[d]) + 1
             \/ \E j \in 1..(i - 1) : IsItem(j, d) /\ down[i].n = down[j].n + 1
          /\ \A j \in 1..(i - 1) : IsItem(j, d) => down[j].n < down[i].n
      BY <2>3, <3>1, Zenon DEF Continues
    <3>3. down'[i] = down[i] /\ \A j \in 1..(i - 1) : down'[j] = down[j]
      BY <1>t, <3>1
    <3> QED
      BY <2>1, <3>2, <3>3, Zenon DEF IsItem
  <2> QED
    BY <2>1, <2>4, Zenon DEF Continues
<1>5. ASSUME ReceiveCompletion \/ ReceiveItem, NEW d \in Calls, Listening(d) PROVE Continues(d)'
  <2>1. /\ served' = served /\ link' = link /\ 1 \in 1..Len(down) /\ Len(down') = Len(down) - 1
        /\ \A i \in 1..(Len(down) - 1) : i + 1 \in 1..Len(down) /\ down'[i] = down[i + 1]
        /\ ReceiveCompletion <=> down[1].kind = "done"
    BY <1>5, HeadGone, Zenon
  <2>2. Continues(d)
    BY <1>5, Zenon
  <2> DEFINE L == Len(items[d])
  <2>3. L \in Nat
    BY <1>t, SeqFacts, Zenon
  <2> HIDE DEF L
  <2>4. \A i \in 1..Len(down') : IsItem(i, d)' => IsItem(i + 1, d)
    BY <2>1, Zenon DEF IsItem
  <2>5. \A j \in 1..Len(down) : IsItem(j, d) =>
          j = 1 \/ (j - 1 \in 1..Len(down') /\ IsItem(j - 1, d)' /\ down'[j - 1] = down[j])
    <3> SUFFICES ASSUME NEW j \in 1..Len(down), IsItem(j, d), j # 1
                 PROVE  j - 1 \in 1..Len(down') /\ IsItem(j - 1, d)' /\ down'[j - 1] = down[j]
      BY Zenon
    <3>1. j - 1 \in 1..Len(down') /\ (j - 1) + 1 = j
      BY <1>t, <2>1
    <3>2. down'[j - 1] = down[j]
      BY <2>1, <3>1, Zenon
    <3> QED
      BY <3>1, <3>2, Zenon DEF IsItem
  <2>6. ASSUME NEW i \in 1..Len(down'), IsItem(i, d)'
        PROVE  /\ i + 1 \in 1..Len(down) /\ IsItem(i + 1, d) /\ down'[i] = down[i + 1] /\ down[i + 1].n \in Nat
               /\ \/ down[i + 1].n = L + 1
                  \/ \E j \in 1..i : IsItem(j, d) /\ down[i + 1].n = down[j].n + 1
               /\ \A j \in 1..i : j \in 1..Len(down) /\ (IsItem(j, d) => down[j].n < down[i + 1].n)
    <3>1. i + 1 \in 1..Len(down) /\ IsItem(i + 1, d) /\ down'[i] = down[i + 1] /\ (i + 1) - 1 = i
      BY <1>t, <2>1, <2>4, <2>6, SMTT(30)
    <3>2. \A j \in 1..i : j \in 1..Len(down)
      BY <1>t, <3>1
    <3> QED
      BY <3>1, <3>2, <2>2, <1>n, Zenon DEF Continues, L
  <2>7. \A i \in 1..Len(down') : \A j \in 1..(i - 1) : IsItem(i, d)' /\ IsItem(j, d)' => down'[j].n < down'[i].n
    <3> SUFFICES ASSUME NEW i \in 1..Len(down'), NEW j \in 1..(i - 1), IsItem(i, d)', IsItem(j, d)'
                 PROVE  down'[j].n < down'[i].n
      BY Zenon
    <3>1. j \in 1..Len(down') /\ j + 1 \in 1..i
      BY <1>t, <2>1
    <3> QED
      BY <3>1, <2>6, Zenon
  <2>8. CASE ~IsItem(1, d)
    <3>1. items'[d] = items[d]
      <4>1. CASE ReceiveCompletion
        BY <4>1, Zenon DEF ReceiveCompletion, callVars
      <4>2. CASE ReceiveItem
        <5>1. down[1].kind = "item"
          BY <4>2, HeadGone, Zenon DEF ReceiveItem
        <5> QED
          BY <4>2, <5>1, <2>8, <1>t, ItemOwner, Zenon DEF IsItem
      <4> QED
        BY <1>5, <4>1, <4>2, Zenon
    <3>2. ASSUME NEW i \in 1..Len(down'), IsItem(i, d)'
          PROVE  \/ down'[i].n = L + 1
                 \/ \E j \in 1..(i - 1) : IsItem(j, d)' /\ down'[i].n = down'[j].n + 1
      <4>1. CASE down[i + 1].n = L + 1
        BY <3>2, <4>1, <2>6, Zenon
      <4>2. ASSUME NEW j \in 1..i, IsItem(j, d), down[i + 1].n = down[j].n + 1
            PROVE  j - 1 \in 1..(i - 1) /\ IsItem(j - 1, d)' /\ down'[i].n = down'[j - 1].n + 1
        <5>1. j # 1 /\ j \in 1..Len(down)
          BY <4>2, <2>8, <3>2, <2>6, Zenon
        <5>2. j - 1 \in 1..(i - 1)
          BY <5>1
        <5> QED
          BY <3>2, <4>2, <5>1, <5>2, <2>5, <2>6, Zenon
      <4> QED
        BY <3>2, <4>1, <4>2, <2>6, Zenon
    <3>3. ASSUME NEW r \in served, r.call = d, link = "up"
          PROVE  /\ \/ r.n = L
                    \/ \E j \in 1..Len(down') : IsItem(j, d)' /\ r.n = down'[j].n
                 /\ \A j \in 1..Len(down') : IsItem(j, d)' => down'[j].n <= r.n
      <4>1. /\ \/ r.n = L
               \/ \E j \in 1..Len(down) : IsItem(j, d) /\ r.n = down[j].n
            /\ \A j \in 1..Len(down) : IsItem(j, d) => down[j].n <= r.n
        BY <3>3, <2>2, Zenon DEF Continues, L
      <4> QED
        BY <4>1, <2>5, <2>6, <2>8, ZenonT(30)
    <3> QED
      BY <3>1, <3>2, <3>3, <2>1, <2>7, Zenon DEF Continues, L
  <2>9. CASE IsItem(1, d)
    <3>0. ReceiveItem /\ down[1].call = d /\ down[1].n \in Nat
      BY <1>5, <2>1, <2>9, <1>n, Zenon DEF IsItem
    <3>1. down[1].n = L + 1
      <4>1. \/ down[1].n = L + 1
            \/ \E j \in 1..(1 - 1) : IsItem(j, d) /\ down[1].n = down[j].n + 1
        BY <2>1, <2>2, <2>9, Zenon DEF Continues, L
      <4> QED
        BY <4>1
    <3>2. Len(items'[d]) = L + 1
      <4> DEFINE item == [call |-> down[1].call, n |-> down[1].n]
      <4>1. item \in StreamItem
        BY <3>0, Zenon DEF StreamItem
      <4>2. items' = [items EXCEPT ![d] = Append(items[d], item)]
        BY <1>5, <3>0, ItemOwner, Zenon
      <4> HIDE DEF item
      <4> QED
        BY <4>1, <4>2, <1>t, SeqFacts DEF L
    <3>3. ASSUME NEW i \in 1..Len(down'), IsItem(i, d)'
          PROVE  \/ down'[i].n = (L + 1) + 1
                 \/ \E j \in 1..(i - 1) : IsItem(j, d)' /\ down'[i].n = down'[j].n + 1
      <4>1. down[i + 1].n # L + 1
        <5>1. 1 \in 1..i
          OBVIOUS
        <5>2. down[1].n < down[i + 1].n /\ down[i + 1].n \in Nat
          BY <3>3, <5>1, <2>6, <2>9, Zenon
        <5> QED
          BY <5>2, <3>1, <2>3
      <4>2. ASSUME NEW j \in 1..i, IsItem(j, d), down[i + 1].n = down[j].n + 1, j # 1
            PROVE  j - 1 \in 1..(i - 1) /\ IsItem(j - 1, d)' /\ down'[i].n = down'[j - 1].n + 1
        <5>1. j \in 1..Len(down)
          BY <3>3, <2>6, Zenon
        <5>2. j - 1 \in 1..(i - 1)
          BY <4>2
        <5> QED
          BY <3>3, <4>2, <5>1, <5>2, <2>5, <2>6, Zenon
      <4> QED
        BY <3>1, <3>3, <4>1, <4>2, <2>6
    <3>4. ASSUME NEW r \in served, r.call = d, link = "up"
          PROVE  /\ \/ r.n = L + 1
                    \/ \E j \in 1..Len(down') : IsItem(j, d)' /\ r.n = down'[j].n
                 /\ \A j \in 1..Len(down') : IsItem(j, d)' => down'[j].n <= r.n
      <4>1. /\ \/ r.n = L
               \/ \E j \in 1..Len(down) : IsItem(j, d) /\ r.n = down[j].n
            /\ \A j \in 1..Len(down) : IsItem(j, d) => down[j].n <= r.n
        BY <3>4, <2>2, Zenon DEF Continues, L
      <4>2. r.n # L
        BY <4>1, <2>1, <2>9, <3>1, <2>3
      <4> QED
        BY <4>1, <4>2, <3>1, <2>5, <2>6, ZenonT(30)
    <3> QED
      BY <3>2, <3>3, <3>4, <2>1, <2>7, Zenon DEF Continues
  <2> QED
    BY <2>8, <2>9, Zenon
<1>6. ASSUME NEW e \in Answered, down' = Append(down, e), items' = items, link' = link,
             NEW d \in Calls, Listening(d)
      PROVE  /\ \A i \in 1..Len(down) : /\ i \in 1..Len(down') /\ down'[i] = down[i]
                                        /\ IsItem(i, d)' <=> IsItem(i, d)
             /\ \A i \in 1..Len(down) : IsItem(i, d)' =>
                  /\ \/ down'[i].n = Len(items'[d]) + 1
                     \/ \E j \in 1..(i - 1) : IsItem(j, d)' /\ down'[i].n = down'[j].n + 1
                  /\ \A j \in 1..(i - 1) : IsItem(j, d)' => down'[j].n < down'[i].n
  <2>1. \A i \in 1..Len(down) : i \in 1..Len(down') /\ down'[i] = down[i]
    BY <1>6, Appended, Zenon
  <2>2. \A i \in 1..Len(down) : IsItem(i, d)' <=> IsItem(i, d)
    BY <2>1, Zenon DEF IsItem
  <2>3. \A i \in 1..Len(down) : \A j \in 1..(i - 1) : j \in 1..Len(down)
    BY <1>t
  <2>4. Continues(d)
    BY <1>6, Zenon
  <2> QED
    BY <1>6, <2>1, <2>2, <2>3, <2>4 DEF Continues
<1>7. ASSUME NEW e \in Answered, down' = Append(down, e), items' = items, link' = link,
             NEW d \in Calls, Listening(d), ~(e.kind = "item" /\ e.call = d),
             \A q \in served' : q.call = d => q \in served
      PROVE  Continues(d)'
  <2>1. /\ down'[Len(down) + 1] = e
        /\ \A i \in 1..Len(down') : i \in 1..Len(down) \/ i = Len(down) + 1
    BY <1>7, Appended, Zenon
  <2>2. \A i \in 1..Len(down') : IsItem(i, d)' => i \in 1..Len(down)
    BY <1>7, <2>1, Zenon DEF IsItem
  <2>3. Continues(d)
    BY <1>7, Zenon
  <2>4. ASSUME NEW q \in served', q.call = d, link' = "up"
        PROVE  /\ \/ q.n = Len(items'[d])
                  \/ \E j \in 1..Len(down') : IsItem(j, d)' /\ q.n = down'[j].n
               /\ \A j \in 1..Len(down') : IsItem(j, d)' => down'[j].n <= q.n
    <3>1. /\ \/ q.n = Len(items[d])
             \/ \E j \in 1..Len(down) : IsItem(j, d) /\ q.n = down[j].n
          /\ \A j \in 1..Len(down) : IsItem(j, d) => down[j].n <= q.n
      BY <1>7, <2>3, <2>4, Zenon DEF Continues
    <3> QED
      BY <3>1, <1>6, <1>7, <2>2, Zenon
  <2> QED
    BY <1>6, <1>7, <2>2, <2>4, Zenon DEF Continues
<1>8. ASSUME NEW r \in served, ServerItem(r), NEW d \in Calls, Listening(d) PROVE Continues(d)'
  <2>1. PICK next \in Work, e \in Answered :
              /\ next.call = r.call /\ next.n = r.n + 1 /\ r.n \in Nat
              /\ e.kind = "item" /\ e.call = r.call /\ e.n = r.n + 1
              /\ served' = (served \ {r}) \cup {next} /\ down' = Append(down, e)
              /\ items' = items /\ link = "up" /\ link' = link
    BY <1>8, ItemSent, Zenon
  <2>2. CASE r.call # d
    <3>1. \A q \in served' : q.call = d => q \in served
      BY <2>1, <2>2, Zenon
    <3> QED
      BY <1>7, <1>8, <2>1, <2>2, <3>1, Zenon
  <2>3. CASE r.call = d
    <3>1. /\ Len(down') = Len(down) + 1 /\ down'[Len(down) + 1] = e
          /\ \A i \in 1..Len(down') : i \in 1..Len(down) \/ i = Len(down) + 1
      BY <2>1, Appended, Zenon
    <3>2. /\ \A i \in 1..Len(down) : /\ i \in 1..Len(down') /\ down'[i] = down[i]
                                     /\ IsItem(i, d)' <=> IsItem(i, d)
          /\ \A i \in 1..Len(down) : IsItem(i, d)' =>
                  /\ \/ down'[i].n = Len(items'[d]) + 1
                     \/ \E j \in 1..(i - 1) : IsItem(j, d)' /\ down'[i].n = down'[j].n + 1
                  /\ \A j \in 1..(i - 1) : IsItem(j, d)' => down'[j].n < down'[i].n
      BY <1>6, <1>8, <2>1, Zenon
    <3>3. /\ \/ r.n = Len(items[d])
             \/ \E j \in 1..Len(down) : IsItem(j, d) /\ r.n = down[j].n
          /\ \A j \in 1..Len(down) : IsItem(j, d) => down[j].n <= r.n
      <4>1. Continues(d)
        BY <1>8, Zenon
      <4> QED
        BY <4>1, <2>1, <2>3, Zenon DEF Continues
    <3>4. \E last \in 1..Len(down') : /\ last = Len(down) + 1 /\ last - 1 = Len(down)
                                      /\ IsItem(last, d)' /\ down'[last] = e
      <4>1. Len(down) + 1 \in 1..Len(down') /\ (Len(down) + 1) - 1 = Len(down)
        BY <1>t, <3>1
      <4> QED
        BY <4>1, <2>1, <2>3, <3>1, Zenon DEF IsItem
    <3>5. /\ \/ e.n = Len(items'[d]) + 1
             \/ \E j \in 1..Len(down) : IsItem(j, d)' /\ e.n = down'[j].n + 1
          /\ \A j \in 1..Len(down) : IsItem(j, d)' => down'[j].n < e.n
      <4>1. \A j \in 1..Len(down) : IsItem(j, d) => down[j].n < e.n
        BY <2>1, <3>3, <1>n
      <4> QED
        BY <4>1, <2>1, <3>2, <3>3, ZenonT(30)
    <3>6. ASSUME NEW i \in 1..Len(down'), IsItem(i, d)'
          PROVE  /\ \/ down'[i].n = Len(items'[d]) + 1
                    \/ \E j \in 1..(i - 1) : IsItem(j, d)' /\ down'[i].n = down'[j].n + 1
                 /\ \A j \in 1..(i - 1) : IsItem(j, d)' => down'[j].n < down'[i].n
      BY <3>1, <3>2, <3>4, <3>5, <3>6, Zenon
    <3>7. ASSUME NEW q \in served', q.call = d
          PROVE  /\ \E j \in 1..Len(down') : IsItem(j, d)' /\ q.n = down'[j].n
                 /\ \A j \in 1..Len(down') : IsItem(j, d)' => down'[j].n <= q.n
      <4>1. q = next
        BY <2>1, <2>3, <3>7, Zenon DEF Once
      <4>2. q.n = e.n /\ e.n \in Nat /\ e.n <= e.n
        BY <2>1, <4>1
      <4>3. \A j \in 1..Len(down) : IsItem(j, d)' => down'[j].n <= e.n
        <5>1. ASSUME NEW j \in 1..Len(down), IsItem(j, d)' PROVE down'[j].n <= e.n
          <6>1. down'[j].n < e.n /\ down'[j].n \in Nat
            BY <5>1, <3>5, <3>2, <1>n, Zenon
          <6> QED
            BY <6>1, <4>2
        <5> QED
          BY <5>1, Zenon
      <4> QED
        BY <4>2, <4>3, <3>1, <3>4, Zenon
    <3> QED
      BY <3>6, <3>7, Zenon DEF Continues
  <2> QED
    BY <2>2, <2>3, Zenon
<1>9. ASSUME NEW r \in served, ServerDone(r), NEW d \in Calls, Listening(d) PROVE Continues(d)'
  <2>1. /\ served' = served \ {r} /\ down' = Append(down, Down("done", r))
        /\ items' = items /\ link' = link
    BY <1>9, Zenon DEF ServerDone, callVars, linkVars
  <2>2. Down("done", r) \in Answered /\ Down("done", r).kind = "done"
    BY <1>t, Zenon DEF Down, Answered, Work
  <2>3. \A q \in served' : q.call = d => q \in served
    BY <2>1, Zenon
  <2> QED
    BY <1>7, <1>9, <2>1, <2>2, <2>3, Zenon
<1>10. ASSUME ServerTake, NEW d \in Calls, Listening(d) PROVE Continues(d)'
  <2>1. up # <<>> /\ down' = down /\ items' = items /\ link' = link
    BY <1>10, Zenon DEF ServerTake, callVars, linkVars
  <2>2. Head(up) = up[1] /\ 1 \in 1..Len(up)
    BY <2>1, SeqFacts, Zenon DEF TypeOK
  <2> DEFINE new == [id |-> Head(up).id, call |-> Head(up).call, n |-> 0]
  <2>3. /\ \A r \in served' : r \in served \/ (r = new /\ up[1].kind = "invoke")
        /\ new.call = up[1].call /\ new.n = 0
    BY <1>10, <2>2, Zenon DEF ServerTake
  <2> HIDE DEF new
  <2>4. Continues(d)
    BY <1>10, Zenon
  <2>5. ASSUME up[1].kind = "invoke", up[1].call = d
        PROVE  items[d] = <<>> /\ \A j \in 1..Len(down) : ~IsItem(j, d)
    BY <2>2, <2>5, Zenon DEF Once
  <2>6. ASSUME NEW r \in served', r.call = d, link' = "up"
        PROVE  /\ \/ r.n = Len(items[d])
                  \/ \E j \in 1..Len(down) : IsItem(j, d) /\ r.n = down[j].n
               /\ \A j \in 1..Len(down) : IsItem(j, d) => down[j].n <= r.n
    <3>1. CASE r \in served
      BY <2>1, <2>4, <2>6, <3>1, Zenon DEF Continues
    <3>2. CASE r = new /\ up[1].kind = "invoke"
      BY <2>3, <2>5, <2>6, <3>2, Zenon
    <3> QED
      BY <2>3, <3>1, <3>2, Zenon
  <2> QED
    BY <2>1, <2>4, <2>6, Zenon DEF Continues, IsItem
<1> QED
  <2> SUFFICES ASSUME NEW d \in Calls, Listening(d)' PROVE Continues(d)'
    BY Zenon
  <2>1. CASE \E c \in Calls : CallStep(c) \/ Unforced(c)
    BY <2>1, <1>1, Zenon
  <2>2. CASE ~\E c \in Calls : CallStep(c) \/ Unforced(c)
    <3>1. Listening(d)
      BY <2>2, <1>b, Zenon
    <3> QED
      BY <2>2, <3>1, <1>2, <1>3, <1>4, <1>5, <1>8, <1>9, <1>10, Zenon
         DEF Next, Receive, Supervise, CloseStep, Server, Quiet
  <2> QED
    BY <2>1, <2>2, Zenon

-----------------------------------------------------------------------------
(* Answers *)

\* What a step of a call tells the calls: their outcome, or that their sender
\* is gone, and then it is the one the bus held under its id.
LEMMA ResultCall ==
    ASSUME TypeOK, NEW c \in Calls, CallStep(c) \/ Unforced(c), NEW d \in Calls
    PROVE  \/ result'[d] = result[d]
           \/ result'[d] \in Outcomes \ {"gone"}
           \/ /\ result[d] = "none" /\ result'[d] = "gone" /\ d = pending[id[c]]
              /\ \/ Register(c) \/ RemoveStream(c)
                 \/ (Cleanup(c) \/ CancelStream(c)) /\ d # c
<1>a. \A C, r : /\ Answer(C, r)[d] \in {result[d], r}
                /\ Answer(C, r)[d] # result[d] => d \in C /\ result[d] = "none"
  BY Zenon DEF Answer
<1>b. "refused" \in Outcomes \ {"gone"} /\ "stopped" \in Outcomes \ {"gone"}
  BY Zenon DEF Outcomes
<1>c. \A C, r, s : [Answer(C, r) EXCEPT ![c] = s][d] = IF d = c THEN s ELSE Answer(C, r)[d]
  BY Zenon DEF Answer
<1> DEFINE A == Answer({pending[id[c]]} \ {None}, "gone")
<1>d. A[d] = result[d] \/ (A[d] = "gone" /\ result[d] = "none" /\ d = pending[id[c]])
  <2> DEFINE C == {pending[id[c]]} \ {None}
  <2>1. d \in C => d = pending[id[c]]
    BY Zenon
  <2> HIDE DEF C
  <2>2. A = Answer(C, "gone")
    BY Zenon DEF C
  <2> HIDE DEF A
  <2> QED
    BY <2>1, <2>2, <1>a, Zenon
<1> HIDE DEF A
<1>1. CASE Register(c) \/ RemoveStream(c)
  <2>1. result' = A
    BY <1>1, Zenon DEF Register, RemoveStream, Remove, A
  <2> QED
    BY <1>1, <1>d, <2>1, Zenon
<1>2. CASE Cleanup(c)
  <2>1. result' = [A EXCEPT ![c] = "refused"]
    BY <1>2, Zenon DEF Cleanup, A
  <2>2. result'[d] = IF d = c THEN "refused" ELSE A[d]
    BY <2>1, <1>c, Zenon DEF A
  <2> QED
    BY <1>2, <1>b, <1>d, <2>2, Zenon
<1>3. CASE CancelStream(c)
  <2>1. result' = [A EXCEPT ![c] = "stopped"]
    BY <1>3, Zenon DEF CancelStream, A
  <2>2. result'[d] = IF d = c THEN "stopped" ELSE A[d]
    BY <2>1, <1>c, Zenon DEF A
  <2> QED
    BY <1>3, <1>b, <1>d, <2>2, Zenon
<1>4. CASE TakeId(c) \/ Require(c) \/ DropStream(c)
  <2>1. result' = result \/ result' = Answer({c}, "refused") \/ result' = Answer({c}, "stopped")
    BY <1>4, Zenon DEF TakeId, Require, DropStream
  <2> QED
    BY <1>a, <1>b, <2>1
<1>5. CASE Transmit(c) \/ Return(c) \/ SendCancel(c) \/ Abandon(c) \/ RoomMade(c) \/ RoomGone(c)
  BY <1>5, Zenon DEF Transmit, Return, SendCancel, Abandon, RoomMade, RoomGone
<1> QED
  BY <1>1, <1>2, <1>3, <1>4, <1>5, Zenon DEF CallStep, Unforced

\* What the other steps tell the calls.
LEMMA ResultOther ==
    ASSUME TypeOK, Receive \/ Supervise \/ Resume \/ SupDial \/ SupFail \/ Awaited \/ Close \/ CloseStep \/ Lose \/ Server,
           NEW d \in Calls
    PROVE  \/ result'[d] \in {result[d], "canceled"}
           \/ ReceiveCompletion /\ result'[d] = down[1].call /\ d = pending[down[1].id]
<1>a. \A C, r : /\ Answer(C, r)[d] \in {result[d], r}
                /\ Answer(C, r)[d] # result[d] => d \in C
  BY Zenon DEF Answer
<1>1. CASE ReceiveCompletion
  <2> DEFINE C == {pending[down[1].id]} \ {None}
  <2>0. Head(down) = down[1]
    BY <1>1, HeadGone, Zenon
  <2>1. result' = Answer(C, down[1].call)
    BY <1>1, <2>0, Zenon DEF ReceiveCompletion, Completed
  <2>2. d \in C => d = pending[down[1].id]
    BY Zenon
  <2> HIDE DEF C
  <2> QED
    BY <1>1, <1>a, <2>1, <2>2, Zenon
<1>2. CASE ReceiveClose \/ SupCancel \/ CloseCancel
  <2>1. result' = Answer({pending[i] : i \in Ids} \ {None}, "canceled")
    BY <1>2, Zenon DEF ReceiveClose, SupCancel, CloseCancel, CancelAll
  <2> QED
    BY <1>a, <2>1, Zenon
<1>3. CASE ReceiveItem \/ SupTake \/ SupMark \/ CloseTake
  BY <1>3, Zenon DEF ReceiveItem, SupTake, SupMark, CloseTake
<1>4. CASE Resume \/ SupDial \/ SupFail \/ Awaited \/ Close \/ Lose \/ Server
  <2>1. result' = result
    BY <1>4, Zenon DEF Resume, SupDial, SupFail, Awaited, SupAborted, CloseDone, Close, Lose, Server,
     ServerTake, ServerItem, ServerDone, ServerClose
  <2> QED
    BY <2>1, Zenon
<1> QED
  BY <1>1, <1>2, <1>3, <1>4, Zenon DEF Receive, Supervise, CloseStep

\* Every step keeps RightAnswer: the bus finds the call an answer names, and
\* the next item of a HubMethodStream comes next.
LEMMA AnswersStep ==
    ASSUME TypeOK, InRange, Progress, Registered, Belongs, \A c \in Calls : Listening(c) => Continues(c),
           RightAnswer, Next
    PROVE  RightAnswer'
<1>o. /\ \A r \in Outcomes : r \notin Calls
      /\ "canceled" \in Outcomes
  BY InvocationsAssumption, Zenon DEF Outcomes
<1>r. \A c \in Calls : /\ result[c] \in Calls => result[c] = c
                       /\ \A i \in DOMAIN items[c] : items[c][i] = [call |-> c, n |-> i]
  BY Zenon DEF RightAnswer
<1>1. ASSUME NEW d \in Calls, result'[d] \in Calls PROVE result'[d] = d
  <2>1. CASE \E c \in Calls : CallStep(c) \/ Unforced(c)
    <3>1. \/ result'[d] = result[d] \/ result'[d] \in Outcomes \ {"gone"} \/ result'[d] = "gone"
      BY <2>1, ResultCall, Zenon
    <3>2. result'[d] = result[d]
      BY <1>1, <3>1, <1>o, Zenon DEF Outcomes
    <3> QED
      BY <1>1, <1>r, <3>2, Zenon
  <2>2. CASE Receive \/ Supervise \/ Resume \/ SupDial \/ SupFail \/ Awaited \/ Close \/ CloseStep \/ Lose \/ Server
    <3>1. \/ result'[d] \in {result[d], "canceled"}
          \/ ReceiveCompletion /\ result'[d] = down[1].call /\ d = pending[down[1].id]
      BY <2>2, ResultOther, Zenon
    <3>2. CASE ReceiveCompletion /\ result'[d] = down[1].call /\ d = pending[down[1].id]
      <4>1. pending[down[1].id] \in {None, down[1].call}
        BY <3>2, HeadOwner, Zenon
      <4>2. None # d
        BY InvocationsAssumption, Zenon
      <4> QED
        BY <3>2, <4>1, <4>2, Zenon
    <3> QED
      BY <1>1, <1>r, <1>o, <3>1, <3>2
  <2> QED
    BY <2>1, <2>2, Zenon DEF Next
<1>2. ASSUME NEW d \in Calls PROVE \A i \in DOMAIN items'[d] : items'[d][i] = [call |-> d, n |-> i]
  <2>1. CASE items'[d] = items[d]
    BY <2>1, <1>r, ZenonT(30)
  <2>2. CASE items'[d] # items[d]
    <3>0. ReceiveItem
      <4>1. ASSUME NEW c \in Calls, CallStep(c) \/ Unforced(c) PROVE items' = items
        BY <4>1, CallFrame, Zenon
      <4> QED
        BY <2>2, <4>1, OtherFrame, Zenon DEF Next
    <3> DEFINE item == [call |-> down[1].call, n |-> down[1].n]
    <3>t. items \in [Calls -> Seq(StreamItem)]
      BY Zenon DEF TypeOK
    <3>1. /\ d = down[1].call /\ Listening(d)
          /\ items' = [items EXCEPT ![d] = Append(items[d], item)]
      BY <3>0, <2>2, <3>t, ItemOwner, Zenon
    <3>2. 1 \in 1..Len(down) /\ IsItem(1, d) /\ down[1].n \in Nat
      BY <3>0, <3>1, HeadGone, HeadOwner, Zenon DEF IsItem, ReceiveItem
    <3>3. Continues(d)
      BY <3>1, Zenon
    <3>4. down[1].n = Len(items[d]) + 1
      <4>1. \/ down[1].n = Len(items[d]) + 1
            \/ \E j \in 1..(1 - 1) : IsItem(j, d) /\ down[1].n = down[j].n + 1
        BY <3>2, <3>3, Zenon DEF Continues
      <4> QED
        BY <4>1
    <3>5. item \in StreamItem /\ item = [call |-> d, n |-> Len(items[d]) + 1]
      BY <3>1, <3>2, <3>4, Zenon DEF StreamItem
    <3> HIDE DEF item
    <3>6. items'[d] = Append(items[d], item) /\ items[d] \in Seq(StreamItem)
      BY <3>1, <3>t, ZenonT(30)
    <3>7. /\ DOMAIN items'[d] = 1..(Len(items[d]) + 1) /\ Len(items[d]) \in Nat /\ DOMAIN items[d] = 1..Len(items[d])
          /\ items'[d][Len(items[d]) + 1] = item
          /\ \A i \in 1..Len(items[d]) : items'[d][i] = items[d][i]
      BY <3>5, <3>6
    <3>8. \A i \in 1..(Len(items[d]) + 1) : i \in 1..Len(items[d]) \/ i = Len(items[d]) + 1
      BY <3>7
    <3> QED
      BY <1>r, <3>5, <3>7, <3>8, Zenon
  <2> QED
    BY <2>1, <2>2, Zenon
<1> QED
  BY <1>1, <1>2, Zenon DEF RightAnswer

\* On one connection a step drops the sender of no call but its own.
LEMMA EndStep ==
    ASSUME TypeOK, InRange, Progress, Registered, OnlyOwnEnd, Next, Apart, session = 1
    PROVE  \A d \in Calls : result'[d] # "gone"
<1>0. \A d \in Calls : result[d] # "gone"
  BY Zenon DEF OnlyOwnEnd, Apart
<1> SUFFICES ASSUME NEW d \in Calls, result'[d] = "gone" PROVE FALSE
  BY Zenon
<1>n. "gone" \notin Calls /\ None \notin Calls
  BY InvocationsAssumption, Zenon
<1>1. ASSUME NEW c \in Calls, CallStep(c) \/ Unforced(c) PROVE FALSE
  <2>1. /\ result[d] = "none" /\ d = pending[id[c]]
        /\ \/ Register(c) \/ RemoveStream(c)
           \/ (Cleanup(c) \/ CancelStream(c)) /\ d # c
    BY <1>1, <1>0, ResultCall, ZenonT(30)
  <2>2. pc[c] \in {"register", "dropping", "cleanup", "waiting"}
    BY <2>1, CallMoves, Zenon
  <2>3. Current(c)
    BY <2>2, Zenon DEF Progress, Current
  <2>4. id[c] \in Ids
    BY <2>3, IdInRange, Zenon
  <2>5. Current(d) /\ id[d] = id[c] /\ pc[d] # "register"
    BY <2>1, <2>4, <1>n, Zenon DEF Registered
  <2>6. d = c
    BY <2>3, <2>5, Zenon DEF Registered
  <2>7. RemoveStream(c)
    BY <2>1, <2>5, <2>6, CallMoves, Zenon
  <2>8. result[c] # "none"
    BY <2>7, CallMoves, Zenon DEF Progress
  <2> QED
    BY <2>1, <2>6, <2>8, Zenon
<1>2. CASE Receive \/ Supervise \/ Resume \/ SupDial \/ SupFail \/ Awaited \/ Close \/ CloseStep \/ Lose \/ Server
  <2>1. ReceiveCompletion /\ "gone" = down[1].call
    BY <1>0, <1>2, ResultOther, Zenon
  <2>2. down[1].call \in Calls
    <3>1. 1 \in 1..Len(down) /\ down[1].kind = "done"
      BY <2>1, HeadGone, Zenon
    <3>2. down[1] \in Answered
      BY <3>1 DEF TypeOK
    <3> QED
      BY <3>1, <3>2 DEF Answered
  <2> QED
    BY <2>1, <2>2, <1>n, Zenon
<1> QED
  BY <1>1, <1>2, Zenon DEF Next

-----------------------------------------------------------------------------
(* Results *)

\* The invariant holds of a connection that has just been started.
LEMMA StartInv == Init => CallInv
<1> SUFFICES ASSUME Init PROVE CallInv
  BY Zenon
<1>1. TypeOK
  BY DEF Init, TypeOK, Places, Outcomes
<1>2. Progress
  BY DEF Init, Progress, Sending
<1>6. InRange
  BY InvocationsAssumption DEF Init, InRange
<1>3. Registered /\ Belongs /\ Once
  BY DEF Init, Registered, Belongs, Once, Current
<1>4. \A c \in Calls : ~Listening(c)
  BY InvocationsAssumption, Zenon DEF Init, Listening, Ids
<1>5. RightAnswer /\ \A c \in Calls : result[c] # "gone"
  BY InvocationsAssumption DEF Init, RightAnswer
<1> QED
  BY <1>1, <1>2, <1>3, <1>4, <1>5, <1>6, Zenon DEF CallInv, RightUnlessResumed, OnlyOwnEnd

\* Every step preserves it.
LEMMA InvStep ==
    ASSUME CallInv, [Next]_<<config, vars>>
    PROVE  CallInv'
<1>1. CASE Next
  <2>0. TypeOK /\ InRange /\ Progress /\ RightUnlessResumed /\ OnlyOwnEnd
    BY Zenon DEF CallInv
  <2>1. TypeOK' /\ InRange' /\ Progress'
    BY <1>1, <2>0, TypeStep, RangeStep, ProgressStep, Zenon
  <2>2. ASSUME Apart'
        PROVE  /\ Registered' /\ Belongs' /\ Once' /\ RightAnswer'
               /\ \A c \in Calls : Listening(c)' => Continues(c)'
    <3>1. Apart
      BY <1>1, <2>0, <2>2, ApartBefore, Zenon
    <3>2. /\ Registered /\ Belongs /\ Once /\ RightAnswer
          /\ \A c \in Calls : Listening(c) => Continues(c)
      BY <3>1, Zenon DEF CallInv, RightUnlessResumed, Apart
    <3>3. Registered' /\ Belongs' /\ Once' /\ RightAnswer'
      BY <1>1, <2>0, <2>2, <3>2, RegisteredStep, BelongsStep, OnceStep, AnswersStep, Zenon
    <3>4. CASE SupDial
      BY <3>3, <3>4 DEF SupDial, Continues
    <3> QED
      BY <1>1, <2>0, <3>2, <3>3, <3>4, ContinuesStep, Zenon
  <2>3. RightUnlessResumed'
    BY <2>2, Zenon DEF RightUnlessResumed, Apart
  <2>4. OnlyOwnEnd'
    <3> SUFFICES ASSUME session' = 1, resumes' = 0 PROVE \A c \in Calls : result'[c] # "gone"
      BY Zenon DEF OnlyOwnEnd
    <3>1. Apart'
      BY Zenon DEF Apart
    <3>2. Apart
      BY <1>1, <2>0, <3>1, ApartBefore, Zenon
    <3>3. session = 1
      <4>1. ASSUME NEW c \in Calls, CallStep(c) \/ Unforced(c) PROVE session' = session
        BY <2>0, <4>1, CallFrame, Zenon DEF linkVars
      <4>2. session' = session \/ session' = session + 1
        BY <1>1, <4>1, OtherFrame, Zenon DEF Next
      <4>3. session \in Nat \ {0}
        BY <2>0, Zenon DEF TypeOK
      <4> QED
        BY <4>2, <4>3
    <3>4. Registered
      BY <3>2, Zenon DEF CallInv
    <3> QED
      BY <1>1, <2>0, <3>2, <3>3, <3>4, EndStep, Zenon
  <2> QED
    BY <2>1, <2>2, <2>3, <2>4, Zenon DEF CallInv
<1>2. CASE UNCHANGED <<config, vars>>
  <2>1. UNCHANGED <<config, hubVars, pending, callVars, result, linkVars, netVars>>
    BY <1>2, Zenon DEF vars
  <2> USE <2>1 DEF hubVars, callVars, linkVars, netVars
  <2>2. (TypeOK => TypeOK') /\ (InRange => InRange')
    BY Zenon DEF TypeOK, InRange
  <2>3. Progress => Progress'
    BY Zenon DEF Progress
  <2>4. Registered => Registered'
    BY Zenon DEF Registered, Current
  <2>5. Belongs => Belongs'
    BY Zenon DEF Belongs, Owned
  <2>6. Once => Once'
    BY DEF Once, IsItem
  <2>7. (\A c \in Calls : Listening(c) => Continues(c)) => \A c \in Calls : Listening(c)' => Continues(c)'
    BY SMTT(30) DEF Listening, Continues, IsItem
  <2>8. (RightUnlessResumed => RightUnlessResumed') /\ (OnlyOwnEnd => OnlyOwnEnd') /\ (Apart' => Apart)
    BY Zenon DEF RightUnlessResumed, RightAnswer, OnlyOwnEnd, Apart
  <2> QED
    BY <2>2, <2>3, <2>4, <2>5, <2>6, <2>7, <2>8, Zenon DEF CallInv
<1> QED
  BY <1>1, <1>2, Zenon

\* A call gets its own answer and a HubMethodStream its own items, in the
\* server's order and none left out, as long as nothing was resumed: for any
\* number of calls, of items and, unless tasks run in parallel, of connections.
THEOREM OwnAnswers == Spec => []RightUnlessResumed
<1>1. CallInv => RightUnlessResumed
  BY Zenon DEF CallInv
<1>2. CallInv /\ [Next]_<<config, vars>> => CallInv'
  BY InvStep, Zenon
<1> QED
  BY <1>1, <1>2, StartInv, PTL DEF Spec

\* On one connection no call is ended by another, nor by the drop or the
\* cancellation of another's stream.
THEOREM NoCallEndsAnother == Spec => []OnlyOwnEnd
<1>1. CallInv => OnlyOwnEnd
  BY Zenon DEF CallInv
<1>2. CallInv /\ [Next]_<<config, vars>> => CallInv'
  BY InvStep, Zenon
<1> QED
  BY <1>1, <1>2, StartInv, PTL DEF Spec
=============================================================================
