-------------------------- MODULE SendQueueProofs --------------------------
(***************************************************************************)
(* Proofs about SendQueue for any number of calls of send() and stop().    *)
(***************************************************************************)
EXTENDS SendQueue, TLAPS

-----------------------------------------------------------------------------
(* The inductive invariant *)

\* The part of the channel the tickets order.
IsSend(i) == commands[i] \in Sends

\* wire, buffer and the sends of the channel, read one after the other, are
\* ordered by ticket, and every ticket among them has been issued.
Ordered ==
    /\ \A i, j \in DOMAIN wire : i < j => ticket[wire[i]] < ticket[wire[j]]
    /\ \A i, j \in DOMAIN buffer : i < j => ticket[buffer[i]] < ticket[buffer[j]]
    /\ \A i, j \in DOMAIN commands :
          i < j /\ IsSend(i) /\ IsSend(j) => ticket[commands[i]] < ticket[commands[j]]
    /\ \A i \in DOMAIN wire, j \in DOMAIN buffer : ticket[wire[i]] < ticket[buffer[j]]
    /\ \A i \in DOMAIN wire, j \in DOMAIN commands :
          IsSend(j) => ticket[wire[i]] < ticket[commands[j]]
    /\ \A i \in DOMAIN buffer, j \in DOMAIN commands :
          IsSend(j) => ticket[buffer[i]] < ticket[commands[j]]
    /\ \A s \in Sends : ticket[s] <= issued

\* Where a payload is tells what its call knows.
Located ==
    /\ \A i \in DOMAIN commands :
          IsSend(i) => outcome[commands[i]] \in {"waiting", "abandoned"}
    /\ \A i \in DOMAIN buffer :
          /\ outcome[buffer[i]] \in {"waiting", "stopped", "abandoned"}
          /\ outcome[buffer[i]] = "waiting" => buffer[i] \in pending
    /\ pending \subseteq Elements(buffer)

\* Between batches the worker holds nothing, and when it has ended neither
\* does the channel.
Resting ==
    /\ worker \in {"recv", "done"} => buffer = <<>> /\ pending = {}
    /\ worker = "done" => commands = <<>>

\* The JoinHandle is with `worker`, with the stop() that joins, or gone.
Joining ==
    /\ ~handle => \/ worker = "done"
                  \/ \E q \in Stops : stop[q] \in {"joining", "abandoned"}
    /\ \A p \in Stops : stop[p] \in {"joining", "done"} => ~handle
    /\ StopJoinsWorker

IInv ==
    /\ TypeOK
    /\ Ordered
    /\ Located
    /\ Resting
    /\ Joining
    /\ UniformBuffer
    /\ AnswersMatchWire
    /\ NoLostResponse

-----------------------------------------------------------------------------
(* Sequences *)

\* What Tail() leaves of a channel that is not empty.
LEMMA TailFacts ==
    ASSUME NEW S, NEW q \in Seq(S), q # <<>>
    PROVE  /\ Head(q) \in S
           /\ Head(q) = q[1]
           /\ 1 \in DOMAIN q
           /\ Tail(q) \in Seq(S)
           /\ \A i \in DOMAIN Tail(q) : i + 1 \in DOMAIN q /\ Tail(q)[i] = q[i + 1]
           /\ \A i \in DOMAIN Tail(q) : i \in Nat /\ i > 0
           /\ \A i \in DOMAIN q : i = 1 \/ (i - 1 \in DOMAIN Tail(q) /\ Tail(q)[i - 1] = q[i])
  OBVIOUS

\* What Append() adds.
LEMMA AppendFacts ==
    ASSUME NEW S, NEW q \in Seq(S), NEW x \in S
    PROVE  /\ Append(q, x) \in Seq(S)
           /\ Append(q, x) # <<>>
           /\ DOMAIN Append(q, x) = DOMAIN q \cup {Len(q) + 1}
           /\ Append(q, x)[Len(q) + 1] = x
           /\ \A i \in DOMAIN q : Append(q, x)[i] = q[i]
           /\ \A i \in DOMAIN q : i \in Nat /\ i > 0 /\ i < Len(q) + 1
           /\ Len(q) \in Nat
  OBVIOUS

\* What concatenation does to indices.
LEMMA ConcatFacts ==
    ASSUME NEW S, NEW q \in Seq(S), NEW r \in Seq(S)
    PROVE  /\ q \o r \in Seq(S)
           /\ \A i \in DOMAIN (q \o r) :
                 i \in Nat /\
                 \/ i \in DOMAIN q /\ (q \o r)[i] = q[i]
                 \/ i - Len(q) \in DOMAIN r /\ (q \o r)[i] = r[i - Len(q)] /\ i > Len(q)
           /\ \A i \in DOMAIN q : i \in DOMAIN (q \o r) /\ (q \o r)[i] = q[i] /\ i <= Len(q)
           /\ \A i \in DOMAIN r : i + Len(q) \in DOMAIN (q \o r) /\ (q \o r)[i + Len(q)] = r[i]
           /\ Len(q) \in Nat
  OBVIOUS

\* No call, rank or payload exists before the queue does.
LEMMA InitIInv == Init => IInv
  <1> SUFFICES ASSUME Init PROVE IInv
    BY Zenon
  <1> USE DEF Init
  <1>a. dropped \in BOOLEAN /\ handle \in BOOLEAN
    BY Zenon
  <1>b. /\ outcome \in [Sends -> Outcomes]
        /\ ticket \in [Sends -> Nat]
        /\ stop \in [Stops -> {"idle", "locking", "joining", "done", "abandoned"}]
    BY Zenon DEF Outcomes
  <1>1. TypeOK
    BY <1>a, <1>b DEF TypeOK
  <1>2. DOMAIN commands = {} /\ DOMAIN buffer = {} /\ DOMAIN wire = {}
    OBVIOUS
  <1>3. Ordered
    BY <1>2 DEF Ordered
  <1>4. Located
    BY <1>2, Zenon DEF Located
  <1>5. Resting /\ Joining
    BY Zenon DEF Resting, Joining, StopJoinsWorker
  <1>6. UniformBuffer /\ AnswersMatchWire /\ NoLostResponse
    BY <1>2, Zenon DEF UniformBuffer, AnswersMatchWire, NoLostResponse, Elements
  <1> QED
    BY <1>1, <1>3, <1>4, <1>5, <1>6, Zenon DEF IInv

-----------------------------------------------------------------------------
(* Each action preserves the invariant *)

LEMMA SendIInv == ASSUME IInv, NEW s \in Sends, Send(s) PROVE IInv'
  <1> USE SendQueueAssumption DEF IInv
  <1>1. CASE worker = "done"
    <2> USE <1>1 DEF Send, stopVars, workerVars
    <2>1. TypeOK'
      BY Zenon DEF TypeOK, Outcomes
    <2>2. Ordered'
      BY Zenon DEF Ordered, IsSend
    <2>3. Located'
      BY DEF Located, IsSend, Elements, TypeOK, Resting
    <2>4. Resting' /\ Joining' /\ UniformBuffer'
      BY Zenon DEF Resting, Joining, StopJoinsWorker, UniformBuffer, Kind
    <2>b. /\ outcome'[s] = "closed"
          /\ \A r \in Sends : r # s => outcome'[r] = outcome[r]
      BY Zenon DEF TypeOK
    <2>c. s \notin Elements(wire)
      BY Zenon DEF AnswersMatchWire
    <2>5. AnswersMatchWire'
      BY <2>b, <2>c, Zenon DEF AnswersMatchWire, Elements
    <2>6. NoLostResponse'
      BY Zenon DEF NoLostResponse, Elements, TypeOK
    <2> QED
      BY <2>1, <2>2, <2>3, <2>4, <2>5, <2>6, Zenon
  <1>2. CASE worker # "done"
    <2> USE <1>2 DEF Send, stopVars, workerVars
    <2>a. /\ commands' = Append(commands, s)
          /\ issued' = issued + 1
          /\ ticket' = [ticket EXCEPT ![s] = issued + 1]
          /\ outcome' = [outcome EXCEPT ![s] = "waiting"]
          /\ outcome[s] = "new"
      BY Zenon
    <2>b. /\ commands \in Seq(Sends \cup {Shutdown})
          /\ buffer \in Seq(Sends)
          /\ wire \in Seq(Sends)
          /\ ticket \in [Sends -> Nat]
          /\ outcome \in [Sends -> Outcomes]
          /\ issued \in Nat
      BY Zenon DEF TypeOK
    <2>e. outcome' \in [Sends -> Outcomes] /\ ticket' \in [Sends -> Nat] /\ issued' \in Nat
      BY <2>a, <2>b DEF Outcomes
    <2>f. commands' \in Seq(Sends \cup {Shutdown})
      BY <2>a, <2>b, AppendFacts, Zenon
    <2>1. TypeOK'
      BY <2>e, <2>f, Zenon DEF TypeOK
    \* A call that is new is nowhere in the queue, so its rank disturbs no other.
    <2>c. /\ \A i \in DOMAIN commands : commands[i] # s
          /\ \A i \in DOMAIN buffer : buffer[i] # s
          /\ \A i \in DOMAIN wire : wire[i] # s
      BY <2>a, Zenon DEF Located, AnswersMatchWire, IsSend, Elements
    <2>d. /\ DOMAIN commands' = DOMAIN commands \cup {Len(commands) + 1}
          /\ commands'[Len(commands) + 1] = s
          /\ \A i \in DOMAIN commands : commands'[i] = commands[i]
          /\ \A i \in DOMAIN commands : i \in Nat /\ i < Len(commands) + 1
          /\ Len(commands) \in Nat
      BY <2>a, <2>b, AppendFacts
    <2>g. /\ \A r \in Sends : r # s => ticket'[r] = ticket[r]
          /\ ticket'[s] = issued + 1
          /\ \A r \in Sends : ticket[r] \in Nat /\ ticket[r] < issued + 1
      BY <2>a, <2>b DEF Ordered
    <2>h. /\ \A i \in DOMAIN wire : wire[i] \in Sends
          /\ \A i \in DOMAIN buffer : buffer[i] \in Sends
      BY <2>b
    <2>2. Ordered'
      <3>1. \A i, j \in DOMAIN wire' : i < j => ticket'[wire'[i]] < ticket'[wire'[j]]
        BY <2>c, <2>g, <2>h DEF Ordered
      <3>2. \A i, j \in DOMAIN buffer' : i < j => ticket'[buffer'[i]] < ticket'[buffer'[j]]
        BY <2>c, <2>g, <2>h DEF Ordered
      <3>3. \A i, j \in DOMAIN commands' :
              i < j /\ IsSend(i)' /\ IsSend(j)' => ticket'[commands'[i]] < ticket'[commands'[j]]
        BY <2>c, <2>d, <2>g DEF Ordered, IsSend
      <3>4. \A i \in DOMAIN wire', j \in DOMAIN buffer' : ticket'[wire'[i]] < ticket'[buffer'[j]]
        BY <2>c, <2>g, <2>h DEF Ordered
      <3>5. \A i \in DOMAIN wire', j \in DOMAIN commands' :
              IsSend(j)' => ticket'[wire'[i]] < ticket'[commands'[j]]
        BY <2>c, <2>d, <2>g, <2>h DEF Ordered, IsSend
      <3>6. \A i \in DOMAIN buffer', j \in DOMAIN commands' :
              IsSend(j)' => ticket'[buffer'[i]] < ticket'[commands'[j]]
        BY <2>c, <2>d, <2>g, <2>h DEF Ordered, IsSend
      <3>7. \A r \in Sends : ticket'[r] <= issued'
        BY <2>a, <2>b, <2>g DEF Ordered
      <3> QED
        BY <3>1, <3>2, <3>3, <3>4, <3>5, <3>6, <3>7, Zenon DEF Ordered
    <2>3. Located'
      BY <2>a, <2>b, <2>c, <2>d DEF Located, IsSend, Elements
    <2>4. Resting' /\ Joining' /\ UniformBuffer'
      BY Zenon DEF Resting, Joining, StopJoinsWorker, UniformBuffer, Kind
    <2>5. AnswersMatchWire'
      BY <2>a, <2>b, <2>c, Zenon DEF AnswersMatchWire, Elements
    <2>6. NoLostResponse'
      BY <2>a, <2>b, <2>d DEF NoLostResponse, Elements
    <2> QED
      BY <2>1, <2>2, <2>3, <2>4, <2>5, <2>6, Zenon
  <1> QED
    BY <1>1, <1>2, Zenon

LEMMA AbandonSendIInv == ASSUME IInv, NEW s \in Sends, AbandonSend(s) PROVE IInv'
  <1> USE DEF IInv, AbandonSend, stopVars, workerVars
  <1>1. TypeOK'
    BY Zenon DEF TypeOK, Outcomes
  <1>2. Ordered'
    BY Zenon DEF Ordered, IsSend
  <1>3. Located'
    BY DEF Located, IsSend, Elements, TypeOK
  <1>4. Resting' /\ Joining' /\ UniformBuffer'
    BY Zenon DEF Resting, Joining, StopJoinsWorker, UniformBuffer, Kind
  <1>5. AnswersMatchWire' /\ NoLostResponse'
    BY Zenon DEF AnswersMatchWire, NoLostResponse, Elements, TypeOK
  <1> QED
    BY <1>1, <1>2, <1>3, <1>4, <1>5, Zenon

\* stop() touches the channel only by a Shutdown, which no conjunct about the
\* sends reads.
LEMMA StopCallIInv == ASSUME IInv, NEW p \in Stops, StopCall(p) PROVE IInv'
  <1> USE SendQueueAssumption DEF IInv, StopCall, sendVars, workerVars
  <1>a. /\ commands \in Seq(Sends \cup {Shutdown})
        /\ commands' \in Seq(Sends \cup {Shutdown})
        /\ \A i \in DOMAIN commands : i \in DOMAIN commands' /\ commands'[i] = commands[i]
        /\ \A i \in DOMAIN commands' : i \in DOMAIN commands \/ commands'[i] = Shutdown
    BY AppendFacts DEF TypeOK
  <1>1. TypeOK'
    BY <1>a, Zenon DEF TypeOK
  <1>2. Ordered'
    BY <1>a DEF Ordered, IsSend
  <1>3. Located'
    BY <1>a DEF Located, IsSend, Elements
  <1>4. Resting' /\ UniformBuffer'
    BY Zenon DEF Resting, UniformBuffer, Kind
  <1>5. Joining'
    BY Zenon DEF Joining, StopJoinsWorker, TypeOK
  <1>6. AnswersMatchWire' /\ NoLostResponse'
    BY <1>a DEF AnswersMatchWire, NoLostResponse, Elements
  <1> QED
    BY <1>1, <1>2, <1>3, <1>4, <1>5, <1>6, Zenon

\* The other steps of the callers leave the sends alone.
LEMMA StopStepIInv ==
    ASSUME IInv, NEW p \in Stops, StopLock(p) \/ StopJoin(p) \/ AbandonStop(p)
    PROVE  IInv'
  <1> USE DEF IInv, StopLock, StopJoin, AbandonStop, sendVars, workerVars
  <1>1. TypeOK'
    BY Zenon DEF TypeOK
  <1>2. Ordered' /\ Located'
    BY DEF Ordered, Located, IsSend, Elements
  <1>3. Resting' /\ UniformBuffer'
    BY Zenon DEF Resting, UniformBuffer, Kind
  <1>4. Joining'
    <2>a. stop \in [Stops -> {"idle", "locking", "joining", "done", "abandoned"}]
      BY Zenon DEF TypeOK
    <2>b. \A q \in Stops : q # p => stop'[q] = stop[q]
      BY <2>a, Zenon
    <2>1. CASE StopLock(p)
      <3>1. CASE handle
        <4>1. stop'[p] = "joining" /\ handle' = FALSE /\ worker' = worker
          BY <2>1, <2>a, <3>1, Zenon
        <4>2. \A q \in Stops : stop[q] # "done"
          BY <3>1, Zenon DEF Joining
        <4> QED
          BY <2>b, <4>1, <4>2, Zenon DEF Joining, StopJoinsWorker
      <3>2. CASE ~handle
        <4>1. stop'[p] = "done" /\ handle' = FALSE /\ worker' = worker
          BY <2>1, <2>a, <3>2, Zenon
        <4>2. worker = "done" \/ \E q \in Stops : q # p /\ stop[q] = "abandoned"
          BY <2>1, <3>2, Zenon DEF Joining
        <4> QED
          BY <2>b, <4>1, <4>2, Zenon DEF Joining, StopJoinsWorker
      <3> QED
        BY <3>1, <3>2, Zenon
    <2>2. CASE StopJoin(p)
      BY <2>2, <2>a, <2>b, Zenon DEF Joining, StopJoinsWorker
    <2>3. CASE AbandonStop(p)
      BY <2>3, <2>a, <2>b, Zenon DEF Joining, StopJoinsWorker
    <2> QED
      BY <2>1, <2>2, <2>3, Zenon
  <1>5. AnswersMatchWire' /\ NoLostResponse'
    BY DEF AnswersMatchWire, NoLostResponse, Elements
  <1> QED
    BY <1>1, <1>2, <1>3, <1>4, <1>5, Zenon

LEMMA DropQueueIInv == ASSUME IInv, DropQueue PROVE IInv'
  <1> USE DEF IInv, DropQueue, sendVars, stopVars, workerVars
  <1>1. TypeOK'
    BY Zenon DEF TypeOK
  <1>2. Ordered' /\ Located'
    BY Zenon DEF Ordered, Located, IsSend, Elements
  <1>3. Resting' /\ UniformBuffer' /\ Joining'
    BY Zenon DEF Resting, UniformBuffer, Kind, Joining, StopJoinsWorker
  <1>4. AnswersMatchWire' /\ NoLostResponse'
    BY Zenon DEF AnswersMatchWire, NoLostResponse, Elements
  <1> QED
    BY <1>1, <1>2, <1>3, <1>4, Zenon

\* push_payload() on the command at the head of the channel: the payload
\* leaves the channel for the end of the buffer, or its call is answered.
LEMMA PushIInv ==
    ASSUME IInv,
           worker \in {"recv", "drain"},
           commands # <<>>,
           Head(commands) \in Sends,
           Push(Head(commands)),
           commands' = Tail(commands),
           worker' = "drain",
           UNCHANGED <<dropped, ticket, issued, stop, handle, wire>>
    PROVE  IInv'
  <1> DEFINE h == Head(commands)
  <1> USE DEF IInv
  <1>a. /\ commands \in Seq(Sends \cup {Shutdown})
        /\ buffer \in Seq(Sends)
        /\ wire \in Seq(Sends)
        /\ pending \in SUBSET Sends
        /\ ticket \in [Sends -> Nat]
        /\ outcome \in [Sends -> Outcomes]
    BY Zenon DEF TypeOK
  <1>b. /\ h = commands[1] /\ 1 \in DOMAIN commands
        /\ commands' \in Seq(Sends \cup {Shutdown})
        /\ \A i \in DOMAIN commands' : i + 1 \in DOMAIN commands /\ commands'[i] = commands[i + 1]
        /\ \A i \in DOMAIN commands' : i \in Nat /\ i > 0
        /\ \A i \in DOMAIN commands :
              i = 1 \/ (i - 1 \in DOMAIN commands' /\ commands'[i - 1] = commands[i])
    BY <1>a, TailFacts, Zenon
  <1>h. h \in Sends
    BY Zenon
  <1> HIDE DEF h
  <1>c. /\ outcome[h] \in {"waiting", "abandoned"}
        /\ \A i \in DOMAIN buffer : ticket[buffer[i]] < ticket[h]
        /\ \A i \in DOMAIN wire : ticket[wire[i]] < ticket[h]
        /\ \A i \in DOMAIN commands' : IsSend(i)' => ticket[h] < ticket[commands'[i]]
    BY <1>a, <1>b, <1>h DEF Located, Ordered, IsSend
  <1>d. /\ h \notin Elements(wire)
        /\ h \notin Elements(buffer)
        /\ \A i \in DOMAIN commands' : commands'[i] # h
    BY <1>a, <1>c, <1>h DEF Elements, IsSend
  <1>e. /\ \A i, j \in DOMAIN commands' : i < j /\ IsSend(i)' /\ IsSend(j)'
              => ticket[commands'[i]] < ticket[commands'[j]]
        /\ \A i \in DOMAIN wire, j \in DOMAIN commands' :
              IsSend(j)' => ticket[wire[i]] < ticket[commands'[j]]
        /\ \A i \in DOMAIN buffer, j \in DOMAIN commands' :
              IsSend(j)' => ticket[buffer[i]] < ticket[commands'[j]]
        /\ \A i \in DOMAIN commands' :
              IsSend(i)' => outcome[commands'[i]] \in {"waiting", "abandoned"}
    BY <1>b DEF Ordered, Located, IsSend
  <1>f. Joining'
    BY Zenon DEF Joining, StopJoinsWorker, Resting
  <1>g. Resting'
    BY Zenon DEF Resting
  <1>i. \A r \in Sends : r \in Elements(commands) => r = h \/ r \in Elements(commands)'
    <2> SUFFICES ASSUME NEW r \in Sends, r \in Elements(commands), r # h
                 PROVE  r \in Elements(commands)'
      BY Zenon
    <2>1. PICK i \in DOMAIN commands : commands[i] = r
      BY Zenon DEF Elements
    <2>2. i - 1 \in DOMAIN commands' /\ commands'[i - 1] = r
      BY <1>b, <2>1, Zenon
    <2> QED
      BY <2>2, Zenon DEF Elements
  <1>1. CASE buffer = <<>> \/ Kind(Head(buffer)) = Kind(h)
    <2>a. /\ buffer' = Append(buffer, h)
          /\ pending' = pending \cup {h}
          /\ outcome' = outcome
      BY <1>1, Zenon DEF Push, h
    <2>b. /\ buffer' \in Seq(Sends)
          /\ DOMAIN buffer' = DOMAIN buffer \cup {Len(buffer) + 1}
          /\ buffer'[Len(buffer) + 1] = h
          /\ \A i \in DOMAIN buffer : buffer'[i] = buffer[i]
          /\ \A i \in DOMAIN buffer : i \in Nat /\ i < Len(buffer) + 1
          /\ Len(buffer) \in Nat
      BY <1>a, <1>h, <2>a, AppendFacts
    <2>1. TypeOK'
      BY <1>b, <1>h, <2>a, <2>b, Zenon DEF TypeOK
    <2>2. Ordered'
      <3>1. \A i, j \in DOMAIN buffer' : i < j => ticket[buffer'[i]] < ticket[buffer'[j]]
        BY <1>c, <2>b DEF Ordered
      <3>2. \A i \in DOMAIN wire, j \in DOMAIN buffer' : ticket[wire[i]] < ticket[buffer'[j]]
        BY <1>c, <2>b, Zenon DEF Ordered
      <3>3. \A i \in DOMAIN buffer', j \in DOMAIN commands' :
              IsSend(j)' => ticket[buffer'[i]] < ticket[commands'[j]]
        BY <1>c, <1>e, <2>b, Zenon
      <3> QED
        BY <1>e, <3>1, <3>2, <3>3, Zenon DEF Ordered
    <2>3. Located'
      <3>1. \A i \in DOMAIN buffer' :
              /\ outcome[buffer'[i]] \in {"waiting", "stopped", "abandoned"}
              /\ outcome[buffer'[i]] = "waiting" => buffer'[i] \in pending'
        BY <1>c, <2>a, <2>b, Zenon DEF Located
      <3>2. pending' \subseteq Elements(buffer)'
        BY <2>a, <2>b DEF Located, Elements
      <3> QED
        BY <1>e, <2>a, <3>1, <3>2, Zenon DEF Located
    <2>4. UniformBuffer'
      <3>1. CASE buffer = <<>>
        BY <2>b, <3>1 DEF UniformBuffer
      <3>2. CASE buffer # <<>>
        <4>1. Kind(buffer[1]) = Kind(h) /\ 1 \in DOMAIN buffer
          BY <1>1, <1>a, <3>2
        <4>2. \A i \in DOMAIN buffer : Kind(buffer[i]) = Kind(buffer[1])
          BY Zenon DEF UniformBuffer
        <4>3. \A i \in DOMAIN buffer' : Kind(buffer'[i]) = Kind(buffer'[1])
          BY <2>b, <4>1, <4>2, Zenon
        <4> QED
          BY <4>3, Zenon DEF UniformBuffer, Kind
      <3> QED
        BY <3>1, <3>2, Zenon
    <2>5. AnswersMatchWire' /\ NoLostResponse'
      BY <1>i, <2>a, Zenon DEF AnswersMatchWire, NoLostResponse, Elements, Resting
    <2> QED
      BY <1>f, <1>g, <2>1, <2>2, <2>3, <2>4, <2>5, Zenon
  <1>2. CASE ~(buffer = <<>> \/ Kind(Head(buffer)) = Kind(h))
    <2>a. /\ buffer' = buffer
          /\ pending' = pending
          /\ outcome' = Respond({h}, "rejected")
      BY <1>2, Zenon DEF Push, h
    <2>b. /\ outcome' \in [Sends -> Outcomes]
          /\ outcome'[h] \in {"rejected", "abandoned"}
          /\ \A r \in Sends : r # h => outcome'[r] = outcome[r]
      BY <1>a, <1>c, <1>h, <2>a, Zenon DEF Respond, Outcomes
    <2>1. TypeOK'
      BY <1>b, <2>a, <2>b, Zenon DEF TypeOK
    <2>2. Ordered'
      BY <1>e, <2>a, Zenon DEF Ordered
    <2>3. Located'
      <3>1. \A i \in DOMAIN commands' :
              IsSend(i)' => outcome'[commands'[i]] \in {"waiting", "abandoned"}
        BY <1>d, <1>e, <2>b, Zenon DEF IsSend
      <3>2. \A i \in DOMAIN buffer :
              /\ outcome'[buffer[i]] \in {"waiting", "stopped", "abandoned"}
              /\ outcome'[buffer[i]] = "waiting" => buffer[i] \in pending
        BY <1>a, <1>d, <2>b DEF Located, Elements
      <3> QED
        BY <2>a, <3>1, <3>2, Zenon DEF Located, Elements
    <2>4. UniformBuffer'
      BY <2>a, Zenon DEF UniformBuffer, Kind
    <2>5. AnswersMatchWire'
      BY <1>d, <2>b DEF AnswersMatchWire, Elements
    <2>6. NoLostResponse'
      BY <1>i, <2>a, <2>b, Zenon DEF NoLostResponse, Resting
    <2> QED
      BY <1>f, <1>g, <2>1, <2>2, <2>3, <2>4, <2>5, <2>6, Zenon
  <1> QED
    BY <1>1, <1>2, Zenon

LEMMA RecvSendIInv == ASSUME IInv, RecvSend PROVE IInv'
  <1>1. buffer = <<>>
    BY Zenon DEF IInv, Resting, RecvSend
  <1>2. Head(commands) \in pending'
    BY <1>1, Zenon DEF RecvSend, Push
  <1> QED
    BY <1>2, PushIInv, Zenon DEF RecvSend, stopVars

LEMMA DrainSendIInv == ASSUME IInv, DrainSend PROVE IInv'
  BY PushIInv, Zenon DEF DrainSend, stopVars

\* The worker ends: the calls in the channel lose their response sender.
LEMMA RecvShutdownIInv == ASSUME IInv, RecvShutdown PROVE IInv'
  <1> USE DEF IInv
  <1>a. /\ worker' = "done" /\ commands' = <<>> /\ pending' = {}
        /\ buffer = <<>> /\ pending = {}
        /\ UNCHANGED <<dropped, ticket, issued, stop, handle, buffer, wire>>
    BY Zenon DEF RecvShutdown, stopVars, Resting
  <1>b. /\ outcome' = Respond(Sends, "dropped")
        /\ outcome \in [Sends -> Outcomes]
    BY <1>a, Zenon DEF RecvShutdown, Respond, TypeOK
  <1>c. /\ outcome' \in [Sends -> Outcomes]
        /\ \A s \in Sends : /\ outcome[s] = "waiting" => outcome'[s] = "dropped"
                            /\ outcome[s] # "waiting" => outcome'[s] = outcome[s]
    BY <1>b, Zenon DEF Respond, Outcomes
  <1>d. DOMAIN commands' = {} /\ DOMAIN buffer = {}
    BY <1>a
  <1>1. TypeOK'
    BY <1>a, <1>c DEF TypeOK
  <1>2. Ordered'
    BY <1>a, <1>d, Zenon DEF Ordered
  <1>3. Located' /\ Resting' /\ UniformBuffer'
    BY <1>a, <1>d, Zenon DEF Located, Resting, UniformBuffer
  <1>4. Joining'
    BY <1>a, Zenon DEF Joining, StopJoinsWorker
  <1>5. AnswersMatchWire'
    BY <1>a, <1>c, Zenon DEF AnswersMatchWire, Elements
  <1>6. NoLostResponse'
    BY <1>c, Zenon DEF NoLostResponse
  <1> QED
    BY <1>1, <1>2, <1>3, <1>4, <1>5, <1>6, Zenon

LEMMA DrainShutdownIInv == ASSUME IInv, DrainShutdown PROVE IInv'
  <1> USE DEF IInv
  <1>a. /\ worker = "drain" /\ worker' = "flush" /\ commands' = Tail(commands) /\ pending' = {}
        /\ commands # <<>> /\ Head(commands) = Shutdown
        /\ outcome' = Respond(pending, "stopped")
        /\ UNCHANGED <<dropped, ticket, issued, stop, handle, buffer, wire>>
    BY Zenon DEF DrainShutdown, stopVars
  <1>b. /\ commands \in Seq(Sends \cup {Shutdown})
        /\ pending \in SUBSET Sends
        /\ buffer \in Seq(Sends)
        /\ outcome \in [Sends -> Outcomes]
    BY Zenon DEF TypeOK
  <1>c. /\ commands' \in Seq(Sends \cup {Shutdown})
        /\ commands[1] = Shutdown
        /\ \A i \in DOMAIN commands' : i + 1 \in DOMAIN commands /\ commands'[i] = commands[i + 1]
        /\ \A i \in DOMAIN commands' : i \in Nat
        /\ \A i \in DOMAIN commands :
              i = 1 \/ (i - 1 \in DOMAIN commands' /\ commands'[i - 1] = commands[i])
    BY <1>a, <1>b, TailFacts, Zenon
  <1>d. /\ outcome' \in [Sends -> Outcomes]
        /\ \A s \in Sends :
              /\ s \in pending /\ outcome[s] = "waiting" => outcome'[s] = "stopped"
              /\ ~(s \in pending /\ outcome[s] = "waiting") => outcome'[s] = outcome[s]
    BY <1>a, <1>b, Zenon DEF Respond, Outcomes
  <1>e. \A i \in DOMAIN commands' : IsSend(i)' => commands'[i] \notin pending
    <2> SUFFICES ASSUME NEW i \in DOMAIN commands', IsSend(i)', commands'[i] \in pending
                 PROVE  FALSE
      BY Zenon
    <2>1. PICK j \in DOMAIN buffer : buffer[j] = commands'[i]
      BY Zenon DEF Located, Elements
    <2>2. ticket[buffer[j]] < ticket[commands[i + 1]]
      BY <1>c, Zenon DEF Ordered, IsSend
    <2>3. ticket[buffer[j]] \in Nat
      BY <1>b DEF TypeOK
    <2> QED
      BY <1>c, <2>1, <2>2, <2>3
  <1>f. \A r \in Sends : r \in Elements(commands) => r \in Elements(commands)'
    <2> SUFFICES ASSUME NEW r \in Sends, r \in Elements(commands)
                 PROVE  r \in Elements(commands)'
      BY Zenon
    <2>1. PICK i \in DOMAIN commands : commands[i] = r
      BY Zenon DEF Elements
    <2>2. i - 1 \in DOMAIN commands' /\ commands'[i - 1] = r
      BY <1>c, <2>1, SendQueueAssumption, Zenon
    <2> QED
      BY <2>2, Zenon DEF Elements
  <1>1. TypeOK'
    BY <1>a, <1>c, <1>d, Zenon DEF TypeOK
  <1>2. Ordered'
    <2>1. \A i, j \in DOMAIN commands' : i < j /\ IsSend(i)' /\ IsSend(j)'
            => ticket[commands'[i]] < ticket[commands'[j]]
      <3> SUFFICES ASSUME NEW i \in DOMAIN commands', NEW j \in DOMAIN commands',
                          i < j, IsSend(i)', IsSend(j)'
                   PROVE  ticket[commands'[i]] < ticket[commands'[j]]
        BY Zenon
      <3>1. /\ i + 1 \in DOMAIN commands /\ j + 1 \in DOMAIN commands /\ i + 1 < j + 1
            /\ commands'[i] = commands[i + 1] /\ commands'[j] = commands[j + 1]
        BY <1>c
      <3> QED
        BY <3>1, Zenon DEF Ordered, IsSend
    <2>2. /\ \A i \in DOMAIN wire, j \in DOMAIN commands' :
                IsSend(j)' => ticket[wire[i]] < ticket[commands'[j]]
          /\ \A i \in DOMAIN buffer, j \in DOMAIN commands' :
                IsSend(j)' => ticket[buffer[i]] < ticket[commands'[j]]
      BY <1>c, Zenon DEF Ordered, IsSend
    <2> QED
      BY <1>a, <2>1, <2>2, Zenon DEF Ordered
  <1>3. Located'
    <2>1. \A i \in DOMAIN commands' :
            IsSend(i)' => outcome'[commands'[i]] \in {"waiting", "abandoned"}
      BY <1>c, <1>d, <1>e DEF Located, IsSend
    <2>2. \A i \in DOMAIN buffer : outcome'[buffer[i]] \in {"stopped", "abandoned"}
      BY <1>b, <1>d DEF Located
    <2> QED
      BY <1>a, <2>1, <2>2, Zenon DEF Located
  <1>4. Resting' /\ Joining' /\ UniformBuffer'
    BY <1>a, Zenon DEF Resting, Joining, StopJoinsWorker, UniformBuffer, Kind
  <1>5. AnswersMatchWire'
    BY <1>a, <1>d, Zenon DEF AnswersMatchWire, Elements
  <1>6. NoLostResponse'
    BY <1>a, <1>d, <1>f, Zenon DEF NoLostResponse
  <1> QED
    BY <1>1, <1>2, <1>3, <1>4, <1>5, <1>6, Zenon

LEMMA DrainEmptyIInv == ASSUME IInv, DrainEmpty PROVE IInv'
  <1> USE DEF IInv, DrainEmpty, sendVars, stopVars
  <1>1. TypeOK'
    BY Zenon DEF TypeOK
  <1>2. Ordered' /\ Located'
    BY ZenonT(30) DEF Ordered, Located, IsSend, Elements
  <1>3. Resting' /\ UniformBuffer' /\ Joining'
    BY Zenon DEF Resting, UniformBuffer, Kind, Joining, StopJoinsWorker
  <1>4. AnswersMatchWire' /\ NoLostResponse'
    BY Zenon DEF AnswersMatchWire, NoLostResponse, Elements
  <1> QED
    BY <1>1, <1>2, <1>3, <1>4, Zenon

\* The buffer follows the wire and precedes the channel, so writing it keeps
\* the order; its calls are exactly the ones answered.
LEMMA FlushIInv == ASSUME IInv, NEW ok \in BOOLEAN, Flush(ok) PROVE IInv'
  <1> USE DEF IInv
  <1>a. /\ worker = "flush" /\ worker' = "recv" /\ buffer' = <<>> /\ pending' = {}
        /\ wire' = IF ok THEN wire \o buffer ELSE wire
        /\ outcome' = Respond(pending, IF ok THEN "ok" ELSE "failed")
        /\ UNCHANGED <<commands, dropped, ticket, issued, stop, handle>>
    BY Zenon DEF Flush, Answer, stopVars
  <1>b. /\ commands \in Seq(Sends \cup {Shutdown})
        /\ pending \in SUBSET Sends
        /\ buffer \in Seq(Sends)
        /\ wire \in Seq(Sends)
        /\ ticket \in [Sends -> Nat]
        /\ outcome \in [Sends -> Outcomes]
    BY Zenon DEF TypeOK
  <1>c. /\ outcome' \in [Sends -> Outcomes]
        /\ \A s \in Sends :
              /\ s \in pending /\ outcome[s] = "waiting"
                    => outcome'[s] = IF ok THEN "ok" ELSE "failed"
              /\ ~(s \in pending /\ outcome[s] = "waiting") => outcome'[s] = outcome[s]
    BY <1>a, <1>b, Zenon DEF Respond, Outcomes
  <1>d. /\ wire' \in Seq(Sends)
        /\ Elements(wire)' = IF ok THEN Elements(wire) \cup Elements(buffer) ELSE Elements(wire)
    <2>1. CASE ok
      <3>1. wire' = wire \o buffer /\ wire' \in Seq(Sends)
        BY <1>a, <1>b, <2>1
      <3>2. \A i \in DOMAIN wire' :
              wire'[i] \in Elements(wire) \cup Elements(buffer)
        BY <1>b, <3>1, ConcatFacts DEF Elements
      <3>3. /\ \A i \in DOMAIN wire : i \in DOMAIN wire' /\ wire'[i] = wire[i]
            /\ \A i \in DOMAIN buffer :
                  i + Len(wire) \in DOMAIN wire' /\ wire'[i + Len(wire)] = buffer[i]
        BY <1>b, <3>1, ConcatFacts, SMTT(30)
      <3>4. Elements(wire)' = Elements(wire) \cup Elements(buffer)
        BY <3>2, <3>3 DEF Elements
      <3> QED
        BY <2>1, <3>1, <3>4, Zenon
    <2>2. CASE ~ok
      BY <1>a, <1>b, <2>2, Zenon DEF Elements
    <2> QED
      BY <2>1, <2>2, Zenon
  <1>e. \A i \in DOMAIN commands : IsSend(i) => commands[i] \notin pending
    <2> SUFFICES ASSUME NEW i \in DOMAIN commands, IsSend(i), commands[i] \in pending
                 PROVE  FALSE
      BY Zenon
    <2>1. PICK j \in DOMAIN buffer : buffer[j] = commands[i]
      BY Zenon DEF Located, Elements
    <2> QED
      BY <1>b, <2>1 DEF Ordered
  <1>f. DOMAIN buffer' = {}
    BY <1>a
  <1>1. TypeOK'
    BY <1>a, <1>c, <1>d DEF TypeOK
  <1>2. Ordered'
    <2>1. CASE ok
      <3>1. /\ wire' = wire \o buffer
            /\ Len(wire) \in Nat
            /\ \A i \in DOMAIN wire' :
                  i \in Nat /\
                  \/ i \in DOMAIN wire /\ wire'[i] = wire[i] /\ i <= Len(wire)
                  \/ i - Len(wire) \in DOMAIN buffer /\ wire'[i] = buffer[i - Len(wire)] /\ i > Len(wire)
        BY <1>a, <1>b, <2>1, ConcatFacts
      <3>2. \A i, j \in DOMAIN wire' : i < j => ticket[wire'[i]] < ticket[wire'[j]]
        BY <3>1 DEF Ordered
      <3>3. \A i \in DOMAIN wire', j \in DOMAIN commands :
              IsSend(j) => ticket[wire'[i]] < ticket[commands[j]]
        BY <3>1, Zenon DEF Ordered
      <3> QED
        BY <1>a, <1>f, <3>2, <3>3, Zenon DEF Ordered, IsSend
    <2>2. CASE ~ok
      BY <1>a, <1>f, <2>2, Zenon DEF Ordered, IsSend
    <2> QED
      BY <2>1, <2>2, Zenon
  <1>3. Located'
    BY <1>a, <1>c, <1>e, <1>f, Zenon DEF Located, IsSend
  <1>4. Resting' /\ Joining' /\ UniformBuffer'
    BY <1>a, <1>f, Zenon DEF Resting, Joining, StopJoinsWorker, UniformBuffer
  <1>5. AnswersMatchWire'
    <2>1. \A s \in pending : s \in Elements(buffer)
      BY Zenon DEF Located
    <2>2. \A s \in Elements(buffer) : /\ outcome[s] \in {"waiting", "stopped", "abandoned"}
                                      /\ outcome[s] = "waiting" => s \in pending
      BY Zenon DEF Located, Elements
    <2> QED
      BY <1>c, <1>d, <2>1, <2>2, Zenon DEF AnswersMatchWire
  <1>6. NoLostResponse'
    BY <1>a, <1>c, Zenon DEF NoLostResponse, Elements
  <1> QED
    BY <1>1, <1>2, <1>3, <1>4, <1>5, <1>6, Zenon

-----------------------------------------------------------------------------
(* Theorems *)

LEMMA NextIInv == IInv /\ [Next]_vars => IInv'
  <1> SUFFICES ASSUME IInv, [Next]_vars PROVE IInv'
    BY Zenon
  <1>1. CASE UNCHANGED vars
    <2> USE <1>1 DEF IInv, vars, sendVars, stopVars, workerVars
    <2>1. TypeOK'
      BY Zenon DEF TypeOK
    <2>2. Ordered' /\ Located'
      BY DEF Ordered, Located, IsSend, Elements
    <2>3. Resting' /\ UniformBuffer' /\ Joining'
      BY Zenon DEF Resting, UniformBuffer, Kind, Joining, StopJoinsWorker
    <2>4. AnswersMatchWire' /\ NoLostResponse'
      BY Zenon DEF AnswersMatchWire, NoLostResponse, Elements
    <2> QED
      BY <2>1, <2>2, <2>3, <2>4, Zenon
  <1>2. CASE \E s \in Sends : Send(s) \/ AbandonSend(s)
    BY <1>2, SendIInv, AbandonSendIInv, Zenon
  <1>3. CASE \E p \in Stops : StopCall(p) \/ StopLock(p) \/ StopJoin(p) \/ AbandonStop(p)
    BY <1>3, StopCallIInv, StopStepIInv, Zenon
  <1>4. CASE DropQueue
    BY <1>4, DropQueueIInv, Zenon
  <1>5. CASE Work
    BY <1>5, RecvSendIInv, RecvShutdownIInv, DrainSendIInv, DrainShutdownIInv,
       DrainEmptyIInv, FlushIInv, Zenon DEF Work
  <1> QED
    BY <1>1, <1>2, <1>3, <1>4, <1>5, Zenon DEF Next

\* The inductive invariant holds in every reachable state.
THEOREM Invariance == Spec => []IInv
  BY InitIInv, NextIInv, PTL DEF Spec

\* The queue's state keeps its shape for any set of calls.
THEOREM TypeCorrect == Spec => []TypeOK
  <1>1. IInv => TypeOK
    BY Zenon DEF IInv
  <1> QED
    BY <1>1, Invariance, PTL

\* send_queue.rs:26: for any number of concurrent calls, payloads are written
\* in the order the calls entered the channel, none twice.
THEOREM FifoWrites == Spec => []WrittenInOrder
  <1>1. IInv => WrittenInOrder
    BY Zenon DEF IInv, Ordered, WrittenInOrder
  <1> QED
    BY <1>1, Invariance, PTL

\* For any number of calls, what send() returns agrees with what was written.
THEOREM HonestAnswers == Spec => []AnswersMatchWire
  <1>1. IInv => AnswersMatchWire
    BY Zenon DEF IInv
  <1> QED
    BY <1>1, Invariance, PTL

\* The unreachable!() arms of flush_buffer() are unreachable.
THEOREM UniformBuffers == Spec => []UniformBuffer
  <1>1. IInv => UniformBuffer
    BY Zenon DEF IInv
  <1> QED
    BY <1>1, Invariance, PTL

\* No response sender is lost while its call waits.
THEOREM ResponsesKept == Spec => []NoLostResponse
  <1>1. IInv => NoLostResponse
    BY Zenon DEF IInv
  <1> QED
    BY <1>1, Invariance, PTL

\* A stop() that returns has seen the worker end, unless one was dropped.
THEOREM StopIsFinal == Spec => []StopJoinsWorker
  <1>1. IInv => StopJoinsWorker
    BY Zenon DEF IInv, Joining
  <1> QED
    BY <1>1, Invariance, PTL
=============================================================================
