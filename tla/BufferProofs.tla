---------------------------- MODULE BufferProofs ----------------------------
(***************************************************************************)
(* Proofs about the MessageBuffer for any number of callers, messages and  *)
(* drops, and with completions past the buffer: neither side refuses a     *)
(* Sequence, no transport carries a message twice, the bytes are counted   *)
(* exactly and callers are held back only while the buffer is full.        *)
(***************************************************************************)
EXTENDS StatefulReconnectProofs, FiniteSetTheorems

\* d is what is left of the channel c, perhaps with the item e written to it.
Moves(c, d, e) ==
    \E f \in [DOMAIN d -> Nat] :
      /\ \A i, j \in DOMAIN d : f[i] = f[j] => i = j
      /\ \A i \in DOMAIN d : (f[i] \in DOMAIN c /\ d[i] = c[f[i]]) \/ (f[i] = Len(c) + 1 /\ d[i] = e)

\* What a channel loses from either end, and what is written to it.
LEMMA MoveFacts ==
    ASSUME NEW c \in Seq(Item), NEW e \in Item
    PROVE  /\ Moves(c, c, e) /\ Moves(c, <<>>, e) /\ Moves(c, Append(c, e), e)
           /\ c # <<>> => Moves(c, Tail(c), e)
           /\ \A k \in 0..Len(c) : Moves(c, SubSeq(c, 1, k), e)
<1>1. DOMAIN c = 1..Len(c) /\ Len(c) \in Nat
  OBVIOUS
<1>2. Moves(c, c, e)
  <2>1. [i \in DOMAIN c |-> i] \in [DOMAIN c -> Nat]
    BY <1>1
  <2> QED
    BY <2>1, Zenon DEF Moves
<1>3. Moves(c, <<>>, e)
  <2>1. [i \in DOMAIN <<>> |-> i] \in [DOMAIN <<>> -> Nat] /\ DOMAIN <<>> = {}
    BY EmptyFacts
  <2> QED
    BY <2>1, Zenon DEF Moves
<1>4. Moves(c, Append(c, e), e)
  <2> DEFINE d == Append(c, e)
  <2>1. /\ DOMAIN d = 1..(Len(c) + 1) /\ d[Len(c) + 1] = e
        /\ \A i \in DOMAIN c : d[i] = c[i]
    BY AppendFacts
  <2> HIDE DEF d
  <2>2. [i \in DOMAIN d |-> i] \in [DOMAIN d -> Nat]
    BY <2>1, <1>1
  <2>3. \A i \in DOMAIN d : (i \in DOMAIN c /\ d[i] = c[i]) \/ (i = Len(c) + 1 /\ d[i] = e)
    BY <2>1, <1>1, SMTT(30)
  <2>4. Moves(c, d, e)
    BY <2>2, <2>3, Zenon DEF Moves
  <2> QED
    BY <2>4, SMTT(30) DEF d
<1>5. ASSUME c # <<>> PROVE Moves(c, Tail(c), e)
  <2> DEFINE d == Tail(c)
             f == [i \in DOMAIN d |-> i + 1]
  <2>1. DOMAIN d = 1..(Len(c) - 1) /\ \A i \in DOMAIN d : i + 1 \in DOMAIN c /\ d[i] = c[i + 1]
    BY <1>5, TailFacts, SMTT(30)
  <2> HIDE DEF d
  <2>2. f \in [DOMAIN d -> Nat] /\ \A i \in DOMAIN d : f[i] = i + 1
    BY <2>1, <1>1, SMTT(30)
  <2>3. \A i, j \in DOMAIN d : i + 1 = j + 1 => i = j
    BY <2>1, <1>1, SMTT(30)
  <2> HIDE DEF f
  <2>4. /\ \A i, j \in DOMAIN d : f[i] = f[j] => i = j
        /\ \A i \in DOMAIN d : f[i] \in DOMAIN c /\ d[i] = c[f[i]]
    BY <2>1, <2>2, <2>3, SMTT(30)
  <2>5. Moves(c, d, e)
    BY <2>2, <2>4, Zenon DEF Moves
  <2> QED
    BY <2>5 DEF d
<1>6. ASSUME NEW k \in 0..Len(c) PROVE Moves(c, SubSeq(c, 1, k), e)
  <2> DEFINE d == SubSeq(c, 1, k)
  <2>1. DOMAIN d = 1..k /\ \A i \in DOMAIN d : i \in DOMAIN c /\ d[i] = c[i]
    BY PrefixFacts
  <2> HIDE DEF d
  <2>2. [i \in DOMAIN d |-> i] \in [DOMAIN d -> Nat]
    BY <2>1, <1>1, SMTT(30)
  <2>4. Moves(c, d, e)
    BY <2>1, <2>2, Zenon DEF Moves
  <2> QED
    BY <2>4 DEF d
<1> QED
  BY <1>2, <1>3, <1>4, <1>5, <1>6, Zenon

\* The first items of a channel are gone.
LEMMA SuffixMoves ==
    ASSUME NEW c \in Seq(Item), NEW e, NEW k \in 1..Len(c), NEW d, d = SubSeq(c, k + 1, Len(c))
    PROVE  Moves(c, d, e)
<1> DEFINE f == [i \in DOMAIN d |-> i + k]
<1>1. DOMAIN d = 1..(Len(c) - k) /\ \A i \in DOMAIN d : i + k \in DOMAIN c /\ d[i] = c[i + k]
  BY SuffixFacts, Zenon
<1>2. f \in [DOMAIN d -> Nat] /\ \A i \in DOMAIN d : f[i] = i + k
  BY <1>1, SMTT(30)
<1>3. \A i, j \in DOMAIN d : i + k = j + k => i = j
  BY <1>1, SMTT(30)
<1> HIDE DEF f
<1>4. /\ \A i, j \in DOMAIN d : f[i] = f[j] => i = j
      /\ \A i \in DOMAIN d : f[i] \in DOMAIN c /\ d[i] = c[f[i]]
  BY <1>1, <1>2, <1>3, SMTT(30)
<1> QED
  BY <1>2, <1>4, Zenon DEF Moves

\* A write to a transport, Ok or not.
LEMMA WriteMoves ==
    ASSUME TypeOK, NEW t, NEW item \in Item, WriteOk(t, item) \/ (WriteErr(t) /\ UNCHANGED up)
    PROVE  Moves(up, up', item)
<1>1. up \in Seq(Item)
  BY Zenon DEF TypeOK
<1>2. up' = up \/ up' = Append(up, item)
  BY Zenon DEF WriteOk
<1> QED
  BY <1>1, <1>2, MoveFacts, Zenon

\* The items of the protocol.
LEMMA ItemFacts ==
    \A n \in Nat : /\ Msg(n) \in Item /\ Msg(n).kind = "msg" /\ Msg(n).n = n
                   /\ Ack(n) \in Item /\ Ack(n).kind = "ack" /\ Ack(n).n = n
                   /\ Sequence(n) \in Item /\ Sequence(n).kind = "seq" /\ Sequence(n).n = n
BY Zenon DEF Msg, Ack, Sequence, Item

\* The items on their way.
LEMMA ItemTypes ==
    ASSUME TypeOK
    PROVE  /\ \A i \in DOMAIN up : up[i] \in Item /\ up[i].n \in Nat
           /\ \A i \in DOMAIN down : down[i] \in Item /\ down[i].n \in Nat
<1>1. up \in Seq(Item) /\ down \in Seq(Item)
  BY Zenon DEF TypeOK
<1>2. (\A i \in DOMAIN up : up[i] \in Item) /\ (\A i \in DOMAIN down : down[i] \in Item)
  BY <1>1
<1>3. \A item \in Item : item.n \in Nat
  BY Zenon DEF Item
<1> QED
  BY <1>2, <1>3, Zenon

\* What the tasks of the client and the server's answers leave on its way to the
\* server, a completion of the dispatcher among it.
LEMMA UpKept ==
    ASSUME TypeOK,
           \/ \E s \in Senders : SendBuffer(s) \/ SendReturn(s)
           \/ Receive \/ AckDone \/ TransportClosed \/ AbortOld \/ Reopen \/ ReopenFails
           \/ LockRuntime \/ ResendDone \/ ResendFails \/ Drop \/ Server \/ ServerSend \/ ServerAck
           \/ UNCHANGED vars
    PROVE  Moves(up, up', Msg(0))
<1> USE DEF outVars, ackVars, inVars, senderVars, resumeVars, linkVars, serverVars, clientVars
<1>1. Msg(0) \in Item /\ up \in Seq(Item)
  BY ItemFacts, Zenon DEF TypeOK
<1>2. /\ Moves(up, up, Msg(0)) /\ Moves(up, <<>>, Msg(0))
      /\ up # <<>> => Moves(up, Tail(up), Msg(0))
  BY <1>1, MoveFacts, Zenon
<1>3. CASE ReceiveMessage
  <2>1. up' = up \/ WriteOk(transport, Msg(0)) \/ (WriteErr(transport) /\ UNCHANGED up)
    BY <1>3, TakenFacts, Zenon
  <2> QED
    BY <2>1, <1>1, <1>2, WriteMoves, ZenonT(30)
<1>4. CASE Reopen \/ Drop
  BY <1>4, <1>2, ZenonT(30) DEF Reopen, Drop
<1>5. CASE Server
  BY <1>5, <1>2, ZenonT(30) DEF Server, ServerIgnores, ServerReceive, ServerReceiveSequence, ServerReceiveAck
<1>6. CASE \/ \E s \in Senders : SendBuffer(s) \/ SendReturn(s)
           \/ ReceiveIgnored \/ ReceiveSequence \/ ReceiveAck \/ AckDone
  BY <1>6, <1>2, ZenonT(30) DEF SendBuffer, SendReturn, ReceiveIgnored, ReceiveSequence, ReceiveAck, AckDone
<1>7. CASE TransportClosed \/ AbortOld \/ ReopenFails \/ LockRuntime \/ ResendDone \/ ResendFails
  BY <1>7, <1>2, ZenonT(30) DEF TransportClosed, AbortOld, ReopenFails, LockRuntime, ResendDone, ResendFails
<1>8. CASE ServerSend \/ ServerAck \/ UNCHANGED vars
  BY <1>8, <1>2, Zenon DEF ServerSend, ServerAck, vars
<1> QED
  BY <1>3, <1>4, <1>5, <1>6, <1>7, <1>8, ZenonT(30) DEF Receive

\* Only the timer writes an Ack, and only resend() a Sequence.
LEMMA MessageWrites ==
    ASSUME TypeOK,
           \/ \E s \in Senders : SendBuffer(s) \/ SendTransmit(s) \/ SendReturn(s)
           \/ Receive \/ AckDone \/ TransportClosed \/ AbortOld \/ Reopen \/ ReopenFails
           \/ LockRuntime \/ ResendItem \/ ResendDone \/ ResendFails
           \/ Drop \/ Server \/ ServerSend \/ ServerAck \/ UNCHANGED vars
    PROVE  \E e \in Item : e.kind = "msg" /\ Moves(up, up', e)
<1>1. CASE \E s \in Senders : SendTransmit(s)
  <2>1. PICK s \in Senders : SendTransmit(s)
    BY <1>1, SMTT(30)
  <2>2. Msg(sending[s]) \in Item /\ Msg(sending[s]).kind = "msg"
    BY ItemFacts DEF TypeOK
  <2>3. Moves(up, up', Msg(sending[s]))
    BY <2>1, <2>2, WriteMoves, Zenon DEF SendTransmit
  <2> QED
    BY <2>2, <2>3, Zenon
<1>2. CASE ResendItem
  <2>1. Min(Unsent) \in Nat
    BY <1>2, IdFacts, Zenon DEF ResendItem
  <2>2. Msg(Min(Unsent)) \in Item /\ Msg(Min(Unsent)).kind = "msg"
    BY <2>1, ItemFacts, SMTT(30)
  <2>3. Moves(up, up', Msg(Min(Unsent)))
    BY <1>2, <2>2, WriteMoves, Zenon DEF ResendItem
  <2> QED
    BY <2>2, <2>3, Zenon
<1>3. CASE ~(\E s \in Senders : SendTransmit(s)) /\ ~ResendItem
  <2>1. Moves(up, up', Msg(0))
    BY <1>3, UpKept, Zenon
  <2>2. Msg(0) \in Item /\ Msg(0).kind = "msg"
    BY ItemFacts
  <2> QED
    BY <2>1, <2>2, Zenon
<1> QED
  BY <1>1, <1>2, <1>3, Zenon

-----------------------------------------------------------------------------
(* No transport carries a message twice *)

\* Callers write numbers of their own to the transport of the runtime; resend()
\* writes in increasing order, to a transport nobody has written a message to.
OnceInv ==
    /\ supervisor = "lock" <=> runtime # transport
    /\ runtime <= transport
    /\ \A m \in messages : 1 <= m /\ m <= total
    /\ \A i \in DOMAIN up : up[i].kind = "msg" => up[i].n <= total
    /\ \A i \in DOMAIN up : up[i].kind = "msg" /\ up[i].n # 0 =>
         /\ supervisor \notin {"lock", "sequence"}
         /\ supervisor = "items" => up[i].n < cursor
    /\ \A s \in Senders : pc[s] = "transmit" =>
         /\ 1 <= sending[s] /\ sending[s] <= total
         /\ supervisor \notin {"sequence", "items"}
    /\ \A s, t \in Senders : pc[s] = "transmit" /\ pc[t] = "transmit" /\ sending[s] = sending[t] => s = t
    /\ \A i, j \in DOMAIN up : up[i].kind = "msg" /\ up[i].n # 0 /\ up[i] = up[j] => i = j
    /\ \A s \in Senders, i \in DOMAIN up : pc[s] = "transmit" /\ runtime = transport => up[i] # Msg(sending[s])

\* Steps that write no message of a caller.
OnceAside ==
    /\ Moves(up, up', Msg(0)) \/ \E n \in Nat : Moves(up, up', Ack(n))
    /\ UNCHANGED <<total, sending, cursor, runtime, transport>>
    /\ \A m \in messages' : m \in messages
    /\ \A s \in Senders : pc'[s] = "transmit" => pc[s] = "transmit"
    /\ \/ supervisor' = supervisor
       \/ supervisor # "lock" /\ supervisor' \in {"watch", "abort", "reopen", "lost"}

\* What is written is no message, or one the others are not.
LEMMA OnceUp ==
    ASSUME TypeOK, NEW e \in Item, Moves(up, up', e), NEW a \in Nat, total <= a,
           \A i \in DOMAIN up : up[i].kind = "msg" => up[i].n <= total,
           \A i, j \in DOMAIN up : up[i].kind = "msg" /\ up[i].n # 0 /\ up[i] = up[j] => i = j,
           e.kind = "msg" => e.n <= a,
           e.kind = "msg" /\ e.n # 0 => \A i \in DOMAIN up : up[i] # e
    PROVE  /\ \A i \in DOMAIN up' : up'[i].kind = "msg" => up'[i].n <= a
           /\ \A i, j \in DOMAIN up' : up'[i].kind = "msg" /\ up'[i].n # 0 /\ up'[i] = up'[j] => i = j
           /\ \A i \in DOMAIN up' : up'[i] = e \/ \E j \in DOMAIN up : up'[i] = up[j]
<1>1. PICK f \in [DOMAIN up' -> Nat] :
        /\ \A i, j \in DOMAIN up' : f[i] = f[j] => i = j
        /\ \A i \in DOMAIN up' : \/ f[i] \in DOMAIN up /\ up'[i] = up[f[i]]
                                 \/ f[i] = Len(up) + 1 /\ up'[i] = e
  BY Zenon DEF Moves
<1>2. \A i \in DOMAIN up : up[i] \in Item /\ up[i].n \in Nat
  BY ItemTypes, Zenon
<1>3. total \in Nat
  BY DEF TypeOK
<1>4. \A i \in DOMAIN up : up[i].kind = "msg" => up[i].n <= a
  BY <1>2, <1>3, SMTT(30)
<1>5. \A i \in DOMAIN up' : up'[i].kind = "msg" => up'[i].n <= a
  BY <1>1, <1>4, Zenon
<1>6. ASSUME NEW i \in DOMAIN up', NEW j \in DOMAIN up', up'[i].kind = "msg", up'[i].n # 0, up'[i] = up'[j]
      PROVE  i = j
  <2>1. CASE f[i] \in DOMAIN up /\ f[j] \in DOMAIN up
    BY <2>1, <1>1, <1>6, ZenonT(30)
  <2>2. CASE f[i] \notin DOMAIN up /\ f[j] \in DOMAIN up
    BY <2>2, <1>1, <1>6, Zenon
  <2>3. CASE f[i] \in DOMAIN up /\ f[j] \notin DOMAIN up
    BY <2>3, <1>1, <1>6, ZenonT(30)
  <2>4. CASE f[i] \notin DOMAIN up /\ f[j] \notin DOMAIN up
    BY <2>4, <1>1, <1>6, ZenonT(30)
  <2> QED
    BY <2>1, <2>2, <2>3, <2>4, ZenonT(30)
<1> QED
  BY <1>1, <1>5, <1>6, ZenonT(30)

\* They keep it so.
LEMMA OnceAsideStep == ASSUME TypeOK, OnceInv, OnceAside PROVE OnceInv'
<1>1. PICK e \in Item : Moves(up, up', e) /\ (e.kind = "msg" => e.n = 0)
  BY ItemFacts, ZenonT(30) DEF OnceAside
<1>2. /\ \A i \in DOMAIN up : up[i].kind = "msg" => up[i].n <= total
      /\ \A i, j \in DOMAIN up : up[i].kind = "msg" /\ up[i].n # 0 /\ up[i] = up[j] => i = j
  BY Zenon DEF OnceInv
<1>3. total \in Nat /\ total <= total /\ (e.kind = "msg" => e.n <= total)
  <2>1. total \in Nat
    BY Zenon DEF TypeOK
  <2> QED
    BY <2>1, <1>1, SMTT(30)
<1>4. /\ \A i \in DOMAIN up' : up'[i].kind = "msg" => up'[i].n <= total
      /\ \A i, j \in DOMAIN up' : up'[i].kind = "msg" /\ up'[i].n # 0 /\ up'[i] = up'[j] => i = j
      /\ \A i \in DOMAIN up' : up'[i] = e \/ \E j \in DOMAIN up : up'[i] = up[j]
  BY <1>1, <1>2, <1>3, OnceUp, ZenonT(30)
<1>5. UNCHANGED <<total, sending, cursor, runtime, transport>>
  BY Zenon DEF OnceAside
<1>6. /\ \A m \in messages' : m \in messages
      /\ \A s \in Senders : pc'[s] = "transmit" => pc[s] = "transmit"
      /\ \/ supervisor' = supervisor
         \/ supervisor # "lock" /\ supervisor' \in {"watch", "abort", "reopen", "lost"}
  BY Zenon DEF OnceAside
<1>7. /\ supervisor' = "lock" <=> runtime' # transport'
      /\ runtime' <= transport'
      /\ \A m \in messages' : 1 <= m /\ m <= total'
  BY <1>5, <1>6, Zenon DEF OnceInv
<1>8. ASSUME NEW i \in DOMAIN up', up'[i].kind = "msg", up'[i].n # 0
      PROVE  /\ supervisor' \notin {"lock", "sequence"}
             /\ supervisor' = "items" => up'[i].n < cursor'
  <2>1. PICK j \in DOMAIN up : up'[i] = up[j]
    BY <1>1, <1>4, <1>8, ZenonT(30)
  <2>2. /\ supervisor \notin {"lock", "sequence"}
        /\ supervisor = "items" => up'[i].n < cursor
    BY <2>1, <1>8, ZenonT(30) DEF OnceInv
  <2>3. supervisor' = supervisor \/ supervisor' \notin {"lock", "sequence", "items"}
    BY <1>6
  <2> QED
    BY <2>2, <2>3, <1>5, Zenon
<1>9. /\ \A s \in Senders : pc'[s] = "transmit" =>
           /\ 1 <= sending'[s] /\ sending'[s] <= total'
           /\ supervisor' \notin {"sequence", "items"}
      /\ \A s, t \in Senders : pc'[s] = "transmit" /\ pc'[t] = "transmit" /\ sending'[s] = sending'[t] => s = t
  BY <1>5, <1>6, Zenon DEF OnceInv
<1>10. ASSUME NEW s \in Senders, NEW i \in DOMAIN up', pc'[s] = "transmit", runtime' = transport'
       PROVE  up'[i] # Msg(sending'[s])
  <2>1. /\ \A j \in DOMAIN up : up[j] # Msg(sending[s])
        /\ 1 <= sending[s] /\ sending[s] \in Nat
    BY <1>10, <1>5, <1>6, ZenonT(30) DEF OnceInv, TypeOK
  <2>2. sending[s] # 0
    BY <2>1, SMTT(30)
  <2>3. Msg(sending[s]) # e
    <3>1. Msg(sending[s]).kind = "msg" /\ Msg(sending[s]).n = sending[s]
      BY <2>1, ItemFacts, ZenonT(30)
    <3> QED
      BY <3>1, <2>2, <1>1, ZenonT(30)
  <2> QED
    BY <2>1, <2>3, <1>4, <1>5, ZenonT(30)
<1> QED
  BY <1>4, <1>5, <1>7, <1>8, <1>9, <1>10, ZenonT(30) DEF OnceInv

\* A caller gets a number nothing on its way has.
LEMMA OnceSendBuffer == ASSUME TypeOK, OnceInv, NEW s \in Senders, SendBuffer(s) PROVE OnceInv'
<1> USE DEF outVars, ackVars, inVars, senderVars, resumeVars, linkVars, serverVars
<1>1. /\ total' = total + 1 /\ messages' = messages \cup {total + 1}
      /\ sending' = [sending EXCEPT ![s] = total + 1]
      /\ supervisor \notin {"lock", "sequence", "items"}
      /\ UNCHANGED <<up, supervisor, cursor, runtime, transport>>
      /\ \A t \in Senders : t # s => pc'[t] = pc[t]
  BY Zenon DEF SendBuffer, MayRead, TypeOK
<1>2. /\ total \in Nat /\ messages \in SUBSET Nat /\ sending \in [Senders -> Nat]
      /\ \A i \in DOMAIN up : up[i].n \in Nat
  BY ItemTypes, Zenon DEF TypeOK
<1>3. sending'[s] = total + 1 /\ \A t \in Senders : t # s => sending'[t] = sending[t]
  BY <1>1, <1>2, SMTT(30)
<1>4. /\ \A m \in messages : 1 <= m /\ m <= total
      /\ \A i \in DOMAIN up : up[i].kind = "msg" => up[i].n <= total
  BY Zenon DEF OnceInv
<1>5. /\ \A m \in messages' : 1 <= m /\ m <= total'
      /\ \A i \in DOMAIN up' : up'[i].kind = "msg" => up'[i].n <= total'
      /\ total + 1 \in Nat /\ 1 <= total + 1
  BY <1>1, <1>2, <1>4, SMTT(30)
<1>6. \A i \in DOMAIN up : up[i] # Msg(total + 1)
  <2>1. \A i \in DOMAIN up : up[i].kind = "msg" => up[i].n # total + 1
    BY <1>2, <1>4, SMTT(30)
  <2>2. Msg(total + 1).kind = "msg" /\ Msg(total + 1).n = total + 1
    BY <1>5, ItemFacts, Zenon
  <2> QED
    BY <2>1, <2>2, ZenonT(30)
<1>7. \A t \in Senders : pc[t] = "transmit" =>
        1 <= sending[t] /\ sending[t] <= total + 1 /\ sending[t] # total + 1
  <2>1. \A t \in Senders : pc[t] = "transmit" => 1 <= sending[t] /\ sending[t] <= total /\ sending[t] \in Nat
    BY <1>2, Zenon DEF OnceInv
  <2> QED
    BY <2>1, <1>2, SMTT(30)
<1>8. total + 1 <= total + 1
  BY <1>2
<1>9. \A t \in Senders : pc'[t] = "transmit" =>
        1 <= sending'[t] /\ sending'[t] <= total' /\ supervisor' \notin {"sequence", "items"}
  BY <1>1, <1>3, <1>5, <1>7, <1>8, ZenonT(30)
<1>10. \A t, u \in Senders : pc'[t] = "transmit" /\ pc'[u] = "transmit" /\ sending'[t] = sending'[u] => t = u
  <2>1. \A t, u \in Senders : pc[t] = "transmit" /\ pc[u] = "transmit" /\ sending[t] = sending[u] => t = u
    BY Zenon DEF OnceInv
  <2> QED
    BY <2>1, <1>1, <1>3, <1>7, SMTT(30)
<1>11. \A t \in Senders, i \in DOMAIN up' :
         pc'[t] = "transmit" /\ runtime' = transport' => up'[i] # Msg(sending'[t])
  BY <1>1, <1>3, <1>6, ZenonT(30) DEF OnceInv
<1>12. /\ supervisor' = "lock" <=> runtime' # transport'
       /\ runtime' <= transport'
       /\ \A i \in DOMAIN up' : up'[i].kind = "msg" /\ up'[i].n # 0 =>
            /\ supervisor' \notin {"lock", "sequence"}
            /\ supervisor' = "items" => up'[i].n < cursor'
       /\ \A i, j \in DOMAIN up' : up'[i].kind = "msg" /\ up'[i].n # 0 /\ up'[i] = up'[j] => i = j
  BY <1>1, Zenon DEF OnceInv
<1> QED
  BY <1>5, <1>9, <1>10, <1>11, <1>12, ZenonT(30) DEF OnceInv

\* It writes its message to the present transport, once.
LEMMA OnceSendTransmit == ASSUME TypeOK, OnceInv, NEW s \in Senders, SendTransmit(s) PROVE OnceInv'
<1> USE DEF outVars, ackVars, inVars, senderVars, resumeVars, linkVars, serverVars
<1> DEFINE e == Msg(sending[s])
<1>1. /\ UNCHANGED <<messages, total, sending, cursor, runtime, transport, supervisor>>
      /\ pc[s] = "transmit" /\ pc'[s] # "transmit"
      /\ \A t \in Senders : t # s => pc'[t] = pc[t]
      /\ WriteOk(runtime, e) \/ up' = up
  BY DEF SendTransmit, TypeOK
<1>2. CASE up' = up
  <2>1. Moves(up, up', Msg(0))
    BY <1>2, ItemFacts, MoveFacts, ZenonT(30) DEF TypeOK
  <2>2. OnceAside
    BY <2>1, <1>1, Zenon DEF OnceAside
  <2> QED
    BY <2>2, OnceAsideStep, SMTT(30)
<1>3. CASE up' # up
  <2>1. runtime = transport /\ up' = Append(up, e)
    BY <1>1, <1>3, ZenonT(30) DEF WriteOk
  <2>2. /\ supervisor \notin {"lock", "sequence", "items"}
        /\ 1 <= sending[s] /\ sending[s] <= total /\ sending[s] \in Nat
        /\ \A i \in DOMAIN up : up[i] # e
    BY <2>1, <1>1, Zenon DEF OnceInv, TypeOK
  <2>3. e \in Item /\ e.kind = "msg" /\ e.n = sending[s] /\ total \in Nat /\ up \in Seq(Item)
    BY <2>2, ItemFacts, ZenonT(30) DEF TypeOK
  <2>4. Moves(up, up', e) /\ total <= total
    BY <2>1, <2>3, MoveFacts, SMTT(30)
  <2>5. /\ \A i \in DOMAIN up : up[i].kind = "msg" => up[i].n <= total
        /\ \A i, j \in DOMAIN up : up[i].kind = "msg" /\ up[i].n # 0 /\ up[i] = up[j] => i = j
    BY Zenon DEF OnceInv
  <2>6. /\ \A i \in DOMAIN up' : up'[i].kind = "msg" => up'[i].n <= total
        /\ \A i, j \in DOMAIN up' : up'[i].kind = "msg" /\ up'[i].n # 0 /\ up'[i] = up'[j] => i = j
        /\ \A i \in DOMAIN up' : up'[i] = e \/ \E j \in DOMAIN up : up'[i] = up[j]
    BY <2>2, <2>3, <2>4, <2>5, OnceUp, ZenonT(30)
  <2>7. \A t \in Senders : pc'[t] = "transmit" => t # s /\ pc[t] = "transmit" /\ sending[t] # sending[s]
    BY <1>1, Zenon DEF OnceInv
  <2>8. \A t \in Senders : pc'[t] = "transmit" => Msg(sending[t]) # e
    <3>1. \A t \in Senders : sending[t] \in Nat
      BY Zenon DEF TypeOK
    <3>2. \A t \in Senders : Msg(sending[t]).n = sending[t]
      BY <3>1, ItemFacts, Zenon
    <3> QED
      BY <3>2, <2>7, Zenon
  <2> HIDE DEF e
  <2>9. \A t \in Senders, i \in DOMAIN up' : pc'[t] = "transmit" => up'[i] # Msg(sending[t])
    <3>1. \A t \in Senders, i \in DOMAIN up : pc[t] = "transmit" => up[i] # Msg(sending[t])
      BY <2>1, Zenon DEF OnceInv
    <3>2. ASSUME NEW t \in Senders, NEW i \in DOMAIN up', pc'[t] = "transmit"
          PROVE  up'[i] # Msg(sending[t])
      <4>1. pc[t] = "transmit" /\ Msg(sending[t]) # e
        BY <2>7, <2>8, <3>2, ZenonT(30)
      <4> QED
        BY <4>1, <3>1, <2>6, ZenonT(30)
    <3> QED
      BY <3>2, Zenon
  <2>10. /\ supervisor' = "lock" <=> runtime' # transport'
         /\ runtime' <= transport'
         /\ \A m \in messages' : 1 <= m /\ m <= total'
         /\ \A t \in Senders : pc'[t] = "transmit" =>
              /\ 1 <= sending'[t] /\ sending'[t] <= total'
              /\ supervisor' \notin {"sequence", "items"}
         /\ \A t, u \in Senders : pc'[t] = "transmit" /\ pc'[u] = "transmit" /\ sending'[t] = sending'[u] => t = u
    BY <2>7, <1>1, Zenon DEF OnceInv
  <2> QED
    BY <2>2, <2>6, <2>9, <2>10, <1>1, ZenonT(30) DEF OnceInv
<1> QED
  BY <1>2, <1>3, SMTT(30)

\* A reopened transport is empty, and nobody writes to it before resend() does.
LEMMA OnceReopen == ASSUME TypeOK, TypeOK', OnceInv, Reopen \/ LockRuntime PROVE OnceInv'
<1> USE DEF outVars, ackVars, inVars, senderVars, resumeVars, linkVars, serverVars, clientVars
<1>1. CASE Reopen
  <2>1. /\ UNCHANGED <<messages, total, sending, pc, cursor, runtime>>
        /\ up' = <<>> /\ supervisor = "reopen" /\ supervisor' = "lock" /\ transport' = transport + 1
    BY <1>1, Zenon DEF Reopen
  <2>2. runtime \in Nat /\ transport \in Nat /\ runtime = transport
    BY <2>1, Zenon DEF OnceInv, TypeOK
  <2>3. runtime' # transport' /\ runtime' <= transport' /\ DOMAIN up' = {}
    BY <2>1, <2>2, EmptyFacts, SMTT(30)
  <2> QED
    BY <2>1, <2>3, ZenonT(30) DEF OnceInv
<1>2. CASE LockRuntime
  <2>1. /\ UNCHANGED <<messages, total, sending, pc, cursor, transport, up>>
        /\ supervisor = "lock" /\ supervisor' = "sequence" /\ runtime' = transport
        /\ \A s \in Senders : pc'[s] # "transmit"
    BY <1>2, ZenonT(30) DEF LockRuntime
  <2>2. transport \in Nat /\ transport <= transport
    BY DEF TypeOK
  <2> QED
    BY <2>1, <2>2, ZenonT(30) DEF OnceInv
<1> QED
  BY <1>1, <1>2, SMTT(30)

\* resend() writes Sequence, then each item behind those before it.
LEMMA OnceResend == ASSUME TypeOK, TypeOK', OnceInv, ResendSequence \/ ResendItem PROVE OnceInv'
<1> USE DEF outVars, ackVars, inVars, senderVars, resumeVars, linkVars, serverVars, clientVars
<1> DEFINE e == IF supervisor = "sequence" THEN Sequence(FirstId) ELSE Msg(Min(Unsent))
<1>1. /\ UNCHANGED <<messages, total, sending, pc, runtime, transport>>
      /\ supervisor \in {"sequence", "items"} /\ supervisor' = "items"
  BY ZenonT(30) DEF ResendSequence, ResendItem
<1>2. /\ e \in Item /\ Moves(up, up', e)
      /\ e.kind = "msg" => e.n <= total
      /\ e.kind = "msg" /\ e.n # 0 => \A i \in DOMAIN up : up[i] # e
      /\ e.kind = "msg" /\ e.n # 0 => e.n < cursor'
      /\ supervisor = "items" => cursor <= cursor'
  <2>1. CASE ResendSequence
    <3>1. FirstId \in Nat /\ e = Sequence(FirstId) /\ supervisor = "sequence"
      BY <2>1, IdFacts, ZenonT(30) DEF ResendSequence
    <3>2. e \in Item /\ e.kind = "seq"
      BY <3>1, ItemFacts, SMTT(30)
    <3>3. Moves(up, up', e)
      BY <2>1, <3>1, <3>2, WriteMoves, SMTT(30) DEF ResendSequence
    <3> QED
      BY <3>1, <3>2, <3>3, SMTT(30)
  <2>2. CASE ResendItem
    <3>1. /\ Min(Unsent) \in Nat /\ e = Msg(Min(Unsent)) /\ supervisor = "items"
          /\ cursor' = Min(Unsent) + 1 /\ Min(Unsent) \in messages /\ cursor <= Min(Unsent)
          /\ WriteOk(transport, e)
      BY <2>2, IdFacts, SMTT(30) DEF ResendItem
    <3>2. e \in Item /\ e.kind = "msg" /\ e.n = Min(Unsent)
      BY <3>1, ItemFacts, SMTT(30)
    <3> HIDE DEF e
    <3>3. Moves(up, up', e)
      BY <3>1, <3>2, WriteMoves, SMTT(30)
    <3>4. /\ \A i \in DOMAIN up : up[i].kind = "msg" /\ up[i].n # 0 => up[i].n < cursor
          /\ \A i \in DOMAIN up : up[i].n \in Nat
          /\ 1 <= Min(Unsent) /\ Min(Unsent) <= total /\ cursor \in Nat /\ total \in Nat
      BY <3>1, ItemTypes, ZenonT(30) DEF OnceInv, TypeOK
    <3>5. \A i \in DOMAIN up : up[i].kind = "msg" => up[i].n # Min(Unsent)
      BY <3>1, <3>4, SMTT(30)
    <3>6. \A i \in DOMAIN up : up[i] # e
      BY <3>2, <3>5, ZenonT(30)
    <3>7. e.n <= total /\ e.n < cursor' /\ cursor <= cursor'
      BY <3>1, <3>2, <3>4, SMTT(30)
    <3> QED
      BY <3>2, <3>3, <3>6, <3>7, SMTT(30)
  <2> QED
    BY <2>1, <2>2, SMTT(30)
<1> HIDE DEF e
<1>3. total \in Nat /\ total <= total
  BY DEF TypeOK
<1>4. /\ \A i \in DOMAIN up : up[i].kind = "msg" => up[i].n <= total
      /\ \A i, j \in DOMAIN up : up[i].kind = "msg" /\ up[i].n # 0 /\ up[i] = up[j] => i = j
  BY Zenon DEF OnceInv
<1>5. /\ \A i \in DOMAIN up' : up'[i].kind = "msg" => up'[i].n <= total
      /\ \A i, j \in DOMAIN up' : up'[i].kind = "msg" /\ up'[i].n # 0 /\ up'[i] = up'[j] => i = j
      /\ \A i \in DOMAIN up' : up'[i] = e \/ \E j \in DOMAIN up : up'[i] = up[j]
  BY <1>2, <1>3, <1>4, OnceUp, ZenonT(30)
<1>6. ASSUME NEW i \in DOMAIN up', up'[i].kind = "msg", up'[i].n # 0 PROVE up'[i].n < cursor'
  <2>1. CASE up'[i] = e
    BY <2>1, <1>2, <1>6, ZenonT(30)
  <2>2. CASE \E j \in DOMAIN up : up'[i] = up[j]
    <3>1. PICK j \in DOMAIN up : up'[i] = up[j]
      BY <2>2
    <3>2. supervisor = "items" /\ up[j].n < cursor
      BY <3>1, <1>1, <1>6, ZenonT(30) DEF OnceInv
    <3>3. cursor <= cursor' /\ cursor \in Nat /\ cursor' \in Nat /\ up[j].n \in Nat
      BY <3>2, <1>2, ItemTypes, ZenonT(30) DEF TypeOK
    <3> QED
      BY <3>1, <3>2, <3>3, SMTT(30)
  <2> QED
    BY <2>1, <2>2, <1>5, SMTT(30)
<1>7. \A s \in Senders : pc'[s] # "transmit"
  BY <1>1, Zenon DEF OnceInv
<1>8. /\ supervisor' = "lock" <=> runtime' # transport'
      /\ runtime' <= transport'
      /\ \A m \in messages' : 1 <= m /\ m <= total'
  BY <1>1, Zenon DEF OnceInv
<1>9. supervisor' \notin {"lock", "sequence"}
  BY <1>1, SMTT(30)
<1> QED
  BY <1>1, <1>5, <1>6, <1>7, <1>8, <1>9, ZenonT(30) DEF OnceInv

\* Every step keeps it.
LEMMA OnceStep == ASSUME TypeOK, TypeOK', OnceInv, [Next]_vars PROVE OnceInv'
<1> USE DEF outVars, ackVars, inVars, senderVars, resumeVars, linkVars, serverVars, clientVars
<1>1. CASE AckTimer
  <2>1. latest \in Nat /\ Ack(latest) \in Item /\ up \in Seq(Item)
    BY ItemFacts, Zenon DEF TypeOK
  <2>2. Moves(up, up', Ack(latest))
    <3>1. UNCHANGED up \/ WriteOk(AckTarget, Ack(latest))
      BY <1>1, Zenon DEF AckTimer, AckId
    <3>2. CASE UNCHANGED up
      BY <3>2, <2>1, MoveFacts, SMTT(30)
    <3>3. CASE WriteOk(AckTarget, Ack(latest))
      BY <3>3, <2>1, WriteMoves, SMTT(30)
    <3> QED
      BY <3>1, <3>2, <3>3, SMTT(30)
  <2>3. OnceAside
    BY <2>1, <2>2, <1>1, ZenonT(30) DEF OnceAside, AckTimer
  <2> QED
    BY <2>3, OnceAsideStep, SMTT(30)
<1>2. CASE \/ \E s \in Senders : SendReturn(s)
           \/ Receive \/ AckDone \/ TransportClosed \/ AbortOld \/ ReopenFails
           \/ ResendDone \/ ResendFails \/ Drop \/ Server \/ ServerSend \/ ServerAck
           \/ UNCHANGED vars
  <2>1. Moves(up, up', Msg(0))
    BY <1>2, UpKept, Zenon
  <2>2. UNCHANGED <<total, sending, cursor, runtime, transport>>
    <3>1. CASE Receive
      BY <3>1, ZenonT(30) DEF Receive, ReceiveIgnored, ReceiveMessage, ReceiveSequence, ReceiveAck
    <3>2. CASE Server
      BY <3>2, ZenonT(30) DEF Server, ServerIgnores, ServerReceive, ServerReceiveSequence, ServerReceiveAck
    <3>3. CASE TransportClosed \/ AbortOld \/ ReopenFails \/ ResendDone \/ ResendFails
      BY <3>3, ZenonT(30) DEF TransportClosed, AbortOld, ReopenFails, ResendDone, ResendFails
    <3>4. CASE (\E s \in Senders : SendReturn(s)) \/ AckDone \/ Drop \/ ServerSend \/ ServerAck \/ UNCHANGED vars
      BY <3>4, ZenonT(30) DEF SendReturn, AckDone, Drop, ServerSend, ServerAck, vars
    <3> QED
      BY <1>2, <3>1, <3>2, <3>3, <3>4, ZenonT(30)
  <2>3. /\ \A m \in messages' : m \in messages
        /\ \A s \in Senders : pc'[s] = "transmit" => pc[s] = "transmit"
    <3>1. CASE Receive
      BY <3>1, ZenonT(30) DEF Receive, ReceiveIgnored, ReceiveMessage, ReceiveSequence, ReceiveAck
    <3>2. CASE Server
      BY <3>2, ZenonT(30) DEF Server, ServerIgnores, ServerReceive, ServerReceiveSequence, ServerReceiveAck
    <3>3. CASE TransportClosed \/ AbortOld \/ ReopenFails \/ ResendDone \/ ResendFails
      BY <3>3, ZenonT(30) DEF TransportClosed, AbortOld, ReopenFails, ResendDone, ResendFails
    <3>4. CASE \E s \in Senders : SendReturn(s)
      BY <3>4, SMTT(30) DEF SendReturn, TypeOK
    <3>5. CASE AckDone \/ Drop \/ ServerSend \/ ServerAck \/ UNCHANGED vars
      BY <3>5, Zenon DEF AckDone, Drop, ServerSend, ServerAck, vars
    <3> QED
      BY <1>2, <3>1, <3>2, <3>3, <3>4, <3>5, ZenonT(30)
  <2>4. \/ supervisor' = supervisor
        \/ supervisor # "lock" /\ supervisor' \in {"watch", "abort", "reopen", "lost"}
    <3>1. CASE Receive
      BY <3>1, ZenonT(30) DEF Receive, ReceiveIgnored, ReceiveMessage, ReceiveSequence, ReceiveAck
    <3>2. CASE Server
      BY <3>2, ZenonT(30) DEF Server, ServerIgnores, ServerReceive, ServerReceiveSequence, ServerReceiveAck
    <3>3. CASE TransportClosed \/ AbortOld \/ ReopenFails \/ ResendDone \/ ResendFails
      BY <3>3, SMTT(30) DEF TransportClosed, AbortOld, ReopenFails, ResendDone, ResendFails
    <3>4. CASE (\E s \in Senders : SendReturn(s)) \/ AckDone \/ Drop \/ ServerSend \/ ServerAck \/ UNCHANGED vars
      BY <3>4, Zenon DEF SendReturn, AckDone, Drop, ServerSend, ServerAck, vars
    <3> QED
      BY <1>2, <3>1, <3>2, <3>3, <3>4, ZenonT(30)
  <2>5. OnceAside
    BY <2>1, <2>2, <2>3, <2>4, ZenonT(30) DEF OnceAside
  <2> QED
    BY <2>5, OnceAsideStep
<1>3. CASE \E s \in Senders : SendBuffer(s) \/ SendTransmit(s)
  BY <1>3, OnceSendBuffer, OnceSendTransmit, ZenonT(30)
<1>4. CASE Reopen \/ LockRuntime \/ ResendSequence \/ ResendItem
  BY <1>4, OnceReopen, OnceResend, ZenonT(30)
<1> QED
  BY <1>1, <1>2, <1>3, <1>4, ZenonT(30) DEF Next, Resume, Awaited

-----------------------------------------------------------------------------
(* The client accepts the server's Sequence *)

\* The client acknowledges what it has counted on the transport the timer captured,
\* so that the Sequence of the next transport is no news to it.
AckInv ==
    /\ s_acked < next_id
    /\ ack_transport \in Nat /\ ack_transport <= transport
    /\ HasSequence(down) => down[1].n = s_acked + 1
    /\ ack_scheduled /\ ack_transport = transport => ~HasSequence(down) /\ next_id = latest + 1
    /\ \A i \in DOMAIN up : up[i].kind = "ack" => ~HasSequence(down) /\ up[i].n < next_id

\* Steps that acknowledge and count nothing.
AckAside ==
    /\ UNCHANGED <<s_acked, next_id, latest, transport, ack_transport>>
    /\ ack_scheduled' = ack_scheduled \/ ~ack_scheduled'
    /\ HasSequence(down') => HasSequence(down) /\ down'[1] = down[1]
    /\ \E e \in Item : e.kind # "ack" /\ Moves(up, up', e)

\* They keep it so.
LEMMA AckAsideStep == ASSUME AckInv, AckAside PROVE AckInv'
<1>1. \A i \in DOMAIN up' : up'[i].kind = "ack" => \E j \in DOMAIN up : up'[i] = up[j]
  <2>1. PICK e \in Item : e.kind # "ack" /\ Moves(up, up', e)
    BY Zenon DEF AckAside
  <2> QED
    BY <2>1, Zenon DEF Moves
<1>2. /\ UNCHANGED <<s_acked, next_id, latest, transport, ack_transport>>
      /\ ack_scheduled' = ack_scheduled \/ ~ack_scheduled'
      /\ HasSequence(down') => HasSequence(down) /\ down'[1] = down[1]
  BY Zenon DEF AckAside
<1>3. ASSUME NEW i \in DOMAIN up', up'[i].kind = "ack" PROVE ~HasSequence(down') /\ up'[i].n < next_id'
  <2>1. PICK j \in DOMAIN up : up'[i] = up[j]
    BY <1>1, <1>3, Zenon
  <2> QED
    BY <2>1, <1>2, <1>3, Zenon DEF AckInv
<1>4. HasSequence(down)' <=> HasSequence(down')
  BY Zenon DEF HasSequence
<1>5. ASSUME ack_scheduled', ack_transport' = transport' PROVE ~HasSequence(down') /\ next_id' = latest' + 1
  <2>1. ack_scheduled /\ ack_transport = transport
    BY <1>2, <1>5, Zenon
  <2> QED
    BY <2>1, <1>2, Zenon DEF AckInv
<1>6. s_acked' < next_id' /\ ack_transport' \in Nat /\ ack_transport' <= transport'
  BY <1>2, Zenon DEF AckInv
<1>7. HasSequence(down') => down'[1].n = s_acked' + 1
  BY <1>2, Zenon DEF AckInv
<1> QED
  BY <1>3, <1>4, <1>5, <1>6, <1>7, ZenonT(30) DEF AckInv

\* A Sequence stays where it is, or goes.
LEMMA SequenceStays ==
    ASSUME NEW c \in Seq(Item), \A i \in DOMAIN c : c[i].kind = "seq" => i = 1
    PROVE  /\ ~HasSequence(<<>>)
           /\ c # <<>> => ~HasSequence(Tail(c))
           /\ \A e \in Item : e.kind # "seq" => (HasSequence(Append(c, e)) => HasSequence(c) /\ Append(c, e)[1] = c[1])
           /\ \A k \in 0..Len(c) : HasSequence(SubSeq(c, 1, k)) => HasSequence(c) /\ SubSeq(c, 1, k)[1] = c[1]
<1>1. ~HasSequence(<<>>)
  BY DEF HasSequence
<1>2. ASSUME c # <<>> PROVE ~HasSequence(Tail(c))
  <2>1. /\ DOMAIN Tail(c) = 1..(Len(c) - 1) /\ Len(c) \in Nat
        /\ \A i \in DOMAIN Tail(c) : i + 1 \in DOMAIN c /\ Tail(c)[i] = c[i + 1]
        /\ Tail(c) \in Seq(Item)
    BY <1>2, TailFacts, SMTT(30)
  <2>2. SUFFICES ASSUME Tail(c) # <<>>, Tail(c)[1].kind = "seq" PROVE FALSE
    BY DEF HasSequence
  <2>3. 1 \in DOMAIN Tail(c)
    BY <2>1, <2>2, SMTT(30)
  <2>4. 2 \in DOMAIN c /\ c[2].kind = "seq"
    BY <2>1, <2>2, <2>3, SMTT(30)
  <2> QED
    BY <2>4, SMTT(30)
<1>3. ASSUME NEW e \in Item, e.kind # "seq", HasSequence(Append(c, e))
      PROVE  HasSequence(c) /\ Append(c, e)[1] = c[1]
  <2>1. Append(c, e)[1].kind = "seq" /\ Append(c, e)[Len(c) + 1] = e
    BY <1>3, AppendFacts, SMTT(30) DEF HasSequence
  <2>2. c # <<>>
    BY <2>1, <1>3, SMTT(30)
  <2>3. Append(c, e)[1] = c[1]
    BY <2>2, AppendFacts, SMTT(30)
  <2> QED
    BY <2>1, <2>2, <2>3, SMTT(30) DEF HasSequence
<1>4. ASSUME NEW k \in 0..Len(c), HasSequence(SubSeq(c, 1, k))
      PROVE  HasSequence(c) /\ SubSeq(c, 1, k)[1] = c[1]
  <2> DEFINE d == SubSeq(c, 1, k)
  <2>1. d \in Seq(Item) /\ \A i \in DOMAIN d : i \in DOMAIN c /\ d[i] = c[i]
    BY PrefixFacts
  <2>2. d # <<>> /\ d[1].kind = "seq"
    BY <1>4 DEF HasSequence
  <2> HIDE DEF d
  <2>3. 1 \in DOMAIN d
    BY <2>1, <2>2, SMTT(30)
  <2>4. 1 \in DOMAIN c /\ d[1] = c[1]
    BY <2>1, <2>3, SMTT(30)
  <2>5. c # <<>>
    BY <2>4, EmptyFacts, SMTT(30)
  <2> QED
    BY <2>2, <2>4, <2>5, SMTT(30) DEF HasSequence, d
<1> QED
  BY <1>1, <1>2, <1>3, <1>4, ZenonT(30)

\* What AckInv needs of the channel from the server.
LEMMA DownFacts ==
    ASSUME TypeOK, DownInv
    PROVE  /\ down \in Seq(Item) /\ next_id \in Nat /\ latest \in Nat /\ s_acked \in Nat
           /\ s_total \in Nat /\ s_acked <= s_total /\ transport \in Nat
           /\ \A i \in DOMAIN down : down[i].kind = "seq" => i = 1
           /\ ~wait_for_sequence => \A i \in DOMAIN down : down[i].kind # "seq"
<1>1. s_acked <= s_total
  BY AckedSent
<1> QED
  BY <1>1, Zenon DEF TypeOK, DownInv, NumberedInv, Counted

\* Most steps count nothing and acknowledge nothing.
LEMMA AckAsideActions ==
    ASSUME TypeOK, DownInv,
           \/ \E s \in Senders : SendBuffer(s) \/ SendTransmit(s) \/ SendReturn(s)
           \/ ReceiveIgnored \/ ReceiveAck \/ AckDone \/ TransportClosed \/ AbortOld \/ ReopenFails
           \/ LockRuntime \/ ResendSequence \/ ResendItem \/ ResendDone \/ ResendFails
           \/ Drop \/ ServerIgnores \/ ServerReceive \/ ServerReceiveSequence \/ ServerSend \/ ServerAck
           \/ UNCHANGED vars
    PROVE  AckAside
<1> USE DEF outVars, ackVars, inVars, senderVars, resumeVars, linkVars, serverVars, clientVars
<1>a. /\ down \in Seq(Item) /\ \A i \in DOMAIN down : down[i].kind = "seq" => i = 1
      /\ s_total \in Nat /\ s_latest \in Nat
  BY DownFacts, Zenon DEF TypeOK
<1>b. /\ ~HasSequence(<<>>)
      /\ down # <<>> => ~HasSequence(Tail(down))
      /\ \A e \in Item : e.kind # "seq" =>
           (HasSequence(Append(down, e)) => HasSequence(down) /\ Append(down, e)[1] = down[1])
      /\ \A k \in 0..Len(down) :
           HasSequence(SubSeq(down, 1, k)) => HasSequence(down) /\ SubSeq(down, 1, k)[1] = down[1]
  BY <1>a, SequenceStays, ZenonT(30)
<1>c. Msg(s_total + 1) \in Item /\ Msg(s_total + 1).kind # "seq" /\ Ack(s_latest) \in Item /\ Ack(s_latest).kind # "seq"
  <2>1. s_total + 1 \in Nat
    BY <1>a
  <2> QED
    BY <2>1, <1>a, ItemFacts, SMTT(30)
<1>1. \E e \in Item : e.kind # "ack" /\ Moves(up, up', e)
  <2>1. CASE ResendSequence
    <3>1. Sequence(FirstId) \in Item /\ Sequence(FirstId).kind # "ack"
      BY ItemFacts, IdFacts, SMTT(30)
    <3>2. Moves(up, up', Sequence(FirstId))
      BY <2>1, <3>1, WriteMoves, ZenonT(30) DEF ResendSequence
    <3> QED
      BY <3>1, <3>2, ZenonT(30)
  <2>2. CASE ~ResendSequence
    <3>1. PICK e \in Item : e.kind = "msg" /\ Moves(up, up', e)
      BY <2>2, MessageWrites, ZenonT(30) DEF Receive, Server
    <3> QED
      BY <3>1, SMTT(30)
  <2> QED
    BY <2>1, <2>2, ZenonT(30)
<1>2. /\ UNCHANGED <<s_acked, next_id, latest, transport, ack_transport>>
      /\ ack_scheduled' = ack_scheduled \/ ~ack_scheduled'
  <2>1. CASE \E s \in Senders : SendBuffer(s) \/ SendTransmit(s) \/ SendReturn(s)
    BY <2>1, ZenonT(30) DEF SendBuffer, SendTransmit, SendReturn
  <2>2. CASE ReceiveIgnored \/ ReceiveAck \/ AckDone \/ TransportClosed \/ AbortOld \/ ReopenFails
    BY <2>2, ZenonT(30) DEF ReceiveIgnored, ReceiveAck, AckDone, TransportClosed, AbortOld, ReopenFails
  <2>3. CASE LockRuntime \/ ResendSequence \/ ResendItem \/ ResendDone \/ ResendFails
    BY <2>3, ZenonT(30) DEF LockRuntime, ResendSequence, ResendItem, ResendDone, ResendFails
  <2>4. CASE Drop \/ ServerIgnores \/ ServerReceive \/ ServerReceiveSequence
    BY <2>4, ZenonT(30) DEF Drop, ServerIgnores, ServerReceive, ServerReceiveSequence
  <2>5. CASE ServerSend \/ ServerAck \/ UNCHANGED vars
    BY <2>5, ZenonT(30) DEF ServerSend, ServerAck, vars
  <2> QED
    BY <2>1, <2>2, <2>3, <2>4, <2>5, ZenonT(30)
<1>3. \/ down' = down \/ (down # <<>> /\ down' = Tail(down))
      \/ \E e \in Item : e.kind # "seq" /\ down' = Append(down, e)
      \/ \E k \in 0..Len(down) : down' = SubSeq(down, 1, k)
  <2>1. CASE \E s \in Senders : SendBuffer(s) \/ SendTransmit(s) \/ SendReturn(s)
    BY <2>1, ZenonT(30) DEF SendBuffer, SendTransmit, SendReturn
  <2>2. CASE ReceiveIgnored \/ ReceiveAck \/ AckDone \/ TransportClosed \/ AbortOld \/ ReopenFails
    BY <2>2, ZenonT(30) DEF ReceiveIgnored, ReceiveAck, AckDone, TransportClosed, AbortOld, ReopenFails
  <2>3. CASE LockRuntime \/ ResendSequence \/ ResendItem \/ ResendDone \/ ResendFails
    BY <2>3, ZenonT(30) DEF LockRuntime, ResendSequence, ResendItem, ResendDone, ResendFails
  <2>4. CASE ServerIgnores \/ ServerReceive \/ ServerReceiveSequence \/ UNCHANGED vars
    BY <2>4, ZenonT(30) DEF ServerIgnores, ServerReceive, ServerReceiveSequence, vars
  <2>5. CASE Drop
    BY <2>5, Zenon DEF Drop
  <2>6. CASE ServerSend
    BY <2>6, <1>c, ZenonT(30) DEF ServerSend
  <2>7. CASE ServerAck
    BY <2>7, <1>c, ZenonT(30) DEF ServerAck
  <2> QED
    BY <2>1, <2>2, <2>3, <2>4, <2>5, <2>6, <2>7, ZenonT(30)
<1>4. HasSequence(down') => HasSequence(down) /\ down'[1] = down[1]
  <2>1. CASE down' = down
    BY <2>1, SMTT(30)
  <2>2. CASE down # <<>> /\ down' = Tail(down)
    BY <2>2, <1>b, SMTT(30)
  <2>3. CASE \E e \in Item : e.kind # "seq" /\ down' = Append(down, e)
    BY <2>3, <1>b, SMTT(30)
  <2>4. CASE \E k \in 0..Len(down) : down' = SubSeq(down, 1, k)
    <3>1. PICK k \in 0..Len(down) : down' = SubSeq(down, 1, k)
      BY <2>4, Zenon
    <3>2. HasSequence(SubSeq(down, 1, k)) => HasSequence(down) /\ SubSeq(down, 1, k)[1] = down[1]
      BY <1>b, Zenon
    <3> QED
      BY <3>1, <3>2, Zenon
  <2> QED
    BY <1>3, <2>1, <2>2, <2>3, <2>4, ZenonT(30)
<1> QED
  BY <1>1, <1>2, <1>4, ZenonT(30) DEF AckAside

\* A message is counted; the timer is set only when the count is complete.
LEMMA AckReceiveMessage == ASSUME TypeOK, DownInv, AckInv, ReceiveMessage PROVE AckInv'
<1> USE DEF outVars, ackVars, inVars, senderVars, resumeVars, linkVars, serverVars
<1>1. /\ down \in Seq(Item) /\ next_id \in Nat /\ latest \in Nat /\ s_acked \in Nat
      /\ \A i \in DOMAIN down : down[i].kind = "seq" => i = 1
      /\ \A i \in DOMAIN up : up[i].n \in Nat
      /\ s_acked < next_id /\ ack_transport \in Nat /\ ack_transport <= transport /\ transport \in Nat
  BY DownFacts, ItemTypes, Zenon DEF AckInv
<1>2. ~HasSequence(down)
  <2>1. /\ ~wait_for_sequence /\ down # <<>>
        /\ \A i \in DOMAIN down : down[i].kind # "seq"
    BY DownFacts, Zenon DEF ReceiveMessage
  <2>2. 1 \in DOMAIN down
    BY <2>1, <1>1, SMTT(30)
  <2> QED
    BY <2>1, <2>2, Zenon DEF HasSequence
<1>3. ~HasSequence(down')
  <2>1. \A i \in DOMAIN down : down[i].kind # "seq"
    BY DownFacts, Zenon DEF ReceiveMessage
  <2>2. PICK k \in 1..Len(down) : down' = SubSeq(down, k + 1, Len(down))
    BY TakenFacts, Zenon
  <2>3. /\ down' \in Seq(Item)
        /\ \A i \in DOMAIN down' : i + k \in DOMAIN down /\ down'[i] = down[i + k]
    BY <2>2, <1>1, SuffixFacts, Zenon
  <2>4. down' # <<>> => 1 \in DOMAIN down'
    BY <2>3, SMTT(30)
  <2> QED
    BY <2>1, <2>3, <2>4, Zenon DEF HasSequence
<1>4. next_id' = next_id + 1 /\ UNCHANGED <<s_acked, transport>>
  BY Zenon DEF ReceiveMessage
<1>5. \/ next_id' = latest' + 1 /\ ack_transport' \in {ack_transport, transport}
      \/ next_id < latest /\ UNCHANGED <<ack_scheduled, ack_transport>> /\ latest' = latest
  <2>1. CASE Fresh
    <3>1. latest' = next_id /\ ack_transport' \in {ack_transport, transport}
      BY <2>1, ZenonT(30) DEF ReceiveMessage, ScheduleAck
    <3> QED
      BY <3>1, <1>4, Zenon
  <2>2. CASE ~Fresh /\ next_id = latest
    <3>1. latest' = next_id /\ ack_transport' \in {ack_transport, transport}
      BY <2>2, Zenon DEF ReceiveMessage, ScheduleAck
    <3> QED
      BY <3>1, <1>4, Zenon
  <2>3. CASE ~Fresh /\ next_id # latest
    <3>1. next_id < latest
      BY <2>3, <1>1, SMTT(30) DEF Fresh
    <3> QED
      BY <2>3, <3>1, ZenonT(30) DEF ReceiveMessage
  <2> QED
    BY <2>1, <2>2, <2>3, SMTT(30)
<1>6. s_acked' < next_id' /\ ack_transport' \in Nat /\ ack_transport' <= transport'
  BY <1>1, <1>4, <1>5, SMTT(30)
<1>7. ack_scheduled' /\ ack_transport' = transport' => next_id' = latest' + 1
  <2>1. ack_scheduled /\ ack_transport = transport => ~(next_id < latest)
    <3>1. ack_scheduled /\ ack_transport = transport => next_id = latest + 1
      BY Zenon DEF AckInv
    <3>2. next_id = latest + 1 => ~(next_id < latest)
      BY <1>1
    <3> QED
      BY <3>1, <3>2, Zenon
  <2> QED
    BY <2>1, <1>4, <1>5, ZenonT(30)
<1>8. \A i \in DOMAIN up' : up'[i].kind = "ack" => up'[i].n < next_id'
  <2>1. Moves(up, up', Msg(0))
    BY UpKept, Zenon DEF Receive
  <2>2. Msg(0).kind # "ack"
    BY ItemFacts, SMTT(30)
  <2>3. \A i \in DOMAIN up' : up'[i].kind = "ack" => \E j \in DOMAIN up : up'[i] = up[j]
    BY <2>1, <2>2, ZenonT(30) DEF Moves
  <2>4. \A j \in DOMAIN up : up[j].kind = "ack" => up[j].n < next_id
    BY Zenon DEF AckInv
  <2>5. \A j \in DOMAIN up : up[j].kind = "ack" => up[j].n < next_id'
    BY <2>4, <1>1, <1>4, SMTT(30)
  <2> QED
    BY <2>3, <2>5, Zenon
<1>9. HasSequence(down)' <=> HasSequence(down')
  BY Zenon DEF HasSequence
<1> QED
  BY <1>3, <1>6, <1>7, <1>8, <1>9, ZenonT(30) DEF AckInv

\* The server's Sequence goes back to what it knows to be acknowledged; no Ack is
\* on its way, and no timer set, on a transport whose Sequence has not been read.
LEMMA AckReceiveSequence == ASSUME TypeOK, DownInv, AckInv, ReceiveSequence PROVE AckInv'
<1> USE DEF outVars, ackVars, inVars, senderVars, resumeVars, linkVars, serverVars
<1>1. /\ down \in Seq(Item) /\ next_id \in Nat /\ s_acked \in Nat /\ s_acked < next_id
      /\ \A i \in DOMAIN down : down[i].kind = "seq" => i = 1
  BY DownFacts, Zenon DEF AckInv
<1>2. down # <<>> /\ Head(down) = down[1] /\ Head(down).kind = "seq" /\ down' = Tail(down)
  BY <1>1, TailFacts, Zenon DEF ReceiveSequence
<1>3. HasSequence(down) /\ ~HasSequence(down')
  BY <1>1, <1>2, SequenceStays, ZenonT(30) DEF HasSequence
<1>4. /\ Head(down).n = s_acked + 1
      /\ ~(ack_scheduled /\ ack_transport = transport)
      /\ \A i \in DOMAIN up : up[i].kind # "ack"
      /\ ack_transport \in Nat /\ ack_transport <= transport
  BY <1>2, <1>3, ZenonT(30) DEF AckInv
<1>5. ~(Head(down).n > next_id) /\ s_acked < Head(down).n
  BY <1>1, <1>4, SMTT(30)
<1>6. next_id' = Head(down).n /\ UNCHANGED <<s_acked, up, transport, ack_scheduled, ack_transport>>
  BY <1>5, ZenonT(30) DEF ReceiveSequence
<1>7. HasSequence(down)' <=> HasSequence(down')
  BY Zenon DEF HasSequence
<1>8. ~(ack_scheduled' /\ ack_transport' = transport')
  BY <1>4, <1>6, ZenonT(30)
<1> QED
  BY <1>3, <1>4, <1>5, <1>6, <1>7, <1>8, ZenonT(30) DEF AckInv

\* The timer acknowledges what is counted, on the transport it captured or nowhere.
LEMMA AckAckTimer == ASSUME TypeOK, DownInv, AckInv, AckTimer PROVE AckInv'
<1> USE DEF outVars, ackVars, inVars, senderVars, resumeVars, linkVars, serverVars
<1>1. /\ UNCHANGED <<s_acked, next_id, latest, transport, ack_transport, down>>
      /\ ack_scheduled /\ ack_scheduled' = ack_scheduled
      /\ up' = up \/ (ack_transport = transport /\ up' = Append(up, Ack(latest)))
  BY Zenon DEF AckTimer, AckTarget, AckId, WriteOk
<1>2. latest \in Nat /\ next_id \in Nat /\ up \in Seq(Item) /\ Ack(latest) \in Item /\ Ack(latest).n = latest
  BY ItemFacts, Zenon DEF TypeOK
<1>3. ASSUME NEW i \in DOMAIN up', up'[i].kind = "ack" PROVE ~HasSequence(down) /\ up'[i].n < next_id
  <2>1. CASE up' = up
    BY <2>1, <1>3, Zenon DEF AckInv
  <2>2. CASE ack_transport = transport /\ up' = Append(up, Ack(latest))
    <3>1. ~HasSequence(down) /\ next_id = latest + 1
      BY <2>2, <1>1, ZenonT(30) DEF AckInv
    <3>2. CASE i \in DOMAIN up
      <4>1. up'[i] = up[i]
        BY <2>2, <3>2, <1>2, AppendFacts, SMTT(30)
      <4>2. up[i].kind = "ack" => up[i].n < next_id
        BY <3>2, Zenon DEF AckInv
      <4> QED
        BY <4>1, <4>2, <3>1, <1>3, ZenonT(30)
    <3>3. CASE i \notin DOMAIN up
      <4>1. up'[i] = Ack(latest)
        BY <2>2, <3>3, <1>2, AppendFacts, SMTT(30)
      <4>2. latest < next_id
        BY <3>1, <1>2, SMTT(30)
      <4> QED
        BY <4>1, <4>2, <3>1, <1>2, ZenonT(30)
    <3> QED
      BY <3>2, <3>3, ZenonT(30)
  <2> QED
    BY <2>1, <2>2, <1>1, ZenonT(30)
<1>4. HasSequence(down)' <=> HasSequence(down)
  BY <1>1, Zenon DEF HasSequence
<1>5. /\ s_acked' < next_id' /\ ack_transport' \in Nat /\ ack_transport' <= transport'
      /\ HasSequence(down) => down'[1].n = s_acked' + 1
      /\ ack_transport' = transport' => ~HasSequence(down) /\ next_id' = latest' + 1
  BY <1>1, Zenon DEF AckInv
<1> QED
  BY <1>1, <1>3, <1>4, <1>5, ZenonT(30) DEF AckInv

\* A reopened transport starts with the Sequence after what is acknowledged.
LEMMA AckReopen == ASSUME TypeOK, DownInv, AckInv, Reopen PROVE AckInv'
<1> USE DEF outVars, ackVars, inVars, senderVars, resumeVars, linkVars, serverVars, clientVars
<1>1. /\ UNCHANGED <<s_acked, next_id, ack_transport>> /\ transport' = transport + 1
      /\ up' = <<>> /\ down' = ServerResend
  BY Zenon DEF Reopen
<1>2. /\ s_acked < next_id /\ ack_transport \in Nat /\ ack_transport <= transport /\ transport \in Nat
      /\ ServerResend[1].n = s_acked + 1
  BY DownFacts, ResendFacts, Zenon DEF AckInv
<1>3. ack_transport' # transport' /\ ack_transport' <= transport' /\ DOMAIN up' = {}
  BY <1>1, <1>2, EmptyFacts, SMTT(30)
<1> QED
  BY <1>1, <1>2, <1>3, ZenonT(30) DEF AckInv

\* The server takes an Ack: what it acknowledges is counted.
LEMMA AckServerReceiveAck == ASSUME TypeOK, AckInv, ServerReceiveAck PROVE AckInv'
<1> USE DEF outVars, ackVars, inVars, senderVars, resumeVars, linkVars, serverVars, clientVars
<1>1. /\ UNCHANGED <<next_id, latest, transport, ack_scheduled, ack_transport, down>>
      /\ up # <<>> /\ Head(up).kind = "ack" /\ up' = Tail(up)
      /\ s_acked' \in {s_acked, Head(up).n}
  BY Zenon DEF ServerReceiveAck
<1>2. up \in Seq(Item)
  BY Zenon DEF TypeOK
<1>3. /\ 1 \in DOMAIN up /\ Head(up) = up[1]
      /\ \A i \in DOMAIN up' : i + 1 \in DOMAIN up /\ up'[i] = up[i + 1]
  BY <1>1, <1>2, TailFacts, SMTT(30)
<1>4. ~HasSequence(down) /\ Head(up).n < next_id
  BY <1>1, <1>3, Zenon DEF AckInv
<1>5. s_acked' < next_id'
  BY <1>1, <1>4, Zenon DEF AckInv
<1>6. ~HasSequence(down')
  BY <1>1, <1>4, Zenon
<1>7. HasSequence(down)' <=> HasSequence(down')
  BY Zenon DEF HasSequence
<1>8. \A i \in DOMAIN up' : up'[i].kind = "ack" => up'[i].n < next_id'
  BY <1>1, <1>3, Zenon DEF AckInv
<1>9. /\ ack_transport' \in Nat /\ ack_transport' <= transport'
      /\ ack_scheduled' /\ ack_transport' = transport' => next_id' = latest' + 1
  BY <1>1, Zenon DEF AckInv
<1> QED
  BY <1>5, <1>6, <1>7, <1>8, <1>9, ZenonT(30) DEF AckInv

\* Every step keeps it.
LEMMA AckStep == ASSUME TypeOK, DownInv, AckInv, [Next]_vars PROVE AckInv'
<1>1. CASE ReceiveMessage \/ ReceiveSequence
  BY <1>1, AckReceiveMessage, AckReceiveSequence, ZenonT(30)
<1>2. CASE AckTimer \/ Reopen \/ ServerReceiveAck
  BY <1>2, AckAckTimer, AckReopen, AckServerReceiveAck, ZenonT(30)
<1>3. CASE ~ReceiveMessage /\ ~ReceiveSequence /\ ~AckTimer /\ ~Reopen /\ ~ServerReceiveAck
  <2>1. AckAside
    BY <1>3, AckAsideActions, ZenonT(30) DEF Next, Receive, Resume, Awaited, Server
  <2> QED
    BY <2>1, AckAsideStep, Zenon
<1> QED
  BY <1>1, <1>2, <1>3, Zenon

-----------------------------------------------------------------------------
(* The server accepts the client's Sequence *)

\* The buffer holds all messages from m on.
HoldsFrom(m) == \A k \in Nat : m <= k /\ k <= total => k \in messages

\* What the server has not counted on the present transport is in the buffer; so is
\* what a Sequence on its way goes back to.
BufInv ==
    /\ \A m \in messages : m <= total /\ HoldsFrom(m)
    /\ HoldsFrom(s_next)
    /\ \A i \in DOMAIN down : down[i].kind = "ack" => ~s_wait /\ down[i].n < s_next
    /\ \A i \in DOMAIN up : up[i].kind = "seq" =>
         /\ s_wait /\ up[i].n <= s_next /\ HoldsFrom(up[i].n)
         /\ supervisor \notin {"lock", "sequence"}
    /\ \A i, j \in DOMAIN up : up[i].kind = "seq" /\ up[j].kind = "seq" => i = j
    /\ supervisor \in {"lock", "sequence"} => s_wait

\* Steps that leave the buffer and the counts alone and write no Sequence.
BufAside ==
    /\ UNCHANGED <<messages, total, s_next, s_wait>>
    /\ \E e \in Item : e.kind # "ack" /\ Moves(down, down', e)
    /\ \E e \in Item : e.kind # "seq" /\ Moves(up, up', e)
    /\ supervisor' \in {"lock", "sequence"} => supervisor \in {"lock", "sequence"}

\* What is kept of a channel to which no Sequence is written.
LEMMA KeptSequence ==
    ASSUME \E e \in Item : e.kind # "seq" /\ Moves(up, up', e)
    PROVE  /\ \A i \in DOMAIN up' : up'[i].kind = "seq" => \E j \in DOMAIN up : up'[i] = up[j]
           /\ (\A i, j \in DOMAIN up : up[i].kind = "seq" /\ up[j].kind = "seq" => i = j) =>
                \A i, j \in DOMAIN up' : up'[i].kind = "seq" /\ up'[j].kind = "seq" => i = j
<1>1. PICK e \in Item : e.kind # "seq" /\ Moves(up, up', e)
  BY Zenon
<1>2. PICK f \in [DOMAIN up' -> Nat] :
        /\ \A i, j \in DOMAIN up' : f[i] = f[j] => i = j
        /\ \A i \in DOMAIN up' : \/ f[i] \in DOMAIN up /\ up'[i] = up[f[i]]
                                 \/ f[i] = Len(up) + 1 /\ up'[i] = e
  BY <1>1, Zenon DEF Moves
<1>3. \A i \in DOMAIN up' : up'[i].kind = "seq" => f[i] \in DOMAIN up /\ up'[i] = up[f[i]]
  BY <1>1, <1>2, Zenon
<1>4. ASSUME \A i, j \in DOMAIN up : up[i].kind = "seq" /\ up[j].kind = "seq" => i = j,
             NEW i \in DOMAIN up', NEW j \in DOMAIN up', up'[i].kind = "seq", up'[j].kind = "seq"
      PROVE  i = j
  <2>1. f[i] = f[j]
    BY <1>3, <1>4, Zenon
  <2> QED
    BY <2>1, <1>2, Zenon
<1> QED
  BY <1>3, <1>4, ZenonT(30)

\* They keep it so.
LEMMA BufAsideStep == ASSUME BufInv, BufAside PROVE BufInv'
<1>1. /\ UNCHANGED <<messages, total, s_next, s_wait>>
      /\ supervisor' \in {"lock", "sequence"} => supervisor \in {"lock", "sequence"}
  BY Zenon DEF BufAside
<1>2. \A i \in DOMAIN down' : down'[i].kind = "ack" => \E j \in DOMAIN down : down'[i] = down[j]
  <2>1. PICK e \in Item : e.kind # "ack" /\ Moves(down, down', e)
    BY Zenon DEF BufAside
  <2> QED
    BY <2>1, Zenon DEF Moves
<1>3. /\ \A i \in DOMAIN up' : up'[i].kind = "seq" => \E j \in DOMAIN up : up'[i] = up[j]
      /\ \A i, j \in DOMAIN up' : up'[i].kind = "seq" /\ up'[j].kind = "seq" => i = j
  BY KeptSequence, Zenon DEF BufAside, BufInv
<1>4. \A m : HoldsFrom(m) => HoldsFrom(m)'
  BY <1>1, Zenon DEF HoldsFrom
<1>5. /\ \A m \in messages' : m <= total' /\ HoldsFrom(m)'
      /\ HoldsFrom(s_next)'
  BY <1>1, <1>4, Zenon DEF BufInv, HoldsFrom
<1>6. ASSUME NEW i \in DOMAIN up', up'[i].kind = "seq"
      PROVE  /\ s_wait' /\ up'[i].n <= s_next' /\ HoldsFrom(up[i].n)'
             /\ supervisor' \notin {"lock", "sequence"}
  <2>1. PICK j \in DOMAIN up : up'[i] = up[j]
    BY <1>3, <1>6, Zenon
  <2>2. /\ s_wait /\ up[j].n <= s_next /\ HoldsFrom(up[j].n)
        /\ supervisor \notin {"lock", "sequence"}
    BY <2>1, <1>6, Zenon DEF BufInv
  <2>3. HoldsFrom(up[i].n)'
    BY <2>1, <2>2, <1>1, ZenonT(30) DEF HoldsFrom
  <2> QED
    BY <2>1, <2>2, <2>3, <1>1, ZenonT(30)
<1>7. ASSUME NEW i \in DOMAIN down', down'[i].kind = "ack" PROVE ~s_wait' /\ down'[i].n < s_next'
  <2>1. PICK j \in DOMAIN down : down'[i] = down[j]
    BY <1>2, <1>7, Zenon
  <2> QED
    BY <2>1, <1>1, <1>7, ZenonT(30) DEF BufInv
<1>8. supervisor' \in {"lock", "sequence"} => s_wait'
  BY <1>1, Zenon DEF BufInv
<1> QED
  BY <1>3, <1>5, <1>6, <1>7, <1>8, ZenonT(30) DEF BufInv

\* The next message is buffered.
LEMMA BufSendBuffer == ASSUME TypeOK, BufInv, NEW s \in Senders, SendBuffer(s) PROVE BufInv'
<1> USE DEF outVars, ackVars, inVars, senderVars, resumeVars, linkVars, serverVars
<1>1. /\ UNCHANGED <<up, down, s_next, s_wait, supervisor>>
      /\ total' = total + 1 /\ messages' = messages \cup {total + 1}
  BY Zenon DEF SendBuffer
<1>2. total \in Nat /\ messages \in SUBSET Nat
  BY Zenon DEF TypeOK
<1>3. \A k \in Nat : k <= total' => k <= total \/ k \in messages'
  BY <1>1, <1>2, SMTT(30)
<1>4. \A m : (\A k \in Nat : m <= k /\ k <= total => k \in messages) =>
               \A k \in Nat : m <= k /\ k <= total' => k \in messages'
  BY <1>1, <1>3, ZenonT(30)
<1>5. \A m \in messages' : m <= total' /\ HoldsFrom(m)'
  <2>1. ASSUME NEW m \in messages PROVE m <= total' /\ HoldsFrom(m)'
    <3>1. m <= total /\ m \in Nat /\ \A k \in Nat : m <= k /\ k <= total => k \in messages
      BY <1>2, ZenonT(30) DEF BufInv, HoldsFrom
    <3>2. m <= total'
      BY <3>1, <1>1, <1>2, SMTT(30)
    <3> QED
      BY <3>1, <3>2, <1>4, ZenonT(30) DEF HoldsFrom
  <2>2. \A k \in Nat : total + 1 <= k /\ k <= total' => k \in messages'
    BY <1>1, <1>2, SMTT(30)
  <2>3. total + 1 <= total'
    BY <1>1, <1>2, SMTT(30)
  <2>4. ASSUME NEW m \in messages', m = total + 1 PROVE m <= total' /\ HoldsFrom(m)'
    BY <2>2, <2>3, <2>4, ZenonT(30) DEF HoldsFrom
  <2> QED
    BY <2>1, <2>4, <1>1, ZenonT(30)
<1>6. HoldsFrom(s_next)'
  BY <1>1, <1>4, Zenon DEF BufInv, HoldsFrom
<1>7. \A i \in DOMAIN up' : up'[i].kind = "seq" => HoldsFrom(up[i].n)'
  BY <1>1, <1>4, Zenon DEF BufInv, HoldsFrom
<1>8. /\ \A i \in DOMAIN down' : down'[i].kind = "ack" => ~s_wait' /\ down'[i].n < s_next'
      /\ \A i \in DOMAIN up' : up'[i].kind = "seq" =>
           s_wait' /\ up'[i].n <= s_next' /\ supervisor' \notin {"lock", "sequence"}
      /\ \A i, j \in DOMAIN up' : up'[i].kind = "seq" /\ up'[j].kind = "seq" => i = j
      /\ supervisor' \in {"lock", "sequence"} => s_wait'
  BY <1>1, Zenon DEF BufInv
<1> QED
  BY <1>5, <1>6, <1>7, <1>8, ZenonT(30) DEF BufInv

\* The server acknowledges nothing it has not counted on the present transport, and
\* nothing before it has read the Sequence.
LEMMA BufReceiveAck == ASSUME TypeOK, BufInv, ReceiveAck PROVE BufInv'
<1> USE DEF outVars, ackVars, inVars, senderVars, resumeVars, linkVars, serverVars
<1> DEFINE n == Head(down).n
<1>1. /\ UNCHANGED <<up, total, s_next, s_wait, supervisor>>
      /\ down # <<>> /\ Head(down).kind = "ack" /\ down' = Tail(down)
      /\ messages' = messages \ {m \in messages : m <= n}
  BY Zenon DEF ReceiveAck, AckedBy
<1>2. messages \in SUBSET Nat /\ s_next \in Nat /\ total \in Nat /\ down \in Seq(Item)
  BY Zenon DEF TypeOK
<1>3. /\ 1 \in DOMAIN down /\ Head(down) = down[1]
      /\ \A i \in DOMAIN down' : i + 1 \in DOMAIN down /\ down'[i] = down[i + 1]
  BY <1>1, <1>2, TailFacts, SMTT(30)
<1>4. ~s_wait /\ n < s_next /\ n \in Nat
  BY <1>1, <1>3, ItemTypes, ZenonT(30) DEF BufInv
<1> HIDE DEF n
<1>5. \A m \in Nat : n < m /\ (\A k \in Nat : m <= k /\ k <= total => k \in messages) =>
                     \A k \in Nat : m <= k /\ k <= total' => k \in messages'
  BY <1>1, <1>2, <1>4, SMTT(30)
<1>6. \A m \in messages' : m \in messages /\ n < m
  BY <1>1, <1>2, <1>4, SMTT(30)
<1>7. \A m \in messages' : m <= total' /\ HoldsFrom(m)'
  BY <1>1, <1>2, <1>5, <1>6, ZenonT(30) DEF BufInv, HoldsFrom
<1>8. HoldsFrom(s_next)'
  BY <1>1, <1>2, <1>4, <1>5, ZenonT(30) DEF BufInv, HoldsFrom
<1>9. \A i \in DOMAIN up' : up'[i].kind # "seq"
  BY <1>1, <1>4, ZenonT(30) DEF BufInv
<1>10. \A i \in DOMAIN down' : down'[i].kind = "ack" => ~s_wait' /\ down'[i].n < s_next'
  BY <1>1, <1>3, <1>4, ZenonT(30) DEF BufInv
<1>11. supervisor' \in {"lock", "sequence"} => s_wait'
  BY <1>1, Zenon DEF BufInv
<1> QED
  BY <1>7, <1>8, <1>9, <1>10, <1>11, ZenonT(30) DEF BufInv

\* A reopened transport carries no Ack.
LEMMA BufReopen == ASSUME TypeOK, DownInv, BufInv, Reopen PROVE BufInv'
<1> USE DEF outVars, ackVars, inVars, senderVars, resumeVars, linkVars, serverVars, clientVars
<1>1. /\ UNCHANGED <<messages, total, s_next>> /\ s_wait' = TRUE /\ up' = <<>> /\ down' = ServerResend
  BY Zenon DEF Reopen
<1>2. \A i \in DOMAIN down' : down'[i].kind # "ack"
  BY <1>1, DownFacts, ResendFacts, ZenonT(30)
<1>3. DOMAIN up' = {}
  BY <1>1, EmptyFacts, SMTT(30)
<1>4. (\A m \in messages' : m <= total' /\ HoldsFrom(m)') /\ HoldsFrom(s_next)'
  BY <1>1, Zenon DEF BufInv, HoldsFrom
<1> QED
  BY <1>1, <1>2, <1>3, <1>4, ZenonT(30) DEF BufInv

\* resend() goes back to the first buffered item: the server has not counted further.
LEMMA BufResendSequence == ASSUME TypeOK, BufInv, ResendSequence PROVE BufInv'
<1> USE DEF outVars, ackVars, inVars, senderVars, resumeVars, linkVars, serverVars, clientVars
<1>1. /\ UNCHANGED <<messages, total, s_next, s_wait, down>>
      /\ supervisor = "sequence" /\ supervisor' = "items" /\ WriteOk(transport, Sequence(FirstId))
  BY Zenon DEF ResendSequence
<1>2. total \in Nat /\ s_next \in Nat /\ FirstId \in Nat /\ messages \in SUBSET Nat
  BY IdFacts, ZenonT(30) DEF TypeOK
<1>3. /\ messages # {} => FirstId \in messages /\ \A m \in messages : FirstId <= m
      /\ messages = {} => FirstId = total + 1
  BY IdFacts, ZenonT(30) DEF FirstId
<1>4. HoldsFrom(FirstId) /\ FirstId <= s_next
  <2>1. /\ \A m \in messages : m <= total /\ \A k \in Nat : m <= k /\ k <= total => k \in messages
        /\ \A k \in Nat : s_next <= k /\ k <= total => k \in messages
    BY Zenon DEF BufInv, HoldsFrom
  <2>2. CASE messages = {}
    <3>1. ~(s_next <= total)
      BY <2>1, <2>2, <1>2, SMTT(30)
    <3> QED
      BY <3>1, <2>2, <1>2, <1>3, SMTT(30) DEF HoldsFrom
  <2>3. CASE messages # {}
    <3>1. FirstId <= total /\ HoldsFrom(FirstId)
      BY <2>1, <2>3, <1>3, ZenonT(30) DEF HoldsFrom
    <3>2. s_next <= total => s_next \in messages
      BY <2>1, <1>2, SMTT(30)
    <3> QED
      BY <3>1, <3>2, <2>3, <1>2, <1>3, SMTT(30)
  <2> QED
    BY <2>2, <2>3, SMTT(30)
<1>5. Sequence(FirstId) \in Item /\ Sequence(FirstId).n = FirstId /\ Sequence(FirstId).kind = "seq"
  BY <1>2, ItemFacts, ZenonT(30)
<1>6. PICK f \in [DOMAIN up' -> Nat] :
        /\ \A i, j \in DOMAIN up' : f[i] = f[j] => i = j
        /\ \A i \in DOMAIN up' : \/ f[i] \in DOMAIN up /\ up'[i] = up[f[i]]
                                 \/ f[i] = Len(up) + 1 /\ up'[i] = Sequence(FirstId)
  <2>1. Moves(up, up', Sequence(FirstId))
    BY <1>1, <1>5, WriteMoves, ZenonT(30)
  <2> QED
    BY <2>1, Zenon DEF Moves
<1>7. s_wait /\ \A i \in DOMAIN up : up[i].kind # "seq"
  BY <1>1, Zenon DEF BufInv
<1>8. \A i \in DOMAIN up' : up'[i].kind = "seq" => f[i] = Len(up) + 1 /\ up'[i] = Sequence(FirstId)
  BY <1>6, <1>7, ZenonT(30)
<1>9. \A i, j \in DOMAIN up' : up'[i].kind = "seq" /\ up'[j].kind = "seq" => i = j
  BY <1>6, <1>8, ZenonT(30)
<1>10. \A i \in DOMAIN up' : up'[i].kind = "seq" => s_wait' /\ up'[i].n <= s_next' /\ HoldsFrom(up[i].n)'
  <2>1. \A k \in Nat : FirstId <= k /\ k <= total' => k \in messages'
    BY <1>1, <1>4, ZenonT(30) DEF HoldsFrom
  <2> QED
    BY <2>1, <1>1, <1>4, <1>5, <1>7, <1>8, ZenonT(30) DEF HoldsFrom
<1>11. supervisor' \notin {"lock", "sequence"}
  BY <1>1, SMTT(30)
<1>12. /\ \A m \in messages' : m <= total' /\ HoldsFrom(m)'
       /\ HoldsFrom(s_next)'
       /\ \A i \in DOMAIN down' : down'[i].kind = "ack" => ~s_wait' /\ down'[i].n < s_next'
  BY <1>1, ZenonT(30) DEF BufInv, HoldsFrom
<1> QED
  BY <1>9, <1>10, <1>11, <1>12, ZenonT(30) DEF BufInv

\* The server counts a message, or goes back to where a Sequence says.
LEMMA BufServer == ASSUME TypeOK, BufInv, ServerReceive \/ ServerReceiveSequence PROVE BufInv'
<1> USE DEF outVars, ackVars, inVars, senderVars, resumeVars, linkVars, serverVars, clientVars
<1>1. /\ UNCHANGED <<messages, total, down, supervisor>> /\ up # <<>> /\ up' = Tail(up)
  BY Zenon DEF ServerReceive, ServerReceiveSequence
<1>2. up \in Seq(Item) /\ s_next \in Nat /\ total \in Nat /\ \A i \in DOMAIN down : down[i].n \in Nat
  BY ItemTypes, ZenonT(30) DEF TypeOK
<1>3. /\ 1 \in DOMAIN up /\ Head(up) = up[1]
      /\ \A i \in DOMAIN up' : i + 1 \in DOMAIN up /\ i + 1 # 1 /\ up'[i] = up[i + 1]
  BY <1>1, <1>2, TailFacts, SMTT(30)
<1>4. \A m \in messages' : m <= total' /\ HoldsFrom(m)'
  BY <1>1, ZenonT(30) DEF BufInv, HoldsFrom
<1>5. CASE ServerReceive
  <2>1. ~s_wait /\ s_wait' = s_wait /\ s_next' = s_next + 1
    BY <1>5, Zenon DEF ServerReceive
  <2>2. \A i \in DOMAIN up : up[i].kind # "seq"
    BY <2>1, Zenon DEF BufInv
  <2>3. \A i \in DOMAIN up' : up'[i].kind # "seq"
    BY <2>2, <1>3, ZenonT(30)
  <2>4. HoldsFrom(s_next)'
    <3>1. \A k \in Nat : s_next <= k /\ k <= total => k \in messages
      BY Zenon DEF BufInv, HoldsFrom
    <3> QED
      BY <3>1, <2>1, <1>1, <1>2, SMTT(30) DEF HoldsFrom
  <2>5. \A i \in DOMAIN down' : down'[i].kind = "ack" => down'[i].n < s_next'
    <3>1. \A i \in DOMAIN down : down[i].kind = "ack" => down[i].n < s_next
      BY Zenon DEF BufInv
    <3> QED
      BY <3>1, <2>1, <1>1, <1>2, SMTT(30)
  <2>6. supervisor' \in {"lock", "sequence"} => s_wait'
    BY <1>1, <2>1, ZenonT(30) DEF BufInv
  <2> QED
    BY <2>1, <2>3, <2>4, <2>5, <2>6, <1>4, ZenonT(30) DEF BufInv
<1>6. CASE ServerReceiveSequence
  <2>1. up[1].kind = "seq" /\ s_next' = up[1].n
    BY <1>3, <1>6, ZenonT(30) DEF ServerReceiveSequence
  <2>2. s_wait /\ HoldsFrom(up[1].n) /\ supervisor \notin {"lock", "sequence"}
    BY <2>1, <1>3, ZenonT(30) DEF BufInv
  <2>3. \A i \in DOMAIN down' : down'[i].kind # "ack"
    BY <2>2, <1>1, ZenonT(30) DEF BufInv
  <2>4. \A i \in DOMAIN up' : up'[i].kind # "seq"
    BY <2>1, <1>3, ZenonT(30) DEF BufInv
  <2>5. HoldsFrom(s_next)'
    BY <2>1, <2>2, <1>1, ZenonT(30) DEF HoldsFrom
  <2>6. supervisor' \notin {"lock", "sequence"}
    BY <2>2, <1>1, ZenonT(30)
  <2> QED
    BY <2>3, <2>4, <2>5, <2>6, <1>4, ZenonT(30) DEF BufInv
<1> QED
  BY <1>5, <1>6, SMTT(30)

\* The server acknowledges what it has counted on the present transport.
LEMMA BufServerAck == ASSUME TypeOK, BufInv, ServerAck PROVE BufInv'
<1> USE DEF outVars, ackVars, inVars, senderVars, resumeVars, linkVars, serverVars, clientVars
<1>1. /\ UNCHANGED <<messages, total, up, supervisor, s_wait, s_next>>
      /\ ~s_wait /\ s_next > s_latest /\ down' = Append(down, Ack(s_latest))
  BY Zenon DEF ServerAck
<1>2. down \in Seq(Item) /\ s_latest \in Nat /\ s_next \in Nat /\ Ack(s_latest) \in Item /\ Ack(s_latest).n = s_latest
  BY ItemFacts, ZenonT(30) DEF TypeOK
<1>3. \A i \in DOMAIN down' : (i \in DOMAIN down /\ down'[i] = down[i]) \/ down'[i] = Ack(s_latest)
  BY <1>1, <1>2, AppendFacts, SMTT(30)
<1>4. s_latest < s_next
  BY <1>1, <1>2, SMTT(30)
<1>5. \A i \in DOMAIN down' : down'[i].kind = "ack" => ~s_wait' /\ down'[i].n < s_next'
  <2>1. \A i \in DOMAIN down : down[i].kind = "ack" => down[i].n < s_next
    BY Zenon DEF BufInv
  <2> QED
    BY <2>1, <1>1, <1>2, <1>3, <1>4, ZenonT(30)
<1>6. /\ \A m \in messages' : m <= total' /\ HoldsFrom(m)'
      /\ HoldsFrom(s_next)'
      /\ \A i \in DOMAIN up' : up'[i].kind # "seq"
      /\ supervisor' \in {"lock", "sequence"} => s_wait'
  BY <1>1, Zenon DEF BufInv, HoldsFrom
<1> QED
  BY <1>5, <1>6, ZenonT(30) DEF BufInv

\* Every step keeps it.
LEMMA BufStep == ASSUME TypeOK, DownInv, BufInv, [Next]_vars PROVE BufInv'
<1> USE DEF outVars, ackVars, inVars, senderVars, resumeVars, linkVars, serverVars, clientVars
<1>1. CASE \/ \E s \in Senders : SendBuffer(s)
           \/ ReceiveAck \/ Reopen \/ ResendSequence \/ ServerReceive \/ ServerReceiveSequence \/ ServerAck
  BY <1>1, BufSendBuffer, BufReceiveAck, BufReopen, BufResendSequence, BufServer, BufServerAck, ZenonT(30)
<1>2. CASE \/ \E s \in Senders : SendTransmit(s) \/ SendReturn(s)
           \/ ReceiveIgnored \/ ReceiveMessage \/ ReceiveSequence \/ AckTimer \/ AckDone
           \/ TransportClosed \/ AbortOld \/ ReopenFails \/ LockRuntime
           \/ ResendItem \/ ResendDone \/ ResendFails
           \/ Drop \/ ServerIgnores \/ ServerReceiveAck \/ ServerSend \/ UNCHANGED vars
  <2>1. \E e \in Item : e.kind # "seq" /\ Moves(up, up', e)
    <3>1. CASE AckTimer
      <4>1. Ack(latest) \in Item /\ Ack(latest).kind # "seq" /\ up \in Seq(Item)
        BY ItemFacts, SMTT(30) DEF TypeOK
      <4>2. UNCHANGED up \/ WriteOk(AckTarget, Ack(latest))
        BY <3>1, ZenonT(30) DEF AckTimer, AckId
      <4>3. Moves(up, up', Ack(latest))
        BY <4>1, <4>2, MoveFacts, WriteMoves, SMTT(30)
      <4> QED
        BY <4>1, <4>3, ZenonT(30)
    <3>2. CASE ~AckTimer
      <4>1. PICK e \in Item : e.kind = "msg" /\ Moves(up, up', e)
        BY <1>2, <3>2, MessageWrites, ZenonT(30) DEF Receive, Server
      <4> QED
        BY <4>1, SMTT(30)
    <3> QED
      BY <3>1, <3>2, ZenonT(30)
  <2>2. \E e \in Item : e.kind # "ack" /\ Moves(down, down', e)
    <3>1. down \in Seq(Item) /\ s_total + 1 \in Nat
      BY DEF TypeOK
    <3>2. Msg(s_total + 1) \in Item /\ Msg(s_total + 1).kind # "ack"
      BY <3>1, ItemFacts, SMTT(30)
    <3>3. /\ Moves(down, down, Msg(s_total + 1)) /\ Moves(down, Append(down, Msg(s_total + 1)), Msg(s_total + 1))
          /\ down # <<>> => Moves(down, Tail(down), Msg(s_total + 1))
          /\ \A k \in 0..Len(down) : Moves(down, SubSeq(down, 1, k), Msg(s_total + 1))
      BY <3>1, <3>2, MoveFacts, ZenonT(30)
    <3>4. Moves(down, down', Msg(s_total + 1))
      <4>1. CASE Drop
        BY <4>1, <3>3, ZenonT(30) DEF Drop
      <4>2. CASE ServerSend
        BY <4>2, <3>3, ZenonT(30) DEF ServerSend
      <4>3. CASE ReceiveIgnored \/ ReceiveSequence
        BY <4>3, <3>3, ZenonT(30) DEF ReceiveIgnored, ReceiveSequence
      <4>6. CASE ReceiveMessage
        <5>1. PICK k \in 1..Len(down) : down' = SubSeq(down, k + 1, Len(down))
          BY <4>6, TakenFacts, Zenon
        <5> QED
          BY <5>1, <3>1, SuffixMoves, Zenon
      <4>4. CASE \/ \E s \in Senders : SendTransmit(s) \/ SendReturn(s)
                 \/ AckTimer \/ AckDone \/ ServerIgnores \/ ServerReceiveAck \/ UNCHANGED vars
        <5>1. down' = down
          BY <4>4, ZenonT(30) DEF SendTransmit, SendReturn, AckTimer, AckDone, ServerIgnores, ServerReceiveAck, vars
        <5> QED
          BY <5>1, <3>3, ZenonT(30)
      <4>5. CASE \/ TransportClosed \/ AbortOld \/ ReopenFails \/ LockRuntime
                 \/ ResendItem \/ ResendDone \/ ResendFails
        <5>1. down' = down
          BY <4>5, ZenonT(30) DEF TransportClosed, AbortOld, ReopenFails, LockRuntime, ResendItem, ResendDone, ResendFails
        <5> QED
          BY <5>1, <3>3, Zenon
      <4> QED
        BY <1>2, <4>1, <4>2, <4>3, <4>4, <4>5, <4>6, ZenonT(30)
    <3> QED
      BY <3>2, <3>4, ZenonT(30)
  <2>3. /\ UNCHANGED <<messages, total, s_next, s_wait>>
        /\ supervisor' \in {"lock", "sequence"} => supervisor \in {"lock", "sequence"}
    <3>1. CASE \/ \E s \in Senders : SendTransmit(s) \/ SendReturn(s)
               \/ ReceiveIgnored \/ ReceiveMessage \/ ReceiveSequence
      BY <3>1, ZenonT(30) DEF SendTransmit, SendReturn, ReceiveIgnored, ReceiveMessage, ReceiveSequence
    <3>2. CASE AckTimer \/ AckDone \/ Drop \/ ServerIgnores \/ ServerReceiveAck \/ ServerSend \/ UNCHANGED vars
      BY <3>2, ZenonT(30) DEF AckTimer, AckDone, Drop, ServerIgnores, ServerReceiveAck, ServerSend, vars
    <3>3. CASE TransportClosed \/ AbortOld \/ ReopenFails \/ LockRuntime
      BY <3>3, SMTT(30) DEF TransportClosed, AbortOld, ReopenFails, LockRuntime
    <3>4. CASE ResendItem \/ ResendDone \/ ResendFails
      BY <3>4, SMTT(30) DEF ResendItem, ResendDone, ResendFails
    <3> QED
      BY <1>2, <3>1, <3>2, <3>3, <3>4, ZenonT(30)
  <2>4. BufAside
    BY <2>1, <2>2, <2>3, ZenonT(30) DEF BufAside
  <2> QED
    BY <2>4, BufAsideStep, Zenon
<1> QED
  BY <1>1, <1>2, ZenonT(30) DEF Next, Receive, Resume, Awaited, Server

-----------------------------------------------------------------------------
(* The bytes of a set of messages.  MapThenSumSet takes them away one by one; *)
(* that this counts them all is shown by looking at a smallest exception.     *)

\* The messages the client may send.
Outgoing == 1..MaxOut

\* Their size together: byte_count is to be that of the buffered ones.
Bytes(S) == MapThenSumSet(LAMBDA m : Size[m], S)

\* The message MapThenSumSet takes first, and those it leaves.
One(s) == CHOOSE x \in s : TRUE
Others(s) == s \ {One(s)}

\* g counts the bytes of the subsets of S the way MapThenSumSet does.
Counts(g, S) == g = [s \in SUBSET S |-> IF s = {} THEN 0 ELSE Size[One(s)] + g[Others(s)]]

\* What MapThenSumSet is.
LEMMA BytesAre == ASSUME NEW S PROVE Bytes(S) = (CHOOSE g : Counts(g, S))[S]
BY Zenon DEF Bytes, MapThenSumSet, MapThenFoldSet, Counts, One, Others

\* Among sets of messages there is a smallest one.
LEMMA SmallestSet ==
    ASSUME NEW T \in SUBSET (SUBSET Outgoing), T # {}
    PROVE  \E s \in T : \A t \in T : t \subseteq s => t = s
<1>1. IsFiniteSet(Outgoing)
  BY ReconnectAssumption, FS_Interval, SMTT(30) DEF Outgoing
<1>2. IsWellFoundedOn(StrictSubsetOrdering(Outgoing), SUBSET Outgoing)
  BY <1>1, FS_StrictSubsetOrderingWellFounded, FS_FiniteSubsetsOfFinite, ZenonT(30)
<1>3. PICK s \in T : \A t \in T : ~(<<t, s>> \in StrictSubsetOrdering(Outgoing))
  BY <1>2, WFMin, ZenonT(30)
<1>4. \A t \in T : t \subseteq s => t = s
  <2> SUFFICES ASSUME NEW t \in T, t \subseteq s, t # s PROVE FALSE
    BY Zenon
  <2>1. <<t, s>> \in StrictSubsetOrdering(Outgoing)
    BY DEF StrictSubsetOrdering
  <2> QED
    BY <2>1, <1>3, ZenonT(30)
<1> QED
  BY <1>4, ZenonT(30)

\* Taking one message out of a set.
LEMMA OthersFacts ==
    ASSUME NEW s \in SUBSET Outgoing, s # {}
    PROVE  /\ One(s) \in s /\ Size[One(s)] \in Nat
           /\ Others(s) \in SUBSET Outgoing /\ Others(s) \subseteq s /\ Others(s) # s
<1>1. One(s) \in s
  BY Zenon DEF One
<1>2. Size[One(s)] \in Nat
  BY <1>1, ReconnectAssumption, Zenon DEF Outgoing
<1> QED
  BY <1>1, <1>2, Zenon DEF Others

\* Two counts agree on the sets both know.
LEMMA CountsAgree ==
    ASSUME NEW S \in SUBSET Outgoing, NEW T \in SUBSET Outgoing,
           NEW g, NEW h, Counts(g, S), Counts(h, T)
    PROVE  \A s \in SUBSET Outgoing : s \subseteq S /\ s \subseteq T => g[s] = h[s]
<1> DEFINE Bad == {s \in SUBSET Outgoing : s \subseteq S /\ s \subseteq T /\ g[s] # h[s]}
<1> SUFFICES ASSUME Bad # {} PROVE FALSE
  BY Zenon
<1>0. Bad \in SUBSET (SUBSET Outgoing)
  OBVIOUS
<1>1. PICK s \in Bad : \A t \in Bad : t \subseteq s => t = s
  BY <1>0, SmallestSet, ZenonT(30)
<1>2. /\ g[s] = IF s = {} THEN 0 ELSE Size[One(s)] + g[Others(s)]
      /\ h[s] = IF s = {} THEN 0 ELSE Size[One(s)] + h[Others(s)]
  BY <1>1, Zenon DEF Counts
<1>3. s # {}
  BY <1>1, <1>2, ZenonT(30)
<1>4. /\ Others(s) \in SUBSET Outgoing /\ Others(s) \subseteq s /\ Others(s) # s
  BY <1>1, <1>3, OthersFacts, ZenonT(30)
<1>5. g[Others(s)] = h[Others(s)]
  BY <1>1, <1>4, ZenonT(30)
<1> QED
  BY <1>1, <1>2, <1>3, <1>5, ZenonT(30)

\* Every set of messages has a count.
LEMMA CountsExist == \A S \in SUBSET Outgoing : \E g : Counts(g, S)
<1> DEFINE Bad == {S \in SUBSET Outgoing : ~\E g : Counts(g, S)}
<1> SUFFICES ASSUME Bad # {} PROVE FALSE
  BY Zenon
<1>0. Bad \in SUBSET (SUBSET Outgoing)
  OBVIOUS
<1>1. PICK S \in Bad : \A t \in Bad : t \subseteq S => t = S
  BY <1>0, SmallestSet, ZenonT(30)
<1> DEFINE G(t) == CHOOSE g : Counts(g, t)
           value(t) == IF t = {} THEN 0 ELSE Size[One(t)] + G(Others(t))[Others(t)]
           f == [t \in SUBSET S |-> value(t)]
<1>2. ASSUME NEW t \in SUBSET Outgoing, t \subseteq S, t # S PROVE Counts(G(t), t)
  <2>1. \E g : Counts(g, t)
    BY <1>1, <1>2, ZenonT(30)
  <2> QED
    BY <2>1, Zenon
<1>3. ASSUME NEW r \in SUBSET Outgoing, r \subseteq S, r # S PROVE value(r) = G(r)[r]
  <2>1. Counts(G(r), r)
    BY <1>2, <1>3, ZenonT(30)
  <2> HIDE DEF G
  <2>2. G(r)[r] = IF r = {} THEN 0 ELSE Size[One(r)] + G(r)[Others(r)]
    BY <2>1, Zenon DEF Counts
  <2>3. CASE r = {}
    BY <2>2, <2>3, ZenonT(30)
  <2>4. CASE r # {}
    <3>1. Others(r) \in SUBSET Outgoing /\ Others(r) \subseteq r /\ Others(r) # r
      BY <2>4, OthersFacts, ZenonT(30)
    <3>2. Others(r) \subseteq S /\ Others(r) # S
      BY <3>1, <1>3, SMTT(30)
    <3>3. Counts(G(Others(r)), Others(r))
      BY <3>1, <3>2, <1>2, ZenonT(30)
    <3>4. G(r)[Others(r)] = G(Others(r))[Others(r)]
      BY <3>1, <3>3, <2>1, CountsAgree, SMTT(30)
    <3> QED
      BY <2>2, <2>4, <3>4, ZenonT(30)
  <2> QED
    BY <2>3, <2>4, ZenonT(30)
<1> HIDE DEF G
<1>4. ASSUME NEW t \in SUBSET S PROVE f[t] = IF t = {} THEN 0 ELSE Size[One(t)] + f[Others(t)]
  <2>1. CASE t = {}
    BY <2>1, Zenon
  <2>2. CASE t # {}
    <3>1. t \in SUBSET Outgoing
      BY <1>1, SMTT(30)
    <3>2. Others(t) \in SUBSET Outgoing /\ Others(t) \subseteq t /\ Others(t) # t
      BY <2>2, <3>1, OthersFacts, ZenonT(30)
    <3>3. Others(t) \in SUBSET S /\ Others(t) # S
      BY <3>2, SMTT(30)
    <3>4. value(Others(t)) = G(Others(t))[Others(t)]
      BY <3>2, <3>3, <1>3, ZenonT(30)
    <3>5. f[t] = value(t) /\ f[Others(t)] = value(Others(t))
      BY <3>3, ZenonT(30)
    <3> QED
      BY <2>2, <3>4, <3>5, ZenonT(30)
  <2> QED
    BY <2>1, <2>2, ZenonT(30)
<1>5. Counts(f, S)
  <2> DEFINE e == [t \in SUBSET S |-> IF t = {} THEN 0 ELSE Size[One(t)] + f[Others(t)]]
  <2>1. \A t \in SUBSET S : f[t] = e[t]
    BY <1>4, Zenon
  <2>2. f = e
    BY <2>1, ZenonT(30)
  <2> QED
    BY <2>2, ZenonT(30) DEF Counts
<1> QED
  BY <1>1, <1>5, ZenonT(30)

\* So the bytes of a set are those of one of its messages and of the others.
LEMMA BytesOne ==
    ASSUME NEW S \in SUBSET Outgoing
    PROVE  Bytes(S) = IF S = {} THEN 0 ELSE Size[One(S)] + Bytes(Others(S))
<1> DEFINE G(t) == CHOOSE g : Counts(g, t)
<1>1. ASSUME NEW t \in SUBSET Outgoing PROVE Counts(G(t), t) /\ Bytes(t) = G(t)[t]
  <2>1. \E g : Counts(g, t)
    BY CountsExist, Zenon
  <2> QED
    BY <2>1, BytesAre, ZenonT(30)
<1> HIDE DEF G
<1>2. Bytes(S) = G(S)[S] /\ Counts(G(S), S)
  BY <1>1, Zenon
<1>3. G(S)[S] = IF S = {} THEN 0 ELSE Size[One(S)] + G(S)[Others(S)]
  BY <1>2, Zenon DEF Counts
<1>4. CASE S = {}
  BY <1>2, <1>3, <1>4, ZenonT(30)
<1>5. CASE S # {}
  <2>1. Others(S) \in SUBSET Outgoing /\ Others(S) \subseteq S
    BY <1>5, OthersFacts, ZenonT(30)
  <2>2. Bytes(Others(S)) = G(Others(S))[Others(S)] /\ Counts(G(Others(S)), Others(S))
    BY <2>1, <1>1, ZenonT(30)
  <2>3. G(S)[Others(S)] = G(Others(S))[Others(S)]
    BY <2>1, <2>2, <1>2, CountsAgree, SMTT(30)
  <2> QED
    BY <1>2, <1>3, <1>5, <2>2, <2>3, ZenonT(30)
<1> QED
  BY <1>4, <1>5, ZenonT(30)

\* The bytes of a set are a number.
LEMMA BytesNat == \A S \in SUBSET Outgoing : Bytes(S) \in Nat
<1> DEFINE Bad == {S \in SUBSET Outgoing : Bytes(S) \notin Nat}
<1> SUFFICES ASSUME Bad # {} PROVE FALSE
  BY Zenon
<1>0. Bad \in SUBSET (SUBSET Outgoing)
  OBVIOUS
<1>1. PICK S \in Bad : \A t \in Bad : t \subseteq S => t = S
  BY <1>0, SmallestSet, ZenonT(30)
<1>2. Bytes(S) = IF S = {} THEN 0 ELSE Size[One(S)] + Bytes(Others(S))
  BY <1>1, BytesOne, ZenonT(30)
<1>3. S # {}
  BY <1>1, <1>2, SMTT(30)
<1>4. Size[One(S)] \in Nat /\ Bytes(Others(S)) \in Nat
  BY <1>1, <1>3, OthersFacts, ZenonT(30)
<1> HIDE DEF Bytes
<1>5. Bytes(S) \in Nat
  BY <1>2, <1>3, <1>4, SMTT(30)
<1> QED
  BY <1>1, <1>5, ZenonT(30)

\* One more message adds its size.
LEMMA BytesAdd == \A S \in SUBSET Outgoing : \A m \in Outgoing \ S : Bytes(S \cup {m}) = Bytes(S) + Size[m]
<1> DEFINE Bad == {S \in SUBSET Outgoing : ~\A m \in Outgoing \ S : Bytes(S \cup {m}) = Bytes(S) + Size[m]}
<1> SUFFICES ASSUME Bad # {} PROVE FALSE
  BY Zenon
<1>0. Bad \in SUBSET (SUBSET Outgoing)
  OBVIOUS
<1>1. PICK S \in Bad : \A t \in Bad : t \subseteq S => t = S
  BY <1>0, SmallestSet, ZenonT(30)
<1>2. PICK m \in Outgoing \ S : Bytes(S \cup {m}) # Bytes(S) + Size[m]
  BY <1>1, ZenonT(30)
<1> DEFINE U == S \cup {m}
           x == One(U)
           R == S \ {x}
<1>3. /\ U \in SUBSET Outgoing /\ U # {} /\ m \notin S /\ m \in Outgoing
      /\ S \in SUBSET Outgoing
  BY <1>1, <1>2, SMTT(30)
<1>4. x \in U /\ Size[x] \in Nat /\ Bytes(U) = Size[x] + Bytes(U \ {x})
  BY <1>3, OthersFacts, BytesOne, ZenonT(30) DEF Others
<1>5. Bytes(S) \in Nat /\ Size[m] \in Nat
  BY <1>3, BytesNat, ReconnectAssumption, SMTT(30) DEF Outgoing
<1> HIDE DEF x
<1>6. CASE x = m
  <2>1. U \ {x} = S
    BY <1>6, <1>3, SMTT(30)
  <2> HIDE DEF U, R
  <2>2. Bytes(U) = Size[m] + Bytes(S)
    BY <1>4, <1>6, <2>1, ZenonT(30)
  <2>3. Bytes(U) = Bytes(S) + Size[m]
    BY <2>2, <1>5, SMTT(30)
  <2> QED
    BY <2>3, <1>2, ZenonT(30) DEF U
<1>7. CASE x # m
  <2>1. /\ x \in S /\ R \in SUBSET Outgoing /\ R \subseteq S /\ R # S /\ m \in Outgoing \ R /\ x \in Outgoing \ R
        /\ U \ {x} = R \cup {m} /\ S = R \cup {x}
    BY <1>3, <1>4, <1>7, SMTT(30)
  <2>2. R \notin Bad
    BY <1>1, <2>1, ZenonT(30)
  <2> HIDE DEF R, U
  <2>3. Bytes(R \cup {m}) = Bytes(R) + Size[m] /\ Bytes(R \cup {x}) = Bytes(R) + Size[x]
    BY <2>1, <2>2, ZenonT(30)
  <2>4. Bytes(U) = Size[x] + Bytes(R \cup {m}) /\ Bytes(S) = Bytes(R \cup {x}) /\ Bytes(R) \in Nat
    BY <1>4, <2>1, BytesNat, ZenonT(30)
  <2>5. Bytes(U) = Bytes(S) + Size[m]
    BY <2>3, <2>4, <1>4, <1>5, SMTT(30)
  <2> QED
    BY <2>5, <1>2, Zenon DEF U
<1> QED
  BY <1>6, <1>7, ZenonT(30)

\* What ack() takes away and what it leaves make up the whole.
LEMMA BytesSplit == \A S \in SUBSET Outgoing : \A A \in SUBSET S : Bytes(S) = Bytes(S \ A) + Bytes(A)
<1> SUFFICES ASSUME NEW S \in SUBSET Outgoing PROVE \A A \in SUBSET S : Bytes(S) = Bytes(S \ A) + Bytes(A)
  BY Zenon
<1> DEFINE Bad == {A \in SUBSET S : Bytes(S) # Bytes(S \ A) + Bytes(A)}
<1> SUFFICES ASSUME Bad # {} PROVE FALSE
  BY ZenonT(30)
<1>0. Bad \in SUBSET (SUBSET Outgoing)
  OBVIOUS
<1>1. PICK A \in Bad : \A t \in Bad : t \subseteq A => t = A
  BY <1>0, SmallestSet, ZenonT(30)
<1>2. A \in SUBSET S /\ A \in SUBSET Outgoing /\ S \ A \in SUBSET Outgoing
  BY <1>1, SMTT(30)
<1>3. Bytes(A) = IF A = {} THEN 0 ELSE Size[One(A)] + Bytes(Others(A))
  BY <1>2, BytesOne, ZenonT(30)
<1>4. CASE A = {}
  <2>1. S \ A = S
    BY <1>4, SMTT(30)
  <2>2. Bytes(S) \in Nat /\ Bytes(A) = 0
    BY <1>3, <1>4, BytesNat, ZenonT(30)
  <2>3. Bytes(S) = Bytes(S \ A) + Bytes(A)
    BY <2>1, <2>2, SMTT(30)
  <2> QED
    BY <2>3, <1>1, ZenonT(30)
<1>5. CASE A # {}
  <2> DEFINE x == One(A)
             R == Others(A)
  <2>1. x \in A /\ Size[x] \in Nat /\ R \in SUBSET Outgoing /\ R \subseteq A /\ R # A
    BY <1>2, <1>5, OthersFacts, ZenonT(30)
  <2>2. R = A \ {x}
    BY ZenonT(30) DEF Others
  <2> HIDE DEF x, R
  <2>3. S \ R = (S \ A) \cup {x} /\ x \in Outgoing \ (S \ A) /\ R \in SUBSET S
    BY <2>1, <2>2, <1>2, SMTT(30)
  <2>4. Bytes(S) = Bytes(S \ R) + Bytes(R)
    BY <1>1, <2>1, <2>3, ZenonT(30)
  <2>5. Bytes(S \ R) = Bytes(S \ A) + Size[x]
    BY <2>3, <1>2, BytesAdd, ZenonT(30)
  <2>6. Bytes(A) = Size[x] + Bytes(R)
    BY <1>3, <1>5, ZenonT(30) DEF x, R
  <2>7. Bytes(S \ A) \in Nat /\ Bytes(R) \in Nat
    BY <1>2, <2>1, BytesNat, ZenonT(30)
  <2>8. Bytes(S) = Bytes(S \ A) + Bytes(A)
    BY <2>1, <2>4, <2>5, <2>6, <2>7, SMTT(30)
  <2> QED
    BY <2>8, <1>1, Zenon
<1> QED
  BY <1>4, <1>5, ZenonT(30)

-----------------------------------------------------------------------------
(* The bytes counted, and the callers held back *)

\* The buffer holds messages that were sent, byte_count is their size, and callers are
\* held back only by messages in it and while it is full.
CountInv ==
    /\ total \in 0..MaxOut
    /\ messages \subseteq 1..total
    /\ BytesExact
    /\ HeldOnlyWhenFull

\* A message is buffered: its size is added, and its caller waits if that fills the
\* buffer.
LEMMA CountSendBuffer == ASSUME CountInv, NEW s \in Senders, SendBuffer(s) PROVE CountInv'
<1> DEFINE m == total + 1
<1>1. /\ messages' = messages \cup {m} /\ total' = m /\ byte_count' = byte_count + Size[m]
      /\ room' = IF byte_count' >= BufferSize THEN room \cup {m} ELSE room
      /\ total < MaxOut
  BY ZenonT(30) DEF SendBuffer
<1>2. /\ messages \in SUBSET Outgoing /\ m \in Outgoing \ messages /\ total' \in 0..MaxOut
      /\ messages' \subseteq 1..total'
  BY <1>1, ReconnectAssumption, SMTT(30) DEF CountInv, Outgoing
<1> HIDE DEF m
<1>3. Bytes(messages') = Bytes(messages) + Size[m] /\ byte_count = Bytes(messages) /\ Bytes(messages) \in Nat
  BY <1>1, <1>2, BytesAdd, BytesNat, ZenonT(30) DEF CountInv, BytesExact, Bytes
<1>4. byte_count' = Bytes(messages')
  BY <1>1, <1>3, ZenonT(30)
<1>5. Size[m] \in Nat /\ byte_count \in Nat /\ BufferSize \in Nat
  BY <1>2, <1>3, ReconnectAssumption, ZenonT(30) DEF Outgoing
<1>6. HeldOnlyWhenFull'
  <2>1. room # {} => byte_count' >= BufferSize /\ room \subseteq messages'
    BY <1>1, <1>5, SMTT(30) DEF CountInv, HeldOnlyWhenFull
  <2> QED
    BY <1>1, <2>1, SMTT(30) DEF HeldOnlyWhenFull
<1>11. BytesExact'
  BY <1>4, SMTT(30) DEF BytesExact, Bytes, MapThenSumSet, MapThenFoldSet
<1> QED
  BY <1>2, <1>6, <1>11, ZenonT(30) DEF CountInv

\* An Ack takes away the size of what it acknowledges, without saturating; it releases
\* every caller when that makes room, and otherwise those of the acknowledged messages.
LEMMA CountReceiveAck == ASSUME CountInv, ReceiveAck PROVE CountInv'
<1> DEFINE A == AckedBy(Head(down).n)
<1>1. messages' = messages \ A /\ byte_count' = Reduced(A) /\ room' = Released(A) /\ total' = total
  BY Zenon DEF ReceiveAck
<1>2. A \in SUBSET messages
  BY Zenon DEF AckedBy
<1> HIDE DEF A
<1>3. messages \in SUBSET Outgoing /\ A \in SUBSET Outgoing /\ messages \ A \in SUBSET Outgoing
  BY <1>2, ReconnectAssumption, SMTT(30) DEF CountInv, Outgoing
<1>4. /\ byte_count = Bytes(messages) /\ Bytes(messages) = Bytes(messages \ A) + Bytes(A)
      /\ Bytes(messages) \in Nat /\ Bytes(messages \ A) \in Nat /\ Bytes(A) \in Nat
  BY <1>2, <1>3, BytesSplit, BytesNat, ZenonT(30) DEF CountInv, BytesExact, Bytes
<1>5. Reduced(A) = IF Bytes(A) > byte_count THEN 0 ELSE byte_count - Bytes(A)
  BY Zenon DEF Reduced, Bytes
<1>6. Reduced(A) = Bytes(messages \ A)
  BY <1>4, <1>5, SMTT(30)
<1>7. byte_count' = Bytes(messages')
  BY <1>1, <1>6, ZenonT(30)
<1>8. Reduced(A) \in Nat /\ BufferSize \in Nat
  BY <1>4, <1>6, ReconnectAssumption, ZenonT(30)
<1>9. HeldOnlyWhenFull'
  <2>1. CASE Reduced(A) < BufferSize
    BY <2>1, <1>1, ZenonT(30) DEF Released, HeldOnlyWhenFull
  <2>2. CASE ~(Reduced(A) < BufferSize)
    <3>1. room' = room \ A /\ byte_count' >= BufferSize
      BY <2>2, <1>1, <1>8, SMTT(30) DEF Released
    <3>2. room \subseteq messages
      BY DEF CountInv, HeldOnlyWhenFull
    <3> QED
      BY <3>1, <3>2, <1>1, SMTT(30) DEF HeldOnlyWhenFull
  <2> QED
    BY <2>1, <2>2, Zenon
<1>10. messages' \subseteq 1..total' /\ total' \in 0..MaxOut
  BY <1>1, ZenonT(30) DEF CountInv
<1>11. BytesExact'
  BY <1>7, SMTT(30) DEF BytesExact, Bytes, MapThenSumSet, MapThenFoldSet
<1> QED
  BY <1>9, <1>10, <1>11, ZenonT(30) DEF CountInv

\* The other steps leave the buffer alone.
LEMMA CountAside ==
    ASSUME [Next]_vars
    PROVE  (\E s \in Senders : SendBuffer(s)) \/ ReceiveAck \/ UNCHANGED outVars
<1> USE DEF ackVars, inVars, senderVars, resumeVars, linkVars, serverVars, clientVars
<1>1. CASE \/ \E s \in Senders : SendTransmit(s) \/ SendReturn(s)
           \/ ReceiveIgnored \/ ReceiveMessage \/ ReceiveSequence \/ AckTimer \/ AckDone
  BY <1>1, ZenonT(30) DEF SendTransmit, SendReturn, ReceiveIgnored, ReceiveMessage, ReceiveSequence,
                          AckTimer, AckDone
<1>2. CASE Resume \/ Awaited
  BY <1>2, ZenonT(30) DEF Resume, Awaited, TransportClosed, AbortOld, Reopen, ReopenFails, LockRuntime,
                          ResendSequence, ResendItem, ResendDone, ResendFails
<1>3. CASE Drop \/ Server \/ ServerSend \/ ServerAck
  BY <1>3, ZenonT(30) DEF Drop, Server, ServerIgnores, ServerReceive, ServerReceiveSequence,
                          ServerReceiveAck, ServerSend, ServerAck
<1>4. CASE UNCHANGED vars
  BY <1>4, Zenon DEF vars
<1> QED
  BY <1>1, <1>2, <1>3, <1>4, ZenonT(30) DEF Next, Receive

\* Every step keeps it.
LEMMA CountStep == ASSUME CountInv, [Next]_vars PROVE CountInv'
<1>1. ASSUME UNCHANGED outVars PROVE CountInv'
  <2>1. messages' = messages /\ total' = total /\ byte_count' = byte_count /\ room' = room
    BY <1>1, Zenon DEF outVars
  <2>2. BytesExact'
    BY <2>1 DEF CountInv, BytesExact, MapThenSumSet, MapThenFoldSet
  <2> QED
    BY <2>1, <2>2, Zenon DEF CountInv, HeldOnlyWhenFull
<1> QED
  BY <1>1, CountAside, CountSendBuffer, CountReceiveAck, ZenonT(30)

\* It holds when the handshake is complete.
LEMMA CountInit == Init => CountInv
<1> SUFFICES ASSUME Init PROVE CountInv
  BY Zenon
<1>1. messages = {} /\ total = 0 /\ byte_count = 0 /\ room = {}
  BY Zenon DEF Init
<1>2. total \in 0..MaxOut /\ messages \subseteq 1..total
  BY <1>1, ReconnectAssumption, SMTT(30)
<1>3. Bytes({}) = 0
  BY BytesOne, Zenon
<1> QED
  BY <1>1, <1>2, <1>3, ZenonT(30) DEF CountInv, BytesExact, HeldOnlyWhenFull, Bytes

-----------------------------------------------------------------------------
(* The theorems *)

\* A connection that has just completed its handshake.
LEMMA BufferInit == Init => OnceInv /\ AckInv /\ BufInv
<1> SUFFICES ASSUME Init PROVE OnceInv /\ AckInv /\ BufInv
  BY Zenon
<1>1. /\ up = <<>> /\ down = <<>> /\ messages = {} /\ total = 0 /\ runtime = 0 /\ transport = 0
      /\ supervisor = "watch" /\ \A s \in Senders : pc[s] = "idle"
      /\ s_acked = 0 /\ next_id = 1 /\ s_next = 1 /\ ack_transport = 0 /\ ack_scheduled = FALSE
  BY DEF Init
<1>2. DOMAIN <<>> = {} /\ 0 < 1 /\ 0 <= 0 /\ 0 \in Nat /\ \A k \in Nat : ~(1 <= k /\ k <= 0)
  BY EmptyFacts, SMTT(30)
<1>3. OnceInv
  BY <1>1, <1>2, SMTT(30) DEF OnceInv
<1>4. AckInv
  BY <1>1, <1>2, SMTT(30) DEF AckInv, HasSequence
<1>5. BufInv
  BY <1>1, <1>2, SMTT(30) DEF BufInv, HoldsFrom
<1> QED
  BY <1>3, <1>4, <1>5, SMTT(30)

\* Whatever is dropped, resent, acknowledged late or answered past the buffer, and
\* however many callers there are: reset_sequence() never refuses a Sequence, nor
\* does the server, so that no connection goes deaf by it.
THEOREM SequencesAccepted == Spec => []SequenceAccepted
<1>1. TypeOK /\ DownInv /\ AckInv /\ BufInv => SequenceAccepted
  <2> SUFFICES ASSUME TypeOK, DownInv, AckInv, BufInv PROVE SequenceAccepted
    BY Zenon
  <2>1. ASSUME NEW i \in DOMAIN down, down[i].kind = "seq" PROVE down[i].n <= next_id
    <3>1. i = 1 /\ s_acked \in Nat /\ next_id \in Nat /\ s_acked < next_id
      BY <2>1, DownFacts, ZenonT(30) DEF AckInv
    <3>2. down # <<>>
      BY <2>1, EmptyFacts, SMTT(30)
    <3>3. down[i].n = s_acked + 1
      BY <2>1, <3>1, <3>2, ZenonT(30) DEF AckInv, HasSequence
    <3> QED
      BY <3>1, <3>3, SMTT(30)
  <2>2. \A i \in DOMAIN up : up[i].kind = "seq" => up[i].n <= s_next
    BY Zenon DEF BufInv
  <2> QED
    BY <2>1, <2>2, ZenonT(30) DEF SequenceAccepted
<1>2. Init => TypeOK /\ DownInv /\ AckInv /\ BufInv
  BY DownInit, BufferInit, Zenon
<1>3. TypeOK /\ DownInv /\ AckInv /\ BufInv /\ [Next]_vars => TypeOK' /\ DownInv' /\ AckInv' /\ BufInv'
  BY DownStep, AckStep, BufStep, ZenonT(30)
<1> QED
  BY <1>1, <1>2, <1>3, PTL DEF Spec

\* A concurrent resend() either includes a message or sees it sent, never both, for
\* any number of callers: no transport carries a message twice.
THEOREM NeverTwice == Spec => []NeverBoth
<1>1. OnceInv => NeverBoth
  BY Zenon DEF OnceInv, NeverBoth, Items
<1>2. Init => TypeOK /\ DownInv /\ OnceInv
  BY DownInit, BufferInit, Zenon
<1>3. TypeOK /\ DownInv /\ OnceInv /\ [Next]_vars => TypeOK' /\ DownInv' /\ OnceInv'
  BY DownStep, OnceStep, Zenon
<1> QED
  BY <1>1, <1>2, <1>3, PTL DEF Spec

\* However many messages are buffered and acknowledged, and in what order, send() and
\* ack() keep buffered_byte_count equal to the size of what is buffered: saturating_sub()
\* never has to saturate.
THEOREM BytesCounted == Spec => []BytesExact
<1>1. CountInv => BytesExact
  BY Zenon DEF CountInv
<1>2. CountInv /\ [Next]_vars => CountInv'
  BY CountStep, ZenonT(30)
<1> QED
  BY <1>1, <1>2, CountInit, PTL DEF Spec

\* For any number of callers and any buffer size, a caller is held back only by a
\* message that is still buffered, and only while the buffer is full: ack() forgets no
\* backpressure sender.
THEOREM HeldWhileFull == Spec => []HeldOnlyWhenFull
<1>1. CountInv => HeldOnlyWhenFull
  BY Zenon DEF CountInv
<1>2. CountInv /\ [Next]_vars => CountInv'
  BY CountStep, Zenon
<1> QED
  BY <1>1, <1>2, CountInit, PTL DEF Spec
=============================================================================
