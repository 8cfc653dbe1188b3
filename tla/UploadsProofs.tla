--------------------------- MODULE UploadsProofs ---------------------------
(***************************************************************************)
(* Proofs about Uploads for any number of calls, streams, items and        *)
(* runtimes: the ids of calls and upload streams are their own, and what   *)
(* streams yield is given to connections in order and without a gap.       *)
(***************************************************************************)
EXTENDS Uploads, TLAPS, WellFoundedInduction

\* An id that was taken is one its runtime has counted.
Counted ==
  \A x \in Calls \cup Streams :
    id[x] # NoId => /\ id[x].runtime \in Runtimes
                    /\ id[x].n >= 1
                    /\ id[x].n <= counter[id[x].runtime]

IdInv == TypeOK /\ Counted /\ OwnIds

\* next_invocation_id() gives a call or stream an id nobody else has, and counts it.
LEMMA TakeIdFresh ==
  ASSUME IdInv, NEW x \in Calls \cup Streams, active # 0, TakeId(x),
         UNCHANGED <<of, active, runtimes>>
  PROVE  IdInv'
PROOF
<1> DEFINE new == [runtime |-> active, n |-> counter[active] + 1]
<1>1. active \in Runtimes /\ counter[active] \in Nat
  BY UploadsAssumption DEF IdInv, TypeOK, Runtimes
<1>2. new \in Ids /\ new # NoId
  BY <1>1, UploadsAssumption DEF Ids, NoId, Runtimes
<1>3. TypeOK'
  <2>1. counter' \in [Runtimes -> Nat]
    BY <1>1 DEF TakeId, IdInv, TypeOK
  <2>2. id' \in [Calls \cup Streams -> Ids]
    BY <1>2, Zenon DEF TakeId, IdInv, TypeOK
  <2> QED
    BY <2>1, <2>2, Zenon DEF IdInv, TypeOK
<1>4. id'[x] = new /\ \A y \in (Calls \cup Streams) \ {x} : id'[y] = id[y]
  BY Zenon DEF TakeId, IdInv, TypeOK
<1>5. counter'[active] = counter[active] + 1 /\ \A r \in Runtimes : counter'[r] >= counter[r]
  BY <1>1 DEF TakeId, IdInv, TypeOK
<1>6. Counted'
  <2> SUFFICES ASSUME NEW y \in Calls \cup Streams, id'[y] # NoId
               PROVE  /\ id'[y].runtime \in Runtimes
                      /\ id'[y].n >= 1
                      /\ id'[y].n <= counter'[id'[y].runtime]
    BY Zenon DEF Counted
  <2>1. CASE y = x
    BY <2>1, <1>1, <1>4, <1>5, SMTT(30)
  <2>2. CASE y # x
    <3>1. /\ id[y] \in Ids /\ id[y].runtime \in Runtimes
          /\ id[y].n >= 1 /\ id[y].n <= counter[id[y].runtime]
      BY <2>2, <1>4, Zenon DEF IdInv, TypeOK, Counted
    <3>2. counter[id[y].runtime] \in Nat /\ counter'[id[y].runtime] \in Nat
      BY <3>1, <1>3, Zenon DEF IdInv, TypeOK
    <3>3. id[y].n \in Nat
      BY <3>1, Zenon DEF Ids
    <3> QED
      BY <2>2, <3>1, <3>2, <3>3, <1>4, <1>5, SMTT(30)
  <2> QED
    BY <2>1, <2>2, Zenon
<1>7. OwnIds'
  <2> SUFFICES ASSUME NEW y \in Calls \cup Streams, NEW z \in Calls \cup Streams,
                      id'[y] = id'[z], id'[y] # NoId
               PROVE  y = z
    BY Zenon DEF OwnIds
  <2>1. \A w \in (Calls \cup Streams) \ {x} : id[w] # new
    <3> SUFFICES ASSUME NEW w \in Calls \cup Streams, id[w] = new PROVE FALSE
      BY Zenon
    <3>1. id[w].n <= counter[id[w].runtime]
      BY <1>2, Zenon DEF IdInv, Counted
    <3> QED
      BY <3>1, <1>1
  <2> QED
    BY <2>1, <1>4, Zenon DEF IdInv, OwnIds
<1> QED
  BY <1>3, <1>6, <1>7, Zenon DEF IdInv

\* Steps that take no id keep what holds of the ids.
LEMMA NoIdTaken ==
  ASSUME IdInv, UNCHANGED <<of, counter, id>>, runtimes' \in Runtimes, active' \in 0..runtimes'
  PROVE  IdInv'
PROOF
  BY Zenon DEF IdInv, TypeOK, Counted, OwnIds

\* For every number of calls, streams and runtimes, no two calls or streams ever have
\* the same id of the same runtime: the counter of a runtime is ahead of all its ids.
THEOREM IdsAreOwn == Spec => []OwnIds
PROOF
<1>1. Init => IdInv
  <2> SUFFICES ASSUME Init PROVE IdInv
    BY Zenon
  <2>1. TypeOK
    BY UploadsAssumption DEF Init, TypeOK, Runtimes, NoId, Ids
  <2> QED
    BY <2>1, Zenon DEF Init, IdInv, Counted, OwnIds
<1>2. IdInv /\ [Next]_vars => IdInv'
  <2> SUFFICES ASSUME IdInv, [Next]_vars PROVE IdInv'
    BY Zenon
  <2>0. runtimes \in Runtimes /\ active \in 0..runtimes
    BY Zenon DEF IdInv, TypeOK
  <2>1. ASSUME NEW c \in Calls, TakeStreamId(c) PROVE IdInv'
    <3>1. PICK s \in Streams : TakeId(s)
      BY <2>1, Zenon DEF TakeStreamId, StreamsOf
    <3> QED
      BY <2>1, <3>1, TakeIdFresh, Zenon DEF TakeStreamId
  <2>2. ASSUME NEW c \in Calls, TakeCallId(c) PROVE IdInv'
    <3>1. CASE active = 0
      BY <2>0, <2>2, <3>1, NoIdTaken, Zenon DEF TakeCallId
    <3>2. CASE active # 0
      BY <2>2, <3>2, TakeIdFresh, Zenon DEF TakeCallId
    <3> QED
      BY <3>1, <3>2, Zenon
  <2>3. ASSUME NEW c \in Calls,
               RequireConnected(c) \/ IdsTaken(c) \/ SendCall(c) \/ Launch(c) \/ SendCommand(c) \/ SenderEnds(c)
        PROVE  IdInv'
    <3>1. UNCHANGED <<of, counter, id, runtimes, active>>
      BY <2>3, ZenonT(30) DEF RequireConnected, IdsTaken, SendCall, Launch, SendCommand, SenderEnds
    <3> QED
      BY <2>0, <3>1, NoIdTaken, Zenon
  <2>4. ASSUME NEW s \in Streams, YieldItem(s) \/ YieldEnd(s) PROVE IdInv'
    <3>1. UNCHANGED <<of, counter, id, runtimes, active>>
      BY <2>4, Zenon DEF YieldItem, YieldEnd, Command
    <3> QED
      BY <2>0, <3>1, NoIdTaken, Zenon
  <2>5. CASE \/ Lose \/ BeginResume \/ GiveUp \/ Announce \/ Restored \/ Close \/ UNCHANGED vars
    <3>1. UNCHANGED <<of, counter, id, runtimes, active>>
      BY <2>5, Zenon DEF Lose, BeginResume, GiveUp, Announce, Restored, Close, callVars, vars
    <3> QED
      BY <2>0, <3>1, NoIdTaken, Zenon
  <2>6. CASE Resume \/ Reconnect
    <3>1. NewRuntime /\ UNCHANGED <<of, counter, id>>
      BY <2>6, Zenon DEF Resume, Reconnect, callVars
    <3>2. runtimes' \in Runtimes /\ active' \in 0..runtimes'
      BY <2>0, <3>1, UploadsAssumption, SMTT(30) DEF NewRuntime, Replace, Runtimes
    <3> QED
      BY <3>1, <3>2, NoIdTaken, Zenon
  <2>7. CASE Take \/ Shutdown
    <3>1. active' = 0 /\ UNCHANGED <<of, counter, id, runtimes>>
      BY <2>7, Zenon DEF Take, Shutdown, Replace, callVars
    <3>2. runtimes' \in Runtimes /\ active' \in 0..runtimes'
      BY <2>0, <3>1, UploadsAssumption, SMTT(30) DEF Runtimes
    <3> QED
      BY <3>1, <3>2, NoIdTaken, Zenon
  <2> QED
    BY <2>1, <2>2, <2>3, <2>4, <2>5, <2>6, <2>7, ZenonT(30) DEF Next
<1>3. IdInv => OwnIds
  BY Zenon DEF IdInv
<1> QED
  BY <1>1, <1>2, <1>3, PTL DEF Spec

-----------------------------------------------------------------------------
(* What is of a stream among the entries of a channel.  From reads them one *)
(* by one; what it returns is shown by looking at a smallest exception.     *)

\* What calls and streams send, and the entries they send it in.
What == {<<"call">>, End} \cup {Item(n) : n \in Nat}
Entry == [from : Calls \cup Streams, what : What]

\* What an entry adds to what is of s, at the end and at the beginning.
Add(own, e, s) == IF e.from = s THEN Append(own, e.what) ELSE own
Own(e, s) == IF e.from = s THEN <<e.what>> ELSE <<>>

\* g is what From reads in the first n entries.
Reads(g, n, entries, s) ==
  g = [i \in 0..n |->
         IF i = 0 THEN <<>>
         ELSE IF entries[i].from = s THEN Append(g[i - 1], entries[i].what)
         ELSE g[i - 1]]

\* The same, entry by entry.
Follows(g, n, entries, s) ==
  g[0] = <<>> /\ \A i \in 1..n : g[i] = Add(g[i - 1], entries[i], s)

\* What From is.
LEMMA FromIs == ASSUME NEW q, NEW s PROVE From(q, s) = (CHOOSE g : Reads(g, Len(q), q, s))[Len(q)]
BY Zenon DEF From, Reads

\* Among numbers there is a smallest one.
LEMMA Smallest ==
  ASSUME NEW S \in SUBSET Nat, S # {}
  PROVE  \E x \in S : \A y \in S : x <= y
<1> DEFINE R == OpToRel(<, Nat)
<1>1. IsWellFoundedOn(R, Nat)
  BY NatLessThanWellFounded, Zenon
<1>2. \A a, b \in Nat : ~(<<b, a>> \in R) => a <= b
  BY DEF OpToRel
<1> HIDE DEF R
<1>3. PICK x \in S : \A y \in S : ~(<<y, x>> \in R)
  BY <1>1, WFMin, Zenon
<1>4. \A y \in S : x <= y
  BY <1>2, <1>3, Zenon
<1> QED
  BY <1>4, Zenon

\* One entry after the other.
LEMMA ReadsOne ==
  ASSUME NEW q, NEW s, NEW n \in Nat, NEW g, Reads(g, n, q, s)
  PROVE  Follows(g, n, q, s)
<1>1. \A i \in 0..n : g[i] = IF i = 0 THEN <<>> ELSE Add(g[i - 1], q[i], s)
  BY Zenon DEF Reads, Add
<1>2. 0 \in 0..n /\ \A i \in 1..n : i \in 0..n /\ i # 0
  OBVIOUS
<1> QED
  BY <1>1, <1>2, Zenon DEF Follows

\* What is read in the first n entries depends on nothing else.
LEMMA ReadsAgree ==
  ASSUME NEW q, NEW s, NEW n \in Nat, NEW g, NEW h,
         Follows(g, n, q, s), Follows(h, n, q, s)
  PROVE  g[n] = h[n]
<1> DEFINE Bad == {j \in 0..n : g[j] # h[j]}
<1> SUFFICES ASSUME Bad # {} PROVE FALSE
  <2>1. n \in 0..n
    OBVIOUS
  <2> QED
    BY <2>1, Zenon
<1>0. Bad \in SUBSET Nat
  OBVIOUS
<1>1. PICK j \in Bad : \A i \in Bad : j <= i
  BY <1>0, Smallest, Zenon
<1>2. j # 0
  BY <1>1, Zenon DEF Follows
<1>3. j \in 1..n /\ j - 1 \in 0..n /\ ~(j <= j - 1)
  BY <1>1, <1>2
<1>4. g[j - 1] = h[j - 1]
  BY <1>1, <1>3, Zenon
<1>5. g[j] = Add(g[j - 1], q[j], s) /\ h[j] = Add(h[j - 1], q[j], s)
  BY <1>3, Zenon DEF Follows
<1>6. g[j] = h[j]
  BY <1>4, <1>5, Zenon
<1> QED
  BY <1>1, <1>6, Zenon

\* Any number of entries can be read.
LEMMA ReadsExist == ASSUME NEW q, NEW s PROVE \A n \in Nat : \E g : Reads(g, n, q, s)
<1> DEFINE Bad == {n \in Nat : ~\E g : Reads(g, n, q, s)}
<1> SUFFICES ASSUME Bad # {} PROVE FALSE
  BY Zenon
<1>0. Bad \in SUBSET Nat
  OBVIOUS
<1>1. PICK n \in Bad : \A i \in Bad : n <= i
  BY <1>0, Smallest, Zenon
<1>2. CASE n = 0
  <2> DEFINE g == [i \in 0..0 |-> <<>>]
  <2>1. \A i \in 0..0 : i = 0
    OBVIOUS
  <2>2. Reads(g, 0, q, s)
    BY <2>1, Zenon DEF Reads
  <2> QED
    BY <1>1, <1>2, <2>2, Zenon
<1>3. CASE n # 0
  <2>1. n - 1 \in Nat /\ ~(n <= n - 1) /\ n \in Nat
    BY <1>1, <1>3
  <2>2. PICK g : Reads(g, n - 1, q, s)
    BY <1>1, <2>1, Zenon
  <2> DEFINE h == [i \in 0..n |-> IF i = n THEN Add(g[n - 1], q[n], s) ELSE g[i]]
             e == [i \in 0..n |-> IF i = 0 THEN <<>>
                                  ELSE IF q[i].from = s THEN Append(h[i - 1], q[i].what)
                                  ELSE h[i - 1]]
  <2>3. g[0] = <<>> /\ \A i \in 1..n - 1 : g[i] = Add(g[i - 1], q[i], s)
    BY <2>1, <2>2, ReadsOne, ZenonT(30) DEF Follows
  <2>4. ASSUME NEW i \in 0..n PROVE h[i] = e[i]
    <3>1. CASE i = 0
      BY <3>1, <1>3, <2>3, Zenon
    <3>2. CASE i # 0
      <4>1. i - 1 \in 0..n /\ i - 1 # n /\ (i # n => i \in 1..n - 1)
        BY <2>1, <3>2
      <4>2. h[i - 1] = g[i - 1]
        BY <4>1, Zenon
      <4>3. h[i] = Add(g[i - 1], q[i], s)
        BY <4>1, <2>3, Zenon
      <4>4. e[i] = Add(h[i - 1], q[i], s)
        BY <3>2, Zenon DEF Add
      <4> QED
        BY <4>2, <4>3, <4>4, Zenon
    <3> QED
      BY <3>1, <3>2, Zenon
  <2>5. h = e
    BY <2>4, Zenon
  <2>6. Reads(h, n, q, s)
    BY <2>5, Zenon DEF Reads
  <2> QED
    BY <1>1, <2>6, Zenon
<1> QED
  BY <1>2, <1>3, Zenon

\* The entries a channel is made of.
LEMMA EntryFacts ==
  ASSUME NEW q \in Seq(Entry)
  PROVE  /\ Len(q) \in Nat /\ \A i \in 1..Len(q) : q[i] \in Entry /\ q[i].what \in What
         /\ \A e \in Entry : /\ Append(q, e) \in Seq(Entry) /\ Len(Append(q, e)) = Len(q) + 1
                             /\ Append(q, e)[Len(q) + 1] = e /\ \A i \in 1..Len(q) : Append(q, e)[i] = q[i]
         /\ q # <<>> => /\ Tail(q) \in Seq(Entry) /\ Len(q) = Len(Tail(q)) + 1 /\ Len(Tail(q)) \in Nat
                        /\ Head(q) = q[1] /\ Head(q) \in Entry
                        /\ \A i \in 1..Len(Tail(q)) : Tail(q)[i] = q[i + 1]
<1>1. Len(q) \in Nat /\ \A i \in 1..Len(q) : q[i] \in Entry
  OBVIOUS
<1>2. \A i \in 1..Len(q) : q[i].what \in What
  BY <1>1, Zenon DEF Entry
<1>3. \A e \in Entry : /\ Append(q, e) \in Seq(Entry) /\ Len(Append(q, e)) = Len(q) + 1
                       /\ Append(q, e)[Len(q) + 1] = e /\ \A i \in 1..Len(q) : Append(q, e)[i] = q[i]
  OBVIOUS
<1>4. q # <<>> => /\ Tail(q) \in Seq(Entry) /\ Len(q) = Len(Tail(q)) + 1 /\ Len(Tail(q)) \in Nat
                  /\ Head(q) = q[1] /\ Head(q) \in Entry
                  /\ \A i \in 1..Len(Tail(q)) : Tail(q)[i] = q[i + 1]
  OBVIOUS
<1> QED
  BY <1>1, <1>2, <1>3, <1>4, Zenon

\* How sequences are put together.
LEMMA AppendOut ==
  ASSUME NEW a \in Seq(What), NEW b \in Seq(What), NEW x \in What
  PROVE  Append(a \o b, x) = a \o Append(b, x)
OBVIOUS

\* What From reads, from the first entry to the last.
LEMMA FromReads ==
  ASSUME NEW q \in Seq(Entry), NEW s
  PROVE  \E g : Follows(g, Len(q), q, s) /\ From(q, s) = g[Len(q)]
<1>1. Len(q) \in Nat
  BY EntryFacts, Zenon
<1>2. \E g : Reads(g, Len(q), q, s)
  BY <1>1, ReadsExist, Zenon
<1> DEFINE g == CHOOSE g : Reads(g, Len(q), q, s)
<1>3. Reads(g, Len(q), q, s) /\ From(q, s) = g[Len(q)]
  BY <1>2, FromIs, Zenon
<1> HIDE DEF g
<1>4. Follows(g, Len(q), q, s)
  BY <1>1, <1>3, ReadsOne, Zenon
<1> QED
  BY <1>3, <1>4, Zenon

\* It is a sequence of what streams yield.
LEMMA FromType == ASSUME NEW q \in Seq(Entry), NEW s PROVE From(q, s) \in Seq(What)
<1>1. PICK g : Follows(g, Len(q), q, s) /\ From(q, s) = g[Len(q)]
  BY FromReads, Zenon
<1> DEFINE Bad == {j \in 0..Len(q) : g[j] \notin Seq(What)}
<1> SUFFICES ASSUME Bad # {} PROVE FALSE
  <2>1. Len(q) \in 0..Len(q)
    OBVIOUS
  <2> QED
    BY <1>1, <2>1, Zenon
<1>0. Bad \in SUBSET Nat
  OBVIOUS
<1>2. PICK j \in Bad : \A i \in Bad : j <= i
  BY <1>0, Smallest, Zenon
<1>3. j # 0
  <2>1. <<>> \in Seq(What)
    OBVIOUS
  <2> QED
    BY <1>1, <1>2, <2>1, Zenon DEF Follows
<1>4. j \in 1..Len(q) /\ j - 1 \in 0..Len(q) /\ ~(j <= j - 1)
  BY <1>2, <1>3
<1>5. g[j - 1] \in Seq(What)
  BY <1>2, <1>4, Zenon
<1>6. q[j].what \in What
  BY <1>4, EntryFacts, Zenon
<1>7. Append(g[j - 1], q[j].what) \in Seq(What)
  BY <1>5, <1>6
<1>8. g[j] \in Seq(What)
  BY <1>1, <1>4, <1>5, <1>7, Zenon DEF Add, Follows
<1> QED
  BY <1>2, <1>8, Zenon

\* Nothing is read in an empty channel; an entry that is written is read last.
LEMMA FromWritten ==
  ASSUME NEW q \in Seq(Entry), NEW e \in Entry, NEW s
  PROVE  From(<<>>, s) = <<>> /\ From(Append(q, e), s) = Add(From(q, s), e, s)
<1>1. From(<<>>, s) = <<>>
  <2>1. <<>> \in Seq(Entry) /\ Len(<<>>) = 0
    OBVIOUS
  <2> QED
    BY <2>1, FromReads, ZenonT(30) DEF Follows
<1> DEFINE r == Append(q, e)
<1>2. /\ Len(q) \in Nat /\ r \in Seq(Entry) /\ Len(r) = Len(q) + 1 /\ r[Len(q) + 1] = e
      /\ \A i \in 1..Len(q) : r[i] = q[i]
  BY EntryFacts, Zenon
<1> HIDE DEF r
<1>3. PICK g : Follows(g, Len(q), q, s) /\ From(q, s) = g[Len(q)]
  BY FromReads, Zenon
<1>4. PICK h : Follows(h, Len(r), r, s) /\ From(r, s) = h[Len(r)]
  BY <1>2, FromReads, Zenon
<1>5. /\ Len(r) \in 1..Len(r) /\ Len(r) - 1 = Len(q) /\ Len(r) \in Nat
      /\ \A i \in 1..Len(q) : i \in 1..Len(r)
  BY <1>2
<1>6. g[Len(q)] = h[Len(q)]
  <2>1. Follows(h, Len(q), q, s)
    <3>1. ASSUME NEW i \in 1..Len(q) PROVE h[i] = Add(h[i - 1], q[i], s)
      <4>1. h[i] = Add(h[i - 1], r[i], s) /\ r[i] = q[i]
        BY <1>2, <1>4, <1>5, Zenon DEF Follows
      <4> QED
        BY <4>1, Zenon
    <3> QED
      BY <3>1, <1>4, Zenon DEF Follows
  <2> QED
    BY <2>1, <1>2, <1>3, ReadsAgree
<1>7. h[Len(r)] = Add(h[Len(q)], e, s)
  BY <1>2, <1>4, <1>5, Zenon DEF Follows
<1> QED
  BY <1>1, <1>3, <1>4, <1>6, <1>7, Zenon DEF r

\* What is of the first entry comes first.
LEMMA FromTaken ==
  ASSUME NEW q \in Seq(Entry), q # <<>>, NEW s
  PROVE  From(q, s) = Own(Head(q), s) \o From(Tail(q), s)
<1> DEFINE r == Tail(q)
<1>1. /\ r \in Seq(Entry) /\ Len(q) = Len(r) + 1 /\ Len(r) \in Nat /\ Len(q) \in Nat
      /\ Head(q) = q[1] /\ Head(q) \in Entry /\ \A i \in 1..Len(r) : r[i] = q[i + 1]
  BY EntryFacts, Zenon
<1> HIDE DEF r
<1>2. PICK g : Follows(g, Len(q), q, s) /\ From(q, s) = g[Len(q)]
  BY FromReads, Zenon
<1>3. PICK h : Follows(h, Len(r), r, s) /\ From(r, s) = h[Len(r)]
  BY <1>1, FromReads, Zenon
<1> DEFINE o == Own(Head(q), s)
           Good(j) == h[j] \in Seq(What) /\ g[j + 1] = o \o h[j]
           Bad == {j \in 0..Len(r) : ~Good(j)}
<1>4. o \in Seq(What) /\ Head(q).what \in What
  <2>1. Head(q).what \in What
    BY <1>1, Zenon DEF Entry
  <2> QED
    BY <2>1 DEF Own
<1>5. Good(0)
  <2>1. g[1] = Add(<<>>, Head(q), s)
    <3>1. 1 \in 1..Len(q) /\ 1 - 1 = 0
      BY <1>1
    <3> QED
      BY <3>1, <1>1, <1>2, Zenon DEF Follows
  <2>2. Add(<<>>, Head(q), s) = o \o <<>> /\ <<>> \in Seq(What)
    BY <1>4 DEF Add, Own
  <2>3. 0 + 1 = 1
    OBVIOUS
  <2> QED
    BY <2>1, <2>2, <2>3, <1>3, Zenon DEF Follows
<1> HIDE DEF o
<1>6. Bad = {}
  <2> SUFFICES ASSUME Bad # {} PROVE FALSE
    BY Zenon
  <2>0. Bad \in SUBSET Nat
    OBVIOUS
  <2>1. PICK j \in Bad : \A i \in Bad : j <= i
    BY <2>0, Smallest, Zenon
  <2>2. j # 0
    BY <2>1, <1>5, Zenon
  <2>3. j \in 1..Len(r) /\ j - 1 \in 0..Len(r) /\ ~(j <= j - 1) /\ j + 1 \in 1..Len(q) /\ (j - 1) + 1 = j /\ (j + 1) - 1 = j
    BY <2>1, <2>2, <1>1
  <2>4. h[j - 1] \in Seq(What) /\ g[j] = o \o h[j - 1]
    BY <2>1, <2>3, Zenon
  <2>5. h[j] = Add(h[j - 1], r[j], s) /\ g[j + 1] = Add(g[j], q[j + 1], s) /\ q[j + 1] = r[j]
    BY <2>3, <1>1, <1>2, <1>3, Zenon DEF Follows
  <2>6. r[j].what \in What
    BY <2>3, <1>1, EntryFacts, Zenon
  <2>7. Append(h[j - 1], r[j].what) \in Seq(What) /\ Append(o \o h[j - 1], r[j].what) = o \o Append(h[j - 1], r[j].what)
    <3> DEFINE b == h[j - 1]
               x == r[j].what
    <3>1. o \in Seq(What) /\ b \in Seq(What) /\ x \in What
      BY <2>4, <2>6, <1>4, Zenon
    <3> HIDE DEF b, x
    <3>2. Append(b, x) \in Seq(What)
      BY <3>1
    <3>3. Append(o \o b, x) = o \o Append(b, x)
      BY <3>1, AppendOut, Zenon
    <3> QED
      BY <3>2, <3>3, Zenon DEF b, x
  <2>8. Good(j)
    BY <2>4, <2>5, <2>7, Zenon DEF Add
  <2> QED
    BY <2>1, <2>8, Zenon
<1>7. Good(Len(r))
  <2>1. Len(r) \in 0..Len(r)
    BY <1>1
  <2> QED
    BY <2>1, <1>6, Zenon
<1> QED
  BY <1>1, <1>2, <1>3, <1>7, Zenon DEF o, r

\* a is how b begins.
Prefix(a, b) == \E n \in 0..Len(b) : a = SubSeq(b, 1, n)

\* What a stream has yielded goes on when it yields more, and a prefix stays one.
LEMMA PrefixFacts ==
  ASSUME NEW a \in Seq(What), NEW b \in Seq(What), NEW x \in What
  PROVE  Prefix(a, a \o b) /\ (Prefix(a, b) => Prefix(a, Append(b, x)))
<1>1. Prefix(a, a \o b)
  BY DEF Prefix
<1>2. Prefix(a, b) => Prefix(a, Append(b, x))
  BY DEF Prefix
<1> QED
  BY <1>1, <1>2, Zenon

\* What is sent moves from what is left to what went out.
LEMMA MoveOver ==
  ASSUME NEW a \in Seq(What), NEW b \in Seq(What), NEW x \in What
  PROVE  Append(a, x) \o b = a \o (<<x>> \o b)
OBVIOUS

\* The empty sequence on either side.
LEMMA NoneLeft ==
  ASSUME NEW a \in Seq(What)
  PROVE  a \o <<>> = a /\ <<>> \o a = a /\ <<>> \in Seq(What)
OBVIOUS

-----------------------------------------------------------------------------
(* What streams yield, on its way to the connection *)

\* The channel has an entry of x, and every entry of s has one of c before it.
Mentions(w, x) == \E j \in DOMAIN w : w[j].from = x
Announced(w, s, c) == \A i \in DOMAIN w : w[i].from = s => \E j \in 1..i - 1 : w[j].from = c

\* What UploadedInOrder says of the order of what is of s.
Delivered(s) ==
  /\ Prefix(From(wire, s), yielded[s])
  /\ sender[of[s]] # "broken" => From(wire, s) \o From(commands[of[s]], s) = yielded[s]

\* The values of the variables.
SendTypes ==
  /\ of \in [Streams -> Calls]
  /\ pc \in [Calls -> {"idle", "start", "ids", "id", "send", "sent", "launched", "failed"}]
  /\ sender \in [Calls -> {"none", "running", "done", "broken"}]
  /\ task \in [Streams -> {"none", "running", "ended"}]
  /\ commands \in [Calls -> Seq(Entry)]
  /\ yielded \in [Streams -> Seq(What)]
  /\ wire \in Seq(Entry)

\* A call that was sent is on the wire, and only then is its sender launched.  A sender
\* that does not run has nothing to send.
CallInv(c) ==
  /\ pc[c] \in {"sent", "launched"} => Mentions(wire, c)
  /\ sender[c] # "none" => pc[c] = "launched"
  /\ sender[c] # "running" => commands[c] = <<>>
  /\ \A i \in DOMAIN commands[c] : commands[c][i].from \in StreamsOf(c)

\* While the task of a stream runs, its sender does, unless it had to stop.
StreamInv(s) ==
  /\ task[s] = "running" => sender[of[s]] \in {"running", "broken"}
  /\ Delivered(s)
  /\ Announced(wire, s, of[s])

SendInv == SendTypes /\ (\A c \in Calls : CallInv(c)) /\ (\A s \in Streams : StreamInv(s))

\* It says what UploadedInOrder says.
LEMMA SendInvImplies == SendInv => UploadedInOrder
BY Zenon DEF SendInv, StreamInv, Delivered, Announced, Prefix, UploadedInOrder

\* Writing to the channel to the connection.
LEMMA Written ==
  ASSUME NEW w \in Seq(Entry), NEW e \in Entry
  PROVE  /\ Append(w, e) \in Seq(Entry)
         /\ \A x : Mentions(w, x) \/ e.from = x => Mentions(Append(w, e), x)
         /\ \A s, c : Announced(w, s, c) /\ (e.from = s => Mentions(w, c)) => Announced(Append(w, e), s, c)
<1> DEFINE v == Append(w, e)
<1>1. /\ v \in Seq(Entry) /\ DOMAIN w = 1..Len(w) /\ DOMAIN v = 1..(Len(w) + 1) /\ Len(w) \in Nat
      /\ v[Len(w) + 1] = e /\ \A i \in DOMAIN w : v[i] = w[i]
  OBVIOUS
<1> HIDE DEF v
<1>2. ASSUME NEW x, Mentions(w, x) \/ e.from = x PROVE Mentions(v, x)
  <2>1. (\A j \in DOMAIN w : j \in DOMAIN v) /\ Len(w) + 1 \in DOMAIN v
    BY <1>1
  <2> QED
    BY <1>1, <1>2, <2>1, Zenon DEF Mentions
<1>3. ASSUME NEW s, NEW c, Announced(w, s, c), e.from = s => Mentions(w, c) PROVE Announced(v, s, c)
  <2> SUFFICES ASSUME NEW i \in DOMAIN v, v[i].from = s PROVE \E j \in 1..i - 1 : v[j].from = c
    BY Zenon DEF Announced
  <2>1. CASE i \in DOMAIN w
    <3>1. PICK j \in 1..i - 1 : w[j].from = c
      BY <2>1, <1>1, <1>3, Zenon DEF Announced
    <3>2. j \in DOMAIN w
      BY <2>1, <3>1, <1>1
    <3> QED
      BY <3>1, <3>2, <1>1, Zenon
  <2>2. CASE i \notin DOMAIN w
    <3>1. i = Len(w) + 1 /\ 1..i - 1 = DOMAIN w
      BY <2>2, <1>1
    <3>2. PICK j \in DOMAIN w : w[j].from = c
      BY <3>1, <1>1, <1>3, Zenon DEF Mentions
    <3> QED
      BY <3>1, <3>2, <1>1, Zenon
  <2> QED
    BY <2>1, <2>2, Zenon
<1> QED
  BY <1>1, <1>2, <1>3, Zenon DEF v

\* A step of a call before it is sent: nothing is known of it yet.
LEMMA CallStep ==
  ASSUME SendInv, NEW c \in Calls, RequireConnected(c) \/ IdsTaken(c) \/ TakeCallId(c)
  PROVE  SendInv'
<1>1. /\ pc[c] \in {"start", "ids", "id"}
      /\ \E v \in {"ids", "failed", "send", "id"} : pc' = [pc EXCEPT ![c] = v]
      /\ UNCHANGED <<of, task, commands, sender, yielded, wire>>
  BY DEF RequireConnected, IdsTaken, TakeCallId
<1>2. PICK v \in {"ids", "failed", "send", "id"} : pc' = [pc EXCEPT ![c] = v]
  BY <1>1, Zenon
<1>3. pc' \in [Calls -> {"idle", "start", "ids", "id", "send", "sent", "launched", "failed"}]
  BY <1>2 DEF SendInv, SendTypes
<1>4. SendTypes'
  BY <1>1, <1>3, Zenon DEF SendInv, SendTypes
<1>5. ASSUME NEW d \in Calls PROVE CallInv(d)'
  <2>1. CASE d # c
    <3>1. pc'[d] = pc[d]
      BY <1>2, <2>1, Zenon DEF SendInv, SendTypes
    <3> QED
      BY <1>1, <3>1, ZenonT(30) DEF SendInv, CallInv, StreamsOf
  <2>2. CASE d = c
    <3>1. pc'[c] = v /\ v # "sent" /\ v # "launched"
      BY <1>2, Zenon DEF SendInv, SendTypes
    <3>2. sender[c] = "none"
      BY <1>1, Zenon DEF SendInv, CallInv
    <3>3. CallInv(c)
      BY Zenon DEF SendInv
    <3> QED
      BY <1>1, <2>2, <3>1, <3>2, <3>3, Zenon DEF CallInv, StreamsOf
  <2> QED
    BY <2>1, <2>2, Zenon
<1>6. ASSUME NEW s \in Streams PROVE StreamInv(s)'
  <2>1. StreamInv(s)
    BY Zenon DEF SendInv
  <2> QED
    BY <2>1, <1>1, Zenon DEF StreamInv, Delivered
<1> QED
  BY <1>4, <1>5, <1>6, Zenon DEF SendInv

\* What SendOk and SendErr leave on the wire.
LEMMA SendWrites ==
  ASSUME NEW x, NEW what
  PROVE  /\ SendOk(x, what) => wire' = Append(wire, [from |-> x, what |-> what])
         /\ SendErr(x, what) => wire' = wire \/ wire' = Append(wire, [from |-> x, what |-> what])
BY Zenon DEF SendOk, SendErr, Given

\* A call is sent: what is of the streams on the wire stays as it is.
LEMMA SendCallStep ==
  ASSUME SendInv, NEW c \in Calls, SendCall(c)
  PROVE  SendInv'
<1> DEFINE e == [from |-> c, what |-> <<"call">>]
<1>1. /\ \/ wire' = Append(wire, e) /\ pc' = [pc EXCEPT ![c] = "sent"]
         \/ (wire' = wire \/ wire' = Append(wire, e)) /\ pc' = [pc EXCEPT ![c] = "failed"]
      /\ pc[c] = "send" /\ UNCHANGED <<of, task, commands, sender, yielded>>
  BY SendWrites, Zenon DEF SendCall
<1>2. e \in Entry /\ e.from = c /\ wire \in Seq(Entry)
  <2>1. <<"call">> \in What
    BY Zenon DEF What
  <2> QED
    BY <2>1, Zenon DEF Entry, SendInv, SendTypes
<1> HIDE DEF e
<1>3. /\ wire' \in Seq(Entry)
      /\ \A x : Mentions(wire, x) => Mentions(wire', x)
      /\ wire' = Append(wire, e) => Mentions(wire', c)
  <2>1. /\ Append(wire, e) \in Seq(Entry) /\ Mentions(Append(wire, e), c)
        /\ \A x : Mentions(wire, x) => Mentions(Append(wire, e), x)
    BY <1>2, Written, Zenon
  <2> QED
    BY <1>1, <1>2, <2>1, Zenon
<1>4. ASSUME NEW s \in Streams PROVE From(wire', s) = From(wire, s) /\ Announced(wire', s, of[s])
  <2>1. e.from # s
    BY <1>2, UploadsAssumption
  <2>2. Announced(wire, s, of[s])
    BY Zenon DEF SendInv, StreamInv
  <2>3. From(Append(wire, e), s) = From(wire, s)
    BY <2>1, <1>2, FromWritten, Zenon DEF Add
  <2>4. Announced(Append(wire, e), s, of[s])
    BY <2>1, <2>2, <1>2, Written, Zenon
  <2> QED
    BY <1>1, <2>2, <2>3, <2>4, Zenon
<1>5. SendTypes'
  <2>1. pc' \in [Calls -> {"idle", "start", "ids", "id", "send", "sent", "launched", "failed"}]
    BY <1>1, Zenon DEF SendInv, SendTypes
  <2> QED
    BY <1>1, <1>3, <2>1, Zenon DEF SendInv, SendTypes
<1>6. ASSUME NEW d \in Calls PROVE CallInv(d)'
  <2>0. CallInv(d) /\ pc \in [Calls -> {"idle", "start", "ids", "id", "send", "sent", "launched", "failed"}]
    BY Zenon DEF SendInv, SendTypes
  <2>1. CASE d # c
    <3>1. pc'[d] = pc[d]
      BY <1>1, <2>0, <2>1, Zenon
    <3> QED
      BY <1>1, <1>3, <2>0, <3>1, Zenon DEF CallInv, StreamsOf
  <2>2. CASE d = c
    <3>1. pc'[c] \in {"sent", "failed"} /\ (pc'[c] = "sent" => Mentions(wire', c))
      BY <1>1, <1>3, <2>0
    <3>2. sender[c] = "none"
      BY <1>1, <2>0, <2>2, Zenon DEF CallInv
    <3> QED
      BY <1>1, <2>0, <2>2, <3>1, <3>2, Zenon DEF CallInv, StreamsOf
  <2> QED
    BY <2>1, <2>2, Zenon
<1>7. ASSUME NEW s \in Streams PROVE StreamInv(s)'
  <2>1. StreamInv(s)
    BY Zenon DEF SendInv
  <2> QED
    BY <2>1, <1>1, <1>4, Zenon DEF StreamInv, Delivered
<1> QED
  BY <1>5, <1>6, <1>7, Zenon DEF SendInv

\* The sender of a call and the tasks of its streams are launched together, once.
LEMMA LaunchStep ==
  ASSUME SendInv, NEW c \in Calls, Launch(c)
  PROVE  SendInv'
<1> DEFINE new == IF StreamsOf(c) = {} THEN "none" ELSE "running"
<1>1. /\ pc[c] = "sent" /\ pc' = [pc EXCEPT ![c] = "launched"]
      /\ sender' = [sender EXCEPT ![c] = new]
      /\ task' = [s \in Streams |-> IF of[s] = c THEN "running" ELSE task[s]]
      /\ UNCHANGED <<of, commands, yielded, wire>>
  BY Zenon DEF Launch
<1>2. sender[c] = "none"
  BY <1>1, Zenon DEF SendInv, CallInv
<1>3. new \in {"none", "running"}
  OBVIOUS
<1>4. ASSUME NEW s \in Streams, of[s] = c PROVE new = "running"
  BY <1>4 DEF StreamsOf
<1> HIDE DEF new
<1>5. /\ pc'[c] = "launched" /\ \A d \in Calls : d # c => pc'[d] = pc[d]
      /\ sender'[c] = new /\ \A d \in Calls : d # c => sender'[d] = sender[d]
      /\ of \in [Streams -> Calls]
  BY <1>1, Zenon DEF SendInv, SendTypes
<1>6. SendTypes'
  <2>1. pc' \in [Calls -> {"idle", "start", "ids", "id", "send", "sent", "launched", "failed"}]
    BY <1>1 DEF SendInv, SendTypes
  <2>2. sender' \in [Calls -> {"none", "running", "done", "broken"}]
    BY <1>1, <1>3 DEF SendInv, SendTypes
  <2>3. task' \in [Streams -> {"none", "running", "ended"}]
    BY <1>1 DEF SendInv, SendTypes
  <2> QED
    BY <1>1, <2>1, <2>2, <2>3, Zenon DEF SendInv, SendTypes
<1>7. ASSUME NEW d \in Calls PROVE CallInv(d)'
  <2>0. CallInv(d)
    BY Zenon DEF SendInv
  <2>1. CASE d # c
    BY <1>1, <1>5, <2>0, <2>1, Zenon DEF CallInv, StreamsOf
  <2>2. CASE d = c
    <3>1. Mentions(wire, c) /\ commands[c] = <<>> /\ \A i \in DOMAIN commands[c] : commands[c][i].from \in StreamsOf(c)
      BY <1>1, <1>2, <2>0, <2>2 DEF CallInv
    <3> QED
      BY <1>1, <1>5, <2>2, <3>1, Zenon DEF CallInv, StreamsOf
  <2> QED
    BY <2>1, <2>2, Zenon
<1>8. ASSUME NEW s \in Streams PROVE StreamInv(s)'
  <2>0. StreamInv(s) /\ of[s] \in Calls
    BY <1>5, Zenon DEF SendInv
  <2>1. CASE of[s] = c
    <3>1. sender'[of[s]] = "running" /\ sender[of[s]] # "broken"
      BY <1>2, <1>4, <1>5, <2>1, Zenon
    <3>2. Delivered(s)'
      BY <1>1, <2>0, <3>1, Zenon DEF StreamInv, Delivered
    <3> QED
      BY <1>1, <2>0, <3>1, <3>2, Zenon DEF StreamInv
  <2>2. CASE of[s] # c
    <3>1. sender'[of[s]] = sender[of[s]] /\ task'[s] = task[s]
      BY <1>1, <1>5, <2>0, <2>2, Zenon
    <3> QED
      BY <1>1, <2>0, <3>1, Zenon DEF StreamInv, Delivered
  <2> QED
    BY <2>1, <2>2, Zenon
<1> QED
  BY <1>6, <1>7, <1>8, Zenon DEF SendInv

\* A stream yields: what it yields goes to its sender, if that runs.
LEMMA YieldStep ==
  ASSUME SendInv, NEW s \in Streams, YieldItem(s) \/ YieldEnd(s)
  PROVE  SendInv'
<1>1. PICK x \in What : Command(s, x)
  <2>1. End \in What
    BY Zenon DEF What
  <2>2. Len(yielded[s]) + 1 \in Nat
    BY DEF SendInv, SendTypes
  <2>3. Item(Len(yielded[s]) + 1) \in What
    BY <2>2, Zenon DEF What
  <2> QED
    BY <2>1, <2>3, Zenon DEF YieldItem, YieldEnd
<1> DEFINE c == of[s]
           e == [from |-> s, what |-> x]
<1>2. task[s] = "running" /\ \E v \in {"running", "ended"} : task' = [task EXCEPT ![s] = v]
  <2>1. CASE YieldEnd(s)
    BY <2>1, Zenon DEF YieldEnd
  <2>2. CASE YieldItem(s)
    <3>1. task[s] = "running" /\ (task' = [task EXCEPT ![s] = @] \/ task' = [task EXCEPT ![s] = "ended"])
      BY <2>2, Zenon DEF YieldItem
    <3>2. [task EXCEPT ![s] = @] = [task EXCEPT ![s] = "running"]
      BY <3>1, Zenon
    <3> QED
      BY <3>1, <3>2, Zenon
  <2> QED
    BY <2>1, <2>2, Zenon
<1>3. /\ yielded' = [yielded EXCEPT ![s] = Append(@, x)]
      /\ commands' = IF sender[c] = "running" THEN [commands EXCEPT ![c] = Append(@, e)] ELSE commands
      /\ UNCHANGED <<of, pc, sender, wire>>
  BY <1>1, Zenon DEF Command
<1>4. c \in Calls /\ e \in Entry /\ e.from = s /\ e.what = x /\ s \in StreamsOf(c)
  BY Zenon DEF Entry, SendInv, SendTypes, StreamsOf
<1>5. commands \in [Calls -> Seq(Entry)] /\ yielded \in [Streams -> Seq(What)] /\ wire \in Seq(Entry)
  BY Zenon DEF SendInv, SendTypes
<1>6. sender[c] \in {"running", "broken"}
  BY <1>2, Zenon DEF SendInv, StreamInv
<1> HIDE DEF c, e
<1>7. Append(commands[c], e) \in Seq(Entry) /\ Append(yielded[s], x) \in Seq(What)
  <2>1. commands[c] \in Seq(Entry) /\ yielded[s] \in Seq(What)
    BY <1>4, <1>5, Zenon
  <2> QED
    BY <2>1, <1>4
<1>8. SendTypes'
  <2>1. task' \in [Streams -> {"none", "running", "ended"}]
    BY <1>2 DEF SendInv, SendTypes
  <2>2. commands' \in [Calls -> Seq(Entry)]
    BY <1>3, <1>4, <1>5, <1>7, Zenon
  <2>3. yielded' \in [Streams -> Seq(What)]
    BY <1>3, <1>5, <1>7, Zenon
  <2> QED
    BY <1>3, <2>1, <2>2, <2>3, Zenon DEF SendInv, SendTypes
<1>9. ASSUME NEW d \in Calls PROVE CallInv(d)'
  <2>0. CallInv(d)
    BY Zenon DEF SendInv
  <2>1. CASE d = c /\ sender[c] = "running"
    <3>1. commands'[c] = Append(commands[c], e) /\ commands[c] \in Seq(Entry)
      BY <1>3, <1>4, <1>5, <2>1, Zenon
    <3>2. ASSUME NEW i \in DOMAIN commands'[c] PROVE commands'[c][i].from \in StreamsOf(c)
      <4>1. (i \in DOMAIN commands[c] /\ commands'[c][i] = commands[c][i]) \/ commands'[c][i] = e
        BY <3>1, <3>2, <1>4
      <4> QED
        BY <4>1, <2>0, <2>1, <1>4, Zenon DEF CallInv
    <3> QED
      BY <2>0, <2>1, <3>2, <1>3, Zenon DEF CallInv, StreamsOf
  <2>2. CASE ~(d = c /\ sender[c] = "running")
    <3>1. commands'[d] = commands[d]
      BY <1>3, <1>4, <1>5, <2>2, Zenon
    <3> QED
      BY <2>0, <3>1, <1>3, Zenon DEF CallInv, StreamsOf
  <2> QED
    BY <2>1, <2>2, Zenon
<1>10. ASSUME NEW t \in Streams PROVE StreamInv(t)'
  <2>0. StreamInv(t) /\ of[t] \in Calls /\ task \in [Streams -> {"none", "running", "ended"}]
    BY Zenon DEF SendInv, SendTypes
  <2>1. task'[t] = "running" => sender'[of'[t]] \in {"running", "broken"}
    <3>1. task'[t] = "running" => task[t] = "running"
      BY <1>2, <2>0
    <3> QED
      BY <3>1, <2>0, <1>3, Zenon DEF StreamInv
  <2>2. Announced(wire', t, of'[t])
    BY <2>0, <1>3, Zenon DEF StreamInv
  <2> DEFINE w == From(wire, t)
             q == From(commands[of[t]], t)
  <2>3. w \in Seq(What) /\ q \in Seq(What) /\ commands[of[t]] \in Seq(Entry)
    BY <1>5, <2>0, FromType, Zenon
  <2>4. CASE t = s
    <3>1. yielded'[s] = Append(yielded[s], x) /\ yielded[s] \in Seq(What) /\ of[t] = c
      BY <1>3, <1>5, <2>4, Zenon DEF c
    <3>2. Prefix(w, yielded'[s])
      BY <2>0, <2>3, <2>4, <3>1, PrefixFacts, Zenon DEF StreamInv, Delivered
    <3>3. CASE sender[c] = "running"
      <4>1. commands'[c] = Append(commands[c], e)
        BY <1>3, <1>4, <1>5, <3>3, Zenon
      <4>2. From(commands'[c], s) = Append(From(commands[c], s), x)
        BY <4>1, <2>3, <3>1, <1>4, FromWritten, Zenon DEF Add
      <4>3. w \o q = yielded[s]
        BY <2>0, <2>4, <3>1, <3>3 DEF StreamInv, Delivered
      <4>4. w \o Append(q, x) = Append(w \o q, x)
        BY <2>3, AppendOut, Zenon
      <4>5. w \o From(commands'[c], s) = yielded'[s]
        BY <2>4, <3>1, <4>2, <4>3, <4>4, Zenon
      <4> QED
        BY <1>3, <2>4, <3>1, <3>2, <4>5, <2>1, <2>2, Zenon DEF StreamInv, Delivered
    <3>4. CASE sender[c] = "broken"
      BY <1>3, <2>4, <3>1, <3>2, <3>4, <2>1, <2>2, Zenon DEF StreamInv, Delivered
    <3> QED
      BY <3>3, <3>4, <1>6, Zenon
  <2>5. CASE t # s
    <3>1. yielded'[t] = yielded[t]
      BY <1>3, <1>5, <2>5, Zenon
    <3>2. From(commands'[of[t]], t) = q
      <4>1. CASE commands'[of[t]] = commands[of[t]]
        BY <4>1, Zenon
      <4>2. CASE commands'[of[t]] = Append(commands[of[t]], e)
        <5>1. From(Append(commands[of[t]], e), t) = Add(q, e, t)
          BY <2>3, <1>4, FromWritten, Zenon
        <5>2. e.from # t
          BY <2>5, <1>4, Zenon
        <5> QED
          BY <4>2, <5>1, <5>2, Zenon DEF Add
      <4>3. commands'[of[t]] = commands[of[t]] \/ commands'[of[t]] = Append(commands[of[t]], e)
        BY <1>3, <1>4, <1>5, <2>0, Zenon
      <4> QED
        BY <4>1, <4>2, <4>3, Zenon
    <3> QED
      BY <1>3, <2>0, <2>1, <2>2, <3>1, <3>2, Zenon DEF StreamInv, Delivered
  <2> QED
    BY <2>4, <2>5, Zenon
<1> QED
  BY <1>8, <1>9, <1>10, Zenon DEF SendInv

\* The sender sends the next command, or stops: what is sent is the next of its stream.
LEMMA SendCommandStep ==
  ASSUME SendInv, NEW c \in Calls, SendCommand(c)
  PROVE  SendInv'
<1> DEFINE e == Head(commands[c])
           rest == Tail(commands[c])
<1>1. /\ sender[c] = "running" /\ commands[c] # <<>> /\ UNCHANGED <<of, pc, task, yielded>>
      /\ \/ /\ SendOk(e.from, e.what)
            /\ commands' = [commands EXCEPT ![c] = rest] /\ sender' = sender
         \/ /\ SendErr(e.from, e.what)
            /\ commands' = [commands EXCEPT ![c] = <<>>] /\ sender' = [sender EXCEPT ![c] = "broken"]
  BY Zenon DEF SendCommand
<1>2. /\ of \in [Streams -> Calls] /\ sender \in [Calls -> {"none", "running", "done", "broken"}]
      /\ commands \in [Calls -> Seq(Entry)] /\ yielded \in [Streams -> Seq(What)] /\ wire \in Seq(Entry)
      /\ commands[c] \in Seq(Entry)
  BY Zenon DEF SendInv, SendTypes
<1>3. e \in Entry /\ e.from \in StreamsOf(c) /\ rest \in Seq(Entry)
  <2>1. e \in Entry /\ rest \in Seq(Entry) /\ e = commands[c][1]
    BY <1>1, <1>2, EntryFacts, Zenon
  <2>2. 1 \in DOMAIN commands[c]
    BY <1>1, <1>2
  <2> QED
    BY <2>1, <2>2, Zenon DEF SendInv, CallInv
<1>4. ASSUME NEW i \in DOMAIN rest PROVE rest[i].from \in StreamsOf(c)
  <2>1. i + 1 \in DOMAIN commands[c] /\ rest[i] = commands[c][i + 1]
    BY <1>1, <1>2, <1>4
  <2> QED
    BY <2>1, Zenon DEF SendInv, CallInv
<1>5. \A s : From(commands[c], s) = Own(e, s) \o From(rest, s)
  BY <1>1, <1>2, FromTaken, Zenon
<1>6. [from |-> e.from, what |-> e.what] = e
  BY <1>3, Zenon DEF Entry
<1> HIDE DEF e, rest
<1>7. \/ /\ wire' = Append(wire, e) /\ commands' = [commands EXCEPT ![c] = rest] /\ sender' = sender
      \/ /\ wire' = wire \/ wire' = Append(wire, e)
         /\ commands' = [commands EXCEPT ![c] = <<>>] /\ sender' = [sender EXCEPT ![c] = "broken"]
  BY <1>1, <1>6, SendWrites
<1>8. /\ commands'[c] \in {rest, <<>>} /\ \A d \in Calls : d # c => commands'[d] = commands[d]
      /\ sender'[c] \in {"running", "broken"} /\ \A d \in Calls : d # c => sender'[d] = sender[d]
      /\ sender'[c] # "broken" => commands'[c] = rest /\ wire' = Append(wire, e)
      /\ sender'[c] # "running" => commands'[c] = <<>>
      /\ wire' = wire \/ wire' = Append(wire, e)
  BY <1>1, <1>2, <1>7
<1>9. <<>> \in Seq(Entry) /\ DOMAIN <<>> = {}
  OBVIOUS
<1>10. SendTypes'
  <2>1. Append(wire, e) \in Seq(Entry)
    BY <1>2, <1>3, Written, Zenon
  <2>2. commands' \in [Calls -> Seq(Entry)]
    BY <1>2, <1>3, <1>7, <1>9, Zenon
  <2>3. sender' \in [Calls -> {"none", "running", "done", "broken"}]
    BY <1>2, <1>7, Zenon
  <2>4. wire' \in Seq(Entry)
    BY <2>1, <1>2, <1>8, Zenon
  <2> QED
    BY <1>1, <2>2, <2>3, <2>4, Zenon DEF SendInv, SendTypes
<1>11. /\ \A x : Mentions(wire, x) => Mentions(wire', x)
       /\ Mentions(wire, c)
  <2>1. Mentions(wire, c)
    BY <1>1 DEF SendInv, CallInv
  <2>2. \A x : Mentions(wire, x) => Mentions(Append(wire, e), x)
    BY <1>2, <1>3, Written, Zenon
  <2> QED
    BY <2>1, <2>2, <1>8, Zenon
<1>12. ASSUME NEW d \in Calls PROVE CallInv(d)'
  <2>0. CallInv(d)
    BY Zenon DEF SendInv
  <2>1. CASE d # c
    BY <1>1, <1>8, <1>11, <2>0, <2>1, Zenon DEF CallInv, StreamsOf
  <2>2. CASE d = c
    <3>1. pc[c] = "launched"
      BY <1>1, <2>0, <2>2 DEF CallInv
    <3>2. \A i \in DOMAIN commands'[c] : commands'[c][i].from \in StreamsOf(c)
      BY <1>4, <1>8, <1>9, Zenon
    <3> QED
      BY <1>1, <1>8, <1>11, <2>2, <3>1, <3>2, Zenon DEF CallInv, StreamsOf
  <2> QED
    BY <2>1, <2>2, Zenon
<1>13. ASSUME NEW s \in Streams PROVE StreamInv(s)'
  <2>0. StreamInv(s) /\ of[s] \in Calls
    BY <1>2, Zenon DEF SendInv
  <2>1. task'[s] = "running" => sender'[of'[s]] \in {"running", "broken"}
    <3>1. CASE of[s] = c
      BY <3>1, <1>1, <1>8, Zenon
    <3>2. CASE of[s] # c
      BY <3>2, <1>1, <1>8, <2>0, Zenon DEF StreamInv
    <3> QED
      BY <3>1, <3>2, Zenon
  <2>2. Announced(wire', s, of'[s])
    <3>1. Announced(wire, s, of[s]) /\ (e.from = s => Mentions(wire, of[s]))
      BY <2>0, <1>3, <1>11, Zenon DEF StreamInv, StreamsOf
    <3>2. Announced(Append(wire, e), s, of[s])
      BY <3>1, <1>2, <1>3, Written, Zenon
    <3> QED
      BY <3>1, <3>2, <1>1, <1>8, Zenon
  <2> DEFINE w == From(wire, s)
             y == yielded[s]
  <2>3. w \in Seq(What) /\ y \in Seq(What) /\ yielded'[s] = y
    BY <1>1, <1>2, FromType, Zenon
  <2>4. From(Append(wire, e), s) = Add(w, e, s)
    BY <1>2, <1>3, FromWritten, Zenon
  <2>5. Delivered(s)'
    <3>1. CASE e.from # s
      <4>1. From(wire', s) = w
        BY <1>8, <2>4, <3>1, Zenon DEF Add
      <4>2. CASE of[s] # c
        BY <1>1, <1>8, <2>0, <4>1, <4>2, Zenon DEF StreamInv, Delivered
      <4>3. CASE of[s] = c
        <5>1. From(commands[c], s) = From(rest, s)
          <6>1. From(rest, s) \in Seq(What) /\ Own(e, s) = <<>>
            BY <1>3, <3>1, FromType, Zenon DEF Own
          <6> QED
            BY <6>1, <1>5, NoneLeft, Zenon
        <5>2. w \o From(commands[c], s) = y /\ Prefix(w, y)
          BY <1>1, <2>0, <4>3 DEF StreamInv, Delivered
        <5> QED
          BY <1>1, <1>8, <2>3, <4>1, <4>3, <5>1, <5>2, Zenon DEF Delivered
      <4> QED
        BY <4>2, <4>3, Zenon
    <3>2. CASE e.from = s
      <4> DEFINE x == e.what
                 r == From(rest, s)
      <4>1. of[s] = c /\ x \in What /\ r \in Seq(What)
        BY <3>2, <1>3, FromType, Zenon DEF StreamsOf, Entry
      <4>2. From(Append(wire, e), s) = Append(w, x) /\ From(commands[c], s) = <<x>> \o r
        BY <3>2, <2>4, <1>5, Zenon DEF Add, Own
      <4>3. w \o (<<x>> \o r) = y /\ Prefix(w, y)
        <5>1. w \o From(commands[c], s) = y /\ Prefix(w, y)
          BY <1>1, <2>0, <4>1 DEF StreamInv, Delivered
        <5> QED
          BY <5>1, <4>2, Zenon
      <4> HIDE DEF x, r
      <4>4. Append(w, x) \o r = y
        BY <2>3, <4>1, <4>3, MoveOver, Zenon
      <4>5. Prefix(Append(w, x), y)
        <5>1. Append(w, x) \in Seq(What)
          BY <2>3, <4>1
        <5> QED
          BY <5>1, <4>1, <4>4, PrefixFacts, Zenon
      <4>6. Prefix(From(wire', s), y)
        BY <1>8, <4>2, <4>3, <4>5, Zenon
      <4>7. sender'[c] # "broken" => From(wire', s) \o From(commands'[c], s) = y
        BY <1>8, <4>2, <4>4, Zenon DEF r
      <4> QED
        BY <1>1, <2>3, <4>1, <4>6, <4>7, Zenon DEF Delivered
    <3> QED
      BY <3>1, <3>2, Zenon
  <2> QED
    BY <2>1, <2>2, <2>5, Zenon DEF StreamInv
<1> QED
  BY <1>10, <1>12, <1>13, Zenon DEF SendInv

\* The sender ends when no task can command it any more.
LEMMA SenderEndsStep ==
  ASSUME SendInv, NEW c \in Calls, SenderEnds(c)
  PROVE  SendInv'
<1>1. /\ sender[c] = "running" /\ commands[c] = <<>> /\ \A s \in StreamsOf(c) : task[s] = "ended"
      /\ sender' = [sender EXCEPT ![c] = "done"]
      /\ UNCHANGED <<of, pc, task, commands, yielded, wire>>
  BY Zenon DEF SenderEnds
<1>2. /\ sender'[c] = "done" /\ \A d \in Calls : d # c => sender'[d] = sender[d]
      /\ of \in [Streams -> Calls]
  BY <1>1, Zenon DEF SendInv, SendTypes
<1>3. SendTypes'
  <2>1. sender' \in [Calls -> {"none", "running", "done", "broken"}]
    BY <1>1 DEF SendInv, SendTypes
  <2> QED
    BY <1>1, <2>1, Zenon DEF SendInv, SendTypes
<1>4. ASSUME NEW d \in Calls PROVE CallInv(d)'
  <2>0. CallInv(d)
    BY Zenon DEF SendInv
  <2>1. CASE d # c
    BY <1>1, <1>2, <2>0, <2>1, Zenon DEF CallInv, StreamsOf
  <2>2. CASE d = c
    <3>1. pc[c] = "launched"
      BY <1>1, <2>0, <2>2 DEF CallInv
    <3> QED
      BY <1>1, <1>2, <2>0, <2>2, <3>1, Zenon DEF CallInv, StreamsOf
  <2> QED
    BY <2>1, <2>2, Zenon
<1>5. ASSUME NEW s \in Streams PROVE StreamInv(s)'
  <2>0. StreamInv(s) /\ of[s] \in Calls
    BY <1>2, Zenon DEF SendInv
  <2>1. CASE of[s] = c
    <3>1. task[s] = "ended" /\ sender[of[s]] # "broken"
      BY <1>1, <2>1 DEF StreamsOf
    <3> QED
      BY <1>1, <1>2, <2>0, <3>1, Zenon DEF StreamInv, Delivered
  <2>2. CASE of[s] # c
    BY <1>1, <1>2, <2>0, <2>2, Zenon DEF StreamInv, Delivered
  <2> QED
    BY <2>1, <2>2, Zenon
<1> QED
  BY <1>3, <1>4, <1>5, Zenon DEF SendInv

\* The other steps touch neither calls nor what streams yield.
LEMMA SendAside ==
  ASSUME SendInv, UNCHANGED <<of, pc, task, commands, sender, yielded, wire>>
  PROVE  SendInv'
<1>1. SendTypes'
  BY Zenon DEF SendInv, SendTypes
<1>2. \A c \in Calls : CallInv(c)'
  BY Zenon DEF SendInv, CallInv, StreamsOf
<1>3. \A s \in Streams : StreamInv(s)'
  BY Zenon DEF SendInv, StreamInv, Delivered
<1> QED
  BY <1>1, <1>2, <1>3, Zenon DEF SendInv

\* Nothing has been yielded at first.
LEMMA SendInit == Init => SendInv
<1> SUFFICES ASSUME Init PROVE SendInv
  BY Zenon
<1>1. /\ of \in [Streams -> Calls] /\ wire = <<>>
      /\ pc \in [Calls -> {"idle", "start"}]
      /\ task = [s \in Streams |-> "none"] /\ commands = [c \in Calls |-> <<>>]
      /\ sender = [c \in Calls |-> "none"] /\ yielded = [s \in Streams |-> <<>>]
  BY UploadsAssumption DEF Init
<1>2. <<>> \in Seq(Entry) /\ <<>> \in Seq(What) /\ DOMAIN <<>> = {} /\ <<>> \o <<>> = <<>>
  OBVIOUS
<1>3. SendTypes
  BY <1>1, <1>2 DEF SendTypes
<1>4. \A c \in Calls : CallInv(c)
  BY <1>1, <1>2 DEF CallInv
<1>5. ASSUME NEW s \in Streams PROVE StreamInv(s)
  <2>1. /\ task[s] = "none" /\ yielded[s] = <<>> /\ of[s] \in Calls /\ commands[of[s]] = <<>>
    BY <1>1, Zenon
  <2>2. From(<<>>, s) = <<>>
    <3>1. <<"call">> \in What
      BY Zenon DEF What
    <3>2. [from |-> s, what |-> <<"call">>] \in Entry
      BY <3>1, Zenon DEF Entry
    <3> QED
      BY <3>2, <1>2, FromWritten, Zenon
  <2>3. Prefix(<<>>, <<>>)
    BY DEF Prefix
  <2>4. Delivered(s)
    BY <1>1, <1>2, <2>1, <2>2, <2>3, Zenon DEF Delivered
  <2>5. Announced(wire, s, of[s])
    BY <1>1, <1>2, Zenon DEF Announced
  <2> QED
    BY <2>1, <2>4, <2>5 DEF StreamInv
<1> QED
  BY <1>3, <1>4, <1>5, Zenon DEF SendInv

\* Every step keeps it.
LEMMA SendStep == SendInv /\ [Next]_vars => SendInv'
<1> SUFFICES ASSUME SendInv, [Next]_vars PROVE SendInv'
  BY Zenon
<1>1. ASSUME NEW c \in Calls,
             RequireConnected(c) \/ IdsTaken(c) \/ TakeCallId(c) \/ SendCall(c) \/ Launch(c)
             \/ SendCommand(c) \/ SenderEnds(c)
      PROVE  SendInv'
  BY <1>1, CallStep, SendCallStep, LaunchStep, SendCommandStep, SenderEndsStep, Zenon
<1>2. ASSUME NEW s \in Streams, YieldItem(s) \/ YieldEnd(s) PROVE SendInv'
  BY <1>2, YieldStep, Zenon
<1>3. ASSUME NEW c \in Calls, TakeStreamId(c) PROVE SendInv'
  BY <1>3, SendAside, Zenon DEF TakeStreamId
<1>4. CASE \/ Lose \/ BeginResume \/ Resume \/ GiveUp \/ Take \/ Announce \/ Reconnect \/ Restored
           \/ Close \/ Shutdown \/ UNCHANGED vars
  <2>1. UNCHANGED <<of, pc, task, commands, sender, yielded, wire>>
    BY <1>4, ZenonT(30) DEF Lose, BeginResume, Resume, GiveUp, Take, Announce, Reconnect, Restored,
                            Close, Shutdown, callVars, vars
  <2> QED
    BY <2>1, SendAside, Zenon
<1> QED
  BY <1>1, <1>2, <1>3, <1>4, ZenonT(30) DEF Next

\* For any number of calls, streams, items and runtimes, connections are given what a
\* stream yields in order and without a gap, nothing of it before the call that
\* announces it, and all of it unless its sender had to stop: launch_upload_streams()
\* starts the tasks only after the call was sent, one channel keeps the order of a
\* stream, and the sender stops at the first error.
THEOREM StreamsInOrder == Spec => []UploadedInOrder
<1> QED
  BY SendInit, SendStep, SendInvImplies, PTL DEF Spec
=============================================================================
