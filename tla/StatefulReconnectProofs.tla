---------------------- MODULE StatefulReconnectProofs ----------------------
(***************************************************************************)
(* Proofs about StatefulReconnect for any number of callers, messages and  *)
(* drops.  Its receiving side implements ReliableChannel, the messages of  *)
(* the server reach the handlers and callers in order, each once.  So does *)
(* its sending side with one caller, and without completions past the      *)
(* buffer.                                                                 *)
(***************************************************************************)
EXTENDS StatefulReconnect, TLAPS, WellFoundedInduction

Item == [kind : {"msg", "ack", "seq"}, n : Nat]

-----------------------------------------------------------------------------
(* One direction: the channel c, whether its receiver waits for Sequence,  *)
(* the number it gives the next message and the greatest it has given, and *)
(* the messages sent so far.                                               *)

HasSequence(c) == c # <<>> /\ c[1].kind = "seq"
Listens(c, wait) == ~wait \/ HasSequence(c)

\* The number the receiver will give the first message of the channel.
First(c, next) == IF HasSequence(c) THEN c[1].n ELSE next

\* Message k is in the channel before position i.
Before(c, i, k) == \E j \in DOMAIN c : j < i /\ c[j] = Msg(k)

\* Every message has all those before it from first on in front of it.
Dense(c, first) ==
    \A i \in DOMAIN c : c[i].kind = "msg" =>
        /\ first <= c[i].n
        /\ \A k \in Nat : first <= k /\ k < c[i].n => Before(c, i, k)

Increasing(c) ==
    \A i, j \in DOMAIN c : i < j /\ c[i].kind = "msg" /\ c[j].kind = "msg" => c[i].n < c[j].n

Below(c, n) == \A i \in DOMAIN c : c[i].kind = "msg" => c[i].n < n

\* A Sequence comes first, to a receiver that waits for it; what the receiver
\* listens to has no gap from the number it begins with.
Channel(c, wait, next, greatest, sent) ==
    /\ \A i \in DOMAIN c : c[i].kind = "seq" => i = 1 /\ wait /\ c[i].n <= greatest + 1
    /\ next <= greatest + 1 /\ greatest <= sent
    /\ Increasing(c)
    /\ Below(c, sent + 1)
    /\ Listens(c, wait) => Dense(c, First(c, next))

\* The same of a channel that may have gaps: no message is older than the number
\* the receiver gives it.
AtLeast(c, n) == \A i \in DOMAIN c : c[i].kind = "msg" => n <= c[i].n

Counted(c, wait, next, greatest, sent) ==
    /\ \A i \in DOMAIN c : c[i].kind = "seq" => i = 1 /\ wait /\ c[i].n <= greatest + 1
    /\ next <= greatest + 1 /\ greatest <= sent
    /\ Increasing(c)
    /\ Below(c, sent + 1)
    /\ Listens(c, wait) => AtLeast(c, First(c, next))

AcksUpTo(c, n) == \A i \in DOMAIN c : c[i].kind = "ack" => c[i].n <= n

\* The messages from first to sent are in the channel, but for the missing ones.
Covers(c, first, missing, sent) ==
    \A k \in Nat : first <= k /\ k <= sent => k \in missing \/ \E j \in DOMAIN c : c[j] = Msg(k)

-----------------------------------------------------------------------------
(* Sequences and minima *)

\* Taking the first item: the others move up by one place.
LEMMA TailFacts ==
    ASSUME NEW S, NEW c \in Seq(S), c # <<>>
    PROVE  /\ Tail(c) \in Seq(S)
           /\ Len(c) \in Nat /\ Len(c) > 0 /\ Len(Tail(c)) = Len(c) - 1
           /\ DOMAIN c = 1..Len(c) /\ DOMAIN Tail(c) = 1..(Len(c) - 1)
           /\ Head(c) = c[1] /\ c[1] \in S
           /\ \A i \in DOMAIN Tail(c) : i + 1 \in DOMAIN c /\ Tail(c)[i] = c[i + 1]
           /\ \A j \in DOMAIN c : j # 1 => j - 1 \in DOMAIN Tail(c) /\ Tail(c)[j - 1] = c[j]
OBVIOUS

\* Writing an item: those before it keep their places.
LEMMA AppendFacts ==
    ASSUME NEW S, NEW c \in Seq(S), NEW e \in S
    PROVE  /\ Append(c, e) \in Seq(S)
           /\ Len(c) \in Nat /\ Len(Append(c, e)) = Len(c) + 1
           /\ DOMAIN c = 1..Len(c) /\ DOMAIN Append(c, e) = 1..(Len(c) + 1)
           /\ \A i \in DOMAIN c : i \in DOMAIN Append(c, e) /\ Append(c, e)[i] = c[i]
           /\ Append(c, e)[Len(c) + 1] = e
           /\ \A i \in DOMAIN c : c[i] \in S
           /\ c # <<>> <=> 1 \in DOMAIN c
           /\ Append(c, e) # <<>>
OBVIOUS

\* What a cut leaves keeps its place.
LEMMA PrefixFacts ==
    ASSUME NEW S, NEW c \in Seq(S), NEW k \in 0..Len(c)
    PROVE  /\ SubSeq(c, 1, k) \in Seq(S)
           /\ DOMAIN c = 1..Len(c) /\ DOMAIN SubSeq(c, 1, k) = 1..k
           /\ \A i \in DOMAIN SubSeq(c, 1, k) : i \in DOMAIN c /\ SubSeq(c, 1, k)[i] = c[i]
OBVIOUS

\* Putting an item in front: the others move down by one place.
LEMMA ConsFacts ==
    ASSUME NEW S, NEW e \in S, NEW c \in Seq(S)
    PROVE  /\ <<e>> \o c \in Seq(S)
           /\ Len(c) \in Nat /\ DOMAIN (<<e>> \o c) = 1..(Len(c) + 1)
           /\ <<e>> \o c # <<>>
           /\ (<<e>> \o c)[1] = e
           /\ \A i \in 1..Len(c) : (<<e>> \o c)[i + 1] = c[i]
OBVIOUS

\* The empty channel.
LEMMA EmptyFacts == ASSUME NEW S PROVE <<>> \in Seq(S) /\ DOMAIN <<>> = {}
OBVIOUS

\* resend() looks for the first item: there is one in any set of ids.
LEMMA MinFacts ==
    ASSUME NEW S \in SUBSET Nat, S # {}
    PROVE  Min(S) \in S /\ \A y \in S : Min(S) <= y
<1> DEFINE R == {p \in Nat \X Nat : p[1] < p[2]}
<1>0. IsWellFoundedOn(R, Nat)
  BY NatLessThanWellFounded DEF OpToRel
<1>a. \A a, b \in Nat : b < a => <<b, a>> \in R
  OBVIOUS
<1> HIDE DEF R
<1>1. PICK x \in S : \A y \in S : ~(<<y, x>> \in R)
  BY <1>0, WFMin, Zenon
<1>2. \A y \in S : x <= y
  <2> SUFFICES ASSUME NEW y \in S PROVE x <= y
    OBVIOUS
  <2>1. ~(<<y, x>> \in R)
    BY <1>1
  <2>2. x \in Nat /\ y \in Nat
    OBVIOUS
  <2>3. ~(y < x)
    BY <2>1, <2>2, <1>a
  <2> QED
    BY <2>2, <2>3
<1> QED
  BY <1>2, Zenon DEF Min

-----------------------------------------------------------------------------
(* What the operations on a channel preserve *)

\* A message is taken: it is the one the receiver takes it for.
LEMMA TakeMessage ==
    ASSUME NEW c \in Seq(Item), NEW next \in Nat, NEW greatest \in Nat, NEW sent \in Nat,
           Channel(c, FALSE, next, greatest, sent), c # <<>>, c[1].kind = "msg"
    PROVE  /\ c[1].n = next /\ next <= sent
           /\ Channel(Tail(c), FALSE, next + 1, IF next > greatest THEN next ELSE greatest, sent)
           /\ ~HasSequence(c) /\ ~HasSequence(Tail(c))
           /\ \A n \in Nat : Below(c, n) => Below(Tail(c), n) /\ next < n
           /\ \A missing : Covers(c, next, missing, sent) => Covers(Tail(c), next + 1, missing, sent)
<1> DEFINE d == Tail(c)
<1>1. /\ d \in Seq(Item)
      /\ Len(c) \in Nat /\ Len(c) > 0
      /\ DOMAIN c = 1..Len(c) /\ DOMAIN d = 1..(Len(c) - 1)
      /\ \A i \in DOMAIN d : i + 1 \in DOMAIN c /\ d[i] = c[i + 1]
      /\ \A j \in DOMAIN c : j # 1 => j - 1 \in DOMAIN d /\ d[j - 1] = c[j]
      /\ \A i \in DOMAIN c : c[i] \in Item
  BY TailFacts
<1>2. \A i \in DOMAIN c : c[i].n \in Nat
  BY <1>1 DEF Item
<1>3. 1 \in DOMAIN c /\ ~HasSequence(c)
  BY <1>1 DEF HasSequence
<1>4. \A i \in DOMAIN c : c[i].kind # "seq"
  BY DEF Channel
<1>5. ~HasSequence(d)
  BY <1>1, <1>4, EmptyFacts DEF HasSequence
<1>6. Dense(c, next)
  BY <1>3 DEF Channel, Listens, First
<1>7. c[1].n = next
  <2>1. next <= c[1].n /\ (next < c[1].n => Before(c, 1, next))
    BY <1>3, <1>6 DEF Dense
  <2>2. ~Before(c, 1, next)
    BY <1>1 DEF Before
  <2> QED
    BY <2>1, <2>2, <1>2, <1>3
<1>8. Increasing(c) /\ Below(c, sent + 1) /\ next <= greatest + 1 /\ greatest <= sent
  BY DEF Channel
<1>9. next <= sent
  BY <1>3, <1>7, <1>8 DEF Below
<1> HIDE DEF d
<1>10. \A i \in DOMAIN d : d[i].kind = "msg" => next < d[i].n
  <2> SUFFICES ASSUME NEW i \in DOMAIN d, d[i].kind = "msg" PROVE next < d[i].n
    OBVIOUS
  <2>1. i + 1 \in DOMAIN c /\ d[i] = c[i + 1] /\ 1 < i + 1
    BY <1>1
  <2> QED
    BY <2>1, <1>3, <1>7, <1>8 DEF Increasing
<1>11. Increasing(d)
  <2> SUFFICES ASSUME NEW i \in DOMAIN d, NEW j \in DOMAIN d, i < j, d[i].kind = "msg", d[j].kind = "msg"
               PROVE  d[i].n < d[j].n
    BY DEF Increasing
  <2>1. /\ i + 1 \in DOMAIN c /\ d[i] = c[i + 1]
        /\ j + 1 \in DOMAIN c /\ d[j] = c[j + 1] /\ i + 1 < j + 1
    BY <1>1
  <2> QED
    BY <2>1, <1>8 DEF Increasing
<1>12. \A n \in Nat : Below(c, n) => Below(d, n) /\ next < n
  <2> SUFFICES ASSUME NEW n \in Nat, Below(c, n) PROVE Below(d, n) /\ next < n
    OBVIOUS
  <2>1. next < n
    BY <1>3, <1>7 DEF Below
  <2>2. ASSUME NEW i \in DOMAIN d, d[i].kind = "msg" PROVE d[i].n < n
    BY <2>2, <1>1 DEF Below
  <2> QED
    BY <2>1, <2>2 DEF Below
<1>13. Dense(d, next + 1)
  <2> SUFFICES ASSUME NEW i \in DOMAIN d, d[i].kind = "msg"
               PROVE  /\ next + 1 <= d[i].n
                      /\ \A k \in Nat : next + 1 <= k /\ k < d[i].n => Before(d, i, k)
    BY DEF Dense
  <2>1. i + 1 \in DOMAIN c /\ d[i] = c[i + 1] /\ d[i].n \in Nat
    BY <1>1, <1>2
  <2>2. next + 1 <= d[i].n
    BY <1>10, <2>1
  <2>3. ASSUME NEW k \in Nat, next + 1 <= k, k < d[i].n PROVE Before(d, i, k)
    <3>1. PICK j \in DOMAIN c : j < i + 1 /\ c[j] = Msg(k)
      BY <1>6, <2>1, <2>3 DEF Dense, Before
    <3>2. j # 1
      BY <3>1, <1>7, <2>3 DEF Msg
    <3>3. j - 1 \in DOMAIN d /\ d[j - 1] = c[j] /\ j - 1 < i
      BY <3>1, <3>2, <1>1
    <3> QED
      BY <3>1, <3>3 DEF Before
  <2> QED
    BY <2>2, <2>3
<1>14. Channel(d, FALSE, next + 1, IF next > greatest THEN next ELSE greatest, sent)
  <2>1. \A i \in DOMAIN d : d[i].kind # "seq"
    BY <1>1, <1>4
  <2>2. Below(d, sent + 1)
    BY <1>8, <1>12
  <2>3. First(d, next + 1) = next + 1
    BY <1>5 DEF First
  <2> DEFINE g == IF next > greatest THEN next ELSE greatest
  <2>4. next + 1 <= g + 1 /\ g <= sent
    BY <1>8, <1>9
  <2> HIDE DEF g
  <2>5. Channel(d, FALSE, next + 1, g, sent)
    BY <2>1, <2>2, <2>3, <2>4, <1>11, <1>13, Zenon DEF Channel
  <2> QED
    BY <2>5, Zenon DEF g
<1>15. ASSUME NEW missing, Covers(c, next, missing, sent) PROVE Covers(d, next + 1, missing, sent)
  <2> SUFFICES ASSUME NEW k \in Nat, next + 1 <= k, k <= sent, k \notin missing
               PROVE  \E j \in DOMAIN d : d[j] = Msg(k)
    BY DEF Covers
  <2>1. PICK j \in DOMAIN c : c[j] = Msg(k)
    BY <1>15 DEF Covers
  <2>2. j # 1
    <3>1. Msg(k).n = k
      BY DEF Msg
    <3> QED
      BY <3>1, <2>1, <1>7
  <2> QED
    BY <2>1, <2>2, <1>1
<1> QED
  BY <1>3, <1>5, <1>7, <1>9, <1>12, <1>14, <1>15, Zenon DEF d

\* The head is gone: what holds of the others still does.
LEMMA DropHead ==
    ASSUME NEW c \in Seq(Item), c # <<>>, NEW wait, NEW next, NEW greatest, NEW sent,
           Channel(c, wait, next, greatest, sent)
    PROVE  /\ \A i \in DOMAIN Tail(c) : Tail(c)[i].kind # "seq"
           /\ ~HasSequence(Tail(c))
           /\ Increasing(Tail(c))
           /\ \A n : Below(c, n) => Below(Tail(c), n)
           /\ c[1].kind # "msg" =>
                /\ \A first : Dense(c, first) => Dense(Tail(c), first)
                /\ \A first, missing : Covers(c, first, missing, sent) => Covers(Tail(c), first, missing, sent)
<1> DEFINE d == Tail(c)
<1>1. /\ d \in Seq(Item)
      /\ DOMAIN c \subseteq Nat /\ DOMAIN d \subseteq Nat \ {0}
      /\ \A i \in DOMAIN d : i + 1 \in DOMAIN c /\ d[i] = c[i + 1]
      /\ \A j \in DOMAIN c : j # 1 => j - 1 \in DOMAIN d /\ d[j - 1] = c[j]
      /\ d # <<>> => 1 \in DOMAIN d
  BY TailFacts
<1>2. (\A i \in DOMAIN c : c[i].kind = "seq" => i = 1) /\ Increasing(c)
  BY DEF Channel
<1> HIDE DEF d
<1>3. \A i \in DOMAIN d : d[i].kind # "seq"
  BY <1>1, <1>2, SMTT(30)
<1>4. ~HasSequence(d)
  BY <1>1, <1>3 DEF HasSequence
<1>5. Increasing(d)
  <2> SUFFICES ASSUME NEW i \in DOMAIN d, NEW j \in DOMAIN d, i < j, d[i].kind = "msg", d[j].kind = "msg"
               PROVE  d[i].n < d[j].n
    BY DEF Increasing
  <2>1. /\ i + 1 \in DOMAIN c /\ d[i] = c[i + 1]
        /\ j + 1 \in DOMAIN c /\ d[j] = c[j + 1] /\ i + 1 < j + 1
    BY <1>1
  <2> QED
    BY <2>1, <1>2 DEF Increasing
<1>6. \A n : Below(c, n) => Below(d, n)
  BY <1>1, SMTT(30) DEF Below
<1>7. ASSUME c[1].kind # "msg", NEW first, Dense(c, first) PROVE Dense(d, first)
  <2> SUFFICES ASSUME NEW i \in DOMAIN d, d[i].kind = "msg"
               PROVE  /\ first <= d[i].n
                      /\ \A k \in Nat : first <= k /\ k < d[i].n => Before(d, i, k)
    BY DEF Dense
  <2>1. i + 1 \in DOMAIN c /\ d[i] = c[i + 1]
    BY <1>1
  <2>2. first <= d[i].n
    BY <2>1, <1>7 DEF Dense
  <2>3. ASSUME NEW k \in Nat, first <= k, k < d[i].n PROVE Before(d, i, k)
    <3>1. PICK j \in DOMAIN c : j < i + 1 /\ c[j] = Msg(k)
      BY <1>7, <2>1, <2>3 DEF Dense, Before
    <3>2. j # 1
      BY <3>1, <1>7 DEF Msg
    <3>3. j - 1 \in DOMAIN d /\ d[j - 1] = c[j] /\ j - 1 < i
      BY <3>1, <3>2, <1>1, SMTT(30)
    <3> QED
      BY <3>1, <3>3 DEF Before
  <2> QED
    BY <2>2, <2>3
<1>8. ASSUME c[1].kind # "msg", NEW first, NEW missing, Covers(c, first, missing, sent)
      PROVE  Covers(d, first, missing, sent)
  <2> SUFFICES ASSUME NEW k \in Nat, first <= k, k <= sent, k \notin missing
               PROVE  \E j \in DOMAIN d : d[j] = Msg(k)
    BY DEF Covers
  <2>1. PICK j \in DOMAIN c : c[j] = Msg(k)
    BY <1>8 DEF Covers
  <2>2. Msg(k).kind = "msg"
    BY DEF Msg
  <2>3. j # 1
    BY <2>1, <2>2, <1>8
  <2> QED
    BY <2>1, <2>3, <1>1
<1> QED
  BY <1>3, <1>4, <1>5, <1>6, <1>7, <1>8 DEF d

\* An acknowledgement is taken, or anything by a receiver that waits for Sequence.
LEMMA SkipHead ==
    ASSUME NEW c \in Seq(Item), c # <<>>, NEW wait \in BOOLEAN, NEW next, NEW greatest, NEW sent,
           Channel(c, wait, next, greatest, sent), c[1].kind # "seq", wait \/ c[1].kind = "ack"
    PROVE  /\ Channel(Tail(c), wait, next, greatest, sent)
           /\ ~HasSequence(c) /\ ~HasSequence(Tail(c))
           /\ \A n : Below(c, n) => Below(Tail(c), n)
           /\ ~wait => \A missing : Covers(c, next, missing, sent) => Covers(Tail(c), next, missing, sent)
<1>1. ~HasSequence(c)
  BY DEF HasSequence
<1>2. /\ \A i \in DOMAIN Tail(c) : Tail(c)[i].kind # "seq"
      /\ ~HasSequence(Tail(c))
      /\ Increasing(Tail(c))
      /\ \A n : Below(c, n) => Below(Tail(c), n)
      /\ c[1].kind # "msg" =>
           /\ \A first : Dense(c, first) => Dense(Tail(c), first)
           /\ \A first, missing : Covers(c, first, missing, sent) => Covers(Tail(c), first, missing, sent)
  BY DropHead, Zenon
<1>3. Below(c, sent + 1) /\ next <= greatest + 1 /\ greatest <= sent
  BY DEF Channel
<1>4. ASSUME ~wait PROVE Dense(Tail(c), First(Tail(c), next)) /\ c[1].kind # "msg"
  <2>1. Dense(c, next)
    BY <1>1, <1>4 DEF Channel, Listens, First
  <2> QED
    BY <2>1, <1>2, <1>4 DEF First
<1>5. Channel(Tail(c), wait, next, greatest, sent)
  BY <1>2, <1>3, <1>4, Zenon DEF Channel, Listens
<1> QED
  BY <1>1, <1>2, <1>4, <1>5, Zenon

\* A Sequence is taken, and accepted or refused.
LEMMA TakeSequence ==
    ASSUME NEW c \in Seq(Item), c # <<>>, NEW wait \in BOOLEAN, NEW next \in Nat, NEW greatest \in Nat, NEW sent \in Nat,
           Channel(c, wait, next, greatest, sent), c[1].kind = "seq"
    PROVE  /\ wait /\ Listens(c, wait) /\ First(c, next) = c[1].n /\ c[1].n <= greatest + 1
           /\ Channel(Tail(c), TRUE, next, greatest, sent)
           /\ Channel(Tail(c), FALSE, c[1].n, greatest, sent)
           /\ ~HasSequence(Tail(c))
           /\ \A n : Below(c, n) => Below(Tail(c), n)
           /\ \A missing : Covers(c, c[1].n, missing, sent) => Covers(Tail(c), c[1].n, missing, sent)
<1>1. 1 \in DOMAIN c
  BY TailFacts
<1>2. HasSequence(c) /\ First(c, next) = c[1].n
  BY DEF HasSequence, First
<1>3. wait /\ Listens(c, wait) /\ c[1].n <= greatest + 1
  BY <1>1, <1>2 DEF Channel, Listens
<1>4. /\ \A i \in DOMAIN Tail(c) : Tail(c)[i].kind # "seq"
      /\ ~HasSequence(Tail(c))
      /\ Increasing(Tail(c))
      /\ \A n : Below(c, n) => Below(Tail(c), n)
      /\ \A first : Dense(c, first) => Dense(Tail(c), first)
      /\ \A first, missing : Covers(c, first, missing, sent) => Covers(Tail(c), first, missing, sent)
  <2>1. c[1].kind # "msg"
    OBVIOUS
  <2> QED
    BY <2>1, DropHead, Zenon
<1>5. Below(Tail(c), sent + 1) /\ next <= greatest + 1 /\ greatest <= sent
  BY <1>4 DEF Channel
<1>6. Dense(Tail(c), c[1].n)
  BY <1>2, <1>3, <1>4 DEF Channel
<1>7. Channel(Tail(c), TRUE, next, greatest, sent)
  BY <1>4, <1>5, Zenon DEF Channel, Listens
<1>8. Channel(Tail(c), FALSE, c[1].n, greatest, sent)
  BY <1>3, <1>4, <1>5, <1>6, Zenon DEF Channel, First
<1> QED
  BY <1>2, <1>3, <1>4, <1>7, <1>8, Zenon

\* The next message, with a number above all others, is written behind those before it.
LEMMA WriteMessage ==
    ASSUME NEW c \in Seq(Item), NEW wait \in BOOLEAN, NEW next \in Nat, NEW greatest \in Nat, NEW sent \in Nat,
           Channel(c, wait, next, greatest, sent),
           NEW m \in Nat, NEW now \in Nat, sent <= now, m <= now, Below(c, m),
           Listens(c, wait) => /\ First(c, next) <= m
                               /\ \A k \in Nat : First(c, next) <= k /\ k < m => \E j \in DOMAIN c : c[j] = Msg(k)
    PROVE  /\ Append(c, Msg(m)) \in Seq(Item)
           /\ Channel(Append(c, Msg(m)), wait, next, greatest, now)
           /\ HasSequence(Append(c, Msg(m))) <=> HasSequence(c)
           /\ First(Append(c, Msg(m)), next) = First(c, next)
           /\ \A n \in Nat : m < n /\ Below(c, m) => Below(Append(c, Msg(m)), n)
           /\ \A first, missing : Covers(c, first, missing \cup {m}, now) => Covers(Append(c, Msg(m)), first, missing, now)
<1> DEFINE d == Append(c, Msg(m))
<1>0. Msg(m) \in Item /\ Msg(m).kind = "msg" /\ Msg(m).n = m
  BY DEF Msg, Item
<1>1. /\ d \in Seq(Item) /\ Len(c) \in Nat
      /\ DOMAIN c = 1..Len(c) /\ DOMAIN d = 1..(Len(c) + 1)
      /\ \A i \in DOMAIN c : i \in DOMAIN d /\ d[i] = c[i]
      /\ d[Len(c) + 1] = Msg(m)
      /\ \A i \in DOMAIN c : c[i] \in Item
      /\ c # <<>> <=> 1 \in DOMAIN c
      /\ d # <<>>
  BY <1>0, AppendFacts
<1> HIDE DEF d
<1>2. \A i \in DOMAIN d : (i \in DOMAIN c /\ d[i] = c[i]) \/ (i = Len(c) + 1 /\ d[i] = Msg(m))
  BY <1>1
<1>a. \A i \in DOMAIN c : c[i].n \in Nat
  BY <1>1 DEF Item
<1>3. HasSequence(d) <=> HasSequence(c)
  <2>1. CASE c = <<>>
    BY <2>1, <1>0, <1>1 DEF HasSequence
  <2>2. CASE c # <<>>
    BY <2>2, <1>1 DEF HasSequence
  <2> QED
    BY <2>1, <2>2
<1>4. First(d, next) = First(c, next)
  BY <1>1, <1>3, SMTT(30) DEF First, HasSequence
<1>5. \A n \in Nat : m < n => Below(d, n)
  <2> SUFFICES ASSUME NEW n \in Nat, m < n, NEW i \in DOMAIN d, d[i].kind = "msg" PROVE d[i].n < n
    BY DEF Below
  <2>1. CASE i \in DOMAIN c /\ d[i] = c[i]
    <3>1. c[i].n < m
      BY <2>1 DEF Below
    <3> QED
      BY <3>1, <2>1, <1>a
  <2> QED
    BY <2>1, <1>2, <1>0, SMTT(30)
<1>6. Increasing(d)
  <2> SUFFICES ASSUME NEW i \in DOMAIN d, NEW j \in DOMAIN d, i < j, d[i].kind = "msg", d[j].kind = "msg"
               PROVE  d[i].n < d[j].n
    BY DEF Increasing
  <2>1. i \in DOMAIN c /\ d[i] = c[i]
    BY <1>1, <1>2, SMTT(30)
  <2>2. CASE j \in DOMAIN c /\ d[j] = c[j]
    BY <2>1, <2>2 DEF Increasing, Channel
  <2>3. CASE d[j] = Msg(m)
    BY <2>1, <2>3, <1>0 DEF Below
  <2> QED
    BY <2>2, <2>3, <1>2, SMTT(30)
<1>7. ASSUME Listens(c, wait) PROVE Dense(d, First(c, next))
  <2> DEFINE first == First(c, next)
  <2>1. Dense(c, first) /\ first <= m /\ \A k \in Nat : first <= k /\ k < m => \E j \in DOMAIN c : c[j] = Msg(k)
    BY <1>7 DEF Channel
  <2> HIDE DEF first
  <2>2. ASSUME NEW i \in DOMAIN d, d[i].kind = "msg"
        PROVE  /\ first <= d[i].n
               /\ \A k \in Nat : first <= k /\ k < d[i].n => Before(d, i, k)
    <3>1. CASE i \in DOMAIN c /\ d[i] = c[i]
      <4>1. first <= c[i].n /\ \A k \in Nat : first <= k /\ k < c[i].n => Before(c, i, k)
        BY <2>1, <2>2, <3>1 DEF Dense
      <4>2. \A k \in Nat : Before(c, i, k) => Before(d, i, k)
        BY <1>1 DEF Before
      <4> QED
        BY <4>1, <4>2, <3>1, SMTT(30)
    <3>2. CASE i = Len(c) + 1 /\ d[i] = Msg(m)
      <4>1. ASSUME NEW k \in Nat, first <= k, k < m PROVE Before(d, i, k)
        <5>1. PICK j \in DOMAIN c : c[j] = Msg(k)
          BY <2>1, <4>1
        <5>2. j \in DOMAIN d /\ d[j] = Msg(k) /\ j < i
          BY <5>1, <3>2, <1>1, SMTT(30)
        <5> QED
          BY <5>2 DEF Before
      <4> QED
        BY <4>1, <3>2, <1>0, <2>1, SMTT(30)
    <3> QED
      BY <3>1, <3>2, <1>2, SMTT(30)
  <2>3. Dense(d, first)
    BY <2>2 DEF Dense
  <2> QED
    BY <2>3 DEF first
<1>8. Channel(d, wait, next, greatest, now)
  <2>1. \A i \in DOMAIN d : d[i].kind = "seq" => i = 1 /\ wait /\ d[i].n <= greatest + 1
    <3> SUFFICES ASSUME NEW i \in DOMAIN d, d[i].kind = "seq" PROVE i = 1 /\ wait /\ d[i].n <= greatest + 1
      OBVIOUS
    <3>1. i \in DOMAIN c /\ d[i] = c[i]
      BY <1>0, <1>2, SMTT(30)
    <3> QED
      BY <3>1 DEF Channel
  <2>2. next <= greatest + 1 /\ greatest <= now
    BY DEF Channel
  <2>3. Below(d, now + 1)
    BY <1>5
  <2>4. Listens(d, wait) => Dense(d, First(d, next))
    BY <1>3, <1>4, <1>7, SMTT(30) DEF Listens
  <2> QED
    BY <2>1, <2>2, <2>3, <2>4, <1>6, Zenon DEF Channel
<1>9. ASSUME NEW first, NEW missing, Covers(c, first, missing \cup {m}, now) PROVE Covers(d, first, missing, now)
  <2> SUFFICES ASSUME NEW k \in Nat, first <= k, k <= now, k \notin missing PROVE \E j \in DOMAIN d : d[j] = Msg(k)
    BY DEF Covers
  <2>1. CASE k = m
    <3>1. Len(c) + 1 \in DOMAIN d
      BY <1>1
    <3> QED
      BY <3>1, <2>1, <1>1
  <2>2. CASE k # m
    <3>1. PICK j \in DOMAIN c : c[j] = Msg(k)
      BY <2>2, <1>9 DEF Covers
    <3> QED
      BY <3>1, <1>1
  <2> QED
    BY <2>1, <2>2
<1> QED
  BY <1>1, <1>3, <1>4, <1>5, <1>8, <1>9, SMTT(30) DEF d

\* An acknowledgement is written.
LEMMA WriteAck ==
    ASSUME NEW c \in Seq(Item), NEW wait \in BOOLEAN, NEW next \in Nat, NEW greatest \in Nat, NEW sent \in Nat,
           Channel(c, wait, next, greatest, sent), NEW a \in Nat
    PROVE  /\ Append(c, Ack(a)) \in Seq(Item)
           /\ Channel(Append(c, Ack(a)), wait, next, greatest, sent)
           /\ HasSequence(Append(c, Ack(a))) <=> HasSequence(c)
           /\ First(Append(c, Ack(a)), next) = First(c, next)
           /\ \A n : Below(c, n) => Below(Append(c, Ack(a)), n)
           /\ \A first, missing : Covers(c, first, missing, sent) => Covers(Append(c, Ack(a)), first, missing, sent)
<1> DEFINE d == Append(c, Ack(a))
<1>0. Ack(a) \in Item /\ Ack(a).kind = "ack"
  BY DEF Ack, Item
<1>1. /\ d \in Seq(Item) /\ Len(c) \in Nat
      /\ DOMAIN c = 1..Len(c) /\ DOMAIN d = 1..(Len(c) + 1)
      /\ \A i \in DOMAIN c : i \in DOMAIN d /\ d[i] = c[i]
      /\ d[Len(c) + 1] = Ack(a)
      /\ c # <<>> <=> 1 \in DOMAIN c
      /\ d # <<>>
  BY <1>0, AppendFacts
<1> HIDE DEF d
<1>2. \A i \in DOMAIN d : (i \in DOMAIN c /\ d[i] = c[i]) \/ d[i].kind = "ack"
  BY <1>0, <1>1
<1>3. HasSequence(d) <=> HasSequence(c)
  <2>1. CASE c = <<>>
    BY <2>1, <1>0, <1>1 DEF HasSequence
  <2>2. CASE c # <<>>
    BY <2>2, <1>1, SMTT(30) DEF HasSequence
  <2> QED
    BY <2>1, <2>2
<1>4. First(d, next) = First(c, next)
  BY <1>1, <1>3 DEF First, HasSequence
<1>5. \A n : Below(c, n) => Below(d, n)
  BY <1>2 DEF Below
<1>6. Increasing(d)
  BY <1>2, SMTT(30) DEF Increasing, Channel
<1>7. \A first : Dense(c, first) => Dense(d, first)
  <2> SUFFICES ASSUME NEW first, Dense(c, first), NEW i \in DOMAIN d, d[i].kind = "msg"
               PROVE  first <= d[i].n /\ \A k \in Nat : first <= k /\ k < d[i].n => Before(d, i, k)
    BY Zenon DEF Dense
  <2>1. i \in DOMAIN c /\ d[i] = c[i]
    BY <1>2
  <2>2. first <= c[i].n /\ \A k \in Nat : first <= k /\ k < c[i].n => Before(c, i, k)
    BY <2>1 DEF Dense
  <2>3. \A k \in Nat : Before(c, i, k) => Before(d, i, k)
    BY <1>1 DEF Before
  <2> QED
    BY <2>1, <2>2, <2>3
<1>8. Channel(d, wait, next, greatest, sent)
  <2>1. \A i \in DOMAIN d : d[i].kind = "seq" => i = 1 /\ wait /\ d[i].n <= greatest + 1
    <3> SUFFICES ASSUME NEW i \in DOMAIN d, d[i].kind = "seq" PROVE i = 1 /\ wait /\ d[i].n <= greatest + 1
      OBVIOUS
    <3>1. i \in DOMAIN c /\ d[i] = c[i]
      BY <1>2
    <3> QED
      BY <3>1 DEF Channel
  <2>2. next <= greatest + 1 /\ greatest <= sent /\ Below(d, sent + 1)
    BY <1>5 DEF Channel
  <2>3. Listens(d, wait) => Dense(d, First(d, next))
    BY <1>3, <1>4, <1>7 DEF Listens, Channel
  <2> QED
    BY <2>1, <2>2, <2>3, <1>6, Zenon DEF Channel
<1>9. \A first, missing : Covers(c, first, missing, sent) => Covers(d, first, missing, sent)
  BY <1>1 DEF Covers
<1> QED
  BY <1>1, <1>3, <1>4, <1>5, <1>8, <1>9, SMTT(30) DEF d

\* Only a first part of the channel is left.
LEMMA CutChannel ==
    ASSUME NEW c \in Seq(Item), NEW wait \in BOOLEAN, NEW next \in Nat, NEW greatest \in Nat, NEW sent \in Nat,
           Channel(c, wait, next, greatest, sent), NEW z \in 0..Len(c)
    PROVE  SubSeq(c, 1, z) \in Seq(Item) /\ Channel(SubSeq(c, 1, z), wait, next, greatest, sent)
<1> DEFINE d == SubSeq(c, 1, z)
<1>1. /\ d \in Seq(Item)
      /\ DOMAIN c = 1..Len(c) /\ DOMAIN d = 1..z
      /\ \A i \in DOMAIN d : i \in DOMAIN c /\ d[i] = c[i]
      /\ \A i \in DOMAIN d, j \in DOMAIN c : j < i => j \in DOMAIN d
      /\ d # <<>> => 1 \in DOMAIN d /\ c # <<>>
  BY PrefixFacts
<1> HIDE DEF d
<1>2. HasSequence(d) => HasSequence(c) /\ d[1] = c[1]
  BY <1>1 DEF HasSequence
<1>3. HasSequence(c) /\ ~HasSequence(d) => DOMAIN d = {}
  BY <1>1 DEF HasSequence
<1>4. \A first : Dense(c, first) => Dense(d, first)
  <2> SUFFICES ASSUME NEW first, Dense(c, first), NEW i \in DOMAIN d, d[i].kind = "msg"
               PROVE  first <= d[i].n /\ \A k \in Nat : first <= k /\ k < d[i].n => Before(d, i, k)
    BY Zenon DEF Dense
  <2>1. i \in DOMAIN c /\ d[i] = c[i]
    BY <1>1
  <2>2. first <= c[i].n /\ \A k \in Nat : first <= k /\ k < c[i].n => Before(c, i, k)
    BY <2>1 DEF Dense
  <2>3. \A k \in Nat : Before(c, i, k) => Before(d, i, k)
    BY <1>1 DEF Before
  <2> QED
    BY <2>1, <2>2, <2>3
<1>5. Listens(d, wait) => Dense(d, First(d, next))
  <2>1. CASE DOMAIN d = {}
    BY <2>1, SMTT(30) DEF Dense
  <2>2. CASE DOMAIN d # {}
    <3>1. HasSequence(d) <=> HasSequence(c)
      BY <2>2, <1>2, <1>3
    <3>2. First(d, next) = First(c, next)
      BY <3>1, <1>2, SMTT(30) DEF First
    <3> QED
      BY <3>1, <3>2, <1>4 DEF Listens, Channel
  <2> QED
    BY <2>1, <2>2
<1>6. Increasing(d) /\ Below(d, sent + 1)
  BY <1>1 DEF Increasing, Below, Channel
<1>7. /\ \A i \in DOMAIN d : d[i].kind = "seq" => i = 1 /\ wait /\ d[i].n <= greatest + 1
      /\ next <= greatest + 1 /\ greatest <= sent
  BY <1>1 DEF Channel
<1>8. Channel(d, wait, next, greatest, sent)
  BY <1>5, <1>6, <1>7, Zenon DEF Channel
<1> QED
  BY <1>1, <1>8 DEF d

\* An empty channel; a receiver that starts to wait; more messages sent.
LEMMA SmallSteps ==
    ASSUME NEW c, NEW wait \in BOOLEAN, NEW next \in Nat, NEW greatest \in Nat, NEW sent \in Nat
    PROVE  /\ next <= greatest + 1 /\ greatest <= sent => Channel(<<>>, wait, next, greatest, sent)
           /\ Channel(c, wait, next, greatest, sent) => Channel(c, TRUE, next, greatest, sent)
           /\ c \in Seq(Item) /\ Channel(c, wait, next, greatest, sent) => Channel(c, wait, next, greatest, sent + 1)
<1>1. ASSUME next <= greatest + 1, greatest <= sent PROVE Channel(<<>>, wait, next, greatest, sent)
  <2>1. DOMAIN <<>> = {}
    BY EmptyFacts
  <2> QED
    BY <2>1, <1>1, Zenon DEF Channel, Increasing, Below, Dense
<1>2. ASSUME Channel(c, wait, next, greatest, sent) PROVE Channel(c, TRUE, next, greatest, sent)
  BY <1>2, Zenon DEF Channel, Listens
<1>3. ASSUME c \in Seq(Item), Channel(c, wait, next, greatest, sent) PROVE Channel(c, wait, next, greatest, sent + 1)
  <2>1. \A i \in DOMAIN c : c[i].n \in Nat
    <3>1. \A i \in DOMAIN c : c[i] \in Item
      BY <1>3, AppendFacts, SMTT(30)
    <3> QED
      BY <3>1 DEF Item
  <2>2. Below(c, sent + 1)
    BY <1>3 DEF Channel
  <2>3. Below(c, sent + 1 + 1)
    BY <2>1, <2>2 DEF Below
  <2>4. greatest <= sent + 1
    BY <1>3 DEF Channel
  <2> QED
    BY <2>3, <2>4, <1>3, Zenon DEF Channel
<1> QED
  BY <1>1, <1>2, <1>3, Zenon

-----------------------------------------------------------------------------
(* The same for a channel that may have gaps *)

\* A channel without gaps is one.
LEMMA ChannelCounted ==
    ASSUME NEW c, NEW wait, NEW next, NEW greatest, NEW sent, Channel(c, wait, next, greatest, sent)
    PROVE  Counted(c, wait, next, greatest, sent)
BY Zenon DEF Channel, Counted, Dense, AtLeast

\* What is behind the first items of a channel.
LEMMA SuffixFacts ==
    ASSUME NEW S, NEW c \in Seq(S), NEW k \in 1..Len(c)
    PROVE  /\ SubSeq(c, k + 1, Len(c)) \in Seq(S)
           /\ DOMAIN c = 1..Len(c) /\ DOMAIN SubSeq(c, k + 1, Len(c)) = 1..(Len(c) - k)
           /\ \A i \in DOMAIN SubSeq(c, k + 1, Len(c)) : i + k \in DOMAIN c /\ SubSeq(c, k + 1, Len(c))[i] = c[i + k]
           /\ 1 \in DOMAIN c /\ c # <<>>
OBVIOUS

\* The first items are gone, the very first perhaps taken.
LEMMA CountedSuffix ==
    ASSUME NEW c \in Seq(Item), NEW wait \in BOOLEAN, NEW next \in Nat, NEW greatest \in Nat, NEW sent \in Nat,
           Counted(c, wait, next, greatest, sent), NEW k \in 1..Len(c), NEW d, d = SubSeq(c, k + 1, Len(c))
    PROVE  /\ d \in Seq(Item)
           /\ c[1].kind # "seq" => Counted(d, wait, next, greatest, sent)
           /\ c[1].kind = "seq" =>
                wait /\ Counted(d, TRUE, next, greatest, sent) /\ Counted(d, FALSE, c[1].n, greatest, sent)
           /\ c[1].kind = "msg" /\ ~wait =>
                next <= sent /\ Counted(d, FALSE, next + 1, IF next > greatest THEN next ELSE greatest, sent)
<1>1. /\ d \in Seq(Item)
      /\ DOMAIN c \subseteq Nat /\ DOMAIN d \subseteq Nat \ {0} /\ 1 \in DOMAIN c /\ c # <<>>
      /\ \A i \in DOMAIN d : i + k \in DOMAIN c /\ d[i] = c[i + k] /\ i + k # 1 /\ 1 < i + k
      /\ \A i, j \in DOMAIN d : i < j => i + k < j + k
      /\ d # <<>> => 1 \in DOMAIN d
  BY SuffixFacts, SMTT(30)
<1>2. \A i \in DOMAIN c : c[i] \in Item /\ c[i].n \in Nat
  <2>1. \A i \in DOMAIN c : c[i] \in Item
    OBVIOUS
  <2> QED
    BY <2>1, Zenon DEF Item
<1>3. /\ \A i \in DOMAIN c : c[i].kind = "seq" => i = 1 /\ wait /\ c[i].n <= greatest + 1
      /\ next <= greatest + 1 /\ greatest <= sent /\ Increasing(c) /\ Below(c, sent + 1)
      /\ Listens(c, wait) => AtLeast(c, First(c, next))
  BY Zenon DEF Counted
<1>4. (\A i \in DOMAIN d : d[i].kind # "seq") /\ ~HasSequence(d)
  <2>1. \A i \in DOMAIN d : d[i].kind # "seq"
    BY <1>1, <1>3, Zenon
  <2> QED
    BY <2>1, <1>1, Zenon DEF HasSequence
<1>5. Increasing(d) /\ Below(d, sent + 1)
  <2>1. Below(d, sent + 1)
    BY <1>1, <1>3, Zenon DEF Below
  <2> SUFFICES ASSUME NEW i \in DOMAIN d, NEW j \in DOMAIN d, i < j, d[i].kind = "msg", d[j].kind = "msg"
               PROVE  d[i].n < d[j].n
    BY <2>1, Zenon DEF Increasing
  <2>2. i + k \in DOMAIN c /\ j + k \in DOMAIN c /\ i + k < j + k /\ d[i] = c[i + k] /\ d[j] = c[j + k]
    BY <1>1, Zenon
  <2> QED
    BY <2>2, <1>3, Zenon DEF Increasing
<1>6. \A n : AtLeast(c, n) => AtLeast(d, n)
  BY <1>1, Zenon DEF AtLeast
<1>7. HasSequence(c) <=> c[1].kind = "seq"
  BY <1>1, Zenon DEF HasSequence
<1>8. ASSUME c[1].kind # "seq" PROVE Counted(d, wait, next, greatest, sent)
  BY <1>8, <1>3, <1>4, <1>5, <1>6, <1>7, Zenon DEF Counted, Listens, First
<1>9. ASSUME c[1].kind = "seq"
      PROVE  wait /\ Counted(d, TRUE, next, greatest, sent) /\ Counted(d, FALSE, c[1].n, greatest, sent)
  <2>1. wait /\ c[1].n <= greatest + 1
    BY <1>9, <1>1, <1>3, Zenon
  <2>2. AtLeast(d, c[1].n)
    BY <1>9, <1>3, <1>6, <1>7, Zenon DEF Listens, First
  <2> QED
    BY <2>1, <2>2, <1>3, <1>4, <1>5, Zenon DEF Counted, Listens, First
<1>10. ASSUME c[1].kind = "msg", ~wait
       PROVE  next <= sent /\ Counted(d, FALSE, next + 1, IF next > greatest THEN next ELSE greatest, sent)
  <2>1. ~HasSequence(c) /\ AtLeast(c, next)
    BY <1>10, <1>3, <1>7, Zenon DEF Listens, First
  <2>2. next <= c[1].n /\ c[1].n < sent + 1
    BY <2>1, <1>1, <1>3, <1>10, Zenon DEF AtLeast, Below
  <2>3. next <= sent
    BY <2>2, <1>1, <1>2
  <2>4. AtLeast(d, next + 1)
    <3> SUFFICES ASSUME NEW i \in DOMAIN d, d[i].kind = "msg" PROVE next + 1 <= d[i].n
      BY Zenon DEF AtLeast
    <3>1. i + k \in DOMAIN c /\ d[i] = c[i + k] /\ 1 < i + k
      BY <1>1, Zenon
    <3>2. c[1].n < c[i + k].n
      BY <3>1, <1>1, <1>3, <1>10, Zenon DEF Increasing
    <3>3. c[i + k].n \in Nat /\ c[1].n \in Nat
      BY <3>1, <1>1, <1>2, Zenon
    <3> QED
      BY <3>1, <3>2, <3>3, <2>2, SMTT(30)
  <2> DEFINE g == IF next > greatest THEN next ELSE greatest
  <2>5. next + 1 <= g + 1 /\ g <= sent
    BY <2>3, <1>3
  <2> HIDE DEF g
  <2>6. Counted(d, FALSE, next + 1, g, sent)
    BY <2>4, <2>5, <1>4, <1>5, Zenon DEF Counted, First
  <2> QED
    BY <2>3, <2>6, Zenon DEF g
<1> QED
  BY <1>1, <1>8, <1>9, <1>10, Zenon

\* Only a first part of the channel is left.
LEMMA CountedPrefix ==
    ASSUME NEW c \in Seq(Item), NEW wait \in BOOLEAN, NEW next, NEW greatest, NEW sent,
           Counted(c, wait, next, greatest, sent), NEW z \in 0..Len(c)
    PROVE  Counted(SubSeq(c, 1, z), wait, next, greatest, sent)
<1> DEFINE d == SubSeq(c, 1, z)
<1>1. /\ d \in Seq(Item)
      /\ DOMAIN c = 1..Len(c) /\ DOMAIN d = 1..z
      /\ \A i \in DOMAIN d : i \in DOMAIN c /\ d[i] = c[i]
  BY PrefixFacts
<1>a. /\ d # <<>> => 1 \in DOMAIN d /\ c # <<>>
      /\ DOMAIN d # {} => 1 \in DOMAIN d /\ d # <<>>
  BY <1>1
<1> HIDE DEF d
<1>2. HasSequence(d) => HasSequence(c) /\ d[1] = c[1]
  BY <1>1, <1>a, Zenon DEF HasSequence
<1>3. HasSequence(c) /\ ~HasSequence(d) => DOMAIN d = {}
  BY <1>1, <1>a, Zenon DEF HasSequence
<1>4. Listens(d, wait) => AtLeast(d, First(d, next))
  <2>1. CASE DOMAIN d = {}
    BY <2>1, Zenon DEF AtLeast
  <2>2. CASE DOMAIN d # {}
    <3>1. HasSequence(d) <=> HasSequence(c)
      BY <2>2, <1>2, <1>3, Zenon
    <3>2. First(d, next) = First(c, next)
      BY <3>1, <1>2, Zenon DEF First
    <3> QED
      BY <3>1, <3>2, <1>1, Zenon DEF Listens, Counted, AtLeast
  <2> QED
    BY <2>1, <2>2, Zenon
<1>5. Counted(d, wait, next, greatest, sent)
  BY <1>1, <1>4, Zenon DEF Counted, Increasing, Below
<1> QED
  BY <1>5, Zenon DEF d

\* A message is sent, and written behind the others or lost; an Ack is written.
LEMMA CountedWrite ==
    ASSUME NEW c \in Seq(Item), NEW wait \in BOOLEAN, NEW next \in Nat, NEW greatest \in Nat, NEW sent \in Nat,
           Counted(c, wait, next, greatest, sent)
    PROVE  /\ Counted(c, TRUE, next, greatest, sent)
           /\ Counted(c, wait, next, greatest, sent + 1)
           /\ Counted(Append(c, Msg(sent + 1)), wait, next, greatest, sent + 1)
           /\ \A n \in Nat : Counted(Append(c, Ack(n)), wait, next, greatest, sent)
<1>1. /\ \A i \in DOMAIN c : c[i].kind = "seq" => i = 1 /\ wait /\ c[i].n <= greatest + 1
      /\ next <= greatest + 1 /\ greatest <= sent /\ Increasing(c) /\ Below(c, sent + 1)
      /\ Listens(c, wait) => AtLeast(c, First(c, next))
  BY Zenon DEF Counted
<1>2. \A i \in DOMAIN c : c[i] \in Item /\ c[i].n \in Nat
  <2>1. \A i \in DOMAIN c : c[i] \in Item
    OBVIOUS
  <2> QED
    BY <2>1, Zenon DEF Item
<1>3. Counted(c, TRUE, next, greatest, sent)
  BY <1>1, Zenon DEF Counted, Listens
<1>4. Below(c, sent + 1 + 1) /\ greatest <= sent + 1
  BY <1>1, <1>2 DEF Below
<1>5. Counted(c, wait, next, greatest, sent + 1)
  BY <1>1, <1>4, Zenon DEF Counted
<1>6. First(c, next) <= sent + 1 /\ First(c, next) \in Nat
  <2>1. CASE HasSequence(c)
    <3>1. 1 \in DOMAIN c
      BY <2>1, AppendFacts DEF HasSequence
    <3>2. c[1].n <= greatest + 1 /\ c[1].n \in Nat
      BY <2>1, <3>1, <1>1, <1>2, Zenon DEF HasSequence
    <3> QED
      BY <2>1, <3>2, <1>1, SMTT(30) DEF First
  <2>2. CASE ~HasSequence(c)
    BY <2>2, <1>1 DEF First
  <2> QED
    BY <2>1, <2>2, Zenon
<1>7. ASSUME NEW e \in Item, NEW s \in Nat, e.kind # "seq", Counted(c, wait, next, greatest, s),
             e.kind = "msg" => First(c, next) <= e.n /\ e.n < s + 1 /\ Below(c, e.n)
      PROVE  Counted(Append(c, e), wait, next, greatest, s)
  <2> DEFINE d == Append(c, e)
  <2>1. /\ \A i \in DOMAIN d : (i \in DOMAIN c /\ d[i] = c[i]) \/ (i = Len(c) + 1 /\ d[i] = e)
        /\ \A i, j \in DOMAIN d : i < j => i \in DOMAIN c /\ d[i] = c[i]
        /\ c # <<>> => 1 \in DOMAIN c /\ d[1] = c[1]
        /\ c = <<>> => d[1] = e
        /\ d # <<>>
    BY AppendFacts, SMTT(30)
  <2> HIDE DEF d
  <2>2. HasSequence(d) <=> HasSequence(c)
    BY <2>1, <1>7, Zenon DEF HasSequence
  <2>3. First(d, next) = First(c, next)
    BY <2>1, <2>2, Zenon DEF First, HasSequence
  <2>4. /\ \A i \in DOMAIN c : c[i].kind = "seq" => i = 1 /\ wait /\ c[i].n <= greatest + 1
        /\ next <= greatest + 1 /\ greatest <= s /\ Increasing(c) /\ Below(c, s + 1)
        /\ Listens(c, wait) => AtLeast(c, First(c, next))
    BY <1>7, Zenon DEF Counted
  <2>5. Increasing(d)
    <3> SUFFICES ASSUME NEW i \in DOMAIN d, NEW j \in DOMAIN d, i < j, d[i].kind = "msg", d[j].kind = "msg"
                 PROVE  d[i].n < d[j].n
      BY Zenon DEF Increasing
    <3>1. i \in DOMAIN c /\ d[i] = c[i]
      BY <2>1, Zenon
    <3>2. CASE j \in DOMAIN c /\ d[j] = c[j]
      BY <3>1, <3>2, <2>4, Zenon DEF Increasing
    <3>3. CASE d[j] = e
      BY <3>1, <3>3, <1>7, Zenon DEF Below
    <3> QED
      BY <3>2, <3>3, <2>1, Zenon
  <2>6. Below(d, s + 1)
    BY <2>1, <2>4, <1>7, Zenon DEF Below
  <2>7. \A i \in DOMAIN d : d[i].kind = "seq" => i = 1 /\ wait /\ d[i].n <= greatest + 1
    BY <2>1, <2>4, <1>7, Zenon
  <2>8. Listens(d, wait) => AtLeast(d, First(d, next))
    BY <2>1, <2>2, <2>3, <2>4, <1>7, Zenon DEF Listens, AtLeast
  <2>9. Counted(d, wait, next, greatest, s)
    BY <2>4, <2>5, <2>6, <2>7, <2>8, Zenon DEF Counted
  <2> QED
    BY <2>9, Zenon DEF d
<1>8. Counted(Append(c, Msg(sent + 1)), wait, next, greatest, sent + 1)
  <2>1. Msg(sent + 1) \in Item /\ Msg(sent + 1).kind = "msg" /\ Msg(sent + 1).n = sent + 1 /\ sent + 1 \in Nat
    BY DEF Msg, Item
  <2>2. sent + 1 < sent + 1 + 1
    OBVIOUS
  <2> QED
    BY <2>1, <2>2, <1>1, <1>5, <1>6, <1>7
<1>9. ASSUME NEW n \in Nat PROVE Counted(Append(c, Ack(n)), wait, next, greatest, sent)
  <2>1. Ack(n) \in Item /\ Ack(n).kind = "ack"
    BY DEF Ack, Item
  <2> QED
    BY <2>1, <1>7
<1> QED
  BY <1>3, <1>5, <1>8, <1>9, Zenon

-----------------------------------------------------------------------------
TypeOK ==
    /\ total \in Nat /\ messages \in SUBSET Nat
    /\ reconnecting \in BOOLEAN /\ wait_for_sequence \in BOOLEAN
    /\ next_id \in Nat /\ latest \in Nat
    /\ pc \in [Senders -> {"idle", "transmit", "room"}] /\ sending \in [Senders -> Nat]
    /\ supervisor \in {"watch", "abort", "reopen", "lock", "sequence", "items", "lost"}
    /\ cursor \in Nat /\ runtime \in Nat /\ transport \in Nat
    /\ link \in {"up", "broken", "closed"}
    /\ up \in Seq(Item) /\ down \in Seq(Item)
    /\ s_wait \in BOOLEAN /\ s_next \in Nat /\ s_latest \in Nat
    /\ s_total \in Nat /\ s_acked \in Nat
    /\ got_up \in Seq(Nat) /\ got_down \in Seq(Nat) /\ torn \in BOOLEAN

-----------------------------------------------------------------------------
(* The inductive invariant *)

\* What the client has acknowledged it has delivered, and it reads nothing while the
\* supervisor gets a new transport.
Acknowledged ==
    /\ s_acked <= latest
    /\ AcksUpTo(up, latest)
    /\ supervisor \in {"abort", "reopen"} => wait_for_sequence /\ down = <<>> /\ link # "up"
    /\ Len(got_down) = latest

\* The count of the client is at most behind.
NumberedInv == Counted(down, wait_for_sequence, next_id, latest, s_total) /\ Acknowledged

\* The count of the client is right, and what it listens to leaves nothing out.
WholeInv ==
    /\ Channel(down, wait_for_sequence, next_id, latest, s_total)
    /\ link = "up" /\ Listens(down, wait_for_sequence) => Covers(down, First(down, next_id), {}, s_total)
    /\ Acknowledged

\* The count is right until messages of a frame are discarded, which takes a
\* completion that fails.
DownInv ==
    /\ NumberedInv
    /\ ~torn => WholeInv
    /\ Asks = {} => ~torn

-----------------------------------------------------------------------------
\* What the server sends first on a reopened transport.
LEMMA ResendFacts ==
    ASSUME s_acked \in Nat, s_total \in Nat, s_acked <= s_total
    PROVE  /\ ServerResend \in Seq(Item)
           /\ HasSequence(ServerResend) /\ ServerResend[1].n = s_acked + 1
           /\ Covers(ServerResend, s_acked + 1, {}, s_total)
           /\ \A i \in DOMAIN ServerResend : ServerResend[i].kind # "ack"
           /\ \A next \in Nat, greatest \in Nat :
                 next <= greatest + 1 /\ s_acked <= greatest /\ greatest <= s_total =>
                   Channel(ServerResend, TRUE, next, greatest, s_total)
<1> DEFINE l == s_total - s_acked
           r == [i \in 1..l |-> Msg(s_acked + i)]
           d == ServerResend
<1>1. l \in Nat
  OBVIOUS
<1> HIDE DEF l
<1>2. \A i \in 1..l : Msg(s_acked + i) \in Item
  BY DEF Msg, Item
<1>3. r \in Seq(Item) /\ Len(r) = l /\ DOMAIN r = 1..l /\ \A i \in 1..l : r[i] = Msg(s_acked + i)
  BY <1>1, <1>2
<1>4. Sequence(s_acked + 1) \in Item
  BY DEF Sequence, Item
<1> HIDE DEF r
<1>6. d = <<Sequence(s_acked + 1)>> \o r
  BY Zenon DEF ServerResend, r, l
<1> HIDE DEF d
<1>7. /\ d \in Seq(Item) /\ DOMAIN d = 1..(l + 1) /\ d # <<>>
      /\ d[1] = Sequence(s_acked + 1)
      /\ \A i \in 1..l : d[i + 1] = r[i]
  BY <1>3, <1>4, <1>6, ConsFacts, SMTT(30)
<1>8. \A i \in DOMAIN d : i # 1 => /\ i - 1 \in 1..l /\ d[i] = Msg(s_acked + (i - 1))
                                    /\ d[i].kind = "msg" /\ d[i].n = s_acked + (i - 1)
  <2> SUFFICES ASSUME NEW i \in DOMAIN d, i # 1
               PROVE  i - 1 \in 1..l /\ d[i] = Msg(s_acked + (i - 1)) /\ d[i].kind = "msg" /\ d[i].n = s_acked + (i - 1)
    BY Zenon
  <2>1. i - 1 \in 1..l /\ i = (i - 1) + 1
    BY <1>1, <1>7
  <2>2. d[i] = Msg(s_acked + (i - 1))
    BY <2>1, <1>3, <1>7, Zenon
  <2> QED
    BY <2>1, <2>2 DEF Msg
<1>9. 1 \in DOMAIN d /\ d[1].kind = "seq" /\ d[1].n = s_acked + 1
  BY <1>1, <1>7 DEF Sequence
<1>b. s_acked + l = s_total
  BY DEF l
<1>10. HasSequence(d)
  BY <1>7, <1>9, Zenon DEF HasSequence
<1>11. \A k \in Nat : s_acked + 1 <= k /\ k <= s_total => k - s_acked + 1 \in DOMAIN d /\ d[k - s_acked + 1] = Msg(k)
  <2> SUFFICES ASSUME NEW k \in Nat, s_acked + 1 <= k, k <= s_total
               PROVE  k - s_acked + 1 \in DOMAIN d /\ d[k - s_acked + 1] = Msg(k)
    BY Zenon
  <2>1. k - s_acked \in 1..l /\ s_acked + (k - s_acked) = k
    BY DEF l
  <2> QED
    BY <2>1, <1>3, <1>7
<1>12. Covers(d, s_acked + 1, {}, s_total)
  BY <1>11, Zenon DEF Covers
<1>13. Dense(d, s_acked + 1)
  <2> SUFFICES ASSUME NEW i \in DOMAIN d, d[i].kind = "msg"
               PROVE  /\ s_acked + 1 <= d[i].n
                      /\ \A k \in Nat : s_acked + 1 <= k /\ k < d[i].n => Before(d, i, k)
    BY Zenon DEF Dense
  <2>1. i # 1
    BY <1>9, Zenon
  <2>2. i - 1 \in 1..l /\ d[i].n = s_acked + (i - 1)
    BY <2>1, <1>8, Zenon
  <2>3. ASSUME NEW k \in Nat, s_acked + 1 <= k, k < d[i].n PROVE Before(d, i, k)
    <3>0. i \in Nat
      BY <1>1, <1>7
    <3>1. k <= s_total /\ k - s_acked + 1 < i
      BY <3>0, <2>2, <2>3, <1>1, <1>b, SMTT(30)
    <3> QED
      BY <3>1, <2>3, <1>11, Zenon DEF Before
  <2> QED
    BY <2>2, <2>3
<1>14. Increasing(d)
  <2> SUFFICES ASSUME NEW i \in DOMAIN d, NEW j \in DOMAIN d, i < j, d[i].kind = "msg", d[j].kind = "msg"
               PROVE  d[i].n < d[j].n
    BY Zenon DEF Increasing
  <2>1. i # 1 /\ j # 1
    BY <1>9, Zenon
  <2>2. d[i].n = s_acked + (i - 1) /\ d[j].n = s_acked + (j - 1)
    BY <2>1, <1>8, Zenon
  <2>3. i \in Nat /\ j \in Nat
    BY <1>1, <1>7
  <2> QED
    BY <2>2, <2>3
<1>15. Below(d, s_total + 1)
  <2> SUFFICES ASSUME NEW i \in DOMAIN d, d[i].kind = "msg" PROVE d[i].n < s_total + 1
    BY Zenon DEF Below
  <2>1. i # 1
    BY <1>9, Zenon
  <2>2. i - 1 \in 1..l /\ d[i].n = s_acked + (i - 1)
    BY <2>1, <1>8, Zenon
  <2> QED
    BY <2>2, <1>1, <1>b
<1>16. ASSUME NEW next \in Nat, NEW greatest \in Nat, next <= greatest + 1, s_acked <= greatest, greatest <= s_total
       PROVE  Channel(d, TRUE, next, greatest, s_total)
  <2>1. \A i \in DOMAIN d : d[i].kind = "seq" => i = 1 /\ d[i].n <= greatest + 1
    <3> SUFFICES ASSUME NEW i \in DOMAIN d, d[i].kind = "seq" PROVE i = 1 /\ d[i].n <= greatest + 1
      BY Zenon
    <3>1. i = 1
      BY <1>8, Zenon
    <3> QED
      BY <3>1, <1>9, <1>16
  <2>2. First(d, next) = s_acked + 1
    BY <1>9, <1>10, Zenon DEF First
  <2> QED
    BY <2>1, <2>2, <1>13, <1>14, <1>15, <1>16, Zenon DEF Channel
<1>17. \A i \in DOMAIN d : d[i].kind # "ack"
  BY <1>8, <1>9, Zenon
<1> QED
  BY <1>7, <1>9, <1>10, <1>12, <1>16, <1>17, Zenon DEF d

-----------------------------------------------------------------------------
(* Types *)

\* The ids resend() writes.
LEMMA IdFacts ==
    ASSUME TypeOK
    PROVE  /\ FirstId \in Nat
           /\ messages # {} => FirstId \in messages /\ \A m \in messages : FirstId <= m
           /\ Unsent # {} => /\ Min(Unsent) \in Nat /\ Min(Unsent) \in messages /\ cursor <= Min(Unsent)
                             /\ \A m \in Unsent : Min(Unsent) <= m
<1>1. messages \in SUBSET Nat /\ Unsent \in SUBSET Nat /\ \A m \in Unsent : m \in messages /\ cursor <= m
  BY Zenon DEF Unsent, TypeOK
<1>2. messages # {} => Min(messages) \in messages /\ \A m \in messages : Min(messages) <= m
  BY <1>1, MinFacts, Zenon
<1>3. Unsent # {} => Min(Unsent) \in Unsent /\ \A m \in Unsent : Min(Unsent) <= m
  BY <1>1, MinFacts, Zenon
<1>4. messages # {} => FirstId = Min(messages)
  BY Zenon DEF FirstId
<1>5. messages = {} => FirstId \in Nat
  BY DEF FirstId, TypeOK
<1> QED
  BY <1>1, <1>2, <1>3, <1>4, <1>5, Zenon

\* A write leaves a sequence of items behind.
LEMMA WriteType ==
    ASSUME TypeOK, NEW t, NEW item \in Item, WriteOk(t, item) \/ (WriteErr(t) /\ UNCHANGED up)
    PROVE  up' \in Seq(Item)
<1>1. up \in Seq(Item) /\ Append(up, item) \in Seq(Item)
  BY AppendFacts, Zenon DEF TypeOK
<1> QED
  BY <1>1, Zenon DEF WriteOk

\* Every step keeps the types, as long as the client has acknowledged no more than
\* the server has sent: ServerResend counts on it.
LEMMA TypeStep == TypeOK /\ s_acked <= s_total /\ [Next]_vars => TypeOK'
<1> SUFFICES ASSUME TypeOK, s_acked <= s_total, [Next]_vars PROVE TypeOK'
  BY Zenon
<1> USE ReconnectAssumption DEF outVars, ackVars, inVars, senderVars, resumeVars, linkVars, serverVars, clientVars
<1>a. \A n \in Nat : Msg(n) \in Item /\ Ack(n) \in Item /\ Sequence(n) \in Item
  BY Zenon DEF Msg, Ack, Sequence, Item
<1>b. up # <<>> => Tail(up) \in Seq(Item) /\ Head(up) \in Item /\ Head(up).n \in Nat
  <2>1. up # <<>> => Tail(up) \in Seq(Item) /\ Head(up) \in Item
    BY TailFacts, SMTT(30) DEF TypeOK
  <2> QED
    BY <2>1, Zenon DEF Item
<1>c. down # <<>> => Tail(down) \in Seq(Item) /\ Head(down) \in Item /\ Head(down).n \in Nat
  <2>1. down # <<>> => Tail(down) \in Seq(Item) /\ Head(down) \in Item
    BY TailFacts, SMTT(30) DEF TypeOK
  <2> QED
    BY <2>1, Zenon DEF Item
<1>1. ASSUME NEW s \in Senders, SendBuffer(s) PROVE TypeOK'
  BY <1>1, SMTT(30) DEF SendBuffer, TypeOK
<1>2. ASSUME NEW s \in Senders, SendTransmit(s) PROVE TypeOK'
  <2>1. up' \in Seq(Item)
    <3>1. Msg(sending[s]) \in Item
      BY <1>a, Zenon DEF TypeOK
    <3> QED
      BY <3>1, <1>2, WriteType, Zenon DEF SendTransmit
  <2> QED
    BY <2>1, <1>2, ZenonT(60) DEF SendTransmit, Disconnected, TypeOK
<1>3. ASSUME NEW s \in Senders, SendReturn(s) PROVE TypeOK'
  BY <1>3, Zenon DEF SendReturn, TypeOK
<1>4. CASE ReceiveIgnored
  BY <1>4, <1>b, <1>c, Zenon DEF ReceiveIgnored, Disconnected, TypeOK
<1>5. CASE ReceiveMessage
  <2>1. up' \in Seq(Item)
    BY <1>5, <1>a, WriteType, Zenon DEF ReceiveMessage, Reply, ReplyFails, TypeOK
  <2>2. Append(got_down, Head(down).n) \in Seq(Nat)
    BY <1>5, <1>c, AppendFacts, Zenon DEF ReceiveMessage, TypeOK
  <2>3. got_down' \in Seq(Nat) /\ latest' \in Nat
    BY <2>2, <1>5, Zenon DEF ReceiveMessage, TypeOK
  <2>0. /\ down # <<>> /\ next_id' = next_id + 1
        /\ \/ down' = Tail(down) /\ torn' = torn
           \/ \E k \in 1..Len(down) : down' = SubSeq(down, k + 1, Len(down)) /\ torn' = (torn \/ k > 1)
    BY <1>5, Zenon DEF ReceiveMessage, ReplyFails
  <2>4. down' \in Seq(Item) /\ next_id' \in Nat /\ torn' \in BOOLEAN
    <3>1. down \in Seq(Item) /\ next_id \in Nat /\ torn \in BOOLEAN
      BY Zenon DEF TypeOK
    <3>2. \A k \in 1..Len(down) : SubSeq(down, k + 1, Len(down)) \in Seq(Item)
      BY <3>1, SuffixFacts, Zenon
    <3>3. down' \in Seq(Item) /\ torn' \in BOOLEAN
      BY <2>0, <3>1, <3>2, <1>c, Zenon
    <3> QED
      BY <2>0, <3>1, <3>3
  <2>5. UNCHANGED <<outVars, reconnecting, wait_for_sequence, senderVars, resumeVars, linkVars, serverVars>>
    BY <1>5, Zenon DEF ReceiveMessage
  <2> QED
    BY <2>1, <2>3, <2>4, <2>5, Zenon DEF TypeOK
<1>6. CASE ReceiveSequence
  BY <1>6, <1>b, <1>c, ZenonT(60) DEF ReceiveSequence, Disconnected, TypeOK
<1>7. CASE ReceiveAck
  BY <1>7, <1>b, <1>c, ZenonT(60) DEF ReceiveAck, Disconnected, TypeOK
<1>8. CASE AckTimer
  <2>1. up' \in Seq(Item)
    <3>1. Ack(AckId) \in Item
      BY <1>a, Zenon DEF AckId, TypeOK
    <3> QED
      BY <3>1, <1>8, WriteType, Zenon DEF AckTimer, TypeOK
  <2> QED
    BY <2>1, <1>8, Zenon DEF AckTimer, TypeOK
<1>9. CASE AckDone
  BY <1>9, <1>b, <1>c, Zenon DEF AckDone, Disconnected, TypeOK
<1>10. CASE TransportClosed
  BY <1>10, <1>b, <1>c, Zenon DEF TransportClosed, Disconnected, TypeOK
<1>11. CASE AbortOld
  BY <1>11, <1>b, <1>c, Zenon DEF AbortOld, Disconnected, TypeOK
<1>12. CASE Reopen
  <2>1. down' \in Seq(Item)
    BY <1>12, ResendFacts, Zenon DEF Reopen, TypeOK
  <2>2. up' \in Seq(Item)
    BY <1>12, EmptyFacts, Zenon DEF Reopen
  <2> QED
    BY <2>1, <2>2, <1>12 DEF Reopen, TypeOK
<1>13. CASE ReopenFails
  BY <1>13, <1>b, <1>c, Zenon DEF ReopenFails, Disconnected, TypeOK
<1>14. CASE LockRuntime
  BY <1>14, <1>b, <1>c, Zenon DEF LockRuntime, Disconnected, TypeOK
<1>15. CASE ResendSequence
  <2>1. FirstId \in Nat
    BY IdFacts, Zenon
  <2>2. up' \in Seq(Item)
    BY <2>1, <1>15, <1>a, WriteType, Zenon DEF ResendSequence
  <2> QED
    BY <2>2, <1>15, Zenon DEF ResendSequence, TypeOK
<1>16. CASE ResendItem
  <2>1. Min(Unsent) \in Nat
    BY <1>16, IdFacts, Zenon DEF ResendItem
  <2>2. up' \in Seq(Item)
    BY <2>1, <1>16, <1>a, WriteType, Zenon DEF ResendItem
  <2> QED
    BY <2>1, <2>2, <1>16, SMTT(30) DEF ResendItem, TypeOK
<1>17. CASE ResendDone
  BY <1>17, <1>b, <1>c, ZenonT(60) DEF ResendDone, Disconnected, TypeOK
<1>18. CASE ResendFails
  BY <1>18, <1>b, <1>c, Zenon DEF ResendFails, Disconnected, TypeOK
<1>19. CASE Drop
  <2>1. up' \in Seq(Item)
    BY <1>19, EmptyFacts, Zenon DEF Drop
  <2>0. down \in Seq(Item)
    BY Zenon DEF TypeOK
  <2>2. down' \in Seq(Item)
    <3>1. PICK k \in 0..Len(down) : down' = SubSeq(down, 1, k)
      BY <1>19, Zenon DEF Drop
    <3>2. SubSeq(down, 1, k) \in Seq(Item)
      BY <2>0, PrefixFacts, Zenon
    <3> QED
      BY <3>1, <3>2, Zenon
  <2> QED
    BY <2>1, <2>2, <1>19, Zenon DEF Drop, TypeOK
<1>20. CASE ServerIgnores
  BY <1>20, <1>b, <1>c, Zenon DEF ServerIgnores, Disconnected, TypeOK
<1>21. CASE ServerReceive
  <2>0. Head(up).n \in Nat /\ got_up \in Seq(Nat)
    BY <1>21, <1>b, Zenon DEF ServerReceive, TypeOK
  <2>1. Append(got_up, Head(up).n) \in Seq(Nat)
    BY <2>0, AppendFacts, Zenon
  <2>2. got_up' \in Seq(Nat) /\ s_latest' \in Nat /\ s_next' \in Nat
    <3>1. got_up \in Seq(Nat) /\ s_latest \in Nat /\ s_next \in Nat
      BY Zenon DEF TypeOK
    <3>2. /\ s_next' = s_next + 1 /\ s_latest' \in {s_latest, s_next}
          /\ got_up' = got_up \/ got_up' = Append(got_up, Head(up).n)
      BY <1>21, Zenon DEF ServerReceive
    <3>3. got_up' \in Seq(Nat)
      BY <2>1, <3>1, <3>2, Zenon
    <3> QED
      BY <3>1, <3>2, <3>3
  <2>3. up' \in Seq(Item)
    BY <1>21, <1>b, Zenon DEF ServerReceive
  <2>4. UNCHANGED <<clientVars, reconnecting, wait_for_sequence, resumeVars, linkVars, down, s_wait, s_total, s_acked>>
    BY <1>21, Zenon DEF ServerReceive
  <2> QED
    BY <2>2, <2>3, <2>4, Zenon DEF TypeOK
<1>22. CASE ServerReceiveSequence
  BY <1>22, <1>b, <1>c, ZenonT(60) DEF ServerReceiveSequence, Disconnected, TypeOK
<1>23. CASE ServerReceiveAck
  BY <1>23, <1>b, <1>c, Zenon DEF ServerReceiveAck, Disconnected, TypeOK
<1>24. CASE ServerSend
  <2>1. down' \in Seq(Item)
    BY <1>24, <1>a, AppendFacts DEF ServerSend, TypeOK
  <2> QED
    BY <2>1, <1>24, SMTT(30) DEF ServerSend, TypeOK
<1>25. CASE ServerAck
  <2>1. down' \in Seq(Item)
    BY <1>25, <1>a, AppendFacts, Zenon DEF ServerAck, TypeOK
  <2> QED
    BY <2>1, <1>25, Zenon DEF ServerAck, TypeOK
<1>26. CASE UNCHANGED vars
  BY <1>26, Zenon DEF vars, TypeOK
<1> QED
  BY <1>1, <1>2, <1>3, <1>4, <1>5, <1>6, <1>7, <1>8, <1>9, <1>10, <1>11, <1>12, <1>13, <1>14,
     <1>15, <1>16, <1>17, <1>18, <1>19, <1>20, <1>21, <1>22, <1>23, <1>24, <1>25, <1>26, ZenonT(30)
     DEF Next, Receive, Resume, Awaited, Server

-----------------------------------------------------------------------------
(* Downstream *)

\* No Ack runs ahead of what is counted, whatever is taken, written or cut.
LEMMA AcksKept ==
    ASSUME NEW c \in Seq(Item), NEW a \in Nat, NEW b \in Nat, a <= b, AcksUpTo(c, a)
    PROVE  /\ AcksUpTo(c, b) /\ AcksUpTo(<<>>, b)
           /\ c # <<>> => AcksUpTo(Tail(c), b)
           /\ \A item \in Item : (item.kind = "ack" => item.n <= b) => AcksUpTo(Append(c, item), b)
           /\ \A z \in 0..Len(c) : AcksUpTo(SubSeq(c, 1, z), b)
<1>1. \A i \in DOMAIN c : c[i] \in Item /\ c[i].n \in Nat
  <2>1. \A i \in DOMAIN c : c[i] \in Item
    BY AppendFacts
  <2> QED
    BY <2>1, Zenon DEF Item
<1>2. AcksUpTo(c, b)
  BY <1>1 DEF AcksUpTo
<1>3. AcksUpTo(<<>>, b)
  BY EmptyFacts, Zenon DEF AcksUpTo
<1>4. ASSUME c # <<>> PROVE AcksUpTo(Tail(c), b)
  BY <1>2, <1>4, TailFacts DEF AcksUpTo
<1>5. ASSUME NEW item \in Item, item.kind = "ack" => item.n <= b PROVE AcksUpTo(Append(c, item), b)
  <2>1. \A i \in DOMAIN Append(c, item) : (i \in DOMAIN c /\ Append(c, item)[i] = c[i]) \/ Append(c, item)[i] = item
    BY AppendFacts
  <2> QED
    BY <2>1, <1>2, <1>5, Zenon DEF AcksUpTo
<1>6. ASSUME NEW z \in 0..Len(c) PROVE AcksUpTo(SubSeq(c, 1, z), b)
  BY <1>2, PrefixFacts, Zenon DEF AcksUpTo
<1> QED
  BY <1>2, <1>3, <1>4, <1>5, <1>6, Zenon

\* A write adds no acknowledgement the client cannot give.
LEMMA WriteAcks ==
    ASSUME TypeOK, AcksUpTo(up, latest), NEW t, NEW item \in Item, NEW b \in Nat, latest <= b,
           item.kind = "ack" => item.n <= b, WriteOk(t, item) \/ UNCHANGED up
    PROVE  AcksUpTo(up', b)
<1>1. AcksUpTo(up, b) /\ AcksUpTo(Append(up, item), b)
  BY AcksKept, Zenon DEF TypeOK
<1> QED
  BY <1>1, Zenon DEF WriteOk

\* A step that leaves the messages of the server and their count alone.
Aside ==
    /\ UNCHANGED <<down, next_id, latest, s_total, got_down, torn>>
    /\ wait_for_sequence' = wait_for_sequence \/ wait_for_sequence'
    /\ link' = link \/ link' # "up"
    /\ s_acked' <= latest
    /\ AcksUpTo(up', latest)
    /\ supervisor' \in {"abort", "reopen"} => wait_for_sequence' /\ down = <<>> /\ link' # "up"

\* What the invariant says of the server's messages depends on nothing else.
LEMMA AsideStep == ASSUME TypeOK, TypeOK', WholeInv, Aside PROVE WholeInv'
<1>1. Channel(down, wait_for_sequence', next_id, latest, s_total)
  <2>1. Channel(down, TRUE, next_id, latest, s_total)
    BY SmallSteps, ZenonT(60) DEF WholeInv, Acknowledged, TypeOK
  <2>2. wait_for_sequence' = wait_for_sequence \/ wait_for_sequence' = TRUE
    BY Zenon DEF Aside, TypeOK
  <2> QED
    BY <2>1, <2>2, Zenon DEF WholeInv, Acknowledged
<1>2. Listens(down, wait_for_sequence') => Listens(down, wait_for_sequence)
  BY Zenon DEF Aside, Listens
<1>3. down' = down /\ next_id' = next_id /\ latest' = latest /\ s_total' = s_total /\ got_down' = got_down
  BY Zenon DEF Aside
<1>4. link' = "up" => link = "up"
  BY Zenon DEF Aside
<1>5. Channel(down', wait_for_sequence', next_id', latest', s_total')
  BY <1>1, <1>3, Zenon
<1>6. link' = "up" /\ Listens(down', wait_for_sequence') => Covers(down', First(down', next_id'), {}, s_total')
  BY <1>2, <1>3, <1>4, Zenon DEF WholeInv, Acknowledged
<1>7. s_acked' <= latest' /\ AcksUpTo(up', latest') /\ Len(got_down') = latest'
  BY <1>3, Zenon DEF WholeInv, Acknowledged, Aside
<1>8. supervisor' \in {"abort", "reopen"} => wait_for_sequence' /\ down' = <<>> /\ link' # "up"
  BY <1>3, Zenon DEF Aside
<1> QED
  BY <1>5, <1>6, <1>7, <1>8, Zenon DEF WholeInv, Acknowledged

\* The steps that leave the messages of the server alone are all but eight.
LEMMA AsideActions ==
    ASSUME TypeOK, TypeOK', NumberedInv,
           \/ \E s \in Senders : SendBuffer(s) \/ SendTransmit(s) \/ SendReturn(s)
           \/ AckTimer \/ AckDone \/ TransportClosed \/ AbortOld \/ ReopenFails \/ LockRuntime
           \/ ResendSequence \/ ResendItem \/ ResendDone \/ ResendFails
           \/ Server \/ UNCHANGED vars
    PROVE  Aside
<1> USE DEF outVars, ackVars, inVars, senderVars, resumeVars, linkVars, serverVars, clientVars
<1>a. /\ s_acked <= latest /\ AcksUpTo(up, latest) /\ latest \in Nat /\ up \in Seq(Item)
      /\ supervisor \in {"abort", "reopen"} => wait_for_sequence /\ down = <<>> /\ link # "up"
  BY Zenon DEF NumberedInv, Acknowledged, TypeOK
<1>b. /\ AcksUpTo(up, latest) /\ AcksUpTo(<<>>, latest) /\ (up # <<>> => AcksUpTo(Tail(up), latest))
  BY <1>a, AcksKept
<1>c. \A n \in Nat : /\ Msg(n) \in Item /\ Ack(n) \in Item /\ Sequence(n) \in Item
                      /\ Msg(n).kind # "ack" /\ Sequence(n).kind # "ack" /\ Ack(n).n = n
  BY Zenon DEF Msg, Ack, Sequence, Item
<1>1. ASSUME NEW s \in Senders, SendBuffer(s) \/ SendReturn(s) PROVE Aside
  BY <1>1, <1>a, Zenon DEF SendBuffer, SendReturn, Aside
<1>2. ASSUME NEW s \in Senders, SendTransmit(s) PROVE Aside
  <2>1. AcksUpTo(up', latest)
    <3>1. sending[s] \in Nat
      BY Zenon DEF TypeOK
    <3> QED
      BY <3>1, <1>2, <1>a, <1>c, WriteAcks, SMTT(30) DEF SendTransmit
  <2> QED
    BY <2>1, <1>2, <1>a, ZenonT(30) DEF SendTransmit, Disconnected, Aside
<1>3. CASE AckTimer
  <2>1. AcksUpTo(up', latest)
    <3>1. Ack(AckId) \in Item /\ Ack(AckId).n = latest
      BY <1>a, <1>c, Zenon DEF AckId
    <3> QED
      BY <3>1, <1>3, <1>a, WriteAcks, SMTT(30) DEF AckTimer
  <2> QED
    BY <2>1, <1>3, <1>a, ZenonT(30) DEF AckTimer, Aside
<1>4. CASE AckDone \/ AbortOld \/ ReopenFails \/ LockRuntime \/ ResendDone \/ ResendFails
  BY <1>4, <1>a, ZenonT(60) DEF AckDone, AbortOld, ReopenFails, LockRuntime, ResendDone, ResendFails, Aside
<1>5. CASE TransportClosed
  BY <1>5, <1>a, Zenon DEF TransportClosed, Disconnected, Aside
<1>6. CASE ResendSequence
  <2>1. FirstId \in Nat
    BY IdFacts, Zenon
  <2>2. AcksUpTo(up', latest)
    BY <2>1, <1>6, <1>a, <1>c, WriteAcks, SMTT(30) DEF ResendSequence
  <2> QED
    BY <2>2, <1>6, <1>a, Zenon DEF ResendSequence, Aside
<1>7. CASE ResendItem
  <2>1. Min(Unsent) \in Nat
    BY <1>7, IdFacts, ZenonT(30) DEF ResendItem
  <2>2. AcksUpTo(up', latest)
    BY <2>1, <1>7, <1>a, <1>c, WriteAcks, SMTT(30) DEF ResendItem
  <2> QED
    BY <2>2, <1>7, <1>a, Zenon DEF ResendItem, Aside
<1>8. CASE ServerIgnores \/ ServerReceive \/ ServerReceiveSequence
  BY <1>8, <1>a, <1>b, ZenonT(60) DEF ServerIgnores, ServerReceive, ServerReceiveSequence, Aside
<1>9. CASE ServerReceiveAck
  <2>1. Head(up).n <= latest
    BY <1>9, <1>a, TailFacts DEF ServerReceiveAck, AcksUpTo
  <2> QED
    BY <2>1, <1>9, <1>a, <1>b, ZenonT(30) DEF ServerReceiveAck, Aside
<1>10. CASE UNCHANGED vars
  BY <1>10, <1>a, Zenon DEF vars, Aside
<1> QED
  BY <1>1, <1>2, <1>3, <1>4, <1>5, <1>6, <1>7, <1>8, <1>9, <1>10, ZenonT(30) DEF Server

\* A message is taken, and with it the rest of its frame when its completion fails.
LEMMA TakenFacts ==
    ASSUME TypeOK, ReceiveMessage
    PROVE  /\ \E k \in 1..Len(down) : down' = SubSeq(down, k + 1, Len(down)) /\ torn' = (torn \/ k > 1)
           /\ ~torn' => ~torn /\ down' = Tail(down)
           /\ Asks = {} => torn' = torn
           /\ WriteOk(transport, Msg(0)) \/ UNCHANGED up
<1>1. down \in Seq(Item) /\ down # <<>> /\ torn \in BOOLEAN
  BY Zenon DEF TypeOK, ReceiveMessage
<1>2. 1 \in 1..Len(down) /\ ~(1 > 1) /\ Tail(down) = SubSeq(down, 1 + 1, Len(down))
  BY <1>1
<1>3. \/ down' = Tail(down) /\ torn' = torn
      \/ \E n : ReplyFails(n)
  BY Zenon DEF ReceiveMessage
<1>4. \E k \in 1..Len(down) : down' = SubSeq(down, k + 1, Len(down)) /\ torn' = (torn \/ k > 1)
  <2>1. torn = (torn \/ 1 > 1)
    BY <1>1, <1>2
  <2> QED
    BY <2>1, <1>2, <1>3, Zenon DEF ReplyFails
<1>5. ASSUME ~torn' PROVE ~torn /\ down' = Tail(down)
  <2>1. PICK k \in 1..Len(down) : down' = SubSeq(down, k + 1, Len(down)) /\ torn' = (torn \/ k > 1)
    BY <1>4, Zenon
  <2>2. ~torn /\ ~(k > 1)
    BY <1>5, <2>1, Zenon
  <2>3. k = 1
    BY <2>2, <1>1
  <2> QED
    BY <2>1, <2>2, <2>3, <1>2, Zenon
<1>6. Asks = {} => torn' = torn
  BY <1>3, Zenon DEF ReplyFails
<1>7. WriteOk(transport, Msg(0)) \/ UNCHANGED up
  BY Zenon DEF ReceiveMessage, Reply, ReplyFails
<1> QED
  BY <1>4, <1>5, <1>6, <1>7, Zenon

\* A message arrives, and is delivered if it has not been before.
LEMMA ReceiveMessageStep ==
    ASSUME TypeOK, TypeOK', WholeInv, ReceiveMessage, ~torn'
    PROVE  WholeInv' /\ [Downstream!Next]_<<s_total, got_down>>
<1> USE DEF outVars, ackVars, inVars, senderVars, resumeVars, linkVars, serverVars, clientVars
<1>1. /\ down \in Seq(Item) /\ down # <<>> /\ ~wait_for_sequence /\ down[1].kind = "msg"
      /\ Head(down) = down[1] /\ next_id \in Nat /\ latest \in Nat /\ s_total \in Nat /\ got_down \in Seq(Nat)
  BY TailFacts, Zenon DEF ReceiveMessage, TypeOK
<1>2. Channel(down, FALSE, next_id, latest, s_total)
  <2>1. wait_for_sequence = FALSE
    BY <1>1, Zenon DEF TypeOK
  <2> QED
    BY <2>1, Zenon DEF WholeInv, Acknowledged
<1>3. /\ down[1].n = next_id /\ next_id <= s_total
      /\ Channel(Tail(down), FALSE, next_id + 1, IF next_id > latest THEN next_id ELSE latest, s_total)
      /\ ~HasSequence(down) /\ ~HasSequence(Tail(down))
      /\ \A missing : Covers(down, next_id, missing, s_total) => Covers(Tail(down), next_id + 1, missing, s_total)
  BY <1>1, <1>2, TakeMessage, ZenonT(60)
<1>4. /\ down' = Tail(down) /\ next_id' = next_id + 1 /\ wait_for_sequence' = wait_for_sequence
      /\ link' = link /\ s_total' = s_total /\ s_acked' = s_acked /\ supervisor' = supervisor
      /\ latest' = IF next_id > latest THEN next_id ELSE latest
      /\ got_down' = IF next_id > latest THEN Append(got_down, next_id) ELSE got_down
  BY <1>1, <1>3, TakenFacts, Zenon DEF ReceiveMessage, Fresh
<1>5. next_id <= latest + 1 /\ latest <= latest'
  BY <1>1, <1>2, <1>4, SMTT(30) DEF Channel
<1>6. AcksUpTo(up', latest')
  <2>0. Msg(0) \in Item /\ Msg(0).kind # "ack"
    BY Zenon DEF Msg, Item
  <2>1. WriteOk(transport, Msg(0)) \/ UNCHANGED up
    BY TakenFacts, Zenon
  <2>2. AcksUpTo(up, latest) /\ latest' \in Nat
    BY Zenon DEF WholeInv, Acknowledged, TypeOK
  <2> QED
    BY <2>0, <2>1, <2>2, <1>5, WriteAcks, Zenon
<1>7. Channel(down', wait_for_sequence', next_id', latest', s_total')
  <2>1. wait_for_sequence' = FALSE
    BY <1>1, <1>4, Zenon DEF TypeOK
  <2> QED
    BY <2>1, <1>3, <1>4, ZenonT(60)
<1>8. link' = "up" => Covers(down', First(down', next_id'), {}, s_total')
  <2> SUFFICES ASSUME link' = "up" PROVE Covers(down', First(down', next_id'), {}, s_total')
    BY Zenon
  <2>1. Covers(down, next_id, {}, s_total)
    BY <1>1, <1>3, <1>4, Zenon DEF WholeInv, Acknowledged, Listens, First
  <2> QED
    BY <2>1, <1>3, <1>4, Zenon DEF First
<1>9. s_acked' <= latest'
  <2>1. s_acked <= latest /\ s_acked \in Nat /\ latest' \in Nat
    BY Zenon DEF WholeInv, Acknowledged, TypeOK
  <2> QED
    BY <2>1, <1>1, <1>4, <1>5
<1>10. Len(got_down') = latest'
  <2>1. Len(got_down) = latest /\ Len(Append(got_down, next_id)) = Len(got_down) + 1
    BY <1>1, AppendFacts DEF WholeInv, Acknowledged
  <2> QED
    BY <2>1, <1>1, <1>4, <1>5, SMTT(30)
<1>11. supervisor \notin {"abort", "reopen"}
  BY <1>1, Zenon DEF WholeInv, Acknowledged
<1>12. [Downstream!Next]_<<s_total, got_down>>
  <2>1. CASE next_id > latest
    <3>1. Len(got_down) = latest /\ next_id = latest + 1
      BY <2>1, <1>1, <1>5, SMTT(30) DEF WholeInv, Acknowledged
    <3>2. Len(got_down) < s_total /\ got_down' = Append(got_down, Len(got_down) + 1) /\ s_total' = s_total
      BY <2>1, <3>1, <1>1, <1>3, <1>4, SMTT(30)
    <3> QED
      BY <3>2, Zenon DEF Downstream!Next, Downstream!Deliver
  <2>2. CASE ~(next_id > latest)
    BY <2>2, <1>4, Zenon
  <2> QED
    BY <2>1, <2>2, Zenon
<1> QED
  BY <1>4, <1>6, <1>7, <1>8, <1>9, <1>10, <1>11, <1>12, ZenonT(30) DEF WholeInv, Acknowledged

\* Sequence arrives: it is accepted, or the client stays deaf.
LEMMA ReceiveSequenceStep ==
    ASSUME TypeOK, TypeOK', WholeInv, ReceiveSequence
    PROVE  WholeInv' /\ UNCHANGED <<s_total, got_down>>
<1> USE DEF outVars, ackVars, inVars, senderVars, resumeVars, linkVars, serverVars, clientVars
<1>1. /\ down \in Seq(Item) /\ down # <<>> /\ down[1].kind = "seq" /\ Head(down) = down[1]
      /\ next_id \in Nat /\ latest \in Nat /\ s_total \in Nat /\ wait_for_sequence \in BOOLEAN
  BY TailFacts, Zenon DEF ReceiveSequence, TypeOK
<1>2. /\ wait_for_sequence /\ Listens(down, wait_for_sequence) /\ First(down, next_id) = down[1].n
      /\ Channel(Tail(down), TRUE, next_id, latest, s_total)
      /\ Channel(Tail(down), FALSE, down[1].n, latest, s_total)
      /\ ~HasSequence(Tail(down))
      /\ \A missing : Covers(down, down[1].n, missing, s_total) => Covers(Tail(down), down[1].n, missing, s_total)
  <2>1. Channel(down, wait_for_sequence, next_id, latest, s_total)
    BY Zenon DEF WholeInv, Acknowledged
  <2>2. wait_for_sequence = TRUE
    BY <2>1, <1>1, TailFacts DEF Channel
  <2>3. Channel(down, TRUE, next_id, latest, s_total)
    BY <2>1, <2>2, Zenon
  <2>4. /\ Listens(down, TRUE) /\ First(down, next_id) = down[1].n
        /\ Channel(Tail(down), TRUE, next_id, latest, s_total)
        /\ Channel(Tail(down), FALSE, down[1].n, latest, s_total)
        /\ ~HasSequence(Tail(down))
        /\ \A missing : Covers(down, down[1].n, missing, s_total) => Covers(Tail(down), down[1].n, missing, s_total)
    BY <2>3, <1>1, TakeSequence, ZenonT(60)
  <2> QED
    BY <2>2, <2>4, Zenon
<1>3. UNCHANGED <<latest, got_down, link, s_total, s_acked, supervisor, up>> /\ down' = Tail(down)
  BY Zenon DEF ReceiveSequence
<1>4. supervisor \notin {"abort", "reopen"}
  BY <1>1, Zenon DEF WholeInv, Acknowledged
<1>5. CASE down[1].n > next_id
  <2>1. next_id' = next_id /\ wait_for_sequence' = TRUE
    BY <1>1, <1>2, <1>5, ZenonT(60) DEF ReceiveSequence
  <2>2. ~Listens(down', wait_for_sequence')
    BY <2>1, <1>2, <1>3, Zenon DEF Listens
  <2> QED
    BY <2>1, <2>2, <1>2, <1>3, <1>4, Zenon DEF WholeInv, Acknowledged
<1>6. CASE ~(down[1].n > next_id)
  <2>1. next_id' = down[1].n /\ wait_for_sequence' = FALSE
    BY <1>1, <1>6, Zenon DEF ReceiveSequence
  <2>2. link' = "up" => Covers(down', First(down', next_id'), {}, s_total')
    BY <2>1, <1>2, <1>3, Zenon DEF WholeInv, Acknowledged, First
  <2> QED
    BY <2>1, <2>2, <1>2, <1>3, <1>4, Zenon DEF WholeInv, Acknowledged
<1> QED
  BY <1>3, <1>5, <1>6, Zenon

\* An Ack is taken, or anything else while the client waits for Sequence.
LEMMA SkipStep ==
    ASSUME TypeOK, TypeOK', WholeInv, ReceiveAck \/ ReceiveIgnored
    PROVE  WholeInv' /\ UNCHANGED <<s_total, got_down>>
<1> USE DEF outVars, ackVars, inVars, senderVars, resumeVars, linkVars, serverVars, clientVars
<1>1. /\ down \in Seq(Item) /\ down # <<>> /\ Head(down) = down[1]
      /\ next_id \in Nat /\ latest \in Nat /\ s_total \in Nat /\ wait_for_sequence \in BOOLEAN
  BY TailFacts, Zenon DEF ReceiveAck, ReceiveIgnored, TypeOK
<1>2. down[1].kind # "seq" /\ (wait_for_sequence \/ down[1].kind = "ack")
  BY <1>1, ZenonT(60) DEF ReceiveAck, ReceiveIgnored
<1>3. /\ Channel(Tail(down), wait_for_sequence, next_id, latest, s_total)
      /\ ~HasSequence(down) /\ ~HasSequence(Tail(down))
      /\ ~wait_for_sequence =>
           \A missing : Covers(down, next_id, missing, s_total) => Covers(Tail(down), next_id, missing, s_total)
  BY <1>1, <1>2, SkipHead, ZenonT(60) DEF WholeInv, Acknowledged
<1>4. /\ UNCHANGED <<wait_for_sequence, next_id, latest, got_down, link, s_total, s_acked, supervisor, up>>
      /\ down' = Tail(down)
  BY Zenon DEF ReceiveAck, ReceiveIgnored
<1>5. supervisor \notin {"abort", "reopen"}
  BY <1>1, Zenon DEF WholeInv, Acknowledged
<1>6. link' = "up" /\ Listens(down', wait_for_sequence') => Covers(down', First(down', next_id'), {}, s_total')
  BY <1>3, <1>4, Zenon DEF WholeInv, Acknowledged, First, Listens
<1> QED
  BY <1>3, <1>4, <1>5, <1>6, Zenon DEF WholeInv, Acknowledged

\* The server resends what the client has not acknowledged.
LEMMA ReopenStep ==
    ASSUME TypeOK, TypeOK', WholeInv, Reopen
    PROVE  WholeInv' /\ UNCHANGED <<s_total, got_down>>
<1> USE DEF outVars, ackVars, inVars, senderVars, resumeVars, linkVars, serverVars, clientVars
<1>1. /\ next_id \in Nat /\ latest \in Nat /\ s_total \in Nat /\ s_acked \in Nat
      /\ next_id <= latest + 1 /\ s_acked <= latest /\ latest <= s_total /\ s_acked <= s_total
  <2>1. next_id \in Nat /\ latest \in Nat /\ s_total \in Nat /\ s_acked \in Nat
    BY Zenon DEF TypeOK
  <2>2. next_id <= latest + 1 /\ s_acked <= latest /\ latest <= s_total
    BY Zenon DEF WholeInv, Acknowledged, Channel
  <2> QED
    BY <2>1, <2>2
<1>2. /\ HasSequence(ServerResend) /\ ServerResend[1].n = s_acked + 1
      /\ Covers(ServerResend, s_acked + 1, {}, s_total)
      /\ Channel(ServerResend, TRUE, next_id, latest, s_total)
  BY <1>1, ResendFacts, Zenon
<1>3. wait_for_sequence' = TRUE
  BY Zenon DEF Reopen, WholeInv, Acknowledged, TypeOK
<1>4. /\ UNCHANGED <<next_id, latest, got_down, s_total, s_acked>>
      /\ down' = ServerResend /\ up' = <<>> /\ supervisor' = "lock"
  BY Zenon DEF Reopen
<1>5. Covers(down', First(down', next_id'), {}, s_total')
  BY <1>2, <1>4, Zenon DEF First
<1>6. AcksUpTo(up', latest')
  BY <1>4, EmptyFacts, Zenon DEF AcksUpTo
<1> QED
  BY <1>1, <1>2, <1>3, <1>4, <1>5, <1>6, ZenonT(60) DEF WholeInv, Acknowledged

\* The transport is cut: the client may still read a prefix of what was on its way.
LEMMA DropStep ==
    ASSUME TypeOK, TypeOK', WholeInv, Drop
    PROVE  WholeInv' /\ UNCHANGED <<s_total, got_down>>
<1> USE DEF outVars, ackVars, inVars, senderVars, resumeVars, linkVars, serverVars, clientVars
<1>1. PICK z \in 0..Len(down) : down' = SubSeq(down, 1, z)
  BY Zenon DEF Drop
<1>2. Channel(down', wait_for_sequence, next_id, latest, s_total)
  BY <1>1, CutChannel, ZenonT(60) DEF TypeOK, WholeInv, Acknowledged
<1>3. /\ UNCHANGED <<wait_for_sequence, next_id, latest, got_down, s_total, s_acked, supervisor>>
      /\ link = "up" /\ link' # "up" /\ up' = <<>>
  BY Zenon DEF Drop
<1>4. supervisor \notin {"abort", "reopen"}
  BY <1>3, Zenon DEF WholeInv, Acknowledged
<1>5. AcksUpTo(up', latest')
  BY <1>3, EmptyFacts, Zenon DEF AcksUpTo
<1> QED
  BY <1>2, <1>3, <1>4, <1>5, Zenon DEF WholeInv, Acknowledged

\* The server sends a message, behind all those before it.
LEMMA ServerSendStep ==
    ASSUME TypeOK, TypeOK', WholeInv, ServerSend
    PROVE  WholeInv' /\ [Downstream!Next]_<<s_total, got_down>>
<1> USE DEF outVars, ackVars, inVars, senderVars, resumeVars, linkVars, serverVars, clientVars
<1>1. /\ down \in Seq(Item) /\ wait_for_sequence \in BOOLEAN
      /\ next_id \in Nat /\ latest \in Nat /\ s_total \in Nat /\ s_total + 1 \in Nat
      /\ Channel(down, wait_for_sequence, next_id, latest, s_total)
  BY DEF TypeOK, WholeInv, Acknowledged
<1>2. /\ UNCHANGED <<wait_for_sequence, next_id, latest, got_down, link, s_acked, supervisor, up>>
      /\ s_total' = s_total + 1
      /\ down' = IF link = "up" THEN Append(down, Msg(s_total + 1)) ELSE down
  BY Zenon DEF ServerSend
<1>3. CASE link = "up"
  <2>1. First(down, next_id) <= s_total + 1 /\ First(down, next_id) \in Nat
    <3>1. CASE HasSequence(down)
      <4>1. 1 \in DOMAIN down /\ down[1] \in Item
        BY <3>1, <1>1, TailFacts DEF HasSequence
      <4>2. down[1].n <= latest + 1 /\ latest <= s_total
        BY <3>1, <4>1, <1>1, Zenon DEF Channel, HasSequence
      <4>3. down[1].n \in Nat
        BY <4>1, Zenon DEF Item
      <4> QED
        BY <3>1, <4>2, <4>3, <1>1, SMTT(30) DEF First
    <3>2. CASE ~HasSequence(down)
      BY <3>2, <1>1 DEF First, Channel
    <3> QED
      BY <3>1, <3>2, Zenon
  <2>2. Below(down, s_total + 1)
    BY <1>1, Zenon DEF Channel
  <2>3. Listens(down, wait_for_sequence) => Covers(down, First(down, next_id), {}, s_total)
    BY <1>3, Zenon DEF WholeInv, Acknowledged
  <2>4. Listens(down, wait_for_sequence) =>
          \A k \in Nat : First(down, next_id) <= k /\ k < s_total + 1 => \E j \in DOMAIN down : down[j] = Msg(k)
    BY <2>3, <1>1, SMTT(30) DEF Covers
  <2> DEFINE d == Append(down, Msg(s_total + 1))
  <2>5. /\ Channel(d, wait_for_sequence, next_id, latest, s_total + 1)
        /\ HasSequence(d) <=> HasSequence(down)
        /\ First(d, next_id) = First(down, next_id)
        /\ \A first, missing : Covers(down, first, missing \cup {s_total + 1}, s_total + 1) => Covers(d, first, missing, s_total + 1)
    BY <2>1, <2>2, <2>4, <1>1, WriteMessage, SMTT(30)
  <2> HIDE DEF d
  <2>6. Listens(d, wait_for_sequence) => Covers(d, First(d, next_id), {}, s_total + 1)
    <3> SUFFICES ASSUME Listens(d, wait_for_sequence) PROVE Covers(d, First(down, next_id), {}, s_total + 1)
      BY <2>5, Zenon
    <3>1. Covers(down, First(down, next_id), {}, s_total)
      BY <2>3, <2>5, Zenon DEF Listens
    <3>2. Covers(down, First(down, next_id), {} \cup {s_total + 1}, s_total + 1)
      BY <3>1, <1>1 DEF Covers
    <3> QED
      BY <3>2, <2>5, Zenon
  <2>7. down' = d
    BY <1>2, <1>3, Zenon DEF d
  <2>8. supervisor \notin {"abort", "reopen"}
    BY <1>3, Zenon DEF WholeInv, Acknowledged
  <2> QED
    BY <2>5, <2>6, <2>7, <2>8, <1>2, Zenon DEF WholeInv, Acknowledged, Downstream!Next, Downstream!Send
<1>4. CASE link # "up"
  <2>1. Channel(down, wait_for_sequence, next_id, latest, s_total + 1)
    BY <1>1, SmallSteps, ZenonT(60)
  <2> QED
    BY <2>1, <1>2, <1>4, Zenon DEF WholeInv, Acknowledged, Downstream!Next, Downstream!Send
<1> QED
  BY <1>3, <1>4, Zenon

\* The Ack of the server goes between its messages.
LEMMA ServerAckStep ==
    ASSUME TypeOK, TypeOK', WholeInv, ServerAck
    PROVE  WholeInv' /\ UNCHANGED <<s_total, got_down>>
<1> USE DEF outVars, ackVars, inVars, senderVars, resumeVars, linkVars, serverVars, clientVars
<1>1. /\ down \in Seq(Item) /\ wait_for_sequence \in BOOLEAN /\ s_latest \in Nat
      /\ next_id \in Nat /\ latest \in Nat /\ s_total \in Nat
      /\ Channel(down, wait_for_sequence, next_id, latest, s_total)
  BY Zenon DEF TypeOK, WholeInv, Acknowledged
<1> DEFINE d == Append(down, Ack(s_latest))
<1>2. /\ Channel(d, wait_for_sequence, next_id, latest, s_total)
      /\ HasSequence(d) <=> HasSequence(down)
      /\ First(d, next_id) = First(down, next_id)
      /\ \A first, missing : Covers(down, first, missing, s_total) => Covers(d, first, missing, s_total)
  BY <1>1, WriteAck
<1>3. /\ UNCHANGED <<wait_for_sequence, next_id, latest, got_down, link, s_total, s_acked, supervisor, up>>
      /\ link = "up" /\ down' = d
  BY Zenon DEF ServerAck
<1> HIDE DEF d
<1>4. supervisor \notin {"abort", "reopen"}
  BY <1>3, Zenon DEF WholeInv, Acknowledged
<1>5. Listens(d, wait_for_sequence) => Covers(d, First(d, next_id), {}, s_total)
  BY <1>2, <1>3, Zenon DEF WholeInv, Acknowledged, Listens
<1> QED
  BY <1>2, <1>3, <1>4, <1>5, Zenon DEF WholeInv, Acknowledged

\* A step that leaves the messages of the server alone leaves the count where it is.
LEMMA NumberedAside == ASSUME TypeOK, TypeOK', NumberedInv, Aside PROVE NumberedInv'
<1>1. Counted(down, wait_for_sequence', next_id, latest, s_total)
  <2>1. Counted(down, TRUE, next_id, latest, s_total)
    BY CountedWrite, ZenonT(60) DEF NumberedInv, TypeOK
  <2>2. wait_for_sequence' = wait_for_sequence \/ wait_for_sequence' = TRUE
    BY Zenon DEF Aside, TypeOK
  <2> QED
    BY <2>1, <2>2, Zenon DEF NumberedInv
<1>2. down' = down /\ next_id' = next_id /\ latest' = latest /\ s_total' = s_total /\ got_down' = got_down
  BY Zenon DEF Aside
<1>3. Counted(down, wait_for_sequence, next_id, latest, s_total)'
  BY <1>1, <1>2, Zenon
<1>4. Acknowledged'
  BY <1>2, Zenon DEF Aside, NumberedInv, Acknowledged
<1> QED
  BY <1>3, <1>4, Zenon DEF NumberedInv

\* A message is counted: the count does not run ahead, even when the rest of the
\* frame is discarded.
LEMMA NumberedReceive == ASSUME TypeOK, TypeOK', NumberedInv, ReceiveMessage PROVE NumberedInv'
<1> USE DEF outVars, ackVars, inVars, senderVars, resumeVars, linkVars, serverVars, clientVars
<1>1. /\ down \in Seq(Item) /\ down # <<>> /\ wait_for_sequence = FALSE /\ down[1].kind = "msg"
      /\ next_id \in Nat /\ latest \in Nat /\ s_total \in Nat /\ s_acked \in Nat /\ got_down \in Seq(Nat)
      /\ latest' \in Nat
  BY TailFacts, Zenon DEF ReceiveMessage, TypeOK
<1>2. PICK k \in 1..Len(down) : down' = SubSeq(down, k + 1, Len(down))
  BY TakenFacts, Zenon
<1>3. Counted(down, FALSE, next_id, latest, s_total)
  BY <1>1, Zenon DEF NumberedInv
<1>4. Counted(down', FALSE, next_id + 1, IF next_id > latest THEN next_id ELSE latest, s_total)
  BY <1>1, <1>2, <1>3, CountedSuffix, ZenonT(30)
<1>5. /\ next_id' = next_id + 1 /\ wait_for_sequence' = wait_for_sequence
      /\ link' = link /\ s_total' = s_total /\ s_acked' = s_acked /\ supervisor' = supervisor
      /\ latest' = IF next_id > latest THEN next_id ELSE latest
      /\ got_down' = IF next_id > latest THEN Append(got_down, Head(down).n) ELSE got_down
  BY <1>1, Zenon DEF ReceiveMessage, Fresh
<1>6. Counted(down, wait_for_sequence, next_id, latest, s_total)'
  BY <1>1, <1>4, <1>5, ZenonT(30)
<1>7. next_id <= latest + 1 /\ latest <= latest'
  BY <1>1, <1>3, <1>5, SMTT(30) DEF Counted
<1>8. AcksUpTo(up', latest')
  <2>0. Msg(0) \in Item /\ Msg(0).kind # "ack"
    BY Zenon DEF Msg, Item
  <2>1. WriteOk(transport, Msg(0)) \/ UNCHANGED up
    BY TakenFacts, Zenon
  <2>2. AcksUpTo(up, latest)
    BY Zenon DEF NumberedInv, Acknowledged
  <2> QED
    BY <2>0, <2>1, <2>2, <1>1, <1>7, WriteAcks, Zenon
<1>9. s_acked' <= latest'
  <2>1. s_acked <= latest
    BY Zenon DEF NumberedInv, Acknowledged
  <2> QED
    BY <2>1, <1>1, <1>5, <1>7
<1>10. Len(got_down') = latest'
  <2>0. Head(down).n \in Nat
    <3>1. Head(down) \in Item
      BY <1>1
    <3> QED
      BY <3>1, Zenon DEF Item
  <2>1. Len(got_down) = latest /\ Len(Append(got_down, Head(down).n)) = Len(got_down) + 1
    BY <2>0, <1>1, AppendFacts DEF NumberedInv, Acknowledged
  <2> QED
    BY <2>1, <1>1, <1>5, <1>7, SMTT(30)
<1>11. supervisor \notin {"abort", "reopen"}
  BY <1>1, Zenon DEF NumberedInv, Acknowledged
<1> QED
  BY <1>5, <1>6, <1>8, <1>9, <1>10, <1>11, Zenon DEF NumberedInv, Acknowledged

\* Any other item is taken.
LEMMA NumberedTake ==
    ASSUME TypeOK, TypeOK', NumberedInv, ReceiveSequence \/ ReceiveAck \/ ReceiveIgnored
    PROVE  NumberedInv'
<1> USE DEF outVars, ackVars, inVars, senderVars, resumeVars, linkVars, serverVars, clientVars
<1>1. /\ down \in Seq(Item) /\ down # <<>> /\ Head(down) = down[1] /\ down' = Tail(down)
      /\ next_id \in Nat /\ latest \in Nat /\ s_total \in Nat /\ wait_for_sequence \in BOOLEAN
      /\ UNCHANGED <<latest, got_down, link, s_total, s_acked, supervisor, up>>
  BY TailFacts, ZenonT(30) DEF ReceiveSequence, ReceiveAck, ReceiveIgnored, TypeOK
<1>2. 1 \in 1..Len(down) /\ Tail(down) = SubSeq(down, 1 + 1, Len(down))
  BY <1>1
<1>3. Acknowledged'
  <2>1. supervisor \notin {"abort", "reopen"}
    BY <1>1, Zenon DEF NumberedInv, Acknowledged
  <2> QED
    BY <2>1, <1>1, Zenon DEF NumberedInv, Acknowledged
<1>4. /\ down[1].kind # "seq" => Counted(Tail(down), wait_for_sequence, next_id, latest, s_total)
      /\ down[1].kind = "seq" =>
           /\ wait_for_sequence /\ Counted(Tail(down), TRUE, next_id, latest, s_total)
           /\ Counted(Tail(down), FALSE, down[1].n, latest, s_total)
  BY <1>1, <1>2, CountedSuffix, ZenonT(60) DEF NumberedInv
<1>5. CASE ReceiveAck \/ ReceiveIgnored
  <2>1. down[1].kind # "seq" /\ UNCHANGED <<wait_for_sequence, next_id>>
    BY <1>1, <1>5, Zenon DEF ReceiveAck, ReceiveIgnored
  <2> QED
    BY <2>1, <1>1, <1>3, <1>4, Zenon DEF NumberedInv
<1>6. CASE ReceiveSequence
  <2>1. wait_for_sequence = TRUE
    BY <1>1, <1>4, <1>6, Zenon DEF ReceiveSequence
  <2>2. \/ next_id' = next_id /\ wait_for_sequence' = TRUE
        \/ next_id' = down[1].n /\ wait_for_sequence' = FALSE
    BY <2>1, <1>1, <1>6, Zenon DEF ReceiveSequence
  <2>3. Counted(down, wait_for_sequence, next_id, latest, s_total)'
    BY <2>2, <1>1, <1>4, <1>6, Zenon DEF ReceiveSequence
  <2> QED
    BY <2>3, <1>3, Zenon DEF NumberedInv
<1> QED
  BY <1>5, <1>6, Zenon

\* A transport is opened, cut or written to.
LEMMA NumberedChannel ==
    ASSUME TypeOK, TypeOK', NumberedInv, Reopen \/ Drop \/ ServerSend \/ ServerAck
    PROVE  NumberedInv'
<1> USE DEF outVars, ackVars, inVars, senderVars, resumeVars, linkVars, serverVars, clientVars
<1>1. /\ down \in Seq(Item) /\ wait_for_sequence \in BOOLEAN /\ s_latest \in Nat
      /\ next_id \in Nat /\ latest \in Nat /\ s_total \in Nat /\ s_acked \in Nat
      /\ Counted(down, wait_for_sequence, next_id, latest, s_total)
      /\ next_id <= latest + 1 /\ latest <= s_total /\ s_acked <= latest
      /\ AcksUpTo(up, latest) /\ AcksUpTo(<<>>, latest) /\ Len(got_down) = latest
      /\ supervisor \in {"abort", "reopen"} => wait_for_sequence /\ down = <<>> /\ link # "up"
  BY EmptyFacts, ZenonT(30) DEF TypeOK, NumberedInv, Acknowledged, Counted, AcksUpTo
<1>2. CASE Reopen
  <2>1. s_acked <= s_total
    BY <1>1
  <2>2. Channel(ServerResend, TRUE, next_id, latest, s_total)
    BY <2>1, <1>1, ResendFacts, Zenon
  <2>3. Counted(ServerResend, TRUE, next_id, latest, s_total)
    BY <2>2, ChannelCounted, Zenon
  <2>4. /\ UNCHANGED <<next_id, latest, got_down, s_total, s_acked>>
        /\ down' = ServerResend /\ up' = <<>> /\ supervisor' = "lock" /\ wait_for_sequence' = TRUE
    BY <1>1, <1>2, Zenon DEF Reopen
  <2> QED
    BY <2>3, <2>4, <1>1, Zenon DEF NumberedInv, Acknowledged
<1>3. CASE Drop
  <2>1. PICK z \in 0..Len(down) : down' = SubSeq(down, 1, z)
    BY <1>3, Zenon DEF Drop
  <2>2. Counted(down', wait_for_sequence, next_id, latest, s_total)
    BY <2>1, <1>1, CountedPrefix, ZenonT(60)
  <2>3. /\ UNCHANGED <<wait_for_sequence, next_id, latest, got_down, s_total, s_acked, supervisor>>
        /\ link = "up" /\ up' = <<>>
    BY <1>3, Zenon DEF Drop
  <2> QED
    BY <2>2, <2>3, <1>1, Zenon DEF NumberedInv, Acknowledged
<1>4. CASE ServerSend
  <2>1. /\ UNCHANGED <<wait_for_sequence, next_id, latest, got_down, link, s_acked, supervisor, up>>
        /\ s_total' = s_total + 1
        /\ down' = IF link = "up" THEN Append(down, Msg(s_total + 1)) ELSE down
    BY <1>4, Zenon DEF ServerSend
  <2>2. /\ Counted(down, wait_for_sequence, next_id, latest, s_total + 1)
        /\ Counted(Append(down, Msg(s_total + 1)), wait_for_sequence, next_id, latest, s_total + 1)
    BY <1>1, CountedWrite, ZenonT(60)
  <2>3. Counted(down, wait_for_sequence, next_id, latest, s_total)'
    BY <2>1, <2>2, Zenon
  <2> QED
    BY <2>1, <2>3, <1>1, Zenon DEF NumberedInv, Acknowledged
<1>5. CASE ServerAck
  <2>1. /\ UNCHANGED <<wait_for_sequence, next_id, latest, got_down, link, s_total, s_acked, supervisor, up>>
        /\ link = "up" /\ down' = Append(down, Ack(s_latest))
    BY <1>5, Zenon DEF ServerAck
  <2>2. Counted(Append(down, Ack(s_latest)), wait_for_sequence, next_id, latest, s_total)
    BY <1>1, CountedWrite, ZenonT(60)
  <2> QED
    BY <2>1, <2>2, <1>1, Zenon DEF NumberedInv, Acknowledged
<1> QED
  BY <1>2, <1>3, <1>4, <1>5, Zenon

\* The client acknowledges nothing the server has not sent.
LEMMA AckedSent == ASSUME TypeOK, DownInv PROVE s_acked <= s_total
<1>1. s_acked <= latest /\ latest <= s_total
  BY Zenon DEF DownInv, NumberedInv, Acknowledged, Counted
<1>2. s_acked \in Nat /\ latest \in Nat /\ s_total \in Nat
  BY Zenon DEF TypeOK
<1> QED
  BY <1>1, <1>2

\* Every step keeps the invariant; and hands over, delivers, or does neither, as long
\* as no messages were discarded.
LEMMA DownStep ==
    ASSUME TypeOK, DownInv, [Next]_vars
    PROVE  TypeOK' /\ DownInv' /\ (~torn' => [Downstream!Next]_<<s_total, got_down>>)
<1> USE DEF outVars, ackVars, inVars, senderVars, resumeVars, linkVars, serverVars, clientVars
<1>1. TypeOK'
  BY AckedSent, TypeStep, Zenon
<1>a. NumberedInv /\ (~torn => WholeInv) /\ (Asks = {} => ~torn)
  BY Zenon DEF DownInv
<1>2. CASE ReceiveMessage
  <2>1. NumberedInv'
    BY <1>1, <1>2, <1>a, NumberedReceive, Zenon
  <2>2. ~torn' => WholeInv' /\ [Downstream!Next]_<<s_total, got_down>>
    BY <1>1, <1>2, <1>a, TakenFacts, ReceiveMessageStep, Zenon
  <2>3. Asks = {} => ~torn'
    BY <1>2, <1>a, TakenFacts, Zenon
  <2> QED
    BY <2>1, <2>2, <2>3, <1>1, Zenon DEF DownInv
<1>3. CASE ReceiveSequence \/ ReceiveAck \/ ReceiveIgnored
  <2>1. NumberedInv' /\ torn' = torn
    BY <1>1, <1>3, <1>a, NumberedTake, Zenon DEF ReceiveSequence, ReceiveAck, ReceiveIgnored
  <2>2. ~torn => WholeInv' /\ UNCHANGED <<s_total, got_down>>
    BY <1>1, <1>3, <1>a, ReceiveSequenceStep, SkipStep, Zenon
  <2> QED
    BY <2>1, <2>2, <1>1, <1>a, Zenon DEF DownInv
<1>4. CASE Reopen \/ Drop \/ ServerSend \/ ServerAck
  <2>1. NumberedInv'
    BY <1>1, <1>4, <1>a, NumberedChannel, Zenon
  <2>2. torn' = torn
    BY <1>4, Zenon DEF Reopen, Drop, ServerSend, ServerAck
  <2>3. ~torn => WholeInv' /\ [Downstream!Next]_<<s_total, got_down>>
    BY <1>1, <1>4, <1>a, ReopenStep, DropStep, ServerSendStep, ServerAckStep, Zenon
  <2> QED
    BY <2>1, <2>2, <2>3, <1>1, <1>a, Zenon DEF DownInv
<1>5. ASSUME \/ \E s \in Senders : SendBuffer(s) \/ SendTransmit(s) \/ SendReturn(s)
             \/ AckTimer \/ AckDone \/ TransportClosed \/ AbortOld \/ ReopenFails \/ LockRuntime
             \/ ResendSequence \/ ResendItem \/ ResendDone \/ ResendFails
             \/ Server \/ UNCHANGED vars
      PROVE  DownInv' /\ UNCHANGED <<s_total, got_down>>
  <2>1. Aside
    BY <1>1, <1>5, <1>a, AsideActions, Zenon
  <2>2. NumberedInv'
    BY <2>1, <1>1, <1>a, NumberedAside, Zenon
  <2>3. ~torn => WholeInv'
    BY <2>1, <1>1, <1>a, AsideStep, Zenon
  <2>4. torn' = torn /\ UNCHANGED <<s_total, got_down>>
    BY <2>1, Zenon DEF Aside
  <2> QED
    BY <2>2, <2>3, <2>4, <1>a, Zenon DEF DownInv
<1> QED
  BY <1>1, <1>2, <1>3, <1>4, <1>5, ZenonT(30) DEF Next, Receive, Resume, Awaited

\* A connection that has just completed its handshake has received nothing.
LEMMA DownInit == Init => TypeOK /\ DownInv /\ s_total = 0 /\ got_down = <<>>
<1> SUFFICES ASSUME Init PROVE TypeOK /\ DownInv
  BY Zenon DEF Init
<1>1. <<>> \in Seq(Item) /\ <<>> \in Seq(Nat) /\ DOMAIN <<>> = {} /\ Len(<<>>) = 0
  BY EmptyFacts, Zenon
<1>2. TypeOK
  BY <1>1, Zenon DEF Init, TypeOK
<1>3. Channel(<<>>, FALSE, 1, 0, 0)
  BY <1>1 DEF Channel, Increasing, Below, Dense, HasSequence, First, Listens
<1>4. Covers(<<>>, First(<<>>, 1), {}, 0)
  BY <1>1 DEF Covers, First, HasSequence
<1>5. AcksUpTo(<<>>, 0)
  BY <1>1, Zenon DEF AcksUpTo
<1>6. DownInv
  <2>1. /\ down = <<>> /\ wait_for_sequence = FALSE /\ next_id = 1 /\ latest = 0 /\ s_total = 0
        /\ up = <<>> /\ s_acked = 0 /\ supervisor = "watch" /\ got_down = <<>> /\ torn = FALSE
    BY Zenon DEF Init
  <2>2. /\ Channel(down, wait_for_sequence, next_id, latest, s_total)
        /\ Covers(down, First(down, next_id), {}, s_total) /\ AcksUpTo(up, latest)
    BY <2>1, <1>3, <1>4, <1>5, Zenon
  <2>3. s_acked <= latest /\ Len(got_down) = latest /\ supervisor \notin {"abort", "reopen"}
    BY <2>1, <1>1
  <2>4. Counted(down, wait_for_sequence, next_id, latest, s_total)
    BY <2>2, ChannelCounted, Zenon
  <2> QED
    BY <2>1, <2>2, <2>3, <2>4, Zenon DEF DownInv, NumberedInv, WholeInv, Acknowledged
<1> QED
  BY <1>2, <1>6, Zenon

\* Whatever is dropped, resent or acknowledged late, and however many callers there
\* are, the client delivers the messages of the server in order, each once, until it
\* discards messages of a frame: until then should_process_message() and
\* reset_sequence() make the receiving side of MessageBuffer a reliable channel.
THEOREM DeliversUnlessTorn == Spec => DownstreamUnlessTorn
<1>1. Init => TypeOK /\ DownInv /\ Downstream!Init
  BY DownInit, Zenon DEF Downstream!Init
<1>2. TypeOK /\ DownInv /\ [Next]_vars
        => TypeOK' /\ DownInv' /\ [torn' \/ Downstream!Next]_<<s_total, got_down>>
  BY DownStep, Zenon
<1> QED
  BY <1>1, <1>2, PTL DEF Spec, DownstreamUnlessTorn

\* It never discards any when no invocation expects a result, so that no completion
\* can fail: the channel is reliable for as long as the connection lives.
THEOREM DownstreamDelivers == ASSUME Asks = {} PROVE Spec => DownstreamReliable
<1>1. Init => TypeOK /\ DownInv /\ Downstream!Init
  BY DownInit, Zenon DEF Downstream!Init
<1>2. TypeOK /\ DownInv /\ [Next]_vars => TypeOK' /\ DownInv' /\ [Downstream!Next]_<<s_total, got_down>>
  <2> SUFFICES ASSUME TypeOK, DownInv, [Next]_vars
               PROVE  TypeOK' /\ DownInv' /\ [Downstream!Next]_<<s_total, got_down>>
    BY Zenon
  <2>1. TypeOK' /\ DownInv' /\ (~torn' => [Downstream!Next]_<<s_total, got_down>>)
    BY DownStep, Zenon
  <2>2. ~torn'
    BY <2>1, Zenon DEF DownInv
  <2> QED
    BY <2>1, <2>2, Zenon
<1> QED
  BY <1>1, <1>2, PTL DEF Spec, DownstreamReliable, Downstream!Spec

-----------------------------------------------------------------------------
(* The sending side *)

Transmits == \E s \in Senders : pc[s] = "transmit"

\* What is still to be written to the present transport: by resend(), by a caller.
Pending == {m \in Nat : (supervisor = "items" /\ m \in Unsent) \/ (m = total /\ Transmits)}

\* The present transport carries, or will, all that the server lacks.
Written == link = "up" /\ Listens(up, s_wait) => Covers(up, First(up, s_next), Pending, total)

\* The buffer holds the last messages, and the server has the others.
Buffered ==
    /\ \A m \in messages : 1 <= m /\ m <= total
    /\ \A m \in messages, k \in Nat : m <= k /\ k <= total => k \in messages
    /\ \A m \in Nat : 1 <= m /\ m <= total => m \in messages \/ m <= s_latest
    /\ AcksUpTo(down, s_latest)

\* How far the supervisor is, and what callers may do meanwhile.
Phases ==
    /\ supervisor = "lock" <=> runtime # transport
    /\ runtime <= transport
    /\ supervisor \in {"abort", "reopen", "lock", "sequence", "items"} => reconnecting
    /\ supervisor \in {"lock", "sequence"} => s_wait /\ up = <<>>
    /\ supervisor \in {"abort", "reopen", "lost"} => link # "up"
    /\ supervisor = "watch" /\ reconnecting => link # "up"

\* A caller that writes has the last message, and nothing overtakes it.
Transmitting ==
    /\ \A s \in Senders : pc[s] = "transmit" => sending[s] = total
    /\ Transmits =>
          /\ supervisor \notin {"sequence", "items"}
          /\ Below(up, total)
          /\ Listens(up, s_wait) => First(up, s_next) <= total

\* resend() writes behind what it has written.
Resending ==
    supervisor = "items" =>
      /\ Below(up, cursor)
      /\ Listens(up, s_wait) => \A m \in Unsent : First(up, s_next) <= m

Delivered == Len(got_up) = s_latest /\ \A i \in DOMAIN got_up : got_up[i] = i

UpInv ==
    /\ Channel(up, s_wait, s_next, s_latest, total)
    /\ Written /\ Buffered /\ Phases /\ Transmitting /\ Resending /\ Delivered

-----------------------------------------------------------------------------
(* Steps that leave the messages of the client alone *)

UpAside ==
    /\ UNCHANGED <<up, messages, total, sending, s_wait, s_next, s_latest, got_up, link, transport,
                   runtime, reconnecting, supervisor, cursor>>
    /\ \A s \in Senders : pc'[s] = "transmit" <=> pc[s] = "transmit"
    /\ AcksUpTo(down', s_latest)

\* What the invariant says of the client's messages depends on nothing else.
LEMMA UpAsideStep == ASSUME UpInv, UpAside PROVE UpInv'
<1>1. Transmits' <=> Transmits
  BY Zenon DEF UpAside, Transmits
<1>2. Unsent' = Unsent
  BY Zenon DEF UpAside, Unsent
<1>3. Pending' = Pending
  BY <1>1, <1>2, Zenon DEF UpAside, Pending
<1>4. Channel(up, s_wait, s_next, s_latest, total)'
  BY Zenon DEF UpAside, UpInv
<1>5. Written'
  BY <1>3, Zenon DEF UpAside, UpInv, Written
<1>6. Buffered'
  BY Zenon DEF UpAside, UpInv, Buffered
<1>7. Phases'
  BY Zenon DEF UpAside, UpInv, Phases
<1>8. Transmitting'
  BY <1>1, Zenon DEF UpAside, UpInv, Transmitting
<1>9. Resending'
  BY <1>2, Zenon DEF UpAside, UpInv, Resending
<1>10. Delivered'
  BY Zenon DEF UpAside, UpInv, Delivered
<1> QED
  BY <1>4, <1>5, <1>6, <1>7, <1>8, <1>9, <1>10, Zenon DEF UpInv

\* The receive task while it does not take an Ack, and the server sending.
LEMMA UpAsideActions ==
    ASSUME TypeOK, TypeOK', UpInv, Asks = {},
           \/ ReceiveIgnored \/ ReceiveMessage \/ ReceiveSequence \/ AckDone
           \/ ServerSend \/ ServerAck \/ UNCHANGED vars \/ \E s \in Senders : SendReturn(s)
    PROVE  UpAside
<1> USE DEF outVars, ackVars, inVars, senderVars, resumeVars, linkVars, serverVars, clientVars
<1>1. /\ down \in Seq(Item) /\ s_latest \in Nat /\ AcksUpTo(down, s_latest)
      /\ pc \in [Senders -> {"idle", "transmit", "room"}] /\ s_total \in Nat
  BY Zenon DEF TypeOK, UpInv, Buffered
<1>2. down # <<>> => AcksUpTo(Tail(down), s_latest)
  BY <1>1, AcksKept
<1>3. CASE ReceiveIgnored
  BY <1>1, <1>2, <1>3, Zenon DEF ReceiveIgnored, UpAside
<1>4. CASE ReceiveMessage
  <2>1. down # <<>> /\ down' = Tail(down) /\ UNCHANGED up
    BY <1>4, Zenon DEF ReceiveMessage, Reply, ReplyFails
  <2>2. UNCHANGED <<outVars, reconnecting, senderVars, resumeVars, linkVars, serverVars>>
    BY <1>4, Zenon DEF ReceiveMessage
  <2> QED
    BY <1>1, <1>2, <2>1, <2>2, Zenon DEF UpAside
<1>5. CASE ReceiveSequence
  BY <1>1, <1>2, <1>5, Zenon DEF ReceiveSequence, UpAside
<1>6. CASE AckDone
  BY <1>1, <1>6, Zenon DEF AckDone, UpAside
<1>7. CASE ServerSend
  <2>1. Msg(s_total + 1) \in Item /\ Msg(s_total + 1).kind # "ack"
    BY <1>1 DEF Msg, Item
  <2>2. AcksUpTo(Append(down, Msg(s_total + 1)), s_latest)
    BY <1>1, <2>1, AcksKept
  <2> QED
    BY <1>1, <1>7, <2>2, Zenon DEF ServerSend, UpAside
<1>8. CASE ServerAck
  <2>1. Ack(s_latest) \in Item /\ Ack(s_latest).n <= s_latest
    BY <1>1 DEF Ack, Item
  <2>2. AcksUpTo(Append(down, Ack(s_latest)), s_latest)
    BY <1>1, <2>1, AcksKept
  <2> QED
    BY <1>1, <1>8, <2>2, Zenon DEF ServerAck, UpAside
<1>9. CASE UNCHANGED vars
  BY <1>1, <1>9, Zenon DEF vars, UpAside
<1>10. CASE \E s \in Senders : SendReturn(s)
  BY <1>1, <1>10, Zenon DEF SendReturn, UpAside
<1> QED
  BY <1>3, <1>4, <1>5, <1>6, <1>7, <1>8, <1>9, <1>10, ZenonT(30)

-----------------------------------------------------------------------------
(* Callers *)

\* The types, once and for all.
LEMMA UpTypes ==
    ASSUME TypeOK, UpInv
    PROVE  /\ up \in Seq(Item) /\ s_wait \in BOOLEAN /\ s_next \in Nat /\ s_latest \in Nat /\ total \in Nat
           /\ Channel(up, s_wait, s_next, s_latest, total)
           /\ s_next <= s_latest + 1 /\ s_latest <= total
           /\ First(up, s_next) \in Nat /\ (Listens(up, s_wait) => First(up, s_next) <= s_latest + 1)
           /\ ~s_wait => ~HasSequence(up)
<1>1. /\ up \in Seq(Item) /\ s_wait \in BOOLEAN /\ s_next \in Nat /\ s_latest \in Nat /\ total \in Nat
      /\ Channel(up, s_wait, s_next, s_latest, total)
  BY Zenon DEF TypeOK, UpInv
<1>2. s_next <= s_latest + 1 /\ s_latest <= total
  BY <1>1, Zenon DEF Channel
<1>3. HasSequence(up) => 1 \in DOMAIN up /\ up[1] \in Item
  BY <1>1, TailFacts DEF HasSequence
<1>4. HasSequence(up) => up[1].n \in Nat /\ up[1].n <= s_latest + 1 /\ s_wait
  <2>1. HasSequence(up) => up[1].n \in Nat
    BY <1>3, Zenon DEF Item
  <2>2. HasSequence(up) => up[1].n <= s_latest + 1 /\ s_wait
    BY <1>1, <1>3, Zenon DEF Channel, HasSequence
  <2> QED
    BY <2>1, <2>2, Zenon
<1>5. First(up, s_next) \in Nat /\ First(up, s_next) <= s_latest + 1
  BY <1>1, <1>2, <1>4, Zenon DEF First
<1> QED
  BY <1>1, <1>2, <1>4, <1>5, Zenon

\* The message is numbered and buffered; while resend() is due nobody sends it now.
LEMMA SendBufferStep ==
    ASSUME TypeOK, TypeOK', UpInv, \A s, t \in Senders : s = t, NEW s \in Senders, SendBuffer(s)
    PROVE  UpInv' /\ Upstream!Next
<1> USE DEF outVars, ackVars, inVars, senderVars, resumeVars, linkVars, serverVars, clientVars
<1>1. /\ UNCHANGED <<reconnecting, supervisor, cursor, runtime, transport, link, up, down,
                     s_wait, s_next, s_latest, got_up>>
      /\ total' = total + 1 /\ messages' = messages \cup {total + 1}
      /\ supervisor \notin {"lost", "lock", "sequence", "items"}
      /\ pc[s] = "idle" /\ sending'[s] = total + 1
      /\ pc'[s] = IF reconnecting THEN "room" ELSE "transmit"
  BY Zenon DEF SendBuffer, MayRead, TypeOK
<1>2. /\ up \in Seq(Item) /\ s_wait \in BOOLEAN /\ s_next \in Nat /\ s_latest \in Nat /\ total \in Nat
      /\ Channel(up, s_wait, s_next, s_latest, total)
      /\ s_latest <= total
      /\ First(up, s_next) \in Nat /\ (Listens(up, s_wait) => First(up, s_next) <= s_latest + 1)
  BY UpTypes, Zenon
<1>3. Channel(up, s_wait, s_next, s_latest, total + 1) /\ Below(up, total + 1)
  <2>1. Channel(up, s_wait, s_next, s_latest, total + 1)
    BY <1>2, SmallSteps, ZenonT(60)
  <2>2. Below(up, total + 1)
    BY <1>2, Zenon DEF Channel
  <2> QED
    BY <2>1, <2>2, Zenon
<1>4. ~Transmits /\ (Transmits' <=> ~reconnecting)
  BY <1>1, Zenon DEF Transmits
<1>5. reconnecting => link # "up"
  BY <1>1, Zenon DEF UpInv, Phases, TypeOK
<1>6. Written'
  <2> SUFFICES ASSUME link = "up", Listens(up, s_wait)
               PROVE  Covers(up, First(up, s_next), Pending', total + 1)
    BY <1>1, Zenon DEF Written
  <2>1. Covers(up, First(up, s_next), Pending, total)
    BY Zenon DEF UpInv, Written
  <2>2. Pending = {} /\ total + 1 \in Pending'
    BY <1>1, <1>2, <1>4, <1>5, SMTT(30) DEF Pending
  <2>3. \A k \in Nat : First(up, s_next) <= k /\ k <= total + 1 =>
                        k \in Pending' \/ \E j \in DOMAIN up : up[j] = Msg(k)
    <3> SUFFICES ASSUME NEW k \in Nat, First(up, s_next) <= k, k <= total + 1
                 PROVE  k \in Pending' \/ \E j \in DOMAIN up : up[j] = Msg(k)
      BY Zenon
    <3>1. CASE k <= total
      BY <3>1, <2>1, <2>2, Zenon DEF Covers
    <3>2. CASE k = total + 1
      BY <3>2, <2>2, Zenon
    <3> QED
      BY <3>1, <3>2, <1>2, SMTT(30)
  <2> QED
    BY <2>3, Zenon DEF Covers
<1>7. Buffered'
  <2>1. /\ \A m \in messages : 1 <= m /\ m <= total
        /\ \A m \in messages, k \in Nat : m <= k /\ k <= total => k \in messages
        /\ \A m \in Nat : 1 <= m /\ m <= total => m \in messages \/ m <= s_latest
        /\ AcksUpTo(down, s_latest) /\ messages \in SUBSET Nat
    BY Zenon DEF UpInv, Buffered, TypeOK
  <2>2. ASSUME NEW m \in messages' PROVE 1 <= m /\ m <= total'
    <3>1. m \in messages \/ m = total + 1
      BY <1>1, Zenon
    <3>2. m \in messages => m \in Nat /\ 1 <= m /\ m <= total
      BY <2>1, Zenon
    <3>3. total \in Nat /\ total' = total + 1
      BY <1>1, <1>2, ZenonT(30)
    <3> QED
      BY <3>1, <3>2, <3>3, SMTT(30)
  <2>3. \A m \in messages', k \in Nat : m <= k /\ k <= total' => k \in messages'
    BY <2>1, <1>1, <1>2, SMTT(30)
  <2>4. \A m \in Nat : 1 <= m /\ m <= total' => m \in messages' \/ m <= s_latest
    BY <2>1, <1>1, <1>2, SMTT(30)
  <2> QED
    BY <2>1, <2>2, <2>3, <2>4, <1>1, Zenon DEF Buffered
<1>8. Phases'
  BY <1>1, Zenon DEF UpInv, Phases
<1>9. Transmitting'
  <2>1. \A t \in Senders : pc'[t] = "transmit" => sending'[t] = total'
    BY <1>1, Zenon
  <2>2. Listens(up, s_wait) => First(up, s_next) <= total + 1
    BY <1>2
  <2> QED
    BY <2>1, <2>2, <1>1, <1>3, Zenon DEF Transmitting
<1>10. Resending' /\ Delivered'
  BY <1>1, Zenon DEF UpInv, Resending, Delivered
<1>11. UpInv'
  BY <1>1, <1>3, <1>6, <1>7, <1>8, <1>9, <1>10, ZenonT(30) DEF UpInv
<1> QED
  BY <1>1, <1>11, Zenon DEF Upstream!Next, Upstream!Send

\* The message is written, behind all those before it; or the transport of the
\* runtime is gone, and resend() will write it.
LEMMA SendTransmitStep ==
    ASSUME TypeOK, TypeOK', UpInv, \A s, t \in Senders : s = t, NEW s \in Senders, SendTransmit(s)
    PROVE  UpInv' /\ UNCHANGED <<total, got_up>>
<1> USE DEF outVars, ackVars, inVars, senderVars, resumeVars, linkVars, serverVars, clientVars
<1>1. /\ UNCHANGED <<messages, total, sending, supervisor, cursor, runtime, transport, link, down,
                     s_wait, s_next, s_latest, got_up>>
      /\ pc[s] = "transmit" /\ pc'[s] # "transmit" /\ sending[s] = total
  BY Zenon DEF SendTransmit, TypeOK, UpInv, Transmitting
<1>2. /\ up \in Seq(Item) /\ s_wait \in BOOLEAN /\ s_next \in Nat /\ s_latest \in Nat /\ total \in Nat
      /\ Channel(up, s_wait, s_next, s_latest, total)
      /\ First(up, s_next) \in Nat
  BY UpTypes, Zenon
<1>3. Transmits /\ ~Transmits'
  BY <1>1, Zenon DEF Transmits
<1>4. /\ supervisor \notin {"sequence", "items"} /\ Below(up, total)
      /\ Listens(up, s_wait) => First(up, s_next) <= total
  BY <1>3, Zenon DEF UpInv, Transmitting
<1>5. Unsent' = Unsent /\ Pending = {total} /\ Pending' = {}
  BY <1>1, <1>2, <1>3, <1>4, Zenon DEF Unsent, Pending
<1>6. Buffered' /\ Delivered'
  BY <1>1, Zenon DEF UpInv, Buffered, Delivered
<1>7. \/ link = "up" /\ runtime = transport /\ up' = Append(up, Msg(total)) /\ UNCHANGED reconnecting
      \/ link # "up" /\ UNCHANGED up /\ (reconnecting' = TRUE \/ UNCHANGED reconnecting)
      \/ runtime # transport /\ UNCHANGED up /\ reconnecting' = TRUE
  BY <1>1, Zenon DEF SendTransmit, WriteOk, WriteErr, Disconnected
<1>8. CASE link = "up" /\ runtime = transport /\ up' = Append(up, Msg(total)) /\ UNCHANGED reconnecting
  <2>1. Listens(up, s_wait) => Covers(up, First(up, s_next), Pending, total)
    BY <1>8, Zenon DEF UpInv, Written
  <2>2. Listens(up, s_wait) =>
          /\ First(up, s_next) <= total
          /\ \A k \in Nat : First(up, s_next) <= k /\ k < total => \E j \in DOMAIN up : up[j] = Msg(k)
    BY <2>1, <1>2, <1>4, <1>5, SMTT(30) DEF Covers
  <2> DEFINE c == Append(up, Msg(total))
  <2>3. /\ Channel(c, s_wait, s_next, s_latest, total)
        /\ HasSequence(c) <=> HasSequence(up)
        /\ First(c, s_next) = First(up, s_next)
        /\ \A first, missing : Covers(up, first, missing \cup {total}, total) => Covers(c, first, missing, total)
    BY <2>2, <1>2, <1>4, WriteMessage, SMTT(30)
  <2> HIDE DEF c
  <2>4. up' = c
    BY <1>8, Zenon DEF c
  <2>5. Listens(c, s_wait) => Covers(c, First(c, s_next), {}, total)
    <3> SUFFICES ASSUME Listens(c, s_wait) PROVE Covers(c, First(up, s_next), {}, total)
      BY <2>3, Zenon
    <3>1. Covers(up, First(up, s_next), {total}, total)
      BY <2>1, <2>3, <1>5, Zenon DEF Listens
    <3>2. {total} = {} \cup {total}
      BY Zenon
    <3> QED
      BY <3>1, <3>2, <2>3, Zenon
  <2>6. Written'
    BY <2>4, <2>5, <1>1, <1>5, Zenon DEF Written
  <2>7. Phases'
    BY <1>1, <1>4, <1>8, Zenon DEF UpInv, Phases
  <2>8. Channel(up, s_wait, s_next, s_latest, total)'
    BY <2>3, <2>4, <1>1, Zenon
  <2>9. Transmitting' /\ Resending'
    BY <1>1, <1>3, <1>4, Zenon DEF UpInv, Transmitting, Resending
  <2> QED
    BY <2>6, <2>7, <2>8, <2>9, <1>1, <1>6, ZenonT(30) DEF UpInv
<1>9. CASE /\ UNCHANGED up
           /\ \/ link # "up" /\ (reconnecting' = TRUE \/ UNCHANGED reconnecting)
              \/ runtime # transport /\ reconnecting' = TRUE
  <2>1. Phases'
    BY <1>1, <1>9, Zenon DEF UpInv, Phases
  <2>2. Written'
    <3>1. link = "up" => ~Listens(up, s_wait)
      <4>1. link = "up" => supervisor = "lock"
        BY <1>9, Zenon DEF UpInv, Phases
      <4> QED
        BY <4>1, Zenon DEF UpInv, Phases, Listens, HasSequence
    <3> QED
      BY <3>1, <1>1, <1>9, Zenon DEF Written
  <2>3. Channel(up, s_wait, s_next, s_latest, total)'
    BY <1>1, <1>2, <1>9, ZenonT(60)
  <2>4. Transmitting' /\ Resending'
    BY <1>1, <1>3, <1>4, Zenon DEF UpInv, Transmitting, Resending
  <2> QED
    BY <2>1, <2>2, <2>3, <2>4, <1>1, <1>6, ZenonT(30) DEF UpInv
<1> QED
  BY <1>1, <1>7, <1>8, <1>9, ZenonT(60)

-----------------------------------------------------------------------------
(* The buffer and the Ack timer *)

\* ack() frees what the server has.
LEMMA ReceiveAckStep ==
    ASSUME TypeOK, TypeOK', UpInv, ReceiveAck
    PROVE  UpInv' /\ UNCHANGED <<total, got_up>>
<1> USE DEF outVars, ackVars, inVars, senderVars, resumeVars, linkVars, serverVars, clientVars
<1> DEFINE n == down[1].n
<1>1. /\ down \in Seq(Item) /\ down # <<>> /\ Head(down) = down[1] /\ down[1].kind = "ack"
      /\ messages \in SUBSET Nat /\ s_latest \in Nat /\ total \in Nat
  BY TailFacts, ZenonT(60) DEF ReceiveAck, TypeOK
<1>2. 1 \in DOMAIN down /\ n \in Nat
  <2>1. 1 \in DOMAIN down /\ down[1] \in Item
    BY <1>1
  <2> QED
    BY <2>1, Zenon DEF Item
<1>3. n <= s_latest /\ AcksUpTo(down, s_latest)
  BY <1>1, <1>2, Zenon DEF UpInv, Buffered, AcksUpTo
<1>4. /\ UNCHANGED <<up, total, pc, sending, s_wait, s_next, s_latest, got_up, link, transport,
                     runtime, reconnecting, supervisor, cursor>>
      /\ supervisor \notin {"sequence", "items"} /\ down' = Tail(down)
      /\ messages' = messages \ {m \in messages : m <= n}
  BY <1>1, Zenon DEF ReceiveAck, AckedBy
<1> HIDE DEF n
<1>5. Buffered'
  <2>1. /\ \A m \in messages : 1 <= m /\ m <= total
        /\ \A m \in messages, k \in Nat : m <= k /\ k <= total => k \in messages
        /\ \A m \in Nat : 1 <= m /\ m <= total => m \in messages \/ m <= s_latest
    BY Zenon DEF UpInv, Buffered
  <2>2. AcksUpTo(Tail(down), s_latest)
    BY <1>1, <1>3, AcksKept
  <2>3. \A m : m \in messages' <=> m \in messages /\ ~(m <= n)
    BY <1>4, Zenon
  <2>4. ASSUME NEW m \in messages', NEW k \in Nat, m <= k, k <= total PROVE k \in messages'
    <3>1. k \in messages /\ m \in Nat /\ ~(m <= n)
      BY <2>1, <2>3, <2>4, <1>1, ZenonT(60)
    <3>2. ~(k <= n)
      BY <3>1, <2>4, <1>2, SMTT(30)
    <3> QED
      BY <3>1, <3>2, <2>3, Zenon
  <2>5. ASSUME NEW m \in Nat, 1 <= m, m <= total PROVE m \in messages' \/ m <= s_latest
    <3>1. m \in messages \/ m <= s_latest
      BY <2>1, <2>5, Zenon
    <3>2. m <= n => m <= s_latest
      BY <1>1, <1>2, <1>3, SMTT(30)
    <3> QED
      BY <3>1, <3>2, <2>3, Zenon
  <2> QED
    BY <2>1, <2>2, <2>3, <2>4, <2>5, <1>4, Zenon DEF Buffered
<1>6. Transmits' <=> Transmits
  BY <1>4, Zenon DEF Transmits
<1>7. Pending' = Pending
  BY <1>4, <1>6, Zenon DEF Pending
<1>8. Written'
  BY <1>4, <1>7, Zenon DEF UpInv, Written
<1>9. Phases' /\ Delivered' /\ Resending'
  BY <1>4, Zenon DEF UpInv, Phases, Delivered, Resending
<1>10. Transmitting'
  BY <1>4, <1>6, ZenonT(60) DEF UpInv, Transmitting
<1>11. Channel(up, s_wait, s_next, s_latest, total)'
  BY <1>4, Zenon DEF UpInv
<1> QED
  BY <1>4, <1>5, <1>8, <1>9, <1>10, <1>11, ZenonT(30) DEF UpInv

\* The Ack of the client's timer goes between its messages.
LEMMA AckTimerStep ==
    ASSUME TypeOK, TypeOK', UpInv, AckTimer
    PROVE  UpInv' /\ UNCHANGED <<total, got_up>>
<1> USE DEF outVars, ackVars, inVars, senderVars, resumeVars, linkVars, serverVars, clientVars
<1>1. /\ UNCHANGED <<messages, total, pc, sending, s_wait, s_next, s_latest, got_up, link, transport,
                     runtime, reconnecting, supervisor, cursor, down>>
      /\ UNCHANGED up \/ (~reconnecting /\ up' = Append(up, Ack(latest)))
  BY Zenon DEF AckTimer, WriteOk, AckId
<1>2. CASE UNCHANGED up
  <2>1. UpAside
    BY <1>1, <1>2, Zenon DEF UpAside, UpInv, Buffered
  <2> QED
    BY <2>1, <1>1, UpAsideStep, Zenon
<1>3. CASE ~reconnecting /\ up' = Append(up, Ack(latest))
  <2>1. /\ up \in Seq(Item) /\ s_wait \in BOOLEAN /\ s_next \in Nat /\ s_latest \in Nat /\ total \in Nat
        /\ Channel(up, s_wait, s_next, s_latest, total)
    BY UpTypes, Zenon
  <2>2. latest \in Nat
    BY Zenon DEF TypeOK
  <2> DEFINE c == Append(up, Ack(latest))
  <2>3. /\ Channel(c, s_wait, s_next, s_latest, total)
        /\ HasSequence(c) <=> HasSequence(up)
        /\ First(c, s_next) = First(up, s_next)
        /\ \A n : Below(up, n) => Below(c, n)
        /\ \A first, missing : Covers(up, first, missing, total) => Covers(c, first, missing, total)
    BY <2>1, <2>2, WriteAck
  <2> HIDE DEF c
  <2>4. up' = c
    BY <1>3, Zenon DEF c
  <2>5. Listens(c, s_wait) <=> Listens(up, s_wait)
    BY <2>3, Zenon DEF Listens
  <2>6. supervisor \notin {"lock", "sequence"}
    BY <1>3, Zenon DEF UpInv, Phases
  <2>7. Unsent' = Unsent /\ (Transmits' <=> Transmits)
    BY <1>1, Zenon DEF Unsent, Transmits
  <2>8. Pending' = Pending
    BY <2>7, <1>1, Zenon DEF Pending
  <2>9. Written'
    BY <2>3, <2>4, <2>5, <2>8, <1>1, Zenon DEF UpInv, Written
  <2>10. Phases'
    BY <2>6, <1>1, Zenon DEF UpInv, Phases
  <2>11. Transmitting'
    BY <2>3, <2>4, <2>5, <2>7, <1>1, ZenonT(60) DEF UpInv, Transmitting
  <2>12. Resending'
    BY <2>3, <2>4, <2>5, <2>7, <1>1, Zenon DEF UpInv, Resending
  <2>13. Buffered' /\ Delivered'
    BY <1>1, Zenon DEF UpInv, Buffered, Delivered
  <2>14. Channel(up, s_wait, s_next, s_latest, total)'
    BY <2>3, <2>4, <1>1, Zenon
  <2> QED
    BY <2>9, <2>10, <2>11, <2>12, <2>13, <2>14, <1>1, ZenonT(30) DEF UpInv
<1> QED
  BY <1>1, <1>2, <1>3, Zenon

-----------------------------------------------------------------------------
(* The supervisor *)

\* The transport is down, and the supervisor, or the write it waited for, finds out.
LEMMA DownStateStep ==
    ASSUME TypeOK, TypeOK', UpInv, TransportClosed \/ AbortOld \/ ReopenFails \/ ResendFails
    PROVE  UpInv' /\ UNCHANGED <<total, got_up>>
<1> USE DEF outVars, ackVars, inVars, senderVars, resumeVars, linkVars, serverVars, clientVars
<1>1. /\ UNCHANGED <<messages, total, pc, sending, s_wait, s_next, s_latest, got_up, transport,
                     runtime, cursor, up, down>>
      /\ link' # "up" /\ supervisor' \in {"abort", "reopen", "lost"} /\ supervisor # "lock"
      /\ supervisor' = "lost" \/ reconnecting'
  BY Zenon DEF TransportClosed, AbortOld, ReopenFails, ResendFails, Disconnected, WriteErr, UpInv, Phases
<1>2. Transmits' <=> Transmits
  BY <1>1, Zenon DEF Transmits
<1>3. Written' /\ Resending'
  BY <1>1, Zenon DEF Written, Resending
<1>4. Phases'
  BY <1>1, Zenon DEF UpInv, Phases
<1>5. Transmitting'
  BY <1>1, <1>2, Zenon DEF UpInv, Transmitting
<1>6. Buffered' /\ Delivered'
  BY <1>1, Zenon DEF UpInv, Buffered, Delivered
<1>7. Channel(up, s_wait, s_next, s_latest, total)'
  BY <1>1, Zenon DEF UpInv
<1> QED
  BY <1>1, <1>3, <1>4, <1>5, <1>6, <1>7, Zenon DEF UpInv

\* The transport is cut, or opened anew: what was on its way up is gone.
LEMMA CutStep ==
    ASSUME TypeOK, TypeOK', UpInv, s_acked <= s_total, Reopen \/ Drop
    PROVE  UpInv' /\ UNCHANGED <<total, got_up>>
<1> USE DEF outVars, ackVars, inVars, senderVars, resumeVars, linkVars, serverVars, clientVars
<1>1. /\ up \in Seq(Item) /\ s_wait \in BOOLEAN /\ s_next \in Nat /\ s_latest \in Nat /\ total \in Nat
      /\ s_next <= s_latest + 1 /\ s_latest <= total
      /\ ~s_wait => ~HasSequence(up)
  BY UpTypes, Zenon
<1>2. /\ UNCHANGED <<messages, total, pc, sending, s_next, s_latest, got_up, runtime, reconnecting, cursor>>
      /\ up' = <<>>
      /\ \/ Reopen /\ s_wait' = TRUE /\ supervisor' = "lock" /\ transport' = transport + 1 /\ supervisor = "reopen"
         \/ Drop /\ link' = "broken" /\ UNCHANGED <<s_wait, supervisor, transport>>
  BY Zenon DEF Reopen, Drop
<1>3. /\ down \in Seq(Item) /\ AcksUpTo(down, s_latest) /\ s_acked \in Nat /\ s_total \in Nat
      /\ s_wait' \in BOOLEAN /\ runtime \in Nat /\ transport \in Nat
  BY Zenon DEF TypeOK, UpInv, Buffered
<1>4. AcksUpTo(down', s_latest)
  <2>1. CASE Reopen
    <3>1. \A i \in DOMAIN ServerResend : ServerResend[i].kind # "ack"
      BY <1>3, ResendFacts, ZenonT(30)
    <3> QED
      BY <2>1, <3>1, Zenon DEF Reopen, AcksUpTo
  <2>2. CASE Drop
    BY <2>2, <1>1, <1>3, AcksKept DEF Drop
  <2> QED
    BY <2>1, <2>2, <1>2, Zenon
<1>5. Channel(up, s_wait, s_next, s_latest, total)'
  <2>1. Channel(<<>>, s_wait', s_next, s_latest, total)
    BY <1>1, <1>3, SmallSteps, ZenonT(60)
  <2> QED
    BY <2>1, <1>2, Zenon
<1>6. /\ ~HasSequence(up') /\ \A n : Below(up', n)
      /\ Listens(up', s_wait') => ~s_wait' /\ Listens(up, s_wait) /\ First(up', s_next) = First(up, s_next)
  <2>1. ~HasSequence(up') /\ \A n : Below(up', n)
    BY <1>2, EmptyFacts, Zenon DEF HasSequence, Below
  <2>2. Listens(up', s_wait') => ~s_wait' /\ ~s_wait
    BY <2>1, <1>2, Zenon DEF Listens
  <2> QED
    BY <2>1, <2>2, <1>1, Zenon DEF Listens, First
<1>7. Written'
  BY <1>2, <1>6, Zenon DEF Written
<1>8. Buffered' /\ Delivered'
  BY <1>2, <1>4, Zenon DEF UpInv, Buffered, Delivered
<1>9. Phases'
  <2>1. CASE Reopen /\ s_wait' = TRUE /\ supervisor' = "lock" /\ transport' = transport + 1 /\ supervisor = "reopen"
    <3>1. runtime <= transport /\ reconnecting
      BY <2>1, Zenon DEF UpInv, Phases
    <3>2. runtime' # transport' /\ runtime' <= transport'
      BY <3>1, <2>1, <1>2, <1>3, SMTT(30)
    <3> QED
      BY <3>1, <3>2, <2>1, <1>2, Zenon DEF Phases
  <2>2. CASE Drop /\ link' = "broken" /\ UNCHANGED <<s_wait, supervisor, transport>>
    BY <2>2, <1>2, Zenon DEF UpInv, Phases
  <2> QED
    BY <2>1, <2>2, <1>2, ZenonT(60)
<1>10. Transmitting'
  <2>1. Transmits' <=> Transmits
    BY <1>2, Zenon DEF Transmits
  <2>2. supervisor' \in {"sequence", "items"} => supervisor' = supervisor
    BY <1>2, Zenon
  <2> QED
    BY <2>1, <2>2, <1>2, <1>6, Zenon DEF UpInv, Transmitting
<1>11. Resending'
  <2>1. Unsent' = Unsent
    BY <1>2, Zenon DEF Unsent
  <2>2. supervisor' = "items" => supervisor = "items"
    BY <1>2, Zenon
  <2> QED
    BY <2>1, <2>2, <1>2, <1>6, Zenon DEF UpInv, Resending
<1> QED
  BY <1>2, <1>5, <1>7, <1>8, <1>9, <1>10, <1>11, ZenonT(30) DEF UpInv

\* The write lock: nobody is left that writes.
LEMMA LockRuntimeStep ==
    ASSUME TypeOK, TypeOK', UpInv, LockRuntime
    PROVE  UpInv' /\ UNCHANGED <<total, got_up>>
<1> USE DEF outVars, ackVars, inVars, senderVars, resumeVars, linkVars, serverVars, clientVars
<1>1. /\ UNCHANGED <<messages, total, pc, sending, s_wait, s_next, s_latest, got_up, link, transport,
                     reconnecting, cursor, up, down>>
      /\ supervisor = "lock" /\ supervisor' = "sequence" /\ runtime' = transport /\ ~Transmits
  BY Zenon DEF LockRuntime, Transmits
<1>2. s_wait /\ up = <<>> /\ reconnecting /\ transport \in Nat
  BY <1>1, Zenon DEF UpInv, Phases, TypeOK
<1>3. ~Transmits'
  BY <1>1, Zenon DEF Transmits
<1>4. Written'
  BY <1>1, <1>2, Zenon DEF Written, Listens, HasSequence
<1>5. Phases'
  BY <1>1, <1>2 DEF Phases
<1>6. Transmitting'
  BY <1>1, <1>3, Zenon DEF Transmitting, Transmits
<1>7. Buffered' /\ Delivered' /\ Resending'
  BY <1>1, ZenonT(60) DEF UpInv, Buffered, Delivered, Resending
<1>8. Channel(up, s_wait, s_next, s_latest, total)'
  BY <1>1, Zenon DEF UpInv
<1> QED
  BY <1>1, <1>4, <1>5, <1>6, <1>7, <1>8, Zenon DEF UpInv

\* What the server has counted reaches up to the first buffered item.
LEMMA FirstIdCounted ==
    ASSUME TypeOK, UpInv
    PROVE  /\ FirstId \in Nat /\ FirstId <= s_latest + 1
           /\ \A m \in messages : FirstId <= m
           /\ \A k \in Nat : FirstId <= k /\ k <= total => k \in messages
<1>1. /\ FirstId \in Nat
      /\ messages # {} => FirstId \in messages /\ \A m \in messages : FirstId <= m
      /\ messages = {} => FirstId = total + 1
  BY IdFacts, Zenon DEF FirstId
<1>2. /\ \A m \in messages : 1 <= m /\ m <= total
      /\ \A m \in messages, k \in Nat : m <= k /\ k <= total => k \in messages
      /\ \A m \in Nat : 1 <= m /\ m <= total => m \in messages \/ m <= s_latest
      /\ total \in Nat /\ s_latest \in Nat
  BY Zenon DEF TypeOK, UpInv, Buffered
<1>3. CASE messages = {}
  <2>1. total <= s_latest
    BY <1>2, <1>3
  <2> QED
    BY <2>1, <1>1, <1>2, <1>3, SMTT(30)
<1>4. CASE messages # {}
  <2>1. FirstId \in messages /\ 1 <= FirstId /\ FirstId <= total
    BY <1>1, <1>2, <1>4, Zenon
  <2>2. FirstId - 1 \in Nat /\ ~(FirstId <= FirstId - 1) /\ FirstId - 1 <= total
    BY <2>1, <1>1, <1>2
  <2>3. FirstId - 1 \notin messages
    BY <2>2, <1>1, Zenon
  <2>4. FirstId - 1 = 0 \/ FirstId - 1 <= s_latest
    BY <2>2, <2>3, <1>2, SMTT(30)
  <2>5. FirstId <= s_latest + 1
    BY <2>4, <1>1, <1>2, SMTT(30)
  <2> QED
    BY <2>1, <2>5, <1>1, <1>2, <1>4, Zenon
<1> QED
  BY <1>3, <1>4, Zenon

\* Sequence announces the first buffered item.
LEMMA ResendSequenceStep ==
    ASSUME TypeOK, TypeOK', UpInv, ResendSequence
    PROVE  UpInv' /\ UNCHANGED <<total, got_up>>
<1> USE DEF outVars, ackVars, inVars, senderVars, resumeVars, linkVars, serverVars, clientVars
<1>1. /\ UNCHANGED <<messages, total, pc, sending, s_wait, s_next, s_latest, got_up, link, transport,
                     runtime, reconnecting, down>>
      /\ supervisor = "sequence" /\ supervisor' = "items" /\ cursor' = 0
      /\ \/ up' = Append(up, Sequence(FirstId))
         \/ link = "broken" /\ UNCHANGED up
  BY Zenon DEF ResendSequence, WriteOk
<1>2. s_wait = TRUE /\ up = <<>> /\ reconnecting /\ runtime = transport /\ transport \in Nat
  BY <1>1, Zenon DEF UpInv, Phases, TypeOK
<1>3. /\ s_next \in Nat /\ s_latest \in Nat /\ total \in Nat
      /\ s_next <= s_latest + 1 /\ s_latest <= total
      /\ messages \in SUBSET Nat
  BY UpTypes, ZenonT(60) DEF TypeOK
<1>4. ~Transmits /\ ~Transmits'
  BY <1>1, Zenon DEF UpInv, Transmitting, Transmits
<1>5. Unsent' = messages
  <2>1. \A x \in messages : x >= 0
    BY <1>3
  <2> QED
    BY <2>1, <1>1, Zenon DEF Unsent
<1>6. Buffered' /\ Delivered'
  BY <1>1, Zenon DEF UpInv, Buffered, Delivered
<1>7. Phases' /\ Transmitting'
  <2>1. Phases'
    BY <1>1, <1>2 DEF Phases
  <2>2. \A s \in Senders : pc'[s] # "transmit"
    BY <1>4, Zenon DEF Transmits
  <2> QED
    BY <2>1, <2>2, <1>4, Zenon DEF Transmitting
<1>8. CASE link = "broken" /\ UNCHANGED up
  <2>1. ~Listens(up', s_wait')
    BY <1>1, <1>2, <1>8, Zenon DEF Listens, HasSequence
  <2>2. Below(up', cursor')
    BY <1>2, <1>8, EmptyFacts, Zenon DEF Below
  <2>3. Written' /\ Resending'
    BY <2>1, <2>2, Zenon DEF Written, Resending
  <2>4. Channel(up, s_wait, s_next, s_latest, total)'
    BY <1>1, <1>8, Zenon DEF UpInv
  <2> QED
    BY <2>3, <2>4, <1>1, <1>6, <1>7, Zenon DEF UpInv
<1>9. CASE up' = Append(up, Sequence(FirstId))
  <2>1. /\ FirstId \in Nat /\ FirstId <= s_latest + 1
        /\ \A m \in messages : FirstId <= m
        /\ \A k \in Nat : FirstId <= k /\ k <= total => k \in messages
    BY FirstIdCounted, ZenonT(30)
  <2> DEFINE c == Append(<<>>, Sequence(FirstId))
  <2>2. c # <<>> /\ DOMAIN c = {1} /\ c[1] = Sequence(FirstId)
    BY <2>1 DEF Sequence
  <2> HIDE DEF c
  <2>3. up' = c
    BY <1>2, <1>9, ZenonT(30) DEF c
  <2>4. c[1].kind = "seq" /\ c[1].n = FirstId
    BY <2>2 DEF Sequence
  <2>5. HasSequence(c) /\ First(c, s_next) = FirstId
    BY <2>2, <2>4, Zenon DEF HasSequence, First
  <2>6. \A i \in DOMAIN c : i = 1 /\ c[i].kind # "msg"
    BY <2>2, <2>4, Zenon
  <2>7. Channel(c, TRUE, s_next, s_latest, total) /\ Below(c, cursor')
    BY <2>1, <2>4, <2>6, <1>3, Zenon DEF Channel, Increasing, Below, Dense
  <2>8. Covers(c, FirstId, Pending', total)
    <3>1. messages \subseteq Pending'
      BY <1>1, <1>3, <1>5, Zenon DEF Pending
    <3> QED
      BY <3>1, <2>1, Zenon DEF Covers
  <2>9. Written'
    BY <2>3, <2>5, <2>8, <1>1, ZenonT(30) DEF Written
  <2>10. Resending'
    BY <2>1, <2>3, <2>5, <2>7, <1>1, <1>5, ZenonT(30) DEF Resending
  <2>11. Channel(up, s_wait, s_next, s_latest, total)'
    BY <2>3, <2>7, <1>1, <1>2, ZenonT(60)
  <2> QED
    BY <2>9, <2>10, <2>11, <1>1, <1>6, <1>7, ZenonT(30) DEF UpInv
<1> QED
  BY <1>1, <1>8, <1>9, Zenon

\* The next item goes behind those resend() has written.
LEMMA ResendItemStep ==
    ASSUME TypeOK, TypeOK', UpInv, ResendItem
    PROVE  UpInv' /\ UNCHANGED <<total, got_up>>
<1> USE DEF outVars, ackVars, inVars, senderVars, resumeVars, linkVars, serverVars, clientVars
<1> DEFINE m == Min(Unsent)
<1>1. /\ m \in Nat /\ m \in messages /\ cursor <= m /\ \A x \in Unsent : m <= x
  BY IdFacts, Zenon DEF ResendItem
<1>2. /\ UNCHANGED <<messages, total, pc, sending, s_wait, s_next, s_latest, got_up, link, transport,
                     runtime, reconnecting, supervisor, down>>
      /\ supervisor = "items" /\ cursor' = m + 1
      /\ \/ link = "up" /\ up' = Append(up, Msg(m))
         \/ link = "broken" /\ UNCHANGED up
  BY Zenon DEF ResendItem, WriteOk
<1> HIDE DEF m
<1>3. /\ up \in Seq(Item) /\ s_wait \in BOOLEAN /\ s_next \in Nat /\ s_latest \in Nat /\ total \in Nat
      /\ Channel(up, s_wait, s_next, s_latest, total) /\ First(up, s_next) \in Nat
  BY UpTypes, Zenon
<1>4. messages \in SUBSET Nat /\ cursor \in Nat /\ m <= total
  BY <1>1, Zenon DEF TypeOK, UpInv, Buffered
<1>5. /\ Below(up, cursor)
      /\ Listens(up, s_wait) => \A x \in Unsent : First(up, s_next) <= x
  BY <1>2, Zenon DEF UpInv, Resending
<1>6. /\ m \in Unsent /\ Unsent' \subseteq Unsent
      /\ \A x \in Unsent : x = m \/ x \in Unsent'
  <2>1. \A x \in messages : x \in Nat /\ (x >= m + 1 => x >= cursor) /\ (m <= x => x = m \/ x >= m + 1)
    BY <1>1, <1>4
  <2>2. m >= cursor
    BY <1>1, <1>4, Zenon
  <2>3. \A x : x \in Unsent' <=> x \in messages /\ x >= m + 1
    BY <1>2, Zenon DEF Unsent
  <2>4. \A x : x \in Unsent <=> x \in messages /\ x >= cursor
    BY Zenon DEF Unsent
  <2> QED
    BY <2>1, <2>2, <2>3, <2>4, <1>1, ZenonT(60)
<1>7. ~Transmits /\ ~Transmits' /\ \A s \in Senders : pc'[s] # "transmit"
  BY <1>2, Zenon DEF UpInv, Transmitting, Transmits
<1>8. Pending = Unsent /\ Pending' = Unsent'
  <2>1. Unsent \subseteq Nat /\ Unsent' \subseteq Nat
    BY <1>2, <1>4, ZenonT(60) DEF Unsent
  <2> QED
    BY <2>1, <1>2, <1>7, Zenon DEF Pending
<1>9. Below(up, m) /\ Below(up, m + 1)
  <2>1. \A i \in DOMAIN up : up[i].n \in Nat
    <3>1. \A i \in DOMAIN up : up[i] \in Item
      BY <1>3
    <3> QED
      BY <3>1, Zenon DEF Item
  <2> QED
    BY <2>1, <1>1, <1>4, <1>5, SMTT(30) DEF Below
<1>10. Buffered' /\ Delivered' /\ Transmitting'
  BY <1>2, <1>7, Zenon DEF UpInv, Buffered, Delivered, Transmitting
<1>11. Phases'
  BY <1>2, Zenon DEF UpInv, Phases
<1>12. CASE link = "broken" /\ UNCHANGED up
  <2>1. Written'
    BY <1>2, <1>12, Zenon DEF Written
  <2>2. Resending'
    BY <1>2, <1>5, <1>6, <1>9, <1>12, ZenonT(30) DEF Resending
  <2>3. Channel(up, s_wait, s_next, s_latest, total)'
    BY <1>2, <1>3, <1>12, ZenonT(30)
  <2> QED
    BY <2>1, <2>2, <2>3, <1>2, <1>10, <1>11, ZenonT(30) DEF UpInv
<1>13. CASE link = "up" /\ up' = Append(up, Msg(m))
  <2>1. Listens(up, s_wait) => Covers(up, First(up, s_next), Unsent, total)
    BY <1>8, <1>13, Zenon DEF UpInv, Written
  <2>2. Listens(up, s_wait) =>
          /\ First(up, s_next) <= m
          /\ \A k \in Nat : First(up, s_next) <= k /\ k < m => \E j \in DOMAIN up : up[j] = Msg(k)
    <3> SUFFICES ASSUME Listens(up, s_wait), NEW k \in Nat, First(up, s_next) <= k, k < m
                 PROVE  \E j \in DOMAIN up : up[j] = Msg(k)
      BY <1>5, <1>6, Zenon
    <3>1. k \notin Unsent /\ k <= total
      BY <1>1, <1>3, <1>4, SMTT(30)
    <3> QED
      BY <3>1, <2>1, Zenon DEF Covers
  <2> DEFINE c == Append(up, Msg(m))
  <2>3. /\ Channel(c, s_wait, s_next, s_latest, total)
        /\ HasSequence(c) <=> HasSequence(up)
        /\ First(c, s_next) = First(up, s_next)
        /\ Below(c, m + 1)
        /\ \A first, missing : Covers(up, first, missing \cup {m}, total) => Covers(c, first, missing, total)
    <3>1. /\ Channel(c, s_wait, s_next, s_latest, total)
          /\ HasSequence(c) <=> HasSequence(up)
          /\ First(c, s_next) = First(up, s_next)
          /\ \A n \in Nat : m < n /\ Below(up, m) => Below(c, n)
          /\ \A first, missing : Covers(up, first, missing \cup {m}, total) => Covers(c, first, missing, total)
      BY <2>2, <1>1, <1>3, <1>4, <1>9, WriteMessage, SMTT(30)
    <3>2. m + 1 \in Nat /\ m < m + 1
      BY <1>1
    <3> QED
      BY <3>1, <3>2, <1>9, ZenonT(30)
  <2> HIDE DEF c
  <2>4. up' = c
    BY <1>13, Zenon DEF c
  <2>5. Listens(c, s_wait) => Listens(up, s_wait)
    BY <2>3, Zenon DEF Listens
  <2>6. Listens(c, s_wait) => Covers(c, First(c, s_next), Unsent', total)
    <3> SUFFICES ASSUME Listens(c, s_wait) PROVE Covers(c, First(up, s_next), Unsent', total)
      BY <2>3, Zenon
    <3>1. Covers(up, First(up, s_next), Unsent' \cup {m}, total)
      BY <2>1, <2>5, <1>6, Zenon DEF Covers
    <3> QED
      BY <3>1, <2>3, Zenon
  <2>7. Written'
    BY <2>4, <2>6, <1>2, <1>8, Zenon DEF Written
  <2>8. Resending'
    BY <2>3, <2>4, <2>5, <1>2, <1>5, <1>6, ZenonT(30) DEF Resending
  <2>9. Channel(up, s_wait, s_next, s_latest, total)'
    BY <2>3, <2>4, <1>2, Zenon
  <2> QED
    BY <2>7, <2>8, <2>9, <1>2, <1>10, <1>11, Zenon DEF UpInv
<1> QED
  BY <1>2, <1>12, <1>13, Zenon

\* Nothing is left to resend, and callers write again.
LEMMA ResendDoneStep ==
    ASSUME TypeOK, TypeOK', UpInv, ResendDone
    PROVE  UpInv' /\ UNCHANGED <<total, got_up>>
<1> USE DEF outVars, ackVars, inVars, senderVars, resumeVars, linkVars, serverVars, clientVars
<1>1. /\ UNCHANGED <<messages, total, pc, sending, s_wait, s_next, s_latest, got_up, link, transport,
                     runtime, cursor, up, down>>
      /\ supervisor = "items" /\ supervisor' = "watch" /\ Unsent = {} /\ reconnecting' = FALSE
  BY Zenon DEF ResendDone
<1>2. ~Transmits /\ ~Transmits' /\ \A s \in Senders : pc'[s] # "transmit"
  BY <1>1, Zenon DEF UpInv, Transmitting, Transmits
<1>3. Pending = {} /\ Pending' = {}
  BY <1>1, <1>2, Zenon DEF Pending
<1>4. Written'
  BY <1>1, <1>3, Zenon DEF UpInv, Written
<1>5. Phases'
  BY <1>1, Zenon DEF UpInv, Phases
<1>6. Buffered' /\ Delivered' /\ Transmitting' /\ Resending'
  BY <1>1, <1>2, ZenonT(60) DEF UpInv, Buffered, Delivered, Transmitting, Resending
<1>7. Channel(up, s_wait, s_next, s_latest, total)'
  BY <1>1, Zenon DEF UpInv
<1> QED
  BY <1>1, <1>4, <1>5, <1>6, <1>7, Zenon DEF UpInv

-----------------------------------------------------------------------------
(* The server *)

\* A message is counted: it is the one the server takes it for, and it is
\* delivered unless it was before.
LEMMA ServerReceiveStep ==
    ASSUME TypeOK, TypeOK', UpInv, ServerReceive
    PROVE  UpInv' /\ [Upstream!Next]_<<total, got_up>>
<1> USE DEF outVars, ackVars, inVars, senderVars, resumeVars, linkVars, serverVars, clientVars
<1>1. /\ up \in Seq(Item) /\ s_wait = FALSE /\ s_next \in Nat /\ s_latest \in Nat /\ total \in Nat
      /\ Channel(up, s_wait, s_next, s_latest, total)
      /\ s_next <= s_latest + 1
  BY UpTypes, Zenon DEF ServerReceive
<1>2. up # <<>> /\ Head(up) = up[1] /\ up[1].kind = "msg"
  BY <1>1, TailFacts, Zenon DEF ServerReceive
<1> DEFINE g == IF s_next > s_latest THEN s_next ELSE s_latest
<1>3. Channel(up, FALSE, s_next, s_latest, total)
  BY <1>1, ZenonT(60)
<1>4. /\ up[1].n = s_next /\ s_next <= total
      /\ Channel(Tail(up), FALSE, s_next + 1, g, total)
      /\ ~HasSequence(up) /\ ~HasSequence(Tail(up))
      /\ \A n \in Nat : Below(up, n) => Below(Tail(up), n) /\ s_next < n
      /\ \A missing : Covers(up, s_next, missing, total) => Covers(Tail(up), s_next + 1, missing, total)
  BY <1>1, <1>2, <1>3, TakeMessage, ZenonT(60)
<1>5. /\ UNCHANGED <<messages, total, pc, sending, supervisor, cursor, runtime, transport, link,
                     reconnecting, s_wait, down>>
      /\ up' = Tail(up) /\ s_next' = s_next + 1
      /\ IF s_next > s_latest THEN s_latest' = s_next /\ got_up' = Append(got_up, up[1].n)
                              ELSE UNCHANGED <<s_latest, got_up>>
  BY <1>2, Zenon DEF ServerReceive
<1>6. s_latest' = g /\ g \in Nat /\ s_latest <= g
  BY <1>1, <1>5
<1> HIDE DEF g
<1>7. Transmits' = Transmits /\ Unsent' = Unsent /\ Pending' = Pending
  BY <1>5, Zenon DEF Transmits, Unsent, Pending
<1>8. /\ Listens(up, s_wait) /\ First(up, s_next) = s_next
      /\ First(up', s_next') = s_next + 1
  BY <1>1, <1>4, <1>5, ZenonT(60) DEF Listens, First
<1>9. Written'
  BY <1>4, <1>5, <1>7, <1>8, ZenonT(60) DEF UpInv, Written
<1>10. Buffered'
  <2>1. /\ \A m \in messages : 1 <= m /\ m <= total
        /\ \A m \in messages, k \in Nat : m <= k /\ k <= total => k \in messages
        /\ \A m \in Nat : 1 <= m /\ m <= total => m \in messages \/ m <= s_latest
        /\ AcksUpTo(down, s_latest) /\ down \in Seq(Item)
    BY Zenon DEF TypeOK, UpInv, Buffered
  <2>2. AcksUpTo(down, g)
    BY <2>1, <1>1, <1>6, AcksKept, ZenonT(30)
  <2>3. \A m \in Nat : m <= s_latest => m <= g
    BY <1>1, <1>6
  <2> QED
    BY <2>1, <2>2, <2>3, <1>5, <1>6, ZenonT(30) DEF Buffered
<1>11. Phases'
  BY <1>1, <1>2, <1>5, Zenon DEF UpInv, Phases
<1>12. Transmitting'
  <2>1. Below(up, total) => Below(Tail(up), total) /\ s_next < total
    BY <1>1, <1>4, Zenon
  <2>2. s_next < total => s_next + 1 <= total
    BY <1>1
  <2>3. Below(up, total) => Below(up', total') /\ s_next + 1 <= total
    BY <2>1, <2>2, <1>5, Zenon
  <2> QED
    BY <2>3, <1>5, <1>7, <1>8, ZenonT(60) DEF UpInv, Transmitting
<1>13. Resending'
  <2>1. cursor \in Nat /\ messages \in SUBSET Nat
    BY Zenon DEF TypeOK
  <2>2. Below(up, cursor) => Below(up', cursor') /\ \A m \in Unsent : s_next + 1 <= m
    <3> SUFFICES ASSUME Below(up, cursor) PROVE Below(up', cursor') /\ \A m \in Unsent : s_next + 1 <= m
      BY Zenon
    <3>1. Below(Tail(up), cursor) /\ s_next < cursor
      BY <2>1, <1>4, Zenon
    <3>2. \A m \in Unsent : s_next + 1 <= m
      BY <3>1, <2>1, <1>1, SMTT(30) DEF Unsent
    <3> QED
      BY <3>1, <3>2, <1>5, Zenon
  <2> QED
    BY <2>2, <1>5, <1>7, <1>8, Zenon DEF UpInv, Resending
<1>14. got_up \in Seq(Nat) /\ Len(got_up) = s_latest /\ \A i \in DOMAIN got_up : got_up[i] = i
  BY Zenon DEF TypeOK, UpInv, Delivered
<1>15. ASSUME s_next > s_latest PROVE Delivered' /\ Upstream!Next
  <2>1. s_next = s_latest + 1 /\ s_latest' = s_latest + 1
    BY <1>1, <1>5, <1>15, SMTT(30)
  <2>2. got_up' = Append(got_up, Len(got_up) + 1) /\ Len(got_up) < total
    <3>1. got_up' = Append(got_up, up[1].n)
      BY <1>5, <1>15, Zenon
    <3>2. up[1].n = Len(got_up) + 1
      BY <2>1, <1>4, <1>14, ZenonT(30)
    <3>3. Len(got_up) < total
      BY <2>1, <1>1, <1>4, <1>14, SMTT(30)
    <3> QED
      BY <3>1, <3>2, <3>3, Zenon
  <2> DEFINE e == Len(got_up) + 1
  <2>3. e \in Nat
    BY <1>1, <1>14, SMTT(30)
  <2> HIDE DEF e
  <2>4. /\ Len(Append(got_up, e)) = Len(got_up) + 1
        /\ DOMAIN got_up = 1..Len(got_up) /\ DOMAIN Append(got_up, e) = 1..(Len(got_up) + 1)
        /\ \A i \in DOMAIN got_up : Append(got_up, e)[i] = got_up[i]
        /\ Append(got_up, e)[Len(got_up) + 1] = e
    BY <2>3, <1>14, AppendFacts, SMTT(30)
  <2>5. got_up' = Append(got_up, e) /\ e = Len(got_up) + 1
    BY <2>2, Zenon DEF e
  <2>6. \A i \in DOMAIN got_up' : got_up'[i] = i
    <3> SUFFICES ASSUME NEW i \in DOMAIN got_up' PROVE got_up'[i] = i
      BY Zenon
    <3>1. i \in DOMAIN got_up \/ i = Len(got_up) + 1
      BY <2>4, <2>5, <1>1, <1>14, SMTT(30)
    <3> QED
      BY <3>1, <2>4, <2>5, <1>14, Zenon
  <2>7. Delivered'
    BY <2>1, <2>4, <2>5, <2>6, <1>14, ZenonT(30) DEF Delivered
  <2> QED
    BY <2>2, <2>7, <1>5, ZenonT(30) DEF Upstream!Next, Upstream!Deliver
<1>16. ASSUME ~(s_next > s_latest) PROVE Delivered' /\ UNCHANGED <<total, got_up>>
  <2>1. Delivered'
    BY <1>5, <1>14, <1>16, Zenon DEF Delivered
  <2> QED
    BY <2>1, <1>5, <1>16, Zenon
<1>17. Delivered' /\ [Upstream!Next]_<<total, got_up>>
  BY <1>15, <1>16, Zenon
<1>18. Channel(up, s_wait, s_next, s_latest, total)'
  BY <1>1, <1>4, <1>5, <1>6, ZenonT(60)
<1> QED
  BY <1>9, <1>10, <1>11, <1>12, <1>13, <1>17, <1>18, ZenonT(30) DEF UpInv

\* Sequence sets the count of the server to where resend() begins.
LEMMA ServerSequenceStep ==
    ASSUME TypeOK, TypeOK', UpInv, ServerReceiveSequence
    PROVE  UpInv' /\ UNCHANGED <<total, got_up>>
<1> USE DEF outVars, ackVars, inVars, senderVars, resumeVars, linkVars, serverVars, clientVars
<1>1. /\ up \in Seq(Item) /\ s_wait \in BOOLEAN /\ s_next \in Nat /\ s_latest \in Nat /\ total \in Nat
      /\ Channel(up, s_wait, s_next, s_latest, total)
  BY UpTypes, Zenon
<1>2. up # <<>> /\ Head(up) = up[1] /\ up[1].kind = "seq"
  BY <1>1, TailFacts, ZenonT(30) DEF ServerReceiveSequence
<1>3. s_wait = TRUE
  BY <1>1, <1>2, TailFacts, SMTT(30) DEF Channel
<1>4. Channel(up, TRUE, s_next, s_latest, total)
  BY <1>1, <1>3, ZenonT(60)
<1>5. /\ Listens(up, TRUE) /\ First(up, s_next) = up[1].n
      /\ Channel(Tail(up), FALSE, up[1].n, s_latest, total)
      /\ ~HasSequence(Tail(up))
      /\ \A n : Below(up, n) => Below(Tail(up), n)
      /\ \A missing : Covers(up, up[1].n, missing, total) => Covers(Tail(up), up[1].n, missing, total)
  BY <1>1, <1>2, <1>4, TakeSequence, ZenonT(60)
<1>6. /\ UNCHANGED <<messages, total, pc, sending, supervisor, cursor, runtime, transport, link,
                     reconnecting, down, s_latest, got_up>>
      /\ up' = Tail(up) /\ s_next' = up[1].n /\ s_wait' = FALSE
  BY <1>2, Zenon DEF ServerReceiveSequence
<1>7. Transmits' = Transmits /\ Unsent' = Unsent /\ Pending' = Pending
  BY <1>6, Zenon DEF Transmits, Unsent, Pending
<1>8. Listens(up, s_wait) /\ First(up', s_next') = First(up, s_next)
  BY <1>3, <1>5, <1>6, ZenonT(60) DEF First
<1>9. Written'
  BY <1>5, <1>6, <1>7, <1>8, Zenon DEF UpInv, Written
<1>10. Buffered' /\ Delivered'
  BY <1>6, ZenonT(60) DEF UpInv, Buffered, Delivered
<1>11. Phases'
  BY <1>2, <1>6, Zenon DEF UpInv, Phases
<1>12. Transmitting'
  BY <1>5, <1>6, <1>7, <1>8, ZenonT(60) DEF UpInv, Transmitting
<1>13. Resending'
  BY <1>5, <1>6, <1>7, <1>8, ZenonT(60) DEF UpInv, Resending
<1>14. Channel(up, s_wait, s_next, s_latest, total)'
  BY <1>5, <1>6, ZenonT(60)
<1> QED
  BY <1>6, <1>9, <1>10, <1>11, <1>12, <1>13, <1>14, ZenonT(30) DEF UpInv

\* An Ack is taken, or anything else while the server waits for Sequence.
LEMMA ServerSkipStep ==
    ASSUME TypeOK, TypeOK', UpInv, ServerIgnores \/ ServerReceiveAck
    PROVE  UpInv' /\ UNCHANGED <<total, got_up>>
<1> USE DEF outVars, ackVars, inVars, senderVars, resumeVars, linkVars, serverVars, clientVars
<1>1. /\ up \in Seq(Item) /\ s_wait \in BOOLEAN /\ s_next \in Nat /\ s_latest \in Nat /\ total \in Nat
      /\ Channel(up, s_wait, s_next, s_latest, total)
  BY UpTypes, Zenon
<1>2. up # <<>> /\ Head(up) = up[1]
  BY <1>1, TailFacts, Zenon DEF ServerIgnores, ServerReceiveAck
<1>3. up[1].kind # "seq" /\ (s_wait \/ up[1].kind = "ack")
  BY <1>2, ZenonT(60) DEF ServerIgnores, ServerReceiveAck
<1>4. /\ Channel(Tail(up), s_wait, s_next, s_latest, total)
      /\ ~HasSequence(up) /\ ~HasSequence(Tail(up))
      /\ \A n : Below(up, n) => Below(Tail(up), n)
      /\ ~s_wait => \A missing : Covers(up, s_next, missing, total) => Covers(Tail(up), s_next, missing, total)
  BY <1>1, <1>2, <1>3, SkipHead, ZenonT(60)
<1>5. /\ UNCHANGED <<messages, total, pc, sending, supervisor, cursor, runtime, transport, link,
                     reconnecting, down, s_wait, s_next, s_latest, got_up>>
      /\ up' = Tail(up)
  BY Zenon DEF ServerIgnores, ServerReceiveAck
<1>6. Transmits' = Transmits /\ Unsent' = Unsent /\ Pending' = Pending
  BY <1>5, Zenon DEF Transmits, Unsent, Pending
<1>7. /\ First(up', s_next') = s_next /\ First(up, s_next) = s_next
      /\ (Listens(up', s_wait') <=> ~s_wait) /\ (Listens(up, s_wait) <=> ~s_wait)
  BY <1>4, <1>5, Zenon DEF Listens, First
<1>8. Written'
  BY <1>4, <1>5, <1>6, <1>7, Zenon DEF UpInv, Written
<1>9. Buffered' /\ Delivered'
  BY <1>5, ZenonT(60) DEF UpInv, Buffered, Delivered
<1>10. Phases'
  BY <1>2, <1>5, Zenon DEF UpInv, Phases
<1>11. Transmitting'
  BY <1>4, <1>5, <1>6, <1>7, ZenonT(60) DEF UpInv, Transmitting
<1>12. Resending'
  BY <1>4, <1>5, <1>6, <1>7, ZenonT(30) DEF UpInv, Resending
<1>13. Channel(up, s_wait, s_next, s_latest, total)'
  BY <1>4, <1>5, Zenon
<1> QED
  BY <1>5, <1>8, <1>9, <1>10, <1>11, <1>12, <1>13, ZenonT(30) DEF UpInv

-----------------------------------------------------------------------------
(* The theorems *)

\* Every step keeps the invariant, and hands over, delivers, or does neither.
LEMMA UpStep ==
    ASSUME Asks = {}, \A s, t \in Senders : s = t, TypeOK, TypeOK', s_acked <= s_total, UpInv, [Next]_vars
    PROVE  UpInv' /\ [Upstream!Next]_<<total, got_up>>
<1>1. CASE \E s \in Senders : SendBuffer(s)
  BY <1>1, SendBufferStep, Zenon
<1>2. CASE \E s \in Senders : SendTransmit(s)
  BY <1>2, SendTransmitStep, Zenon
<1>3. CASE ReceiveAck
  BY <1>3, ReceiveAckStep, Zenon
<1>4. CASE AckTimer
  BY <1>4, AckTimerStep, Zenon
<1>5. CASE TransportClosed \/ AbortOld \/ ReopenFails \/ ResendFails
  BY <1>5, DownStateStep, Zenon
<1>6. CASE Reopen \/ Drop
  BY <1>6, CutStep, ZenonT(30)
<1>7. CASE LockRuntime
  BY <1>7, LockRuntimeStep, Zenon
<1>8. CASE ResendSequence
  BY <1>8, ResendSequenceStep, Zenon
<1>9. CASE ResendItem
  BY <1>9, ResendItemStep, Zenon
<1>10. CASE ResendDone
  BY <1>10, ResendDoneStep, Zenon
<1>11. CASE ServerReceive
  BY <1>11, ServerReceiveStep, ZenonT(30)
<1>12. CASE ServerReceiveSequence
  BY <1>12, ServerSequenceStep, Zenon
<1>13. CASE ServerIgnores \/ ServerReceiveAck
  BY <1>13, ServerSkipStep, Zenon
<1>14. CASE \/ ReceiveIgnored \/ ReceiveMessage \/ ReceiveSequence \/ AckDone
            \/ ServerSend \/ ServerAck \/ UNCHANGED vars \/ \E s \in Senders : SendReturn(s)
  <2>1. UpAside
    BY <1>14, UpAsideActions, Zenon
  <2> QED
    BY <2>1, UpAsideStep, Zenon DEF UpAside
<1> QED
  BY <1>1, <1>2, <1>3, <1>4, <1>5, <1>6, <1>7, <1>8, <1>9, <1>10, <1>11, <1>12, <1>13, <1>14, ZenonT(30)
     DEF Next, Receive, Resume, Awaited, Server

\* A connection that has just completed its handshake has sent nothing.
LEMMA UpInit == Init => UpInv
<1> SUFFICES ASSUME Init PROVE UpInv
  BY Zenon
<1>1. DOMAIN <<>> = {} /\ Len(<<>>) = 0
  BY EmptyFacts, Zenon
<1>2. /\ messages = {} /\ total = 0 /\ s_wait = FALSE /\ s_next = 1 /\ s_latest = 0 /\ up = <<>> /\ down = <<>>
      /\ supervisor = "watch" /\ runtime = 0 /\ transport = 0 /\ reconnecting = FALSE /\ got_up = <<>>
      /\ pc = [s \in Senders |-> "idle"]
  BY Zenon DEF Init
<1>3. Channel(<<>>, FALSE, 1, 0, 0)
  BY <1>1 DEF Channel, Increasing, Below, Dense, HasSequence, First, Listens
<1>4. Channel(up, s_wait, s_next, s_latest, total)
  BY <1>2, <1>3, ZenonT(60)
<1>5. Written
  <2>1. First(up, s_next) = 1
    BY <1>2, Zenon DEF First, HasSequence
  <2> QED
    BY <2>1, <1>2 DEF Written, Covers
<1>6. Buffered
  BY <1>1, <1>2, Zenon DEF Buffered, AcksUpTo
<1>7. Phases
  BY <1>2 DEF Phases
<1>8. Transmitting /\ Resending
  BY <1>2, Zenon DEF Transmitting, Transmits, Resending
<1>9. Delivered
  BY <1>1, <1>2, Zenon DEF Delivered
<1> QED
  BY <1>4, <1>5, <1>6, <1>7, <1>8, <1>9, ZenonT(30) DEF UpInv

\* With one caller and without completions past the buffer, send_through(),
\* MessageBuffer::send() and resend() make the sending side a reliable channel:
\* whatever is dropped, when an Ack comes and wherever a write fails, the server
\* delivers the messages of the client in order, each once.
THEOREM UpstreamDelivers ==
    ASSUME Asks = {}, \A s, t \in Senders : s = t
    PROVE  Spec => UpstreamReliable
<1>1. Init => TypeOK /\ DownInv /\ UpInv /\ Upstream!Init
  BY DownInit, UpInit, Zenon DEF Upstream!Init, Init
<1>2. TypeOK /\ DownInv /\ UpInv /\ [Next]_vars
        => TypeOK' /\ DownInv' /\ UpInv' /\ [Upstream!Next]_<<total, got_up>>
  <2> SUFFICES ASSUME TypeOK, DownInv, UpInv, [Next]_vars
               PROVE  TypeOK' /\ DownInv' /\ UpInv' /\ [Upstream!Next]_<<total, got_up>>
    BY Zenon
  <2>1. TypeOK' /\ DownInv'
    BY DownStep, Zenon
  <2>2. s_acked <= s_total
    BY AckedSent, Zenon
  <2> QED
    BY <2>1, <2>2, UpStep, Zenon
<1> QED
  BY <1>1, <1>2, PTL DEF Spec, UpstreamReliable, Upstream!Spec

\* Under the same conditions a message leaves the buffer only after the server
\* has it, and the server forgets none the client lacks: ack() frees nothing
\* that a later resend() would need.
THEOREM NothingIsLost ==
    ASSUME Asks = {}, \A s, t \in Senders : s = t
    PROVE  Spec => []NothingLost
<1>1. Init => TypeOK /\ DownInv /\ UpInv
  BY DownInit, UpInit, Zenon
<1>2. TypeOK /\ DownInv /\ UpInv /\ [Next]_vars => TypeOK' /\ DownInv' /\ UpInv'
  <2> SUFFICES ASSUME TypeOK, DownInv, UpInv, [Next]_vars PROVE TypeOK' /\ DownInv' /\ UpInv'
    BY ZenonT(30)
  <2>1. TypeOK' /\ DownInv'
    BY DownStep, Zenon
  <2>2. s_acked <= s_total
    BY AckedSent, Zenon
  <2> QED
    BY <2>1, <2>2, UpStep, Zenon
<1>3. TypeOK /\ DownInv /\ UpInv => NothingLost
  <2> SUFFICES ASSUME TypeOK, DownInv, UpInv PROVE NothingLost
    BY Zenon
  <2>1. s_acked <= Len(got_down)
    BY Zenon DEF DownInv, NumberedInv, Acknowledged
  <2>2. ASSUME NEW m \in 1..total PROVE m \in messages \/ m \in Items(got_up)
    <3>1. total \in Nat /\ s_latest \in Nat /\ got_up \in Seq(Nat)
      BY Zenon DEF TypeOK
    <3>2. m \in messages \/ m <= s_latest
      BY <3>1 DEF UpInv, Buffered
    <3>3. m <= s_latest => m \in DOMAIN got_up
      BY <3>1 DEF UpInv, Delivered
    <3>4. m \in DOMAIN got_up => got_up[m] = m
      BY Zenon DEF UpInv, Delivered
    <3> QED
      BY <3>2, <3>3, <3>4, ZenonT(60) DEF Items
  <2> QED
    BY <2>1, <2>2, Zenon DEF NothingLost
<1> QED
  BY <1>1, <1>2, <1>3, PTL DEF Spec
=============================================================================
