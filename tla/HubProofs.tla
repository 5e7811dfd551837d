----------------------------- MODULE HubProofs -----------------------------
(***************************************************************************)
(* The safety of the live stream for any number of subscribers, batches    *)
(* and results, any filters and any channel capacity.  The strengthening   *)
(* says where a subscription stands while its handler runs: in step with   *)
(* what was published to it unless the hub dropped it, short of it if so;  *)
(* and that what is still to be published has reached nobody.              *)
(***************************************************************************)
EXTENDS Hub, FiniteSetTheorems, SequenceTheorems, TLAPS

Live(s) == reader[s] \in {"select", "writing"}

(* What a client got and what is on its way to it. *)
Got(s) == delivered[s] \o hand[s] \o buf[s]

Types ==
  /\ TypeOK
  /\ accepted \in [Batches -> Seq(rows)]
  /\ buf \in [Subscribers -> Seq(rows)]
  /\ hand \in [Subscribers -> Seq(rows)]
  /\ delivered \in [Subscribers -> Seq(rows)]
  /\ due \in [Subscribers -> Seq(rows)]

(* Who is registered. *)
RegisteredInv ==
  /\ open = registered
  /\ registered \cap dropped = {}
  /\ shut = "closed" => registered = {}
  /\ \A s \in Subscribers :
       /\ reader[s] = "none" => s \notin registered /\ s \notin dropped /\ due[s] = <<>> /\ Got(s) = <<>>
       /\ reader[s] = "gone" /\ shut # "exited" => s \notin registered
       /\ Live(s) /\ s \notin registered /\ s \notin dropped => shut # "no"
       /\ reader[s] = "select" => hand[s] = <<>>
       /\ goodbye[s] # "none" => s \notin registered /\ reader[s] \in {"leaving", "gone"}

(* got is the beginning of all. *)
Starts(got, all) == Len(got) <= Len(all) /\ \A i \in 1..Len(got) : got[i] = all[i]

StreamInv ==
  \A s \in Subscribers : Live(s) =>
    /\ s \notin dropped => Got(s) = due[s]
    /\ s \in dropped => Starts(Got(s), due[s]) /\ Len(Got(s)) < Len(due[s])

Disjoint(p, q) == \A i \in DOMAIN p, j \in DOMAIN q : p[i] # q[j]

OnceInv ==
  /\ \A s \in Subscribers : IsInjective(due[s])
  /\ \A b \in Batches : IsInjective(accepted[b])
  /\ \A b \in Batches, s \in Subscribers : Disjoint(accepted[b], due[s])
  /\ \A b, c \in Batches : b # c => Disjoint(accepted[b], accepted[c])

IInv == Types /\ RegisteredInv /\ StreamInv /\ GoodbyeIsTrue /\ OnceInv

-----------------------------------------------------------------------------
(* Selection. *)

Rank(I, i) == {j \in I : j <= i}

\* Counting the members up to each gives the order of a finite set of numbers.
LEMMA InOrderExists ==
  ASSUME NEW I \in SUBSET Nat, IsFiniteSet(I)
  PROVE  \E f \in [1..Cardinality(I) -> I] : \A j, k \in DOMAIN f : j < k => f[j] < f[k]
<1> DEFINE n == Cardinality(I)
           rank == [i \in I |-> Cardinality(Rank(I, i))]
<1>1. n \in Nat
  BY Zenon, FS_CardinalityType
<1>2. \A i \in I : IsFiniteSet(Rank(I, i)) /\ Cardinality(Rank(I, i)) \in Nat /\ Cardinality(Rank(I, i)) <= n
  <2> SUFFICES ASSUME NEW i \in I
               PROVE  IsFiniteSet(Rank(I, i)) /\ Cardinality(Rank(I, i)) \in Nat /\ Cardinality(Rank(I, i)) <= n
    BY Zenon
  <2>1. Rank(I, i) \in SUBSET I
    BY Zenon DEF Rank
  <2> QED
    BY Zenon, <2>1, FS_Subset, FS_CardinalityType
<1>3. \A i \in I : Cardinality(Rank(I, i)) # 0
  <2> SUFFICES ASSUME NEW i \in I
               PROVE  Cardinality(Rank(I, i)) # 0
    BY Zenon
  <2>1. i \in Rank(I, i)
    BY DEF Rank
  <2> QED
    BY Zenon, <1>2, <2>1, FS_EmptySet
<1>4. rank \in [I -> 1..n]
  <2>1. \A i \in I : Cardinality(Rank(I, i)) \in 1..n
    BY <1>1, <1>2, <1>3
  <2> QED
    BY Zenon, <2>1
<1>5. \A i, j \in I : i < j => rank[i] < rank[j]
  <2> SUFFICES ASSUME NEW i \in I, NEW j \in I, i < j
               PROVE  Cardinality(Rank(I, i)) < Cardinality(Rank(I, j))
    BY Zenon
  <2>3. j <= j /\ ~(j <= i) /\ \A m \in I : m <= i => m <= j
    OBVIOUS
  <2>1. Rank(I, i) \in SUBSET Rank(I, j) /\ j \in Rank(I, j) /\ j \notin Rank(I, i)
    BY <2>3, Zenon DEF Rank
  <2>2. /\ Cardinality(Rank(I, i)) <= Cardinality(Rank(I, j))
        /\ Cardinality(Rank(I, j)) = Cardinality(Rank(I, i)) => Rank(I, j) = Rank(I, i)
    BY Zenon, <1>2, <2>1, FS_Subset
  <2> QED
    BY <1>2, <2>1, <2>2
<1>6. rank \in Injection(I, 1..n)
  <2>1. \A i, j \in I : rank[i] = rank[j] => i = j
    <3> SUFFICES ASSUME NEW i \in I, NEW j \in I, rank[i] = rank[j], i # j
                 PROVE  FALSE
      BY Zenon
    <3>1. i < j \/ j < i
      OBVIOUS
    <3>2. rank[i] \in Int /\ rank[j] \in Int
      BY <1>4
    <3> HIDE DEF rank
    <3> QED
      BY <1>5, <3>1, <3>2
  <2> HIDE DEF rank
  <2> QED
    BY Zenon, <1>4, <2>1 DEF Injection, IsInjective
<1>7. IsFiniteSet(1..n) /\ Cardinality(1..n) = n
  BY <1>1, FS_Interval
<1>8. rank \in Surjection(I, 1..n)
  <2> HIDE DEF rank
  <2> QED
    BY Zenon, <1>6, <1>7, FS_Injection
<1>9. \A k \in 1..n : \E i \in I : rank[i] = k
  <2> HIDE DEF rank
  <2> QED
    BY Zenon, <1>8 DEF Surjection
<1> DEFINE f == [k \in 1..n |-> CHOOSE i \in I : rank[i] = k]
<1> HIDE DEF rank
<1>10. \A k \in 1..n : f[k] \in I /\ rank[f[k]] = k
  BY Zenon, <1>9
<1>11. f \in [1..n -> I]
  BY Zenon, <1>10
<1>12. \A j, k \in 1..n : j < k => f[j] < f[k]
  <2> SUFFICES ASSUME NEW j \in 1..n, NEW k \in 1..n, j < k
               PROVE  f[j] < f[k]
    BY Zenon
  <2>1. f[j] \in I /\ f[k] \in I /\ rank[f[j]] = j /\ rank[f[k]] = k
    BY Zenon, <1>10
  <2> HIDE DEF f
  <2>2. f[j] \in Nat /\ f[k] \in Nat
    BY Zenon, <2>1
  <2>3. f[j] # f[k]
    BY <2>1
  <2>4. ~(f[k] < f[j])
    <3> SUFFICES ASSUME f[k] < f[j]
                 PROVE  FALSE
      BY Zenon
    <3>1. rank[f[k]] < rank[f[j]]
      BY Zenon, <1>5, <2>1
    <3> QED
      BY <2>1, <3>1
  <2> QED
    BY <2>2, <2>3, <2>4
<1> HIDE DEF f
<1>13. DOMAIN f = 1..n
  BY Zenon, <1>11
<1> QED
  BY Zenon, <1>11, <1>12, <1>13


\* InOrder lists a finite set of numbers in increasing order.
LEMMA InOrderIs ==
  ASSUME NEW I \in SUBSET Nat, IsFiniteSet(I)
  PROVE  /\ InOrder(I) \in [1..Cardinality(I) -> I]
         /\ \A j, k \in 1..Cardinality(I) : j < k => InOrder(I)[j] < InOrder(I)[k]
<1>1. /\ InOrder(I) \in [1..Cardinality(I) -> I]
      /\ \A j, k \in DOMAIN InOrder(I) : j < k => InOrder(I)[j] < InOrder(I)[k]
  BY InOrderExists, Zenon DEF InOrder
<1> QED
  BY Zenon, <1>1

\* What is selected is part of the sequence, in A, and repeats nothing the sequence does not.
LEMMA SelectedIs ==
  ASSUME NEW S, NEW q \in Seq(S), NEW A
  PROVE  /\ Selected(q, A) \in Seq(S)
         /\ \A k \in DOMAIN Selected(q, A) : \E i \in DOMAIN q : Selected(q, A)[k] = q[i] /\ q[i] \in A
         /\ IsInjective(q) => IsInjective(Selected(q, A))
<1> DEFINE I == {i \in DOMAIN q : q[i] \in A}
           n == Cardinality(I)
           nth == InOrder(I)
           sel == [k \in DOMAIN nth |-> q[nth[k]]]
<1>1. DOMAIN q = 1..Len(q) /\ Len(q) \in Nat /\ \A i \in DOMAIN q : q[i] \in S
  OBVIOUS
<1>2. I \in SUBSET Nat /\ I \in SUBSET (1..Len(q))
  BY <1>1
<1>3. IsFiniteSet(I)
  <2> HIDE DEF I
  <2>1. IsFiniteSet(1..Len(q))
    BY <1>1, FS_Interval
  <2> QED
    BY Zenon, <1>2, <2>1, FS_Subset
<1>4. n \in Nat
  BY Zenon, <1>3, FS_CardinalityType
<1>5. nth \in [1..n -> I] /\ \A j, k \in 1..n : j < k => nth[j] < nth[k]
  BY Zenon, <1>2, <1>3, InOrderIs
<1>6. \A i \in I : i \in DOMAIN q /\ q[i] \in A /\ i \in Nat
  BY Zenon, <1>2
<1>7. Selected(q, A) = sel
  BY Zenon DEF Selected
<1> HIDE DEF I, n, nth
<1>8. /\ DOMAIN sel = 1..n
      /\ \A k \in 1..n : nth[k] \in I /\ sel[k] = q[nth[k]]
  BY Zenon, <1>5
<1>9. sel = [k \in 1..n |-> q[nth[k]]]
  BY Zenon, <1>5
<1>10. sel \in Seq(S)
  BY <1>1, <1>4, <1>6, <1>8, <1>9, IsASeq
<1>11. \A k \in 1..n : \E i \in DOMAIN q : sel[k] = q[i] /\ q[i] \in A
  BY Zenon, <1>6, <1>8
<1>12. ASSUME IsInjective(q)
       PROVE  IsInjective(sel)
  <2> SUFFICES ASSUME NEW j \in 1..n, NEW k \in 1..n, sel[j] = sel[k], j # k
               PROVE  FALSE
    BY Zenon, <1>8 DEF IsInjective
  <2>1. nth[j] = nth[k]
    BY Zenon, <1>6, <1>8, <1>12 DEF IsInjective
  <2>2. nth[j] \in Nat /\ nth[k] \in Nat
    BY Zenon, <1>6, <1>8
  <2>3. j < k \/ k < j
    BY <1>4
  <2> QED
    BY <1>5, <2>1, <2>2, <2>3
<1> QED
  <2> HIDE DEF sel
  <2> QED
    BY Zenon, <1>7, <1>8, <1>10, <1>11, <1>12

-----------------------------------------------------------------------------
(* Sequences of a stream. *)

\* Receiving and writing move what is on its way.
LEMMA GotMoves ==
  ASSUME NEW S, NEW d \in Seq(S), NEW h \in Seq(S), NEW b \in Seq(S)
  PROVE  /\ (d \o h) \o <<>> \o b = d \o h \o b
         /\ b # <<>> => d \o <<Head(b)>> \o Tail(b) = d \o <<>> \o b
<1>1. d \o h \in Seq(S) /\ (d \o h) \o <<>> = d \o h /\ d \o <<>> = d
  BY ConcatEmptySeq
<1>2. ASSUME b # <<>>
      PROVE  d \o <<Head(b)>> \o Tail(b) = d \o b
  <2>1. Head(b) \in S /\ Tail(b) \in Seq(S) /\ <<Head(b)>> \in Seq(S)
    BY <1>2
  <2>2. <<Head(b)>> \o Tail(b) = b
    BY <1>2, <2>1
  <2>3. d \o <<Head(b)>> \o Tail(b) = d \o (<<Head(b)>> \o Tail(b))
    BY <2>1, ConcatAssociative
  <2> QED
    BY Zenon, <2>2, <2>3
<1> QED
  BY Zenon, <1>1, <1>2

\* The beginning of a sequence.
LEMMA Part ==
  ASSUME NEW S, NEW m \in Seq(S), NEW k \in 0..Len(m)
  PROVE  SubSeq(m, 1, k) \in Seq(S) /\ Len(SubSeq(m, 1, k)) = k
OBVIOUS

\* A sequence with part of another after it begins the two together.
LEMMA StartsPart ==
  ASSUME NEW S, NEW g \in Seq(S), NEW m \in Seq(S), NEW k \in 0..Len(m), k < Len(m)
  PROVE  Starts(g \o SubSeq(m, 1, k), g \o m) /\ Len(g \o SubSeq(m, 1, k)) < Len(g \o m)
<1>1. /\ SubSeq(m, 1, k) \in Seq(S) /\ Len(SubSeq(m, 1, k)) = k
      /\ \A i \in 1..k : SubSeq(m, 1, k)[i] = m[i]
  OBVIOUS
<1>2. PICK t \in Seq(S) : t = SubSeq(m, 1, k)
  BY Zenon, <1>1
<1>3. Len(t) = k /\ \A i \in 1..k : t[i] = m[i]
  BY Zenon, <1>1, <1>2
<1>4. Len(g \o t) = Len(g) + k /\ Len(g \o m) = Len(g) + Len(m)
  BY Zenon, <1>3, ConcatProperties
<1>5. \A i \in 1..(Len(g) + k) : (g \o t)[i] = (g \o m)[i]
  BY <1>3
<1> QED
  BY <1>2, <1>4, <1>5 DEF Starts

\* Nothing is repeated when two sequences without repetition and with nothing in common are joined.
LEMMA JoinedOnce ==
  ASSUME NEW S, NEW p \in Seq(S), NEW q \in Seq(S), IsInjective(p), IsInjective(q), Disjoint(q, p)
  PROVE  IsInjective(p \o q)
<1>1. DOMAIN (p \o q) = 1..(Len(p) + Len(q)) /\ Len(p) \in Nat /\ Len(q) \in Nat
  OBVIOUS
<1>2. \A i \in DOMAIN (p \o q) : \/ i \in DOMAIN p /\ (p \o q)[i] = p[i]
                                 \/ i > Len(p) /\ i - Len(p) \in DOMAIN q /\ (p \o q)[i] = q[i - Len(p)]
  OBVIOUS
<1> SUFFICES ASSUME NEW i \in DOMAIN (p \o q), NEW j \in DOMAIN (p \o q), (p \o q)[i] = (p \o q)[j]
             PROVE  i = j
  BY Zenon DEF IsInjective
<1>3. CASE i \in DOMAIN p /\ j \in DOMAIN p /\ p[i] = p[j]
  BY Zenon, <1>3 DEF IsInjective
<1>4. CASE /\ i - Len(p) \in DOMAIN q /\ j - Len(p) \in DOMAIN q
           /\ q[i - Len(p)] = q[j - Len(p)]
  <2>1. i - Len(p) = j - Len(p)
    BY Zenon, <1>4 DEF IsInjective
  <2> QED
    BY <1>1, <2>1
<1> QED
  BY Zenon, <1>2, <1>3, <1>4 DEF Disjoint

\* A sequence has nothing in common with a joined one if it has nothing with either part.
LEMMA JoinedApart ==
  ASSUME NEW S, NEW p \in Seq(S), NEW q \in Seq(S), NEW a, Disjoint(a, p), Disjoint(a, q)
  PROVE  Disjoint(a, p \o q)
<1>1. \A i \in DOMAIN (p \o q) : \/ i \in DOMAIN p /\ (p \o q)[i] = p[i]
                                 \/ i - Len(p) \in DOMAIN q /\ (p \o q)[i] = q[i - Len(p)]
  OBVIOUS
<1> QED
  BY Zenon, <1>1 DEF Disjoint


-----------------------------------------------------------------------------
(* Publishing. *)

\* What publishing msgs does to one registered subscriber.
LEMMA DeliveredTo ==
  ASSUME IInv, NEW msgs \in Seq(rows'), Deliver(msgs), NEW s \in registered
  PROVE  /\ s \in Subscribers /\ Matching(s, msgs) \in Seq(rows')
         /\ due'[s] = due[s] \o Matching(s, msgs)
         /\ \/ /\ s \notin Overflowing(msgs) /\ buf'[s] = buf[s] \o Matching(s, msgs)
               /\ Len(Matching(s, msgs)) <= Room(s)
            \/ /\ s \in Overflowing(msgs)
               /\ \E k \in 0..Len(Matching(s, msgs)) :
                    /\ k < Len(Matching(s, msgs)) /\ k <= Room(s)
                    /\ buf'[s] = buf[s] \o SubSeq(Matching(s, msgs), 1, k)
<1>1. s \in Subscribers
  BY Zenon DEF IInv, Types, TypeOK
<1>2. PICK m \in Seq(rows') : m = Matching(s, msgs)
  BY Zenon, SelectedIs DEF Matching
<1>3. Len(m) \in Nat /\ SubSeq(m, 1, Len(m)) = m
  BY SubSeqFull
<1>4. PICK room \in Nat : room = Room(s)
  <2>1. buf[s] \in Seq(rows) /\ Len(buf[s]) <= SubscriberBuffer /\ SubscriberBuffer \in Nat
    BY Zenon, <1>1, HubAssumption DEF IInv, Types, TypeOK
  <2>2. Len(buf[s]) \in Nat
    BY <2>1
  <2>3. SubscriberBuffer - Len(buf[s]) \in Nat
    BY <2>1, <2>2
  <2> QED
    BY Zenon, <2>3 DEF Room
<1>5. due'[s] = due[s] \o m /\ buf'[s] = buf[s] \o SubSeq(m, 1, IF Len(m) <= room THEN Len(m) ELSE room)
  BY Zenon, <1>1, <1>2, <1>4 DEF Deliver, Taken
<1>6. CASE Len(m) <= room
  <2>1. (IF Len(m) <= room THEN Len(m) ELSE room) = Len(m)
    BY Zenon, <1>6
  <2>2. s \notin Overflowing(msgs)
    BY <1>2, <1>3, <1>4, <1>6 DEF Overflowing
  <2> QED
    BY Zenon, <1>1, <1>2, <1>3, <1>4, <1>5, <1>6, <2>1, <2>2
<1>7. CASE Len(m) > room
  <2>1. /\ (IF Len(m) <= room THEN Len(m) ELSE room) = room
        /\ room \in 0..Len(m) /\ room < Len(m) /\ room <= room
    <3>1. ~(Len(m) <= room) /\ room \in 0..Len(m) /\ room < Len(m) /\ room <= room
      BY <1>3, <1>4, <1>7
    <3> QED
      BY Zenon, <3>1
  <2>2. s \in Overflowing(msgs)
    BY Zenon, <1>2, <1>4, <1>7 DEF Overflowing
  <2>3. \E k \in 0..Len(m) : k < Len(m) /\ k <= room /\ buf'[s] = buf[s] \o SubSeq(m, 1, k)
    BY Zenon, <1>5, <2>1
  <2> QED
    BY Zenon, <1>1, <1>2, <1>4, <1>5, <2>2, <2>3
<1>8. Len(m) <= room \/ Len(m) > room
  BY <1>3
<1> QED
  BY <1>6, <1>7, <1>8, Zenon


\* What is stored stays stored, so what was made of stored records still is.
LEMMA StillStored ==
  ASSUME Types, rows \subseteq rows'
  PROVE  /\ \A s \in Subscribers : /\ buf[s] \in Seq(rows') /\ hand[s] \in Seq(rows')
                                   /\ delivered[s] \in Seq(rows') /\ due[s] \in Seq(rows')
         /\ \A b \in Batches : accepted[b] \in Seq(rows')
<1>1. Seq(rows) \subseteq Seq(rows')
  BY Zenon, SeqMonotonic
<1> QED
  BY Zenon, <1>1 DEF Types

\* The stream of one subscriber after msgs is published.
LEMMA StreamAfter ==
  ASSUME IInv, NEW msgs \in Seq(rows'), Deliver(msgs), rows \subseteq rows',
         UNCHANGED <<hand, delivered, reader>>, NEW s \in registered
  PROVE  /\ buf'[s] \in Seq(rows') /\ Len(buf'[s]) <= SubscriberBuffer /\ due'[s] \in Seq(rows')
         /\ Live(s) => /\ s \notin Overflowing(msgs) => Got(s)' = due'[s]
                       /\ s \in Overflowing(msgs) => Starts(Got(s)', due'[s]) /\ Len(Got(s)') < Len(due'[s])
<1>1. PICK m \in Seq(rows') : m = Matching(s, msgs)
  BY Zenon, DeliveredTo
<1>2. s \in Subscribers /\ s \notin dropped
  BY Zenon DEF IInv, Types, TypeOK, RegisteredInv
<1>3. PICK d \in Seq(rows'), h \in Seq(rows'), b \in Seq(rows') : d = delivered[s] /\ h = hand[s] /\ b = buf[s]
  BY Zenon, <1>2, StillStored DEF IInv
<1>4. PICK u \in Seq(rows') : u = due[s] /\ (Live(s) => u = d \o h \o b)
  BY Zenon, <1>2, <1>3, StillStored DEF IInv, StreamInv, Got
<1>5. due'[s] = u \o m /\ u \o m \in Seq(rows')
  BY Zenon, <1>1, <1>4, DeliveredTo, ConcatProperties
<1>6. Got(s)' = d \o h \o buf'[s]
  BY Zenon, <1>3 DEF Got
<1>7. Len(m) \in Nat /\ Len(b) \in Nat /\ SubscriberBuffer \in Nat /\ Room(s) = SubscriberBuffer - Len(b)
  BY <1>3, HubAssumption DEF Room
<1>8. ASSUME NEW t \in Seq(rows')
      PROVE  d \o h \o (b \o t) = (d \o h \o b) \o t
  <2>1. PICK e \in Seq(rows') : e = d \o h
    BY Zenon, ConcatProperties
  <2>2. e \o (b \o t) = (e \o b) \o t
    BY SMTT(60)
  <2> QED
    BY Zenon, <2>1, <2>2
<1>9. CASE s \notin Overflowing(msgs)
  <2>1. buf'[s] = b \o m /\ Len(m) <= Room(s)
    BY Zenon, <1>1, <1>3, <1>9, DeliveredTo
  <2>2. b \o m \in Seq(rows') /\ Len(b \o m) = Len(b) + Len(m)
    BY Zenon, ConcatProperties
  <2>3. Len(b \o m) <= SubscriberBuffer
    BY <1>7, <2>1, <2>2
  <2>4. d \o h \o (b \o m) = (d \o h \o b) \o m
    BY Zenon, <1>8
  <2> QED
    BY Zenon, <1>4, <1>5, <1>6, <1>9, <2>1, <2>2, <2>3, <2>4
<1>10. CASE s \in Overflowing(msgs)
  <2>1. PICK k \in 0..Len(m) : k < Len(m) /\ k <= Room(s) /\ buf'[s] = b \o SubSeq(m, 1, k)
    BY Zenon, <1>1, <1>3, <1>10, DeliveredTo
  <2>2. PICK t \in Seq(rows') : t = SubSeq(m, 1, k) /\ Len(t) = k
    BY Zenon, Part
  <2>3. b \o t \in Seq(rows') /\ Len(b \o t) = Len(b) + k
    BY Zenon, <2>2, ConcatProperties
  <2>4. Len(b \o t) <= SubscriberBuffer
    BY <1>7, <2>1, <2>3
  <2>5. d \o h \o (b \o t) = (d \o h \o b) \o t
    BY Zenon, <1>8
  <2>6. Starts(u \o t, u \o m) /\ Len(u \o t) < Len(u \o m)
    BY Zenon, <2>1, <2>2, StartsPart
  <2> QED
    BY Zenon, <1>4, <1>5, <1>6, <1>10, <2>1, <2>2, <2>3, <2>4, <2>5, <2>6
<1> QED
  BY Zenon, <1>9, <1>10

\* Nothing published to one subscriber is repeated, nor still to be published.
LEMMA OnceAfter ==
  ASSUME IInv, NEW msgs \in Seq(rows'), Deliver(msgs), rows \subseteq rows', NEW s \in registered,
         IsInjective(msgs), Disjoint(msgs, due[s])
  PROVE  /\ IsInjective(due'[s])
         /\ \A a : Disjoint(a, due[s]) /\ Disjoint(a, msgs) => Disjoint(a, due'[s])
<1>1. PICK m \in Seq(rows') : m = Matching(s, msgs)
  BY Zenon, DeliveredTo
<1>2. IsInjective(m) /\ \A k \in DOMAIN m : \E i \in DOMAIN msgs : m[k] = msgs[i]
  BY <1>1, SelectedIs DEF Matching
<1>3. s \in Subscribers
  BY Zenon DEF IInv, Types, TypeOK
<1>4. PICK u \in Seq(rows') : u = due[s] /\ IsInjective(u)
  BY Zenon, <1>3, StillStored DEF IInv, OnceInv
<1>5. due'[s] = u \o m
  BY Zenon, <1>1, <1>4, DeliveredTo
<1>6. Disjoint(m, u)
  BY <1>2, <1>4 DEF Disjoint
<1>7. IsInjective(u \o m)
  BY Zenon, <1>2, <1>4, <1>6, JoinedOnce
<1>8. ASSUME NEW a, Disjoint(a, u), Disjoint(a, msgs)
      PROVE  Disjoint(a, u \o m)
  <2>1. Disjoint(a, m)
    BY Zenon, <1>2, <1>8 DEF Disjoint
  <2> QED
    BY Zenon, <1>8, <2>1, JoinedApart
<1> QED
  BY Zenon, <1>4, <1>5, <1>7, <1>8


\* Publishing records that nobody got yet and that are no longer to be published.
LEMMA DeliverKeeps ==
  ASSUME IInv, NEW msgs \in Seq(rows'), Deliver(msgs), shut # "exited", UNCHANGED <<shut, readerVars>>,
         claimed' \subseteq Batches, rows \subseteq rows', rows' \subseteq Message,
         accepted' \in [Batches -> Seq(rows')],
         IsInjective(msgs), \A s \in Subscribers : Disjoint(msgs, due[s]),
         \A b \in Batches : IsInjective(accepted'[b]) /\ Disjoint(accepted'[b], msgs),
         \A b \in Batches, s \in Subscribers : Disjoint(accepted'[b], due[s]),
         \A b, c \in Batches : b # c => Disjoint(accepted'[b], accepted'[c])
  PROVE  IInv'
<1>1. UNCHANGED <<reader, hand, delivered, goodbye, shut>>
  BY Zenon DEF readerVars
<1>2. registered \subseteq Subscribers /\ Overflowing(msgs) \subseteq registered /\ open = registered
  BY Zenon DEF IInv, Types, TypeOK, RegisteredInv, Overflowing
<1>3. /\ registered' = registered \ Overflowing(msgs) /\ open' = registered'
      /\ dropped' = dropped \cup Overflowing(msgs)
  BY Zenon, <1>2 DEF Deliver, Kept
<1>4. ASSUME NEW s \in Subscribers, s \notin registered
      PROVE  buf'[s] = buf[s] /\ due'[s] = due[s] /\ Got(s)' = Got(s) /\ (s \in dropped' <=> s \in dropped)
  BY Zenon, <1>1, <1>2, <1>3, <1>4 DEF Deliver, Got
<1>5. ASSUME NEW s \in Subscribers
      PROVE  buf'[s] \in Seq(rows') /\ Len(buf'[s]) <= SubscriberBuffer /\ due'[s] \in Seq(rows')
  <2>1. CASE s \in registered
    BY Zenon, <1>1, <2>1, StreamAfter
  <2>2. CASE s \notin registered
    BY Zenon, <1>4, <2>2, StillStored DEF IInv, Types, TypeOK
  <2> QED
    BY Zenon, <2>1, <2>2
<1>6. Types'
  <2>1. /\ hand' \in [Subscribers -> Seq(rows')] /\ delivered' \in [Subscribers -> Seq(rows')]
    BY Zenon, <1>1, StillStored DEF IInv, Types
  <2>2. buf' \in [Subscribers -> Seq(rows')] /\ due' \in [Subscribers -> Seq(rows')]
    <3>1. /\ buf' = [s \in Subscribers |-> buf'[s]]
          /\ due' = [s \in Subscribers |-> due'[s]]
      BY Zenon DEF Deliver
    <3> QED
      BY Zenon, <1>5, <3>1
  <2>3. TypeOK'
    <3>1. \A s \in Subscribers : hand'[s] \in Seq(rows') /\ Len(hand'[s]) <= 1
      BY Zenon, <1>1, <2>1 DEF IInv, Types, TypeOK
    <3>2. registered' \subseteq Subscribers /\ open' \subseteq Subscribers /\ dropped' \subseteq Subscribers
      BY Zenon, <1>2, <1>3 DEF IInv, Types, TypeOK
    <3>3. \A b \in Batches : accepted'[b] \in Seq(rows')
      BY Zenon
    <3> QED
      BY Zenon, <1>1, <1>5, <3>1, <3>2, <3>3 DEF IInv, Types, TypeOK
  <2> QED
    BY Zenon, <2>1, <2>2, <2>3 DEF Types
<1>7. RegisteredInv'
  <2>1. ASSUME NEW s \in Subscribers
        PROVE  /\ reader[s] = "none" => s \notin registered' /\ s \notin dropped' /\ due'[s] = <<>> /\ Got(s)' = <<>>
               /\ reader[s] = "gone" /\ shut # "exited" => s \notin registered'
               /\ Live(s)' /\ s \notin registered' /\ s \notin dropped' => shut # "no"
               /\ goodbye[s] # "none" => s \notin registered' /\ reader[s] \in {"leaving", "gone"}
    <3>1. CASE s \in registered
      BY Zenon, <1>1, <1>2, <1>3, <3>1 DEF IInv, RegisteredInv, Live
    <3>2. CASE s \notin registered
      BY Zenon, <1>1, <1>3, <1>4, <3>2 DEF IInv, RegisteredInv, Live
    <3> QED
      BY Zenon, <3>1, <3>2
  <2>2. registered' \cap dropped' = {} /\ (shut = "closed" => registered' = {})
    BY Zenon, <1>2, <1>3 DEF IInv, RegisteredInv
  <2>3. \A s \in Subscribers : reader[s] = "select" => hand[s] = <<>>
    BY Zenon DEF IInv, RegisteredInv
  <2> QED
    BY Zenon, <1>1, <1>3, <2>1, <2>2, <2>3 DEF RegisteredInv
<1>8. StreamInv'
  <2> SUFFICES ASSUME NEW s \in Subscribers, Live(s)'
               PROVE  /\ s \notin dropped' => Got(s)' = due'[s]
                      /\ s \in dropped' => Starts(Got(s)', due'[s]) /\ Len(Got(s)') < Len(due'[s])
    BY Zenon DEF StreamInv, Starts
  <2>1. Live(s)
    BY Zenon, <1>1 DEF Live
  <2>2. CASE s \in registered
    BY Zenon, <1>1, <1>2, <1>3, <2>1, <2>2, StreamAfter DEF IInv, RegisteredInv
  <2>3. CASE s \notin registered
    BY Zenon, <1>4, <2>1, <2>3 DEF IInv, StreamInv
  <2> QED
    BY Zenon, <2>2, <2>3
<1>9. GoodbyeIsTrue'
  <2>1. \A s \in Subscribers : goodbye[s] # "none" => due'[s] = due[s]
    BY Zenon, <1>4 DEF IInv, RegisteredInv
  <2> QED
    BY Zenon, <1>1, <2>1 DEF IInv, GoodbyeIsTrue
<1>10. OnceInv'
  <2>1. ASSUME NEW s \in Subscribers
        PROVE  IsInjective(due'[s]) /\ \A b \in Batches : Disjoint(accepted'[b], due'[s])
    <3>1. CASE s \in registered
      BY Zenon, <3>1, OnceAfter
    <3>2. CASE s \notin registered
      BY Zenon, <1>4, <3>2 DEF IInv, OnceInv
    <3> QED
      BY Zenon, <3>1, <3>2
  <2>2. /\ (\A s \in Subscribers : IsInjective(due[s]))'
        /\ (\A b \in Batches, s \in Subscribers : Disjoint(accepted[b], due[s]))'
    BY Zenon, <2>1 DEF IsInjective, Disjoint
  <2>3. /\ (\A b \in Batches : IsInjective(accepted[b]))'
        /\ (\A b, c \in Batches : b # c => Disjoint(accepted[b], accepted[c]))'
    BY Zenon DEF IsInjective, Disjoint
  <2> QED
    BY Zenon, <2>2, <2>3 DEF OnceInv
<1> QED
  BY Zenon, <1>6, <1>7, <1>8, <1>9, <1>10 DEF IInv


\* Ingest publishes what it committed.
LEMMA PublishKeeps ==
  ASSUME IInv, shut # "exited", NEW b \in Batches, Publish(b)
  PROVE  IInv'
<1>1. rows' = rows /\ claimed' = claimed /\ rows \subseteq Message /\ claimed \subseteq Batches
  BY Zenon DEF Publish, IInv, Types, TypeOK
<1>2. accepted \in [Batches -> Seq(rows)] /\ <<>> \in Seq(rows) /\ DOMAIN <<>> = {}
  BY DEF IInv, Types
<1>3. PICK msgs \in Seq(rows) : msgs = accepted[b] /\ Deliver(msgs)
  BY Zenon, <1>2 DEF Publish
<1>4. accepted' \in [Batches -> Seq(rows)] /\ accepted'[b] = <<>> /\ \A c \in Batches : c # b => accepted'[c] = accepted[c]
  BY Zenon, <1>2 DEF Publish
<1>5. IsInjective(msgs) /\ \A s \in Subscribers : Disjoint(msgs, due[s])
  BY Zenon, <1>3 DEF IInv, OnceInv
<1>6. IsInjective(<<>>) /\ \A a : Disjoint(<<>>, a) /\ Disjoint(a, <<>>)
  BY Zenon, <1>2 DEF IsInjective, Disjoint
<1>7. /\ \A c \in Batches : IsInjective(accepted'[c]) /\ Disjoint(accepted'[c], msgs)
      /\ \A c \in Batches, s \in Subscribers : Disjoint(accepted'[c], due[s])
      /\ \A c, d \in Batches : c # d => Disjoint(accepted'[c], accepted'[d])
  BY Zenon, <1>3, <1>4, <1>6 DEF IInv, OnceInv
<1>8. UNCHANGED <<shut, readerVars>>
  BY Zenon DEF Publish
<1> QED
  BY Zenon, <1>1, <1>3, <1>4, <1>5, <1>7, <1>8, DeliverKeeps

\* The uptime worker publishes a result it stored.
LEMMA PublishResultKeeps ==
  ASSUME IInv, shut # "exited", NEW r \in Results, PublishResult(r)
  PROVE  IInv'
<1>1. /\ rows' = rows \cup {r} /\ r \notin rows /\ accepted' = accepted /\ claimed' = claimed
      /\ Deliver(<<r>>) /\ UNCHANGED <<shut, readerVars>>
  BY Zenon DEF PublishResult
<1>2. rows \subseteq rows' /\ rows' \subseteq Message /\ claimed' \subseteq Batches
  BY Zenon, <1>1 DEF IInv, Types, TypeOK, Message
<1>3. PICK msgs \in Seq(rows') : msgs = <<r>>
  <2>1. r \in rows'
    BY Zenon, <1>1
  <2>2. <<r>> \in Seq(rows')
    BY <2>1
  <2> QED
    BY Zenon, <2>2
<1>4. DOMAIN msgs = {1} /\ msgs[1] = r
  BY <1>3
<1>5. IsInjective(msgs)
  BY Zenon, <1>4 DEF IsInjective
<1>6. ASSUME NEW a \in Seq(rows)
      PROVE  Disjoint(msgs, a) /\ Disjoint(a, msgs)
  <2>1. \A i \in DOMAIN a : a[i] \in rows
    OBVIOUS
  <2> QED
    BY Zenon, <1>1, <1>4, <2>1 DEF Disjoint
<1>7. accepted' \in [Batches -> Seq(rows')]
  BY Zenon, <1>1, <1>2, StillStored DEF IInv, Types
<1>8. \A s \in Subscribers : Disjoint(msgs, due[s])
  BY Zenon, <1>6 DEF IInv, Types
<1>9. /\ \A b \in Batches : IsInjective(accepted'[b]) /\ Disjoint(accepted'[b], msgs)
      /\ \A b \in Batches, s \in Subscribers : Disjoint(accepted'[b], due[s])
      /\ \A b, c \in Batches : b # c => Disjoint(accepted'[b], accepted'[c])
  BY Zenon, <1>1, <1>6 DEF IInv, Types, OnceInv
<1> QED
  BY Zenon, <1>1, <1>2, <1>3, <1>5, <1>7, <1>8, <1>9, DeliverKeeps

-----------------------------------------------------------------------------
(* The other steps. *)

\* A batch is stored: what is new in it has reached nobody.
LEMMA IngestKeeps ==
  ASSUME IInv, NEW b \in Batches, Ingest(b)
  PROVE  IInv'
<1>1. /\ claimed' = claimed \cup {b} /\ accepted' = [accepted EXCEPT ![b] = Accepted(b)]
      /\ rows' = rows \cup Range(Records[b])
      /\ UNCHANGED <<registered, shut, open, buf, dropped, reader, hand, delivered, goodbye, due>>
  BY Zenon DEF Ingest, hubVars, readerVars
<1>2. rows \subseteq rows' /\ rows' \subseteq Message
  BY Zenon, <1>1 DEF IInv, Types, TypeOK, Message
<1>3. PICK q \in Seq(rows') : q = Records[b] /\ IsInjective(q)
  <2>1. Records[b] \in Seq(Message) /\ IsInjective(Records[b])
    BY Zenon, HubAssumption
  <2>2. \A i \in DOMAIN Records[b] : Records[b][i] \in rows'
    BY Zenon, <1>1 DEF Range
  <2>3. Records[b] \in Seq(rows')
    BY <2>1, <2>2
  <2> QED
    BY Zenon, <2>1, <2>3
<1>4. PICK m \in Seq(rows') : m = Accepted(b) /\ IsInjective(m) /\ \A k \in DOMAIN m : m[k] \notin rows
  <2>1. /\ Selected(q, Range(q) \ rows) \in Seq(rows') /\ IsInjective(Selected(q, Range(q) \ rows))
        /\ \A k \in DOMAIN Selected(q, Range(q) \ rows) : Selected(q, Range(q) \ rows)[k] \notin rows
    BY <1>3, SelectedIs
  <2> QED
    BY Zenon, <1>3, <2>1 DEF Accepted
<1>5. accepted' \in [Batches -> Seq(rows')] /\ accepted'[b] = m /\ \A c \in Batches : c # b => accepted'[c] = accepted[c]
  BY Zenon, <1>1, <1>2, <1>4, StillStored DEF IInv, Types
<1>6. ASSUME NEW a \in Seq(rows)
      PROVE  Disjoint(m, a) /\ Disjoint(a, m)
  <2>1. \A i \in DOMAIN a : a[i] \in rows
    OBVIOUS
  <2> QED
    BY Zenon, <1>4, <2>1 DEF Disjoint
<1>7. Types'
  <2>1. /\ buf' \in [Subscribers -> Seq(rows')] /\ hand' \in [Subscribers -> Seq(rows')]
        /\ delivered' \in [Subscribers -> Seq(rows')] /\ due' \in [Subscribers -> Seq(rows')]
    BY Zenon, <1>1, <1>2, StillStored DEF IInv, Types
  <2>2. TypeOK'
    <3>1. \A s \in Subscribers : /\ buf'[s] \in Seq(rows') /\ Len(buf'[s]) <= SubscriberBuffer
                                 /\ hand'[s] \in Seq(rows') /\ Len(hand'[s]) <= 1
      BY Zenon, <1>1, <2>1 DEF IInv, Types, TypeOK
    <3>2. (\A c \in Batches : accepted[c] \in Seq(rows))' /\ claimed' \subseteq Batches
      BY Zenon, <1>1, <1>5 DEF IInv, Types, TypeOK
    <3> QED
      BY Zenon, <1>1, <1>2, <3>1, <3>2 DEF IInv, Types, TypeOK
  <2> QED
    BY Zenon, <1>5, <2>1, <2>2 DEF Types
<1>8. RegisteredInv' /\ StreamInv' /\ GoodbyeIsTrue'
  BY Zenon, <1>1 DEF IInv, RegisteredInv, StreamInv, GoodbyeIsTrue, Live, Got, Starts
<1>9. OnceInv'
  <2>1. /\ \A c \in Batches : IsInjective(accepted'[c])
        /\ \A c \in Batches, s \in Subscribers : Disjoint(accepted'[c], due[s])
        /\ \A c, d \in Batches : c # d => Disjoint(accepted'[c], accepted'[d])
    BY Zenon, <1>4, <1>5, <1>6 DEF IInv, Types, OnceInv
  <2>2. /\ (\A c \in Batches, s \in Subscribers : Disjoint(accepted[c], due[s]))'
        /\ (\A c, d \in Batches : c # d => Disjoint(accepted[c], accepted[d]))'
    BY <1>1, <2>1 DEF Disjoint
  <2> QED
    BY Zenon, <1>1, <2>1, <2>2 DEF IInv, OnceInv, IsInjective
<1> QED
  BY Zenon, <1>7, <1>8, <1>9 DEF IInv


\* A step that stores and publishes nothing.
LEMMA NothingNew == ASSUME IInv, UNCHANGED <<storeVars, due>> PROVE OnceInv'
BY DEF IInv, OnceInv, storeVars, IsInjective, Disjoint

\* The types when nothing is stored or published.
LEMMA TypesStay ==
  ASSUME IInv, UNCHANGED <<storeVars, due>>,
         registered' \subseteq registered \cup Subscribers, open' \subseteq open \cup Subscribers, dropped' = dropped,
         shut' \in {"no", "closed", "exited"},
         reader' \in [Subscribers -> {"none", "select", "writing", "leaving", "gone"}],
         goodbye' \in [Subscribers -> {"none", "too slow", "shutting down"}],
         buf' \in [Subscribers -> Seq(rows)], hand' \in [Subscribers -> Seq(rows)],
         delivered' \in [Subscribers -> Seq(rows)],
         \A s \in Subscribers : Len(buf'[s]) <= SubscriberBuffer /\ Len(hand'[s]) <= 1
  PROVE  Types'
<1>1. \A s \in Subscribers : buf'[s] \in Seq(rows) /\ hand'[s] \in Seq(rows)
  BY Zenon
<1> QED
  BY Zenon, <1>1 DEF IInv, Types, TypeOK, storeVars

\* The hub is closed.
LEMMA CloseKeeps ==
  ASSUME IInv, Close
  PROVE  IInv'
<1>1. /\ UNCHANGED <<claimed, rows, accepted, buf, dropped, reader, hand, delivered, goodbye, due>>
      /\ UNCHANGED <<storeVars, due>>
      /\ shut = "no" /\ shut' = "closed" /\ registered' = {} /\ open' = {}
  BY Zenon DEF Close, storeVars, readerVars, IInv, RegisteredInv
<1>2. Types'
  BY Zenon, <1>1, TypesStay DEF IInv, Types, TypeOK
<1>3. RegisteredInv'
  BY Zenon, <1>1 DEF IInv, RegisteredInv, Live, Got
<1>4. StreamInv' /\ GoodbyeIsTrue'
  BY Zenon, <1>1 DEF IInv, StreamInv, GoodbyeIsTrue, Live, Got, Starts
<1> QED
  BY Zenon, <1>1, <1>2, <1>3, <1>4, NothingNew DEF IInv

\* The process ends.
LEMMA ExitKeeps ==
  ASSUME IInv, Exit
  PROVE  IInv'
<1>1. /\ UNCHANGED <<claimed, rows, accepted, registered, open, buf, dropped, hand, delivered, goodbye, due>>
      /\ UNCHANGED <<storeVars, due>>
      /\ shut' = "exited" /\ reader' = [s \in Subscribers |-> "gone"]
  BY Zenon DEF Exit, storeVars
<1>2. Types'
  BY Zenon, <1>1, TypesStay DEF IInv, Types, TypeOK
<1>3. RegisteredInv'
  BY Zenon, <1>1 DEF IInv, RegisteredInv, Live, Got
<1>4. StreamInv' /\ GoodbyeIsTrue'
  BY Zenon, <1>1 DEF IInv, StreamInv, GoodbyeIsTrue, Live
<1> QED
  BY Zenon, <1>1, <1>2, <1>3, <1>4, NothingNew DEF IInv

\* A step of one stream handler that leaves what its client got or will get.
LEMMA HandlerKeeps ==
  ASSUME IInv, NEW s \in Subscribers, UNCHANGED <<storeVars, due, shut, dropped>>, Types',
         \A t \in Subscribers : t # s => /\ reader'[t] = reader[t] /\ hand'[t] = hand[t] /\ buf'[t] = buf[t]
                                         /\ delivered'[t] = delivered[t] /\ goodbye'[t] = goodbye[t]
                                         /\ (t \in registered' <=> t \in registered),
         open' = registered', registered' \cap dropped = {}, shut = "closed" => registered' = {},
         reader'[s] # "none",
         reader'[s] = "gone" /\ shut # "exited" => s \notin registered',
         Live(s)' /\ s \notin registered' /\ s \notin dropped => shut # "no",
         reader'[s] = "select" => hand'[s] = <<>>,
         goodbye'[s] # "none" => s \notin registered' /\ reader'[s] \in {"leaving", "gone"},
         Live(s)' => Got(s)' = Got(s) /\ (Live(s) \/ (s \notin dropped /\ Got(s) = due[s])),
         goodbye'[s] = "too slow" => Len(delivered'[s]) < Len(due[s]),
         goodbye'[s] = "shutting down" => shut # "no" /\ delivered'[s] = due[s]
  PROVE  IInv'
<1>1. \A t \in Subscribers : t # s => Got(t)' = Got(t) /\ (Live(t)' <=> Live(t))
  BY Zenon DEF Got, Live
<1>2. RegisteredInv'
  BY Zenon, <1>1 DEF IInv, RegisteredInv
<1>3. StreamInv'
  <2> SUFFICES ASSUME NEW t \in Subscribers, Live(t)'
               PROVE  /\ t \notin dropped' => Got(t)' = due'[t]
                      /\ t \in dropped' => Starts(Got(t)', due'[t]) /\ Len(Got(t)') < Len(due'[t])
    BY Zenon DEF StreamInv, Starts
  <2>1. Got(t)' = Got(t) /\ (Live(t) \/ (t \notin dropped /\ Got(t) = due[t]))
    BY Zenon, <1>1
  <2> QED
    BY Zenon, <2>1 DEF IInv, StreamInv
<1>4. GoodbyeIsTrue'
  BY Zenon DEF IInv, GoodbyeIsTrue
<1> QED
  BY Zenon, <1>2, <1>3, <1>4, NothingNew DEF IInv


\* A client subscribes.
LEMMA SubscribeKeeps ==
  ASSUME IInv, shut # "exited", NEW s \in Subscribers, Subscribe(s)
  PROVE  IInv'
<1>1. /\ UNCHANGED <<storeVars, due, shut, dropped>> /\ UNCHANGED <<buf, hand, delivered, goodbye>>
      /\ reader[s] = "none" /\ reader' = [reader EXCEPT ![s] = "select"]
  BY Zenon DEF Subscribe
<1>2. /\ reader \in [Subscribers -> {"none", "select", "writing", "leaving", "gone"}]
      /\ registered \subseteq Subscribers /\ open = registered /\ shut \in {"no", "closed", "exited"}
  BY Zenon DEF IInv, Types, TypeOK, RegisteredInv
<1>3. /\ reader'[s] = "select" /\ \A t \in Subscribers : t # s => reader'[t] = reader[t]
      /\ reader' \in [Subscribers -> {"none", "select", "writing", "leaving", "gone"}]
  BY Zenon, <1>1, <1>2
<1>4. /\ open' = registered'
      /\ registered' = IF shut = "no" THEN registered \cup {s} ELSE registered
  BY Zenon, <1>2 DEF Subscribe
<1>5. s \notin registered /\ s \notin dropped /\ due[s] = <<>> /\ Got(s) = <<>> /\ goodbye[s] = "none"
  BY Zenon, <1>1 DEF IInv, RegisteredInv
<1>6. hand[s] = <<>>
  <2>1. PICK d \in Seq(rows), h \in Seq(rows), b \in Seq(rows) : d = delivered[s] /\ h = hand[s] /\ b = buf[s]
    BY Zenon DEF IInv, Types
  <2>2. d \o h \o b = <<>> /\ d \o h \in Seq(rows)
    BY Zenon, <1>5, <2>1, ConcatProperties DEF Got
  <2>3. Len((d \o h) \o b) = Len(d) + Len(h) + Len(b)
    OBVIOUS
  <2>4. Len(h) = 0
    BY <2>2, <2>3
  <2> QED
    BY <2>1, <2>4
<1>7. Types'
  BY Zenon, <1>1, <1>2, <1>3, <1>4, TypesStay DEF IInv, Types, TypeOK
<1>8. /\ registered' \cap dropped = {} /\ (shut = "closed" => registered' = {})
      /\ \A t \in Subscribers : t # s => (t \in registered' <=> t \in registered)
      /\ s \notin registered' => shut # "no"
  BY Zenon, <1>4, <1>5 DEF IInv, RegisteredInv
<1>9. Got(s)' = Got(s)
  BY Zenon, <1>1 DEF Got
<1> QED
  BY Zenon, <1>1, <1>3, <1>4, <1>5, <1>6, <1>7, <1>8, <1>9, HandlerKeeps

\* The registrations are as they were.
LEMMA SameRegistered ==
  ASSUME IInv, UNCHANGED <<registered, open>>
  PROVE  /\ open' = registered' /\ registered' \cap dropped = {} /\ (shut = "closed" => registered' = {})
         /\ registered' \subseteq registered \cup Subscribers /\ open' \subseteq open \cup Subscribers
BY Zenon DEF IInv, RegisteredInv

\* A handler takes the next message from its channel.
LEMMA ReceiveKeeps ==
  ASSUME IInv, NEW s \in Subscribers, Receive(s)
  PROVE  IInv'
<1>1. /\ UNCHANGED <<storeVars, due, shut, dropped>> /\ UNCHANGED <<registered, open, delivered, goodbye>>
      /\ reader[s] = "select" /\ reader' = [reader EXCEPT ![s] = "writing"] /\ buf[s] # <<>>
      /\ hand' = [hand EXCEPT ![s] = <<Head(buf[s])>>] /\ buf' = [buf EXCEPT ![s] = Tail(buf[s])]
  BY Zenon DEF Receive
<1>2. /\ reader \in [Subscribers -> {"none", "select", "writing", "leaving", "gone"}]
      /\ hand \in [Subscribers -> Seq(rows)] /\ buf \in [Subscribers -> Seq(rows)]
      /\ delivered \in [Subscribers -> Seq(rows)]
  BY Zenon DEF IInv, Types, TypeOK
<1>3. PICK d \in Seq(rows), b \in Seq(rows) : d = delivered[s] /\ b = buf[s] /\ hand[s] = <<>>
  BY Zenon, <1>1, <1>2 DEF IInv, RegisteredInv
<1>4. /\ <<Head(b)>> \in Seq(rows) /\ Tail(b) \in Seq(rows) /\ Len(Tail(b)) <= Len(b) /\ Len(<<Head(b)>>) <= 1
      /\ Len(b) \in Nat /\ Len(Tail(b)) \in Nat
  <2>1. Head(b) \in rows
    BY <1>1, <1>3
  <2> QED
    BY <1>1, <1>3, <2>1
<1>5. /\ hand' \in [Subscribers -> Seq(rows)] /\ buf' \in [Subscribers -> Seq(rows)]
      /\ reader' \in [Subscribers -> {"none", "select", "writing", "leaving", "gone"}]
      /\ hand'[s] = <<Head(b)>> /\ buf'[s] = Tail(b) /\ reader'[s] = "writing"
      /\ \A t \in Subscribers : t # s => hand'[t] = hand[t] /\ buf'[t] = buf[t] /\ reader'[t] = reader[t]
  BY Zenon, <1>1, <1>2, <1>3, <1>4
<1>6. \A t \in Subscribers : Len(buf'[t]) <= SubscriberBuffer /\ Len(hand'[t]) <= 1
  <2>1. Len(b) <= SubscriberBuffer /\ SubscriberBuffer \in Nat
    BY Zenon, <1>3, HubAssumption DEF IInv, Types, TypeOK
  <2>2. Len(Tail(b)) <= SubscriberBuffer
    BY <1>4, <2>1
  <2>3. \A t \in Subscribers : t # s => Len(buf'[t]) <= SubscriberBuffer /\ Len(hand'[t]) <= 1
    BY Zenon, <1>5 DEF IInv, Types, TypeOK
  <2> QED
    BY Zenon, <1>4, <1>5, <2>2, <2>3
<1>7. Got(s)' = Got(s)
  <2>1. d \o <<Head(b)>> \o Tail(b) = d \o <<>> \o b
    BY Zenon, <1>1, <1>3, GotMoves
  <2> QED
    BY Zenon, <1>1, <1>3, <1>5, <2>1 DEF Got
<1>8. Types'
  BY Zenon, <1>1, <1>2, <1>5, <1>6, SameRegistered, TypesStay DEF IInv, Types, TypeOK
<1>9. /\ goodbye'[s] = "none" /\ Live(s)
      /\ Live(s)' /\ s \notin registered' /\ s \notin dropped => shut # "no"
  BY Zenon, <1>1 DEF IInv, Types, TypeOK, RegisteredInv, Live
<1> QED
  BY Zenon, <1>1, <1>5, <1>7, <1>8, <1>9, SameRegistered, HandlerKeeps

\* A handler has written its message.
LEMMA WriteKeeps ==
  ASSUME IInv, NEW s \in Subscribers, Write(s)
  PROVE  IInv'
<1>1. /\ UNCHANGED <<storeVars, due, shut, dropped>> /\ UNCHANGED <<registered, open, buf, goodbye>>
      /\ reader[s] = "writing" /\ reader' = [reader EXCEPT ![s] = "select"]
      /\ hand' = [hand EXCEPT ![s] = <<>>] /\ delivered' = [delivered EXCEPT ![s] = delivered[s] \o hand[s]]
  BY Zenon DEF Write, hubVars
<1>2. /\ reader \in [Subscribers -> {"none", "select", "writing", "leaving", "gone"}]
      /\ hand \in [Subscribers -> Seq(rows)] /\ buf \in [Subscribers -> Seq(rows)]
      /\ delivered \in [Subscribers -> Seq(rows)]
  BY Zenon DEF IInv, Types, TypeOK
<1>3. PICK d \in Seq(rows), h \in Seq(rows), b \in Seq(rows) : d = delivered[s] /\ h = hand[s] /\ b = buf[s]
  BY Zenon, <1>2
<1>4. d \o h \in Seq(rows) /\ <<>> \in Seq(rows) /\ Len(<<>>) <= 1
  BY ConcatProperties
<1>5. /\ hand' \in [Subscribers -> Seq(rows)] /\ delivered' \in [Subscribers -> Seq(rows)]
      /\ reader' \in [Subscribers -> {"none", "select", "writing", "leaving", "gone"}]
      /\ hand'[s] = <<>> /\ delivered'[s] = d \o h /\ reader'[s] = "select"
      /\ \A t \in Subscribers : t # s => hand'[t] = hand[t] /\ delivered'[t] = delivered[t] /\ reader'[t] = reader[t]
  BY Zenon, <1>1, <1>2, <1>3, <1>4
<1>6. \A t \in Subscribers : Len(buf'[t]) <= SubscriberBuffer /\ Len(hand'[t]) <= 1
  BY Zenon, <1>1, <1>4, <1>5 DEF IInv, Types, TypeOK
<1>7. Got(s)' = Got(s)
  <2>1. (d \o h) \o <<>> \o b = d \o h \o b
    BY GotMoves
  <2> QED
    BY Zenon, <1>1, <1>3, <1>5, <2>1 DEF Got
<1>8. Types'
  BY Zenon, <1>1, <1>2, <1>5, <1>6, SameRegistered, TypesStay DEF IInv, Types, TypeOK
<1>9. /\ goodbye'[s] = "none" /\ Live(s)
      /\ Live(s)' /\ s \notin registered' /\ s \notin dropped => shut # "no"
  BY Zenon, <1>1 DEF IInv, Types, TypeOK, RegisteredInv, Live
<1> QED
  BY Zenon, <1>1, <1>5, <1>7, <1>8, <1>9, SameRegistered, HandlerKeeps


\* A client went away.
LEMMA LeaveKeeps ==
  ASSUME IInv, NEW s \in Subscribers, Leave(s)
  PROVE  IInv'
<1>1. /\ UNCHANGED <<storeVars, due, shut, dropped>> /\ UNCHANGED <<registered, open, buf, delivered, goodbye>>
      /\ reader[s] \in {"select", "writing"} /\ reader' = [reader EXCEPT ![s] = "leaving"]
      /\ hand' = [hand EXCEPT ![s] = <<>>]
  BY Zenon DEF Leave, hubVars
<1>2. /\ reader \in [Subscribers -> {"none", "select", "writing", "leaving", "gone"}]
      /\ hand \in [Subscribers -> Seq(rows)] /\ <<>> \in Seq(rows) /\ Len(<<>>) <= 1
  <2>1. <<>> \in Seq(rows) /\ Len(<<>>) <= 1
    OBVIOUS
  <2> QED
    BY Zenon, <2>1 DEF IInv, Types, TypeOK
<1>3. /\ hand' \in [Subscribers -> Seq(rows)]
      /\ reader' \in [Subscribers -> {"none", "select", "writing", "leaving", "gone"}]
      /\ hand'[s] = <<>> /\ reader'[s] = "leaving"
      /\ \A t \in Subscribers : t # s => hand'[t] = hand[t] /\ reader'[t] = reader[t]
  BY Zenon, <1>1, <1>2
<1>4. \A t \in Subscribers : Len(buf'[t]) <= SubscriberBuffer /\ Len(hand'[t]) <= 1
  BY Zenon, <1>1, <1>2, <1>3 DEF IInv, Types, TypeOK
<1>5. Types'
  BY Zenon, <1>1, <1>3, <1>4, SameRegistered, TypesStay DEF IInv, Types, TypeOK
<1>6. goodbye'[s] = "none" /\ ~Live(s)'
  BY Zenon, <1>1, <1>3 DEF IInv, Types, TypeOK, RegisteredInv, Live
<1> QED
  BY Zenon, <1>1, <1>3, <1>5, <1>6, SameRegistered, HandlerKeeps

\* A handler whose channel was closed tells its client why.
LEMMA SayGoodbyeKeeps ==
  ASSUME IInv, NEW s \in Subscribers, SayGoodbye(s)
  PROVE  IInv'
<1>1. /\ UNCHANGED <<storeVars, due, shut, dropped>> /\ UNCHANGED <<registered, open, buf, hand, delivered>>
      /\ reader[s] = "select" /\ reader' = [reader EXCEPT ![s] = "leaving"]
      /\ goodbye' = [goodbye EXCEPT ![s] = Reason(s)] /\ buf[s] = <<>> /\ s \notin registered
  BY Zenon DEF SayGoodbye, hubVars, IInv, RegisteredInv
<1>2. /\ reader \in [Subscribers -> {"none", "select", "writing", "leaving", "gone"}]
      /\ goodbye \in [Subscribers -> {"none", "too slow", "shutting down"}]
      /\ Reason(s) \in {"too slow", "shutting down"}
  BY Zenon DEF IInv, Types, TypeOK, Reason
<1>3. /\ goodbye' \in [Subscribers -> {"none", "too slow", "shutting down"}]
      /\ reader' \in [Subscribers -> {"none", "select", "writing", "leaving", "gone"}]
      /\ goodbye'[s] = Reason(s) /\ reader'[s] = "leaving"
      /\ \A t \in Subscribers : t # s => goodbye'[t] = goodbye[t] /\ reader'[t] = reader[t]
  BY Zenon, <1>1, <1>2
<1>4. Types'
  BY Zenon, <1>1, <1>3, SameRegistered, TypesStay DEF IInv, Types, TypeOK
<1>5. Got(s) = delivered[s]
  <2>1. PICK d \in Seq(rows) : d = delivered[s] /\ hand[s] = <<>>
    BY Zenon, <1>1 DEF IInv, Types, RegisteredInv
  <2>2. d \o <<>> \o <<>> = d
    BY Zenon, ConcatEmptySeq
  <2> QED
    BY Zenon, <1>1, <2>1, <2>2 DEF Got
<1>6. /\ goodbye'[s] = "too slow" => Len(delivered'[s]) < Len(due[s])
      /\ goodbye'[s] = "shutting down" => shut # "no" /\ delivered'[s] = due[s]
  BY Zenon, <1>1, <1>3, <1>5 DEF IInv, RegisteredInv, StreamInv, Live, Reason
<1>7. ~Live(s)'
  BY Zenon, <1>3 DEF Live
<1> QED
  BY Zenon, <1>1, <1>3, <1>4, <1>6, <1>7, SameRegistered, HandlerKeeps

\* A handler that ends takes its subscription out of the hub.
LEMMA UnsubscribeKeeps ==
  ASSUME IInv, NEW s \in Subscribers, Unsubscribe(s)
  PROVE  IInv'
<1>1. /\ UNCHANGED <<storeVars, due, shut, dropped>> /\ UNCHANGED <<buf, hand, delivered, goodbye>>
      /\ reader[s] = "leaving" /\ reader' = [reader EXCEPT ![s] = "gone"]
  BY Zenon DEF Unsubscribe
<1>2. reader \in [Subscribers -> {"none", "select", "writing", "leaving", "gone"}]
  BY Zenon DEF IInv, Types, TypeOK
<1>3. /\ reader' \in [Subscribers -> {"none", "select", "writing", "leaving", "gone"}] /\ reader'[s] = "gone"
      /\ \A t \in Subscribers : t # s => reader'[t] = reader[t]
  BY Zenon, <1>1, <1>2
<1>4. /\ registered' = registered \ {s} /\ open' = registered' /\ registered \subseteq Subscribers
      /\ registered' \cap dropped = {} /\ (shut = "closed" => registered' = {})
  BY Zenon DEF Unsubscribe, IInv, Types, TypeOK, RegisteredInv
<1>5. Types'
  BY Zenon, <1>1, <1>3, <1>4, TypesStay DEF IInv, Types, TypeOK
<1>6. ~Live(s)'
  BY Zenon, <1>3 DEF Live
<1>7. /\ goodbye[s] = "too slow" => Len(delivered[s]) < Len(due[s])
      /\ goodbye[s] = "shutting down" => shut # "no" /\ delivered[s] = due[s]
  BY Zenon DEF IInv, GoodbyeIsTrue
<1>8. s \notin registered' /\ \A t \in Subscribers : t # s => (t \in registered' <=> t \in registered)
  BY Zenon, <1>4
<1> QED
  BY Zenon, <1>1, <1>3, <1>4, <1>5, <1>6, <1>7, <1>8, HandlerKeeps

-----------------------------------------------------------------------------
(* The theorems. *)

\* Nothing is stored and nobody is subscribed at first.
LEMMA InitIInv == Init => IInv
<1> SUFFICES ASSUME Init
             PROVE  IInv
  BY Zenon
<1>1. <<>> \in Seq(rows) /\ Len(<<>>) = 0 /\ DOMAIN <<>> = {} /\ <<>> \o <<>> = <<>>
  OBVIOUS
<1>2. Types
  <2>1. Len(<<>>) <= SubscriberBuffer /\ Len(<<>>) <= 1
    BY <1>1, HubAssumption
  <2> QED
    BY Zenon, <1>1, <2>1 DEF Init, Types, TypeOK
<1>3. \A s \in Subscribers : Got(s) = <<>>
  BY Zenon, <1>1 DEF Init, Got
<1>4. RegisteredInv /\ StreamInv /\ GoodbyeIsTrue
  BY Zenon, <1>3 DEF Init, RegisteredInv, StreamInv, GoodbyeIsTrue, Live
<1>5. IsInjective(<<>>) /\ Disjoint(<<>>, <<>>)
  BY Zenon, <1>1 DEF IsInjective, Disjoint
<1>6. OnceInv
  BY Zenon, <1>5 DEF Init, OnceInv
<1> QED
  BY Zenon, <1>2, <1>4, <1>6 DEF IInv

\* Every step keeps what was said of subscriptions and of what is published.
LEMMA NextKeeps == IInv /\ [Next]_vars => IInv'
<1> SUFFICES ASSUME IInv, [Next]_vars
             PROVE  IInv'
  BY Zenon
<1>1. ASSUME shut # "exited", NEW b \in Batches, Ingest(b) \/ Publish(b)
      PROVE  IInv'
  BY Zenon, <1>1, IngestKeeps, PublishKeeps
<1>2. ASSUME shut # "exited", NEW r \in Results, PublishResult(r)
      PROVE  IInv'
  BY Zenon, <1>2, PublishResultKeeps
<1>3. CASE Close \/ Exit
  BY Zenon, <1>3, CloseKeeps, ExitKeeps
<1>4. ASSUME shut # "exited", NEW s \in Subscribers, Subscribe(s) \/ Receive(s) \/ Write(s)
      PROVE  IInv'
  BY Zenon, <1>4, SubscribeKeeps, ReceiveKeeps, WriteKeeps
<1>5. ASSUME NEW s \in Subscribers, Leave(s) \/ SayGoodbye(s) \/ Unsubscribe(s)
      PROVE  IInv'
  BY Zenon, <1>5, LeaveKeeps, SayGoodbyeKeeps, UnsubscribeKeeps
<1>6. CASE UNCHANGED vars
  <2>1. Types' /\ RegisteredInv'
    BY Zenon, <1>6 DEF IInv, Types, TypeOK, RegisteredInv, Live, Got, vars, storeVars, hubVars, readerVars
  <2>2. StreamInv' /\ GoodbyeIsTrue'
    BY Zenon, <1>6 DEF IInv, StreamInv, GoodbyeIsTrue, Live, Got, Starts, vars, storeVars, hubVars, readerVars
  <2> QED
    BY Zenon, <1>6, <2>1, <2>2, NothingNew DEF IInv, vars
<1> QED
  BY Zenon, <1>1, <1>2, <1>3, <1>4, <1>5, <1>6 DEF Next

(* The strengthening holds of every state of the live stream, whatever the   *)
(* subscribers, their filters, the batches and the capacity of a channel.    *)
THEOREM Inductive == Spec => []IInv
BY InitIInv, NextKeeps, PTL DEF Spec

(* Publish, Close and Unsubscribe close a channel at most once and nothing   *)
(* is sent to a closed one; no channel is over its capacity.                 *)
THEOREM ChannelsClosedOnce == Spec => []OpenIffRegistered
<1>1. IInv => OpenIffRegistered
  BY Zenon DEF IInv, Types, RegisteredInv, OpenIffRegistered
<1> QED
  BY <1>1, Inductive, PTL

(* Publish drops rather than skips: what a client gets is the beginning of   *)
(* what was published to it.                                                 *)
THEOREM StreamsHaveNoGaps == Spec => []NoGaps
<1>1. IInv => NoGaps
  <2> SUFFICES ASSUME IInv, NEW s \in Subscribers, Live(s)
               PROVE  /\ \E n \in 0..Len(due[s]) : Got(s) = SubSeq(due[s], 1, n)
                      /\ s \in registered => Got(s) = due[s]
    BY Zenon DEF NoGaps, Live, Got
  <2>1. PICK d \in Seq(rows), h \in Seq(rows), b \in Seq(rows), u \in Seq(rows) :
          d = delivered[s] /\ h = hand[s] /\ b = buf[s] /\ u = due[s]
    BY Zenon DEF IInv, Types
  <2>2. PICK g \in Seq(rows) : g = Got(s)
    <3>1. d \o h \in Seq(rows)
      BY Zenon, ConcatProperties
    <3>2. (d \o h) \o b \in Seq(rows)
      BY Zenon, <3>1, ConcatProperties
    <3> QED
      BY Zenon, <2>1, <3>2 DEF Got
  <2>3. g = u \/ Starts(g, u)
    BY Zenon, <2>1, <2>2 DEF IInv, StreamInv
  <2>4. Len(g) <= Len(u) /\ \A i \in 1..Len(g) : g[i] = u[i]
    BY <2>3 DEF Starts
  <2>5. g = SubSeq(u, 1, Len(g))
    BY <2>4
  <2>6. \E n \in 0..Len(u) : g = SubSeq(u, 1, n)
    <3>1. Len(g) \in Nat /\ Len(u) \in Nat
      BY Zenon, LenProperties
    <3>2. Len(g) \in 0..Len(u)
      BY <2>4, <3>1
    <3> QED
      BY Zenon, <2>5, <3>2
  <2> QED
    BY Zenon, <2>1, <2>2, <2>6 DEF IInv, RegisteredInv, StreamInv
<1> QED
  BY <1>1, Inductive, PTL

(* stream's close reason is true: too slow means records were missed, and    *)
(* shutting down that everything sent before has arrived.                    *)
THEOREM ReasonsAreTrue == Spec => []GoodbyeIsTrue
<1>1. IInv => GoodbyeIsTrue
  BY Zenon DEF IInv
<1> QED
  BY <1>1, Inductive, PTL

(* Ingest publishes only what it newly stored: however batches overlap and   *)
(* their handlers race, no client is sent a record twice.                    *)
THEOREM NoRecordTwice == Spec => []EachRecordOnce
<1>1. IInv => EachRecordOnce
  BY Zenon DEF IInv, OnceInv, EachRecordOnce
<1> QED
  BY <1>1, Inductive, PTL

=============================================================================
