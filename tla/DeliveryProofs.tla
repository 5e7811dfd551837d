--------------------------- MODULE DeliveryProofs ---------------------------
(***************************************************************************)
(* The spool's queue mirrors its directory and keeps acceptance order, for *)
(* every bound, clock and interleaving of its operations with crashes; and *)
(* delivery over that spool keeps the courier's promise, for every set of  *)
(* rejectable batches and every mix of faults.                             *)
(***************************************************************************)
EXTENDS Delivery, SequenceTheorems, FiniteSetTheorems, TLAPS

-----------------------------------------------------------------------------
(* The spool by itself. *)

(* The spool starts in its invariant: an empty directory that nobody has open. *)
LEMMA SpoolInitInv == SpoolInit => SpoolInv
<1> SUFFICES ASSUME SpoolInit PROVE SpoolInv
  BY Zenon
<1>1. DOMAIN disk = {}
  BY DEF SpoolInit
<1>2. IsFiniteSet(DOMAIN disk)
  BY Zenon, <1>1, FS_EmptySet
<1>3. disk \in [DOMAIN disk -> File]
  BY <1>1 DEF SpoolInit
<1>4. items \in Seq(Nat)
  BY Zenon, EmptySeq DEF SpoolInit
<1>5. SpoolTypeOK
  BY Zenon, <1>1, <1>2, <1>3, <1>4 DEF SpoolInit, SpoolTypeOK
<1> QED
  BY Zenon, <1>1, <1>5 DEF SpoolInit, SpoolInv, QueueMirrorsDirectory, SendOrder

(* Deleting the k oldest items with their files, as the drop loop and Peek do. *)
LEMMA DiscardInv ==
  ASSUME SpoolInv, open, NEW k \in 0..Len(items), adding => k < Len(items),
         DiscardOldest(k), UNCHANGED <<open, lastSeq, adding, added>>
  PROVE  /\ SpoolInv'
         /\ DOMAIN disk' = DOMAIN disk \ {items[i] : i \in 1..k}
         /\ \A n \in DOMAIN disk' : disk'[n] = disk[n]
<1> DEFINE gone == {items[i] : i \in 1..k}
<1>1. /\ DOMAIN disk' = DOMAIN disk \ gone
      /\ \A n \in DOMAIN disk' : disk'[n] = disk[n]
      /\ disk' = [n \in DOMAIN disk \ gone |-> disk[n]]
  BY Zenon DEF DiscardOldest, Without
<1>2. items \in Seq(Nat) /\ Len(items) \in Nat
  BY Zenon, LenProperties DEF SpoolInv, SpoolTypeOK
<1>3. \A i \in 1..Len(items) : items[i] \in Nat
  BY Zenon, <1>2, ElementOfSeq
<1>4. /\ items' \in Seq(Nat)
      /\ Len(items') = Len(items) - k
      /\ \A i \in 1..Len(items') : items'[i] = items[k + i]
  <2>1. \A i \in k + 1 .. Len(items) : items[i] \in Nat
    BY <1>2, <1>3
  <2>2. /\ SubSeq(items, k + 1, Len(items)) \in Seq(Nat)
        /\ Len(SubSeq(items, k + 1, Len(items)))
             = IF k + 1 <= Len(items) THEN Len(items) - (k + 1) + 1 ELSE 0
        /\ \A i \in 1 .. Len(items) - (k + 1) + 1 :
             SubSeq(items, k + 1, Len(items))[i] = items[k + 1 + i - 1]
    BY <1>2, <2>1, SubSeqProperties
  <2> QED
    BY <1>2, <2>2 DEF DiscardOldest
<1>5. SpoolTypeOK'
  <2>1. IsFiniteSet(DOMAIN disk')
    BY Zenon, <1>1, FS_Subset DEF SpoolInv, SpoolTypeOK
  <2>2. disk' \in [DOMAIN disk' -> File] /\ DOMAIN disk' \subseteq Nat
    BY Zenon, <1>1 DEF SpoolInv, SpoolTypeOK
  <2> QED
    BY Zenon, <1>4, <2>1, <2>2 DEF SpoolInv, SpoolTypeOK
<1>6. QueueMirrorsDirectory'
  <2>1. \A i, j \in 1..Len(items) : i < j => items[i] < items[j]
    BY Zenon DEF SpoolInv, QueueMirrorsDirectory
  <2>2. Elements(items) = DOMAIN disk
    BY Zenon DEF SpoolInv, QueueMirrorsDirectory
  <2>3. \A i \in 1..Len(items') : k + i \in 1..Len(items) /\ k + i > k
    BY <1>2, <1>4
  <2>4. ASSUME NEW i \in 1..Len(items')
        PROVE  items'[i] \in DOMAIN disk \ gone
    <3>1. items'[i] = items[k + i] /\ k + i \in 1..Len(items)
      BY Zenon, <1>4, <2>3
    <3>2. \A j \in 1..k : j \in 1..Len(items) /\ j < k + i
      BY <1>2, <2>3
    <3>3. \A j \in 1..k : items[j] < items[k + i]
      BY Zenon, <2>1, <3>1, <3>2
    <3>4. \A j \in 1..k : items[j] # items[k + i]
      BY <1>3, <3>1, <3>2, <3>3
    <3> QED
      BY Zenon, <2>2, <3>1, <3>4 DEF Elements
  <2>5. ASSUME NEW n \in DOMAIN disk \ gone
        PROVE  \E i \in 1..Len(items') : items'[i] = n
    <3>1. PICK i \in 1..Len(items) : items[i] = n
      BY Zenon, <2>2 DEF Elements
    <3>2. i > k
      BY <1>2, <3>1
    <3>3. i - k \in 1..Len(items') /\ k + (i - k) = i
      BY <1>2, <1>4, <3>2
    <3> QED
      BY Zenon, <1>4, <3>1, <3>3
  <2>6. Elements(items') = DOMAIN disk'
    BY <1>1, <2>4, <2>5 DEF Elements
  <2>7. ASSUME NEW i \in 1..Len(items'), NEW j \in 1..Len(items'), i < j
        PROVE  items'[i] < items'[j]
    <3>1. k + i \in 1..Len(items) /\ k + j \in 1..Len(items) /\ k + i < k + j
      BY <1>2, <1>4, <2>3, <2>7
    <3> QED
      BY Zenon, <1>4, <2>1, <3>1
  <2> QED
    BY Zenon, <2>6, <2>7 DEF QueueMirrorsDirectory
<1>7. SendOrder'
  BY <1>1 DEF SpoolInv, SendOrder
<1>8. /\ open' => \A n \in DOMAIN disk' : n <= lastSeq'
      /\ \A n \in DOMAIN disk' : disk'[n].batch <= added'
  BY Zenon, <1>1 DEF SpoolInv
<1>9. ASSUME adding'
      PROVE  /\ Len(items') > 0
             /\ disk'[items'[Len(items')]].batch = added'
  <2>1. Len(items') > 0 /\ items'[Len(items')] = items[Len(items)]
    BY SMTT(60), <1>2, <1>4, <1>9
  <2>2. items'[Len(items')] \in DOMAIN disk'
    BY SMTT(60), <1>2, <1>4, <1>6, <2>1 DEF QueueMirrorsDirectory, Elements
  <2> QED
    BY Zenon, <1>1, <1>9, <2>1, <2>2 DEF SpoolInv
<1> QED
  BY Zenon, <1>1, <1>5, <1>6, <1>7, <1>8, <1>9 DEF SpoolInv

(* Open: the sorted listing is the queue, and its last name is lastSeq. *)
LEMMA OpenInv ==
  ASSUME SpoolInv, Open
  PROVE  SpoolInv'
<1>1. PICK s \in [1..Cardinality(DOMAIN disk) -> DOMAIN disk] : Listing(s) /\ OpenAs(s)
  BY Zenon DEF Open
<1>2. Cardinality(DOMAIN disk) \in Nat
  BY Zenon, FS_CardinalityType DEF SpoolInv, SpoolTypeOK
<1>3. /\ s \in Seq(Nat)
      /\ Len(s) \in Nat
      /\ DOMAIN s = 1..Len(s)
      /\ \A i \in 1..Len(s) : s[i] \in Nat
  <2>1. s \in [1..Cardinality(DOMAIN disk) -> Nat]
    BY Zenon, <1>1 DEF SpoolInv, SpoolTypeOK
  <2>2. s \in Seq(Nat)
    BY <1>2, <2>1
  <2> QED
    BY Zenon, <2>2, LenProperties, ElementOfSeq
<1>4. ~adding
  BY Zenon, <1>1 DEF SpoolInv, OpenAs
<1>5. /\ Elements(s) = DOMAIN disk
      /\ \A i, j \in 1..Len(s) : i < j => s[i] < s[j]
  BY Zenon, <1>1, <1>3 DEF Listing
<1>6. lastSeq' \in Nat
  BY <1>1, <1>3 DEF OpenAs
<1>7. SpoolTypeOK'
  BY Zenon, <1>1, <1>3, <1>6 DEF SpoolInv, SpoolTypeOK, OpenAs
<1>8. QueueMirrorsDirectory'
  BY Zenon, <1>1, <1>5 DEF QueueMirrorsDirectory, OpenAs
<1>9. SendOrder' /\ \A n \in DOMAIN disk' : disk'[n].batch <= added'
  BY Zenon, <1>1 DEF SpoolInv, SendOrder, OpenAs
<1>10. ASSUME NEW n \in DOMAIN disk
       PROVE  n <= lastSeq'
  <2>1. PICK i \in 1..Len(s) : s[i] = n
    BY Zenon, <1>5 DEF Elements
  <2>2. s # <<>> /\ Len(s) \in 1..Len(s)
    BY <1>3, <2>1
  <2>3. s[i] <= s[Len(s)]
    BY <1>3, <1>5, <2>1, <2>2
  <2> QED
    BY Zenon, <1>1, <2>1, <2>2, <2>3 DEF OpenAs
<1> QED
  BY Zenon, <1>1, <1>4, <1>7, <1>8, <1>9, <1>10 DEF SpoolInv, OpenAs

(* Add's write: the new file sorts after every other, by name and by batch. *)
LEMMA AddWriteInv ==
  ASSUME SpoolInv, NEW t \in Clock, NEW size \in Sizes, AddWrite(t, size)
  PROVE  /\ SpoolInv'
         /\ DOMAIN disk' = DOMAIN disk \cup {NextSeq(t)}
         /\ NextSeq(t) \notin DOMAIN disk
         /\ disk'[NextSeq(t)].batch = added + 1
         /\ \A n \in DOMAIN disk : disk'[n] = disk[n]
<1> DEFINE seq == NextSeq(t)
<1> DEFINE file == [batch |-> added + 1, size |-> size, ok |-> TRUE]
<1>1. seq \in Nat /\ seq > lastSeq
  BY SpoolAssumption DEF SpoolInv, SpoolTypeOK, NextSeq
<1>2. /\ \A n \in DOMAIN disk : n \in Nat /\ n < seq
      /\ seq \notin DOMAIN disk
  BY <1>1 DEF SpoolInv, SpoolTypeOK, AddWrite
<1>3. /\ DOMAIN disk' = DOMAIN disk \cup {seq}
      /\ disk'[seq] = file
      /\ \A n \in DOMAIN disk : disk'[n] = disk[n]
      /\ disk' = [n \in DOMAIN disk \cup {seq} |-> IF n = seq THEN file ELSE disk[n]]
  BY Zenon, <1>2 DEF AddWrite, Written
<1>4. items \in Seq(Nat) /\ Len(items) \in Nat
  BY Zenon, LenProperties DEF SpoolInv, SpoolTypeOK
<1>5. /\ items' \in Seq(Nat)
      /\ Len(items') = Len(items) + 1
      /\ \A i \in 1..Len(items) : items'[i] = items[i]
      /\ items'[Len(items')] = seq
  BY <1>1, <1>4 DEF AddWrite
<1>6. SpoolTypeOK'
  <2>1. IsFiniteSet(DOMAIN disk')
    BY Zenon, <1>3, FS_AddElement DEF SpoolInv, SpoolTypeOK
  <2>2. file \in File
    BY DEF SpoolInv, SpoolTypeOK, File
  <2>3. disk' \in [DOMAIN disk' -> File] /\ DOMAIN disk' \subseteq Nat
    BY Zenon, <1>1, <1>3, <2>2 DEF SpoolInv, SpoolTypeOK
  <2>4. lastSeq' \in Nat /\ added' \in Nat
    BY <1>1 DEF SpoolInv, SpoolTypeOK, AddWrite
  <2>5. adding' \in BOOLEAN /\ open' \in BOOLEAN
    BY Zenon DEF SpoolInv, SpoolTypeOK, AddWrite
  <2> QED
    BY Zenon, <1>5, <2>1, <2>3, <2>4, <2>5 DEF SpoolTypeOK
<1>7. QueueMirrorsDirectory'
  <2>1. /\ Elements(items) = DOMAIN disk
        /\ \A i, j \in 1..Len(items) : i < j => items[i] < items[j]
    BY Zenon DEF SpoolInv, QueueMirrorsDirectory, AddWrite
  <2>2. Elements(items') = Elements(items) \cup {seq}
    <3>1. \A i \in 1..Len(items') : i \in 1..Len(items) \/ i = Len(items')
      BY <1>4, <1>5
    <3>2. Elements(items') \subseteq Elements(items) \cup {seq}
      BY Zenon, <1>5, <3>1 DEF Elements
    <3>3. \A i \in 1..Len(items) : i \in 1..Len(items')
      BY <1>4, <1>5
    <3>4. Len(items') \in 1..Len(items')
      BY <1>4, <1>5
    <3> QED
      BY Zenon, <1>5, <3>2, <3>3, <3>4 DEF Elements
  <2>3. \A i \in 1..Len(items) : items[i] < seq
    BY Zenon, <1>2, <2>1 DEF Elements
  <2>4. ASSUME NEW i \in 1..Len(items'), NEW j \in 1..Len(items'), i < j
        PROVE  items'[i] < items'[j]
    <3>1. i \in 1..Len(items)
      BY <1>4, <1>5, <2>4
    <3>2. CASE j \in 1..Len(items)
      BY Zenon, <1>5, <2>1, <2>4, <3>1, <3>2
    <3>3. CASE j = Len(items')
      BY Zenon, <1>5, <2>3, <3>1, <3>3
    <3> QED
      BY <1>4, <1>5, <3>2, <3>3
  <2> QED
    BY Zenon, <1>3, <2>1, <2>2, <2>4 DEF QueueMirrorsDirectory
<1>8. \A n \in DOMAIN disk : disk[n].batch \in Nat /\ disk[n].batch < added + 1
  BY DEF SpoolInv, SpoolTypeOK, File
<1>9. SendOrder'
  <2>1. added + 1 \in Nat
    BY DEF SpoolInv, SpoolTypeOK
  <2>3. SUFFICES ASSUME NEW m \in DOMAIN disk', NEW n \in DOMAIN disk'
                 PROVE  m < n <=> disk'[m].batch < disk'[n].batch
    BY Zenon DEF SendOrder
  <2>4. CASE m \in DOMAIN disk /\ n \in DOMAIN disk
    BY Zenon, <1>3, <2>4 DEF SpoolInv, SendOrder
  <2>5. CASE m \in DOMAIN disk /\ n = seq
    BY Zenon, <1>2, <1>3, <1>8, <2>5
  <2>6. CASE m = seq /\ n \in DOMAIN disk
    BY <1>1, <1>2, <1>3, <1>8, <2>1, <2>6
  <2>7. CASE m = seq /\ n = seq
    BY <1>1, <1>3, <2>1, <2>7
  <2> QED
    BY Zenon, <1>3, <2>4, <2>5, <2>6, <2>7
<1>10. \A n \in DOMAIN disk' : n <= lastSeq'
  BY <1>1, <1>2, <1>3 DEF AddWrite
<1>11. \A n \in DOMAIN disk' : disk'[n].batch <= added'
  <2>1. added' = added + 1 /\ added \in Nat
    BY Zenon DEF SpoolInv, SpoolTypeOK, AddWrite
  <2>2. file.batch = added + 1
    BY Zenon
  <2> QED
    BY <1>3, <1>8, <2>1, <2>2
<1>12. /\ open' /\ Len(items') > 0
       /\ disk'[items'[Len(items')]].batch = added'
  BY <1>3, <1>4, <1>5 DEF AddWrite
<1> QED
  BY Zenon, <1>2, <1>3, <1>6, <1>7, <1>9, <1>10, <1>11, <1>12 DEF SpoolInv

(* Remove: the queue closes over the gap and keeps its order. *)
LEMMA RemoveInv ==
  ASSUME SpoolInv, NEW name, Remove(name)
  PROVE  /\ SpoolInv'
         /\ DOMAIN disk' = DOMAIN disk \ {name}
         /\ \A n \in DOMAIN disk' : disk'[n] = disk[n]
<1>1. open /\ ~adding /\ UNCHANGED <<open, lastSeq, adding, added>>
  BY Zenon DEF Remove
<1>2. /\ Elements(items) = DOMAIN disk
      /\ \A i, j \in 1..Len(items) : i < j => items[i] < items[j]
  BY Zenon, <1>1 DEF SpoolInv, QueueMirrorsDirectory
<1>3. CASE name \notin Elements(items)
  <2>1. UNCHANGED spoolVars
    BY Zenon, <1>1, <1>3 DEF Remove, spoolVars
  <2> QED
    BY Zenon, <1>2, <1>3, <2>1
    DEF SpoolInv, SpoolTypeOK, QueueMirrorsDirectory, SendOrder, spoolVars
<1>4. CASE name \in Elements(items)
  <2> DEFINE p == CHOOSE i \in 1..Len(items) : items[i] = name
  <2> DEFINE n == Len(items)
  <2>1. items \in Seq(Nat) /\ n \in Nat /\ \A i \in 1..n : items[i] \in Nat
    BY Zenon, LenProperties, ElementOfSeq DEF SpoolInv, SpoolTypeOK
  <2>2. p \in 1..n /\ items[p] = name
    BY Zenon, <1>4 DEF Elements
  <2> HIDE DEF p
  <2>3. /\ disk' = [m \in DOMAIN disk \ {name} |-> disk[m]]
        /\ items' = SubSeq(items, 1, p - 1) \o SubSeq(items, p + 1, n)
    BY Zenon, <1>4 DEF Remove, Without, p
  <2> DEFINE front == SubSeq(items, 1, p - 1)
  <2> DEFINE back == SubSeq(items, p + 1, n)
  <2>4. /\ front \in Seq(Nat) /\ Len(front) = p - 1
        /\ \A i \in 1..p - 1 : front[i] = items[i]
    <3>1. \A i \in 1..p - 1 : items[i] \in Nat
      BY <2>1, <2>2
    <3>2. /\ front \in Seq(Nat)
          /\ Len(front) = IF 1 <= p - 1 THEN p - 1 - 1 + 1 ELSE 0
          /\ \A i \in 1 .. p - 1 - 1 + 1 : front[i] = items[1 + i - 1]
      BY SMTT(60), <2>1, <2>2, <3>1, SubSeqProperties
    <3> QED
      BY <2>1, <2>2, <3>2
  <2>5. /\ back \in Seq(Nat) /\ Len(back) = n - p
        /\ \A i \in 1..n - p : back[i] = items[p + i]
    <3>1. \A i \in p + 1 .. n : items[i] \in Nat
      BY <2>1, <2>2
    <3>2. /\ back \in Seq(Nat)
          /\ Len(back) = IF p + 1 <= n THEN n - (p + 1) + 1 ELSE 0
          /\ \A i \in 1 .. n - (p + 1) + 1 : back[i] = items[p + 1 + i - 1]
      BY <2>1, <2>2, <3>1, SubSeqProperties
    <3> QED
      BY <2>1, <2>2, <3>2
  <2> HIDE DEF front, back
  <2>6. /\ items' \in Seq(Nat)
        /\ Len(items') = n - 1
        /\ \A i \in 1..n - 1 : items'[i] = IF i < p THEN items[i] ELSE items[i + 1]
    <3>1. /\ front \o back \in Seq(Nat)
          /\ Len(front \o back) = Len(front) + Len(back)
          /\ \A i \in 1 .. Len(front) + Len(back) :
               (front \o back)[i] = IF i <= Len(front) THEN front[i] ELSE back[i - Len(front)]
      BY Zenon, <2>4, <2>5, ConcatProperties
    <3>2. items' = front \o back
      BY Zenon, <2>3 DEF front, back
    <3>3. Len(front) + Len(back) = n - 1 /\ Len(front) = p - 1
      BY <2>1, <2>2, <2>4, <2>5
    <3>4. ASSUME NEW i \in 1..n - 1
          PROVE  items'[i] = IF i < p THEN items[i] ELSE items[i + 1]
      <4>1. CASE i < p
        BY <2>1, <2>2, <2>4, <3>1, <3>2, <3>3, <4>1
      <4>2. CASE i >= p
        <5>1. /\ i - (p - 1) \in 1..n - p /\ p + (i - (p - 1)) = i + 1
              /\ ~(i <= p - 1) /\ ~(i < p)
          BY <2>1, <2>2, <4>2
        <5>2. (front \o back)[i] = back[i - (p - 1)]
          BY Zenon, <3>1, <3>3, <5>1
        <5>3. back[i - (p - 1)] = items[p + (i - (p - 1))]
          BY Zenon, <2>5, <5>1
        <5> QED
          BY Zenon, <3>2, <5>1, <5>2, <5>3
      <4> QED
        BY <2>1, <2>2, <4>1, <4>2
    <3> QED
      BY Zenon, <3>1, <3>2, <3>3, <3>4
  <2> DEFINE from(i) == IF i < p THEN i ELSE i + 1
  <2>7. \A i \in 1..n - 1 : /\ from(i) \in 1..n
                            /\ from(i) # p
                            /\ items'[i] = items[from(i)]
    <3>1. \A i \in 1..n - 1 : from(i) \in 1..n /\ from(i) # p
      BY <2>1, <2>2
    <3>2. \A i \in 1..n - 1 : items'[i] = items[from(i)]
      BY Zenon, <2>6
    <3> QED
      BY Zenon, <3>1, <3>2
  <2>8. \A i \in 1..n : i # p => \E j \in 1..n - 1 : from(j) = i
    <3> SUFFICES ASSUME NEW i \in 1..n, i # p
                 PROVE  \E j \in 1..n - 1 : from(j) = i
      BY Zenon
    <3>1. CASE i < p
      <4>1. i \in 1..n - 1 /\ from(i) = i
        BY <2>1, <2>2, <3>1
      <4> QED
        BY Zenon, <4>1
    <3>2. CASE i > p
      <4>1. i - 1 \in 1..n - 1 /\ from(i - 1) = i
        BY <2>1, <2>2, <3>2
      <4> QED
        BY Zenon, <4>1
    <3> QED
      BY <2>1, <2>2, <3>1, <3>2
  <2>9. \A i, j \in 1..n - 1 : i < j => from(i) < from(j)
    BY <2>1, <2>2
  <2> HIDE DEF from
  <2>10. QueueMirrorsDirectory'
    <3>1. \A i, j \in 1..n : i # j => items[i] # items[j]
      BY <1>2, <2>1
    <3>2. \A i \in 1..n - 1 : items'[i] \in DOMAIN disk \ {name}
      BY Zenon, <1>2, <2>2, <2>7, <3>1 DEF Elements
    <3>3. \A m \in DOMAIN disk \ {name} : \E j \in 1..n - 1 : items'[j] = m
      <4> SUFFICES ASSUME NEW m \in DOMAIN disk \ {name}
                   PROVE  \E j \in 1..n - 1 : items'[j] = m
        BY Zenon
      <4>1. PICK i \in 1..n : items[i] = m
        BY Zenon, <1>2 DEF Elements
      <4>2. i # p
        BY Zenon, <2>2, <4>1
      <4>3. PICK j \in 1..n - 1 : from(j) = i
        BY Zenon, <2>8, <4>2
      <4> QED
        BY Zenon, <2>7, <4>1, <4>3
    <3>4. Elements(items') = DOMAIN disk \ {name}
      BY <2>6, <3>2, <3>3 DEF Elements
    <3>5. \A i, j \in 1..n - 1 : i < j => items'[i] < items'[j]
      BY Zenon, <1>2, <2>7, <2>9
    <3> QED
      BY Zenon, <2>3, <2>6, <3>4, <3>5 DEF QueueMirrorsDirectory
  <2>11. /\ DOMAIN disk' = DOMAIN disk \ {name}
         /\ \A m \in DOMAIN disk' : disk'[m] = disk[m]
    BY Zenon, <2>3
  <2>12. IsFiniteSet(DOMAIN disk')
    BY Zenon, <2>11, FS_RemoveElement DEF SpoolInv, SpoolTypeOK
  <2>13. disk' \in [DOMAIN disk' -> File] /\ DOMAIN disk' \subseteq Nat
    BY Zenon, <2>3, <2>11 DEF SpoolInv, SpoolTypeOK
  <2>14. SpoolTypeOK'
    BY Zenon, <1>1, <2>6, <2>12, <2>13 DEF SpoolInv, SpoolTypeOK
  <2> QED
    BY Zenon, <1>1, <2>10, <2>11, <2>14 DEF SpoolInv, SendOrder
<1> QED
  BY Zenon, <1>3, <1>4

(* A damaged file keeps its name and its batch. *)
LEMMA DamageInv ==
  ASSUME SpoolInv, NEW name, Damage(name)
  PROVE  /\ SpoolInv'
         /\ DOMAIN disk' = DOMAIN disk
         /\ \A n \in DOMAIN disk : disk'[n].batch = disk[n].batch
<1>1. name \in DOMAIN disk /\ disk' = [disk EXCEPT ![name].ok = FALSE]
  BY Zenon DEF Damage
<1>2. disk \in [DOMAIN disk -> File]
  BY Zenon DEF SpoolInv, SpoolTypeOK
<1>3. /\ DOMAIN disk' = DOMAIN disk
      /\ \A n \in DOMAIN disk : disk'[n].batch = disk[n].batch
      /\ disk' \in [DOMAIN disk' -> File]
  BY Zenon, <1>1, <1>2 DEF File
<1>4. SpoolTypeOK'
  BY Zenon, <1>3 DEF SpoolInv, SpoolTypeOK, Damage
<1>5. QueueMirrorsDirectory'
  BY Zenon, <1>3 DEF SpoolInv, QueueMirrorsDirectory, Damage
<1>6. SendOrder'
  BY Zenon, <1>3 DEF SpoolInv, SendOrder
<1>7. adding' => /\ open' /\ Len(items') > 0
                 /\ disk'[items'[Len(items')]].batch = added'
  <2> SUFFICES ASSUME adding
               PROVE  /\ open /\ Len(items) > 0
                      /\ disk'[items[Len(items)]].batch = added
    BY Zenon DEF Damage
  <2>1. Len(items) \in Nat /\ Len(items) > 0 /\ open
    BY Zenon, LenProperties DEF SpoolInv, SpoolTypeOK
  <2>2. items[Len(items)] \in DOMAIN disk
    BY <2>1 DEF SpoolInv, QueueMirrorsDirectory, Elements
  <2> QED
    BY Zenon, <1>3, <2>1, <2>2 DEF SpoolInv
<1> QED
  BY <1>3, <1>4, <1>5, <1>6, <1>7 DEF SpoolInv, Damage

(* After a crash only the directory remains, and it is still in order. *)
LEMMA CrashInv ==
  ASSUME SpoolInv, Crash
  PROVE  SpoolInv'
<1>1. items' \in Seq(Nat)
  BY Zenon, EmptySeq DEF Crash
<1>2. SpoolTypeOK'
  BY Zenon, <1>1 DEF SpoolInv, SpoolTypeOK, Crash
<1> QED
  BY Zenon, <1>2 DEF SpoolInv, SendOrder, QueueMirrorsDirectory, Crash

(* The end of Add, with its bounds met or not, leaves the queue alone. *)
LEMMA AddEndsInv ==
  ASSUME SpoolInv, AddDone \/ DropFails
  PROVE  SpoolInv'
<1>1. /\ UNCHANGED <<disk, open, items, lastSeq, added>>
      /\ adding' = FALSE
  BY Zenon DEF AddDone, DropFails
<1>2. SpoolTypeOK'
  BY Zenon, <1>1 DEF SpoolInv, SpoolTypeOK
<1> QED
  BY Zenon, <1>1, <1>2 DEF SpoolInv, SendOrder, QueueMirrorsDirectory

(* A step outside the spool. *)
LEMMA SpoolStutterInv ==
  ASSUME SpoolInv, UNCHANGED spoolVars
  PROVE  SpoolInv'
BY Zenon DEF SpoolInv, SpoolTypeOK, SendOrder, QueueMirrorsDirectory, spoolVars

(* The drop loop discards one item, never the last. *)
LEMMA DropOldestInv ==
  ASSUME SpoolInv, DropOldest
  PROVE  /\ SpoolInv'
         /\ DOMAIN disk' = DOMAIN disk \ {items[1]}
         /\ \A n \in DOMAIN disk' : disk'[n] = disk[n]
<1>1. /\ open /\ DiscardOldest(1) /\ Len(items) > 1
      /\ UNCHANGED <<open, lastSeq, adding, added>>
  BY Zenon DEF DropOldest, Overfull, SpoolInv
<1>2. Len(items) \in Nat
  BY Zenon, LenProperties DEF SpoolInv, SpoolTypeOK
<1>3. 1 \in 0..Len(items) /\ 1 < Len(items)
  BY <1>1, <1>2
<1>4. {items[i] : i \in 1..1} = {items[1]}
  OBVIOUS
<1> QED
  BY Zenon, <1>1, <1>3, <1>4, DiscardInv

(* Peek discards only unreadable files, from the front. *)
LEMMA PeekInv ==
  ASSUME SpoolInv, NEW k \in 0..Len(items), Peek(k) \/ PeekFails(k)
  PROVE  /\ SpoolInv'
         /\ DOMAIN disk' = DOMAIN disk \ {items[i] : i \in 1..k}
         /\ \A n \in DOMAIN disk' : disk'[n] = disk[n]
<1>1. /\ open /\ ~adding /\ DiscardOldest(k)
      /\ UNCHANGED <<open, lastSeq, adding, added>>
  BY Zenon DEF Peek, PeekFails
<1> QED
  BY Zenon, <1>1, DiscardInv

(* Every step of the spool preserves its invariant. *)
LEMMA SpoolNextInv == SpoolInv /\ [SpoolNext]_spoolVars => SpoolInv'
<1> SUFFICES ASSUME SpoolInv, [SpoolNext]_spoolVars PROVE SpoolInv'
  BY Zenon
<1>1. CASE Open
  BY Zenon, <1>1, OpenInv
<1>2. ASSUME NEW t \in Clock, NEW size \in Sizes, AddWrite(t, size)
      PROVE  SpoolInv'
  BY Zenon, <1>2, AddWriteInv
<1>3. CASE DropOldest
  BY Zenon, <1>3, DropOldestInv
<1>4. CASE AddDone \/ DropFails
  BY Zenon, <1>4, AddEndsInv
<1>5. ASSUME NEW k \in 0..Len(items), Peek(k) \/ PeekFails(k)
      PROVE  SpoolInv'
  BY Zenon, <1>5, PeekInv
<1>6. ASSUME NEW name, Remove(name) PROVE SpoolInv'
  BY Zenon, <1>6, RemoveInv
<1>7. ASSUME NEW name, Damage(name) PROVE SpoolInv'
  BY Zenon, <1>7, DamageInv
<1>8. CASE Crash
  BY <1>8, CrashInv
<1>9. CASE UNCHANGED spoolVars
  BY Zenon, <1>9, SpoolStutterInv
<1> QED
  BY Zenon, <1>1, <1>2, <1>3, <1>4, <1>5, <1>6, <1>7, <1>8, <1>9 DEF SpoolNext

(* What the invariant says of the newest batch. *)
LEMMA NewestSurvivesInv == SpoolInv => NewestSurvives
<1> SUFFICES ASSUME SpoolInv, adding PROVE added \in Held
  BY Zenon DEF NewestSurvives
<1>1. Len(items) \in Nat /\ Len(items) > 0 /\ open
  BY Zenon, LenProperties DEF SpoolInv, SpoolTypeOK
<1>2. items[Len(items)] \in DOMAIN disk
  BY <1>1 DEF SpoolInv, QueueMirrorsDirectory, Elements
<1> QED
  BY Zenon, <1>2 DEF SpoolInv, Held

(* The queue in memory is the directory in name order, at every moment of
   every behaviour of Open, Add, Peek, Remove and crashes. *)
THEOREM QueueMirrors == SpoolSpec => []QueueMirrorsDirectory
<1>1. SpoolInv => QueueMirrorsDirectory
  BY Zenon DEF SpoolInv
<1> QED
  BY <1>1, SpoolInitInv, SpoolNextInv, PTL DEF SpoolSpec

(* Name order is acceptance order, whatever the clock returns and however
   often the process restarts. *)
THEOREM SendsInOrder == SpoolSpec => []SendOrder
<1>1. SpoolInv => SendOrder
  BY Zenon DEF SpoolInv
<1> QED
  BY <1>1, SpoolInitInv, SpoolNextInv, PTL DEF SpoolSpec

(* Making room never costs the batch that is being added. *)
THEOREM KeepsNewest == SpoolSpec => []NewestSurvives
BY SpoolInitInv, SpoolNextInv, NewestSurvivesInv, PTL DEF SpoolSpec

-----------------------------------------------------------------------------
(* The byte count.  A total size is a number of places, so that what a file  *)
(* adds to it or takes from it is the size of a part of a set.               *)

(* The places in the files N of the directory d. *)
Area(d, N) == UNION {{n} \X (1..d[n].size) : n \in N}

Sized(d, N) == IsFiniteSet(N) /\ \A n \in N : d[n].size \in Nat

(* A finite directory has finitely many bytes. *)
LEMMA AreaFinite ==
  ASSUME NEW d, NEW N, Sized(d, N)
  PROVE  IsFiniteSet(Area(d, N))
<1> DEFINE part(n) == {n} \X (1..d[n].size)
<1> DEFINE parts == {part(n) : n \in N}
<1> DEFINE f == [n \in N |-> part(n)]
<1>1. ASSUME NEW n \in N PROVE IsFiniteSet(part(n))
  <2>1. d[n].size \in Nat
    BY Zenon DEF Sized
  <2>2. d[n].size \in Int /\ 1 \in Int
    BY <2>1
  <2>3. IsFiniteSet(1..d[n].size)
    BY Zenon, <2>2, FS_Interval
  <2> QED
    BY Zenon, <2>3, FS_Singleton, FS_Product
<1>2. f \in Surjection(N, parts)
  BY Zenon DEF Surjection
<1>3. IsFiniteSet(parts)
  BY Zenon, <1>2, FS_Surjection DEF Sized
<1>4. \A T \in parts : IsFiniteSet(T)
  BY Zenon, <1>1
<1>5. IsFiniteSet(UNION parts)
  BY Zenon, <1>3, <1>4, FS_UNION
<1> QED
  BY Zenon, <1>5 DEF Area

(* One file counts with its size. *)
LEMMA AreaOfOne ==
  ASSUME NEW d, NEW n, d[n].size \in Nat
  PROVE  Cardinality(Area(d, {n})) = d[n].size
<1> DEFINE k == d[n].size
<1>1. Area(d, {n}) = {n} \X (1..k)
  BY Zenon DEF Area
<1>2. k \in Int /\ 1 \in Int
  OBVIOUS
<1>3. IsFiniteSet(1..k) /\ Cardinality(1..k) = IF 1 > k THEN 0 ELSE k - 1 + 1
  BY Zenon, <1>2, FS_Interval
<1>4. Cardinality(1..k) = k
  BY <1>3
<1>5. IsFiniteSet({n}) /\ Cardinality({n}) = 1
  BY Zenon, FS_Singleton
<1>6. Cardinality({n} \X (1..k)) = Cardinality({n}) * Cardinality(1..k)
  BY Zenon, <1>3, <1>5, FS_Product
<1>7. Cardinality({n}) * Cardinality(1..k) = k
  BY <1>4, <1>5
<1> QED
  BY Zenon, <1>1, <1>6, <1>7

(* Two sets of files without a common one count together as each by itself. *)
LEMMA AreaOfTwo ==
  ASSUME NEW d, NEW N, NEW M, Sized(d, N), Sized(d, M), N \cap M = {}
  PROVE  /\ Cardinality(Area(d, N \cup M)) = Cardinality(Area(d, N)) + Cardinality(Area(d, M))
         /\ Cardinality(Area(d, N)) \in Nat /\ Cardinality(Area(d, M)) \in Nat
<1>1. IsFiniteSet(Area(d, N)) /\ IsFiniteSet(Area(d, M))
  BY Zenon, AreaFinite
<1>2. Area(d, N \cup M) = Area(d, N) \cup Area(d, M)
  BY Zenon DEF Area
<1>3. Area(d, N) \cap Area(d, M) = {}
  <2>1. ASSUME NEW p, p \in Area(d, N) PROVE p[1] \in N
    <3>1. PICK n \in N : p \in {n} \X (1..d[n].size)
      BY Zenon, <2>1 DEF Area
    <3> QED
      BY <3>1
  <2>2. ASSUME NEW p, p \in Area(d, M) PROVE p[1] \in M
    <3>1. PICK n \in M : p \in {n} \X (1..d[n].size)
      BY Zenon, <2>2 DEF Area
    <3> QED
      BY <3>1
  <2> QED
    BY Zenon, <2>1, <2>2
<1>4. Cardinality(Area(d, N \cup M))
        = Cardinality(Area(d, N)) + Cardinality(Area(d, M)) - Cardinality({})
  <2>1. Cardinality(Area(d, N) \cup Area(d, M))
          = Cardinality(Area(d, N)) + Cardinality(Area(d, M)) - Cardinality(Area(d, N) \cap Area(d, M))
    BY Zenon, <1>1, FS_Union
  <2> QED
    BY Zenon, <1>2, <1>3, <2>1
<1>5. Cardinality(Area(d, N)) \in Nat /\ Cardinality(Area(d, M)) \in Nat
  BY Zenon, <1>1, FS_CardinalityType
<1>6. Cardinality({}) = 0
  BY Zenon, FS_EmptySet
<1> QED
  BY <1>4, <1>5, <1>6

(* The count depends on the sizes alone. *)
LEMMA AreaSame ==
  ASSUME NEW d, NEW e, NEW N, \A n \in N : e[n].size = d[n].size
  PROVE  Area(e, N) = Area(d, N)
<1>1. \A n \in N : {n} \X (1..e[n].size) = {n} \X (1..d[n].size)
  BY Zenon
<1> QED
  BY Zenon, <1>1 DEF Area

(* Taking files away takes their share of the count. *)
LEMMA AreaShrinks ==
  ASSUME NEW d, NEW e, NEW G, Sized(d, DOMAIN d), G \subseteq DOMAIN d,
         DOMAIN e = DOMAIN d \ G, \A n \in DOMAIN e : e[n] = d[n]
  PROVE  Cardinality(Area(e, DOMAIN e)) = Cardinality(Area(d, DOMAIN d)) - Cardinality(Area(d, G))
<1> DEFINE R == DOMAIN d \ G
<1>1. Sized(d, R) /\ Sized(d, G)
  BY Zenon, FS_Subset DEF Sized
<1>2. R \cap G = {} /\ R \cup G = DOMAIN d
  BY Zenon
<1>3. /\ Cardinality(Area(d, DOMAIN d)) = Cardinality(Area(d, R)) + Cardinality(Area(d, G))
      /\ Cardinality(Area(d, R)) \in Nat /\ Cardinality(Area(d, G)) \in Nat
  <2>1. /\ Cardinality(Area(d, R \cup G)) = Cardinality(Area(d, R)) + Cardinality(Area(d, G))
        /\ Cardinality(Area(d, R)) \in Nat /\ Cardinality(Area(d, G)) \in Nat
    BY Zenon, <1>1, <1>2, AreaOfTwo
  <2> QED
    BY Zenon, <1>2, <2>1
<1>4. Area(e, R) = Area(d, R)
  <2>1. \A n \in R : e[n].size = d[n].size
    BY Zenon
  <2> QED
    BY Zenon, <2>1, AreaSame
<1>5. Cardinality(Area(d, R)) = Cardinality(Area(d, DOMAIN d)) - Cardinality(Area(d, G))
  BY <1>3
<1> QED
  BY Zenon, <1>4, <1>5

LEMMA SpoolSized ==
  ASSUME SpoolInv
  PROVE  Sized(disk, DOMAIN disk)
<1>1. \A f \in File : f.size \in Nat
  BY Zenon, SpoolAssumption DEF File
<1> QED
  BY Zenon, <1>1 DEF Sized, SpoolInv, SpoolTypeOK

(* The count follows the files the drop loop and Peek delete. *)
LEMMA DiscardBytes ==
  ASSUME SpoolInv, BytesExact, open, NEW k \in 0..Len(items), adding => k < Len(items),
         DiscardOldest(k), UNCHANGED <<open, lastSeq, adding, added>>
  PROVE  BytesExact'
<1> DEFINE gone == {items[i] : i \in 1..k}
<1>1. /\ DOMAIN disk' = DOMAIN disk \ gone
      /\ \A n \in DOMAIN disk' : disk'[n] = disk[n]
  BY Zenon, DiscardInv
<1>2. gone \subseteq DOMAIN disk
  <2>1. Len(items) \in Nat
    BY Zenon, LenProperties DEF SpoolInv, SpoolTypeOK
  <2>2. \A i \in 1..k : i \in 1..Len(items)
    BY <2>1
  <2> QED
    BY Zenon, <2>2 DEF SpoolInv, QueueMirrorsDirectory, Elements
<1>3. Cardinality(Area(disk', DOMAIN disk'))
        = Cardinality(Area(disk, DOMAIN disk)) - Cardinality(Area(disk, gone))
  BY Zenon, <1>1, <1>2, SpoolSized, AreaShrinks
<1>4. bytes = Cardinality(Area(disk, DOMAIN disk)) /\ bytes' = bytes - Cardinality(Area(disk, gone))
  BY Zenon DEF BytesExact, DiscardOldest, SizeOf, BytesOf, Area
<1>5. bytes' = Cardinality(Area(disk', DOMAIN disk'))
  BY Zenon, <1>3, <1>4
<1> QED
  BY Zenon, <1>5 DEF BytesExact, SizeOf, BytesOf, Area

(* Add counts the file it writes. *)
LEMMA AddBytes ==
  ASSUME SpoolInv, BytesExact, NEW t \in Clock, NEW size \in Sizes, AddWrite(t, size)
  PROVE  BytesExact'
<1> DEFINE seq == NextSeq(t)
<1>1. /\ DOMAIN disk' = DOMAIN disk \cup {seq}
      /\ seq \notin DOMAIN disk
      /\ \A n \in DOMAIN disk : disk'[n] = disk[n]
  BY Zenon, AddWriteInv
<1>2. disk'[seq].size = size /\ size \in Nat
  <2>1. disk'[seq] = [batch |-> added + 1, size |-> size, ok |-> TRUE]
    BY Zenon DEF AddWrite, Written
  <2> QED
    BY <2>1, SpoolAssumption
<1> HIDE DEF seq
<1>3. Sized(disk', DOMAIN disk) /\ Sized(disk', {seq})
  BY Zenon, <1>1, <1>2, SpoolSized, FS_Singleton DEF Sized
<1>4. DOMAIN disk \cap {seq} = {}
  BY Zenon, <1>1
<1>5. Cardinality(Area(disk', DOMAIN disk'))
        = Cardinality(Area(disk', DOMAIN disk)) + Cardinality(Area(disk', {seq}))
  <2>1. Cardinality(Area(disk', DOMAIN disk \cup {seq}))
          = Cardinality(Area(disk', DOMAIN disk)) + Cardinality(Area(disk', {seq}))
    BY Zenon, <1>3, <1>4, AreaOfTwo
  <2> QED
    BY Zenon, <1>1, <2>1
<1>6. Area(disk', DOMAIN disk) = Area(disk, DOMAIN disk)
  <2>1. \A n \in DOMAIN disk : disk'[n].size = disk[n].size
    BY Zenon, <1>1
  <2> QED
    BY Zenon, <2>1, AreaSame
<1>7. Cardinality(Area(disk', {seq})) = size
  BY Zenon, <1>2, AreaOfOne
<1>8. bytes = Cardinality(Area(disk, DOMAIN disk)) /\ bytes' = bytes + size
  BY Zenon DEF BytesExact, AddWrite, SizeOf, BytesOf, Area
<1>9. bytes' = Cardinality(Area(disk', DOMAIN disk'))
  BY Zenon, <1>5, <1>6, <1>7, <1>8
<1> QED
  BY Zenon, <1>9 DEF BytesExact, SizeOf, BytesOf, Area

(* Remove takes the removed file's size, and nothing if the name is gone. *)
LEMMA RemoveBytes ==
  ASSUME SpoolInv, BytesExact, NEW name, Remove(name)
  PROVE  BytesExact'
<1>1. open /\ Elements(items) = DOMAIN disk
  BY Zenon DEF Remove, SpoolInv, QueueMirrorsDirectory
<1>2. CASE name \notin DOMAIN disk
  BY Zenon, <1>1, <1>2 DEF Remove, BytesExact, SizeOf, BytesOf
<1>3. CASE name \in DOMAIN disk
  <2>1. /\ DOMAIN disk' = DOMAIN disk \ {name}
        /\ \A n \in DOMAIN disk' : disk'[n] = disk[n]
    BY Zenon, RemoveInv
  <2>2. disk[name].size \in Nat
    BY Zenon, <1>3, SpoolSized DEF Sized
  <2>3. Cardinality(Area(disk', DOMAIN disk'))
          = Cardinality(Area(disk, DOMAIN disk)) - Cardinality(Area(disk, {name}))
    BY Zenon, <1>3, <2>1, SpoolSized, AreaShrinks
  <2>4. Cardinality(Area(disk, {name})) = disk[name].size
    BY Zenon, <2>2, AreaOfOne
  <2>5. bytes = Cardinality(Area(disk, DOMAIN disk))
    BY Zenon, <1>1 DEF BytesExact, SizeOf, BytesOf, Area
  <2>6. bytes' = bytes - disk[name].size
    BY Zenon, <1>1, <1>3 DEF Remove
  <2>7. bytes' = Cardinality(Area(disk', DOMAIN disk'))
    BY Zenon, <2>3, <2>4, <2>5, <2>6
  <2> QED
    BY Zenon, <2>7 DEF BytesExact, SizeOf, BytesOf, Area
<1> QED
  BY Zenon, <1>2, <1>3

(* A damaged file keeps its size. *)
LEMMA DamageBytes ==
  ASSUME SpoolInv, BytesExact, NEW name, Damage(name)
  PROVE  BytesExact'
<1>1. /\ DOMAIN disk' = DOMAIN disk
      /\ disk' = [disk EXCEPT ![name] = [disk[name] EXCEPT !.ok = FALSE]]
  BY Zenon DEF Damage
<1>2. \A n \in DOMAIN disk : disk[n] \in File
  BY Zenon DEF SpoolInv, SpoolTypeOK
<1>3. \A f \in File : [f EXCEPT !.ok = FALSE].size = f.size
  BY DEF File
<1>4. \A n \in DOMAIN disk : disk'[n].size = disk[n].size
  BY Zenon, <1>1, <1>2, <1>3
<1>5. Area(disk', DOMAIN disk) = Area(disk, DOMAIN disk)
  BY Zenon, <1>4, AreaSame
<1> QED
  BY Zenon, <1>1, <1>5 DEF Damage, BytesExact, SizeOf, BytesOf, Area

(* Every step of the spool keeps the count. *)
LEMMA SpoolNextBytes == SpoolInv /\ BytesExact /\ [SpoolNext]_spoolVars => BytesExact'
<1> SUFFICES ASSUME SpoolInv, BytesExact, [SpoolNext]_spoolVars PROVE BytesExact'
  BY Zenon
<1>1. CASE Open
  BY Zenon, <1>1 DEF Open, OpenAs, BytesExact, SizeOf, BytesOf
<1>2. ASSUME NEW t \in Clock, NEW size \in Sizes, AddWrite(t, size)
      PROVE  BytesExact'
  BY Zenon, <1>2, AddBytes
<1>3. CASE DropOldest
  <2>1. /\ open /\ DiscardOldest(1) /\ Len(items) > 1
        /\ UNCHANGED <<open, lastSeq, adding, added>>
    BY Zenon, <1>3 DEF DropOldest, Overfull, SpoolInv
  <2>2. Len(items) \in Nat
    BY Zenon, LenProperties DEF SpoolInv, SpoolTypeOK
  <2>3. 1 \in 0..Len(items) /\ 1 < Len(items)
    BY <2>1, <2>2
  <2> QED
    BY Zenon, <2>1, <2>3, DiscardBytes
<1>4. CASE AddDone \/ DropFails \/ UNCHANGED spoolVars
  BY Zenon, <1>4 DEF AddDone, DropFails, spoolVars, BytesExact, SizeOf, BytesOf
<1>5. ASSUME NEW k \in 0..Len(items), Peek(k) \/ PeekFails(k)
      PROVE  BytesExact'
  <2>1. /\ open /\ ~adding /\ DiscardOldest(k)
        /\ UNCHANGED <<open, lastSeq, adding, added>>
    BY Zenon, <1>5 DEF Peek, PeekFails
  <2> QED
    BY Zenon, <2>1, DiscardBytes
<1>6. ASSUME NEW name, Remove(name) PROVE BytesExact'
  BY Zenon, <1>6, RemoveBytes
<1>7. ASSUME NEW name, Damage(name) PROVE BytesExact'
  BY Zenon, <1>7, DamageBytes
<1>8. CASE Crash
  BY Zenon, <1>8 DEF Crash, BytesExact
<1> QED
  BY Zenon, <1>1, <1>2, <1>3, <1>4, <1>5, <1>6, <1>7, <1>8 DEF SpoolNext

(* The spool's count is exact in every behaviour of its operations. *)
LEMMA SpoolBytes == SpoolSpec => []BytesExact
<1>1. SpoolInit => BytesExact
  BY Zenon DEF SpoolInit, BytesExact
<1> QED
  BY <1>1, SpoolInitInv, SpoolNextInv, SpoolNextBytes, PTL DEF SpoolSpec

-----------------------------------------------------------------------------
(* Delivery over the spool. *)

(* What a step may do to the directory while a process has it open: files
   go, and new ones are newer than any by name and by batch. *)
Moves ==
  /\ added' \in Nat /\ added <= added'
  /\ lastSeq' \in Nat /\ lastSeq <= lastSeq'
  /\ \A n \in DOMAIN disk' :
       \/ n \in DOMAIN disk /\ disk'[n].batch = disk[n].batch
       \/ n > lastSeq /\ disk'[n].batch \in Nat /\ disk'[n].batch > added

(* The part of that which also holds when a process opens or leaves it. *)
Ages ==
  /\ added' \in Nat /\ added <= added'
  /\ \A c \in Held' : c \in Held \/ (c \in Nat /\ c > added)

(* The types of what the directory holds, and that a batch is in one file. *)
LEMMA FileFacts ==
  ASSUME SpoolInv
  PROVE  /\ added \in Nat /\ lastSeq \in Nat
         /\ \A n \in DOMAIN disk : n \in Nat /\ disk[n].batch \in Nat
         /\ \A m, n \in DOMAIN disk : disk[m].batch = disk[n].batch => m = n
         /\ \A b \in Held : b \in Nat /\ b <= added
<1>1. added \in Nat /\ lastSeq \in Nat
  BY Zenon DEF SpoolInv, SpoolTypeOK
<1>2. \A n \in DOMAIN disk : n \in Nat /\ disk[n].batch \in Nat
  BY Zenon DEF SpoolInv, SpoolTypeOK, File
<1>3. \A m, n \in DOMAIN disk : disk[m].batch = disk[n].batch => m = n
  BY <1>2 DEF SpoolInv, SendOrder
<1>4. \A b \in Held : b \in Nat /\ b <= added
  BY Zenon, <1>2 DEF SpoolInv, Held
<1> QED
  BY Zenon, <1>1, <1>2, <1>3, <1>4

(* The front of an open queue is the oldest batch held. *)
LEMMA FrontIsFirst ==
  ASSUME SpoolInv, open, NEW k \in 0..Len(items)
  PROVE  /\ Len(items) \in Nat
         /\ \A i \in 1..Len(items) : items[i] \in DOMAIN disk
         /\ \A i \in 1..Len(items), n \in DOMAIN disk \ {items[j] : j \in 1..k} :
              i <= k => disk[items[i]].batch < disk[n].batch
         /\ k < Len(items) => \A n \in DOMAIN disk \ {items[j] : j \in 1..k} :
              disk[items[k + 1]].batch <= disk[n].batch
<1>1. Len(items) \in Nat
  BY Zenon, LenProperties DEF SpoolInv, SpoolTypeOK
<1>2. /\ Elements(items) = DOMAIN disk
      /\ \A i, j \in 1..Len(items) : i < j => items[i] < items[j]
  BY Zenon DEF SpoolInv, QueueMirrorsDirectory
<1>3. \A i \in 1..Len(items) : items[i] \in DOMAIN disk
  BY Zenon, <1>2 DEF Elements
<1>4. ASSUME NEW n \in DOMAIN disk \ {items[j] : j \in 1..k}
      PROVE  \E j \in 1..Len(items) : items[j] = n /\ j > k
  <2>1. PICK j \in 1..Len(items) : items[j] = n
    BY Zenon, <1>2 DEF Elements
  <2>2. j > k
    BY <1>1, <2>1
  <2> QED
    BY Zenon, <2>1, <2>2
<1>5. ASSUME NEW i \in 1..Len(items), NEW n \in DOMAIN disk \ {items[j] : j \in 1..k}, i <= k
      PROVE  disk[items[i]].batch < disk[n].batch
  <2>1. PICK j \in 1..Len(items) : items[j] = n /\ j > k
    BY Zenon, <1>4
  <2>2. items[i] < n
    BY <1>1, <1>2, <1>5, <2>1
  <2> QED
    BY Zenon, <1>3, <2>2 DEF SpoolInv, SendOrder
<1>6. ASSUME k < Len(items), NEW n \in DOMAIN disk \ {items[j] : j \in 1..k}
      PROVE  disk[items[k + 1]].batch <= disk[n].batch
  <2>1. PICK j \in 1..Len(items) : items[j] = n /\ j > k
    BY Zenon, <1>4
  <2>2. k + 1 \in 1..Len(items)
    BY <1>1, <1>6
  <2>3. CASE j = k + 1
    BY <2>1, <2>3, <1>3, FileFacts
  <2>4. CASE j > k + 1
    <3>1. items[k + 1] < n
      BY Zenon, <1>2, <2>1, <2>2, <2>4
    <3>2. disk[items[k + 1]].batch < disk[n].batch
      BY Zenon, <1>3, <2>2, <3>1 DEF SpoolInv, SendOrder
    <3> QED
      BY <1>3, <2>2, <3>2, FileFacts
  <2> QED
    BY <1>1, <2>1, <2>3, <2>4
<1> QED
  BY Zenon, <1>1, <1>3, <1>5, <1>6

(* What the spool's operations do to the set of batches held. *)
LEMMA AddHeld ==
  ASSUME SpoolInv, NEW t \in Clock, NEW size \in Sizes, AddWrite(t, size)
  PROVE  Moves /\ Held' = Held \cup {added + 1} /\ added' = added + 1
<1>1. /\ SpoolInv'
      /\ DOMAIN disk' = DOMAIN disk \cup {NextSeq(t)}
      /\ NextSeq(t) \notin DOMAIN disk
      /\ disk'[NextSeq(t)].batch = added + 1
      /\ \A n \in DOMAIN disk : disk'[n] = disk[n]
  BY Zenon, AddWriteInv
<1>2. Held' = Held \cup {added + 1}
  BY <1>1 DEF Held
<1>3. NextSeq(t) \in Nat /\ NextSeq(t) > lastSeq
  BY SpoolAssumption, FileFacts DEF NextSeq
<1>4. added' = added + 1 /\ lastSeq' = NextSeq(t)
  BY Zenon DEF AddWrite
<1> QED
  BY <1>1, <1>2, <1>3, <1>4, FileFacts DEF Moves

LEMMA DiscardHeld ==
  ASSUME SpoolInv, open, NEW k \in 0..Len(items),
         DOMAIN disk' = DOMAIN disk \ {items[i] : i \in 1..k},
         \A n \in DOMAIN disk' : disk'[n] = disk[n],
         UNCHANGED <<lastSeq, added>>
  PROVE  /\ Moves
         /\ Held' = Held \ BatchesOf(k)
         /\ BatchesOf(k) \subseteq Held
         /\ \A b \in BatchesOf(k), c \in Held' : b < c
<1>1. \A i \in 1..k : i \in 1..Len(items) /\ i <= k
  BY FrontIsFirst
<1>2. BatchesOf(k) \subseteq Held
  BY Zenon, <1>1, FrontIsFirst DEF BatchesOf, Held
<1>3. \A b \in BatchesOf(k), c \in Held' : b < c
  BY <1>1, FrontIsFirst DEF BatchesOf, Held
<1>4. \A c \in Held' : c \in Nat
  BY FileFacts DEF Held
<1>5. Held' = Held \ BatchesOf(k)
  <2>1. Held' \subseteq Held \ BatchesOf(k)
    <3>1. Held' \subseteq Held
      BY Zenon DEF Held
    <3>2. \A c \in Held' : c \notin BatchesOf(k)
      BY <1>3, <1>4
    <3> QED
      BY Zenon, <3>1, <3>2
  <2>2. Held \ BatchesOf(k) \subseteq Held'
    BY DEF Held, BatchesOf
  <2> QED
    BY Zenon, <2>1, <2>2
<1>6. Moves
  BY FileFacts DEF Moves
<1> QED
  BY Zenon, <1>2, <1>3, <1>5, <1>6

LEMMA RemoveHeld ==
  ASSUME SpoolInv, NEW name, Remove(name)
  PROVE  /\ Moves
         /\ Held' = Held \ {disk[n].batch : n \in DOMAIN disk \cap {name}}
<1>1. /\ DOMAIN disk' = DOMAIN disk \ {name}
      /\ \A n \in DOMAIN disk' : disk'[n] = disk[n]
  BY Zenon, RemoveInv
<1>2. Held' = Held \ {disk[n].batch : n \in DOMAIN disk \cap {name}}
  BY <1>1, FileFacts DEF Held
<1>3. UNCHANGED <<lastSeq, added>>
  BY Zenon DEF Remove
<1> QED
  BY <1>1, <1>2, <1>3, FileFacts DEF Moves

LEMMA DamageHeld ==
  ASSUME SpoolInv, NEW name, Damage(name)
  PROVE  Moves /\ Held' = Held
<1>1. /\ DOMAIN disk' = DOMAIN disk
      /\ \A n \in DOMAIN disk : disk'[n].batch = disk[n].batch
  BY Zenon, DamageInv
<1>2. UNCHANGED <<lastSeq, added>>
  BY Zenon DEF Damage
<1> QED
  BY <1>1, <1>2, FileFacts DEF Moves, Held

LEMMA SameHeld ==
  ASSUME SpoolInv, UNCHANGED <<disk, lastSeq, added>>
  PROVE  Moves /\ Held' = Held
BY FileFacts DEF Moves, Held

-----------------------------------------------------------------------------
(* A batch that was at the front stays ahead of whatever is held. *)
LEMMA FirstStays ==
  ASSUME SpoolInv, Ages, NEW b \in 1..added, First(b)
  PROVE  b \in 1..added' /\ First(b)'
<1>1. b \in 1..added'
  BY FileFacts DEF Ages
<1>2. \A c \in Held' : b <= c
  BY FileFacts DEF First, Ages
<1> QED
  BY Zenon, <1>1, <1>2 DEF First

LEMMA MovesAges == Moves => Ages
BY Zenon DEF Moves, Ages, Held

(* What the sender holds stays good while the directory moves under it. *)
LEMMA AttemptStays ==
  ASSUME DeliveryInv, Moves, UNCHANGED <<entry, sending>>,
         GivenUp \subseteq GivenUp', Held \subseteq Held' \cup GivenUp',
         pc' \in {"link", "sending"} => pc \in {"link", "sending"}
  PROVE  AttemptInv'
<1> SUFFICES ASSUME pc' \in {"link", "sending"}
             PROVE  /\ sending' \in 1..added' /\ First(sending)'
                    /\ entry' <= lastSeq'
                    /\ entry' \in DOMAIN disk' => disk'[entry'].batch = sending'
                    /\ sending' \in Held' => entry' \in DOMAIN disk'
                    /\ sending' \in Held' \cup GivenUp'
  BY Zenon DEF AttemptInv
<1>1. /\ sending \in 1..added /\ First(sending)
      /\ entry <= lastSeq
      /\ entry \in DOMAIN disk => disk[entry].batch = sending
      /\ sending \in Held => entry \in DOMAIN disk
      /\ sending \in Held \cup GivenUp
  BY Zenon DEF DeliveryInv, AttemptInv
<1>2. SpoolInv /\ entry \in Nat /\ lastSeq \in Nat /\ added \in Nat
  BY Zenon, FileFacts DEF DeliveryInv, TypeOK
<1>3. sending \in 1..added' /\ First(sending)'
  BY Zenon, <1>1, <1>2, FirstStays, MovesAges
<1>4. entry <= lastSeq'
  BY <1>1, <1>2 DEF Moves
<1>5. ASSUME entry \in DOMAIN disk'
      PROVE  disk'[entry].batch = sending
  <2>1. entry \in DOMAIN disk /\ disk'[entry].batch = disk[entry].batch
    BY <1>1, <1>2, <1>5 DEF Moves
  <2> QED
    BY Zenon, <1>1, <2>1
<1>6. ASSUME sending \in Held'
      PROVE  entry \in DOMAIN disk'
  <2>1. PICK n \in DOMAIN disk' : disk'[n].batch = sending
    BY Zenon, <1>6 DEF Held
  <2>2. n \in DOMAIN disk /\ disk[n].batch = sending
    BY <1>1, <1>2, <2>1 DEF Moves
  <2>3. entry \in DOMAIN disk /\ disk[entry].batch = sending
    BY Zenon, <1>1, <2>2 DEF Held
  <2>4. n = entry
    BY Zenon, <1>2, <2>2, <2>3, FileFacts
  <2> QED
    BY Zenon, <2>4
<1>7. sending \in Held' \cup GivenUp'
  BY Zenon, <1>1
<1> QED
  BY Zenon, <1>3, <1>4, <1>5, <1>6, <1>7

(* What the server has, or may still come to, stays ahead of the spool. *)
LEMMA ServerStays ==
  ASSUME SpoolInv, ServerInv, Ages,
         \A b \in stored' \cup late' : b \in stored \cup late \/ (b \in 1..added /\ First(b))
  PROVE  ServerInv'
<1>1. \A b \in stored' \cup late' : b \in 1..added /\ First(b)
  BY Zenon DEF ServerInv
<1>2. \A b \in stored' \cup late' : b \in 1..added' /\ First(b)'
  BY Zenon, <1>1, FirstStays
<1> QED
  BY Zenon, <1>2 DEF ServerInv, First, Held

(* Only a tick changes what was carried. *)
LEMMA CarriedStays ==
  ASSUME TypeOK, CarriedInv, UNCHANGED <<carried, added>>, docFile' \in Nat, docFile <= docFile'
  PROVE  CarriedInv'
<1>1. \A b \in 1..added : carried[b] \in Nat
  <2>1. carried \in Seq(0..MaxDoc)
    BY Zenon DEF TypeOK
  <2>2. \A b \in 1..added : carried[b] \in 0..MaxDoc
    BY Zenon, <2>1, ElementOfSeq DEF CarriedInv
  <2> QED
    BY <2>2, DeliveryAssumption
<1>2. docFile \in Nat
  BY DeliveryAssumption DEF TypeOK
<1>3. \A b \in 1..added : carried[b] <= docFile'
  BY <1>1, <1>2 DEF CarriedInv
<1> QED
  BY Zenon, <1>3 DEF CarriedInv

(* A step that adds no batch keeps the invariant if it keeps the parts that
   depend on the sender's position, and accounts for what leaves the spool. *)
LEMMA Assemble ==
  ASSUME DeliveryInv, SpoolInv', TypeOK', Ages,
         pc' = "down" <=> ~open', AttemptInv', WireInv',
         UNCHANGED <<carried, added>>, docFile <= docFile',
         \A b \in stored' \cup late' : b \in stored \cup late \/ (b \in 1..added /\ First(b)),
         stored \subseteq stored',
         GivenUp \subseteq GivenUp', Held \subseteq Held' \cup stored' \cup GivenUp'
  PROVE  DeliveryInv'
<1>1. ServerInv'
  BY Zenon, ServerStays DEF DeliveryInv
<1>2. docFile' \in Nat
  BY DeliveryAssumption DEF TypeOK
<1>3. CarriedInv'
  BY Zenon, <1>2, CarriedStays DEF DeliveryInv
<1>4. NoSilentLoss'
  BY Zenon DEF DeliveryInv, NoSilentLoss
<1> QED
  BY Zenon, <1>1, <1>3, <1>4 DEF DeliveryInv

(* The directory moves and neither the documents nor the server do. *)
LEMMA AssembleMoved ==
  ASSUME DeliveryInv, SpoolInv', TypeOK', Moves,
         pc' = "down" <=> ~open', AttemptInv', WireInv',
         UNCHANGED <<carried, added, docFile, stored, late>>,
         GivenUp \subseteq GivenUp', Held \subseteq Held' \cup stored' \cup GivenUp'
  PROVE  DeliveryInv'
<1>1. docFile \in Nat /\ docFile <= docFile'
  BY DeliveryAssumption DEF DeliveryInv, TypeOK
<1>2. Ages
  BY Zenon, MovesAges
<1>3. \A b \in stored' \cup late' : b \in stored \cup late
  BY Zenon
<1> QED
  BY Zenon, <1>1, <1>2, <1>3, Assemble

(* The common case: nothing happens to the spool. *)
LEMMA Quiet ==
  ASSUME DeliveryInv, TypeOK', UNCHANGED <<spoolVars, carried, rejected, dropped, discarded>>,
         docFile <= docFile', pc' = "down" <=> pc = "down",
         pc' \in {"link", "sending"} => pc \in {"link", "sending"} /\ UNCHANGED <<entry, sending>>,
         WireInv', stored \subseteq stored',
         \A b \in stored' \cup late' : b \in stored \cup late \/ (b \in 1..added /\ First(b))
  PROVE  DeliveryInv'
<1>1. SpoolInv'
  BY Zenon, SpoolStutterInv DEF DeliveryInv
<1>2. Moves /\ Held' = Held
  BY Zenon, SameHeld DEF DeliveryInv, spoolVars
<1>3. Ages
  BY Zenon, <1>2, MovesAges
<1>4. AttemptInv'
  <2>1. CASE pc' \in {"link", "sending"}
    BY Zenon, <1>2, <2>1, AttemptStays DEF GivenUp
  <2>2. CASE pc' \notin {"link", "sending"}
    BY Zenon, <2>2 DEF AttemptInv
  <2> QED
    BY Zenon, <2>1, <2>2
<1>5. (pc' = "down" <=> ~open') /\ UNCHANGED <<carried, added>>
  BY Zenon DEF DeliveryInv, spoolVars
<1>6. GivenUp' = GivenUp
  BY Zenon DEF GivenUp
<1> QED
  BY Zenon, <1>1, <1>2, <1>3, <1>4, <1>5, <1>6, Assemble

(* Store claims the key of one batch and keeps the document a type. *)
LEMMA StoreFacts ==
  ASSUME DeliveryInv, NEW b \in 1..added, Store(b)
  PROVE  /\ doc' \in 0..MaxDoc /\ stored' \subseteq Nat
         /\ stored' = stored \cup {b}
<1>1. carried[b] \in 0..MaxDoc
  BY Zenon, ElementOfSeq DEF DeliveryInv, TypeOK, CarriedInv
<1>2. b \in Nat
  BY FileFacts DEF DeliveryInv
<1>3. stored \subseteq Nat /\ doc \in 0..MaxDoc
  BY Zenon DEF DeliveryInv, TypeOK
<1> QED
  BY Zenon, <1>1, <1>2, <1>3 DEF Store

(* The typing of a step that leaves the spool alone. *)
LEMMA QuietTypes ==
  ASSUME DeliveryInv, UNCHANGED spoolVars PROVE SpoolTypeOK'
BY Zenon, SpoolStutterInv DEF DeliveryInv, SpoolInv

(* A failed attempt, whatever becomes of its request. *)
LEMMA FailInv ==
  ASSUME DeliveryInv, Fail, Abandon, pc \in {"link", "sending"},
         UNCHANGED <<spoolVars, runnerVars, stored, doc, rejected, dropped, discarded>>,
         faults' \in 0..MaxFaults
  PROVE  DeliveryInv'
<1>1. TypeOK
  BY Zenon DEF DeliveryInv
<1>2. fails' \in 0..RebuildAfter
  BY <1>1, DeliveryAssumption DEF Fail, TypeOK
<1>3. late' \subseteq Nat
  BY Zenon, <1>1 DEF Abandon, TypeOK
<1>4. TypeOK'
  BY Zenon, <1>1, <1>2, <1>3, QuietTypes DEF TypeOK, Fail, EndAttempt, runnerVars
<1>5. WireInv' /\ pc' = "backoff"
  BY Zenon DEF WireInv, Fail, EndAttempt
<1>6. \A b \in stored' \cup late' : b \in stored \cup late \/ (b \in 1..added /\ First(b))
  BY Zenon DEF Abandon, DeliveryInv, AttemptInv
<1>7. docFile' = docFile /\ docFile \in Nat /\ UNCHANGED carried
  BY <1>1, DeliveryAssumption DEF runnerVars, TypeOK
<1> QED
  BY <1>4, <1>5, <1>6, <1>7, Quiet

(* The sender's steps that leave the spool alone. *)
LEMMA SenderQuiet ==
  ASSUME DeliveryInv,
         BackoffElapsed \/ Kicked \/ Send \/ DialFails \/ RemoveFails \/ Refusal \/ SendFails
  PROVE  DeliveryInv'
<1>1. TypeOK /\ WireInv /\ AttemptInv /\ ServerInv /\ docFile \in Nat
  BY DeliveryAssumption DEF DeliveryInv, TypeOK
<1>2. CASE BackoffElapsed \/ Kicked \/ Send
  <2>1. TypeOK'
    BY Zenon, <1>1, <1>2, QuietTypes
    DEF BackoffElapsed, Kicked, Send, TypeOK, runnerVars, serverVars, historyVars
  <2>2. WireInv'
    BY Zenon, <1>1, <1>2 DEF BackoffElapsed, Kicked, Send, WireInv, serverVars
  <2>3. /\ UNCHANGED <<spoolVars, carried, rejected, dropped, discarded, docFile, stored, late>>
        /\ pc # "down" /\ pc' # "down"
        /\ pc' \in {"link", "sending"} => pc \in {"link", "sending"} /\ UNCHANGED <<entry, sending>>
    BY Zenon, <1>2 DEF BackoffElapsed, Kicked, Send, runnerVars, serverVars, historyVars
  <2> QED
    BY <1>1, <2>1, <2>2, <2>3, Quiet DEF ServerInv
<1>3. CASE DialFails \/ RemoveFails \/ Refusal \/ SendFails
  <2>1. /\ Fail /\ Abandon /\ pc \in {"link", "sending"}
        /\ UNCHANGED <<spoolVars, runnerVars, stored, doc, rejected, dropped, discarded>>
    BY Zenon, <1>3 DEF DialFails, RemoveFails, Refusal, SendFails, Abandon, serverVars, historyVars
  <2>2. faults' \in 0..MaxFaults
    BY <1>1, <1>3, DeliveryAssumption
    DEF DialFails, RemoveFails, Refusal, SendFails, historyVars, Fault, TypeOK
  <2> QED
    BY Zenon, <2>1, <2>2, FailInv
<1> QED
  BY Zenon, <1>2, <1>3

(* The server's steps. *)
LEMMA ServerStep ==
  ASSUME DeliveryInv, Server
  PROVE  DeliveryInv'
<1>1. TypeOK /\ WireInv /\ AttemptInv /\ ServerInv /\ docFile \in Nat
  BY DeliveryAssumption DEF DeliveryInv, TypeOK
<1>2. CASE Ingest
  <2>1. sending \in 1..added /\ First(sending) /\ Store(sending)
    BY Zenon, <1>1, <1>2 DEF Ingest, WireInv, AttemptInv
  <2>2. /\ doc' \in 0..MaxDoc /\ stored' \subseteq Nat /\ stored' = stored \cup {sending}
    BY Zenon, <2>1, StoreFacts
  <2>3. TypeOK'
    BY Zenon, <1>1, <1>2, <2>2, QuietTypes DEF Ingest, TypeOK, runnerVars, historyVars
  <2>4. WireInv'
    BY Zenon, <1>1, <1>2, <2>2 DEF Ingest, WireInv
  <2>5. UNCHANGED <<spoolVars, carried, rejected, dropped, discarded, docFile, pc, entry, sending, late>>
    BY Zenon, <1>2 DEF Ingest, runnerVars, historyVars
  <2> QED
    BY <1>1, <2>1, <2>2, <2>3, <2>4, <2>5, Quiet
<1>3. CASE Reject \/ Defer
  <2>1. TypeOK'
    BY Zenon, <1>1, <1>3, QuietTypes DEF Reject, Defer, TypeOK, runnerVars, historyVars, serverVars
  <2>2. WireInv'
    BY Zenon, <1>1, <1>3 DEF Reject, Defer, WireInv, serverVars
  <2>3. UNCHANGED <<spoolVars, carried, rejected, dropped, discarded, docFile, pc, entry, sending, stored, late>>
    BY Zenon, <1>3 DEF Reject, Defer, runnerVars, serverVars, historyVars
  <2> QED
    BY <1>1, <2>1, <2>2, <2>3, Quiet DEF ServerInv
<1>4. ASSUME NEW b \in late, IngestLate(b) \/ LateEnds(b)
      PROVE  DeliveryInv'
  <2>1. UNCHANGED <<spoolVars, runnerVars, senderVars, historyVars>> /\ late' \subseteq late
    BY Zenon, <1>4 DEF IngestLate, LateEnds
  <2>2. b \in 1..added
    BY Zenon, <1>1 DEF ServerInv
  <2>3. /\ doc' \in 0..MaxDoc /\ stored' \subseteq Nat
        /\ stored' = stored \cup {b} \/ stored' = stored
    <3>1. CASE IngestLate(b)
      BY Zenon, <3>1, <2>2, StoreFacts DEF IngestLate
    <3>2. CASE LateEnds(b)
      BY Zenon, <3>2, <1>1 DEF LateEnds, TypeOK, ServerInv
    <3> QED
      BY Zenon, <1>4, <3>1, <3>2
  <2>4. TypeOK'
    BY Zenon, <1>1, <2>1, <2>3, QuietTypes DEF TypeOK, runnerVars, senderVars, historyVars
  <2>5. WireInv'
    BY Zenon, <1>1, <2>1, <2>3 DEF WireInv, senderVars
  <2>6. UNCHANGED <<carried, rejected, dropped, discarded, docFile, pc, entry, sending>>
    BY Zenon, <2>1 DEF runnerVars, senderVars, historyVars
  <2> QED
    BY <1>1, <2>1, <2>3, <2>4, <2>5, <2>6, Quiet
<1> QED
  BY Zenon, <1>2, <1>3, <1>4 DEF Server

(* The environment's steps that leave the spool alone, and a tick that fails. *)
LEMMA EnvironmentQuiet ==
  ASSUME DeliveryInv, DocChanges \/ SessionDies \/ TickFails
  PROVE  DeliveryInv'
<1>1. TypeOK /\ WireInv /\ AttemptInv /\ ServerInv /\ docFile \in Nat
  BY DeliveryAssumption DEF DeliveryInv, TypeOK
<1>2. docFile' \in 0..MaxDoc /\ docFile <= docFile' /\ faults' \in 0..MaxFaults
  BY <1>1, DeliveryAssumption
  DEF DocChanges, SessionDies, TickFails, Fault, TypeOK, runnerVars, historyVars
<1>3. \A b \in late' : b \in late \/ (b \in 1..added /\ First(b))
  BY Zenon, <1>1 DEF DocChanges, SessionDies, TickFails, serverVars, Abandon, WireInv, AttemptInv
<1>4. late' \subseteq Nat
  BY Zenon, <1>1 DEF DocChanges, SessionDies, TickFails, serverVars, Abandon, TypeOK
<1>5. /\ UNCHANGED <<spoolVars, kick, carried, pc, entry, sending, fails, wire, stored, doc,
                     rejected, dropped, discarded>>
  BY Zenon DEF DocChanges, SessionDies, TickFails, runnerVars, senderVars, serverVars, historyVars
<1>6. session' \in {"none", "live", "dead"} /\ docSent' \in 0..MaxDoc
  BY Zenon, <1>1 DEF DocChanges, SessionDies, TickFails, runnerVars, senderVars, TypeOK
<1>7. TypeOK'
  BY Zenon, <1>1, <1>2, <1>4, <1>5, <1>6, QuietTypes DEF TypeOK
<1>8. WireInv'
  BY Zenon, <1>1, <1>5 DEF WireInv
<1> QED
  BY Zenon, <1>1, <1>2, <1>3, <1>5, <1>7, <1>8, Quiet DEF ServerInv

(* A step of the spool that adds nothing and leaves the sender alone. *)
LEMMA SpoolMovesInv ==
  ASSUME DeliveryInv, SpoolInv', Moves, UNCHANGED <<open, added, docFile, docSent, carried>>,
         UNCHANGED <<senderVars, serverVars>>, kick' \in BOOLEAN, faults' \in 0..MaxFaults,
         rejected' \subseteq Nat, dropped' \subseteq Nat, discarded' \subseteq Nat,
         GivenUp \subseteq GivenUp', Held \subseteq Held' \cup GivenUp'
  PROVE  DeliveryInv'
<1>1. TypeOK /\ WireInv /\ ServerInv /\ docFile \in Nat
  BY DeliveryAssumption DEF DeliveryInv, TypeOK
<1>2. TypeOK'
  BY Zenon, <1>1 DEF TypeOK, SpoolInv, senderVars, serverVars
<1>3. AttemptInv'
  BY Zenon, AttemptStays DEF senderVars
<1>4. WireInv'
  BY Zenon, <1>1 DEF WireInv, senderVars, serverVars
<1>5. (pc' = "down" <=> ~open') /\ UNCHANGED <<stored, late>>
  BY Zenon DEF DeliveryInv, senderVars, serverVars
<1> QED
  BY <1>1, <1>2, <1>3, <1>4, <1>5, Assemble, MovesAges DEF ServerInv

(* A tick spools a batch, newer than whatever the sender or the server has. *)
LEMMA TickInv ==
  ASSUME DeliveryInv, NEW t \in Clock, NEW size \in Sizes, Tick(t, size)
  PROVE  DeliveryInv'
<1>1. TypeOK /\ SpoolInv /\ WireInv /\ ServerInv /\ CarriedInv /\ docFile \in Nat
  BY DeliveryAssumption DEF DeliveryInv, TypeOK
<1>2. AddWrite(t, size) /\ UNCHANGED <<kick, docFile, senderVars, serverVars, historyVars>>
  BY Zenon DEF Tick
<1>3. SpoolInv' /\ Moves /\ Held' = Held \cup {added + 1} /\ added' = added + 1 /\ added \in Nat
  BY Zenon, <1>1, <1>2, AddWriteInv, AddHeld, FileFacts
<1>4. Collected \in 0..MaxDoc /\ carried \in Seq(0..MaxDoc) /\ docSent' \in 0..MaxDoc
  BY <1>1, DeliveryAssumption DEF TypeOK, Collected, Tick
<1>5. /\ carried' \in Seq(0..MaxDoc) /\ Len(carried') = added + 1
      /\ \A b \in 1..added : carried'[b] = carried[b]
      /\ carried'[added + 1] = Collected
  BY <1>1, <1>3, <1>4, AppendProperties DEF Tick, CarriedInv
<1>6. TypeOK'
  BY Zenon, <1>1, <1>2, <1>3, <1>4, <1>5 DEF TypeOK, SpoolInv, senderVars, serverVars, historyVars
<1>7. AttemptInv'
  BY Zenon, <1>2, <1>3, AttemptStays DEF senderVars, historyVars, GivenUp
<1>8. WireInv'
  BY Zenon, <1>1, <1>2 DEF WireInv, senderVars, serverVars
<1>9. ServerInv'
  BY Zenon, <1>1, <1>2, <1>3, ServerStays, MovesAges DEF serverVars, ServerInv
<1>10. CarriedInv'
  <2>1. \A b \in 1..added : carried[b] \in Nat
    BY <1>1, <1>4, ElementOfSeq, DeliveryAssumption DEF CarriedInv
  <2>2. \A b \in 1..added + 1 : b \in 1..added \/ b = added + 1
    BY <1>3
  <2>3. Collected \in Nat /\ Collected <= docFile /\ (Collected # 0 => Collected = docFile)
    BY <1>1, <1>4, DeliveryAssumption DEF Collected
  <2>4. \A b \in 1..added + 1 : carried'[b] <= docFile'
    BY Zenon, <1>1, <1>2, <1>5, <2>2, <2>3 DEF CarriedInv
  <2>5. ASSUME NEW b \in 1..added + 1, NEW c \in 1..added + 1, b < c, carried'[c] # 0
        PROVE  carried'[b] <= carried'[c]
    <3>1. b \in 1..added
      BY <1>3, <2>5
    <3>2. CASE c = added + 1
      BY Zenon, <1>1, <1>5, <2>3, <2>5, <3>1, <3>2 DEF CarriedInv
    <3>3. CASE c \in 1..added
      BY Zenon, <1>1, <1>5, <2>5, <3>1, <3>3 DEF CarriedInv
    <3> QED
      BY Zenon, <2>2, <3>2, <3>3
  <2> QED
    BY Zenon, <1>3, <1>5, <2>4, <2>5 DEF CarriedInv
<1>11. NoSilentLoss'
  BY <1>2, <1>3 DEF DeliveryInv, NoSilentLoss, GivenUp, serverVars, historyVars
<1>12. pc' = "down" <=> ~open'
  BY Zenon, <1>2 DEF DeliveryInv, senderVars, AddWrite
<1> QED
  BY Zenon, <1>3, <1>6, <1>7, <1>8, <1>9, <1>10, <1>11, <1>12 DEF DeliveryInv

(* The rest of a tick, and damage to a file. *)
LEMMA RunnerMoves ==
  ASSUME DeliveryInv,
         TickDrops \/ TickKicks \/ TickDropFails \/ \E name \in DOMAIN disk : FileDamaged(name)
  PROVE  DeliveryInv'
<1>1. TypeOK /\ SpoolInv
  BY Zenon DEF DeliveryInv
<1>2. CASE TickDrops
  <2>1. DropOldest /\ adding /\ open /\ Len(items) > 1 /\ UNCHANGED <<open, lastSeq, added>>
    BY Zenon, <1>1, <1>2 DEF TickDrops, DropOldest, Overfull, SpoolInv
  <2>2. 1 \in 0..Len(items) /\ {items[i] : i \in 1..1} = {items[1]}
    BY <1>1, <2>1, LenProperties DEF SpoolInv, SpoolTypeOK
  <2>3. BatchesOf(1) = {disk[items[1]].batch}
    BY DEF BatchesOf
  <2>4. SpoolInv' /\ Moves /\ Held' = Held \ BatchesOf(1) /\ BatchesOf(1) \subseteq Held
    BY Zenon, <1>1, <2>1, <2>2, DropOldestInv, DiscardHeld
  <2>5. BatchesOf(1) \subseteq Nat
    BY Zenon, <1>1, <2>4, FileFacts
  <2>6. /\ dropped' = dropped \cup BatchesOf(1)
        /\ UNCHANGED <<runnerVars, senderVars, serverVars, rejected, discarded, faults>>
    BY Zenon, <1>2, <2>3 DEF TickDrops
  <2>7. GivenUp' = GivenUp \cup BatchesOf(1)
    BY Zenon, <2>6 DEF GivenUp
  <2> QED
    BY Zenon, <1>1, <2>1, <2>4, <2>5, <2>6, <2>7, SpoolMovesInv DEF TypeOK, runnerVars
<1>3. CASE TickKicks \/ TickDropFails
  <2>1. SpoolInv' /\ UNCHANGED <<disk, open, lastSeq, added>>
    BY Zenon, <1>1, <1>3, AddEndsInv DEF TickKicks, TickDropFails, AddDone, DropFails
  <2>2. Moves /\ Held' = Held
    BY Zenon, <1>1, <2>1, SameHeld
  <2>3. /\ UNCHANGED <<docFile, docSent, carried, senderVars, serverVars, rejected, dropped, discarded>>
        /\ kick' \in BOOLEAN
    BY Zenon, <1>1, <1>3 DEF TickKicks, TickDropFails, runnerVars, historyVars, TypeOK
  <2>4. faults' \in 0..MaxFaults
    BY <1>1, <1>3, DeliveryAssumption DEF TickKicks, TickDropFails, historyVars, Fault, TypeOK
  <2> QED
    BY Zenon, <1>1, <2>1, <2>2, <2>3, <2>4, SpoolMovesInv DEF TypeOK, GivenUp
<1>4. ASSUME NEW name \in DOMAIN disk, FileDamaged(name)
      PROVE  DeliveryInv'
  <2>1. SpoolInv' /\ UNCHANGED <<open, added>> /\ Moves /\ Held' = Held
    BY Zenon, <1>1, <1>4, DamageInv, DamageHeld DEF FileDamaged, Damage
  <2>2. UNCHANGED <<runnerVars, senderVars, serverVars, rejected, dropped, discarded>>
    BY Zenon, <1>4 DEF FileDamaged
  <2>3. faults' \in 0..MaxFaults
    BY <1>1, <1>4, DeliveryAssumption DEF FileDamaged, Fault, TypeOK
  <2> QED
    BY Zenon, <1>1, <2>1, <2>2, <2>3, SpoolMovesInv DEF TypeOK, GivenUp, runnerVars
<1> QED
  BY Zenon, <1>2, <1>3, <1>4

(* A process starts or ends; the directory stays. *)
LEMMA ProcessInv ==
  ASSUME DeliveryInv, Start \/ AgentCrash
  PROVE  DeliveryInv'
<1>1. TypeOK /\ SpoolInv /\ WireInv /\ AttemptInv /\ ServerInv /\ docFile \in Nat
  BY DeliveryAssumption DEF DeliveryInv, TypeOK
<1>2. SpoolInv' /\ UNCHANGED <<disk, added>>
  BY Zenon, <1>1, OpenInv, CrashInv DEF Start, AgentCrash, Open, OpenAs, Crash
<1>3. Held' = Held /\ Ages
  BY <1>1, <1>2, FileFacts DEF Held, Ages
<1>4. /\ UNCHANGED <<docFile, carried, stored, doc, rejected, dropped, discarded>>
      /\ docSent' \in 0..MaxDoc
      /\ entry' \in Nat /\ sending' \in Nat
      /\ session' \in {"none", "live", "dead"}
  BY <1>1, DeliveryAssumption DEF Start, AgentCrash, EndAttempt, TypeOK, serverVars, historyVars
<1>5. kick' \in BOOLEAN
  BY Zenon DEF Start, AgentCrash
<1>6. fails' \in 0..RebuildAfter /\ faults' \in 0..MaxFaults
  BY <1>1, DeliveryAssumption DEF Start, AgentCrash, TypeOK, historyVars, Fault
<1>7. late' \subseteq Nat
  BY Zenon, <1>1 DEF Start, AgentCrash, TypeOK, Abandon, serverVars
<1>8. pc' \in {"down", "drain"} /\ (pc' = "down" <=> ~open') /\ wire' = "idle"
  <2>1. CASE Start
    <3>1. ~open /\ open' /\ pc' = "drain" /\ wire' = wire
      BY Zenon, <2>1 DEF Start, Open, OpenAs
    <3> QED
      BY Zenon, <1>1, <3>1 DEF DeliveryInv, WireInv
  <2>2. CASE AgentCrash
    BY Zenon, <2>2 DEF AgentCrash, Crash, EndAttempt
  <2> QED
    BY Zenon, <2>1, <2>2
<1>9. TypeOK'
  BY Zenon, <1>1, <1>2, <1>4, <1>5, <1>6, <1>7, <1>8 DEF TypeOK, SpoolInv
<1>10. AttemptInv' /\ WireInv'
  BY Zenon, <1>8 DEF AttemptInv, WireInv
<1>11. \A b \in late' : b \in late \/ (b \in 1..added /\ First(b))
  BY Zenon, <1>1 DEF Start, AgentCrash, serverVars, Abandon, WireInv, AttemptInv
<1>12. GivenUp' = GivenUp
  BY Zenon, <1>4 DEF GivenUp
<1> QED
  BY <1>1, <1>2, <1>3, <1>4, <1>8, <1>9, <1>10, <1>11, <1>12, Assemble DEF ServerInv

(* Peek takes unreadable files from the front and stops at the oldest
   readable batch, which nothing held precedes. *)
LEMMA PeekStep ==
  ASSUME DeliveryInv, NEW k \in 0..Len(items),
         DrainPeeks(k) \/ DrainPeekFails(k) \/ (DrainEmpty /\ k = Len(items))
  PROVE  DeliveryInv'
<1>1. TypeOK /\ SpoolInv /\ WireInv /\ ServerInv /\ docFile \in Nat
  BY DeliveryAssumption DEF DeliveryInv, TypeOK
<1>2. (Peek(k) \/ PeekFails(k)) /\ pc = "drain"
  BY Zenon DEF DrainPeeks, DrainPeekFails, DrainEmpty
<1>3. open /\ UNCHANGED <<open, lastSeq, added>>
  BY Zenon, <1>2 DEF Peek, PeekFails
<1>4. /\ SpoolInv' /\ Moves /\ Held' = Held \ BatchesOf(k) /\ BatchesOf(k) \subseteq Held
      /\ DOMAIN disk' = DOMAIN disk \ {items[i] : i \in 1..k}
      /\ \A n \in DOMAIN disk' : disk'[n] = disk[n]
  BY Zenon, <1>1, <1>2, <1>3, PeekInv, DiscardHeld
<1>5. /\ discarded' = discarded \cup BatchesOf(k)
      /\ UNCHANGED <<runnerVars, serverVars, rejected, dropped>>
  BY Zenon DEF DrainPeeks, DrainPeekFails, DrainEmpty
<1>6. BatchesOf(k) \subseteq Nat
  BY Zenon, <1>1, <1>4, FileFacts
<1>7. GivenUp' = GivenUp \cup BatchesOf(k)
  BY Zenon, <1>5 DEF GivenUp
<1>8. /\ pc' \in {"link", "backoff", "wait"} /\ wire' = "idle"
      /\ pc' = "link" => DrainPeeks(k)
  <2>1. wire = "idle"
    BY Zenon, <1>1, <1>2 DEF WireInv
  <2> QED
    BY Zenon, <2>1 DEF DrainPeeks, DrainPeekFails, DrainEmpty, Fail, EndAttempt
<1>9. fails' \in 0..RebuildAfter /\ faults' \in 0..MaxFaults
  BY <1>1, DeliveryAssumption DEF DrainPeeks, DrainPeekFails, DrainEmpty, Fail, Fault, TypeOK
<1>10. session' \in {"none", "live", "dead"}
  BY Zenon, <1>1 DEF DrainPeeks, DrainPeekFails, DrainEmpty, Fail, TypeOK
<1>11. ASSUME DrainPeeks(k)
       PROVE  /\ entry' \in DOMAIN disk' /\ disk'[entry'].batch = sending'
              /\ entry' \in Nat /\ entry' <= lastSeq
              /\ sending' \in 1..added /\ sending' \in Held'
              /\ \A c \in Held' : sending' <= c
  <2>1. k < Len(items) /\ entry' = items[k + 1] /\ sending' = disk[items[k + 1]].batch
    BY Zenon, <1>11 DEF DrainPeeks
  <2>2. Len(items) \in Nat /\ k + 1 \in 1..Len(items)
    <3>1. Len(items) \in Nat
      BY Zenon, <1>1, LenProperties DEF SpoolInv, SpoolTypeOK
    <3> QED
      BY <2>1, <3>1
  <2>3. entry' \in DOMAIN disk
    BY Zenon, <1>1, <1>3, <2>1, <2>2, FrontIsFirst
  <2>4. entry' \notin {items[i] : i \in 1..k}
    <3>1. \A i \in 1..k : i \in 1..Len(items) /\ i < k + 1
      BY <2>2
    <3>2. \A i \in 1..k : items[i] < items[k + 1]
      BY Zenon, <1>1, <1>3, <2>2, <3>1 DEF SpoolInv, QueueMirrorsDirectory
    <3>3. items[k + 1] \in Nat
      BY Zenon, <1>1, <2>1, <2>3, FileFacts
    <3> QED
      BY <2>1, <3>2, <3>3
  <2>5. entry' \in DOMAIN disk' /\ disk'[entry'].batch = sending'
    BY Zenon, <1>4, <2>1, <2>3, <2>4
  <2>6. entry' \in Nat /\ entry' <= lastSeq
    BY Zenon, <1>1, <1>3, <2>3, FileFacts DEF SpoolInv
  <2>7. \A n \in DOMAIN disk' : disk[items[k + 1]].batch <= disk[n].batch
    BY Zenon, <1>1, <1>3, <1>4, <2>1, FrontIsFirst
  <2>8. \A c \in Held' : sending' <= c
    BY Zenon, <1>4, <2>1, <2>7 DEF Held
  <2>9. sending' \in 1..added
    <3>1. sending' \in Held
      BY Zenon, <2>1, <2>3 DEF Held
    <3>2. sending' # 0
      BY Zenon, <1>1, <2>1, <2>3 DEF SpoolInv, SpoolTypeOK, File
    <3> QED
      BY <1>1, <3>1, <3>2, FileFacts
  <2> QED
    BY Zenon, <2>5, <2>6, <2>8, <2>9 DEF Held
<1>12. entry' \in Nat /\ sending' \in Nat
  <2>1. CASE DrainPeeks(k)
    <3>1. added \in Nat
      BY Zenon, <1>1 DEF SpoolInv, SpoolTypeOK
    <3> QED
      BY <1>11, <2>1, <3>1
  <2>2. CASE DrainPeekFails(k)
    BY Zenon, <2>2 DEF DrainPeekFails, Fail, EndAttempt
  <2>3. CASE DrainEmpty
    BY Zenon, <1>1, <2>3 DEF DrainEmpty, TypeOK
  <2> QED
    BY Zenon, <2>1, <2>2, <2>3
<1>13. TypeOK'
  BY Zenon, <1>1, <1>4, <1>5, <1>6, <1>8, <1>9, <1>10, <1>12 DEF TypeOK, SpoolInv, runnerVars, serverVars
<1>14. AttemptInv' /\ WireInv'
  BY Zenon, <1>3, <1>8, <1>11 DEF AttemptInv, WireInv, First
<1>15. pc' = "down" <=> ~open'
  BY Zenon, <1>3, <1>8
<1>16. UNCHANGED <<carried, docFile, stored, late>>
  BY Zenon, <1>5 DEF runnerVars, serverVars
<1> QED
  BY Zenon, <1>3, <1>4, <1>7, <1>13, <1>14, <1>15, <1>16, AssembleMoved

(* A final answer: the batch leaves the spool stored or refused, unless it was
   dropped meanwhile. *)
LEMMA AnswerInv ==
  ASSUME DeliveryInv, Delivered \/ Refused
  PROVE  DeliveryInv'
<1>1. TypeOK /\ SpoolInv /\ WireInv /\ AttemptInv /\ ServerInv /\ docFile \in Nat
  BY DeliveryAssumption DEF DeliveryInv, TypeOK
<1>2. Remove(entry) /\ pc = "sending" /\ pc' = "drain" /\ EndAttempt
  BY Zenon DEF Delivered, Refused
<1>3. open /\ UNCHANGED <<open, lastSeq, added>>
  BY Zenon, <1>2 DEF Remove
<1>4. SpoolInv' /\ Moves /\ Held' = Held \ {disk[n].batch : n \in DOMAIN disk \cap {entry}}
  BY Zenon, <1>1, <1>2, RemoveInv, RemoveHeld
<1>5. Held \subseteq Held' \cup {sending}
  BY Zenon, <1>1, <1>2, <1>4 DEF AttemptInv
<1>6. UNCHANGED <<runnerVars, serverVars, session, dropped, discarded, faults>>
  BY Zenon DEF Delivered, Refused, historyVars
<1>7. fails' \in 0..RebuildAfter
  BY <1>1, DeliveryAssumption DEF Delivered, Refused, TypeOK
<1>8. /\ rejected' \subseteq Nat /\ rejected \subseteq rejected'
      /\ sending \in stored' \cup rejected'
  BY Zenon, <1>1, <1>6 DEF Delivered, Refused, TypeOK, WireInv, historyVars, serverVars
<1>9. TypeOK'
  BY Zenon, <1>1, <1>2, <1>4, <1>6, <1>7, <1>8
  DEF TypeOK, SpoolInv, EndAttempt, runnerVars, serverVars
<1>10. AttemptInv' /\ WireInv' /\ (pc' = "down" <=> ~open')
  BY Zenon, <1>2, <1>3 DEF AttemptInv, WireInv, EndAttempt
<1>11. GivenUp \subseteq GivenUp' /\ Held \subseteq Held' \cup stored' \cup GivenUp'
  BY Zenon, <1>5, <1>6, <1>8 DEF GivenUp
<1>12. UNCHANGED <<carried, docFile, stored, late>>
  BY Zenon, <1>6 DEF runnerVars, serverVars
<1> QED
  BY Zenon, <1>3, <1>4, <1>9, <1>10, <1>11, <1>12, AssembleMoved

(* The invariant holds initially, and every step keeps it. *)
LEMMA DeliveryInitInv == Init => DeliveryInv
<1> SUFFICES ASSUME Init PROVE DeliveryInv
  BY Zenon
<1>1. SpoolInit /\ SpoolInv
  BY Zenon, SpoolInitInv DEF Init
<1>2. carried \in Seq(0..MaxDoc) /\ Len(carried) = 0 /\ added = 0
  BY Zenon, <1>1, EmptySeq DEF Init, SpoolInit
<1>3. TypeOK
  <2>1. /\ docFile \in 0..MaxDoc /\ docSent \in 0..MaxDoc
        /\ pc = "down" /\ entry \in Nat /\ sending \in Nat
        /\ fails \in 0..RebuildAfter /\ session = "none" /\ wire = "idle"
    BY DeliveryAssumption DEF Init
  <2>2. /\ stored \subseteq Nat /\ late \subseteq Nat /\ doc \in 0..MaxDoc
        /\ rejected \subseteq Nat /\ dropped \subseteq Nat /\ discarded \subseteq Nat
        /\ faults \in 0..MaxFaults
    BY DeliveryAssumption DEF Init
  <2>3. kick \in BOOLEAN
    BY Zenon DEF Init
  <2> QED
    BY Zenon, <1>1, <1>2, <2>1, <2>2, <2>3 DEF TypeOK, SpoolInv
<1>4. AttemptInv /\ WireInv /\ ServerInv /\ (pc = "down" <=> ~open)
  BY Zenon, <1>1 DEF AttemptInv, WireInv, ServerInv, Init, SpoolInit
<1>5. CarriedInv /\ NoSilentLoss
  BY <1>2 DEF CarriedInv, NoSilentLoss
<1> QED
  BY Zenon, <1>1, <1>3, <1>4, <1>5 DEF DeliveryInv

LEMMA DeliveryNextInv == DeliveryInv /\ [Next]_vars => DeliveryInv'
<1> SUFFICES ASSUME DeliveryInv, [Next]_vars PROVE DeliveryInv'
  BY Zenon
<1>1. CASE Runner
  BY Zenon, <1>1, ProcessInv, TickInv, EnvironmentQuiet, RunnerMoves DEF Runner
<1>2. CASE Sender
  <2>1. CASE DrainEmpty
    <3>1. Len(items) \in 0..Len(items)
      BY Zenon, <2>1 DEF DrainEmpty, Peek
    <3> QED
      BY Zenon, <2>1, <3>1, PeekStep
  <2>2. ASSUME NEW k \in 0..Len(items), DrainPeeks(k) \/ DrainPeekFails(k)
        PROVE  DeliveryInv'
    BY Zenon, <2>2, PeekStep
  <2> QED
    BY Zenon, <1>2, <2>1, <2>2, SenderQuiet, AnswerInv DEF Sender
<1>3. CASE Server
  BY Zenon, <1>3, ServerStep
<1>4. CASE Environment
  BY Zenon, <1>4, EnvironmentQuiet, ProcessInv, RunnerMoves DEF Environment
<1>5. CASE UNCHANGED vars
  <2>1. UNCHANGED <<spoolVars, runnerVars, senderVars, serverVars, historyVars>>
    BY Zenon, <1>5 DEF vars
  <2>2. TypeOK' /\ WireInv'
    BY Zenon, <2>1, QuietTypes
    DEF DeliveryInv, TypeOK, WireInv, runnerVars, senderVars, serverVars, historyVars
  <2>3. /\ UNCHANGED <<docFile, carried, pc, entry, sending, stored, late, rejected, dropped, discarded>>
        /\ docFile \in Nat
    BY <2>1, DeliveryAssumption
    DEF runnerVars, senderVars, serverVars, historyVars, DeliveryInv, TypeOK, ServerInv
  <2> QED
    BY <2>1, <2>2, <2>3, Quiet
<1> QED
  BY Zenon, <1>1, <1>2, <1>3, <1>4, <1>5 DEF Next

(* The invariant in every reachable state. *)
LEMMA DeliveryInvariant == Spec => []DeliveryInv
BY DeliveryInitInv, DeliveryNextInv, PTL DEF Spec

(* A step of runner, sender, server or host is an operation of the spool, or
   none of its business. *)
LEMMA SpoolStep == DeliveryInv /\ [Next]_vars => [SpoolNext]_spoolVars
<1> SUFFICES ASSUME DeliveryInv, [Next]_vars PROVE [SpoolNext]_spoolVars
  BY Zenon
<1>1. CASE Runner
  BY Zenon, <1>1
  DEF Runner, Start, Tick, TickFails, TickDrops, TickKicks, TickDropFails, SpoolNext
<1>2. CASE Sender
  <2>1. CASE DrainEmpty
    <3>1. Len(items) \in 0..Len(items) /\ Peek(Len(items))
      BY Zenon, <2>1 DEF DrainEmpty, Peek
    <3> QED
      BY Zenon, <3>1 DEF SpoolNext
  <2>2. ASSUME NEW k \in 0..Len(items), DrainPeeks(k) \/ DrainPeekFails(k)
        PROVE  SpoolNext
    BY Zenon, <2>2 DEF DrainPeeks, DrainPeekFails, SpoolNext
  <2>3. CASE Delivered \/ Refused
    <3>1. Remove(entry)
      BY Zenon, <2>3 DEF Delivered, Refused
    <3>2. Elements(items) = DOMAIN disk
      BY Zenon, <3>1 DEF Remove, DeliveryInv, SpoolInv, QueueMirrorsDirectory
    <3>3. CASE entry \in DOMAIN disk
      BY Zenon, <3>1, <3>3 DEF SpoolNext
    <3>4. CASE entry \notin DOMAIN disk
      BY Zenon, <3>1, <3>2, <3>4 DEF Remove, spoolVars
    <3> QED
      BY Zenon, <3>3, <3>4
  <2>4. CASE BackoffElapsed \/ Kicked \/ Send \/ DialFails \/ RemoveFails \/ Refusal \/ SendFails
    BY Zenon, <2>4 DEF BackoffElapsed, Kicked, Send, DialFails, RemoveFails, Refusal, SendFails
  <2> QED
    BY Zenon, <1>2, <2>1, <2>2, <2>3, <2>4 DEF Sender
<1>3. CASE Server
  BY Zenon, <1>3 DEF Server, Ingest, Reject, Defer, IngestLate, LateEnds
<1>4. CASE Environment
  BY Zenon, <1>4 DEF Environment, DocChanges, SessionDies, AgentCrash, FileDamaged, SpoolNext
<1>5. CASE UNCHANGED vars
  BY Zenon, <1>5 DEF vars
<1> QED
  BY Zenon, <1>1, <1>2, <1>3, <1>4, <1>5 DEF Next

(* Delivery uses the spool as it is meant to be used: what runner and sender
   do to it together is a behaviour of the spool, so whatever is proved of the
   spool alone holds of the running agent. *)
THEOREM DeliveryUsesSpool == Spec => SpoolSpec
<1>1. Init => SpoolInit
  BY Zenon DEF Init
<1> QED
  BY <1>1, DeliveryInvariant, SpoolStep, PTL DEF Spec, SpoolSpec

(* The byte count that Add, the drop loop, Peek and Remove keep by increments is
   what the directory holds while runner and sender share the spool, so the
   bound is enforced on the real total. *)
THEOREM BytesStayExact == Spec => []BytesExact
BY DeliveryUsesSpool, SpoolBytes, PTL

(* Every variable keeps its type, for every value of the constants. *)
THEOREM WellTyped == Spec => []TypeOK
<1>1. DeliveryInv => TypeOK
  BY Zenon DEF DeliveryInv
<1> QED
  BY <1>1, DeliveryInvariant, PTL

(* No batch is lost in silence, whatever crashes, is lost or cannot be
   deleted (spool.go, sender.go Drain, store.go Store). *)
THEOREM NothingVanishes == Spec => []NoSilentLoss
<1>1. DeliveryInv => NoSilentLoss
  BY Zenon DEF DeliveryInv
<1> QED
  BY <1>1, DeliveryInvariant, PTL

-----------------------------------------------------------------------------
(* A step stores at most one batch, and then does nothing else to the spool;
   that batch is older than all that is held, or given up. *)
LEMMA StoresOne ==
  ASSUME DeliveryInv, [Next]_vars, stored' # stored
  PROVE  \E b \in 1..added :
           /\ b \notin stored /\ First(b) /\ Store(b)
           /\ b \in Held \cup GivenUp
           /\ UNCHANGED <<spoolVars, runnerVars, historyVars>>
<1>1. WireInv /\ AttemptInv /\ ServerInv /\ NoSilentLoss
  BY Zenon DEF DeliveryInv
<1>2. ASSUME NEW b \in 1..added, First(b), Store(b), UNCHANGED <<spoolVars, runnerVars, historyVars>>
      PROVE  /\ b \notin stored /\ First(b) /\ Store(b) /\ b \in Held \cup GivenUp
             /\ UNCHANGED <<spoolVars, runnerVars, historyVars>>
  BY Zenon, <1>1, <1>2 DEF Store, NoSilentLoss
<1>3. CASE Ingest
  <2>1. /\ sending \in 1..added /\ First(sending) /\ Store(sending)
        /\ UNCHANGED <<spoolVars, runnerVars, historyVars>>
    BY Zenon, <1>1, <1>3 DEF Ingest, WireInv, AttemptInv
  <2> QED
    BY Zenon, <1>2, <2>1
<1>4. ASSUME NEW b \in late, IngestLate(b)
      PROVE  /\ b \in 1..added /\ First(b) /\ Store(b)
             /\ UNCHANGED <<spoolVars, runnerVars, historyVars>>
  BY Zenon, <1>1, <1>4 DEF IngestLate, ServerInv
<1>5. CASE \E b \in late : IngestLate(b)
  BY Zenon, <1>2, <1>4, <1>5
<1>6. Ingest \/ \E b \in late : IngestLate(b)
  <2>1. ~Runner
    BY Zenon DEF Runner, Start, Tick, TickFails, TickDrops, TickKicks, TickDropFails, serverVars
  <2>2. ~Sender
    BY Zenon DEF Sender, BackoffElapsed, Kicked, DrainEmpty, DrainPeeks, DrainPeekFails, Send, DialFails,
           Delivered, Refused, RemoveFails, Refusal, SendFails, serverVars
  <2>3. ~Environment
    BY Zenon DEF Environment, DocChanges, SessionDies, AgentCrash, FileDamaged, serverVars
  <2>4. ~UNCHANGED vars
    BY Zenon DEF vars, serverVars
  <2> QED
    BY Zenon, <2>1, <2>2, <2>3, <2>4 DEF Next, Server, Reject, Defer, LateEnds, serverVars
<1> QED
  BY Zenon, <1>3, <1>5, <1>6

(* The server stores in the order of acceptance, but for batches given up. *)
THEOREM StoresInOrder == Spec => StoredInOrder
<1>1. ASSUME DeliveryInv, [Next]_vars
      PROVE  [\A b \in stored' \ stored : (\A c \in stored : c < b) \/ b \in GivenUp]_vars
  <2> SUFFICES ASSUME NEW b \in stored' \ stored, b \notin GivenUp, NEW c \in stored
               PROVE  c < b
    BY Zenon
  <2>1. b \in Held /\ b \in 1..added
    BY Zenon, <1>1, StoresOne DEF Store
  <2>2. c <= b /\ c \in 1..added
    BY Zenon, <1>1, <2>1 DEF DeliveryInv, ServerInv, First
  <2> QED
    BY <1>1, <2>1, <2>2, FileFacts DEF DeliveryInv
<1> QED
  BY <1>1, DeliveryInvariant, PTL DEF Spec, StoredInOrder

(* The server's document is the newest it was sent, as long as it stored no
   batch the agent had given up (store.go Store, document.go Collect). *)
THEOREM DocumentStaysCurrent == Spec => []DocumentCurrent
<1>1. Init => DocumentCurrent
  BY Zenon DEF Init, DocumentCurrent
<1>2. ASSUME DeliveryInv, DocumentCurrent, [Next]_vars
      PROVE  DocumentCurrent'
  <2> SUFFICES ASSUME stored' \cap GivenUp' = {}, NEW b \in stored'
               PROVE  carried'[b] <= doc'
    BY Zenon DEF DocumentCurrent
  <2>1. TypeOK /\ ServerInv /\ CarriedInv /\ SpoolInv
    BY Zenon, <1>2 DEF DeliveryInv
  <2>2. CASE stored' # stored
    <3>1. PICK s \in 1..added :
            /\ s \notin stored /\ First(s) /\ Store(s) /\ s \in Held \cup GivenUp
            /\ UNCHANGED <<spoolVars, runnerVars, historyVars>>
      BY Zenon, <1>2, <2>2, StoresOne
    <3>2. UNCHANGED <<carried, GivenUp>> /\ stored' = stored \cup {s} /\ s \in Held
      BY Zenon, <3>1 DEF runnerVars, historyVars, GivenUp, Store
    <3>3. /\ \A c \in stored : c \in 1..added /\ c < s
          /\ \A c \in 1..added : carried[c] \in Nat
          /\ doc \in Nat
      <4>1. \A c \in stored : c \in 1..added /\ c <= s
        BY Zenon, <2>1, <3>2 DEF ServerInv, First
      <4>2. \A c \in 1..added : carried[c] \in 0..MaxDoc
        BY Zenon, <2>1, ElementOfSeq DEF TypeOK, CarriedInv
      <4>3. \A c \in stored : c < s
        BY <2>1, <3>1, <4>1, FileFacts
      <4> QED
        BY <2>1, <4>1, <4>2, <4>3, DeliveryAssumption DEF TypeOK
    <3>4. \A c \in stored : carried[c] <= doc
      BY Zenon, <1>2, <3>2 DEF DocumentCurrent
    <3>5. doc' = IF carried[s] # 0 THEN carried[s] ELSE doc
      BY Zenon, <3>1 DEF Store
    <3>6. b = s \/ (b \in stored /\ b < s /\ b \in 1..added)
      BY Zenon, <3>2, <3>3
    <3> QED
      BY <2>1, <3>2, <3>3, <3>4, <3>5, <3>6 DEF CarriedInv
  <2>3. CASE stored' = stored
    <3>1. doc' = doc /\ GivenUp \subseteq GivenUp'
      <4>1. CASE Runner
        BY Zenon, <4>1 DEF Runner, Start, Tick, TickFails, TickDrops, TickKicks, TickDropFails, serverVars,
                    historyVars, GivenUp
      <4>2. CASE Sender
        BY Zenon, <4>2 DEF Sender, BackoffElapsed, Kicked, DrainEmpty, DrainPeeks, DrainPeekFails, Send,
                    DialFails, Delivered, Refused, RemoveFails, Refusal, SendFails, serverVars,
                    historyVars, GivenUp
      <4>3. CASE Server
        BY Zenon, <4>3, <2>3 DEF Server, Ingest, Reject, Defer, IngestLate, LateEnds, Store, serverVars,
                    historyVars, GivenUp
      <4>4. CASE Environment
        BY Zenon, <4>4 DEF Environment, DocChanges, SessionDies, AgentCrash, FileDamaged, serverVars,
                    historyVars, GivenUp
      <4>5. CASE UNCHANGED vars
        BY Zenon, <4>5 DEF vars, serverVars, historyVars, GivenUp
      <4> QED
        BY Zenon, <1>2, <4>1, <4>2, <4>3, <4>4, <4>5 DEF Next
    <3>2. carried[b] <= doc
      BY Zenon, <1>2, <2>3, <3>1 DEF DocumentCurrent
    <3>3. carried'[b] = carried[b]
      <4>1. b \in 1..Len(carried) /\ carried \in Seq(0..MaxDoc)
        BY Zenon, <2>1, <2>3 DEF ServerInv, CarriedInv, TypeOK
      <4>2. carried' = carried \/ carried' = Append(carried, Collected)
        BY Zenon, <1>2
        DEF Next, Runner, Start, Tick, TickFails, TickDrops, TickKicks, TickDropFails,
            Sender, BackoffElapsed, Kicked, DrainEmpty, DrainPeeks, DrainPeekFails, Send, DialFails,
            Delivered, Refused, RemoveFails, Refusal, SendFails, Server, Ingest, Reject, Defer,
            IngestLate, LateEnds, Environment, DocChanges, SessionDies, AgentCrash, FileDamaged,
            vars, runnerVars
      <4>3. Collected \in 0..MaxDoc
        BY <2>1, DeliveryAssumption DEF TypeOK, Collected
      <4> QED
        BY <4>1, <4>2, <4>3, AppendProperties
    <3> QED
      BY Zenon, <3>1, <3>2, <3>3
  <2> QED
    BY Zenon, <2>2, <2>3
<1> QED
  BY <1>1, <1>2, DeliveryInvariant, PTL DEF Spec

(* The sender is never left asleep on a filled spool (runner.go, the kick
   channel; sender.go Run), if deletions succeed. *)
THEOREM WakesUp == Spec => []NoLostWakeup
<1>1. Init => NoLostWakeup
  BY Zenon DEF Init, NoLostWakeup
<1>2. ASSUME DeliveryInv, NoLostWakeup, [Next]_vars
      PROVE  NoLostWakeup'
  <2> SUFFICES ASSUME "delete" \notin Faults, pc' = "wait", ~adding', items' # <<>>
               PROVE  kick'
    BY Zenon DEF NoLostWakeup
  <2>1. CASE Runner
    <3>1. CASE Start
      BY Zenon, <3>1 DEF Start
    <3>2. ASSUME NEW t \in Clock, NEW size \in Sizes, Tick(t, size) PROVE FALSE
      BY Zenon, <3>2 DEF Tick, AddWrite
    <3>3. CASE TickFails
      BY Zenon, <1>2, <3>3 DEF TickFails, NoLostWakeup, spoolVars, senderVars
    <3>4. CASE TickDrops
      BY Zenon, <3>4 DEF TickDrops, DropOldest
    <3>5. CASE TickKicks
      BY Zenon, <3>5 DEF TickKicks
    <3>6. CASE TickDropFails
      BY Zenon, <3>6 DEF TickDropFails, Fault
    <3> QED
      BY Zenon, <2>1, <3>1, <3>2, <3>3, <3>4, <3>5, <3>6 DEF Runner
  <2>2. CASE Sender
    <3>1. CASE DrainEmpty
      <4>1. items' = SubSeq(items, Len(items) + 1, Len(items)) /\ items \in Seq(Nat)
        BY Zenon, <1>2, <3>1 DEF DrainEmpty, Peek, DiscardOldest, DeliveryInv, SpoolInv, SpoolTypeOK
      <4>2. items' = <<>>
        BY <4>1, LenProperties
      <4> QED
        BY Zenon, <4>2
    <3>2. ~DrainEmpty => pc' # "wait"
      BY Zenon, <2>2 DEF Sender, BackoffElapsed, Kicked, DrainPeeks, DrainPeekFails, Send, DialFails,
                  Delivered, Refused, RemoveFails, Refusal, SendFails, Fail
    <3> QED
      BY Zenon, <3>1, <3>2
  <2>3. CASE Server
    BY Zenon, <1>2, <2>3
    DEF Server, Ingest, Reject, Defer, IngestLate, LateEnds, NoLostWakeup, spoolVars, runnerVars, senderVars
  <2>4. CASE Environment
    BY Zenon, <1>2, <2>4
    DEF Environment, DocChanges, SessionDies, AgentCrash, FileDamaged, Damage, NoLostWakeup,
        spoolVars, runnerVars, senderVars
  <2>5. CASE UNCHANGED vars
    BY Zenon, <1>2, <2>5 DEF vars, NoLostWakeup, spoolVars, runnerVars, senderVars
  <2> QED
    BY Zenon, <1>2, <2>1, <2>2, <2>3, <2>4, <2>5 DEF Next
<1> QED
  BY <1>1, <1>2, DeliveryInvariant, PTL DEF Spec

-----------------------------------------------------------------------------
(* Steps that move no batch are invisible to the courier. *)
LEMMA CourierStutters ==
  ASSUME UNCHANGED <<added, Held, stored, GivenUp>>
  PROVE  UNCHANGED Promise!courierVars
BY Zenon DEF Promise!courierVars

(* A set of batches leaves the spool. *)
LEMMA CourierSettles ==
  ASSUME NEW leaving, NEW giveUp, leaving \subseteq Held, giveUp \subseteq leaving,
         leaving \subseteq stored \cup giveUp,
         \A b \in leaving, c \in Held \ leaving : b < c,
         Held' = Held \ leaving, GivenUp' = GivenUp \cup giveUp, UNCHANGED <<added, stored>>
  PROVE  Promise!CourierNext
<1>1. Promise!Settle(leaving, giveUp)
  BY Zenon DEF Promise!Settle
<1> QED
  BY Zenon, <1>1 DEF Promise!CourierNext

(* What each kind of step is to the courier. *)
LEMMA CourierStep ==
  ASSUME DeliveryInv, [Next]_vars
  PROVE  [Promise!CourierNext]_(Promise!courierVars)
<1>1. TypeOK /\ SpoolInv /\ WireInv /\ AttemptInv /\ ServerInv /\ NoSilentLoss
  BY Zenon DEF DeliveryInv
<1>2. CASE stored' # stored
  <2>1. PICK b \in 1..added :
          /\ b \notin stored /\ First(b) /\ Store(b) /\ b \in Held \cup GivenUp
          /\ UNCHANGED <<spoolVars, runnerVars, historyVars>>
    BY Zenon, <1>2, StoresOne
  <2>2. UNCHANGED <<added, Held, GivenUp>> /\ stored' = stored \cup {b}
    BY Zenon, <2>1 DEF spoolVars, historyVars, Held, GivenUp, Store
  <2>3. Promise!Apply(b)
    BY Zenon, <2>1, <2>2 DEF Promise!Apply, First
  <2> QED
    BY Zenon, <2>1, <2>3 DEF Promise!CourierNext
<1>3. ASSUME UNCHANGED <<disk, added, stored, rejected, dropped, discarded>>
      PROVE  UNCHANGED Promise!courierVars
  BY Zenon, <1>3, CourierStutters DEF Held, GivenUp
<1>4. CASE stored' = stored /\ Runner
  <2>1. ASSUME NEW t \in Clock, NEW size \in Sizes, Tick(t, size)
        PROVE  Promise!CourierNext
    <3>1. Held' = Held \cup {added + 1} /\ added' = added + 1
      BY Zenon, <1>1, <2>1, AddHeld DEF Tick
    <3>2. UNCHANGED <<stored, GivenUp>>
      BY Zenon, <2>1 DEF Tick, serverVars, historyVars, GivenUp
    <3> QED
      BY Zenon, <3>1, <3>2 DEF Promise!CourierNext, Promise!Accept
  <2>2. CASE TickDrops
    <3>1. DropOldest /\ open /\ Len(items) > 1 /\ UNCHANGED <<lastSeq, added>>
      BY Zenon, <1>1, <2>2 DEF TickDrops, DropOldest, Overfull, SpoolInv
    <3>2. 1 \in 0..Len(items) /\ {items[i] : i \in 1..1} = {items[1]}
      BY <1>1, <3>1, LenProperties DEF SpoolInv, SpoolTypeOK
    <3>3. BatchesOf(1) = {disk[items[1]].batch}
      BY DEF BatchesOf
    <3>4. /\ Held' = Held \ BatchesOf(1) /\ BatchesOf(1) \subseteq Held
          /\ \A b \in BatchesOf(1), c \in Held' : b < c
      BY Zenon, <1>1, <3>1, <3>2, DropOldestInv, DiscardHeld
    <3>5. GivenUp' = GivenUp \cup BatchesOf(1) /\ stored' = stored
      BY Zenon, <2>2, <3>3 DEF TickDrops, GivenUp, serverVars
    <3> QED
      BY Zenon, <3>1, <3>4, <3>5, CourierSettles
  <2>3. CASE Start \/ TickFails \/ TickKicks \/ TickDropFails
    <3>1. UNCHANGED <<disk, added, stored, rejected, dropped, discarded>>
      BY Zenon, <2>3 DEF Start, Open, OpenAs, TickFails, TickKicks, AddDone, TickDropFails, DropFails,
                  spoolVars, serverVars, historyVars
    <3> QED
      BY Zenon, <1>3, <3>1
  <2> QED
    BY Zenon, <1>4, <2>1, <2>2, <2>3 DEF Runner
<1>5. CASE Sender
  <2>1. ASSUME NEW k \in 0..Len(items),
               DrainPeeks(k) \/ DrainPeekFails(k) \/ (DrainEmpty /\ k = Len(items))
        PROVE  Promise!CourierNext
    <3>1. Peek(k) \/ PeekFails(k)
      BY Zenon, <2>1 DEF DrainPeeks, DrainPeekFails, DrainEmpty
    <3>2. open /\ UNCHANGED <<lastSeq, added>>
      BY Zenon, <3>1 DEF Peek, PeekFails
    <3>3. /\ Held' = Held \ BatchesOf(k) /\ BatchesOf(k) \subseteq Held
          /\ \A b \in BatchesOf(k), c \in Held' : b < c
      BY Zenon, <1>1, <3>1, <3>2, PeekInv, DiscardHeld
    <3>4. GivenUp' = GivenUp \cup BatchesOf(k) /\ stored' = stored
      BY Zenon, <2>1 DEF DrainPeeks, DrainPeekFails, DrainEmpty, GivenUp, serverVars
    <3> QED
      BY Zenon, <3>2, <3>3, <3>4, CourierSettles
  <2>2. CASE DrainEmpty
    <3>1. Len(items) \in 0..Len(items)
      BY Zenon, <2>2 DEF DrainEmpty, Peek
    <3> QED
      BY Zenon, <2>1, <2>2, <3>1
  <2>3. CASE Delivered \/ Refused
    <3>1. /\ Remove(entry) /\ pc = "sending" /\ UNCHANGED <<added, stored, dropped, discarded>>
      BY Zenon, <2>3 DEF Delivered, Refused, Remove, serverVars, historyVars
    <3>2. /\ sending \in 1..added /\ First(sending)
          /\ entry \in DOMAIN disk => disk[entry].batch = sending
          /\ sending \in Held => entry \in DOMAIN disk
          /\ sending \in Held \cup GivenUp
      BY Zenon, <1>1, <3>1 DEF AttemptInv
    <3>3. Held' = Held \ {disk[n].batch : n \in DOMAIN disk \cap {entry}}
      BY Zenon, <1>1, <3>1, RemoveHeld
    <3>4. Held' = Held \ {sending}
      BY Zenon, <3>2, <3>3 DEF Held
    <3>5. \A c \in Held \ {sending} : sending < c
      BY <1>1, <3>2, FileFacts DEF First
    <3>6. CASE Delivered
      <4>1. sending \in stored /\ GivenUp' = GivenUp
        BY Zenon, <1>1, <3>6 DEF Delivered, WireInv, GivenUp, historyVars
      <4>2. CASE sending \in Held
        <5>1. Promise!Settle({sending}, {})
          BY Zenon, <3>1, <3>4, <3>5, <4>1, <4>2 DEF Promise!Settle
        <5>2. {sending} \in SUBSET Held /\ {} \in SUBSET {sending}
          BY Zenon, <4>2
        <5> QED
          BY Zenon, <5>1, <5>2 DEF Promise!CourierNext
      <4>3. CASE sending \notin Held
        BY Zenon, <3>1, <3>4, <4>1, <4>3, CourierStutters
      <4> QED
        BY Zenon, <4>2, <4>3
    <3>7. CASE Refused
      <4>1. GivenUp' = GivenUp \cup {sending}
        BY Zenon, <3>7 DEF Refused, GivenUp
      <4>2. CASE sending \in Held
        BY Zenon, <3>1, <3>4, <3>5, <4>1, <4>2, CourierSettles
      <4>3. CASE sending \notin Held
        BY Zenon, <3>1, <3>2, <3>4, <4>1, <4>3, CourierStutters
      <4> QED
        BY <4>2, <4>3
    <3> QED
      BY Zenon, <2>3, <3>6, <3>7
  <2>4. CASE BackoffElapsed \/ Kicked \/ Send \/ DialFails \/ RemoveFails \/ Refusal \/ SendFails
    <3>1. UNCHANGED <<disk, added, stored, rejected, dropped, discarded>>
      BY Zenon, <2>4 DEF BackoffElapsed, Kicked, Send, DialFails, RemoveFails, Refusal, SendFails,
                  spoolVars, serverVars, historyVars
    <3> QED
      BY <1>3, <3>1
  <2> QED
    BY Zenon, <1>5, <2>1, <2>2, <2>3, <2>4 DEF Sender
<1>6. CASE stored' = stored /\ (Server \/ Environment \/ UNCHANGED vars)
  <2>1. ASSUME NEW name \in DOMAIN disk, FileDamaged(name)
        PROVE  UNCHANGED Promise!courierVars
    <3>1. Held' = Held /\ UNCHANGED <<added, stored, GivenUp>>
      BY Zenon, <1>1, <2>1, DamageHeld DEF FileDamaged, Damage, serverVars, GivenUp
    <3> QED
      BY Zenon, <3>1, CourierStutters
  <2>2. CASE Server \/ DocChanges \/ SessionDies \/ AgentCrash \/ UNCHANGED vars
    <3>1. UNCHANGED <<disk, added, stored, rejected, dropped, discarded>>
      BY Zenon, <1>6, <2>2
      DEF Server, Ingest, Reject, Defer, IngestLate, LateEnds, DocChanges, SessionDies, AgentCrash,
          Crash, vars, spoolVars, serverVars, historyVars
    <3> QED
      BY <1>3, <3>1
  <2> QED
    BY Zenon, <1>6, <2>1, <2>2 DEF Environment
<1> QED
  BY Zenon, <1>2, <1>4, <1>5, <1>6 DEF Next

(* The agent, the network and the server together implement the courier. *)
THEOREM PromiseKept == Spec => KeepsPromise
<1>1. Init => Promise!CourierInit
  BY DEF Init, SpoolInit, Promise!CourierInit, Held, GivenUp
<1>2. DeliveryInv /\ [Next]_vars => [Promise!CourierNext]_(Promise!courierVars)
  BY Zenon, CourierStep
<1> QED
  BY <1>1, <1>2, DeliveryInvariant, PTL DEF Spec, KeepsPromise, Promise!CourierSpec

=============================================================================
