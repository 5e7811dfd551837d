------------------------------- MODULE Spool -------------------------------
(***************************************************************************)
(* The agent's durable, bounded FIFO of unsent batches                     *)
(* (internal/agent/spool/spool.go): a directory of one file per batch, and *)
(* the in-memory queue of file names that one process keeps over it.       *)
(*                                                                         *)
(* A file name is its sequence number: names are zero-padded to 20 digits, *)
(* which holds every uint64, so lexical order is numeric order.  A batch   *)
(* is identified by the order in which it was accepted (1, 2, 3, ...),     *)
(* standing for its random Idempotency-Key; its contents do not matter     *)
(* here.  The wall clock is read once per Add and may return anything.     *)
(*                                                                         *)
(* The mutex is held from the write of the new file to the end of the      *)
(* drop-oldest loop; "adding" is that critical section, which only a crash *)
(* can cut short.  Leftover temporary files are invisible: Open deletes    *)
(* them and nothing else reads them.                                       *)
(***************************************************************************)
EXTENDS Integers, Sequences, FiniteSets

CONSTANTS MaxBatches,   \* most batches the queue keeps (5000)
          MaxBytes,     \* most bytes the queue keeps (64 MiB)
          Sizes,        \* the sizes a spooled file can have
          Clock         \* the values time.Now().UnixNano() can return

ASSUME SpoolAssumption ==
  /\ MaxBatches \in Nat \ {0}
  /\ MaxBytes \in Nat \ {0}
  /\ Sizes \subseteq Nat \ {0}
  /\ Clock \subseteq Nat

VARIABLES disk,      \* the directory: file name -> its contents
          open,      \* a process holds the spool open
          items,     \* Spool.items: the queued file names, oldest first
          bytes,     \* Spool.bytes
          lastSeq,   \* Spool.lastSeq
          adding,    \* Add holds the mutex, its file written
          added      \* how many batches Add has ever written (history)

spoolVars == <<disk, open, items, bytes, lastSeq, adding, added>>

(* What a spool file holds; ~ok is a file that no longer decodes. *)
File == [batch : Nat \ {0}, size : Sizes, ok : BOOLEAN]

Elements(s) == {s[i] : i \in 1..Len(s)}
Without(f, S) == [x \in DOMAIN f \ S |-> f[x]]

(* writeAtomic: the file appears complete or not at all. *)
Written(f, x, v) == [y \in DOMAIN f \cup {x} |-> IF y = x THEN v ELSE f[y]]

(* The batches that exist on disk, whoever has the directory open. *)
Held == {disk[n].batch : n \in DOMAIN disk}

(* The bytes of these files, each given by its file and its place in it. *)
BytesOf(names) == UNION {{n} \X (1..disk[n].size) : n \in names}

SizeOf(names) == Cardinality(BytesOf(names))

-----------------------------------------------------------------------------
(* While no process runs, memory holds the zero Spool. *)
SpoolInit ==
  /\ open = FALSE
  /\ items = <<>>
  /\ bytes = 0
  /\ lastSeq = 0
  /\ adding = FALSE
  /\ disk = <<>>
  /\ added = 0

(* The directory listing in name order. *)
Listing(s) ==
  /\ s \in [1..Cardinality(DOMAIN disk) -> DOMAIN disk]
  /\ \A i, j \in DOMAIN s : i < j => s[i] < s[j]
  /\ Elements(s) = DOMAIN disk

OpenAs(s) ==
  /\ ~open
  /\ open' = TRUE
  /\ items' = s
  /\ bytes' = SizeOf(DOMAIN disk)
  /\ lastSeq' = IF s = <<>> THEN 0 ELSE s[Len(s)]
  /\ UNCHANGED <<disk, adding, added>>

(* Open loads every file, whether or not it still decodes. *)
Open ==
  \E s \in [1..Cardinality(DOMAIN disk) -> DOMAIN disk] : Listing(s) /\ OpenAs(s)

(* The sequence number of a new file: the clock, unless it has not advanced. *)
NextSeq(t) == IF t <= lastSeq THEN lastSeq + 1 ELSE t

(* Add up to the drop loop; a failed write changes nothing and is no step. *)
AddWrite(t, size) ==
  /\ open /\ ~adding
  /\ LET seq == NextSeq(t) IN
       /\ disk' = Written(disk, seq, [batch |-> added + 1, size |-> size, ok |-> TRUE])
       /\ lastSeq' = seq
       /\ items' = Append(items, seq)
  /\ bytes' = bytes + size
  /\ adding' = TRUE
  /\ added' = added + 1
  /\ UNCHANGED open

Overfull == Len(items) > 1 /\ (Len(items) > MaxBatches \/ bytes > MaxBytes)

(* Mutant: the bytes of the discarded files are still counted. *)
DiscardOldestUncounted(k) ==
  /\ disk' = Without(disk, {items[i] : i \in 1..k})
  /\ items' = SubSeq(items, k + 1, Len(items))
  /\ UNCHANGED bytes

(* Forget the k oldest items and delete their files. *)
DiscardOldest(k) ==
  LET gone == {items[i] : i \in 1..k} IN
  /\ disk' = Without(disk, gone)
  /\ items' = SubSeq(items, k + 1, Len(items))
  /\ bytes' = bytes - SizeOf(gone)

(* One iteration of Add's drop-oldest loop. *)
DropOldest ==
  /\ adding /\ Overfull
  /\ DiscardOldest(1)
  /\ UNCHANGED <<open, lastSeq, adding, added>>

(* The loop ends: nothing more to drop. *)
AddDone ==
  /\ adding /\ ~Overfull
  /\ adding' = FALSE
  /\ UNCHANGED <<disk, open, items, bytes, lastSeq, added>>

(* The loop ends early: the oldest file cannot be deleted, Add returns an
   error and the queue, the new batch included, stays over its bounds. *)
DropFails ==
  /\ adding /\ Overfull
  /\ adding' = FALSE
  /\ UNCHANGED <<disk, open, items, bytes, lastSeq, added>>

(* Peek discards the unreadable files in front of the first readable one. *)
Peek(k) ==
  /\ open /\ ~adding
  /\ k \in 0..Len(items)
  /\ \A i \in 1..k : ~disk[items[i]].ok
  /\ k < Len(items) => disk[items[k + 1]].ok
  /\ DiscardOldest(k)
  /\ UNCHANGED <<open, lastSeq, adding, added>>

(* Peek when the unreadable file behind the first k cannot be deleted. *)
PeekFails(k) ==
  /\ open /\ ~adding
  /\ k \in 0..Len(items) - 1
  /\ \A i \in 1..k + 1 : ~disk[items[i]].ok
  /\ DiscardOldest(k)
  /\ UNCHANGED <<open, lastSeq, adding, added>>

(* Mutant: the front of the queue is removed, whatever was read from it. *)
RemoveFront(name) ==
  /\ open /\ ~adding
  /\ DiscardOldest(IF items = <<>> THEN 0 ELSE 1)
  /\ UNCHANGED <<open, lastSeq, adding, added>>

(* Remove the entry called name, wherever it stands by now; an entry that
   has been dropped meanwhile is no error. *)
Remove(name) ==
  /\ open /\ ~adding
  /\ IF name \in Elements(items)
       THEN LET i == CHOOSE i \in 1..Len(items) : items[i] = name IN
            /\ disk' = Without(disk, {name})
            /\ items' = SubSeq(items, 1, i - 1) \o SubSeq(items, i + 1, Len(items))
            /\ bytes' = bytes - disk[name].size
       ELSE UNCHANGED <<disk, items, bytes>>
  /\ UNCHANGED <<open, lastSeq, adding, added>>

(* External: a file is damaged on disk (a torn block, an operator's edit). *)
Damage(name) ==
  /\ name \in DOMAIN disk
  /\ disk' = [disk EXCEPT ![name].ok = FALSE]
  /\ UNCHANGED <<open, items, bytes, lastSeq, adding, added>>

(* The process ends, cleanly or not: the directory is what remains. *)
Crash ==
  /\ open
  /\ open' = FALSE
  /\ items' = <<>>
  /\ bytes' = 0
  /\ lastSeq' = 0
  /\ adding' = FALSE
  /\ UNCHANGED <<disk, added>>

SpoolNext ==
  \/ Open
  \/ \E t \in Clock, size \in Sizes : AddWrite(t, size)
  \/ DropOldest
  \/ AddDone
  \/ DropFails
  \/ \E k \in 0..Len(items) : Peek(k) \/ PeekFails(k)
  \/ \E name \in DOMAIN disk : Remove(name) \/ Damage(name)
  \/ Crash

SpoolSpec == SpoolInit /\ [][SpoolNext]_spoolVars

-----------------------------------------------------------------------------
(* Every variable has its type; the directory is finite, as directories are. *)
SpoolTypeOK ==
  /\ IsFiniteSet(DOMAIN disk)
  /\ DOMAIN disk \subseteq Nat
  /\ disk \in [DOMAIN disk -> File]
  /\ open \in BOOLEAN
  /\ items \in Seq(Nat)
  /\ lastSeq \in Nat
  /\ adding \in BOOLEAN
  /\ added \in Nat

(* The in-memory queue of an open spool is exactly the directory in name
   order, without repeats, through adds, drops, discards, removals from the
   middle and restarts; so no file is orphaned and no name dangles. *)
QueueMirrorsDirectory ==
  open => /\ Elements(items) = DOMAIN disk
          /\ \A i, j \in 1..Len(items) : i < j => items[i] < items[j]

(* Spool.bytes, kept by increments, is the total size of the queued files, so
   the byte bound is enforced on the real total. *)
BytesExact == open => bytes = SizeOf(DOMAIN disk)

(* File names order batches as they were accepted, although the clock may
   stand still or step back and a restart forgets lastSeq: oldest-first
   sending is oldest-accepted-first. *)
SendOrder ==
  \A m, n \in DOMAIN disk : m < n <=> disk[m].batch < disk[n].batch

(* The drop loop never reaches the batch being added, even one that exceeds
   MaxBytes by itself. *)
NewestSurvives == adding => added \in Held

(* The inductive invariant: names never exceed lastSeq and batch numbers never
   exceed added, so a new file sorts last both ways; a pending Add ends with
   the newest batch in the queue. *)
SpoolInv ==
  /\ SpoolTypeOK
  /\ QueueMirrorsDirectory
  /\ SendOrder
  /\ open => \A n \in DOMAIN disk : n <= lastSeq
  /\ \A n \in DOMAIN disk : disk[n].batch <= added
  /\ adding => /\ open
               /\ Len(items) > 0
               /\ disk[items[Len(items)]].batch = added

=============================================================================
