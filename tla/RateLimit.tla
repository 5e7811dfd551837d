----------------------------- MODULE RateLimit ------------------------------
(***************************************************************************)
(* The token bucket per key that guards enrollment, ingest and the         *)
(* analytics beacon.  Allow reads the clock before it takes the lock, so   *)
(* calls may take effect in another order than the times they carry.       *)
(* Tokens are counted in ticks of the clock: Every ticks make one token.   *)
(***************************************************************************)
EXTENDS Integers, FiniteSets

CONSTANTS
  Keys, Calls,          \* limiter keys; calls under way at once
  Every, Burst,
  MaxKeys, IdleAfter, KeyFraction,
  MaxClock, MaxAdmitted \* bounds: the clock, and events one entry admits

ASSUME RateLimitAssumption ==
  /\ Every \in Nat \ {0} /\ Burst \in Nat \ {0} /\ IdleAfter \in Nat
  /\ KeyFraction \in Nat \ {0} /\ MaxKeys \in Nat /\ MaxKeys >= KeyFraction

VARIABLES
  clock,
  entries,  \* the table: [key, level, last, seen] and the entry's history:
            \* when it was made, events admitted, and how late those were
  call      \* each call: the key and the time it read

bucketVars == <<clock, entries, call>>

NoCall == [at |-> 0 - 1]
Full == Burst * Every

BucketInit ==
  /\ clock = 0 /\ entries = {}
  /\ call = [c \in Calls |-> NoCall]

Entry(k) == {e \in entries : e.key = k}

Begin(c, k) ==
  /\ call[c] = NoCall
  /\ \A e \in Entry(k) : e.admitted + Cardinality(Calls) <= MaxAdmitted
  /\ call' = [call EXCEPT ![c] = [key |-> k, at |-> clock]]
  /\ UNCHANGED <<clock, entries>>

Dropped(kept, gone) ==
  /\ Cardinality(gone) = Cardinality(kept) \div KeyFraction
  /\ \A a \in gone, b \in kept \ gone : a.seen <= b.seen

\* makeRoom: idle entries, else the least recently seen.
BucketRoom(at) ==
  LET kept == {e \in entries : at - e.seen <= IdleAfter} IN
  IF Cardinality(kept) < MaxKeys THEN {kept}
  ELSE {kept \ gone : gone \in {g \in SUBSET kept : Dropped(kept, g)}}

\* A new key's bucket is full.
New(k, at) ==
  [key |-> k, level |-> Full, last |-> at, seen |-> at, born |-> at, admitted |-> 0, late |-> 0]

\* rate.Limiter.AllowN: a time before the last adds nothing, and becomes the last.
Refill(e, at) ==
  LET level == e.level + (IF at < e.last THEN 0 ELSE at - e.last) IN
  IF level > Full THEN Full ELSE level

SpendKeepsLast(e, at) ==
  [e EXCEPT !.level = Refill(e, at) - Every, !.admitted = @ + 1, !.late = @ + (clock - at)]

Spend(e, at) ==
  [e EXCEPT !.level = Refill(e, at) - Every, !.last = at, !.admitted = @ + 1, !.late = @ + (clock - at)]

Taken(e, at) ==
  LET seen == [e EXCEPT !.seen = at] IN
  IF Refill(e, at) < Every THEN seen ELSE Spend(seen, at)

\* The part of Allow under the lock.
Allow(c) ==
  LET k == call[c].key at == call[c].at IN
  /\ call[c] # NoCall
  /\ IF Entry(k) # {}
       THEN entries' = (entries \ Entry(k)) \cup {Taken(e, at) : e \in Entry(k)}
       ELSE \E table \in IF Cardinality(entries) >= MaxKeys THEN BucketRoom(at) ELSE {entries} :
              entries' = table \cup {Taken(New(k, at), at)}
  /\ call' = [call EXCEPT ![c] = NoCall]
  /\ UNCHANGED clock

ClockTick ==
  /\ clock < MaxClock /\ clock' = clock + 1
  /\ UNCHANGED <<entries, call>>

BucketNext ==
  \/ \E c \in Calls : Allow(c) \/ \E k \in Keys : Begin(c, k)
  \/ ClockTick

BucketSpec == BucketInit /\ [][BucketNext]_bucketVars

-----------------------------------------------------------------------------
(* The table has one entry a key and never outgrows its capacity, and a bucket
   holds between none and Burst tokens. *)
BucketsOK ==
  /\ Cardinality(entries) <= MaxKeys
  /\ \A e \in entries : e.level \in 0..Full /\ Entry(e.key) = {e}
  /\ \A c \in Calls : call[c] # NoCall => call[c].at \in 0..clock

(* Over the life of an entry the events it admits are at most Burst and one for
   every Every ticks, however calls overlap, but for the lateness of calls whose
   clock was read before they got the lock: time is given back at most once. *)
RateHolds ==
  \A e \in entries : e.admitted * Every <= Full + (clock - e.born) + e.late

=============================================================================
