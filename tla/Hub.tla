-------------------------------- MODULE Hub --------------------------------
(***************************************************************************)
(* The live stream: the records a batch newly stored are committed, then   *)
(* published to the hub, which hands them to every matching subscriber     *)
(* through a bounded channel and drops a subscriber whose channel is full; *)
(* one stream handler per subscriber writes what it receives to its        *)
(* client.  Uptime results take the same way.                              *)
(***************************************************************************)
EXTENDS Integers, Sequences, FiniteSets, Functions

CONSTANTS Subscribers,      \* stream requests
          Batches,          \* batches sent, one idempotency key each
          Records,          \* the records of each batch; batches may overlap
          Results,          \* uptime results, each stored before it is published
          Wanted,           \* the records that pass each subscriber's filter
          SubscriberBuffer  \* capacity of a subscriber's channel

Message == Results \cup UNION {Range(Records[b]) : b \in Batches}

ASSUME HubAssumption ==
  /\ SubscriberBuffer \in Nat \ {0}
  /\ Records \in [Batches -> Seq(Message)] /\ DOMAIN Wanted = Subscribers
  /\ \A b \in Batches : IsInjective(Records[b]) /\ Range(Records[b]) \cap Results = {}

VARIABLES claimed,    \* batches whose key is claimed
          rows,       \* records stored
          accepted,   \* what each handler that committed still has to publish
          registered, \* the hub's subs
          shut,       \* the hub's closed
          open,       \* subscribers whose channel has been made and not closed
          buf,        \* what each channel holds
          dropped,    \* subscriptions marked dropped
          reader,     \* where each stream handler stands
          hand,       \* the message each handler is writing
          goodbye,    \* the close reason each client was sent
          delivered,  \* history: records each client got
          due         \* history: records published to each subscription

storeVars == <<claimed, rows, accepted>>
hubVars == <<registered, shut, open, buf, dropped>>
readerVars == <<reader, hand, delivered, goodbye>>
vars == <<storeVars, hubVars, readerVars, due>>

TypeOK ==
  /\ claimed \subseteq Batches /\ rows \subseteq Message
  /\ \A b \in Batches : accepted[b] \in Seq(rows)
  /\ registered \subseteq Subscribers /\ open \subseteq Subscribers /\ dropped \subseteq Subscribers
  /\ shut \in {"no", "closed", "exited"}
  /\ \A s \in Subscribers :
       /\ buf[s] \in Seq(rows) /\ Len(buf[s]) <= SubscriberBuffer
       /\ hand[s] \in Seq(rows) /\ Len(hand[s]) <= 1
  /\ reader \in [Subscribers -> {"none", "select", "writing", "leaving", "gone"}]
  /\ goodbye \in [Subscribers -> {"none", "too slow", "shutting down"}]

Init ==
  /\ claimed = {} /\ rows = {}
  /\ accepted = [b \in Batches |-> <<>>]
  /\ registered = {} /\ shut = "no" /\ open = {} /\ dropped = {}
  /\ buf = [s \in Subscribers |-> <<>>]
  /\ reader = [s \in Subscribers |-> "none"]
  /\ hand = [s \in Subscribers |-> <<>>]
  /\ goodbye = [s \in Subscribers |-> "none"]
  /\ delivered = [s \in Subscribers |-> <<>>]
  /\ due = [s \in Subscribers |-> <<>>]

-----------------------------------------------------------------------------
(* The members of I, a finite set of numbers, in increasing order. *)
InOrder(I) ==
  CHOOSE f \in [1..Cardinality(I) -> I] : \A j, k \in DOMAIN f : j < k => f[j] < f[k]

(* The elements of q that are in A, in their order. *)
Selected(q, A) ==
  LET nth == InOrder({i \in DOMAIN q : q[i] \in A}) IN [k \in DOMAIN nth |-> q[nth[k]]]

(* Mutant: the whole batch is published, records stored before included. *)
AcceptedAll(b) == Records[b]

(* The records of b that are new, in the batch's order. *)
Accepted(b) == Selected(Records[b], Range(Records[b]) \ rows)

(* Ingest up to the commit of Store's transaction; a replay does nothing. *)
Ingest(b) ==
  /\ b \notin claimed
  /\ claimed' = claimed \cup {b}
  /\ accepted' = [accepted EXCEPT ![b] = Accepted(b)]
  /\ rows' = rows \cup Range(Records[b])
  /\ UNCHANGED <<hubVars, readerVars, due>>

(* The messages that pass s's host and type filter. *)
Matching(s, msgs) == Selected(msgs, Wanted[s])

Room(s) == SubscriberBuffer - Len(buf[s])

(* Mutant: what does not fit is skipped and the subscriber kept. *)
OverflowingNever(msgs) == {}

Overflowing(msgs) == {s \in registered : Len(Matching(s, msgs)) > Room(s)}

(* What s's channel takes of msgs. *)
Taken(s, msgs) ==
  LET m == Matching(s, msgs) IN SubSeq(m, 1, IF Len(m) <= Room(s) THEN Len(m) ELSE Room(s))

(* Mutant: a dropped subscriber stays in the map. *)
KeptAll(msgs) == registered

Kept(msgs) == registered \ Overflowing(msgs)

(* Hub.Publish, under its mutex: each subscriber gets what fits; one whose
   channel is full is dropped. *)
Deliver(msgs) ==
  /\ buf' = [s \in Subscribers |-> IF s \in registered THEN buf[s] \o Taken(s, msgs) ELSE buf[s]]
  /\ dropped' = dropped \cup Overflowing(msgs)
  /\ open' = open \ Overflowing(msgs)
  /\ registered' = Kept(msgs)
  /\ due' = [s \in Subscribers |-> IF s \in registered THEN due[s] \o Matching(s, msgs) ELSE due[s]]

(* Ingest after the commit; handlers of different batches race to it. *)
Publish(b) ==
  /\ accepted[b] # <<>>
  /\ accepted' = [accepted EXCEPT ![b] = <<>>]
  /\ Deliver(accepted[b])
  /\ UNCHANGED <<claimed, rows, shut, readerVars>>

(* The uptime worker stored result r and passes it on. *)
PublishResult(r) ==
  /\ r \notin rows
  /\ rows' = rows \cup {r}
  /\ Deliver(<<r>>)
  /\ UNCHANGED <<claimed, accepted, shut, readerVars>>

(* Close: every subscriber is disconnected and new ones are refused. *)
Close ==
  /\ shut = "no"
  /\ shut' = "closed"
  /\ open' = open \ registered
  /\ registered' = {}
  /\ UNCHANGED <<storeVars, buf, dropped, readerVars, due>>

(* runServer returns, without waiting for the stream handlers after Close,
   or without Close when serving fails. *)
Exit ==
  /\ shut' = "exited"
  /\ reader' = [s \in Subscribers |-> "gone"]
  /\ UNCHANGED <<storeVars, registered, open, buf, dropped, hand, delivered, goodbye, due>>

-----------------------------------------------------------------------------
(* The stream handler. *)

(* After Close the subscription comes with a closed channel. *)
Subscribe(s) ==
  /\ reader[s] = "none"
  /\ reader' = [reader EXCEPT ![s] = "select"]
  /\ registered' = IF shut = "no" THEN registered \cup {s} ELSE registered
  /\ open' = IF shut = "no" THEN open \cup {s} ELSE open
  /\ UNCHANGED <<storeVars, shut, buf, dropped, hand, delivered, goodbye, due>>

Receive(s) ==
  /\ reader[s] = "select" /\ buf[s] # <<>>
  /\ hand' = [hand EXCEPT ![s] = <<Head(buf[s])>>]
  /\ buf' = [buf EXCEPT ![s] = Tail(@)]
  /\ reader' = [reader EXCEPT ![s] = "writing"]
  /\ UNCHANGED <<storeVars, registered, shut, open, dropped, delivered, goodbye, due>>

(* writeFrame succeeds. *)
Write(s) ==
  /\ reader[s] = "writing"
  /\ delivered' = [delivered EXCEPT ![s] = @ \o hand[s]]
  /\ hand' = [hand EXCEPT ![s] = <<>>]
  /\ reader' = [reader EXCEPT ![s] = "select"]
  /\ UNCHANGED <<storeVars, hubVars, goodbye, due>>

(* The client went away, or a write or a ping failed or timed out. *)
Leave(s) ==
  /\ reader[s] \in {"select", "writing"}
  /\ hand' = [hand EXCEPT ![s] = <<>>]
  /\ reader' = [reader EXCEPT ![s] = "leaving"]
  /\ UNCHANGED <<storeVars, hubVars, delivered, goodbye, due>>

(* Mutant: the reason is taken from the hub, not the subscription. *)
ReasonFromHub(s) == IF shut = "no" THEN "too slow" ELSE "shutting down"

Reason(s) == IF s \in dropped THEN "too slow" ELSE "shutting down"

(* Mutant: a closed channel is read as an empty message, over and over. *)
SayGoodbyeNever(s) ==
  /\ reader[s] = "select" /\ s \notin open /\ buf[s] = <<>>
  /\ UNCHANGED vars

(* The channel is closed and drained: the client is told why. *)
SayGoodbye(s) ==
  /\ reader[s] = "select" /\ s \notin open /\ buf[s] = <<>>
  /\ goodbye' = [goodbye EXCEPT ![s] = Reason(s)]
  /\ reader' = [reader EXCEPT ![s] = "leaving"]
  /\ UNCHANGED <<storeVars, hubVars, hand, delivered, due>>

(* The deferred Unsubscribe: a no-op for one the hub already removed. *)
Unsubscribe(s) ==
  /\ reader[s] = "leaving"
  /\ registered' = registered \ {s}
  /\ open' = IF s \in registered THEN open \ {s} ELSE open
  /\ reader' = [reader EXCEPT ![s] = "gone"]
  /\ UNCHANGED <<storeVars, shut, buf, dropped, hand, delivered, goodbye, due>>

Next ==
  /\ shut # "exited"
  /\ \/ \E b \in Batches : Ingest(b) \/ Publish(b)
     \/ \E r \in Results : PublishResult(r)
     \/ Close \/ Exit
     \/ \E s \in Subscribers : Subscribe(s) \/ Receive(s) \/ Write(s) \/ Leave(s) \/ SayGoodbye(s) \/ Unsubscribe(s)

Spec == Init /\ [][Next]_vars

(* While the process runs a handler gets its turns, and a write ends within
   its timeout, one way or the other. *)
Fairness ==
  \A s \in Subscribers :
    /\ WF_vars(Receive(s))
    /\ WF_vars(reader[s] = "writing" /\ (Write(s) \/ Leave(s)))
    /\ WF_vars(SayGoodbye(s)) /\ WF_vars(Unsubscribe(s))

-----------------------------------------------------------------------------
(* Properties. *)

(* Publish, Close and Unsubscribe all close channels: a channel is open
   exactly while its subscriber is registered, so none is closed twice and
   nothing is sent to a closed one, either of which would end the server.
   With it, every variable has its type and no channel is over its capacity. *)
OpenIffRegistered == TypeOK /\ open = registered

(* Publish drops rather than skips: what a client got, and what is on its
   way to it, is the beginning of what was published to it, with no gap; and
   all of it while the subscription lives. *)
NoGaps ==
  \A s \in Subscribers :
    LET got == delivered[s] \o hand[s] \o buf[s] IN
    reader[s] \in {"select", "writing"} =>
      /\ \E n \in 0..Len(due[s]) : got = SubSeq(due[s], 1, n)
      /\ s \in registered => got = due[s]

(* stream's close reason: a client told it was too slow did miss records,
   and one told that the server shuts down got everything sent before. *)
GoodbyeIsTrue ==
  \A s \in Subscribers :
    /\ goodbye[s] = "too slow" => Len(delivered[s]) < Len(due[s])
    /\ goodbye[s] = "shutting down" => shut # "no" /\ delivered[s] = due[s]

(* Ingest publishes what it newly stored, "never duplicates or replays":
   however batches overlap and their handlers race from the commit to the
   hub, no client is sent a record twice. *)
EachRecordOnce == \A s \in Subscribers : IsInjective(due[s])

(* A handler whose channel was closed under it ends, freeing its client. *)
EventuallyReleased ==
  \A s \in Subscribers : reader[s] # "none" /\ s \notin open ~> reader[s] = "gone"

=============================================================================
