------------------------------ MODULE Delivery ------------------------------
(***************************************************************************)
(* How a batch gets from a host to the server: the runner's tick collects  *)
(* it and spools it (internal/agent/runner.go), the sender drains the spool*)
(* over one tunnel session (internal/agent/sender.go), the server stores it*)
(* once (internal/telemetry: http/ingest.go, infrastructure/store.go).     *)
(*                                                                         *)
(* The runner and the sender are goroutines of one process that share the  *)
(* spool and a channel of capacity one, "kick".  A request or its answer   *)
(* may be lost, and a request the sender has given up on may still be      *)
(* executing on the server: those are in "late".  A batch can be abandoned *)
(* several times, so executing one late request may leave another behind.  *)
(*                                                                         *)
(* Of a batch's contents only the document it carries is kept (0 = none):  *)
(* a document is reported when it changed, and replaces the server's.      *)
(***************************************************************************)
EXTENDS Spool

CONSTANTS RebuildAfter,   \* rebuildAfterFails: failures in a row that close the session
          Invalid,        \* batches the server never accepts: malformed or too large
          Ahead,          \* batches stamped ahead of the server's clock: accepted or
                          \* refused, as the two clocks stand when a request is read
          MaxAdded,       \* bound: batches written in a behaviour
          MaxDoc,         \* bound: versions of the document file
          MaxFaults,      \* bound: faults in a behaviour
          Faults          \* the kinds of fault that happen

FaultKinds == {"crash", "damage", "write", "delete", "session"}

ASSUME DeliveryAssumption ==
  /\ RebuildAfter \in Nat \ {0}
  /\ Invalid \subseteq Nat /\ Ahead \subseteq Nat
  /\ MaxAdded \in Nat
  /\ MaxDoc \in Nat
  /\ MaxFaults \in Nat
  /\ Faults \subseteq FaultKinds

VARIABLES
  \* the runner
  kick,      \* the kick channel holds a token
  docFile,   \* the version of the document file on the host
  docSent,   \* FileDocument.last: the version last handed to a batch
  carried,   \* the document each batch ever written carries (history)
  \* the sender
  pc,        \* where Run and Drain stand
  entry,     \* the file name Peek returned
  sending,   \* the batch that file holds
  fails,     \* Sender.fails, counted up to RebuildAfter
  session,   \* Sender.up: none, working, or dead
  wire,      \* the outstanding request, or the answer to it
  \* the server
  stored,    \* ingestion_batches: the keys claimed
  doc,       \* documents: the version kept for this host
  late,      \* requests the sender gave up on that may still execute
  \* history
  rejected,  \* batches removed on a 400 or 413
  dropped,   \* batches dropped by the bounds of the spool
  discarded, \* batches whose file no longer decoded
  faults     \* how many faults have happened

runnerVars == <<kick, docFile, docSent, carried>>
senderVars == <<pc, entry, sending, fails, session, wire>>
serverVars == <<stored, doc, late>>
historyVars == <<rejected, dropped, discarded, faults>>
vars == <<spoolVars, runnerVars, senderVars, serverVars, historyVars>>

Init ==
  /\ SpoolInit
  /\ kick = FALSE /\ docFile = 0 /\ docSent = 0 /\ carried = <<>>
  /\ pc = "down" /\ entry = 0 /\ sending = 0
  /\ fails = 0 /\ session = "none" /\ wire = "idle"
  /\ stored = {} /\ doc = 0 /\ late = {}
  /\ rejected = {} /\ dropped = {} /\ discarded = {} /\ faults = 0

Fault(kind) ==
  /\ kind \in Faults
  /\ faults < MaxFaults
  /\ faults' = faults + 1

-----------------------------------------------------------------------------
(* The runner *)

(* Run opens the spool, starts the sender and kicks it if batches are left;
   the sender may have sent them all by the time Run looks. *)
Start ==
  /\ Open
  /\ pc' = "drain"
  /\ kick' \in BOOLEAN
  /\ kick' => disk # <<>>
  /\ UNCHANGED <<docFile, docSent, carried, entry, sending, fails, session, wire>>
  /\ UNCHANGED <<serverVars, historyVars>>

(* The collectors' share of a tick: the document, if it changed. *)
Collected == IF docFile # docSent THEN docFile ELSE 0

(* tick up to the drop loop of Spool.Add. *)
Tick(t, size) ==
  /\ added < MaxAdded
  /\ AddWrite(t, size)
  /\ carried' = Append(carried, Collected)
  /\ docSent' = docFile
  /\ UNCHANGED <<kick, docFile, senderVars, serverVars, historyVars>>

(* tick when the batch cannot be encoded or written: it is logged and gone,
   but the document collector has already noted the version as reported. *)
TickFails ==
  /\ open /\ ~adding
  /\ Fault("write")
  /\ docSent' = docFile
  /\ UNCHANGED <<spoolVars, kick, docFile, carried, senderVars, serverVars,
                 rejected, dropped, discarded>>

TickDrops ==
  /\ DropOldest
  /\ dropped' = dropped \cup {disk[items[1]].batch}
  /\ UNCHANGED <<runnerVars, senderVars, serverVars, rejected, discarded, faults>>

(* The end of a tick: Add returned, so the sender is kicked. *)
TickKicks ==
  /\ AddDone
  /\ kick' = TRUE
  /\ UNCHANGED <<docFile, docSent, carried, senderVars, serverVars, historyVars>>

(* Add returned an error from its drop loop: no kick, though the new batch
   is in the spool. *)
TickDropFails ==
  /\ DropFails
  /\ Fault("delete")
  /\ UNCHANGED <<runnerVars, senderVars, serverVars, rejected, dropped, discarded>>

-----------------------------------------------------------------------------
(* The sender *)

(* The variables of one iteration of Drain go out of scope. *)
EndAttempt ==
  /\ entry' = 0 /\ sending' = 0
  /\ wire' = "idle"

(* Mutant: a session is used for ever. *)
FailKeepsSession ==
  /\ fails' = IF fails < RebuildAfter THEN fails + 1 ELSE fails
  /\ session' = session
  /\ pc' = "backoff"
  /\ EndAttempt

(* Sender.fail, and the backoff in Run that follows it. *)
Fail ==
  LET n == IF fails < RebuildAfter THEN fails + 1 ELSE fails IN
  /\ fails' = n
  /\ session' = IF n >= RebuildAfter THEN "none" ELSE session
  /\ pc' = "backoff"
  /\ EndAttempt

BackoffElapsed ==
  /\ pc = "backoff"
  /\ pc' = "drain"
  /\ UNCHANGED <<spoolVars, runnerVars, entry, sending, fails, session, wire,
                 serverVars, historyVars>>

(* Run waits for a kick between drains. *)
Kicked ==
  /\ pc = "wait" /\ kick
  /\ kick' = FALSE
  /\ pc' = "drain"
  /\ UNCHANGED <<spoolVars, docFile, docSent, carried, entry, sending, fails, session,
                 wire, serverVars, historyVars>>

BatchesOf(k) == {disk[items[i]].batch : i \in 1..k}

(* Drain's Peek returns the oldest readable batch. *)
DrainPeeks(k) ==
  /\ pc = "drain"
  /\ k < Len(items)
  /\ Peek(k)
  /\ pc' = "link"
  /\ entry' = items[k + 1]
  /\ sending' = disk[items[k + 1]].batch
  /\ discarded' = discarded \cup BatchesOf(k)
  /\ UNCHANGED <<runnerVars, fails, session, wire, serverVars, rejected, dropped, faults>>

(* Drain's Peek finds nothing: Drain returns nil and Run waits for a kick. *)
DrainEmpty ==
  /\ pc = "drain"
  /\ Peek(Len(items))
  /\ pc' = "wait"
  /\ fails' = 0
  /\ discarded' = discarded \cup BatchesOf(Len(items))
  /\ UNCHANGED <<runnerVars, entry, sending, session, wire, serverVars, rejected,
                 dropped, faults>>

DrainPeekFails(k) ==
  /\ pc = "drain"
  /\ PeekFails(k)
  /\ Fail
  /\ Fault("delete")
  /\ discarded' = discarded \cup BatchesOf(k)
  /\ UNCHANGED <<runnerVars, serverVars, rejected, dropped>>

(* Link reuses the session or dials one; Session.Send puts the request out. *)
Send ==
  /\ pc = "link"
  /\ pc' = "sending"
  /\ session' = IF session = "none" THEN "live" ELSE session
  /\ wire' = "request"
  /\ UNCHANGED <<spoolVars, runnerVars, entry, sending, fails, serverVars, historyVars>>

DialFails ==
  /\ pc = "link" /\ session = "none"
  /\ Fail
  /\ UNCHANGED <<spoolVars, runnerVars, serverVars, historyVars>>

(* Mutant: any answer counts as delivered. *)
DeliveredOnAnyAnswer ==
  /\ pc = "sending" /\ wire \in {"ok", "retry"}
  /\ Remove(entry)
  /\ fails' = 0
  /\ pc' = "drain"
  /\ EndAttempt
  /\ UNCHANGED <<runnerVars, session, serverVars, historyVars>>

(* 200: the batch leaves the spool and the failure streak ends. *)
Delivered ==
  /\ pc = "sending" /\ wire = "ok"
  /\ Remove(entry)
  /\ fails' = 0
  /\ pc' = "drain"
  /\ EndAttempt
  /\ UNCHANGED <<runnerVars, session, serverVars, historyVars>>

(* 400 or 413: the batch leaves the spool, the failure streak stands. *)
Refused ==
  /\ pc = "sending" /\ wire = "reject"
  /\ Remove(entry)
  /\ rejected' = rejected \cup {sending}
  /\ pc' = "drain"
  /\ EndAttempt
  /\ UNCHANGED <<runnerVars, fails, session, serverVars, dropped,
                 discarded, faults>>

(* The answer was final but Spool.Remove could not delete the file. *)
RemoveFails ==
  /\ pc = "sending" /\ wire \in {"ok", "reject"}
  /\ ~adding /\ entry \in Elements(items)
  /\ Fail
  /\ Fault("delete")
  /\ UNCHANGED <<spoolVars, runnerVars, serverVars, rejected,
                 dropped, discarded>>

(* Any other status: the batch stays. *)
Refusal ==
  /\ pc = "sending" /\ wire = "retry"
  /\ Fail
  /\ UNCHANGED <<spoolVars, runnerVars, serverVars, historyVars>>

(* The outstanding request, if it got through, goes on without its sender. *)
Abandon ==
  \/ late' = late
  \/ wire = "request" /\ session = "live" /\ late' = late \cup {sending}

(* A timeout or a broken connection, before or after the server acted. *)
SendFails ==
  /\ pc = "sending"
  /\ Fail
  /\ Abandon
  /\ UNCHANGED <<spoolVars, runnerVars, stored, doc, historyVars>>

-----------------------------------------------------------------------------
(* The server *)

(* Mutant: the idempotency key is not looked at. *)
StoreAgain(b) ==
  /\ stored' = stored \cup {b}
  /\ doc' = IF carried[b] # 0 THEN carried[b] ELSE doc

(* Store's transaction for batch b: nothing if its key is already claimed. *)
Store(b) ==
  IF b \in stored
    THEN UNCHANGED <<stored, doc>>
    ELSE /\ stored' = stored \cup {b}
         /\ doc' = IF carried[b] # 0 THEN carried[b] ELSE doc

(* The ingest handler accepts or replays the batch and answers 200. *)
Ingest ==
  /\ wire = "request" /\ session = "live"
  /\ sending \notin Invalid
  /\ Store(sending)
  /\ wire' = "ok"
  /\ UNCHANGED <<spoolVars, runnerVars, pc, entry, sending, fails, session, late, historyVars>>

(* The batch is too large or does not validate at this time: 413 or 400. *)
Reject ==
  /\ wire = "request" /\ session = "live"
  /\ sending \in Invalid \cup Ahead
  /\ wire' = "reject"
  /\ UNCHANGED <<spoolVars, runnerVars, pc, entry, sending, fails, session, serverVars, historyVars>>

(* Unknown peer, rate limit, unknown host or a failed transaction. *)
Defer ==
  /\ wire = "request" /\ session = "live"
  /\ wire' = "retry"
  /\ UNCHANGED <<spoolVars, runnerVars, pc, entry, sending, fails, session, serverVars, historyVars>>

(* A late request executes with nobody left to answer. *)
IngestLate(b) ==
  /\ b \in late \ Invalid
  /\ Store(b)
  /\ late' \in {late, late \ {b}}
  /\ UNCHANGED <<spoolVars, runnerVars, senderVars, historyVars>>

(* A late request ends without effect: its context was cancelled, it was
   refused, or the server restarted. *)
LateEnds(b) ==
  /\ b \in late
  /\ late' = late \ {b}
  /\ UNCHANGED <<spoolVars, runnerVars, senderVars, stored, doc, historyVars>>

-----------------------------------------------------------------------------
(* The environment *)

(* The producer rewrites the document file. *)
DocChanges ==
  /\ docFile < MaxDoc
  /\ docFile' = docFile + 1
  /\ UNCHANGED <<spoolVars, kick, docSent, carried, senderVars, serverVars, historyVars>>

(* The tunnel session stops carrying traffic; the agent is not told. *)
SessionDies ==
  /\ session = "live"
  /\ Fault("session")
  /\ session' = "dead"
  /\ Abandon
  /\ UNCHANGED <<spoolVars, runnerVars, pc, entry, sending, fails, wire, stored, doc,
                 rejected, dropped, discarded>>

FileDamaged(name) ==
  /\ Damage(name)
  /\ Fault("damage")
  /\ UNCHANGED <<runnerVars, senderVars, serverVars, rejected, dropped, discarded>>

(* The agent stops or crashes anywhere; a request may outlive it. *)
AgentCrash ==
  /\ Crash
  /\ Fault("crash")
  /\ kick' = FALSE /\ docSent' = 0
  /\ pc' = "down" /\ fails' = 0 /\ session' = "none"
  /\ EndAttempt
  /\ Abandon
  /\ UNCHANGED <<docFile, carried, stored, doc, rejected, dropped, discarded>>

Runner ==
  \/ Start
  \/ \E t \in Clock, size \in Sizes : Tick(t, size)
  \/ TickFails \/ TickDrops \/ TickKicks \/ TickDropFails

Sender ==
  \/ BackoffElapsed \/ Kicked \/ DrainEmpty
  \/ \E k \in 0..Len(items) : DrainPeeks(k) \/ DrainPeekFails(k)
  \/ Send \/ DialFails
  \/ Delivered \/ Refused \/ RemoveFails \/ Refusal \/ SendFails

Server ==
  \/ Ingest \/ Reject \/ Defer
  \/ \E b \in late : IngestLate(b) \/ LateEnds(b)

Environment ==
  \/ DocChanges \/ SessionDies \/ AgentCrash
  \/ \E name \in DOMAIN disk : FileDamaged(name)

Next == Runner \/ Sender \/ Server \/ Environment

Spec == Init /\ [][Next]_vars

(* The process is restarted, goroutines and timers run, requests time out; a
   dial that is tried again and again succeeds some time, and so do the
   server's final answer and its way back. *)
Fairness ==
  /\ WF_vars(Start) /\ WF_vars(TickDrops) /\ WF_vars(TickKicks)
  /\ WF_vars(BackoffElapsed) /\ WF_vars(Kicked) /\ WF_vars(SendFails)
  /\ SF_vars(DrainEmpty) /\ SF_vars(\E k \in 0..Len(items) : DrainPeeks(k))
  /\ SF_vars(Send)
  /\ SF_vars(Ingest \/ Reject)
  /\ SF_vars(Delivered \/ Refused)

-----------------------------------------------------------------------------
TypeOK ==
  /\ SpoolTypeOK
  /\ kick \in BOOLEAN
  /\ docFile \in 0..MaxDoc /\ docSent \in 0..MaxDoc
  /\ carried \in Seq(0..MaxDoc)
  /\ pc \in {"down", "drain", "link", "sending", "backoff", "wait"}
  /\ entry \in Nat /\ sending \in Nat
  /\ fails \in 0..RebuildAfter
  /\ session \in {"none", "live", "dead"}
  /\ wire \in {"idle", "request", "ok", "reject", "retry"}
  /\ stored \subseteq Nat /\ late \subseteq Nat
  /\ doc \in 0..MaxDoc
  /\ rejected \subseteq Nat /\ dropped \subseteq Nat /\ discarded \subseteq Nat
  /\ faults \in 0..MaxFaults

(* The batches the agent gave up for a stated reason. *)
GivenUp == rejected \cup dropped \cup discarded

(* No batch vanishes: whatever was once spooled is still on disk, or stored by
   the server, or was refused for good, pushed out by the bounds or discarded
   as unreadable.  Crashes, lost answers, undeletable files and an entry that
   is dropped while its request is under way are all included. *)
NoSilentLoss ==
  \A b \in 1..added : b \in Held \cup stored \cup GivenUp

(* The server stores batches in the order the agent accepted them; only a
   batch the agent has meanwhile given up can be stored behind a later one. *)
StoredInOrder ==
  [][\A b \in stored' \ stored : (\A c \in stored : c < b) \/ b \in GivenUp]_vars

(* As long as no batch the agent gave up was stored all the same, the server
   holds the newest document it was ever sent. *)
DocumentCurrent ==
  stored \cap GivenUp = {} => \A b \in stored : carried[b] <= doc

(* The comment in store.go: the spool delivers oldest first, so a later batch
   always carries the newer document - the server's document is never older
   than one it has stored. *)
DocumentNeverOlder == \A b \in stored : carried[b] <= doc

(* The sender never sleeps on a non-empty spool without a kick pending, unless
   Add failed to delete a file and skipped its kick. *)
NoLostWakeup ==
  "delete" \in Faults \/ (pc = "wait" /\ ~adding /\ items # <<>> => kick)

(* No held batch is older than b: the place b has, or had, is the front. *)
First(b) == \A c \in Held : b <= c

(* The inductive invariant behind the above.  Whatever the sender is at, and
   whatever the server has stored or may still store, was at the front of the
   spool when it was read and nothing older is left; the file the sender read
   cannot be replaced by another of the same name, and is gone only if its
   batch was given up meanwhile. *)
AttemptInv ==
  pc \in {"link", "sending"} =>
    /\ sending \in 1..added /\ First(sending)
    /\ entry <= lastSeq
    /\ entry \in DOMAIN disk => disk[entry].batch = sending
    /\ sending \in Held => entry \in DOMAIN disk
    /\ sending \in Held \cup GivenUp

WireInv ==
  /\ wire # "idle" => pc = "sending"
  /\ wire = "ok" => sending \in stored

ServerInv == \A b \in stored \cup late : b \in 1..added /\ First(b)

(* Documents are carried in the order of their versions. *)
CarriedInv ==
  /\ Len(carried) = added
  /\ \A b \in 1..added : carried[b] <= docFile
  /\ \A b, c \in 1..added : b < c /\ carried[c] # 0 => carried[b] <= carried[c]

DeliveryInv ==
  /\ TypeOK
  /\ SpoolInv
  /\ pc = "down" <=> ~open
  /\ AttemptInv
  /\ WireInv
  /\ ServerInv
  /\ CarriedInv
  /\ NoSilentLoss

(* Every spooled batch leaves the spool some time, whatever was lost on the
   way: the sender is always woken, retries, and replaces a dead session. *)
EventuallySettled == \A b \in 1..MaxAdded : b \in Held ~> b \notin Held

(* Delivery keeps the courier's promise: what is on disk is what is held. *)
Promise == INSTANCE Courier WITH
  accepted <- added, held <- Held, applied <- stored, lost <- GivenUp

(* Every step of the agent and the server is a step of the courier or none:
   batches leave the spool oldest first and only stored or given up, and are
   stored oldest first and once. *)
KeepsPromise == Promise!CourierSpec

=============================================================================
