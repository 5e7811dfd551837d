------------------------------- MODULE Uptime -------------------------------
(***************************************************************************)
(* The uptime prober: HTTP handlers create and delete targets and nudge    *)
(* the scheduler through a one-slot channel; the scheduler reconciles one  *)
(* worker per stored target, and workers share a few probe slots.          *)
(***************************************************************************)
EXTENDS Integers, FiniteSets

CONSTANTS Targets,         \* target ids; a random id is never used twice
          MaxTargets,      \* targets stored at most
          Slots,           \* maxConcurrentChecks
          MaxHandlers,     \* bound: handlers between their commit and Sync
          MaxFailures      \* bound: failed lists and inserts

ASSUME UptimeAssumption ==
  /\ IsFiniteSet(Targets)
  /\ MaxTargets \in Nat /\ Slots \in Nat \ {0}
  /\ MaxHandlers \in Nat /\ MaxFailures \in Nat

VARIABLES stored,     \* ids in uptime_targets
          used,       \* ids ever given out
          results,    \* targets with rows in uptime_results
          owing,      \* handlers that changed the table and still have to call Sync
          token,      \* the sync channel holds a value
          sched,      \* where Run stands
          listed,     \* what List returned, while reconcile uses it
          workers,    \* keys of Run's map of cancel functions
          cancelled,  \* workers whose context was cancelled
          worker,     \* where each target's goroutine stands
          busy,       \* values in the slots channel
          stopping,   \* the server's context is done
          unlisted,   \* history: the last List failed
          failures    \* history: failures so far

tableVars == <<stored, used, results>>
schedVars == <<sched, listed, workers, cancelled, unlisted>>
workerVars == <<worker, busy>>
uptimeVars == <<tableVars, owing, token, schedVars, workerVars, stopping, failures>>

Live == {t \in Targets : worker[t] \notin {"none", "gone"}}
Cancelled(t) == t \in cancelled \/ stopping

TypeOK ==
  /\ stored \subseteq used /\ used \subseteq Targets
  /\ results \subseteq stored
  /\ owing \in 0..MaxHandlers
  /\ token \in BOOLEAN
  /\ sched \in {"listing", "applying", "select", "purging", "waiting", "stopped"}
  /\ listed \subseteq Targets /\ workers \subseteq Targets /\ cancelled \subseteq Targets
  /\ worker \in [Targets -> {"none", "sleeping", "queued", "probing", "storing", "gone"}]
  /\ busy \in 0..Slots /\ busy = Cardinality({t \in Targets : worker[t] = "probing"})
  /\ stopping \in BOOLEAN /\ unlisted \in BOOLEAN
  /\ failures \in 0..MaxFailures

(* Run starts by reconciling with what an earlier process stored. *)
UptimeInit ==
  /\ stored \in SUBSET Targets /\ Cardinality(stored) <= MaxTargets
  /\ used = stored
  /\ results \in SUBSET stored
  /\ owing = 0 /\ token = FALSE
  /\ sched = "listing" /\ listed = {} /\ workers = {} /\ cancelled = {}
  /\ worker = [t \in Targets |-> "none"] /\ busy = 0
  /\ stopping = FALSE /\ unlisted = FALSE /\ failures = 0

-----------------------------------------------------------------------------
(* The handlers: a transaction, then Sync. *)

Create(t) ==
  /\ t \notin used /\ owing < MaxHandlers
  /\ Cardinality(stored) < MaxTargets
  /\ stored' = stored \cup {t}
  /\ used' = used \cup {t}
  /\ owing' = owing + 1
  /\ UNCHANGED <<results, token, schedVars, workerVars, stopping, failures>>

(* The rows go with their target (ON DELETE CASCADE). *)
Delete(t) ==
  /\ t \in stored /\ owing < MaxHandlers
  /\ stored' = stored \ {t}
  /\ results' = results \ {t}
  /\ owing' = owing + 1
  /\ UNCHANGED <<used, token, schedVars, workerVars, stopping, failures>>

(* Sync never blocks: a second nudge is absorbed by the first. *)
Sync ==
  /\ owing > 0
  /\ owing' = owing - 1
  /\ token' = TRUE
  /\ UNCHANGED <<tableVars, schedVars, workerVars, stopping, failures>>

-----------------------------------------------------------------------------
(* Run. *)

TakeSync ==
  /\ sched = "select" /\ token
  /\ token' = FALSE
  /\ sched' = "listing"
  /\ UNCHANGED <<tableVars, owing, listed, workers, cancelled, unlisted, workerVars, stopping, failures>>

Resync ==
  /\ sched = "select"
  /\ sched' = "listing"
  /\ UNCHANGED <<tableVars, owing, token, listed, workers, cancelled, unlisted, workerVars, stopping, failures>>

List ==
  /\ sched = "listing" /\ ~stopping
  /\ listed' = stored
  /\ unlisted' = FALSE
  /\ sched' = "applying"
  /\ UNCHANGED <<tableVars, owing, token, workers, cancelled, workerVars, stopping, failures>>

(* List fails: this reconcile does nothing. *)
ListFails ==
  /\ sched = "listing"
  /\ stopping \/ failures < MaxFailures
  /\ failures' = IF stopping THEN failures ELSE failures + 1
  /\ unlisted' = TRUE
  /\ sched' = "select"
  /\ UNCHANGED <<tableVars, owing, token, listed, workers, cancelled, workerVars, stopping>>

(* Mutant: a deleted target leaves the map without being cancelled. *)
ReconcileForgets ==
  /\ sched = "applying"
  /\ worker' = [t \in Targets |-> IF t \in listed \ workers THEN "sleeping" ELSE worker[t]]
  /\ workers' = listed
  /\ listed' = {}
  /\ sched' = "select"
  /\ UNCHANGED <<tableVars, owing, token, cancelled, unlisted, busy, stopping, failures>>

(* Mutant: the nudges that came meanwhile are drained at the end. *)
ReconcileDrains ==
  /\ sched = "applying"
  /\ worker' = [t \in Targets |-> IF t \in listed \ workers THEN "sleeping" ELSE worker[t]]
  /\ cancelled' = cancelled \cup (workers \ listed)
  /\ workers' = listed
  /\ listed' = {}
  /\ sched' = "select"
  /\ token' = FALSE
  /\ UNCHANGED <<tableVars, owing, unlisted, busy, stopping, failures>>

(* reconcile's two loops: start what is missing, cancel what is gone. *)
Reconcile ==
  /\ sched = "applying"
  /\ worker' = [t \in Targets |-> IF t \in listed \ workers THEN "sleeping" ELSE worker[t]]
  /\ cancelled' = cancelled \cup (workers \ listed)
  /\ workers' = listed
  /\ listed' = {}
  /\ sched' = "select"
  /\ UNCHANGED <<tableVars, owing, token, unlisted, busy, stopping, failures>>

(* purge: rows older than a cutoff fixed at its start, a batch at a time;  *)
(* it ends when none is left, on an error or at shutdown.  With no         *)
(* retention set it is no step at all, not even the one Run starts with.   *)
PurgeBegins ==
  /\ sched = "select"
  /\ sched' = "purging"
  /\ UNCHANGED <<tableVars, owing, token, listed, workers, cancelled, unlisted, workerVars, stopping, failures>>

PurgeDeletes(t) ==
  /\ sched = "purging" /\ ~stopping
  /\ t \in results
  /\ results' = results \ {t}
  /\ UNCHANGED <<stored, used, owing, token, schedVars, workerVars, stopping, failures>>

PurgeEnds ==
  /\ sched = "purging"
  /\ sched' = "select"
  /\ UNCHANGED <<tableVars, owing, token, listed, workers, cancelled, unlisted, workerVars, stopping, failures>>

(* The server's context ends; Run notices, cancels everyone and waits. *)
Shutdown ==
  /\ ~stopping
  /\ stopping' = TRUE
  /\ UNCHANGED <<tableVars, owing, token, schedVars, workerVars, failures>>

StopWorkers ==
  /\ sched = "select" /\ stopping
  /\ cancelled' = cancelled \cup workers
  /\ sched' = "waiting"
  /\ UNCHANGED <<tableVars, owing, token, listed, workers, unlisted, workerVars, stopping, failures>>

RunReturns ==
  /\ sched = "waiting" /\ Live = {}
  /\ sched' = "stopped"
  /\ UNCHANGED <<tableVars, owing, token, listed, workers, cancelled, unlisted, workerVars, stopping, failures>>

-----------------------------------------------------------------------------
(* A target's worker. *)

(* sleep: with the timer and the cancellation both due, either may win. *)
Wakes(t) ==
  /\ worker[t] = "sleeping"
  /\ worker' = [worker EXCEPT ![t] = "queued"]
  /\ UNCHANGED <<tableVars, owing, token, schedVars, busy, stopping, failures>>

Quits(t) ==
  /\ worker[t] \in {"sleeping", "queued"} /\ Cancelled(t)
  /\ worker' = [worker EXCEPT ![t] = "gone"]
  /\ UNCHANGED <<tableVars, owing, token, schedVars, busy, stopping, failures>>

(* Mutant: the slot is not given back by a worker that was cancelled. *)
AfterProbeKept(t) == IF Cancelled(t) THEN busy ELSE busy - 1

TakesSlot(t) == worker[t] = "queued" /\ busy < Slots

Probes(t) ==
  /\ TakesSlot(t)
  /\ worker' = [worker EXCEPT ![t] = "probing"]
  /\ busy' = busy + 1
  /\ UNCHANGED <<tableVars, owing, token, schedVars, stopping, failures>>

(* The slot is given back whether or not the result is still wanted. *)
AfterProbe(t) == busy - 1

(* Mutant: the context is not looked at after the probe. *)
ProbeEndsUnchecked(t) ==
  /\ worker[t] = "probing"
  /\ busy' = AfterProbe(t)
  /\ worker' = [worker EXCEPT ![t] = "storing"]
  /\ UNCHANGED <<tableVars, owing, token, schedVars, stopping, failures>>

(* A worker cancelled meanwhile ends here: its result is moot. *)
ProbeEnds(t) ==
  /\ worker[t] = "probing"
  /\ busy' = AfterProbe(t)
  /\ worker' = [worker EXCEPT ![t] = IF Cancelled(t) THEN "gone" ELSE "storing"]
  /\ UNCHANGED <<tableVars, owing, token, schedVars, stopping, failures>>

AcceptsResult(t) == t \in stored /\ ~Cancelled(t)

(* InsertResult: refused when the target is gone or the context done. *)
StoresResult(t) ==
  /\ worker[t] = "storing"
  /\ results' = IF AcceptsResult(t) THEN results \cup {t} ELSE results
  /\ worker' = [worker EXCEPT ![t] = "sleeping"]
  /\ UNCHANGED <<stored, used, owing, token, schedVars, busy, stopping, failures>>

StoreFails(t) ==
  /\ worker[t] = "storing"
  /\ failures < MaxFailures
  /\ failures' = failures + 1
  /\ worker' = [worker EXCEPT ![t] = "sleeping"]
  /\ UNCHANGED <<tableVars, owing, token, schedVars, busy, stopping>>

UptimeNext ==
  \/ \E t \in Targets : Create(t) \/ Delete(t)
  \/ Sync \/ TakeSync \/ Resync \/ List \/ ListFails \/ Reconcile
  \/ PurgeBegins \/ (\E t \in Targets : PurgeDeletes(t)) \/ PurgeEnds
  \/ Shutdown \/ StopWorkers \/ RunReturns
  \/ \E t \in Targets : Wakes(t) \/ Quits(t) \/ Probes(t) \/ ProbeEnds(t) \/ StoresResult(t) \/ StoreFails(t)

UptimeSpec == UptimeInit /\ [][UptimeNext]_uptimeVars

(* Goroutines and handlers make progress. Go's select picks at random      *)
(* among ready cases, so one that is ready again and again is taken; and   *)
(* goroutines blocked on a channel are served first come, first served.    *)
Fairness ==
  /\ WF_uptimeVars(Sync)
  /\ WF_uptimeVars(List \/ (stopping /\ ListFails) \/ Reconcile \/ PurgeEnds \/ RunReturns)
  /\ SF_uptimeVars(TakeSync \/ Resync) /\ SF_uptimeVars(StopWorkers)
  /\ \A t \in Targets :
       /\ WF_uptimeVars(Wakes(t) \/ ProbeEnds(t) \/ StoresResult(t))
       /\ WF_uptimeVars(Quits(t)) /\ SF_uptimeVars(Probes(t))

-----------------------------------------------------------------------------
(* Properties. *)

(* Sync's one-slot channel and Run's order of taking the nudge before      *)
(* listing: whenever Run is back in its select with no nudge pending and   *)
(* no handler about to nudge, the workers are exactly the stored targets,  *)
(* unless the last List failed. With it, every variable has its type and   *)
(* the slots taken are the probes under way.                               *)
NoLostSync ==
  /\ TypeOK
  /\ sched = "select" /\ ~token /\ owing = 0 /\ ~unlisted /\ ~stopping => workers = stored

(* Delete: the target's worker ends for good, even if the nudge was        *)
(* absorbed, a List failed, a reconcile with an older List started it      *)
(* after all, or it was waiting for a slot.                                *)
DeletedEventuallyQuits ==
  \A t \in Targets : t \in used \ stored ~> [](worker[t] \in {"none", "gone"})

(* Create: every stored target is probed again and again, although there   *)
(* may be more targets than slots.                                         *)
ProbedForever ==
  \A t \in Targets : []<>(worker[t] = "probing" \/ t \notin stored \/ stopping)

(* Shutdown: Run returns and no worker is left behind, wherever the        *)
(* scheduler and the workers were when the context ended.                  *)
StopsCleanly == stopping ~> [](sched = "stopped" /\ Live = {})

=============================================================================
