---------------------------- MODULE Maintenance ----------------------------
(***************************************************************************)
(* Rollups and retention of raw metrics: the jobs of internal/telemetry/   *)
(* application/maintenance.go over the tables of infrastructure/           *)
(* maintenance.go, while ingest goes on storing rows.                      *)
(*                                                                         *)
(* One series (host, name, labels) stands for all: every statement treats  *)
(* each series by itself.  A row is its timestamp, the rest of its primary *)
(* key, and an hourly aggregate is the set of rows it was computed from:   *)
(* count, min, max and sum are functions of that set.  A timestamp is an   *)
(* hour and a part of it: truncation to the hour is the hour field.        *)
(*                                                                         *)
(* Run is one goroutine: Rollup and Purge never overlap, but each is many  *)
(* statements, between which rows arrive, time passes, and the job may be  *)
(* cut short by an error, a shutdown or a crash.                           *)
(***************************************************************************)
EXTENDS Integers, FiniteSets

CONSTANTS Parts,        \* parts an hour is divided into
          Window,       \* rerollWindow, in hours (24)
          RawTTL,       \* rawTTL, in hours (30 days)
          RollupTTL,    \* rollupTTL, in hours (13 months)
          PurgeBatch,   \* purgeBatch: rows one statement deletes (5000)
          MaxHour,      \* bound: the hour the clock stops at
          MaxStored,    \* bound: rows stored in a behaviour
          MaxFaults     \* bound: jobs cut short and clock steps in a behaviour

ASSUME MaintenanceAssumption ==
  /\ Parts \in Nat \ {0}
  /\ Window \in Nat \ {0}
  /\ RawTTL \in Nat /\ Window <= RawTTL
  /\ RollupTTL \in Nat /\ Window <= RollupTTL
  /\ PurgeBatch \in Nat \ {0}
  /\ MaxHour \in Nat /\ MaxStored \in Nat /\ MaxFaults \in Nat

VARIABLES
  now,       \* the server's clock
  raw,       \* metrics: the rows of the series
  latest,    \* metric_latest: at most one row
  rollups,   \* metric_rollups_hourly: hour -> the rows aggregated
  rolled,    \* rollup_state has its row ...
  through,   \* ... and this is its rolled_through
  job,       \* where Rollup or Purge stands
  current,   \* Rollup: the hour that is not closed yet
  cursor,    \* Rollup: the next hour to aggregate
  cutoff,    \* Purge: rawCutoff
  expiry,    \* Purge: rollupCutoff
  \* history
  stored,    \* how many rows were inserted
  tardy,     \* rows inserted when their hour was more than Window hours past
  purged,    \* rows deleted by Purge
  expired,   \* rollups of hours before this one may have been deleted
  faults     \* how many faults have happened

clockVars == <<now>>
tableVars == <<raw, latest, rollups, rolled, through>>
jobVars == <<job, current, cursor, cutoff, expiry>>
historyVars == <<stored, tardy, purged, expired, faults>>
vars == <<clockVars, tableVars, jobVars, historyVars>>

Instant == [hour : Int, part : 0..Parts - 1]

At(h, p) == [hour |-> h, part |-> p]

Before(a, b) == a.hour < b.hour \/ (a.hour = b.hour /\ a.part < b.part)

Newest(rows) == {r \in rows : \A s \in rows : ~Before(r, s)}

RowsOf(h) == {r \in raw : r.hour = h}

Init ==
  /\ now = At(0, 0)
  /\ raw = {} /\ latest = {} /\ rollups = <<>>
  /\ rolled = FALSE /\ through = 0
  /\ job = "idle" /\ current = 0 /\ cursor = 0
  /\ cutoff = At(0, 0) /\ expiry = 0
  /\ stored = 0 /\ tardy = {} /\ purged = {} /\ expired = 0 - RollupTTL /\ faults = 0

-----------------------------------------------------------------------------
(* Time and ingest *)

(* The part of an hour after the present one. *)
Soon == IF now.part = Parts - 1 THEN At(now.hour + 1, 0) ELSE At(now.hour, now.part + 1)

Tick ==
  /\ now.hour < MaxHour
  /\ now' = Soon
  /\ UNCHANGED <<tableVars, jobVars, historyVars>>

(* Mutant: whatever is inserted last is taken for the newest. *)
LatestAfterInsertLast(r) == {r}

(* The trigger metrics_latest_insert. *)
LatestAfterInsert(r) == IF \A l \in latest : Before(l, r) THEN {r} ELSE latest

(* A row is stored, however old; its timestamp may lead the clock a little.  A
   row that is already there is left alone, which is no step. *)
Ingest(r) ==
  /\ stored < MaxStored
  /\ r \notin raw
  /\ ~Before(Soon, r)
  /\ raw' = raw \cup {r}
  /\ latest' = LatestAfterInsert(r)
  /\ stored' = stored + 1
  /\ tardy' = IF r.hour + Window < now.hour THEN tardy \cup {r} ELSE tardy
  /\ UNCHANGED <<clockVars, rollups, rolled, through, jobVars, purged, expired, faults>>

-----------------------------------------------------------------------------
(* The variables of a job go out of scope. *)
JobOver ==
  /\ job' = "idle"
  /\ current' = 0 /\ cursor' = 0
  /\ cutoff' = At(0, 0) /\ expiry' = 0

(* Rollup *)

RollupBegins ==
  /\ job = "idle"
  /\ job' = "rollup"
  /\ current' = now.hour
  /\ UNCHANGED <<clockVars, tableVars, cursor, cutoff, expiry, historyVars>>

(* Mutant: hours are aggregated once, and late rows forgotten. *)
FirstHourOnce(e) == IF rolled /\ through > e THEN through ELSE e

(* The first hour to aggregate when the earliest row is of hour e. *)
FirstHour(e) == IF rolled /\ through - Window > e THEN through - Window ELSE e

(* EarliestMetric and RolledThrough; without rows there is nothing to do. *)
RollupReads ==
  /\ job = "rollup"
  /\ job' = "hours"
  /\ \/ raw = {} /\ cursor' = current
     \/ \E e \in raw : /\ \A r \in raw : e.hour <= r.hour
                       /\ cursor' = FirstHour(e.hour)
  /\ UNCHANGED <<clockVars, tableVars, current, cutoff, expiry, historyVars>>

(* RollupHour for one hour: the aggregate is overwritten if there are rows, and
   left alone if there are none. *)
RollupHour ==
  /\ job = "hours" /\ cursor < current
  /\ rollups' = IF RowsOf(cursor) = {} THEN rollups
                ELSE [h \in DOMAIN rollups \cup {cursor} |->
                        IF h = cursor THEN RowsOf(cursor) ELSE rollups[h]]
  /\ cursor' = cursor + 1
  /\ UNCHANGED <<clockVars, raw, latest, rolled, through, job, current, cutoff, expiry,
                 historyVars>>

(* SetRolledThrough, unless that would move the marker back. *)
RollupMarks ==
  /\ job = "hours" /\ ~(cursor < current)
  /\ JobOver
  /\ rolled' = TRUE
  /\ through' = IF rolled /\ current <= through THEN through ELSE current
  /\ UNCHANGED <<clockVars, raw, latest, rollups, historyVars>>

-----------------------------------------------------------------------------
(* Purge *)

(* Mutant: only the TTL decides. *)
RawCutoffByAge == At(now.hour - RawTTL, now.part)

(* Raw rows before this instant are old enough, and their hours are behind the
   window that Rollup goes over again. *)
RawCutoff ==
  IF now.hour - RawTTL < through - Window
    THEN At(now.hour - RawTTL, now.part)
    ELSE At(through - Window, 0)

PurgeBegins ==
  /\ job = "idle"
  /\ job' = IF rolled THEN "raw" ELSE "expire"
  /\ cutoff' = IF rolled THEN RawCutoff ELSE cutoff
  /\ expiry' = now.hour - RollupTTL
  /\ UNCHANGED <<clockVars, tableVars, current, cursor, historyVars>>

Purgeable == {r \in raw : Before(r, cutoff)}

(* At most a batch of the rows in question: which, the statement does not say. *)
OneBatch(rows, all) ==
  /\ rows \subseteq all
  /\ rows # {}
  /\ rows = all \/ Cardinality(rows) = PurgeBatch
  /\ Cardinality(rows) <= PurgeBatch

(* The trigger metrics_latest_delete, once all of rows are gone. *)
LatestAfterDelete(rows) ==
  IF latest \cap rows = {} THEN latest ELSE Newest(raw \ rows)

PurgeRaw(rows) ==
  /\ job = "raw"
  /\ OneBatch(rows, Purgeable)
  /\ raw' = raw \ rows
  /\ latest' = LatestAfterDelete(rows)
  /\ purged' = purged \cup rows
  /\ UNCHANGED <<clockVars, rollups, rolled, through, jobVars, stored, tardy, expired, faults>>

PurgeRawEnds ==
  /\ job = "raw" /\ Purgeable = {}
  /\ job' = "expire"
  /\ UNCHANGED <<clockVars, tableVars, current, cursor, cutoff, expiry, historyVars>>

PurgeableHours == {h \in DOMAIN rollups : h < expiry}

PurgeRollups(hours) ==
  /\ job = "expire"
  /\ OneBatch(hours, PurgeableHours)
  /\ rollups' = [h \in DOMAIN rollups \ hours |-> rollups[h]]
  /\ expired' = IF expired < expiry THEN expiry ELSE expired
  /\ UNCHANGED <<clockVars, raw, latest, rolled, through, jobVars, stored, tardy, purged, faults>>

PurgeEnds ==
  /\ job = "expire" /\ PurgeableHours = {}
  /\ JobOver
  /\ UNCHANGED <<clockVars, tableVars, historyVars>>

-----------------------------------------------------------------------------
Fault ==
  /\ faults < MaxFaults
  /\ faults' = faults + 1

(* A statement fails, or the server is stopped or crashes: the job is over, and
   what it had written stays. *)
JobFails ==
  /\ job # "idle"
  /\ Fault
  /\ JobOver
  /\ UNCHANGED <<clockVars, tableVars, stored, tardy, purged, expired>>

Rollup == RollupBegins \/ RollupReads \/ RollupHour \/ RollupMarks

Purge ==
  \/ PurgeBegins \/ PurgeRawEnds \/ PurgeEnds
  \/ \E rows \in SUBSET Purgeable : PurgeRaw(rows)
  \/ \E hours \in SUBSET PurgeableHours : PurgeRollups(hours)

Next ==
  \/ Tick
  \/ \E h \in 0..MaxHour + 1, p \in 0..Parts - 1 : Ingest(At(h, p))
  \/ Rollup
  \/ Purge
  \/ JobFails

Spec == Init /\ [][Next]_vars

(* Statements end and the tickers of Run tick: a job, once it may run, does. *)
Fairness ==
  /\ WF_vars(Tick)
  /\ SF_vars(RollupBegins)
  /\ WF_vars(RollupReads \/ RollupHour \/ RollupMarks)
  /\ WF_vars(PurgeRawEnds \/ PurgeEnds
             \/ (\E rows \in SUBSET Purgeable : PurgeRaw(rows))
             \/ (\E hours \in SUBSET PurgeableHours : PurgeRollups(hours)))

-----------------------------------------------------------------------------
TypeOK ==
  /\ now \in Instant
  /\ raw \subseteq Instant /\ IsFiniteSet(raw) /\ latest \subseteq raw
  /\ DOMAIN rollups \subseteq Int
  /\ rollups \in [DOMAIN rollups -> SUBSET Instant]
  /\ rolled \in BOOLEAN /\ through \in Int
  /\ job \in {"idle", "rollup", "hours", "raw", "expire"}
  /\ current \in Int /\ cursor \in Int /\ cutoff \in Instant /\ expiry \in Int
  /\ stored \in Nat /\ tardy \subseteq Instant /\ purged \subseteq Instant
  /\ expired \in Int /\ faults \in Nat

(* Row r is part of the aggregate of its hour. *)
Aggregated(r) == r.hour \in DOMAIN rollups /\ r \in rollups[r.hour]

(* Purge's promise: a raw row that arrived while its hour was inside the
   re-aggregation window is deleted only when it is in its hour's aggregate,
   and stays there until the aggregate itself expires - through rows that
   arrive between the statements of a job and jobs cut short anywhere. *)
AggregatedBeforeDeleted ==
  \A r \in purged \ tardy : Aggregated(r) \/ r.hour < expired

(* The comment on Purge: a rollup is always recomputed from complete raw data.
   Recomputing an hour never takes a row out of its aggregate. *)
RollupsNeverShrink ==
  [][\A h \in DOMAIN rollups \cap DOMAIN rollups' : rollups[h] \subseteq rollups'[h]]_vars

(* metric_latest, kept by triggers, is the newest raw row of the series, out of
   order arrivals and bounded deletions included. *)
LatestIsNewest == latest = Newest(raw)

(* The specification, section 4.5: a raw row is deleted only after its hour has
   been rolled up - any row, however late it came. *)
NoRowUnaggregated ==
  \A r \in purged : Aggregated(r) \/ r.hour < expired

(* The comment on rollup_state: every hour before the marker is aggregated,
   except for rows that may still be picked up by going over the window. *)
MarkerHolds ==
  \A r \in raw \ tardy :
    rolled /\ r.hour < through - Window => Aggregated(r) \/ r.hour < expired

(* The inductive invariant behind the above.  The marker never leads the clock,
   nor a run of Rollup the run's current hour, which is never past the clock. *)
ClockInv ==
  /\ rolled => through <= now.hour
  /\ job \in {"rollup", "hours"} => current <= now.hour /\ (rolled => through <= current)

(* Rollup writes only hours of the window or later; Purge deletes only before
   it, so what Rollup reads is complete. *)
WindowInv ==
  /\ job = "hours" /\ rolled => through - Window <= cursor
  /\ job = "raw" => rolled /\ ~Before(At(through - Window, 0), cutoff)
  /\ \A r \in purged : rolled /\ r.hour < through - Window
  /\ \A h \in DOMAIN rollups : \A r \in rollups[h] :
       r.hour = h /\ (r \in raw \/ (rolled /\ h < through - Window))

(* What Rollup will not reach before it marks current is aggregated already, or
   inside the window of the next run. *)
CursorInv ==
  job = "hours" =>
    \A r \in raw \ tardy :
      Aggregated(r) \/ r.hour < expired \/ cursor <= r.hour \/ current - Window <= r.hour

MaintenanceInv ==
  /\ TypeOK
  /\ ClockInv
  /\ WindowInv
  /\ CursorInv
  /\ MarkerHolds
  /\ AggregatedBeforeDeleted

(* A row that came in time is aggregated some time after its hour closed. *)
EventuallyAggregated ==
  \A h \in 0..MaxHour - 1, p \in 0..Parts - 1 :
    At(h, p) \in raw \ tardy ~> Aggregated(At(h, p)) \/ h < expired

=============================================================================
