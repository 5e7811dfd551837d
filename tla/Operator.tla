------------------------------ MODULE Operator ------------------------------
(***************************************************************************)
(* The operator command channel: the console queues commands for a host,   *)
(* the host's agent claims them in batches over the tunnel, runs the       *)
(* host's executable for each and reports the outcome, while the server    *)
(* expires what nobody claimed and fails what nobody answered.             *)
(*                                                                         *)
(* Times are ages: age[c] counts clock ticks since the timestamp the code  *)
(* compares for the command's status (created_at while queued, started_at  *)
(* while running, finished_at once closed).                                *)
(***************************************************************************)
EXTENDS Integers, FiniteSets, Sequences, Functions

CONSTANTS Hosts,           \* enrolled hosts, each running one agent
          Commands,        \* the commands the console may ask for
          QueuedExpiry,    \* ticks a command may stay queued
          RunningExpiry,   \* ticks a command may run unanswered
          ResultRetention, \* ticks an answer is kept
          ClaimBatch,      \* commands handed out by one poll
          MaxOrphans,      \* bound: claim requests an agent gave up on, per host
          MaxAge           \* bound: ages are not told apart from here on

ASSUME OperatorAssumption ==
  /\ IsFiniteSet(Commands)
  /\ QueuedExpiry \in Nat /\ RunningExpiry \in Nat /\ ResultRetention \in Nat
  /\ ClaimBatch \in Nat \ {0}
  /\ MaxOrphans \in Nat /\ MaxAge \in Nat
  /\ QueuedExpiry < MaxAge /\ RunningExpiry < MaxAge /\ ResultRetention < MaxAge

VARIABLES status,    \* operator_commands.status; "new" and "stamped" before the row exists
          hostOf,    \* the host a command is for
          age,       \* ticks since the timestamp of the status
          answer,    \* result_json / error
          agent,     \* each host's poll loop
          orphans,   \* claim requests still in the server that no agent waits for
          late,      \* reports still in the server that no agent waits for
          ran,       \* history: starts of the executable, in order
          outcome,   \* history: how the executable ended for a command
          prior      \* history: commands of the host already queued when this one was asked for

serverVars == <<status, hostOf, age, answer, orphans, late>>
historyVars == <<ran, outcome, prior>>
vars == <<serverVars, agent, historyVars>>

Closed == {"done", "failed", "expired"}
Statuses == {"new", "stamped", "dropped", "queued", "running"} \cup Closed

Idle == [pc |-> "idle", batch |-> <<>>, report |-> "none"]

Rows == {c \in Commands : status[c] \in {"queued", "running"} \cup Closed}

(* Queue requests between reading the clock and INSERT. *)
Stamped == {c \in Commands : status[c] = "stamped"}

Runs == [command : Commands, host : Hosts]

TypeOK ==
  /\ status \in [Commands -> Statuses]
  /\ hostOf \in [Commands -> Hosts]
  /\ age \in [Commands -> 0..MaxAge]
  /\ answer \in [Commands -> {"none", "result", "error", "no result"}]
  /\ DOMAIN agent = Hosts
  /\ \A h \in Hosts :
       /\ agent[h].pc \in {"idle", "asked", "next", "executing", "reporting"}
       /\ agent[h].batch \in Seq(Commands)
       /\ agent[h].report \in {"none", "done", "failed"}
  /\ orphans \in [Hosts -> 0..MaxOrphans]
  /\ late \subseteq [command : Commands, host : Hosts, report : {"done", "failed"}]
  /\ ran \in Seq(Runs)
  /\ outcome \in [Commands -> {"none", "done", "failed"}]
  /\ prior \in [Commands -> SUBSET Commands]

Init ==
  /\ status = [c \in Commands |-> "new"]
  /\ hostOf \in [Commands -> Hosts]
  /\ age = [c \in Commands |-> 0]
  /\ answer = [c \in Commands |-> "none"]
  /\ agent = [h \in Hosts |-> Idle]
  /\ orphans = [h \in Hosts |-> 0]
  /\ late = {}
  /\ ran = <<>>
  /\ outcome = [c \in Commands |-> "none"]
  /\ prior = [c \in Commands |-> {}]

-----------------------------------------------------------------------------
(* The console. *)

(* Service.Queue up to INSERT: created_at is read from the clock. *)
QueueStamps(c) ==
  /\ status[c] = "new"
  /\ status' = [status EXCEPT ![c] = "stamped"]
  /\ age' = [age EXCEPT ![c] = 0]
  /\ prior' = [prior EXCEPT ![c] =
                 {d \in Commands : hostOf[d] = hostOf[c] /\ status[d] = "queued" /\ age[d] > 0}]
  /\ UNCHANGED <<hostOf, answer, orphans, late, agent, ran, outcome>>

QueueInserts(c) ==
  /\ status[c] = "stamped"
  /\ status' = [status EXCEPT ![c] = "queued"]
  /\ UNCHANGED <<hostOf, age, answer, orphans, late, agent, historyVars>>

(* INSERT fails: the request answers with an error and nothing is stored. *)
QueueFails(c) ==
  /\ status[c] = "stamped"
  /\ status' = [status EXCEPT ![c] = "dropped"]
  /\ UNCHANGED <<hostOf, age, answer, orphans, late, agent, historyVars>>

-----------------------------------------------------------------------------
(* Expiry: two UPDATEs, the second skipped when the first fails. *)

(* A bug's form: expiry that also takes back commands handed out long ago. *)
StaleQueuedAny == {c \in Commands : status[c] \in {"queued", "running"} /\ age[c] > QueuedExpiry}

StaleQueued == {c \in Commands : status[c] = "queued" /\ age[c] > QueuedExpiry}

StaleRunning == {c \in Commands : status[c] = "running" /\ age[c] > RunningExpiry}

ExpireRows(ended, unanswered) ==
  /\ status' = [c \in Commands |-> IF c \in ended THEN "expired"
                                   ELSE IF c \in unanswered THEN "failed" ELSE status[c]]
  /\ age' = [c \in Commands |-> IF c \in ended \cup unanswered THEN 0 ELSE age[c]]
  /\ answer' = [c \in Commands |-> IF c \in unanswered THEN "no result" ELSE answer[c]]

(* Expire as the minute ticker, maintain and the console's reads call it. *)
Expire ==
  /\ StaleQueued \cup StaleRunning # {}
  /\ ExpireRows(StaleQueued, StaleRunning)
  /\ UNCHANGED <<hostOf, orphans, late, agent, historyVars>>

ExpireStopsHalfway ==
  /\ StaleQueued # {}
  /\ ExpireRows(StaleQueued, {})
  /\ UNCHANGED <<hostOf, orphans, late, agent, historyVars>>

(* A bug's form: only results are cleared, not the errors of failed commands. *)
ForgettableDone == {c \in Commands : status[c] = "done" /\ age[c] > ResultRetention /\ answer[c] # "none"}

(* maintain's ClearResults. *)
Forgettable == {c \in Commands : status[c] \in Closed /\ age[c] > ResultRetention /\ answer[c] # "none"}

ClearResults ==
  /\ Forgettable # {}
  /\ answer' = [c \in Commands |-> IF c \in Forgettable THEN "none" ELSE answer[c]]
  /\ UNCHANGED <<status, hostOf, age, orphans, late, agent, historyVars>>

Tick ==
  /\ age' = [c \in Commands |-> IF c \in Rows \cup Stamped /\ age[c] < MaxAge
                                THEN age[c] + 1 ELSE age[c]]
  /\ UNCHANGED <<status, hostOf, answer, orphans, late, agent, historyVars>>

-----------------------------------------------------------------------------
(* Claiming: Service.Claim expires stale rows, then one transaction marks  *)
(* the host's oldest queued commands running and returns them.             *)

Claimable(h) == {c \in Commands : hostOf[c] = h /\ status[c] = "queued" /\ age[c] <= QueuedExpiry}

(* A bug's form: the batch in any order. *)
BatchesUnordered(h) ==
  {b \in UNION {[1..n -> Claimable(h)] : n \in 0..ClaimBatch} :
     \A i, j \in DOMAIN b : i < j => b[i] # b[j]}

(* ORDER BY created_at LIMIT ClaimBatch; the random id breaks ties. *)
Batches(h) ==
  {b \in UNION {[1..n -> Claimable(h)] : n \in 0..ClaimBatch} :
     /\ \A i, j \in DOMAIN b : i < j => b[i] # b[j] /\ age[b[i]] >= age[b[j]]
     /\ \A d \in Claimable(h) \ Range(b) :
          Len(b) = ClaimBatch /\ \A i \in DOMAIN b : age[b[i]] >= age[d]}

(* A bug's form: the claim forgets to mark the commands running. *)
ClaimRowsUnmarked(b) == ExpireRows(StaleQueued, StaleRunning)

ClaimRows(b) ==
  /\ status' = [c \in Commands |-> IF c \in Range(b) THEN "running"
                                   ELSE IF c \in StaleQueued THEN "expired"
                                   ELSE IF c \in StaleRunning THEN "failed" ELSE status[c]]
  /\ age' = [c \in Commands |-> IF c \in Range(b) \cup StaleQueued \cup StaleRunning THEN 0 ELSE age[c]]
  /\ answer' = [c \in Commands |-> IF c \in StaleRunning THEN "no result" ELSE answer[c]]

(* The agent's poll. *)
Ask(h) ==
  /\ agent[h].pc = "idle"
  /\ agent' = [agent EXCEPT ![h].pc = "asked"]
  /\ UNCHANGED <<serverVars, historyVars>>

AskFails(h) ==
  /\ agent[h].pc = "asked"
  /\ agent' = [agent EXCEPT ![h] = Idle]
  /\ UNCHANGED <<serverVars, historyVars>>

(* The agent stops waiting while its request is still in the server. *)
AskAbandoned(h) ==
  /\ agent[h].pc = "asked"
  /\ orphans[h] < MaxOrphans
  /\ orphans' = [orphans EXCEPT ![h] = @ + 1]
  /\ agent' = [agent EXCEPT ![h] = Idle]
  /\ UNCHANGED <<status, hostOf, age, answer, late, historyVars>>

Claim(h) ==
  /\ agent[h].pc = "asked"
  /\ \E b \in Batches(h) :
       /\ ClaimRows(b)
       /\ agent' = [agent EXCEPT ![h] = IF b = <<>> THEN Idle
                                        ELSE [pc |-> "next", batch |-> b, report |-> "none"]]
  /\ UNCHANGED <<hostOf, orphans, late, historyVars>>

ClaimUnheard(h) ==
  /\ orphans[h] > 0
  /\ orphans' = [orphans EXCEPT ![h] = @ - 1]
  /\ \E b \in Batches(h) : ClaimRows(b)
  /\ UNCHANGED <<hostOf, late, agent, historyVars>>

-----------------------------------------------------------------------------
(* Running a claimed batch, one command at a time, oldest first. *)

Start(h) ==
  /\ agent[h].pc = "next"
  /\ agent' = [agent EXCEPT ![h].pc = "executing"]
  /\ ran' = Append(ran, [command |-> Head(agent[h].batch), host |-> h])
  /\ UNCHANGED <<serverVars, outcome, prior>>

(* Execute refuses a kind or arguments the host does not accept. *)
Refuse(h) ==
  /\ agent[h].pc = "next"
  /\ agent' = [agent EXCEPT ![h].pc = "reporting", ![h].report = "failed"]
  /\ UNCHANGED <<serverVars, historyVars>>

(* A bug's form: the exit status is ignored. *)
ReportForIgnored(ended) == "done"

(* What Execute reports for how the executable ended. *)
ReportFor(ended) == ended

Finish(h) ==
  /\ agent[h].pc = "executing"
  /\ \E ended \in {"done", "failed"} :
       /\ outcome' = [outcome EXCEPT ![Head(agent[h].batch)] = ended]
       /\ agent' = [agent EXCEPT ![h].pc = "reporting", ![h].report = ReportFor(ended)]
  /\ UNCHANGED <<serverVars, ran, prior>>

(* A bug's form: the status is not checked. *)
CompletesAnyStatus(c, h) == hostOf[c] = h

(* Complete: closes a running command of the same host, else 404. *)
Completes(c, h) == status[c] = "running" /\ hostOf[c] = h

Complete(c, h, r) ==
  /\ status' = IF Completes(c, h) THEN [status EXCEPT ![c] = r] ELSE status
  /\ age' = IF Completes(c, h) THEN [age EXCEPT ![c] = 0] ELSE age
  /\ answer' = IF Completes(c, h)
                THEN [answer EXCEPT ![c] = IF r = "done" THEN "result" ELSE "error"] ELSE answer

(* Report: an error ends the poll and the rest of the batch is never run. *)
AfterReport(h) ==
  IF Completes(Head(agent[h].batch), h) /\ Len(agent[h].batch) > 1
    THEN [pc |-> "next", batch |-> Tail(agent[h].batch), report |-> "none"]
    ELSE Idle

Report(h) ==
  /\ agent[h].pc = "reporting"
  /\ Complete(Head(agent[h].batch), h, agent[h].report)
  /\ agent' = [agent EXCEPT ![h] = AfterReport(h)]
  /\ UNCHANGED <<hostOf, orphans, late, historyVars>>

ReportFails(h) ==
  /\ agent[h].pc = "reporting"
  /\ agent' = [agent EXCEPT ![h] = Idle]
  /\ UNCHANGED <<serverVars, historyVars>>

(* The agent stops waiting while its report is still in the server. *)
ReportAbandoned(h) ==
  /\ agent[h].pc = "reporting"
  /\ late' = late \cup {[command |-> Head(agent[h].batch), host |-> h, report |-> agent[h].report]}
  /\ agent' = [agent EXCEPT ![h] = Idle]
  /\ UNCHANGED <<status, hostOf, age, answer, orphans, historyVars>>

ReportArrivesLate(r) ==
  /\ r \in late
  /\ late' = late \ {r}
  /\ Complete(r.command, r.host, r.report)
  /\ UNCHANGED <<hostOf, orphans, agent, historyVars>>

-----------------------------------------------------------------------------
(* Processes ending. *)

AgentStops(h) ==
  /\ agent[h].pc \in {"next", "executing"}
  /\ agent' = [agent EXCEPT ![h] = Idle]
  /\ UNCHANGED <<serverVars, historyVars>>

ServerStops ==
  /\ status' = [c \in Commands |-> IF c \in Stamped THEN "dropped" ELSE status[c]]
  /\ orphans' = [h \in Hosts |-> 0]
  /\ late' = {}
  /\ agent' = [h \in Hosts |-> IF agent[h].pc \in {"asked", "reporting"} THEN Idle ELSE agent[h]]
  /\ UNCHANGED <<hostOf, age, answer, historyVars>>

Next ==
  \/ \E c \in Commands : QueueStamps(c) \/ QueueInserts(c) \/ QueueFails(c)
  \/ Expire \/ ExpireStopsHalfway \/ ClearResults \/ Tick
  \/ \E h \in Hosts : Ask(h) \/ AskFails(h) \/ AskAbandoned(h) \/ Claim(h) \/ ClaimUnheard(h)
  \/ \E h \in Hosts : Start(h) \/ Refuse(h) \/ Finish(h)
  \/ \E h \in Hosts : Report(h) \/ ReportFails(h) \/ ReportAbandoned(h)
  \/ \E r \in late : ReportArrivesLate(r)
  \/ \E h \in Hosts : AgentStops(h)
  \/ ServerStops

Spec == Init /\ [][Next]_vars

(* The clock advances, and the minute and daily jobs keep succeeding. *)
Fairness == WF_vars(Tick) /\ WF_vars(Expire) /\ WF_vars(ClearResults)

-----------------------------------------------------------------------------
(* Properties. *)

(* Claim hands a command out once, to its own host, so the host's          *)
(* executable starts at most once for it, whatever requests are abandoned, *)
(* answers lost or processes restarted: a refund is never executed twice.  *)
(* With it, every variable has its type.                                   *)
StartedAtMostOnce ==
  /\ TypeOK
  /\ \A i, j \in DOMAIN ran : ran[i].command = ran[j].command => i = j
  /\ \A i \in DOMAIN ran : ran[i].host = hostOf[ran[i].command]

(* Expire ends only commands no poll took: the operator may queue an       *)
(* expired command again, for it has not run and never will.               *)
ExpiredNeverRuns ==
  \A c \in Commands : status[c] = "expired" =>
    /\ \A i \in DOMAIN ran : ran[i].command # c
    /\ \A h \in Hosts : c \notin Range(agent[h].batch)

(* Claim's ordering: of two commands for one host, the one already queued  *)
(* when the other was asked for is never the later one to start, so a lift *)
(* queued after a suspend is not undone by it.                             *)
StartsInQueueOrder ==
  \A i, j \in DOMAIN ran : i < j => ran[j].command \notin prior[ran[i].command]

(* Complete and Execute together: a command shown as done was run to       *)
(* success by its host, and one shown with the host's error was not.       *)
ShownOutcomeIsTrue ==
  \A c \in Commands :
    /\ status[c] = "done" => outcome[c] = "done" /\ \E i \in DOMAIN ran : ran[i].command = c
    /\ answer[c] = "error" => status[c] = "failed" /\ outcome[c] # "done"

(* Complete races Expire: whichever closes a command first decides, and a  *)
(* closed command keeps its status; its answer only disappears, by age.    *)
ClosedIsFinal ==
  [][\A c \in Commands : status[c] \in Closed =>
       /\ status'[c] = status[c]
       /\ answer'[c] # answer[c] => answer'[c] = "none" /\ age[c] > ResultRetention]_vars

(* Expire and ClearResults: every stored command is closed, so a console   *)
(* polling for it does not wait forever even if its host never returns, and *)
(* its answer, which may name people, is forgotten.                        *)
EventuallyForgotten ==
  \A c \in Commands : c \in Rows ~> status[c] \in Closed /\ answer[c] = "none"

=============================================================================
