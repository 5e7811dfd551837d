--------------------------- MODULE OperatorProofs ---------------------------
(***************************************************************************)
(* The safety of the command channel for any number of hosts and commands, *)
(* any limits and any batch size.  The strengthening follows a command     *)
(* from the claim that takes it out of the queue: it is in at most one     *)
(* batch, what is left of a batch has not started, what a report says is   *)
(* how the executable ended, and a command queued before another is never  *)
(* behind it.                                                              *)
(***************************************************************************)
EXTENDS Operator, TLAPS

AgentRecord ==
  [pc : {"idle", "asked", "next", "executing", "reporting"},
   batch : Seq(Commands),
   report : {"none", "done", "failed"}]

Taken == {"running", "done", "failed"}

Started(c) == \E i \in DOMAIN ran : ran[i].command = c

(* agent[h] may have started the i-th command left of its batch. *)
Begun(h, i) == i = 1 /\ agent[h].pc \in {"executing", "reporting"}

Types ==
  /\ TypeOK
  /\ agent \in [Hosts -> AgentRecord]

(* What is left of a batch was claimed by its host, each command once, and has
   not started but for the first. *)
BatchOK(h) ==
  /\ agent[h].pc \in {"idle", "asked"} <=> agent[h].batch = <<>>
  /\ \A i \in DOMAIN agent[h].batch :
       /\ hostOf[agent[h].batch[i]] = h
       /\ status[agent[h].batch[i]] \in {"running", "failed"}
       /\ answer[agent[h].batch[i]] # "error"
       /\ Started(agent[h].batch[i]) => Begun(h, i)
  /\ \A i, j \in DOMAIN agent[h].batch : agent[h].batch[i] = agent[h].batch[j] => i = j
  /\ agent[h].pc = "executing" => Started(agent[h].batch[1])

BatchInv == \A h \in Hosts : BatchOK(h)

(* A report, waiting or late, says how the executable ended. *)
Truthful(c, r) ==
  /\ r \in {"done", "failed"}
  /\ r = "done" => outcome[c] = "done"
  /\ r = "failed" => outcome[c] # "done"

ReportInv ==
  /\ \A h \in Hosts : agent[h].pc = "reporting" => Truthful(agent[h].batch[1], agent[h].report)
  /\ \A r \in late :
       /\ Truthful(r.command, r.report)
       /\ status[r.command] \in Taken
       /\ \A h \in Hosts : \A i \in DOMAIN agent[h].batch : agent[h].batch[i] # r.command

RanInv ==
  /\ \A i \in DOMAIN ran : status[ran[i].command] \in Taken /\ ran[i].host = hostOf[ran[i].command]
  /\ \A i, j \in DOMAIN ran : ran[i].command = ran[j].command => i = j
  /\ \A c \in Commands : outcome[c] # "none" => Started(c)

RowInv ==
  \A c \in Commands :
    /\ status[c] = "done" => outcome[c] = "done"
    /\ answer[c] = "error" => status[c] = "failed" /\ outcome[c] # "done"

(* d was queued before c was asked for. *)
Behind(d, c) ==
  /\ hostOf[d] = hostOf[c]
  /\ status[d] \notin {"new", "stamped", "dropped"} /\ status[c] # "new"
  /\ status[d] = "queued" /\ status[c] \in {"stamped", "queued"} => age[d] > age[c] \/ age[d] = MaxAge
  /\ status[c] \in Taken => status[d] # "queued"
  /\ \A h \in Hosts : \A i \in DOMAIN agent[h].batch : agent[h].batch[i] = d =>
       /\ Started(c) => Begun(h, i)
       /\ \A j \in DOMAIN agent[h].batch : agent[h].batch[j] = c => i < j

OrderInv == \A c \in Commands : \A d \in prior[c] : Behind(d, c)

IInv == Types /\ BatchInv /\ ReportInv /\ RanInv /\ RowInv /\ OrderInv /\ StartsInQueueOrder

-----------------------------------------------------------------------------
(* How a row may change while its command is not being reported on. *)
Moves(c) ==
  \/ status'[c] = status[c] /\ answer'[c] \in {answer[c], "none"}
  \/ status[c] = "new" /\ status'[c] = "stamped" /\ answer'[c] = answer[c]
  \/ status[c] = "stamped" /\ status'[c] \in {"queued", "dropped"} /\ answer'[c] = answer[c]
  \/ status[c] = "queued" /\ status'[c] \in {"running", "expired"} /\ answer'[c] = answer[c]
  \/ status[c] = "running" /\ status'[c] = "failed" /\ answer'[c] = "no result"

(* An agent goes on as it was or has nothing left to run. *)
Rests(h) ==
  \/ agent'[h] = agent[h]
  \/ agent'[h].pc \in {"idle", "asked"} /\ agent'[h].batch = <<>>

(* A step in which nothing is claimed, run or reported. *)
Quiet ==
  /\ UNCHANGED <<hostOf, ran, outcome>>
  /\ late' \subseteq late
  /\ agent' \in [Hosts -> AgentRecord]
  /\ \A c \in Commands : Moves(c)
  /\ \A h \in Hosts : Rests(h)

\* An empty batch has no members.
LEMMA EmptyBatch == DOMAIN <<>> = {}
OBVIOUS

\* The executable is only started for commands and hosts.
LEMMA RanTyped ==
  ASSUME IInv
  PROVE  \A i \in DOMAIN ran : ran[i] \in Runs /\ ran[i].command \in Commands /\ ran[i].host \in Hosts
<1>1. ran \in Seq(Runs)
  BY Zenon DEF IInv, Types, TypeOK
<1>2. \A i \in DOMAIN ran : ran[i] \in Runs
  BY <1>1
<1> QED
  BY Zenon, <1>2 DEF Runs

\* Ages are within their bound, which is above zero.
LEMMA AgesTyped ==
  ASSUME IInv
  PROVE  MaxAge \in Nat /\ 0 \in 0..MaxAge /\ \A c \in Commands : age[c] \in 0..MaxAge
<1>1. MaxAge \in Nat /\ 0 \in 0..MaxAge
  BY OperatorAssumption
<1>2. \A c \in Commands : age[c] \in 0..MaxAge
  BY Zenon DEF IInv, Types, TypeOK
<1> QED
  BY Zenon, <1>1, <1>2

\* Nothing that was said of batches, reports and starts is undone by a quiet step.
LEMMA QuietKeeps ==
  ASSUME IInv, Quiet
  PROVE  BatchInv' /\ ReportInv' /\ RanInv' /\ RowInv'
<1>0. \A h \in Hosts : \/ agent'[h] = agent[h]
                       \/ agent'[h].pc \in {"idle", "asked"} /\ agent'[h].batch = <<>> /\ DOMAIN agent'[h].batch = {}
  BY Zenon, EmptyBatch DEF Quiet, Rests
<1>1. \A c : Started(c)' <=> Started(c)
  BY Zenon DEF Quiet, Started
<1>2. \A h \in Hosts : agent[h].batch \in Seq(Commands)
  BY Zenon DEF IInv, Types, AgentRecord
<1>3. \A h \in Hosts : \A i \in DOMAIN agent[h].batch : agent[h].batch[i] \in Commands
  BY <1>2
<1>4. BatchInv'
  <2> SUFFICES ASSUME NEW h \in Hosts
               PROVE  BatchOK(h)'
    BY Zenon DEF BatchInv
  <2>1. BatchOK(h)
    BY Zenon DEF IInv, BatchInv
  <2>2. \A c \in Commands :
          /\ status[c] \in {"running", "failed"} => status'[c] \in {"running", "failed"}
          /\ answer[c] # "error" => answer'[c] # "error"
    BY Zenon DEF Quiet, Moves
  <2>3. CASE agent'[h] = agent[h]
    BY <1>3, <2>1, <2>2, <2>3 DEF BatchOK, Begun, Quiet, Started
  <2>4. CASE agent'[h].pc \in {"idle", "asked"} /\ agent'[h].batch = <<>> /\ DOMAIN agent'[h].batch = {}
    BY Zenon, <2>4 DEF BatchOK
  <2> QED
    BY Zenon, <1>0, <2>3, <2>4
<1>5. \A c \in Commands : status[c] \in Taken => status'[c] \in Taken
  BY Zenon DEF Quiet, Moves, Taken
<1>6. ReportInv'
  <2>1. \A r \in late : r.command \in Commands
    BY Zenon DEF IInv, Types, TypeOK
  <2> QED
    BY <1>0, <1>5, <2>1 DEF IInv, Quiet, ReportInv, Truthful
<1>7. RanInv'
  <2>1. \A i \in DOMAIN ran : ran[i].command \in Commands
    BY Zenon, RanTyped
  <2> QED
    BY Zenon, <1>1, <1>5, <2>1 DEF IInv, Quiet, RanInv
<1>8. RowInv'
  BY Zenon DEF IInv, Quiet, RowInv, Moves
<1> QED
  BY Zenon, <1>4, <1>6, <1>7, <1>8

\* What OrderInv says of the rows.
LEMMA PriorRows ==
  ASSUME IInv, NEW c \in Commands, NEW d \in prior[c]
  PROVE  /\ d \in Commands
         /\ status[d] \notin {"new", "stamped", "dropped"} /\ status[c] # "new"
         /\ status[c] \in Taken => status[d] # "queued"
BY Zenon DEF IInv, OrderInv, Behind, Types, TypeOK

\* Nor is the order of the queue.
LEMMA QuietOrder ==
  ASSUME IInv, Quiet, prior' = prior,
         \A c \in Commands : status'[c] \in {"stamped", "queued"} => age'[c] = age[c],
         \A c \in Commands : \A d \in prior[c] : status'[c] \in Taken => status'[d] # "queued"
  PROVE  OrderInv' /\ StartsInQueueOrder'
<1>0. \A h \in Hosts : agent'[h] = agent[h] \/ DOMAIN agent'[h].batch = {}
  BY Zenon, EmptyBatch DEF Quiet, Rests
<1>1. \A c : Started(c)' <=> Started(c)
  BY Zenon DEF Quiet, Started
<1>2. ASSUME NEW c \in Commands, NEW d \in prior[c]
      PROVE  Behind(d, c)'
  <2>1. Behind(d, c) /\ d \in Commands
    BY Zenon DEF IInv, OrderInv, Types, TypeOK
  <2>2. /\ hostOf'[d] = hostOf'[c]
        /\ status'[d] \notin {"new", "stamped", "dropped"} /\ status'[c] # "new"
    BY Zenon, <2>1 DEF Quiet, Moves, Behind
  <2>3. status'[d] = "queued" /\ status'[c] \in {"stamped", "queued"} => age'[d] > age'[c] \/ age'[d] = MaxAge
    BY Zenon, <2>1 DEF Quiet, Moves, Behind
  <2>4. status'[c] \in Taken => status'[d] # "queued"
    BY Zenon
  <2>5. ASSUME NEW h \in Hosts, NEW i \in DOMAIN agent'[h].batch, agent'[h].batch[i] = d
        PROVE  /\ Started(c)' => Begun(h, i)'
               /\ \A j \in DOMAIN agent'[h].batch : agent'[h].batch[j] = c => i < j
    BY Zenon, <1>0, <1>1, <2>1, <2>5 DEF Behind, Begun
  <2> QED
    BY Zenon, <2>2, <2>3, <2>4, <2>5 DEF Behind
<1> QED
  BY Zenon, <1>2 DEF IInv, Quiet, OrderInv, StartsInQueueOrder

-----------------------------------------------------------------------------
(* The console, expiry and the clock. *)

\* Queue stamps a command: those queued before it are noted as prior.
LEMMA QueueStampsKeeps ==
  ASSUME IInv, NEW c \in Commands, QueueStamps(c)
  PROVE  IInv'
<1>0. MaxAge \in Nat
  BY Zenon, OperatorAssumption
<1>1. Types'
  <2>1. 0 \in 0..MaxAge
    BY <1>0
  <2>2. age' \in [Commands -> 0..MaxAge]
    BY Zenon, <2>1 DEF QueueStamps, IInv, Types, TypeOK
  <2>3. prior' \in [Commands -> SUBSET Commands]
    BY Zenon DEF QueueStamps, IInv, Types, TypeOK
  <2> QED
    BY Zenon, <2>2, <2>3 DEF QueueStamps, IInv, Types, TypeOK, Statuses
<1>2. Quiet
  BY Zenon DEF QueueStamps, IInv, Types, TypeOK, Quiet, Moves, Rests
<1>3. OrderInv'
  <2> SUFFICES ASSUME NEW e \in Commands, NEW d \in prior'[e]
               PROVE  Behind(d, e)'
    BY Zenon DEF OrderInv
  <2>1. d \in Commands /\ MaxAge \in Nat
    BY Zenon, OperatorAssumption DEF QueueStamps, IInv, Types, TypeOK
  <2>2. \A x : Started(x)' <=> Started(x)
    BY Zenon DEF QueueStamps, Started, historyVars
  <2>3. CASE e = c
    <3>1. hostOf[d] = hostOf[c] /\ status[d] = "queued" /\ age[d] > 0 /\ d # c
      BY Zenon, <2>3 DEF QueueStamps, IInv, Types, TypeOK
    <3>2. ~Started(c)
      BY Zenon DEF QueueStamps, IInv, RanInv, Started, Taken
    <3>3. \A h \in Hosts : \A i \in DOMAIN agent[h].batch : agent[h].batch[i] # d
      BY <3>1 DEF IInv, BatchInv, BatchOK
    <3> QED
      BY Zenon, <2>1, <2>2, <2>3, <3>1, <3>2, <3>3 DEF QueueStamps, Behind, IInv, Types, TypeOK, Taken
  <2>4. CASE e # c
    <3>1. Behind(d, e)
      BY Zenon, <2>4 DEF QueueStamps, IInv, OrderInv, Types, TypeOK
    <3>2. d # c
      BY Zenon, <3>1 DEF Behind, QueueStamps
    <3> QED
      BY Zenon, <2>1, <2>2, <2>4, <3>1, <3>2 DEF QueueStamps, Behind, Begun, IInv, Types, TypeOK
  <2> QED
    BY Zenon, <2>3, <2>4
<1>4. StartsInQueueOrder'
  <2>1. \A i \in DOMAIN ran : ran[i].command # c
    BY Zenon DEF QueueStamps, IInv, RanInv, Taken
  <2> QED
    BY Zenon, <2>1, RanTyped DEF QueueStamps, IInv, StartsInQueueOrder, Types, TypeOK
<1> QED
  BY Zenon, <1>1, <1>2, <1>3, <1>4, QuietKeeps DEF IInv

\* INSERT succeeds.
LEMMA QueueInsertsKeeps ==
  ASSUME IInv, NEW c \in Commands, QueueInserts(c)
  PROVE  IInv'
<1>1. Types'
  BY Zenon DEF QueueInserts, IInv, Types, TypeOK, Statuses, historyVars
<1>2. Quiet
  BY Zenon DEF QueueInserts, IInv, Types, TypeOK, Quiet, Moves, Rests, historyVars
<1>3. \A e \in Commands : \A d \in prior[e] : d \in Commands /\ (status'[e] \in Taken => status'[d] # "queued")
  BY Zenon, PriorRows DEF QueueInserts, IInv, Types, TypeOK, Taken
<1> QED
  BY Zenon, <1>1, <1>2, <1>3, QuietKeeps, QuietOrder DEF IInv, QueueInserts, historyVars

\* INSERT fails.
LEMMA QueueFailsKeeps ==
  ASSUME IInv, NEW c \in Commands, QueueFails(c)
  PROVE  IInv'
<1>1. Types'
  BY Zenon DEF QueueFails, IInv, Types, TypeOK, Statuses, historyVars
<1>2. Quiet
  BY Zenon DEF QueueFails, IInv, Types, TypeOK, Quiet, Moves, Rests, historyVars
<1>3. \A e \in Commands : \A d \in prior[e] : d \in Commands /\ (status'[e] \in Taken => status'[d] # "queued")
  BY Zenon, PriorRows DEF QueueFails, IInv, Types, TypeOK, Taken
<1> QED
  BY Zenon, <1>1, <1>2, <1>3, QuietKeeps, QuietOrder DEF IInv, QueueFails, historyVars

\* Expiry ends queued commands and fails running ones, whichever of the two it gets to.
LEMMA ExpireRowsKeeps ==
  ASSUME IInv, NEW unanswered \in SUBSET StaleRunning, ExpireRows(StaleQueued, unanswered),
         UNCHANGED <<hostOf, orphans, late, agent, historyVars>>
  PROVE  IInv'
<1>0. MaxAge \in Nat
  BY Zenon, OperatorAssumption
<1>1. Types'
  <2>1. age' \in [Commands -> 0..MaxAge]
    <3>1. 0 \in 0..MaxAge /\ \A c \in Commands : age[c] \in 0..MaxAge
      BY Zenon, AgesTyped
    <3>2. age' = [c \in Commands |-> IF c \in StaleQueued \cup unanswered THEN 0 ELSE age[c]]
      BY Zenon DEF ExpireRows
    <3>3. \A c \in Commands : age'[c] \in 0..MaxAge
      BY Zenon, <3>1, <3>2
    <3> QED
      BY Zenon, <3>2, <3>3
  <2>2. status' \in [Commands -> Statuses]
    BY Zenon DEF ExpireRows, IInv, Types, TypeOK, Statuses, Closed
  <2>3. answer' \in [Commands -> {"none", "result", "error", "no result"}]
    BY Zenon DEF ExpireRows, IInv, Types, TypeOK
  <2> QED
    BY Zenon, <2>1, <2>2, <2>3 DEF IInv, Types, TypeOK, historyVars
<1>2. Quiet
  BY Zenon DEF ExpireRows, IInv, Types, TypeOK, Quiet, Moves, Rests, historyVars, StaleQueued, StaleRunning
<1>3. \A e \in Commands : \A d \in prior[e] : d \in Commands /\ (status'[e] \in Taken => status'[d] # "queued")
  BY Zenon, PriorRows DEF ExpireRows, IInv, Types, TypeOK, Taken, StaleQueued, StaleRunning
<1>4. \A e \in Commands : status'[e] \in {"stamped", "queued"} => age'[e] = age[e]
  BY Zenon DEF ExpireRows, StaleQueued, StaleRunning
<1> QED
  BY Zenon, <1>1, <1>2, <1>3, <1>4, QuietKeeps, QuietOrder DEF IInv, historyVars

\* Expire.
LEMMA ExpireKeeps ==
  ASSUME IInv, Expire
  PROVE  IInv'
BY Zenon, ExpireRowsKeeps DEF Expire

\* Expire when its second UPDATE fails.
LEMMA ExpireStopsHalfwayKeeps ==
  ASSUME IInv, ExpireStopsHalfway
  PROVE  IInv'
BY Zenon, ExpireRowsKeeps DEF ExpireStopsHalfway

\* ClearResults.
LEMMA ClearResultsKeeps ==
  ASSUME IInv, ClearResults
  PROVE  IInv'
<1>1. Types'
  BY Zenon DEF ClearResults, IInv, Types, TypeOK, historyVars
<1>2. Quiet
  BY Zenon DEF ClearResults, IInv, Types, TypeOK, Quiet, Moves, Rests, historyVars
<1>3. \A e \in Commands : \A d \in prior[e] : d \in Commands /\ (status'[e] \in Taken => status'[d] # "queued")
  BY Zenon, PriorRows DEF ClearResults, IInv, Types, TypeOK, Taken
<1> QED
  BY Zenon, <1>1, <1>2, <1>3, QuietKeeps, QuietOrder DEF IInv, ClearResults, historyVars

\* The clock: ages grow together up to MaxAge.
LEMMA TickKeeps ==
  ASSUME IInv, Tick
  PROVE  IInv'
<1>0. MaxAge \in Nat
  BY Zenon, OperatorAssumption
<1>1. Types'
  <2>1. age' \in [Commands -> 0..MaxAge]
    <3>1. \A c \in Commands : age[c] \in 0..MaxAge
      BY Zenon DEF IInv, Types, TypeOK
    <3>2. \A c \in Commands : age[c] < MaxAge => age[c] + 1 \in 0..MaxAge
      BY <1>0, <3>1
    <3> QED
      BY Zenon, <3>1, <3>2 DEF Tick
  <2> QED
    BY Zenon, <2>1 DEF Tick, IInv, Types, TypeOK, historyVars
<1>2. Quiet
  BY Zenon DEF Tick, IInv, Types, TypeOK, Quiet, Moves, Rests, historyVars
<1>3. OrderInv'
  <2> SUFFICES ASSUME NEW e \in Commands, NEW d \in prior[e]
               PROVE  Behind(d, e)'
    BY Zenon DEF OrderInv, Tick, historyVars
  <2>1. Behind(d, e) /\ d \in Commands
    BY Zenon DEF IInv, OrderInv, Types, TypeOK
  <2>2. \A x : Started(x)' <=> Started(x)
    BY Zenon DEF Tick, Started, historyVars
  <2>3. status[d] = "queued" /\ status[e] \in {"stamped", "queued"} => age'[d] > age'[e] \/ age'[d] = MaxAge
    <3> SUFFICES ASSUME status[d] = "queued", status[e] \in {"stamped", "queued"}
                 PROVE  age'[d] > age'[e] \/ age'[d] = MaxAge
      BY Zenon
    <3>1. age[d] \in 0..MaxAge /\ age[e] \in 0..MaxAge
      BY Zenon, <2>1 DEF IInv, Types, TypeOK
    <3>2. \A x \in {d, e} : age'[x] = IF age[x] < MaxAge THEN age[x] + 1 ELSE age[x]
      BY Zenon, <2>1 DEF Tick, Rows, Stamped
    <3>3. age[d] > age[e] \/ age[d] = MaxAge
      BY Zenon, <2>1 DEF Behind
    <3> QED
      BY <1>0, <3>1, <3>2, <3>3
  <2> QED
    BY Zenon, <2>1, <2>2, <2>3 DEF Tick, Behind, Begun
<1> QED
  BY Zenon, <1>1, <1>2, <1>3, QuietKeeps DEF IInv, Tick, historyVars, StartsInQueueOrder

-----------------------------------------------------------------------------
(* Agents that ask, give up or stop. *)

\* An agent with nothing left to run is of its type.
LEMMA RestingTyped ==
  ASSUME IInv, NEW h \in Hosts
  PROVE  /\ Idle \in AgentRecord
         /\ [agent EXCEPT ![h] = Idle] \in [Hosts -> AgentRecord]
         /\ agent[h].pc = "idle" => [agent EXCEPT ![h].pc = "asked"] \in [Hosts -> AgentRecord]
<1>1. <<>> \in Seq(Commands)
  OBVIOUS
<1> QED
  BY Zenon, <1>1 DEF IInv, Types, Idle, AgentRecord

\* The rows, their history and the reports under way stay; agents rest.
LEMMA RestKeeps ==
  ASSUME IInv, agent' \in [Hosts -> AgentRecord], \A h \in Hosts : Rests(h),
         orphans' \in [Hosts -> 0..MaxOrphans],
         UNCHANGED <<status, hostOf, age, answer, late, historyVars>>
  PROVE  IInv'
<1>1. Types'
  BY Zenon DEF IInv, Types, TypeOK, historyVars, AgentRecord
<1>2. Quiet
  BY Zenon DEF Quiet, Moves, historyVars
<1> QED
  BY Zenon, <1>1, <1>2, PriorRows, QuietKeeps, QuietOrder DEF IInv, historyVars

\* An agent asks for commands.
LEMMA AskKeeps ==
  ASSUME IInv, NEW h \in Hosts, Ask(h)
  PROVE  IInv'
<1>1. agent' \in [Hosts -> AgentRecord]
  BY Zenon, RestingTyped DEF Ask
<1>2. \A g \in Hosts : Rests(g)
  BY <1>1 DEF Ask, Rests, IInv, Types, BatchInv, BatchOK, AgentRecord
<1>3. orphans' \in [Hosts -> 0..MaxOrphans]
  BY Zenon DEF Ask, serverVars, IInv, Types, TypeOK
<1> QED
  BY Zenon, <1>1, <1>2, <1>3, RestKeeps DEF Ask, serverVars

\* An agent whose request or report failed, or that stopped, starts over.
LEMMA IdleKeeps ==
  ASSUME IInv, NEW h \in Hosts, agent' = [agent EXCEPT ![h] = Idle],
         orphans' \in [Hosts -> 0..MaxOrphans],
         UNCHANGED <<status, hostOf, age, answer, late, historyVars>>
  PROVE  IInv'
<1>1. agent' \in [Hosts -> AgentRecord]
  BY Zenon, RestingTyped
<1>2. \A g \in Hosts : Rests(g)
  BY Zenon, <1>1 DEF Rests, IInv, Types, Idle
<1> QED
  BY Zenon, <1>1, <1>2, RestKeeps

\* The request fails.
LEMMA AskFailsKeeps ==
  ASSUME IInv, NEW h \in Hosts, AskFails(h)
  PROVE  IInv'
BY Zenon, IdleKeeps DEF AskFails, serverVars, IInv, Types, TypeOK

\* The agent gives up its request.
LEMMA AskAbandonedKeeps ==
  ASSUME IInv, NEW h \in Hosts, AskAbandoned(h)
  PROVE  IInv'
<1>1. orphans[h] \in 0..MaxOrphans /\ MaxOrphans \in Nat
  BY Zenon, OperatorAssumption DEF IInv, Types, TypeOK
<1>2. orphans[h] + 1 \in 0..MaxOrphans
  BY <1>1 DEF AskAbandoned
<1>3. orphans' \in [Hosts -> 0..MaxOrphans]
  BY Zenon, <1>2 DEF AskAbandoned, IInv, Types, TypeOK
<1> QED
  BY Zenon, <1>3, IdleKeeps DEF AskAbandoned

\* The report fails.
LEMMA ReportFailsKeeps ==
  ASSUME IInv, NEW h \in Hosts, ReportFails(h)
  PROVE  IInv'
BY Zenon, IdleKeeps DEF ReportFails, serverVars, IInv, Types, TypeOK

\* The agent process stops.
LEMMA AgentStopsKeeps ==
  ASSUME IInv, NEW h \in Hosts, AgentStops(h)
  PROVE  IInv'
BY Zenon, IdleKeeps DEF AgentStops, serverVars, IInv, Types, TypeOK

\* The server process stops: stamped requests and late reports are gone.
LEMMA ServerStopsKeeps ==
  ASSUME IInv, ServerStops
  PROVE  IInv'
<1>1. agent' \in [Hosts -> AgentRecord]
  <2>1. \A h \in Hosts : agent[h] \in AgentRecord /\ Idle \in AgentRecord
    BY Zenon, RestingTyped DEF IInv, Types
  <2> QED
    BY Zenon, <2>1 DEF ServerStops
<1>2. Types'
  <2>1. orphans' \in [Hosts -> 0..MaxOrphans]
    <3>1. 0 \in 0..MaxOrphans
      BY OperatorAssumption
    <3> QED
      BY Zenon, <3>1 DEF ServerStops
  <2>2. status' \in [Commands -> Statuses]
    BY Zenon DEF ServerStops, Statuses, IInv, Types, TypeOK
  <2>3. \A h \in Hosts : agent'[h] \in AgentRecord
    BY Zenon, <1>1
  <2> QED
    BY Zenon, <1>1, <2>1, <2>2, <2>3 DEF ServerStops, historyVars, IInv, Types, TypeOK, AgentRecord
<1>3. \A h \in Hosts : Rests(h)
  BY Zenon DEF ServerStops, Rests, Idle
<1>4. \A c \in Commands : Moves(c)
  BY Zenon DEF ServerStops, Moves, Stamped
<1>5. Quiet
  BY Zenon, <1>1, <1>3, <1>4 DEF Quiet, ServerStops, historyVars
<1>6. \A e \in Commands : \A d \in prior[e] : d \in Commands /\ (status'[e] \in Taken => status'[d] # "queued")
  BY Zenon, PriorRows DEF ServerStops, Stamped, Taken
<1> QED
  BY Zenon, <1>2, <1>5, <1>6, QuietKeeps, QuietOrder DEF IInv, ServerStops, historyVars

-----------------------------------------------------------------------------
(* Claiming. *)

\* A claimed batch is a list of queued commands of the host, oldest first.
LEMMA BatchFacts ==
  ASSUME IInv, NEW h \in Hosts, NEW b \in Batches(h)
  PROVE  /\ b \in Seq(Commands) /\ DOMAIN b = 1..Len(b)
         /\ \A i \in DOMAIN b : b[i] \in Claimable(h)
         /\ \A i, j \in DOMAIN b : b[i] = b[j] => i = j
         /\ \A i, j \in DOMAIN b : i < j => age[b[i]] >= age[b[j]]
         /\ \A d \in Claimable(h) : d \notin Range(b) => \A i \in DOMAIN b : age[b[i]] >= age[d]
<1>1. PICK n \in 0..ClaimBatch : b \in [1..n -> Claimable(h)]
  BY Zenon DEF Batches
<1>2. n \in Nat /\ Claimable(h) \subseteq Commands
  BY <1>1, OperatorAssumption DEF Claimable
<1>3. b \in Seq(Claimable(h)) /\ DOMAIN b = 1..n /\ \A i \in 1..n : b[i] \in Claimable(h)
  BY <1>1, <1>2
<1>4. b \in Seq(Commands)
  <2>1. b \in [1..n -> Commands]
    BY Zenon, <1>1, <1>2
  <2> QED
    BY <1>2, <2>1
<1>5. /\ \A i, j \in DOMAIN b : i < j => b[i] # b[j] /\ age[b[i]] >= age[b[j]]
      /\ \A d \in Claimable(h) \ Range(b) : Len(b) = ClaimBatch /\ \A i \in DOMAIN b : age[b[i]] >= age[d]
  BY Zenon DEF Batches
<1>6. \A i, j \in DOMAIN b : b[i] = b[j] => i = j
  BY <1>2, <1>3, <1>5
<1> QED
  BY <1>3, <1>4, <1>5, <1>6

\* A command queued before one in the batch is ahead of it there, or is not queued any more.
LEMMA BatchInOrder ==
  ASSUME IInv, NEW h \in Hosts, NEW b \in Batches(h),
         NEW c \in Commands, NEW d \in prior[c], NEW i \in DOMAIN b, b[i] = c, status[d] = "queued"
  PROVE  /\ d \in StaleQueued \/ d \in Range(b)
         /\ \A j \in DOMAIN b : b[j] = d => j < i
<1>1. /\ Behind(d, c) /\ d \in Commands
      /\ hostOf[c] = h /\ status[c] = "queued" /\ age[c] <= QueuedExpiry
  <2>1. c \in Claimable(h)
    BY Zenon, BatchFacts
  <2>2. Behind(d, c) /\ d \in Commands
    BY Zenon DEF IInv, OrderInv, Types, TypeOK
  <2> QED
    BY Zenon, <2>1, <2>2 DEF Claimable
<1>2. age[c] \in 0..MaxAge /\ age[d] \in 0..MaxAge /\ MaxAge \in Nat /\ QueuedExpiry \in Nat /\ QueuedExpiry < MaxAge
  BY Zenon, <1>1, AgesTyped, OperatorAssumption
<1>3. hostOf[d] = h /\ (age[d] > age[c] \/ age[d] = MaxAge)
  BY Zenon, <1>1 DEF Behind
<1>4. age[d] > age[c]
  BY <1>1, <1>2, <1>3
<1>5. ASSUME d \notin StaleQueued
      PROVE  d \in Range(b)
  <2>1. d \in Claimable(h)
    BY <1>1, <1>2, <1>3, <1>5 DEF Claimable, StaleQueued
  <2>2. d \notin Range(b) => age[c] >= age[d]
    BY Zenon, <2>1, BatchFacts
  <2> QED
    BY <1>2, <1>4, <2>2
<1>6. ASSUME NEW j \in DOMAIN b, b[j] = d
      PROVE  j < i
  <2>1. i \in Int /\ j \in Int
    BY BatchFacts
  <2>2. i < j => age[c] >= age[d]
    BY Zenon, <1>6, BatchFacts
  <2>3. i # j
    BY <1>2, <1>4, <1>6
  <2> QED
    BY <1>2, <1>4, <2>1, <2>2, <2>3
<1> QED
  BY Zenon, <1>5, <1>6

\* The rows after a claim: the batch is running, what was stale is closed.
LEMMA ClaimedRows ==
  ASSUME IInv, NEW h \in Hosts, NEW b \in Batches(h), ClaimRows(b)
  PROVE  /\ status' \in [Commands -> Statuses] /\ age' \in [Commands -> 0..MaxAge]
         /\ answer' \in [Commands -> {"none", "result", "error", "no result"}]
         /\ \A c \in Commands : Moves(c)
         /\ \A c \in Commands : status'[c] \in {"stamped", "queued"} => age'[c] = age[c]
         /\ \A c \in Commands : \A d \in prior[c] : status'[c] \in Taken => status'[d] # "queued"
<1>1. \A c \in Range(b) : c \in Commands /\ hostOf[c] = h /\ status[c] = "queued"
  BY BatchFacts DEF Range, Claimable
<1>2. age' \in [Commands -> 0..MaxAge]
  <2>1. age' = [c \in Commands |-> IF c \in Range(b) \cup StaleQueued \cup StaleRunning THEN 0 ELSE age[c]]
    BY Zenon DEF ClaimRows
  <2>2. \A c \in Commands : age'[c] \in 0..MaxAge
    BY Zenon, <2>1, AgesTyped
  <2> QED
    BY Zenon, <2>1, <2>2
<1>3. status' \in [Commands -> Statuses] /\ answer' \in [Commands -> {"none", "result", "error", "no result"}]
  BY Zenon DEF ClaimRows, IInv, Types, TypeOK, Statuses, Closed
<1>4. \A c \in Commands : Moves(c)
  BY Zenon, <1>1 DEF ClaimRows, Moves, StaleQueued, StaleRunning
<1>5. \A c \in Commands : status'[c] \in {"stamped", "queued"} => age'[c] = age[c]
  BY Zenon, <1>1 DEF ClaimRows, StaleQueued, StaleRunning
<1>6. ASSUME NEW c \in Commands, NEW d \in prior[c], status'[c] \in Taken
      PROVE  status'[d] # "queued"
  <2>1. d \in Commands /\ (status[c] \in Taken => status[d] # "queued") /\ status[d] # "stamped"
    BY Zenon, PriorRows
  <2>2. CASE c \in Range(b)
    <3>1. PICK i \in DOMAIN b : b[i] = c
      BY Zenon, <2>2 DEF Range
    <3>2. status[d] = "queued" => d \in StaleQueued \/ d \in Range(b)
      BY Zenon, <3>1, BatchInOrder
    <3> QED
      BY Zenon, <2>1, <3>2 DEF ClaimRows, StaleRunning
  <2>3. CASE c \notin Range(b)
    <3>1. status[c] \in Taken
      BY Zenon, <1>6, <2>3 DEF ClaimRows, StaleQueued, StaleRunning, Taken
    <3> QED
      BY Zenon, <2>1, <3>1 DEF ClaimRows
  <2> QED
    BY Zenon, <2>2, <2>3
<1> QED
  BY Zenon, <1>2, <1>3, <1>4, <1>5, <1>6

\* What is claimed was queued and is marked running.
LEMMA ClaimedBatch ==
  ASSUME IInv, NEW h \in Hosts, NEW b \in Batches(h), ClaimRows(b), NEW i \in DOMAIN b
  PROVE  /\ b[i] \in Commands /\ hostOf[b[i]] = h /\ status[b[i]] = "queued"
         /\ status'[b[i]] = "running" /\ answer'[b[i]] = answer[b[i]]
<1>1. PICK c : c = b[i]
  BY Zenon
<1>2. c \in Range(b) /\ c \in Commands /\ hostOf[c] = h /\ status[c] = "queued"
  BY Zenon, <1>1, BatchFacts DEF Range, Claimable
<1>3. status'[c] = "running" /\ answer'[c] = answer[c]
  BY Zenon, <1>2 DEF ClaimRows, StaleRunning
<1> QED
  BY Zenon, <1>1, <1>2, <1>3

\* A claim nobody waits for takes commands out of the queue for good.
LEMMA ClaimUnheardKeeps ==
  ASSUME IInv, NEW h \in Hosts, ClaimUnheard(h)
  PROVE  IInv'
<1>1. PICK b \in Batches(h) : ClaimRows(b)
  BY Zenon DEF ClaimUnheard
<1>2. orphans' \in [Hosts -> 0..MaxOrphans]
  <2>1. orphans[h] \in 0..MaxOrphans /\ MaxOrphans \in Nat
    BY Zenon, OperatorAssumption DEF IInv, Types, TypeOK
  <2>2. orphans[h] - 1 \in 0..MaxOrphans
    BY <2>1 DEF ClaimUnheard
  <2> QED
    BY Zenon, <2>2 DEF ClaimUnheard, IInv, Types, TypeOK
<1>3. Types'
  BY Zenon, <1>1, <1>2, ClaimedRows DEF ClaimUnheard, IInv, Types, TypeOK, historyVars
<1>4. Quiet
  BY Zenon, <1>1, ClaimedRows DEF ClaimUnheard, Quiet, Rests, IInv, Types, historyVars
<1> QED
  BY Zenon, <1>1, <1>3, <1>4, ClaimedRows, QuietKeeps, QuietOrder DEF ClaimUnheard, IInv, historyVars


\* A batch stays in order while its agent waits and its rows stay open.
LEMMA BatchStays ==
  ASSUME IInv, NEW g \in Hosts, agent'[g] = agent[g], hostOf' = hostOf,
         \A c \in Commands : Started(c) => Started(c)',
         \A i \in DOMAIN agent[g].batch : \A c \in Commands : c = agent[g].batch[i] =>
           /\ Started(c)' => Started(c)
           /\ status'[c] \in {"running", "failed"} /\ answer'[c] # "error"
  PROVE  BatchOK(g)'
<1>1. agent[g].batch \in Seq(Commands) /\ BatchOK(g)
  BY Zenon DEF IInv, Types, BatchInv, AgentRecord
<1>2. \A i \in DOMAIN agent[g].batch : agent[g].batch[i] \in Commands
  BY <1>1
<1>3. \A i \in DOMAIN agent[g].batch : Started(agent[g].batch[i])' => Begun(g, i)'
  <2> SUFFICES ASSUME NEW i \in DOMAIN agent[g].batch, NEW c \in Commands, c = agent[g].batch[i], Started(c)'
               PROVE  Begun(g, i)'
    BY Zenon, <1>2 DEF Started
  <2> QED
    BY Zenon, <1>1 DEF BatchOK, Begun
<1>4. agent[g].pc = "executing" => Started(agent[g].batch[1])'
  <2> SUFFICES ASSUME agent[g].pc = "executing"
               PROVE  Started(agent[g].batch[1])'
    BY Zenon
  <2>1. agent[g].batch # <<>>
    BY Zenon, <1>1 DEF BatchOK
  <2>2. PICK c \in Commands : c = agent[g].batch[1]
    BY <1>1, <2>1
  <2>3. Started(c)'
    BY Zenon, <1>1, <2>2 DEF BatchOK
  <2> QED
    BY Zenon, <2>2, <2>3 DEF Started
<1> QED
  BY Zenon, <1>1, <1>2, <1>3, <1>4 DEF BatchOK

\* The first of what is left of a batch.
LEMMA FirstLeft ==
  ASSUME IInv, NEW h \in Hosts, agent[h].pc \in {"next", "executing", "reporting"}
  PROVE  /\ 1 \in DOMAIN agent[h].batch /\ Head(agent[h].batch) = agent[h].batch[1]
         /\ agent[h].batch[1] \in Commands /\ hostOf[agent[h].batch[1]] = h
         /\ status[agent[h].batch[1]] \in {"running", "failed"} /\ answer[agent[h].batch[1]] # "error"
         /\ agent[h].batch \in Seq(Commands) /\ agent[h].batch # <<>>
<1>1. agent[h].batch \in Seq(Commands) /\ BatchOK(h)
  BY Zenon DEF IInv, Types, BatchInv, AgentRecord
<1>2. agent[h].batch # <<>>
  BY Zenon, <1>1 DEF BatchOK
<1>3. 1 \in DOMAIN agent[h].batch /\ Head(agent[h].batch) = agent[h].batch[1] /\ agent[h].batch[1] \in Commands
  BY <1>1, <1>2
<1> QED
  BY Zenon, <1>1, <1>2, <1>3 DEF BatchOK

\* A claim hands its commands to the agent that asked.
LEMMA ClaimKeeps ==
  ASSUME IInv, NEW h \in Hosts, Claim(h)
  PROVE  IInv'
<1>1. PICK b \in Batches(h) :
        /\ ClaimRows(b)
        /\ agent' = [agent EXCEPT ![h] = IF b = <<>> THEN Idle
                                         ELSE [pc |-> "next", batch |-> b, report |-> "none"]]
  BY Zenon DEF Claim
<1>2. /\ b \in Seq(Commands) /\ DOMAIN b = 1..Len(b)
      /\ UNCHANGED <<hostOf, orphans, late, ran, outcome, prior>>
      /\ agent \in [Hosts -> AgentRecord]
  BY Zenon, BatchFacts DEF Claim, historyVars, IInv, Types
<1>3. agent' \in [Hosts -> AgentRecord]
  BY Zenon, <1>1, <1>2, RestingTyped DEF AgentRecord
<1>4. Types'
  <2>1. \A g \in Hosts : agent'[g] \in AgentRecord
    BY Zenon, <1>3
  <2> QED
    BY Zenon, <1>1, <1>2, <1>3, <2>1, ClaimedRows DEF IInv, Types, TypeOK, AgentRecord
<1>5. CASE b = <<>>
  <2>1. \A g \in Hosts : Rests(g)
    BY Zenon, <1>1, <1>2, <1>5 DEF Rests, Idle
  <2>2. Quiet
    BY Zenon, <1>1, <1>2, <1>3, <2>1, ClaimedRows DEF Quiet
  <2> QED
    BY Zenon, <1>1, <1>2, <1>4, <2>2, ClaimedRows, QuietKeeps, QuietOrder DEF IInv
<1>6. CASE b # <<>>
  <2>1. /\ agent'[h] = [pc |-> "next", batch |-> b, report |-> "none"]
        /\ \A g \in Hosts : g # h => agent'[g] = agent[g]
    BY Zenon, <1>1, <1>2, <1>6
  <2>2. /\ \A c \in Commands : Moves(c)
        /\ \A i \in DOMAIN b : /\ b[i] \in Commands /\ hostOf[b[i]] = h /\ status[b[i]] = "queued"
                               /\ status'[b[i]] = "running" /\ answer'[b[i]] = answer[b[i]]
    <3>1. \A c \in Commands : Moves(c)
      BY Zenon, <1>1, ClaimedRows
    <3>2. \A i \in DOMAIN b : /\ b[i] \in Commands /\ hostOf[b[i]] = h /\ status[b[i]] = "queued"
                              /\ status'[b[i]] = "running" /\ answer'[b[i]] = answer[b[i]]
      BY <1>1, ClaimedBatch
    <3> QED
      BY Zenon, <3>1, <3>2
  <2>3. \A c : Started(c)' <=> Started(c)
    BY Zenon, <1>2 DEF Started
  <2>4. \A c \in Commands : Started(c) => status[c] \in Taken
    BY Zenon DEF IInv, RanInv, Started
  <2>5. \A i \in DOMAIN b : ~Started(b[i]) /\ answer[b[i]] # "error"
    BY Zenon, <2>2, <2>4 DEF IInv, RowInv, Taken
  <2>6. BatchInv'
    <3> SUFFICES ASSUME NEW g \in Hosts
                 PROVE  BatchOK(g)'
      BY Zenon DEF BatchInv
    <3>1. CASE g = h
      <4>1. \A i \in DOMAIN b : ~Started(b[i])'
        BY Zenon, <1>2, <2>5 DEF Started
      <4>2. \A i, j \in DOMAIN b : b[i] = b[j] => i = j
        BY Zenon, BatchFacts
      <4> QED
        BY <1>2, <1>6, <2>1, <2>2, <2>5, <3>1, <4>1, <4>2 DEF BatchOK, Started
    <3>2. CASE g # h
      <4>1. \A i \in DOMAIN agent[g].batch : \A c \in Commands : c = agent[g].batch[i] =>
              status[c] \in {"running", "failed"} /\ answer[c] # "error"
        BY DEF IInv, BatchInv, BatchOK
      <4>2. \A c \in Commands : status[c] \in {"running", "failed"} /\ answer[c] # "error" =>
              status'[c] \in {"running", "failed"} /\ answer'[c] # "error"
        BY Zenon, <2>2 DEF Moves
      <4> QED
        BY Zenon, <1>2, <2>1, <2>3, <3>2, <4>1, <4>2, BatchStays
    <3> QED
      BY Zenon, <3>1, <3>2
  <2>7. \A c \in Commands : status[c] \in Taken => status'[c] \in Taken
    BY Zenon, <2>2 DEF Moves, Taken
  <2>8. ReportInv'
    <3>1. ASSUME NEW g \in Hosts, agent'[g].pc = "reporting"
          PROVE  Truthful(agent[g].batch[1], agent[g].report)'
      BY <1>2, <2>1, <3>1 DEF IInv, ReportInv, Truthful
    <3>2. ASSUME NEW r \in late
          PROVE  /\ Truthful(r.command, r.report)'
                 /\ status'[r.command] \in Taken
                 /\ \A g \in Hosts : \A i \in DOMAIN agent'[g].batch : agent'[g].batch[i] # r.command
      <4>1. r.command \in Commands /\ status[r.command] \in Taken /\ Truthful(r.command, r.report)
        BY Zenon DEF IInv, Types, TypeOK, ReportInv
      <4>2. Truthful(r.command, r.report)'
        BY Zenon, <1>2, <4>1 DEF Truthful
      <4> QED
        BY <2>1, <2>2, <2>7, <4>1, <4>2 DEF IInv, ReportInv, Taken
    <3> QED
      BY Zenon, <1>2, <3>1, <3>2 DEF ReportInv, Truthful
  <2>9. RanInv'
    BY Zenon, <1>2, <2>3, <2>7, RanTyped DEF IInv, RanInv
  <2>10. RowInv'
    BY Zenon, <1>2, <2>2 DEF IInv, RowInv, Moves
  <2>11. OrderInv'
    <3> SUFFICES ASSUME NEW c \in Commands, NEW d \in prior[c]
                 PROVE  Behind(d, c)'
      BY Zenon, <1>2 DEF OrderInv
    <3>1. Behind(d, c) /\ d \in Commands
      BY Zenon, PriorRows DEF IInv, OrderInv
    <3>2. /\ hostOf'[d] = hostOf'[c]
          /\ status'[d] \notin {"new", "stamped", "dropped"} /\ status'[c] # "new"
      BY Zenon, <1>2, <2>2, <3>1 DEF Moves, Behind
    <3>3. status'[d] = "queued" /\ status'[c] \in {"stamped", "queued"} => age'[d] > age'[c] \/ age'[d] = MaxAge
      <4>1. \A e \in Commands : status'[e] \in {"stamped", "queued"} => age'[e] = age[e]
        BY Zenon, <1>1, ClaimedRows
      <4> QED
        BY Zenon, <2>2, <3>1, <4>1 DEF Moves, Behind
    <3>4. status'[c] \in Taken => status'[d] # "queued"
      BY Zenon, <1>1, ClaimedRows
    <3>5. ASSUME NEW g \in Hosts, NEW i \in DOMAIN agent'[g].batch, agent'[g].batch[i] = d
          PROVE  /\ Started(c)' => Begun(g, i)'
                 /\ \A j \in DOMAIN agent'[g].batch : agent'[g].batch[j] = c => i < j
      <4>1. CASE g # h
        BY Zenon, <2>1, <2>3, <3>1, <3>5, <4>1 DEF Behind, Begun
      <4>2. CASE g = h
        <5>1. i \in DOMAIN b /\ b[i] = d /\ status[d] = "queued"
          BY <2>1, <2>2, <3>5, <4>2
        <5>2. ~Started(c)
          BY Zenon, <2>4, <3>1, <5>1 DEF Behind
        <5>3. \A j \in DOMAIN b : b[j] = c => i < j
          BY Zenon, <5>1, BatchInOrder
        <5> QED
          BY <2>1, <2>3, <4>2, <5>2, <5>3
      <4> QED
        BY Zenon, <4>1, <4>2
    <3> QED
      BY Zenon, <3>2, <3>3, <3>4, <3>5 DEF Behind
  <2> QED
    BY Zenon, <1>2, <1>4, <2>6, <2>8, <2>9, <2>10, <2>11 DEF IInv, StartsInQueueOrder
<1> QED
  BY Zenon, <1>5, <1>6

-----------------------------------------------------------------------------
(* Running and reporting. *)

\* A start adds the first command left of the batch to those started.
LEMMA StartedAfter ==
  ASSUME IInv, NEW h \in Hosts, Start(h)
  PROVE  /\ ran' \in Seq(Runs) /\ DOMAIN ran = 1..Len(ran) /\ Len(ran) \in Nat
         /\ DOMAIN ran' = 1..(Len(ran) + 1)
         /\ \A i \in DOMAIN ran : ran'[i] = ran[i]
         /\ \A i \in DOMAIN ran' : i \in DOMAIN ran \/ i = Len(ran) + 1
         /\ ran'[Len(ran) + 1].command = agent[h].batch[1]
         /\ ran'[Len(ran) + 1].host = h
         /\ \A c : Started(c)' <=> Started(c) \/ c = agent[h].batch[1]
         /\ ~Started(agent[h].batch[1])
<1> DEFINE e == [command |-> agent[h].batch[1], host |-> h]
<1>1. e \in Runs /\ ran \in Seq(Runs) /\ ran' = Append(ran, e)
  BY Zenon, FirstLeft DEF Start, Runs, IInv, Types, TypeOK
<1>2. /\ ran' \in Seq(Runs) /\ DOMAIN ran = 1..Len(ran) /\ Len(ran) \in Nat
      /\ DOMAIN ran' = 1..(Len(ran) + 1)
      /\ \A i \in DOMAIN ran : ran'[i] = ran[i]
      /\ ran'[Len(ran) + 1] = e
  <2> HIDE DEF e
  <2> QED
    BY <1>1
<1>5. \A i \in DOMAIN ran' : i \in DOMAIN ran \/ i = Len(ran) + 1
  BY <1>2
<1>3. \A c : Started(c)' <=> Started(c) \/ c = agent[h].batch[1]
  <2> SUFFICES ASSUME NEW c
               PROVE  Started(c)' <=> Started(c) \/ c = agent[h].batch[1]
    BY Zenon
  <2>2. DOMAIN ran \subseteq DOMAIN ran' /\ Len(ran) + 1 \in DOMAIN ran' /\ e.command = agent[h].batch[1]
    BY <1>2
  <2> HIDE DEF e
  <2> QED
    BY Zenon, <1>2, <1>5, <2>2 DEF Started
<1>4. ~Started(agent[h].batch[1])
  BY Zenon, FirstLeft DEF Start, IInv, BatchInv, BatchOK, Begun
<1> QED
  BY <1>2, <1>3, <1>4, <1>5

\* The executable is started for the first command left.
LEMMA StartKeeps ==
  ASSUME IInv, NEW h \in Hosts, Start(h)
  PROVE  IInv'
<1>1. PICK c \in Commands : c = agent[h].batch[1]
  BY Zenon, FirstLeft DEF Start
<1>2. /\ UNCHANGED <<status, hostOf, age, answer, orphans, late, outcome, prior>>
      /\ agent \in [Hosts -> AgentRecord]
      /\ agent' = [agent EXCEPT ![h].pc = "executing"] /\ agent[h].pc = "next"
  BY Zenon DEF Start, serverVars, IInv, Types
<1>3. /\ agent' \in [Hosts -> AgentRecord]
      /\ agent'[h].pc = "executing" /\ agent'[h].batch = agent[h].batch
      /\ \A g \in Hosts : g # h => agent'[g] = agent[g]
      /\ \A g \in Hosts : agent'[g].batch = agent[g].batch
  BY Zenon, <1>2 DEF AgentRecord
<1>4. /\ 1 \in DOMAIN agent[h].batch /\ hostOf[c] = h /\ status[c] \in {"running", "failed"} /\ answer[c] # "error"
      /\ agent[h].batch \in Seq(Commands) /\ agent[h].batch # <<>> /\ BatchOK(h)
  BY Zenon, <1>1, <1>2, FirstLeft DEF IInv, BatchInv
<1>5. /\ \A e : Started(e)' <=> Started(e) \/ e = c
      /\ ~Started(c)
  BY Zenon, <1>1, StartedAfter
<1>a. /\ DOMAIN ran = 1..Len(ran) /\ Len(ran) \in Nat
      /\ \A i \in DOMAIN ran' : i \in DOMAIN ran \/ i = Len(ran) + 1
      /\ \A i \in DOMAIN ran : ran'[i] = ran[i]
      /\ ran'[Len(ran) + 1].command = c
      /\ ran'[Len(ran) + 1].host = h
  BY Zenon, <1>1, StartedAfter
<1>6. Types'
  <2>1. \A g \in Hosts : agent'[g] \in AgentRecord
    BY Zenon, <1>3
  <2>2. ran' \in Seq(Runs)
    BY Zenon, StartedAfter
  <2> QED
    BY Zenon, <1>2, <1>3, <2>1, <2>2 DEF IInv, Types, TypeOK, AgentRecord
<1>7. BatchInv'
  <2> SUFFICES ASSUME NEW g \in Hosts
               PROVE  BatchOK(g)'
    BY Zenon DEF BatchInv
  <2>1. CASE g = h
    <3>1. \A i \in DOMAIN agent[h].batch : agent[h].batch[i] \in Commands /\ (agent[h].batch[i] = c => i = 1)
      BY <1>1, <1>4 DEF BatchOK
    <3>2. \A i \in DOMAIN agent[h].batch : \A e : e = agent[h].batch[i] /\ Started(e)' => i = 1
      BY <1>4, <1>5, <3>1 DEF BatchOK, Begun
    <3>3. \A i \in DOMAIN agent[h].batch : Started(agent[h].batch[i])' => Begun(h, i)'
      BY Zenon, <1>3, <3>2 DEF Begun, Started
    <3>4. Started(agent[h].batch[1])'
      BY Zenon, <1>1, <1>3, <1>5 DEF Started
    <3> QED
      BY <1>2, <1>3, <1>4, <2>1, <3>3, <3>4 DEF BatchOK
  <2>2. CASE g # h
    <3>1. \A i \in DOMAIN agent[g].batch : \A e \in Commands : e = agent[g].batch[i] =>
            e # c /\ status[e] \in {"running", "failed"} /\ answer[e] # "error"
      BY <1>4, <2>2 DEF IInv, BatchInv, BatchOK
    <3> QED
      BY <1>2, <1>3, <1>5, <2>2, <3>1, BatchStays
  <2> QED
    BY Zenon, <2>1, <2>2
<1>8. ReportInv'
  <2>1. ASSUME NEW g \in Hosts, agent'[g].pc = "reporting"
        PROVE  Truthful(agent[g].batch[1], agent[g].report)'
    BY Zenon, <1>2, <1>3, <2>1 DEF IInv, ReportInv, Truthful
  <2>2. \A r \in late : Truthful(r.command, r.report)'
    BY Zenon, <1>2 DEF IInv, ReportInv, Truthful
  <2> QED
    BY <1>2, <1>3, <2>1, <2>2 DEF IInv, ReportInv
<1>9. RanInv'
  <2>1. \A i \in DOMAIN ran' : i \in DOMAIN ran \/ i = Len(ran) + 1
    BY Zenon, <1>a
  <2>2. \A i \in DOMAIN ran : ran'[i] = ran[i] /\ ran[i].command # c
    BY Zenon, <1>5, <1>a DEF Started
  <2>3. ran'[Len(ran) + 1].command = c /\ ran'[Len(ran) + 1].host = h
    BY Zenon, <1>1, <1>a
  <2>4. \A i \in DOMAIN ran' : status[ran'[i].command] \in Taken /\ ran'[i].host = hostOf[ran'[i].command]
    BY <1>4, <2>1, <2>2, <2>3 DEF IInv, RanInv, Taken
  <2>5. \A i, j \in DOMAIN ran' : ran'[i].command = ran'[j].command => i = j
    BY Zenon, <2>1, <2>2, <2>3 DEF IInv, RanInv
  <2> QED
    BY Zenon, <1>2, <1>5, <2>4, <2>5 DEF IInv, RanInv
<1>10. RowInv'
  BY Zenon, <1>2 DEF IInv, RowInv
<1>11. OrderInv'
  <2> SUFFICES ASSUME NEW e \in Commands, NEW d \in prior[e]
               PROVE  Behind(d, e)'
    BY Zenon, <1>2 DEF OrderInv
  <2>1. Behind(d, e)
    BY Zenon DEF IInv, OrderInv
  <2>2. ASSUME NEW g \in Hosts, NEW i \in DOMAIN agent[g].batch, agent[g].batch[i] = d, Started(e)'
        PROVE  Begun(g, i)'
    <3>1. CASE Started(e)
      BY Zenon, <1>3, <2>1, <2>2, <3>1 DEF Behind, Begun
    <3>2. CASE e = c
      <4>1. g = h
        BY Zenon, <1>4, <2>1, <2>2, <3>2 DEF Behind, IInv, BatchInv, BatchOK
      <4>2. i < 1 /\ i \in 1..Len(agent[h].batch)
        BY <1>1, <1>4, <2>1, <2>2, <3>2, <4>1 DEF Behind
      <4> QED
        BY <4>2
    <3> QED
      BY Zenon, <1>5, <2>2, <3>1, <3>2
  <2> QED
    BY <1>2, <1>3, <2>1, <2>2 DEF Behind
<1>12. StartsInQueueOrder'
  <2>1. \A i \in DOMAIN ran' : i \in DOMAIN ran \/ i = Len(ran) + 1
    BY <1>a
  <2>2. ASSUME NEW i \in DOMAIN ran', NEW j \in DOMAIN ran', i < j
        PROVE  ran'[j].command \notin prior[ran'[i].command]
    <3>1. i \in DOMAIN ran /\ ran'[i] = ran[i] /\ i \in Int /\ j \in Int
      BY <2>1, <2>2, <1>a
    <3>2. CASE j \in DOMAIN ran
      BY Zenon, <2>2, <3>1, <3>2, <1>a DEF IInv, StartsInQueueOrder
    <3>3. CASE j = Len(ran) + 1
      <4>1. PICK e \in Commands : e = ran[i].command
        BY Zenon, <3>1, RanTyped
      <4>2. ran'[j].command = c /\ Started(e)
        BY Zenon, <1>1, <3>1, <3>3, <4>1, <1>a DEF Started
      <4>3. c \in prior[e] => Begun(h, 1)
        BY Zenon, <1>1, <1>4, <4>1, <4>2 DEF IInv, OrderInv, Behind
      <4> QED
        BY Zenon, <1>2, <3>1, <4>1, <4>2, <4>3 DEF Begun
    <3> QED
      BY Zenon, <2>1, <3>2, <3>3
  <2> QED
    BY Zenon, <1>2, <2>2 DEF StartsInQueueOrder
<1> QED
  BY Zenon, <1>6, <1>7, <1>8, <1>9, <1>10, <1>11, <1>12 DEF IInv


\* The first command left is over, run or refused, and its report is to be made.
LEMMA OverKeeps ==
  ASSUME IInv, NEW h \in Hosts, NEW r \in {"done", "failed"},
         agent' = [agent EXCEPT ![h].pc = "reporting", ![h].report = r],
         UNCHANGED <<serverVars, ran, prior>>,
         \/ agent[h].pc = "next" /\ r = "failed" /\ outcome' = outcome
         \/ agent[h].pc = "executing" /\ outcome' = [outcome EXCEPT ![agent[h].batch[1]] = r]
  PROVE  IInv'
<1>1. PICK c \in Commands : c = agent[h].batch[1]
  BY Zenon, FirstLeft
<1>2. /\ 1 \in DOMAIN agent[h].batch /\ hostOf[c] = h /\ status[c] \in {"running", "failed"} /\ answer[c] # "error"
      /\ agent[h].batch \in Seq(Commands) /\ agent[h].batch # <<>> /\ BatchOK(h)
  BY Zenon, <1>1, FirstLeft DEF IInv, BatchInv
<1>3. /\ UNCHANGED <<status, hostOf, age, answer, orphans, late, ran, prior>>
      /\ agent \in [Hosts -> AgentRecord] /\ outcome \in [Commands -> {"none", "done", "failed"}]
  BY Zenon DEF serverVars, IInv, Types, TypeOK
<1>4. /\ agent' \in [Hosts -> AgentRecord]
      /\ agent'[h].pc = "reporting" /\ agent'[h].report = r
      /\ \A g \in Hosts : g # h => agent'[g] = agent[g]
      /\ \A g \in Hosts : agent'[g].batch = agent[g].batch
  BY Zenon, <1>3 DEF AgentRecord
<1>5. /\ outcome' \in [Commands -> {"none", "done", "failed"}]
      /\ \A e \in Commands : e # c => outcome'[e] = outcome[e]
  BY Zenon, <1>1, <1>3
<1>6. \A e : Started(e)' <=> Started(e)
  BY Zenon, <1>3 DEF Started
<1>7. /\ Truthful(c, r)'
      /\ outcome'[c] # "none" => Started(c)
  <2>1. CASE agent[h].pc = "next" /\ r = "failed" /\ outcome' = outcome
    <3>1. ~Started(c)
      BY Zenon, <1>1, <1>2, <2>1 DEF BatchOK, Begun
    <3>2. outcome[c] = "none"
      BY Zenon, <3>1 DEF IInv, RanInv
    <3> QED
      BY Zenon, <2>1, <3>2 DEF Truthful
  <2>2. CASE agent[h].pc = "executing" /\ outcome' = [outcome EXCEPT ![agent[h].batch[1]] = r]
    BY Zenon, <1>1, <1>2, <1>3, <2>2 DEF BatchOK, Truthful
  <2> QED
    BY Zenon, <2>1, <2>2
<1>8. Types'
  <2>1. \A g \in Hosts : agent'[g] \in AgentRecord
    BY Zenon, <1>4
  <2> QED
    BY Zenon, <1>3, <1>4, <1>5, <2>1 DEF IInv, Types, TypeOK, AgentRecord
<1>9. BatchInv'
  <2> SUFFICES ASSUME NEW g \in Hosts
               PROVE  BatchOK(g)'
    BY Zenon DEF BatchInv
  <2>1. CASE g = h
    <3>1. \A i \in DOMAIN agent[h].batch : Started(agent[h].batch[i])' => Begun(h, i)'
      BY <1>2, <1>3, <1>4 DEF BatchOK, Begun, Started
    <3> QED
      BY <1>2, <1>3, <1>4, <2>1, <3>1 DEF BatchOK
  <2>2. CASE g # h
    <3>1. \A i \in DOMAIN agent[g].batch : \A e \in Commands : e = agent[g].batch[i] =>
            status[e] \in {"running", "failed"} /\ answer[e] # "error"
      BY DEF IInv, BatchInv, BatchOK
    <3> QED
      BY <1>3, <1>4, <1>6, <2>2, <3>1, BatchStays
  <2> QED
    BY Zenon, <2>1, <2>2
<1>10. ReportInv'
  <2>1. ASSUME NEW g \in Hosts, agent'[g].pc = "reporting"
        PROVE  Truthful(agent[g].batch[1], agent[g].report)'
    <3>1. CASE g = h
      BY Zenon, <1>1, <1>4, <1>7, <3>1 DEF Truthful
    <3>2. CASE g # h
      <4>1. agent[g].pc = "reporting"
        BY Zenon, <1>4, <2>1, <3>2
      <4>2. PICK e \in Commands : e = agent[g].batch[1] /\ hostOf[e] = g
        BY <4>1, FirstLeft
      <4>3. e # c
        BY Zenon, <1>2, <3>2, <4>2
      <4> QED
        BY <1>4, <1>5, <3>2, <4>1, <4>2, <4>3 DEF IInv, ReportInv, Truthful
    <3> QED
      BY Zenon, <3>1, <3>2
  <2>2. ASSUME NEW q \in late
        PROVE  Truthful(q.command, q.report)'
    <3>1. q.command \in Commands
      BY Zenon DEF IInv, Types, TypeOK
    <3>2. q.command # c
      BY Zenon, <1>1, <1>2 DEF IInv, ReportInv
    <3> QED
      BY Zenon, <1>5, <3>1, <3>2 DEF IInv, ReportInv, Truthful
  <2> QED
    BY <1>3, <1>4, <2>1, <2>2 DEF IInv, ReportInv
<1>11. RanInv'
  <2>1. \A e \in Commands : outcome'[e] # "none" => Started(e)'
    BY Zenon, <1>5, <1>6, <1>7 DEF IInv, RanInv
  <2> QED
    BY Zenon, <1>3, <2>1 DEF IInv, RanInv
<1>12. RowInv'
  BY Zenon, <1>2, <1>3, <1>5 DEF IInv, RowInv
<1>13. OrderInv'
  <2> SUFFICES ASSUME NEW e \in Commands, NEW d \in prior[e]
               PROVE  Behind(d, e)'
    BY Zenon, <1>3 DEF OrderInv
  <2>1. Behind(d, e)
    BY Zenon DEF IInv, OrderInv
  <2>2. \A g \in Hosts : \A i : Begun(g, i) => Begun(g, i)'
    BY Zenon, <1>4 DEF Begun
  <2> QED
    BY <1>3, <1>4, <1>6, <2>1, <2>2 DEF Behind
<1>14. StartsInQueueOrder'
  BY Zenon, <1>3 DEF IInv, StartsInQueueOrder
<1> QED
  BY Zenon, <1>8, <1>9, <1>10, <1>11, <1>12, <1>13, <1>14 DEF IInv

\* The host does not accept the command.
LEMMA RefuseKeeps ==
  ASSUME IInv, NEW h \in Hosts, Refuse(h)
  PROVE  IInv'
BY Zenon, OverKeeps DEF Refuse, historyVars

\* The executable ends.
LEMMA FinishKeeps ==
  ASSUME IInv, NEW h \in Hosts, Finish(h)
  PROVE  IInv'
<1>1. PICK r \in {"done", "failed"} :
        /\ outcome' = [outcome EXCEPT ![agent[h].batch[1]] = r]
        /\ agent' = [agent EXCEPT ![h].pc = "reporting", ![h].report = r]
  BY Zenon, FirstLeft DEF Finish, ReportFor
<1> QED
  BY Zenon, <1>1, OverKeeps DEF Finish


(* An agent goes on, starts over, or has reported on the first command left. *)
Trims(g) ==
  \/ agent'[g] = agent[g]
  \/ agent'[g].pc = "idle" /\ agent'[g].batch = <<>>
  \/ /\ agent[g].pc = "reporting" /\ agent'[g].pc = "next"
     /\ Len(agent[g].batch) > 1 /\ agent'[g].batch = Tail(agent[g].batch)

\* What is left after a report is what was left after the first.
LEMMA Trimmed ==
  ASSUME IInv, NEW g \in Hosts, Trims(g)
  PROVE  \/ agent'[g] = agent[g]
         \/ agent'[g].pc = "idle" /\ agent'[g].batch = <<>> /\ DOMAIN agent'[g].batch = {}
         \/ /\ agent[g].pc = "reporting" /\ agent'[g].pc = "next" /\ agent'[g].batch # <<>>
            /\ \A i \in DOMAIN agent'[g].batch :
                 /\ i \in Int /\ i >= 1 /\ i + 1 \in DOMAIN agent[g].batch
                 /\ agent'[g].batch[i] = agent[g].batch[i + 1]
<1>1. agent[g].batch \in Seq(Commands)
  BY Zenon DEF IInv, Types, AgentRecord
<1>2. CASE Len(agent[g].batch) > 1 /\ agent'[g].batch = Tail(agent[g].batch)
  <2>1. PICK s \in Seq(Commands) : s = agent[g].batch
    BY Zenon, <1>1
  <2>2. /\ Len(s) \in Nat /\ DOMAIN s = 1..Len(s) /\ Tail(s) \in Seq(Commands) /\ Len(Tail(s)) = Len(s) - 1
        /\ DOMAIN Tail(s) = 1..(Len(s) - 1)
        /\ \A i \in 1..(Len(s) - 1) : Tail(s)[i] = s[i + 1]
    BY <1>2, <2>1
  <2>3. Tail(s) # <<>>
    BY <1>2, <2>1, <2>2
  <2>4. \A i \in 1..(Len(s) - 1) : i \in Int /\ i >= 1 /\ i + 1 \in DOMAIN s
    BY <2>2
  <2> QED
    BY Zenon, <1>2, <2>1, <2>2, <2>3, <2>4 DEF Trims
<1> QED
  BY Zenon, <1>2, EmptyBatch DEF Trims


(* How a report r of c may leave the rows: c is closed, or nothing is written. *)
Closes(c, r) ==
  \/ UNCHANGED <<status, age, answer>>
  \/ /\ status[c] = "running"
     /\ status' = [status EXCEPT ![c] = r]
     /\ age' = [age EXCEPT ![c] = 0]
     /\ answer' = [answer EXCEPT ![c] = IF r = "done" THEN "result" ELSE "error"]

\* What a report may do to the rows.
LEMMA ClosedRows ==
  ASSUME IInv, NEW c \in Commands, NEW r \in {"done", "failed"}, Closes(c, r), status[c] \in Taken
  PROVE  /\ status' \in [Commands -> Statuses] /\ age' \in [Commands -> 0..MaxAge]
         /\ answer' \in [Commands -> {"none", "result", "error", "no result"}]
         /\ \A e \in Commands : e # c => status'[e] = status[e] /\ age'[e] = age[e] /\ answer'[e] = answer[e]
         /\ status'[c] \in Taken
         /\ \/ status'[c] = status[c] /\ answer'[c] = answer[c]
            \/ status'[c] = r /\ answer'[c] = IF r = "done" THEN "result" ELSE "error"
<1>1. /\ status \in [Commands -> Statuses] /\ age \in [Commands -> 0..MaxAge]
      /\ answer \in [Commands -> {"none", "result", "error", "no result"}]
  BY Zenon DEF IInv, Types, TypeOK
<1>2. age' \in [Commands -> 0..MaxAge] /\ \A e \in Commands : e # c => age'[e] = age[e]
  <2>1. 0 \in 0..MaxAge
    BY Zenon, AgesTyped
  <2> HIDE DEF IInv
  <2> QED
    BY Zenon, <1>1, <2>1 DEF Closes
<1>3. status' \in [Commands -> Statuses] /\ answer' \in [Commands -> {"none", "result", "error", "no result"}]
  <2>1. r \in Statuses
    BY Zenon DEF Statuses, Closed
  <2>2. PICK a \in {"none", "result", "error", "no result"} : a = IF r = "done" THEN "result" ELSE "error"
    BY Zenon
  <2>3. \/ UNCHANGED <<status, answer>>
        \/ status' = [status EXCEPT ![c] = r] /\ answer' = [answer EXCEPT ![c] = a]
    BY Zenon, <2>2 DEF Closes
  <2> QED
    BY Zenon, <1>1, <2>1, <2>3
<1> QED
  BY Zenon, <1>1, <1>2, <1>3 DEF Closes, Taken

(* A report r of c is delivered, or is left in the server, and c is in no batch after it. *)
Reported(c, r) ==
  /\ Truthful(c, r) /\ status[c] \in Taken /\ Closes(c, r)
  /\ UNCHANGED <<hostOf, orphans, ran, outcome, prior>>
  /\ agent' \in [Hosts -> AgentRecord] /\ \A g \in Hosts : Trims(g)
  /\ \A g \in Hosts : \A i \in DOMAIN agent'[g].batch : agent'[g].batch[i] # c
  /\ late' \subseteq [command : Commands, host : Hosts, report : {"done", "failed"}]
  /\ \A q \in late' : q \in late \/ (q.command = c /\ q.report = r)

\* A report leaves every batch in order: as it was, empty, or without its first command.
LEMMA ReportedBatches ==
  ASSUME IInv, NEW c \in Commands, NEW r \in {"done", "failed"}, Reported(c, r), NEW g \in Hosts
  PROVE  BatchOK(g)'
<1>1. /\ hostOf' = hostOf /\ Trims(g) /\ BatchOK(g)
      /\ \A i \in DOMAIN agent'[g].batch : agent'[g].batch[i] # c
      /\ agent'[g] \in AgentRecord /\ agent[g] \in AgentRecord
  BY Zenon DEF Reported, IInv, BatchInv, Types
<1>2. \A e \in Commands : e # c => status'[e] = status[e] /\ answer'[e] = answer[e]
  BY Zenon, ClosedRows DEF Reported
<1>3. \A e : Started(e)' <=> Started(e)
  BY Zenon DEF Started, Reported
<1>4. /\ \A i \in DOMAIN agent'[g].batch : agent'[g].batch[i] \in Commands
      /\ \A i \in DOMAIN agent[g].batch : agent[g].batch[i] \in Commands
  <2>1. agent'[g].batch \in Seq(Commands) /\ agent[g].batch \in Seq(Commands)
    BY Zenon, <1>1 DEF AgentRecord
  <2> QED
    BY <2>1
<1>5. CASE agent'[g] = agent[g]
  <2>1. ASSUME NEW i \in DOMAIN agent[g].batch, NEW e \in Commands, e = agent[g].batch[i]
        PROVE  status'[e] \in {"running", "failed"} /\ answer'[e] # "error"
    <3>1. e # c
      BY Zenon, <1>1, <1>5, <2>1
    <3>2. status[e] \in {"running", "failed"} /\ answer[e] # "error"
      BY Zenon, <1>1, <2>1 DEF BatchOK
    <3> QED
      BY Zenon, <1>2, <3>1, <3>2
  <2> QED
    BY Zenon, <1>1, <1>3, <1>5, <2>1, BatchStays
<1>6. CASE agent'[g].pc = "idle" /\ agent'[g].batch = <<>> /\ DOMAIN agent'[g].batch = {}
  BY Zenon, <1>6 DEF BatchOK
<1>7. CASE /\ agent[g].pc = "reporting" /\ agent'[g].pc = "next" /\ agent'[g].batch # <<>>
           /\ \A i \in DOMAIN agent'[g].batch :
                /\ i \in Int /\ i >= 1 /\ i + 1 \in DOMAIN agent[g].batch
                /\ agent'[g].batch[i] = agent[g].batch[i + 1]
  <2>1. ASSUME NEW i \in DOMAIN agent'[g].batch, NEW e \in Commands, e = agent'[g].batch[i]
        PROVE  /\ hostOf'[e] = g /\ status'[e] \in {"running", "failed"} /\ answer'[e] # "error"
               /\ ~Started(e)'
    <3>1. /\ e # c /\ i \in Int /\ i >= 1
          /\ i + 1 \in DOMAIN agent[g].batch /\ e = agent[g].batch[i + 1]
      BY Zenon, <1>1, <1>7, <2>1
    <3>2. i + 1 # 1
      BY <3>1
    <3>3. /\ hostOf[e] = g /\ status[e] \in {"running", "failed"} /\ answer[e] # "error"
          /\ Started(e) => Begun(g, i + 1)
      BY Zenon, <1>1, <3>1 DEF BatchOK
    <3>4. ~Started(e)
      BY Zenon, <3>2, <3>3 DEF Begun
    <3> QED
      BY Zenon, <1>1, <1>2, <1>3, <3>1, <3>3, <3>4
  <2>2. \A i, j \in DOMAIN agent'[g].batch : agent'[g].batch[i] = agent'[g].batch[j] => i = j
    <3> SUFFICES ASSUME NEW i \in DOMAIN agent'[g].batch, NEW j \in DOMAIN agent'[g].batch,
                        agent'[g].batch[i] = agent'[g].batch[j]
                 PROVE  i = j
      BY Zenon
    <3>1. /\ i \in Int /\ j \in Int /\ i + 1 \in DOMAIN agent[g].batch /\ j + 1 \in DOMAIN agent[g].batch
          /\ agent[g].batch[i + 1] = agent[g].batch[j + 1]
      BY Zenon, <1>7
    <3>2. i + 1 = j + 1
      BY Zenon, <1>1, <3>1 DEF BatchOK
    <3> QED
      BY <3>1, <3>2
  <2>3. \A i \in DOMAIN agent'[g].batch : /\ hostOf'[agent'[g].batch[i]] = g
                                          /\ status'[agent'[g].batch[i]] \in {"running", "failed"}
                                          /\ answer'[agent'[g].batch[i]] # "error"
                                          /\ ~Started(agent[g].batch[i])'
    BY Zenon, <1>4, <2>1 DEF Started
  <2> QED
    BY Zenon, <1>7, <2>2, <2>3 DEF BatchOK
<1> QED
  BY Zenon, <1>1, <1>5, <1>6, <1>7, Trimmed

\* A report leaves a command that is still in a batch behind those queued before it.
LEMMA ReportedOrder ==
  ASSUME IInv, NEW c \in Commands, NEW r \in {"done", "failed"}, Reported(c, r),
         NEW e \in Commands, NEW d \in prior[e]
  PROVE  Behind(d, e)'
<1>1. Behind(d, e) /\ d \in Commands
  BY Zenon DEF IInv, OrderInv, Types, TypeOK
<1>2. /\ \A x \in Commands : x # c => status'[x] = status[x] /\ age'[x] = age[x]
      /\ status[c] \in Taken /\ status'[c] \in Taken /\ hostOf' = hostOf /\ \A g \in Hosts : Trims(g)
  BY Zenon, ClosedRows DEF Reported
<1>3. Started(e)' <=> Started(e)
  BY Zenon DEF Started, Reported
<1>4. /\ hostOf'[d] = hostOf'[e]
      /\ status'[d] \notin {"new", "stamped", "dropped"} /\ status'[e] # "new"
      /\ status'[d] = "queued" /\ status'[e] \in {"stamped", "queued"} => age'[d] > age'[e] \/ age'[d] = MaxAge
      /\ status'[e] \in Taken => status'[d] # "queued"
  BY Zenon, <1>1, <1>2 DEF Behind, Taken
<1>5. ASSUME NEW g \in Hosts, NEW i \in DOMAIN agent'[g].batch, agent'[g].batch[i] = d
      PROVE  /\ Started(e) => Begun(g, i)'
             /\ \A j \in DOMAIN agent'[g].batch : agent'[g].batch[j] = e => i < j
  <2>1. CASE agent'[g] = agent[g]
    BY Zenon, <1>1, <1>5, <2>1 DEF Behind, Begun
  <2>2. CASE /\ \A k \in DOMAIN agent'[g].batch :
                  /\ k \in Int /\ k >= 1 /\ k + 1 \in DOMAIN agent[g].batch
                  /\ agent'[g].batch[k] = agent[g].batch[k + 1]
    <3>1. i \in Int /\ i >= 1 /\ i + 1 \in DOMAIN agent[g].batch /\ agent[g].batch[i + 1] = d
      BY Zenon, <1>5, <2>2
    <3>2. /\ Started(e) => Begun(g, i + 1)
          /\ \A j \in DOMAIN agent[g].batch : agent[g].batch[j] = e => i + 1 < j
      BY Zenon, <1>1, <3>1 DEF Behind
    <3>3. ~Started(e)
      <4>1. i + 1 # 1
        BY <3>1
      <4> QED
        BY Zenon, <3>2, <4>1 DEF Begun
    <3>4. ASSUME NEW j \in DOMAIN agent'[g].batch, agent'[g].batch[j] = e
          PROVE  i < j
      <4>1. j \in Int /\ i + 1 < j + 1
        BY Zenon, <2>2, <3>2, <3>4
      <4> QED
        BY <3>1, <4>1
    <3> QED
      BY Zenon, <3>3, <3>4
  <2> QED
    BY Zenon, <1>2, <1>5, <2>1, <2>2, Trimmed
<1> QED
  BY Zenon, <1>3, <1>4, <1>5 DEF Behind

\* A report that closes its command, or comes too late to, keeps the invariant.
LEMMA ReportedKeeps ==
  ASSUME IInv, NEW c \in Commands, NEW r \in {"done", "failed"}, Reported(c, r)
  PROVE  IInv'
<1>1. \A e \in Commands : e # c => status'[e] = status[e] /\ age'[e] = age[e] /\ answer'[e] = answer[e]
  BY Zenon, ClosedRows DEF Reported
<1>2. /\ status'[c] \in Taken
      /\ \/ status'[c] = status[c] /\ answer'[c] = answer[c]
         \/ status'[c] = r /\ answer'[c] = IF r = "done" THEN "result" ELSE "error"
  BY Zenon, ClosedRows DEF Reported
<1>3. hostOf' = hostOf /\ orphans' = orphans /\ ran' = ran /\ outcome' = outcome /\ prior' = prior
  BY Zenon DEF Reported
<1>4. \A e : Started(e)' <=> Started(e)
  BY Zenon, <1>3 DEF Started
<1>5. Truthful(c, r) /\ \A e, s : Truthful(e, s)' <=> Truthful(e, s)
  BY Zenon, <1>3 DEF Reported, Truthful
<1>6. Types'
  <2>1. \A g \in Hosts : agent'[g] \in AgentRecord
    BY Zenon DEF Reported
  <2>2. /\ status' \in [Commands -> Statuses] /\ age' \in [Commands -> 0..MaxAge]
        /\ answer' \in [Commands -> {"none", "result", "error", "no result"}]
    BY Zenon, ClosedRows DEF Reported
  <2> QED
    BY Zenon, <1>3, <2>1, <2>2 DEF IInv, Types, TypeOK, AgentRecord, Reported
<1>7. BatchInv'
  BY Zenon, ReportedBatches DEF BatchInv
<1>8. \A g \in Hosts : Trims(g) /\ \A i \in DOMAIN agent'[g].batch :
        \E j \in DOMAIN agent[g].batch : agent'[g].batch[i] = agent[g].batch[j]
  BY Zenon, Trimmed DEF Reported
<1>9. ReportInv'
  <2>1. ASSUME NEW g \in Hosts, agent'[g].pc = "reporting"
        PROVE  Truthful(agent[g].batch[1], agent[g].report)'
    <3>1. agent'[g] = agent[g]
      BY Zenon, <1>8, <2>1 DEF Trims
    <3>2. Truthful(agent[g].batch[1], agent[g].report)
      BY Zenon, <2>1, <3>1 DEF IInv, ReportInv
    <3> QED
      BY Zenon, <1>3, <3>1, <3>2 DEF Truthful
  <2>2. ASSUME NEW q \in late'
        PROVE  /\ Truthful(q.command, q.report)' /\ status'[q.command] \in Taken
               /\ \A g \in Hosts : \A i \in DOMAIN agent'[g].batch : agent'[g].batch[i] # q.command
    <3>1. CASE q \in late
      <4>1. q.command \in Commands /\ status[q.command] \in Taken /\ Truthful(q.command, q.report)
        BY Zenon, <3>1 DEF IInv, Types, TypeOK, ReportInv
      <4>2. \A g \in Hosts : \A i \in DOMAIN agent[g].batch : agent[g].batch[i] # q.command
        BY Zenon, <3>1 DEF IInv, ReportInv
      <4> QED
        BY <1>1, <1>2, <1>3, <1>8, <4>1, <4>2 DEF Truthful
    <3>2. CASE q.command = c /\ q.report = r
      <4>1. Truthful(q.command, q.report)'
        BY Zenon, <1>3, <1>5, <3>2 DEF Truthful
      <4>2. \A g \in Hosts : \A i \in DOMAIN agent'[g].batch : agent'[g].batch[i] # c
        BY Zenon DEF Reported
      <4> QED
        BY Zenon, <1>2, <3>2, <4>1, <4>2
    <3> QED
      BY Zenon, <3>1, <3>2 DEF Reported
  <2> QED
    BY Zenon, <2>1, <2>2 DEF ReportInv
<1>10. RanInv'
  <2>1. \A i \in DOMAIN ran : status'[ran[i].command] \in Taken
    BY Zenon, <1>1, <1>2, RanTyped DEF IInv, RanInv
  <2> QED
    BY Zenon, <1>3, <1>4, <2>1 DEF IInv, RanInv
<1>11. RowInv'
  <2> SUFFICES ASSUME NEW e \in Commands
               PROVE  /\ status'[e] = "done" => outcome'[e] = "done"
                      /\ answer'[e] = "error" => status'[e] = "failed" /\ outcome'[e] # "done"
    BY Zenon DEF RowInv
  <2>1. /\ status[e] = "done" => outcome[e] = "done"
        /\ answer[e] = "error" => status[e] = "failed" /\ outcome[e] # "done"
    BY Zenon DEF IInv, RowInv
  <2>2. CASE e # c
    BY Zenon, <1>1, <1>3, <2>1, <2>2
  <2>3. CASE e = c
    BY Zenon, <1>2, <1>3, <1>5, <2>1, <2>3 DEF Truthful
  <2> QED
    BY Zenon, <2>2, <2>3
<1>12. OrderInv'
  BY Zenon, <1>3, ReportedOrder DEF OrderInv
<1>13. StartsInQueueOrder'
  BY Zenon, <1>3 DEF IInv, StartsInQueueOrder
<1> QED
  BY Zenon, <1>6, <1>7, <1>9, <1>10, <1>11, <1>12, <1>13 DEF IInv


\* The report arrives; the agent goes on with the rest, or ends the poll on an error.
LEMMA ReportKeeps ==
  ASSUME IInv, NEW h \in Hosts, Report(h)
  PROVE  IInv'
<1>1. PICK c \in Commands : c = agent[h].batch[1] /\ c = Head(agent[h].batch)
  BY FirstLeft DEF Report
<1>2. PICK r \in {"done", "failed"} : r = agent[h].report /\ Truthful(c, r)
  BY Zenon, <1>1 DEF Report, IInv, ReportInv, Truthful
<1>3. /\ agent[h].batch \in Seq(Commands) /\ agent[h].batch # <<>> /\ status[c] \in Taken /\ BatchOK(h)
      /\ agent \in [Hosts -> AgentRecord]
  BY <1>1, FirstLeft DEF Report, Taken, IInv, BatchInv, Types
<1>4. Closes(c, r)
  BY Zenon, <1>1, <1>2 DEF Report, Complete, Completes, Closes
<1>5. AfterReport(h) \in AgentRecord
  <2>1. agent[h].batch # <<>> => Tail(agent[h].batch) \in Seq(Commands)
    BY <1>3
  <2> QED
    BY Zenon, <1>3, <2>1, RestingTyped DEF AfterReport, AgentRecord
<1>6. agent' \in [Hosts -> AgentRecord] /\ agent'[h] = AfterReport(h) /\ \A g \in Hosts : g # h => agent'[g] = agent[g]
  BY Zenon, <1>3, <1>5 DEF Report
<1>7. \A g \in Hosts : Trims(g)
  BY Zenon, <1>6 DEF Trims, AfterReport, Idle, Report
<1>8. ASSUME NEW g \in Hosts, NEW i \in DOMAIN agent'[g].batch
      PROVE  agent'[g].batch[i] # c
  <2>1. CASE g # h
    <3>1. hostOf[c] = h
      BY Zenon, <1>1, FirstLeft DEF Report
    <3>2. agent'[g] = agent[g] /\ BatchOK(g)
      BY Zenon, <1>6, <2>1 DEF IInv, BatchInv
    <3>3. hostOf[agent'[g].batch[i]] = g
      BY Zenon, <3>2 DEF BatchOK
    <3> QED
      BY Zenon, <2>1, <3>1, <3>3
  <2>2. CASE g = h
    <3>1. /\ i \in Int /\ i >= 1 /\ i + 1 \in DOMAIN agent[h].batch
          /\ agent'[h].batch[i] = agent[h].batch[i + 1]
      <4>1. agent'[h] # agent[h] /\ DOMAIN agent'[h].batch # {}
        BY <1>6, <2>2 DEF AfterReport, Idle, Report
      <4> QED
        BY Zenon, <1>7, <2>2, <4>1, Trimmed
    <3>2. i + 1 # 1 /\ 1 \in DOMAIN agent[h].batch
      BY <3>1, FirstLeft DEF Report
    <3> QED
      BY Zenon, <1>1, <1>3, <2>2, <3>1, <3>2 DEF BatchOK
  <2> QED
    BY Zenon, <2>1, <2>2
<1>9. /\ late' \subseteq [command : Commands, host : Hosts, report : {"done", "failed"}]
      /\ late' = late /\ UNCHANGED <<hostOf, orphans, ran, outcome, prior>>
  BY Zenon DEF Report, IInv, Types, TypeOK, historyVars
<1> QED
  BY Zenon, <1>2, <1>3, <1>4, <1>6, <1>7, <1>8, <1>9, ReportedKeeps DEF Reported

\* The agent no longer waits for a report that is still in the server.
LEMMA ReportAbandonedKeeps ==
  ASSUME IInv, NEW h \in Hosts, ReportAbandoned(h)
  PROVE  IInv'
<1>1. PICK c \in Commands : c = agent[h].batch[1] /\ c = Head(agent[h].batch) /\ status[c] \in Taken /\ hostOf[c] = h
  BY Zenon, FirstLeft DEF ReportAbandoned, Taken
<1>2. PICK r \in {"done", "failed"} : r = agent[h].report /\ Truthful(c, r)
  BY Zenon, <1>1 DEF ReportAbandoned, IInv, ReportInv, Truthful
<1>3. Closes(c, r)
  BY Zenon DEF ReportAbandoned, Closes
<1>4. /\ agent' \in [Hosts -> AgentRecord] /\ agent'[h] = Idle
      /\ \A g \in Hosts : g # h => agent'[g] = agent[g]
  BY Zenon, RestingTyped DEF ReportAbandoned, IInv, Types
<1>5. \A g \in Hosts : Trims(g)
  BY <1>4 DEF Trims, Idle
<1>6. ASSUME NEW g \in Hosts, NEW i \in DOMAIN agent'[g].batch
      PROVE  agent'[g].batch[i] # c
  <2>1. g # h
    BY <1>4, EmptyBatch DEF Idle
  <2>2. agent'[g] = agent[g] /\ BatchOK(g)
    BY Zenon, <1>4, <2>1 DEF IInv, BatchInv
  <2>3. hostOf[agent'[g].batch[i]] = g
    BY Zenon, <2>2 DEF BatchOK
  <2> QED
    BY Zenon, <1>1, <2>1, <2>3
<1>7. late \subseteq [command : Commands, host : Hosts, report : {"done", "failed"}]
  BY Zenon DEF IInv, Types, TypeOK
<1>8. /\ late' \subseteq [command : Commands, host : Hosts, report : {"done", "failed"}]
      /\ \A q \in late' : q \in late \/ (q.command = c /\ q.report = r)
  BY <1>1, <1>2, <1>7 DEF ReportAbandoned
<1>9. UNCHANGED <<hostOf, orphans, ran, outcome, prior>>
  BY Zenon DEF ReportAbandoned, historyVars
<1> QED
  BY Zenon, <1>1, <1>2, <1>3, <1>4, <1>5, <1>6, <1>8, <1>9, ReportedKeeps DEF Reported

\* An abandoned report is handled after all.
LEMMA ReportArrivesLateKeeps ==
  ASSUME IInv, NEW q \in late, ReportArrivesLate(q)
  PROVE  IInv'
<1>1. late \subseteq [command : Commands, host : Hosts, report : {"done", "failed"}]
  BY Zenon DEF IInv, Types, TypeOK
<1>2. PICK c \in Commands, r \in {"done", "failed"} : c = q.command /\ r = q.report
  BY Zenon, <1>1
<1>3. /\ Truthful(c, r) /\ status[c] \in Taken
      /\ \A g \in Hosts : \A i \in DOMAIN agent[g].batch : agent[g].batch[i] # c
  BY Zenon, <1>2 DEF IInv, ReportInv
<1>4. Closes(c, r)
  BY Zenon, <1>2 DEF ReportArrivesLate, Complete, Completes, Closes
<1>5. UNCHANGED <<hostOf, orphans, ran, outcome, prior, agent>> /\ late' \subseteq late
  BY Zenon DEF ReportArrivesLate, historyVars
<1>6. agent' \in [Hosts -> AgentRecord] /\ \A g \in Hosts : Trims(g)
  BY Zenon, <1>5 DEF Trims, IInv, Types
<1>7. \A g \in Hosts : \A i \in DOMAIN agent'[g].batch : agent'[g].batch[i] # c
  BY Zenon, <1>3, <1>5
<1> QED
  BY Zenon, <1>1, <1>3, <1>4, <1>5, <1>6, <1>7, ReportedKeeps DEF Reported


-----------------------------------------------------------------------------
(* The theorems. *)

\* Nothing is queued, claimed or run at first.
LEMMA InitIInv == Init => IInv
<1> SUFFICES ASSUME Init
             PROVE  IInv
  BY Zenon
<1>1. \A h \in Hosts : agent[h] = Idle /\ Idle.pc = "idle" /\ Idle.batch = <<>>
  BY Zenon DEF Init, Idle
<1>2. DOMAIN ran = {} /\ <<>> \in Seq(Commands) /\ <<>> \in Seq(Runs) /\ \A h \in Hosts : DOMAIN agent[h].batch = {}
  BY <1>1, EmptyBatch DEF Init
<1>3. Types
  <2>1. 0 \in 0..MaxAge /\ 0 \in 0..MaxOrphans
    BY OperatorAssumption
  <2>2. age \in [Commands -> 0..MaxAge] /\ orphans \in [Hosts -> 0..MaxOrphans]
    BY Zenon, <2>1 DEF Init
  <2>3. Idle \in AgentRecord
    BY Zenon, <1>2 DEF Idle, AgentRecord
  <2>4. agent \in [Hosts -> AgentRecord]
    BY Zenon, <2>3 DEF Init
  <2> QED
    BY Zenon, <1>2, <2>2, <2>4 DEF Init, Types, TypeOK, Statuses, Idle
<1> QED
  BY Zenon, <1>1, <1>2, <1>3 DEF Init, IInv, BatchInv, BatchOK, ReportInv, RanInv, RowInv, OrderInv, StartsInQueueOrder

\* Nothing changes what is not read.
LEMMA StutterKeeps == IInv /\ UNCHANGED vars => IInv'
BY Zenon, RestKeeps DEF Rests, IInv, Types, TypeOK, vars, serverVars

\* Every operation keeps what was said of batches, reports, starts, rows and order.
LEMMA NextKeeps == IInv /\ [Next]_vars => IInv'
<1> SUFFICES ASSUME IInv, [Next]_vars
             PROVE  IInv'
  BY Zenon
<1>1. ASSUME NEW c \in Commands, QueueStamps(c) \/ QueueInserts(c) \/ QueueFails(c)
      PROVE  IInv'
  BY Zenon, <1>1, QueueStampsKeeps, QueueInsertsKeeps, QueueFailsKeeps
<1>2. CASE Expire \/ ExpireStopsHalfway \/ ClearResults \/ Tick
  BY Zenon, <1>2, ExpireKeeps, ExpireStopsHalfwayKeeps, ClearResultsKeeps, TickKeeps
<1>3. ASSUME NEW h \in Hosts, Ask(h) \/ AskFails(h) \/ AskAbandoned(h) \/ Claim(h) \/ ClaimUnheard(h)
      PROVE  IInv'
  BY Zenon, <1>3, AskKeeps, AskFailsKeeps, AskAbandonedKeeps, ClaimKeeps, ClaimUnheardKeeps
<1>4. ASSUME NEW h \in Hosts, Start(h) \/ Refuse(h) \/ Finish(h)
      PROVE  IInv'
  BY <1>4, StartKeeps, RefuseKeeps, FinishKeeps
<1>5. ASSUME NEW h \in Hosts, Report(h) \/ ReportFails(h) \/ ReportAbandoned(h) \/ AgentStops(h)
      PROVE  IInv'
  BY Zenon, <1>5, ReportKeeps, ReportFailsKeeps, ReportAbandonedKeeps, AgentStopsKeeps
<1>6. ASSUME NEW r \in late, ReportArrivesLate(r)
      PROVE  IInv'
  BY Zenon, <1>6, ReportArrivesLateKeeps
<1>7. CASE ServerStops
  BY Zenon, <1>7, ServerStopsKeeps
<1>8. CASE UNCHANGED vars
  BY Zenon, <1>8, StutterKeeps
<1> QED
  BY Zenon, <1>1, <1>2, <1>3, <1>4, <1>5, <1>6, <1>7, <1>8 DEF Next

(* The strengthening holds of every state the channel reaches, whatever the  *)
(* numbers of hosts and commands, the limits and the batch size.             *)
THEOREM Inductive == Spec => []IInv
BY InitIInv, NextKeeps, PTL DEF Spec

(* Claim hands a command out once, to its own host: the host's executable is *)
(* started at most once for it.                                              *)
THEOREM RunsOnce == Spec => []StartedAtMostOnce
<1>1. IInv => StartedAtMostOnce
  BY Zenon DEF IInv, Types, RanInv, StartedAtMostOnce
<1> QED
  BY <1>1, Inductive, PTL

(* Expire ends only commands that no poll took: an expired one has not run   *)
(* and is in no batch, so it never will.                                     *)
THEOREM ExpiredUnrun == Spec => []ExpiredNeverRuns
<1>1. IInv => ExpiredNeverRuns
  <2> SUFFICES ASSUME IInv, NEW c \in Commands, status[c] = "expired"
               PROVE  /\ \A i \in DOMAIN ran : ran[i].command # c
                      /\ \A h \in Hosts : c \notin Range(agent[h].batch)
    BY Zenon DEF ExpiredNeverRuns
  <2>1. \A i \in DOMAIN ran : ran[i].command # c
    BY Zenon DEF IInv, RanInv, Taken
  <2>2. \A h \in Hosts : \A i \in DOMAIN agent[h].batch : agent[h].batch[i] # c
    BY DEF IInv, BatchInv, BatchOK
  <2> QED
    BY Zenon, <2>1, <2>2 DEF Range
<1> QED
  BY <1>1, Inductive, PTL

(* Claim's ordering and the agent's one-by-one execution: a command already  *)
(* queued when another of its host was asked for never starts after it.      *)
THEOREM QueueOrder == Spec => []StartsInQueueOrder
<1>1. IInv => StartsInQueueOrder
  BY Zenon DEF IInv
<1> QED
  BY <1>1, Inductive, PTL

(* Execute and Complete: what the console shows of a command is how its      *)
(* executable ended.                                                         *)
THEOREM ShownIsTrue == Spec => []ShownOutcomeIsTrue
<1>1. IInv => ShownOutcomeIsTrue
  BY Zenon DEF IInv, RowInv, RanInv, Started, ShownOutcomeIsTrue
<1> QED
  BY <1>1, Inductive, PTL

\* What one operation may do to a closed command.
LEMMA ClosedStays ==
  ASSUME IInv, [Next]_vars, NEW c \in Commands, status[c] \in Closed
  PROVE  /\ status'[c] = status[c]
         /\ answer'[c] # answer[c] => answer'[c] = "none" /\ age[c] > ResultRetention
<1>0. status \in [Commands -> Statuses] /\ answer \in [Commands -> {"none", "result", "error", "no result"}]
  BY Zenon DEF IInv, Types, TypeOK
<1>1. ASSUME NEW d \in Commands, QueueStamps(d) \/ QueueInserts(d) \/ QueueFails(d)
      PROVE  status'[c] = status[c] /\ answer'[c] = answer[c]
  BY Zenon, <1>0, <1>1 DEF QueueStamps, QueueInserts, QueueFails, Closed
<1>2. CASE Expire \/ ExpireStopsHalfway
  BY Zenon, <1>2 DEF Expire, ExpireStopsHalfway, ExpireRows, StaleQueued, StaleRunning, Closed
<1>3. CASE ClearResults
  BY Zenon, <1>3 DEF ClearResults, Forgettable
<1>4. ASSUME NEW h \in Hosts, NEW b \in Batches(h), ClaimRows(b)
      PROVE  status'[c] = status[c] /\ answer'[c] = answer[c]
  <2>1. c \notin Range(b)
    BY <1>4, ClaimedBatch DEF Closed, Range
  <2> QED
    BY Zenon, <1>4, <2>1 DEF ClaimRows, StaleQueued, StaleRunning, Closed
<1>5. ASSUME NEW d \in Commands, NEW h, NEW r, Complete(d, h, r)
      PROVE  status'[c] = status[c] /\ answer'[c] = answer[c]
  BY Zenon, <1>0, <1>5 DEF Complete, Completes, Closed
<1>6. ASSUME NEW h \in Hosts, Report(h)
      PROVE  status'[c] = status[c] /\ answer'[c] = answer[c]
  BY Zenon, <1>5, <1>6, FirstLeft DEF Report
<1>7. ASSUME NEW r \in late, ReportArrivesLate(r)
      PROVE  status'[c] = status[c] /\ answer'[c] = answer[c]
  BY Zenon, <1>5, <1>7 DEF ReportArrivesLate, IInv, Types, TypeOK
<1>8. CASE ServerStops
  BY Zenon, <1>8 DEF ServerStops, Stamped, Closed
<1>9. ASSUME NEW h \in Hosts, Claim(h) \/ ClaimUnheard(h)
      PROVE  status'[c] = status[c] /\ answer'[c] = answer[c]
  BY Zenon, <1>4, <1>9 DEF Claim, ClaimUnheard
<1>10. ASSUME NEW h \in Hosts,
              \/ Ask(h) \/ AskFails(h) \/ AskAbandoned(h) \/ Start(h) \/ Refuse(h) \/ Finish(h)
              \/ ReportFails(h) \/ ReportAbandoned(h) \/ AgentStops(h)
       PROVE  status' = status /\ answer' = answer
  BY Zenon, <1>10 DEF Ask, AskFails, AskAbandoned, Start, Refuse, Finish, ReportFails, ReportAbandoned, AgentStops,
               serverVars
<1>11. CASE Tick \/ UNCHANGED vars
  BY Zenon, <1>11 DEF Tick, vars, serverVars
<1> QED
  BY Zenon, <1>1, <1>2, <1>3, <1>6, <1>7, <1>8, <1>9, <1>10, <1>11 DEF Next

(* Complete races Expire, and reports arrive late: a closed command keeps    *)
(* its status, and its answer goes only when it is old enough.               *)
THEOREM ClosedForGood == Spec => ClosedIsFinal
<1>1. IInv /\ [Next]_vars =>
        [\A c \in Commands : status[c] \in Closed =>
           /\ status'[c] = status[c]
           /\ answer'[c] # answer[c] => answer'[c] = "none" /\ age[c] > ResultRetention]_vars
  BY Zenon, ClosedStays
<1> QED
  BY <1>1, Inductive, PTL DEF Spec, ClosedIsFinal

=============================================================================
