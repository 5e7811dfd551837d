--------------------------- MODULE StorageProofs ---------------------------
(***************************************************************************)
(* The safety properties of what the server stores.                        *)
(*                                                                         *)
(* Database, for any number of processes, bundles, migrations and tools.   *)
(* The inductive invariant DatabaseInv says of each stage of a tool what   *)
(* is at the path, in its copy and in the file it set aside, and of each   *)
(* process how far the schema has come.                                    *)
(*                                                                         *)
(* Maintenance, for every window, TTL, batch size and number of rows:      *)
(* MaintenanceInv is inductive.                                            *)
(***************************************************************************)
EXTENDS Database, Maintenance, FiniteSetTheorems, TLAPS

-----------------------------------------------------------------------------
(* The database file. *)

\* A database of this binary, or an older one.
Sound(c) ==
  /\ c.there /\ c.rows \in states
  /\ c.done \in Seq(Nat) /\ Len(c.done) <= Migrations
  /\ c.recorded = 1..Len(c.done)
  /\ \A v \in 1..Len(c.done) : c.done[v] = v

DataOK ==
  /\ rows \in Nat /\ tools \in Nat /\ {} \in states
  /\ main = NoFile <=> visible = NoFile
  /\ visible # NoFile => Sound(visible)
  /\ main # NoFile => main.rows \subseteq visible.rows
  /\ 1..rows \subseteq Stored

ProcsOK ==
  /\ DOMAIN proc = Procs
  /\ \A p \in Procs :
       /\ proc[p].pc \in {"down", "check", "apply", "up"}
       /\ proc[p].pc = "down" <=> proc[p] = Down
       /\ proc[p].pc # "down" => visible # NoFile
       /\ proc[p].pc \in {"check", "apply"} =>
            proc[p].at \in Nat /\ 1 <= proc[p].at /\ 1..proc[p].at - 1 \subseteq visible.recorded
       /\ proc[p].pc = "apply" => proc[p].at <= Migrations
       /\ proc[p].pc = "up" => visible.recorded = 1..Migrations

\* Each stage of a tool.
ToolOK ==
  /\ Swapping => \A p \in Procs : proc[p] = Down
  /\ tool.pc = "idle" \/ Copying \/ tool.pc = "staged" \/ Swapping
  /\ Copying => visible # NoFile
  /\ tool.pc = "bundle" => Sound(tool.copy)
  /\ tool.pc \in {"staged", "swap", "install"} => Sound(tool.copy)
  /\ tool.pc \in {"compact", "swap"} => main # NoFile /\ main = visible
  /\ tool.pc = "install" => visible = NoFile
  /\ tool.pc = "cleanup" => visible # NoFile

KeptOK ==
  /\ \A k \in kept : k.stamp \in Nat /\ k.stamp <= tools
  /\ tool.pc \in {"snapshot", "bundle", "staged", "compact", "swap"} => \A k \in kept : k.stamp < tools
  /\ tool.pc = "staged" => tool.kind = "restore"
  /\ tool.pc = "swap" /\ tool.kind = "vacuum" => tool.copy = visible
  /\ tool.pc = "install" /\ tool.kind = "vacuum" => \A k \in kept : k.stamp = tools => k.rows = tool.copy.rows
  /\ tool.pc = "cleanup" /\ tool.kind = "vacuum" => \A k \in kept : k.stamp = tools => k.rows = visible.rows

BundlesOK ==
  /\ DOMAIN bundle = Outs
  /\ \A o \in Outs : bundle[o] \in {NoFile, Partial, Newer} \/ Sound(bundle[o])
  /\ Copying => tool.out \in Outs /\ bundle[tool.out] = Partial

DatabaseInv == DataOK /\ ProcsOK /\ ToolOK /\ KeptOK /\ BundlesOK

\* Nothing is committed, copied or set aside at first.
LEMMA InitDatabaseInv == DatabaseInit => DatabaseInv
<1> SUFFICES ASSUME DatabaseInit PROVE DatabaseInv
  BY Zenon
<1>1. DataOK
  BY DEF DatabaseInit, DataOK, Stored
<1>2. ProcsOK
  BY Zenon DEF DatabaseInit, ProcsOK, Down
<1>3. ToolOK /\ KeptOK
  BY Zenon DEF DatabaseInit, ToolOK, KeptOK, Idle, Swapping, Copying
<1>4. BundlesOK
  BY Zenon DEF DatabaseInit, BundlesOK, Copying, Idle
<1> QED
  BY Zenon, <1>1, <1>2, <1>3, <1>4 DEF DatabaseInv

\* A sound copy stays sound when more is committed.
LEMMA SoundKept ==
  ASSUME states \subseteq states', NEW c, Sound(c)
  PROVE  Sound(c)'
BY Zenon DEF Sound

\* A process that opens the database creates it where there is none.
LEMMA OpenStep ==
  ASSUME DatabaseInv, NEW p \in Procs, Open(p)
  PROVE  DatabaseInv'
<1>1. UNCHANGED <<tool, bundle, kept, rows, tools, states>> /\ ~Swapping
  BY Zenon DEF Open
<1>2. Sound(Empty)
  BY DatabaseAssumption DEF Sound, Empty, Content, DatabaseInv, DataOK
<1>3. \/ main = NoFile /\ visible = NoFile /\ main' = Empty /\ visible' = Empty
      \/ main # NoFile /\ visible # NoFile /\ UNCHANGED files
  BY Zenon DEF Open, DatabaseInv, DataOK
<1>4. Empty.rows = {} /\ Empty # NoFile
  BY Zenon DEF Empty, NoFile, Content
<1>5. DataOK'
  BY Zenon, <1>1, <1>2, <1>3, <1>4 DEF DatabaseInv, DataOK, Stored, files, Sound
<1>6. ProcsOK'
  <2>1. proc' = [proc EXCEPT ![p] = [pc |-> "check", at |-> 1]]
    BY Zenon DEF Open
  <2>2. visible' # NoFile /\ (visible # NoFile => visible' = visible)
    BY Zenon, <1>3, <1>4 DEF files
  <2>3. 1..1 - 1 \subseteq visible'.recorded
    OBVIOUS
  <2> QED
    BY <2>1, <2>2, <2>3 DEF DatabaseInv, ProcsOK, Down
<1>7. ToolOK'
  BY Zenon, <1>1, <1>3, <1>4 DEF DatabaseInv, ToolOK, Swapping, Copying, Sound, files
<1>8. KeptOK' /\ BundlesOK'
  BY Zenon, <1>1 DEF DatabaseInv, KeptOK, BundlesOK, Swapping, Sound, Copying
<1> QED
  BY Zenon, <1>5, <1>6, <1>7, <1>8 DEF DatabaseInv

\* Checking reads only; a process ends past the last migration when all are
\* recorded.
LEMMA CheckStep ==
  ASSUME DatabaseInv, NEW p \in Procs, Check(p)
  PROVE  DatabaseInv'
<1>1. UNCHANGED <<main, visible, tool, bundle, kept, rows, tools, states>>
  BY Zenon DEF Check, files
<1>2. /\ proc[p].pc = "check" /\ visible # NoFile /\ Sound(visible)
      /\ proc[p].at \in Nat /\ 1 <= proc[p].at /\ 1..proc[p].at - 1 \subseteq visible.recorded
  BY Zenon DEF Check, DatabaseInv, ProcsOK, DataOK
<1>3. DataOK' /\ KeptOK' /\ BundlesOK'
  BY <1>1 DEF DatabaseInv, DataOK, KeptOK, BundlesOK, Stored, Sound, Copying
<1>4. PICK v : v = proc[p].at
  BY Zenon
<1>5. proc' = [proc EXCEPT ![p] = IF v > Migrations THEN [pc |-> "up", at |-> v]
                ELSE IF v \in visible.recorded THEN [pc |-> "check", at |-> v + 1] ELSE [pc |-> "apply", at |-> v]]
  BY Zenon, <1>4 DEF Check, AllDone
<1>6. v > Migrations => visible.recorded = 1..Migrations
  <2>1. PICK n \in Nat : n = Len(visible.done)
    BY <1>2 DEF Sound
  <2>2. visible.recorded = 1..n /\ n <= Migrations
    BY Zenon, <1>2, <2>1 DEF Sound
  <2>3. v \in Nat /\ 1..v - 1 \subseteq 1..n
    BY Zenon, <1>2, <1>4, <2>2
  <2>4. v > Migrations => n = Migrations
    BY <2>2, <2>3, DatabaseAssumption
  <2> QED
    BY Zenon, <2>2, <2>4
<1>7. v \in visible.recorded => 1..(v + 1) - 1 \subseteq visible.recorded
  BY <1>2, <1>4
<1>8. ProcsOK'
  BY <1>1, <1>2, <1>4, <1>5, <1>6, <1>7, DatabaseAssumption DEF DatabaseInv, ProcsOK, Down
<1>9. ToolOK'
  BY <1>1, <1>2, <1>5 DEF DatabaseInv, ToolOK, Swapping, Copying, Sound, Down
<1> QED
  BY Zenon, <1>3, <1>8, <1>9 DEF DatabaseInv

\* A migration is the next one: those before it are recorded, and it is not.
LEMMA ApplyStep ==
  ASSUME DatabaseInv, NEW p \in Procs, Apply(p)
  PROVE  DatabaseInv'
<1>1. UNCHANGED <<main, tool, bundle, kept, rows, tools, states>>
  BY Zenon DEF Apply
<1>2. /\ proc[p].pc = "apply" /\ visible # NoFile /\ Sound(visible)
      /\ proc[p].at \in Nat /\ 1 <= proc[p].at /\ 1..proc[p].at - 1 \subseteq visible.recorded
      /\ proc[p].at <= Migrations /\ proc[p].at \notin visible.recorded
  BY Zenon DEF Apply, Records, DatabaseInv, ProcsOK, DataOK
<1>3. PICK v : v = proc[p].at
  BY Zenon
<1>4. Len(visible.done) = v - 1 /\ visible.done \in Seq(Nat) /\ visible.recorded = 1..v - 1
  <2>1. PICK n \in Nat : n = Len(visible.done)
    BY <1>2 DEF Sound
  <2>2. visible.recorded = 1..n /\ visible.done \in Seq(Nat)
    BY Zenon, <1>2, <2>1 DEF Sound
  <2>3. v \in Nat /\ 1 <= v /\ 1..v - 1 \subseteq 1..n /\ v \notin 1..n
    BY Zenon, <1>2, <1>3, <2>2
  <2>4. n = v - 1
    BY <2>3
  <2> QED
    BY Zenon, <2>1, <2>2, <2>4
<1>5. /\ visible'.rows = visible.rows /\ visible'.done = Append(visible.done, v) /\ visible'.there
      /\ visible'.recorded = visible.recorded \cup {v}
  BY Zenon, <1>3 DEF Apply, Content
<1>6. Sound(visible)'
  <2>1. visible'.done \in Seq(Nat) /\ Len(visible'.done) = v
    BY <1>2, <1>3, <1>4, <1>5
  <2>2. \A w \in 1..v : visible'.done[w] = w
    BY <1>2, <1>3, <1>4, <1>5 DEF Sound
  <2>3. visible'.recorded = 1..v
    BY <1>2, <1>3, <1>4, <1>5
  <2> QED
    BY <1>1, <1>2, <1>3, <1>5, <2>1, <2>2, <2>3 DEF Sound
<1>7. visible' # NoFile
  BY <1>5 DEF NoFile
<1>8. DataOK'
  BY Zenon, <1>1, <1>2, <1>5, <1>6, <1>7 DEF DatabaseInv, DataOK, Stored
<1>9. ProcsOK'
  <2>1. \A q \in Procs : proc[q].pc = "up" => FALSE
    BY <1>2, DatabaseAssumption DEF DatabaseInv, ProcsOK
  <2>2. proc' = [proc EXCEPT ![p] = [pc |-> "check", at |-> v + 1]]
    BY Zenon, <1>3 DEF Apply
  <2>3. 1..(v + 1) - 1 \subseteq visible'.recorded
    BY <1>2, <1>3, <1>4, <1>5
  <2> QED
    BY <1>2, <1>3, <1>5, <1>7, <2>1, <2>2, <2>3 DEF DatabaseInv, ProcsOK, Down
<1>10. ToolOK' /\ KeptOK' /\ BundlesOK'
  <2>1. ~Swapping
    BY <1>2 DEF DatabaseInv, ToolOK, Down
  <2>2. ToolOK'
    BY Zenon, <1>1, <1>7, <2>1 DEF DatabaseInv, ToolOK, Swapping, Copying, Sound
  <2>3. KeptOK'
    BY Zenon, <1>1, <2>1 DEF DatabaseInv, KeptOK, Swapping
  <2>4. BundlesOK'
    BY Zenon, <1>1 DEF DatabaseInv, BundlesOK, Sound, Copying
  <2> QED
    BY Zenon, <2>2, <2>3, <2>4
<1> QED
  BY Zenon, <1>8, <1>9, <1>10 DEF DatabaseInv

\* A commit is in what readers see at once.
LEMMA WriteStep ==
  ASSUME DatabaseInv, NEW p \in Procs, Write(p)
  PROVE  DatabaseInv'
<1>1. UNCHANGED <<main, proc, tool, bundle, kept, tools>> /\ states \subseteq states'
  BY Zenon DEF Write
<1>2. proc[p].pc = "up" /\ visible # NoFile /\ Sound(visible) /\ ~Swapping
  BY Zenon DEF Write, DatabaseInv, ProcsOK, DataOK, ToolOK, Down
<1>3. /\ rows' = rows + 1 /\ visible'.rows = visible.rows \cup {rows + 1} /\ visible'.there
      /\ visible'.done = visible.done /\ visible'.recorded = visible.recorded /\ visible'.rows \in states'
  BY Zenon DEF Write, Content
<1>4. Sound(visible)' /\ visible' # NoFile
  BY <1>2, <1>3 DEF Sound, NoFile
<1>5. DataOK'
  <2>0. rows \in Nat /\ 1..rows \subseteq Stored
    BY Zenon DEF DatabaseInv, DataOK
  <2>1. (1..rows + 1) \subseteq Stored \cup {rows + 1} /\ rows + 1 \in Nat
    BY <2>0
  <2>2. Stored' = Stored \cup {rows + 1}
    <3> DEFINE U == UNION {k.rows : k \in kept}
    <3>1. Stored = U \cup visible.rows
      BY Zenon, <1>2 DEF Stored
    <3>2. Stored' = U \cup visible'.rows
      BY Zenon, <1>1, <1>4 DEF Stored
    <3> HIDE DEF U
    <3> QED
      BY Zenon, <1>3, <3>1, <3>2
  <2> QED
    BY Zenon, <1>1, <1>2, <1>3, <1>4, <2>1, <2>2 DEF DatabaseInv, DataOK
<1>6. ProcsOK'
  BY Zenon, <1>1, <1>3, <1>4 DEF DatabaseInv, ProcsOK
<1>7. ToolOK'
  <2>1. Sound(tool.copy) => Sound(tool.copy)'
    BY Zenon, <1>1 DEF Sound
  <2> QED
    BY Zenon, <1>1, <1>2, <1>4, <2>1 DEF DatabaseInv, ToolOK, Swapping, Copying
<1>8. KeptOK' /\ BundlesOK'
  BY Zenon, <1>1, <1>2 DEF DatabaseInv, KeptOK, BundlesOK, Swapping, Sound, Copying
<1> QED
  BY Zenon, <1>5, <1>6, <1>7, <1>8 DEF DatabaseInv

\* The log moves into the file, or a process goes away.
LEMMA LogSteps ==
  ASSUME DatabaseInv, Checkpoint \/ \E p \in Procs : Close(p) \/ Crash(p)
  PROVE  DatabaseInv'
<1>1. UNCHANGED <<visible, tool, bundle, kept, rows, tools, states>> /\ main' \in {main, visible}
  BY Zenon DEF Checkpoint, Close, Crash, files
<1>2. DOMAIN proc' = Procs /\ \A q \in Procs : proc'[q] \in {proc[q], Down}
  BY Zenon DEF Checkpoint, Close, Crash, DatabaseInv, ProcsOK
<1>3. DataOK'
  BY Zenon, <1>1 DEF DatabaseInv, DataOK, Stored, Sound
<1>4. ProcsOK'
  BY <1>1, <1>2 DEF DatabaseInv, ProcsOK, Down
<1>5. ToolOK'
  BY Zenon, <1>1, <1>2 DEF DatabaseInv, ToolOK, Swapping, Copying, Sound
<1>6. KeptOK' /\ BundlesOK'
  BY Zenon, <1>1 DEF DatabaseInv, KeptOK, BundlesOK, Sound, Copying
<1> QED
  BY Zenon, <1>3, <1>4, <1>5, <1>6 DEF DatabaseInv

\* A backup copies a sound state, and its bundle is that copy or none.
LEMMA BackupSteps ==
  ASSUME DatabaseInv, (\E o \in Outs : BackupBegins(o)) \/ Snapshot \/ WriteBundle \/ BackupFails
  PROVE  DatabaseInv'
<1>1. UNCHANGED <<visible, proc, kept, rows, states>> /\ main' \in {main, visible} /\ ~Swapping /\ ~Swapping'
  BY DEF BackupBegins, Snapshot, WriteBundle, BackupFails, CloseTool, files, Starts, Idle, Swapping, Copying
<1>2. DataOK'
  BY <1>1 DEF DatabaseInv, DataOK, Stored, Sound, BackupBegins, Snapshot, WriteBundle, BackupFails, Starts
<1>3. ProcsOK'
  BY Zenon, <1>1 DEF DatabaseInv, ProcsOK
<1>4. tool'.pc = "bundle" => Sound(tool'.copy)
  <2>1. CASE Snapshot
    BY Zenon, <2>1 DEF Snapshot, DatabaseInv, DataOK, ToolOK, Copying
  <2> QED
    BY <2>1 DEF BackupBegins, WriteBundle, BackupFails, Idle
<1>5. ToolOK'
  <2>1. tool'.pc \in {"idle", "snapshot", "bundle"}
    BY DEF BackupBegins, Snapshot, WriteBundle, BackupFails, Idle
  <2>2. tool'.pc # "idle" => visible' # NoFile
    BY Zenon, <1>1 DEF BackupBegins, Snapshot, WriteBundle, BackupFails, Idle, DatabaseInv, DataOK, ToolOK, Copying
  <2> QED
    BY Zenon, <1>1, <1>4, <2>1, <2>2 DEF ToolOK, Swapping, Copying, Sound
<1>6. KeptOK'
  BY <1>1 DEF DatabaseInv, KeptOK, DataOK, Swapping, BackupBegins, Snapshot, WriteBundle, BackupFails, Starts, Idle
<1>7. BundlesOK'
  <2>1. CASE \E o \in Outs : BackupBegins(o)
    BY <1>1, <2>1 DEF DatabaseInv, BundlesOK, Sound, BackupBegins, Copying
  <2>2. CASE Snapshot
    BY Zenon, <1>1, <2>2 DEF DatabaseInv, BundlesOK, Sound, Snapshot, Copying
  <2>3. CASE WriteBundle \/ BackupFails
    BY <1>1, <2>3 DEF DatabaseInv, BundlesOK, ToolOK, Sound, WriteBundle, BackupFails, Copying, Idle
  <2> QED
    BY Zenon, <2>1, <2>2, <2>3
<1> QED
  BY Zenon, <1>2, <1>3, <1>5, <1>6, <1>7 DEF DatabaseInv

\* The restore takes a verified bundle, and the file aside before it installs.
LEMMA RestoreSteps ==
  ASSUME DatabaseInv, (\E o \in Outs : RestoreBegins(o)) \/ RestoreChecks
  PROVE  DatabaseInv'
<1>1. UNCHANGED <<visible, proc, bundle, kept, rows, states>> /\ main' \in {main, visible} /\ ~Swapping
  BY DEF RestoreBegins, RestoreChecks, Unlocked, files, Starts, Idle, Swapping
<1>2. DataOK'
  BY <1>1 DEF DatabaseInv, DataOK, Stored, Sound, RestoreBegins, RestoreChecks, Starts
<1>3. ProcsOK' /\ BundlesOK'
  BY <1>1 DEF DatabaseInv, ProcsOK, BundlesOK, Sound, Copying, RestoreBegins, RestoreChecks, Stage, Idle
<1>4. CASE \E o \in Outs : RestoreBegins(o)
  <2>1. PICK o \in Outs : RestoreBegins(o)
    BY Zenon, <1>4
  <2>2. Sound(bundle[o])
    <3>1. Migrations + 1 \in Newer.recorded
      BY DatabaseAssumption DEF Newer, Content
    <3> QED
      BY Zenon, <2>1, <3>1 DEF RestoreBegins, Verified, DatabaseInv, BundlesOK
  <2>3. tool'.pc = "staged" /\ tool'.kind = "restore" /\ tool'.copy = bundle[o] /\ tools' = tools + 1
    BY Zenon, <2>1 DEF RestoreBegins, Starts
  <2>4. ToolOK'
    BY Zenon, <1>1, <2>2, <2>3 DEF ToolOK, Swapping, Copying, Sound
  <2>5. KeptOK'
    BY <1>1, <2>3 DEF DatabaseInv, DataOK, KeptOK
  <2> QED
    BY Zenon, <1>2, <1>3, <2>4, <2>5 DEF DatabaseInv
<1>5. CASE RestoreChecks
  <2>1. /\ tool.pc = "staged" /\ Sound(tool.copy) /\ UNCHANGED tools
        /\ \A k \in kept : k.stamp \in Nat /\ k.stamp < tools
    BY Zenon, <1>5 DEF RestoreChecks, DatabaseInv, ToolOK, KeptOK
  <2>2. \/ tool'.pc = "idle"
        \/ tool'.pc = "install" /\ tool'.copy = tool.copy /\ main = NoFile
        \/ tool'.pc = "swap" /\ tool'.copy = tool.copy /\ tool'.kind = tool.kind /\ ~InUse /\ main # NoFile /\ main' = visible
    BY <1>5 DEF RestoreChecks, Stage, Unlocked, Idle
  <2>3. main = NoFile => \A p \in Procs : proc[p] = Down
    BY Zenon DEF DatabaseInv, DataOK, ProcsOK
  <2>4. tool'.pc \in {"install", "swap"} => \A p \in Procs : proc'[p] = Down
    BY Zenon, <1>1, <2>2, <2>3 DEF InUse
  <2>5. ToolOK'
    BY Zenon, <1>1, <2>1, <2>2, <2>4 DEF ToolOK, Swapping, Copying, Sound, DatabaseInv, DataOK
  <2>6. tool.kind = "restore"
    BY Zenon, <2>1 DEF DatabaseInv, KeptOK
  <2>7. KeptOK'
    BY <1>1, <2>1, <2>2, <2>6 DEF DatabaseInv, DataOK, KeptOK
  <2> QED
    BY Zenon, <1>2, <1>3, <2>5, <2>7 DEF DatabaseInv
<1> QED
  BY Zenon, <1>4, <1>5

\* The vacuum copies what is there, with nobody else connected.
LEMMA VacuumSteps ==
  ASSUME DatabaseInv, VacuumBegins \/ VacuumCopies
  PROVE  DatabaseInv'
<1>1. UNCHANGED <<visible, proc, bundle, kept, rows, states>> /\ main' \in {main, visible}
  BY Zenon DEF VacuumBegins, VacuumCopies, Unlocked, files
<1>2. DataOK'
  BY <1>1 DEF DatabaseInv, DataOK, Stored, Sound, VacuumBegins, VacuumCopies, Starts
<1>3. ProcsOK' /\ BundlesOK'
  BY <1>1 DEF DatabaseInv, ProcsOK, BundlesOK, Sound, Copying, VacuumBegins, VacuumCopies
<1>4. /\ \A p \in Procs : proc'[p] = Down
      /\ visible # NoFile /\ main' = visible /\ main' # NoFile /\ Sound(visible)
  BY Zenon, <1>1 DEF VacuumBegins, VacuumCopies, InUse, DatabaseInv, DataOK, ToolOK, Swapping, Unlocked, files
<1>5. /\ tool'.pc \in {"compact", "swap"}
      /\ tool'.pc = "swap" => tool'.copy = visible
  BY DEF VacuumBegins, VacuumCopies
<1>6. ToolOK'
  BY Zenon, <1>1, <1>4, <1>5 DEF ToolOK, Swapping, Copying, Sound
<1>7. KeptOK'
  BY <1>1, <1>5 DEF DatabaseInv, DataOK, KeptOK, VacuumBegins, VacuumCopies, Starts
<1> QED
  BY Zenon, <1>2, <1>3, <1>6, <1>7 DEF DatabaseInv

\* The file set aside holds what the database held.
LEMMA SetAsideStep ==
  ASSUME DatabaseInv, SetAside
  PROVE  DatabaseInv'
<1>1. UNCHANGED <<proc, bundle, rows, tools, states>> /\ main' = NoFile /\ visible' = NoFile
  BY Zenon DEF SetAside
<1>2. /\ tool.pc = "swap" /\ Sound(tool.copy) /\ main # NoFile /\ main = visible
      /\ \A p \in Procs : proc[p] = Down
      /\ \A k \in kept : k.stamp \in Nat /\ k.stamp < tools
      /\ tool.kind = "vacuum" => tool.copy = visible
  BY Zenon DEF SetAside, DatabaseInv, ToolOK, KeptOK, Swapping
<1>3. PICK new : new = [stamp |-> tools, rows |-> visible.rows]
  BY Zenon
<1>4. kept' = kept \cup {new}
  BY Zenon, <1>2, <1>3 DEF SetAside, Stamp
<1>5. tool'.pc = "install" /\ tool'.kind = tool.kind /\ tool'.copy = tool.copy
  BY Zenon DEF SetAside, Stage
<1>6. Stored' = Stored
  <2>1. Stored' = UNION {k.rows : k \in kept \cup {new}}
    BY Zenon, <1>1, <1>4 DEF Stored
  <2>2. Stored = (UNION {k.rows : k \in kept}) \cup new.rows
    BY Zenon, <1>2, <1>3 DEF Stored
  <2> QED
    BY Zenon, <2>1, <2>2
<1>7. DataOK'
  BY Zenon, <1>1, <1>6 DEF DatabaseInv, DataOK
<1>8. ProcsOK' /\ BundlesOK'
  BY Zenon, <1>1, <1>2, <1>5 DEF DatabaseInv, ProcsOK, BundlesOK, Sound, Down, Copying
<1>9. ToolOK'
  BY <1>1, <1>2, <1>5 DEF ToolOK, Swapping, Copying, Sound
<1>10. KeptOK'
  BY <1>1, <1>2, <1>3, <1>4, <1>5 DEF DatabaseInv, DataOK, KeptOK
<1> QED
  BY Zenon, <1>7, <1>8, <1>9, <1>10 DEF DatabaseInv

\* The verified copy becomes the database.
LEMMA InstallStep ==
  ASSUME DatabaseInv, Install
  PROVE  DatabaseInv'
<1>1. UNCHANGED <<proc, bundle, kept, rows, tools, states>> /\ main' = tool.copy /\ visible' = tool.copy
  BY Zenon DEF Install
<1>2. tool.pc = "install" /\ Sound(tool.copy) /\ visible = NoFile /\ \A p \in Procs : proc[p] = Down
  BY Zenon DEF Install, DatabaseInv, ToolOK, Swapping
<1>3. tool'.pc = "cleanup" /\ tool'.kind = tool.kind
  BY Zenon DEF Install
<1>4. tool.copy # NoFile /\ Sound(visible)'
  BY <1>1, <1>2 DEF Sound, NoFile
<1>5. DataOK'
  BY Zenon, <1>1, <1>2, <1>4 DEF DatabaseInv, DataOK, Stored
<1>6. ProcsOK' /\ BundlesOK'
  BY <1>1, <1>2, <1>3, <1>4 DEF DatabaseInv, ProcsOK, BundlesOK, Sound, Down, Copying
<1>7. ToolOK'
  BY Zenon, <1>1, <1>2, <1>3, <1>4 DEF ToolOK, Swapping, Copying
<1>8. KeptOK'
  BY Zenon, <1>1, <1>2, <1>3 DEF DatabaseInv, KeptOK
<1> QED
  BY Zenon, <1>5, <1>6, <1>7, <1>8 DEF DatabaseInv

\* Vacuum removes only what it set aside itself, which the database still holds.
LEMMA RemoveStep ==
  ASSUME DatabaseInv, VacuumRemoves
  PROVE  DatabaseInv'
<1>1. UNCHANGED <<main, visible, proc, bundle, rows, tools, states>> /\ kept' = {k \in kept : k.stamp # tools}
  BY Zenon DEF VacuumRemoves, Stamp, files
<1>2. visible # NoFile /\ \A k \in kept : k.stamp = tools => k.rows = visible.rows
  BY Zenon DEF VacuumRemoves, DatabaseInv, ToolOK, KeptOK
<1>3. tool'.pc = "idle"
  BY Zenon DEF VacuumRemoves, Idle
<1>4. Stored \subseteq Stored'
  BY Zenon, <1>1, <1>2 DEF Stored
<1>5. DataOK'
  BY Zenon, <1>1, <1>4 DEF DatabaseInv, DataOK, Sound
<1>6. ProcsOK' /\ BundlesOK'
  BY Zenon, <1>1, <1>3 DEF DatabaseInv, ProcsOK, BundlesOK, Sound, Copying
<1>7. ToolOK' /\ KeptOK'
  BY Zenon, <1>1, <1>3 DEF DatabaseInv, ToolOK, KeptOK, Swapping, Copying
<1> QED
  BY Zenon, <1>5, <1>6, <1>7 DEF DatabaseInv

\* A tool that dies leaves the files as they are.
LEMMA EndStep ==
  ASSUME DatabaseInv, ToolEnds
  PROVE  DatabaseInv'
<1>1. UNCHANGED <<main, visible, proc, bundle, kept, rows, tools, states>> /\ tool'.pc = "idle"
  BY Zenon DEF ToolEnds, files, Idle
<1>2. DataOK' /\ ProcsOK' /\ BundlesOK'
  BY <1>1 DEF DatabaseInv, DataOK, ProcsOK, BundlesOK, Sound, Stored, Copying
<1>3. ToolOK' /\ KeptOK'
  BY Zenon, <1>1 DEF DatabaseInv, ToolOK, KeptOK, Swapping, Copying
<1> QED
  BY Zenon, <1>2, <1>3 DEF DatabaseInv

-----------------------------------------------------------------------------
(* The invariant that the properties rest on holds of every reachable state of
   the files, however many processes, tools and crashes there are. *)
THEOREM DatabaseInductive == DatabaseSpec => []DatabaseInv
<1>1. DatabaseInv /\ [DatabaseNext]_databaseVars => DatabaseInv'
  <2> SUFFICES ASSUME DatabaseInv, [DatabaseNext]_databaseVars PROVE DatabaseInv'
    BY Zenon
  <2>1. CASE UNCHANGED databaseVars
    BY <2>1 DEF databaseVars, files, DatabaseInv, DataOK, ProcsOK, ToolOK, KeptOK, BundlesOK, Sound, Stored, Swapping, Copying
  <2>2. CASE DatabaseNext
    BY Zenon, <2>2, OpenStep, CheckStep, ApplyStep, WriteStep, LogSteps, BackupSteps, RestoreSteps, VacuumSteps,
       SetAsideStep, InstallStep, RemoveStep, EndStep DEF DatabaseNext
  <2> QED
    BY Zenon, <2>1, <2>2
<1> QED
  BY InitDatabaseInv, <1>1, PTL DEF DatabaseSpec

(* No interrupted backup, restore or vacuum loses a committed transaction: each
   is in the database or in a file set aside. *)
THEOREM NoTransactionLost == DatabaseSpec => []NothingLost
<1>1. DatabaseInv => NothingLost
  BY Zenon DEF DatabaseInv, DataOK, NothingLost
<1> QED
  BY DatabaseInductive, <1>1, PTL

(* Readers only ever see a committed state. *)
THEOREM ReadsAreCommitted == DatabaseSpec => []ReadsCommitted
<1>1. DatabaseInv => ReadsCommitted
  BY Zenon DEF DatabaseInv, DataOK, ReadsCommitted, Sound
<1> QED
  BY DatabaseInductive, <1>1, PTL

(* Migrate runs each migration once and in order, whoever starts together and
   whatever is restored. *)
THEOREM MigrationsOnce == DatabaseSpec => []MigratedOnce
<1>1. DatabaseInv => MigratedOnce
  BY DEF DatabaseInv, DataOK, MigratedOnce, Sound
<1> QED
  BY DatabaseInductive, <1>1, PTL

(* A process past Migrate works on its own binary's schema. *)
THEOREM SchemaAgrees == DatabaseSpec => []SchemaMatches
<1>1. DatabaseInv => SchemaMatches
  BY Zenon DEF DatabaseInv, ProcsOK, SchemaMatches
<1> QED
  BY DatabaseInductive, <1>1, PTL

(* Backup writes its own new file: a bundle that was completed stays as it is. *)
THEOREM BundlesStay == DatabaseSpec => BundleKept
<1>1. DatabaseInv /\ [DatabaseNext]_databaseVars => [\A o \in Outs : bundle[o] \notin {NoFile, Partial} => bundle'[o] = bundle[o]]_bundle
  <2> SUFFICES ASSUME DatabaseInv, [DatabaseNext]_databaseVars, bundle' # bundle, NEW o \in Outs, bundle[o] \notin {NoFile, Partial}
               PROVE  bundle'[o] = bundle[o]
    BY Zenon
  <2>1. (\E u \in Outs : BackupBegins(u)) \/ WriteBundle \/ BackupFails
    BY Zenon DEF DatabaseNext, databaseVars, Open, Check, Apply, Write, Close, Crash, Checkpoint, RestoreBegins, Snapshot, RestoreChecks,
       VacuumBegins, VacuumCopies, SetAside, Install, VacuumRemoves, ToolEnds
  <2>2. CASE \E u \in Outs : BackupBegins(u)
    BY Zenon, <2>2 DEF BackupBegins, MayCreate, DatabaseInv, BundlesOK
  <2>3. CASE WriteBundle \/ BackupFails
    BY Zenon, <2>3 DEF WriteBundle, BackupFails, DatabaseInv, BundlesOK, Copying
  <2> QED
    BY Zenon, <2>1, <2>2, <2>3
<1> QED
  BY DatabaseInductive, <1>1, PTL DEF DatabaseSpec, BundleKept

-----------------------------------------------------------------------------
(* Rollups and retention. *)

(* The clock reads an instant, and the next reading is an instant not earlier. *)
LEMMA SoonFacts ==
  ASSUME now \in Instant
  PROVE  Soon \in Instant /\ now.hour <= Soon.hour
  BY MaintenanceAssumption DEF Soon, Instant, At

(* The initial state satisfies the invariant. *)
LEMMA InitInv == Init => MaintenanceInv
<1> SUFFICES ASSUME Init PROVE MaintenanceInv
  BY Zenon
<1>1. At(0, 0) \in Instant /\ expired \in Int
  BY MaintenanceAssumption DEF Init, Instant, At
<1>2. DOMAIN rollups = {}
  BY DEF Init
<1>3. rollups \in [DOMAIN rollups -> SUBSET Instant]
  BY <1>2 DEF Init
<1>4. TypeOK
  <2>1. now \in Instant /\ cutoff \in Instant
    BY Zenon, <1>1 DEF Init
  <2>2. raw \subseteq Instant /\ IsFiniteSet(raw) /\ latest \subseteq raw
    BY Zenon, FS_EmptySet DEF Init
  <2>3. rolled \in BOOLEAN /\ job \in {"idle", "rollup", "hours", "raw", "expire"}
    BY Zenon DEF Init
  <2>4. through \in Int /\ current \in Int /\ cursor \in Int /\ expiry \in Int
    BY DEF Init
  <2>5. stored \in Nat /\ faults \in Nat /\ tardy \subseteq Instant /\ purged \subseteq Instant
    BY Zenon DEF Init
  <2>6. DOMAIN rollups \subseteq Int
    BY Zenon, <1>2
  <2> QED
    BY Zenon, <1>1, <1>3, <2>1, <2>2, <2>3, <2>4, <2>5, <2>6 DEF TypeOK
<1>5. ClockInv /\ CursorInv
  BY Zenon DEF Init, ClockInv, CursorInv
<1>6. WindowInv /\ MarkerHolds /\ AggregatedBeforeDeleted
  BY Zenon, <1>2 DEF Init, WindowInv, MarkerHolds, AggregatedBeforeDeleted
<1> QED
  BY Zenon, <1>4, <1>5, <1>6 DEF MaintenanceInv

(* Every step keeps the types. *)
LEMMA TypeStep == TypeOK /\ [Next]_vars => TypeOK'
<1> SUFFICES ASSUME TypeOK, [Next]_vars PROVE TypeOK'
  BY Zenon
<1> USE DEF TypeOK
<1>z. At(0, 0) \in Instant
  BY MaintenanceAssumption DEF Instant, At
<1>1. CASE Tick
  BY Zenon, <1>1, SoonFacts DEF Tick, tableVars, jobVars, historyVars
<1>2. ASSUME NEW h \in 0..MaxHour + 1, NEW p \in 0..Parts - 1, Ingest(At(h, p))
      PROVE  TypeOK'
  <2>1. At(h, p) \in Instant
    BY MaintenanceAssumption DEF Instant, At
  <2>2. IsFiniteSet(raw')
    BY Zenon, <1>2, FS_AddElement DEF Ingest
  <2> QED
    BY <1>2, <2>1, <2>2 DEF Ingest, LatestAfterInsert, clockVars, jobVars
<1>3. CASE RollupBegins
  BY Zenon, <1>3 DEF RollupBegins, Instant, clockVars, tableVars, historyVars
<1>4. CASE RollupReads
  <2>1. cursor' \in Int
    BY <1>4, MaintenanceAssumption DEF RollupReads, FirstHour, Instant, tableVars
  <2> QED
    BY Zenon, <1>4, <2>1 DEF RollupReads, clockVars, tableVars, historyVars
<1>5. CASE RollupHour
  <2>1. DOMAIN rollups' \subseteq Int /\ rollups' \in [DOMAIN rollups' -> SUBSET Instant]
    BY Zenon, <1>5 DEF RollupHour, RowsOf
  <2> QED
    BY <1>5, <2>1 DEF RollupHour, clockVars, historyVars
<1>6. CASE RollupMarks
  BY <1>6, <1>z DEF RollupMarks, JobOver, clockVars, historyVars
<1>7. CASE PurgeBegins
  <2>1. RawCutoff \in Instant
    BY MaintenanceAssumption DEF RawCutoff, Instant, At
  <2>2. expiry' \in Int
    BY <1>7, MaintenanceAssumption DEF PurgeBegins, Instant
  <2> QED
    BY Zenon, <1>7, <2>1, <2>2 DEF PurgeBegins, clockVars, tableVars, historyVars
<1>8. CASE PurgeRawEnds
  BY Zenon, <1>8 DEF PurgeRawEnds, clockVars, tableVars, historyVars
<1>9. CASE PurgeEnds
  BY <1>9, <1>z DEF PurgeEnds, JobOver, clockVars, tableVars, historyVars
<1>10. ASSUME NEW gone \in SUBSET Purgeable, PurgeRaw(gone)
       PROVE  TypeOK'
  <2>1. IsFiniteSet(raw')
    BY Zenon, <1>10, FS_Difference DEF PurgeRaw
  <2>2. latest' \subseteq raw'
    BY Zenon, <1>10 DEF PurgeRaw, LatestAfterDelete, Newest
  <2> QED
    BY Zenon, <1>10, <2>1, <2>2 DEF PurgeRaw, Purgeable, clockVars, jobVars
<1>11. ASSUME NEW hours \in SUBSET PurgeableHours, PurgeRollups(hours)
       PROVE  TypeOK'
  <2>1. DOMAIN rollups' \subseteq Int /\ rollups' \in [DOMAIN rollups' -> SUBSET Instant]
    BY Zenon, <1>11 DEF PurgeRollups
  <2> QED
    BY Zenon, <1>11, <2>1 DEF PurgeRollups, clockVars, jobVars
<1>12. CASE JobFails
  BY <1>12, <1>z DEF JobFails, JobOver, Fault, clockVars, tableVars
<1>13. CASE UNCHANGED vars
  BY Zenon, <1>13 DEF vars, clockVars, tableVars, jobVars, historyVars
<1> QED
  BY Zenon, <1>1, <1>2, <1>3, <1>4, <1>5, <1>6, <1>7, <1>8, <1>9, <1>10, <1>11, <1>12, <1>13
  DEF Next, Rollup, Purge

(* Nothing is aggregated, deleted, or late that was not before, and the marker
   stays: the invariants that do not look at a running job carry over. *)
LEMMA RestStays ==
  ASSUME MaintenanceInv,
         UNCHANGED <<raw, rollups, rolled, through, tardy, purged, expired>>
  PROVE  /\ MarkerHolds' /\ AggregatedBeforeDeleted'
         /\ \A r \in purged' : rolled' /\ r.hour < through' - Window
         /\ \A h \in DOMAIN rollups' : \A r \in rollups'[h] :
              r.hour = h /\ (r \in raw' \/ (rolled' /\ h < through' - Window))
  BY Zenon DEF MaintenanceInv, MarkerHolds, AggregatedBeforeDeleted, Aggregated, WindowInv

(* Time passes. *)
LEMMA TickStep == MaintenanceInv /\ Tick => MaintenanceInv'
<1> SUFFICES ASSUME MaintenanceInv, Tick PROVE MaintenanceInv'
  BY Zenon
<1>1. TypeOK'
  BY Zenon, TypeStep DEF MaintenanceInv, Next
<1>2. UNCHANGED <<raw, rollups, rolled, through, tardy, purged, expired, job, current, cursor, cutoff>>
  BY Zenon DEF Tick, tableVars, jobVars, historyVars
<1>3. now.hour \in Int /\ now'.hour \in Int /\ now.hour <= now'.hour
  BY Zenon, <1>1, SoonFacts DEF MaintenanceInv, TypeOK, Tick, Instant
<1>4. ClockInv'
  BY <1>1, <1>2, <1>3 DEF MaintenanceInv, ClockInv, TypeOK
<1>5. WindowInv' /\ CursorInv'
  BY Zenon, <1>2, RestStays DEF MaintenanceInv, WindowInv, CursorInv, Purgeable, Aggregated
<1> QED
  BY Zenon, <1>1, <1>2, <1>4, <1>5, RestStays DEF MaintenanceInv

(* A row arrives: in time, it belongs to the window or later; else it is tardy. *)
LEMMA IngestStep ==
  ASSUME MaintenanceInv, NEW h \in 0..MaxHour + 1, NEW p \in 0..Parts - 1, Ingest(At(h, p))
  PROVE  MaintenanceInv'
<1> DEFINE r == At(h, p)
<1> HIDE DEF r
<1>1. TypeOK'
  BY Zenon, TypeStep DEF MaintenanceInv, Next
<1>2. UNCHANGED <<rollups, rolled, through, purged, expired, job, current, cursor, cutoff, now>>
  BY Zenon DEF Ingest, clockVars, jobVars
<1>3. raw' = raw \cup {r}
  BY Zenon DEF Ingest, r
<1>4. r \in Instant /\ r.hour \in Int /\ now.hour \in Int
  BY MaintenanceAssumption DEF Instant, At, r, MaintenanceInv, TypeOK
<1>5. tardy \subseteq tardy' /\ (r \in tardy' \/ now.hour <= r.hour + Window)
  BY <1>4, MaintenanceAssumption DEF Ingest, r
<1>6. ClockInv'
  BY Zenon, <1>2 DEF MaintenanceInv, ClockInv
<1>7. through \in Int /\ current \in Int /\ Window \in Int
  BY MaintenanceAssumption DEF MaintenanceInv, TypeOK
<1>8. rolled => r \in tardy' \/ through - Window <= r.hour
  BY <1>4, <1>5, <1>7 DEF MaintenanceInv, ClockInv
<1>9. job = "hours" => r \in tardy' \/ current - Window <= r.hour
  BY <1>4, <1>5, <1>7 DEF MaintenanceInv, ClockInv
<1>10. MarkerHolds'
  BY <1>2, <1>3, <1>4, <1>5, <1>7, <1>8 DEF MaintenanceInv, MarkerHolds, Aggregated
<1>11. CursorInv'
  BY Zenon, <1>2, <1>3, <1>5, <1>9 DEF MaintenanceInv, CursorInv, Aggregated
<1>12. AggregatedBeforeDeleted'
  BY Zenon, <1>2, <1>5 DEF MaintenanceInv, AggregatedBeforeDeleted, Aggregated
<1>13. WindowInv'
  BY Zenon, <1>2, <1>3 DEF MaintenanceInv, WindowInv
<1> QED
  BY Zenon, <1>1, <1>6, <1>10, <1>11, <1>12, <1>13 DEF MaintenanceInv

(* Rollup's clock reading and its choice of the first hour. *)
LEMMA RollupStartStep == MaintenanceInv /\ (RollupBegins \/ RollupReads) => MaintenanceInv'
<1> SUFFICES ASSUME MaintenanceInv, RollupBegins \/ RollupReads PROVE MaintenanceInv'
  BY Zenon
<1>1. TypeOK'
  BY Zenon, TypeStep DEF MaintenanceInv, Next, Rollup
<1>2. UNCHANGED <<now, raw, rollups, rolled, through, tardy, purged, expired>>
  BY Zenon DEF RollupBegins, RollupReads, clockVars, tableVars, historyVars
<1>3. now.hour \in Int /\ through \in Int /\ Window \in Nat /\ current \in Int
  BY Zenon, MaintenanceAssumption DEF MaintenanceInv, TypeOK, Instant
<1>4. \A r \in raw : r.hour \in Int
  BY Zenon DEF MaintenanceInv, TypeOK, Instant
<1>5. CASE RollupBegins
  <2>1. ClockInv'
    BY <1>2, <1>3, <1>5 DEF MaintenanceInv, ClockInv, RollupBegins
  <2>2. WindowInv' /\ CursorInv'
    BY Zenon, <1>2, <1>5, RestStays DEF RollupBegins, WindowInv, CursorInv
  <2> QED
    BY Zenon, <1>1, <1>2, <2>1, <2>2, RestStays DEF MaintenanceInv
<1>6. CASE RollupReads
  <2>1. ClockInv'
    BY Zenon, <1>2, <1>6 DEF MaintenanceInv, ClockInv, RollupReads
  <2>2. rolled => through - Window <= cursor'
    BY <1>3, <1>4, <1>6 DEF MaintenanceInv, ClockInv, RollupReads, FirstHour
  <2>3. WindowInv'
    BY Zenon, <1>2, <1>6, <2>2, RestStays DEF RollupReads, WindowInv
  <2>4. ASSUME NEW r \in raw \ tardy PROVE Aggregated(r) \/ r.hour < expired \/ cursor' <= r.hour
    BY <1>3, <1>4, <1>6 DEF MaintenanceInv, MarkerHolds, RollupReads, FirstHour
  <2>5. CursorInv'
    BY Zenon, <1>2, <2>4 DEF CursorInv, Aggregated
  <2> QED
    BY Zenon, <1>1, <1>2, <2>1, <2>3, <2>5, RestStays DEF MaintenanceInv
<1> QED
  BY Zenon, <1>5, <1>6

(* The hour that is overwritten is inside the window, so all rows it was ever
   computed from are still there. *)
LEMMA RollupHourGrows ==
  ASSUME MaintenanceInv, RollupHour
  PROVE  /\ DOMAIN rollups \subseteq DOMAIN rollups'
         /\ \A h \in DOMAIN rollups : rollups[h] \subseteq rollups'[h]
         /\ \A h \in DOMAIN rollups' : h = cursor \/ (h \in DOMAIN rollups /\ rollups'[h] = rollups[h])
         /\ cursor \in DOMAIN rollups' => rollups'[cursor] = RowsOf(cursor) \/ RowsOf(cursor) = {}
         /\ RowsOf(cursor) # {} => cursor \in DOMAIN rollups' /\ rollups'[cursor] = RowsOf(cursor)
<1>1. cursor \in Int /\ through \in Int /\ Window \in Int
  BY MaintenanceAssumption DEF MaintenanceInv, TypeOK
<1>2. rolled => ~(cursor < through - Window)
  BY <1>1 DEF MaintenanceInv, WindowInv, RollupHour
<1>3. cursor \in DOMAIN rollups => rollups[cursor] \subseteq RowsOf(cursor)
  BY Zenon, <1>2 DEF MaintenanceInv, WindowInv, RowsOf
<1>4. CASE RowsOf(cursor) = {}
  BY Zenon, <1>3, <1>4 DEF RollupHour
<1>5. CASE RowsOf(cursor) # {}
  BY Zenon, <1>3, <1>5 DEF RollupHour
<1> QED
  BY Zenon, <1>4, <1>5

(* One hour is aggregated. *)
LEMMA RollupHourStep == MaintenanceInv /\ RollupHour => MaintenanceInv'
<1> SUFFICES ASSUME MaintenanceInv, RollupHour PROVE MaintenanceInv'
  BY Zenon
<1>1. TypeOK'
  BY Zenon, TypeStep DEF MaintenanceInv, Next, Rollup
<1>2. UNCHANGED <<now, raw, rolled, through, tardy, purged, expired, job, current, cutoff>>
  BY Zenon DEF RollupHour, clockVars, historyVars
<1>3. job = "hours" /\ cursor' = cursor + 1
  BY Zenon DEF RollupHour
<1>4. cursor \in Int /\ through \in Int /\ Window \in Int
  BY MaintenanceAssumption DEF MaintenanceInv, TypeOK
<1>5. \A r : Aggregated(r) => Aggregated(r)'
  BY Zenon, RollupHourGrows DEF Aggregated
<1>6. ClockInv'
  BY Zenon, <1>2 DEF MaintenanceInv, ClockInv
<1>7. MarkerHolds' /\ AggregatedBeforeDeleted'
  BY Zenon, <1>2, <1>5 DEF MaintenanceInv, MarkerHolds, AggregatedBeforeDeleted
<1>8. ASSUME NEW r \in raw \ tardy
      PROVE  Aggregated(r)' \/ r.hour < expired \/ cursor + 1 <= r.hour \/ current - Window <= r.hour
  <2>1. r.hour \in Int
    BY Zenon DEF MaintenanceInv, TypeOK, Instant
  <2>2. CASE r.hour = cursor
    BY Zenon, <2>2, RollupHourGrows DEF Aggregated, RowsOf
  <2> QED
    BY <1>3, <1>4, <1>5, <2>1, <2>2 DEF MaintenanceInv, CursorInv
<1>9. CursorInv'
  BY Zenon, <1>2, <1>3, <1>8 DEF CursorInv
<1>10. ASSUME NEW h \in DOMAIN rollups', NEW r \in rollups'[h]
       PROVE  r.hour = h /\ (r \in raw \/ (rolled /\ h < through - Window))
  <2>1. CASE h \in DOMAIN rollups /\ rollups'[h] = rollups[h]
    BY Zenon, <2>1 DEF MaintenanceInv, WindowInv
  <2>2. CASE h = cursor /\ rollups'[h] = RowsOf(cursor)
    BY Zenon, <2>2 DEF RowsOf
  <2>3. CASE h = cursor /\ RowsOf(cursor) = {}
    <3>1. rollups' = rollups
      BY Zenon, <2>3 DEF RollupHour
    <3> QED
      BY Zenon, <2>1, <3>1
  <2> QED
    BY Zenon, <2>1, <2>2, <2>3, RollupHourGrows
<1>11. WindowInv'
  BY <1>2, <1>3, <1>4, <1>10 DEF MaintenanceInv, WindowInv
<1> QED
  BY Zenon, <1>1, <1>6, <1>7, <1>9, <1>11 DEF MaintenanceInv

(* The marker moves up to the run's current hour: everything before the new
   window has been gone over. *)
LEMMA RollupMarksStep == MaintenanceInv /\ RollupMarks => MaintenanceInv'
<1> SUFFICES ASSUME MaintenanceInv, RollupMarks PROVE MaintenanceInv'
  BY Zenon
<1>1. TypeOK'
  BY Zenon, TypeStep DEF MaintenanceInv, Next, Rollup
<1>2. UNCHANGED <<now, raw, rollups, tardy, purged, expired>>
  BY Zenon DEF RollupMarks, clockVars, historyVars
<1>3. job = "hours" /\ ~(cursor < current) /\ job' = "idle" /\ rolled'
  BY Zenon DEF RollupMarks, JobOver
<1>4. /\ now.hour \in Int /\ cursor \in Int /\ current \in Int /\ through \in Int
      /\ Window \in Nat
  BY Zenon, MaintenanceAssumption DEF MaintenanceInv, TypeOK, Instant
<1>5. through' = current /\ (rolled => through <= through')
  BY <1>3, <1>4 DEF MaintenanceInv, ClockInv, RollupMarks
<1>6. ClockInv'
  BY Zenon, <1>2, <1>3, <1>5 DEF MaintenanceInv, ClockInv
<1>7. \A h \in Int : rolled /\ h < through - Window => h < through' - Window
  BY <1>4, <1>5
<1>8. \A r \in purged : r.hour \in Int
  BY Zenon DEF MaintenanceInv, TypeOK, Instant
<1>9. \A h \in DOMAIN rollups : h \in Int
  BY Zenon DEF MaintenanceInv, TypeOK
<1>10. WindowInv'
  BY Zenon, <1>2, <1>3, <1>7, <1>8, <1>9 DEF MaintenanceInv, WindowInv
<1>11. MarkerHolds'
  <2>1. \A r \in raw : r.hour \in Int
    BY Zenon DEF MaintenanceInv, TypeOK, Instant
  <2> QED
    BY <1>2, <1>3, <1>4, <1>5, <2>1 DEF MaintenanceInv, CursorInv, MarkerHolds, Aggregated
<1>12. CursorInv' /\ AggregatedBeforeDeleted'
  BY Zenon, <1>2, <1>3 DEF MaintenanceInv, CursorInv, AggregatedBeforeDeleted, Aggregated
<1> QED
  BY Zenon, <1>1, <1>6, <1>10, <1>11, <1>12 DEF MaintenanceInv

(* Purge fixes a cutoff that is not past the window, or a step of either job
   ends it: rows, aggregates and marker stay as they are. *)
LEMMA QuietStep ==
  MaintenanceInv /\ (PurgeBegins \/ PurgeRawEnds \/ PurgeEnds \/ JobFails) => MaintenanceInv'
<1> SUFFICES ASSUME MaintenanceInv, PurgeBegins \/ PurgeRawEnds \/ PurgeEnds \/ JobFails
             PROVE  MaintenanceInv'
  BY Zenon
<1>1. TypeOK'
  BY Zenon, TypeStep DEF MaintenanceInv, Next, Purge
<1>2. UNCHANGED <<now, raw, rollups, rolled, through, tardy, purged, expired>>
  BY Zenon DEF PurgeBegins, PurgeRawEnds, PurgeEnds, JobFails, clockVars, tableVars, historyVars
<1>3. job' \in {"idle", "raw", "expire"}
  BY Zenon DEF PurgeBegins, PurgeRawEnds, PurgeEnds, JobFails, JobOver
<1>4. ClockInv' /\ CursorInv'
  BY Zenon, <1>2, <1>3 DEF MaintenanceInv, ClockInv, CursorInv
<1>5. job' = "raw" => rolled /\ ~Before(At(through - Window, 0), cutoff')
  <2>1. now.hour \in Int /\ through \in Int /\ Window \in Nat /\ RawTTL \in Nat
    BY Zenon, MaintenanceAssumption DEF MaintenanceInv, TypeOK, Instant
  <2>2. ~Before(At(through - Window, 0), RawCutoff)
    BY <2>1 DEF Before, At, RawCutoff
  <2> QED
    BY Zenon, <2>2 DEF PurgeBegins, PurgeRawEnds, PurgeEnds, JobFails, JobOver
<1>6. WindowInv'
  BY Zenon, <1>2, <1>3, <1>5, RestStays DEF WindowInv
<1> QED
  BY Zenon, <1>1, <1>2, <1>4, <1>6, RestStays DEF MaintenanceInv

(* A batch of raw rows is deleted: all from before the window, so the marker
   vouches for those that came in time. *)
LEMMA PurgeRawStep ==
  ASSUME MaintenanceInv, NEW gone \in SUBSET Purgeable, PurgeRaw(gone)
  PROVE  MaintenanceInv'
<1>1. TypeOK'
  BY Zenon, TypeStep DEF MaintenanceInv, Next, Purge
<1>2. UNCHANGED <<now, rollups, rolled, through, tardy, expired, job, current, cursor, cutoff>>
  BY Zenon DEF PurgeRaw, clockVars, jobVars
<1>3. job = "raw" /\ raw' = raw \ gone /\ purged' = purged \cup gone /\ gone \subseteq raw
  BY Zenon DEF PurgeRaw, Purgeable
<1>4. rolled
  BY Zenon, <1>3 DEF MaintenanceInv, WindowInv
<1>5. ASSUME NEW r \in gone PROVE r.hour \in Int /\ r.hour < through - Window
  <2>1. r \in Instant /\ cutoff \in Instant /\ Before(r, cutoff)
    BY Zenon DEF Purgeable, MaintenanceInv, TypeOK
  <2>2. through \in Int /\ Window \in Int
    BY MaintenanceAssumption DEF MaintenanceInv, TypeOK
  <2>3. ~Before(At(through - Window, 0), cutoff)
    BY Zenon, <1>3 DEF MaintenanceInv, WindowInv
  <2> QED
    BY <2>1, <2>2, <2>3, MaintenanceAssumption DEF Before, At, Instant
<1>6. ClockInv' /\ CursorInv'
  BY Zenon, <1>2, <1>3 DEF MaintenanceInv, ClockInv, CursorInv
<1>7. MarkerHolds'
  BY Zenon, <1>2, <1>3 DEF MaintenanceInv, MarkerHolds, Aggregated
<1>8. AggregatedBeforeDeleted'
  BY Zenon, <1>2, <1>3, <1>4, <1>5 DEF MaintenanceInv, MarkerHolds, AggregatedBeforeDeleted, Aggregated
<1>9. WindowInv'
  <2>1. \A r \in purged' : rolled /\ r.hour < through - Window
    BY Zenon, <1>3, <1>4, <1>5 DEF MaintenanceInv, WindowInv
  <2>2. ASSUME NEW h \in DOMAIN rollups, NEW r \in rollups[h]
        PROVE  r.hour = h /\ (r \in raw' \/ (rolled /\ h < through - Window))
    BY <1>3, <1>4, <1>5 DEF MaintenanceInv, WindowInv
  <2> QED
    BY Zenon, <1>2, <1>3, <2>1, <2>2 DEF MaintenanceInv, WindowInv
<1> QED
  BY Zenon, <1>1, <1>6, <1>7, <1>8, <1>9 DEF MaintenanceInv

(* A batch of aggregates expires. *)
LEMMA PurgeRollupsStep ==
  ASSUME MaintenanceInv, NEW hours \in SUBSET PurgeableHours, PurgeRollups(hours)
  PROVE  MaintenanceInv'
<1>1. TypeOK'
  BY Zenon, TypeStep DEF MaintenanceInv, Next, Purge
<1>2. UNCHANGED <<now, raw, rolled, through, tardy, purged, job, current, cursor, cutoff>>
  BY Zenon DEF PurgeRollups, clockVars, jobVars
<1>3. job = "expire" /\ rollups' = [h \in DOMAIN rollups \ hours |-> rollups[h]]
  BY Zenon DEF PurgeRollups
<1>4. expired \in Int /\ expiry \in Int /\ expired <= expired' /\ expiry <= expired'
  BY DEF PurgeRollups, MaintenanceInv, TypeOK
<1>5. \A h \in hours : h \in Int /\ h < expired'
  BY <1>1, <1>4 DEF PurgeableHours, MaintenanceInv, TypeOK
<1>6. ASSUME NEW r \in raw \cup purged, Aggregated(r) \/ r.hour < expired
      PROVE  Aggregated(r)' \/ r.hour < expired'
  <2>1. r.hour \in Int
    BY Zenon DEF MaintenanceInv, TypeOK, Instant
  <2>2. expired' \in Int
    BY Zenon, <1>1 DEF TypeOK
  <2>3. CASE r.hour < expired
    BY <1>4, <2>1, <2>2, <2>3
  <2>4. CASE Aggregated(r)
    BY Zenon, <1>3, <1>5, <2>4 DEF Aggregated
  <2> QED
    BY Zenon, <1>6, <2>3, <2>4
<1>7. ClockInv' /\ CursorInv'
  BY Zenon, <1>2, <1>3 DEF MaintenanceInv, ClockInv, CursorInv
<1>8. MarkerHolds' /\ AggregatedBeforeDeleted'
  BY Zenon, <1>2, <1>6 DEF MaintenanceInv, MarkerHolds, AggregatedBeforeDeleted
<1>9. WindowInv'
  BY Zenon, <1>2, <1>3 DEF MaintenanceInv, WindowInv
<1> QED
  BY Zenon, <1>1, <1>7, <1>8, <1>9 DEF MaintenanceInv

(* Every step keeps the invariant. *)
LEMMA NextInv == MaintenanceInv /\ [Next]_vars => MaintenanceInv'
<1> SUFFICES ASSUME MaintenanceInv, [Next]_vars PROVE MaintenanceInv'
  BY Zenon
<1>1. CASE UNCHANGED vars
  BY Zenon, <1>1 DEF vars, clockVars, tableVars, jobVars, historyVars, MaintenanceInv, TypeOK,
     ClockInv, WindowInv, CursorInv, MarkerHolds, AggregatedBeforeDeleted, Aggregated
<1> QED
  BY Zenon, <1>1, TickStep, IngestStep, RollupStartStep, RollupHourStep, RollupMarksStep, QuietStep,
     PurgeRawStep, PurgeRollupsStep DEF Next, Rollup, Purge

(* MaintenanceInv holds throughout. *)
THEOREM MaintenanceInvariant == Spec => []MaintenanceInv
  BY InitInv, NextInv, PTL DEF Spec

(* Type correctness. *)
THEOREM MaintenanceTyped == Spec => []TypeOK
<1>1. MaintenanceInv => TypeOK
  BY Zenon DEF MaintenanceInv
<1> QED
  BY <1>1, MaintenanceInvariant, PTL

(* Retention never outruns aggregation: Purge deletes a row that came in time
   only when Rollup has put it into its hour's aggregate for good. *)
THEOREM DeletesOnlyAggregated == Spec => []AggregatedBeforeDeleted
<1>1. MaintenanceInv => AggregatedBeforeDeleted
  BY Zenon DEF MaintenanceInv
<1> QED
  BY <1>1, MaintenanceInvariant, PTL

(* What rolled_through vouches for: rows that came in time and lie before its
   window are aggregated. *)
THEOREM MarkerVouches == Spec => []MarkerHolds
<1>1. MaintenanceInv => MarkerHolds
  BY Zenon DEF MaintenanceInv
<1> QED
  BY <1>1, MaintenanceInvariant, PTL

(* Recomputing an hour never loses a row: Rollup only overwrites hours whose raw
   rows Purge has not touched. *)
THEOREM AggregatesOnlyGrow == Spec => RollupsNeverShrink
<1> DEFINE Grows == \A h \in DOMAIN rollups \cap DOMAIN rollups' : rollups[h] \subseteq rollups'[h]
<1>1. MaintenanceInv /\ [Next]_vars => [Grows]_vars
  <2> SUFFICES ASSUME MaintenanceInv, Next PROVE Grows
    BY Zenon
  <2>1. CASE RollupHour
    BY Zenon, <2>1, RollupHourGrows
  <2>2. ASSUME NEW hours \in SUBSET PurgeableHours, PurgeRollups(hours) PROVE Grows
    BY Zenon, <2>2 DEF PurgeRollups
  <2>3. CASE rollups' = rollups
    BY Zenon, <2>3
  <2>4. \/ RollupHour
        \/ \E hours \in SUBSET PurgeableHours : PurgeRollups(hours)
        \/ rollups' = rollups
    BY Zenon DEF Next, Tick, Ingest, Rollup, RollupBegins, RollupReads, RollupMarks, Purge,
       PurgeBegins, PurgeRaw, PurgeRawEnds, PurgeEnds, JobFails, tableVars
  <2> QED
    BY Zenon, <2>1, <2>2, <2>3, <2>4
<1>2. RollupsNeverShrink <=> [][Grows]_vars
  BY Zenon DEF RollupsNeverShrink
<1> QED
  BY <1>1, <1>2, MaintenanceInvariant, PTL DEF Spec

(* A finite set of rows that is not empty has a newest one. *)
LEMMA NewestExists ==
  ASSUME NEW S \in SUBSET Instant, IsFiniteSet(S), S # {}
  PROVE  Newest(S) # {}
<1> SUFFICES ASSUME Newest(S) = {} PROVE FALSE
  BY Zenon
<1> DEFINE Bad == {U \in FiniteSubsetsOf(S) : U # {} /\ Newest(U) = {}}
<1>1. Bad \subseteq FiniteSubsetsOf(S) /\ Bad # {}
  BY Zenon DEF FiniteSubsetsOf
<1>2. PICK U \in Bad : \A V \in Bad : ~(<<V, U>> \in StrictSubsetOrdering(S))
  BY Zenon, <1>1, FS_StrictSubsetOrderingWellFounded, WFMin
<1>3. PICK x \in U : TRUE
  BY Zenon, <1>2
<1>4. U \ {x} \in FiniteSubsetsOf(S) /\ U \in SUBSET Instant
  BY Zenon, <1>2, FS_RemoveElement DEF FiniteSubsetsOf
<1>5. <<U \ {x}, U>> \in StrictSubsetOrdering(S)
  BY Zenon, <1>2, <1>3, <1>4 DEF StrictSubsetOrdering, FiniteSubsetsOf
<1>6. U \ {x} = {} \/ Newest(U \ {x}) # {}
  BY Zenon, <1>2, <1>4, <1>5
<1>7. CASE U \ {x} = {}
  <2>1. ~Before(x, x)
    BY <1>3, <1>4 DEF Before, Instant
  <2>2. x \in Newest(U)
    BY Zenon, <1>3, <1>7, <2>1 DEF Newest
  <2> QED
    BY Zenon, <1>2, <2>2
<1>8. CASE Newest(U \ {x}) # {}
  <2>1. PICK m \in U \ {x} : \A s \in U \ {x} : ~Before(m, s)
    BY Zenon, <1>8 DEF Newest
  <2>2. CASE ~Before(m, x)
    BY Zenon, <1>2, <2>1, <2>2 DEF Newest
  <2>3. CASE Before(m, x)
    <3>1. \A s \in U : ~Before(x, s)
      BY <1>3, <1>4, <2>1, <2>3 DEF Before, Instant
    <3> QED
      BY Zenon, <1>2, <1>3, <3>1 DEF Newest
  <2> QED
    BY Zenon, <2>2, <2>3
<1> QED
  BY Zenon, <1>6, <1>7, <1>8

(* Of two rows of a series, one is before the other. *)
LEMMA Ordered ==
  ASSUME NEW a \in Instant, NEW b \in Instant, a # b
  PROVE  /\ Before(a, b) \/ Before(b, a)
         /\ ~(Before(a, b) /\ Before(b, a))
<1>1. a.hour # b.hour \/ a.part # b.part
  BY DEF Instant
<1> QED
  BY <1>1 DEF Before, Instant

(* The insert trigger keeps metric_latest the newest row. *)
LEMMA LatestInsert ==
  ASSUME TypeOK, LatestIsNewest, NEW r \in Instant, r \notin raw
  PROVE  LatestAfterInsert(r) = Newest(raw \cup {r})
<1>1. CASE raw = {}
  BY <1>1 DEF LatestIsNewest, LatestAfterInsert, Newest, Before, Instant
<1>2. CASE raw # {}
  <2>1. PICK l \in raw : l \in latest /\ \A s \in raw : ~Before(l, s)
    BY Zenon, <1>2, NewestExists DEF TypeOK, LatestIsNewest, Newest
  <2>2. latest = {l}
    BY <2>1, Ordered DEF TypeOK, LatestIsNewest, Newest
  <2>3. ~Before(r, r) /\ ~Before(l, l)
    BY <2>1 DEF Before, Instant, TypeOK
  <2>4. CASE Before(l, r)
    <3>1. \A s \in raw : ~Before(r, s)
      BY <2>1, <2>4 DEF TypeOK, Before, Instant
    <3>2. \A s \in raw : Before(s, r)
      BY Zenon, <3>1, Ordered DEF TypeOK
    <3> QED
      BY Zenon, <2>2, <2>3, <2>4, <3>1, <3>2 DEF LatestAfterInsert, Newest
  <2>5. CASE ~Before(l, r)
    <3>1. Before(r, l)
      BY Zenon, <2>1, <2>5, Ordered DEF TypeOK
    <3> QED
      BY Zenon, <2>1, <2>2, <2>5, <3>1 DEF LatestAfterInsert, Newest, LatestIsNewest
  <2> QED
    BY Zenon, <2>4, <2>5
<1> QED
  BY Zenon, <1>1, <1>2

(* The delete trigger keeps metric_latest the newest row. *)
LEMMA LatestDelete ==
  ASSUME TypeOK, LatestIsNewest, NEW gone \in SUBSET raw
  PROVE  LatestAfterDelete(gone) = Newest(raw \ gone)
<1>1. CASE latest \cap gone # {}
  BY Zenon, <1>1 DEF LatestAfterDelete
<1>2. CASE latest \cap gone = {} /\ raw = {}
  BY Zenon, <1>2 DEF LatestAfterDelete, LatestIsNewest, Newest
<1>3. CASE latest \cap gone = {} /\ raw # {}
  <2>1. PICK l \in raw : l \in latest /\ \A s \in raw : ~Before(l, s)
    BY Zenon, <1>3, NewestExists DEF TypeOK, LatestIsNewest, Newest
  <2>2. latest = {l} /\ l \in raw \ gone
    BY <1>3, <2>1, Ordered DEF TypeOK, LatestIsNewest, Newest
  <2>3. \A s \in raw : s # l => Before(s, l)
    BY Zenon, <2>1, Ordered DEF TypeOK
  <2> QED
    BY Zenon, <1>3, <2>1, <2>2, <2>3 DEF LatestAfterDelete, Newest
<1> QED
  BY Zenon, <1>1, <1>2, <1>3

(* metric_latest is the newest raw row, whatever arrives and is purged. *)
THEOREM LatestStaysNewest == Spec => []LatestIsNewest
<1>1. Init => LatestIsNewest
  BY Zenon DEF Init, LatestIsNewest, Newest
<1>2. TypeOK /\ LatestIsNewest /\ [Next]_vars => LatestIsNewest'
  <2> SUFFICES ASSUME TypeOK, LatestIsNewest, [Next]_vars PROVE LatestIsNewest'
    BY Zenon
  <2>1. ASSUME NEW h \in 0..MaxHour + 1, NEW p \in 0..Parts - 1, Ingest(At(h, p))
        PROVE  LatestIsNewest'
    <3>1. At(h, p) \in Instant
      BY MaintenanceAssumption DEF Instant, At
    <3> QED
      BY Zenon, <2>1, <3>1, LatestInsert DEF Ingest, LatestIsNewest, Newest
  <2>2. ASSUME NEW gone \in SUBSET Purgeable, PurgeRaw(gone)
        PROVE  LatestIsNewest'
    <3>1. gone \in SUBSET raw
      BY Zenon DEF Purgeable
    <3> QED
      BY Zenon, <2>2, <3>1, LatestDelete DEF PurgeRaw, LatestIsNewest, Newest
  <2>3. CASE UNCHANGED <<raw, latest>>
    BY Zenon, <2>3 DEF LatestIsNewest, Newest
  <2>4. \/ \E h \in 0..MaxHour + 1, p \in 0..Parts - 1 : Ingest(At(h, p))
        \/ \E gone \in SUBSET Purgeable : PurgeRaw(gone)
        \/ UNCHANGED <<raw, latest>>
    BY Zenon DEF Next, Tick, Rollup, RollupBegins, RollupReads, RollupHour, RollupMarks, Purge,
       PurgeBegins, PurgeRollups, PurgeRawEnds, PurgeEnds, JobFails, tableVars, vars
  <2> QED
    BY Zenon, <2>1, <2>2, <2>3, <2>4
<1> QED
  BY <1>1, <1>2, MaintenanceTyped, PTL DEF Spec

=============================================================================
