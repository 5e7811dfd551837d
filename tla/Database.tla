------------------------------ MODULE Database ------------------------------
(***************************************************************************)
(* The database file: the processes that open, migrate and write it (the   *)
(* server, and commands of the "admin" kind), and the tools that copy or   *)
(* replace it: backup, restore and vacuum.  Any process may die at any     *)
(* step, and files stay as they are then.                                  *)
(*                                                                         *)
(* main is the file at the database's path, and visible what its readers   *)
(* see: main and the write-ahead log beside it.  Moving the file moves     *)
(* main alone.  Two assumptions come from how the operator is told to use  *)
(* the tools: one runs at a time, and nothing is started while one swaps   *)
(* the file (the tools themselves check that nothing is running).          *)
(***************************************************************************)
EXTENDS Integers, Sequences

CONSTANTS
  Procs,            \* processes that open the database and migrate it
  Outs,             \* bundle files
  Migrations,       \* MigrationCount of this binary
  MaxRows, MaxTools \* bounds: transactions committed, tools started

ASSUME DatabaseAssumption ==
  Migrations \in Nat /\ MaxRows \in Nat /\ MaxTools \in Nat

VARIABLES
  main, visible,
  proc,    \* each process: where it is, and the migration it is at
  tool,    \* the tool that runs, with the copy it made or extracted
  bundle,  \* bundle files
  kept,    \* files set aside: *.pre-restore-*, *.pre-vacuum-*
  rows,    \* transactions committed so far
  tools,   \* tools started so far: the stamp of the names they make
  states   \* history: every state of the data that was committed

files == <<main, visible>>
databaseVars == <<files, proc, tool, bundle, kept, rows, tools, states>>

Down == [pc |-> "down"]
Idle == [pc |-> "idle"]
\* A database file: its data, the migrations run and those recorded.
Content(data, done, recorded) == [there |-> TRUE, rows |-> data, done |-> done, recorded |-> recorded]
NoFile == [there |-> FALSE]
Empty == Content({}, <<>>, {})
Newer == Content({}, [v \in 1..Migrations + 1 |-> v], 1..Migrations + 1)
Partial == Content({0}, <<>>, {})  \* a bundle cut short

DatabaseInit ==
  /\ main = NoFile /\ visible = NoFile
  /\ proc = [p \in Procs |-> Down] /\ tool = Idle
  /\ bundle \in [Outs -> {NoFile, Newer}]
  /\ kept = {} /\ rows = 0 /\ tools = 0 /\ states = {{}}

-----------------------------------------------------------------------------
(* Opening, migrating and writing *)

Swapping == tool.pc \in {"compact", "swap", "install", "cleanup"}
Copying == tool.pc \in {"snapshot", "bundle"}

\* Open: creates the file if there is none.
Open(p) ==
  /\ proc[p] = Down /\ ~Swapping
  /\ IF main = NoFile THEN main' = Empty /\ visible' = Empty ELSE UNCHANGED files
  /\ proc' = [proc EXCEPT ![p] = [pc |-> "check", at |-> 1]]
  /\ UNCHANGED <<tool, bundle, kept, rows, tools, states>>

\* Past the last migration.
AllDone(v) == v > Migrations

\* Migrate: is the next one recorded?
Check(p) ==
  /\ proc[p].pc = "check"
  /\ proc' = [proc EXCEPT ![p] =
       IF AllDone(@.at) THEN [pc |-> "up", at |-> @.at]
       ELSE IF @.at \in visible.recorded THEN [pc |-> "check", at |-> @.at + 1]
       ELSE [pc |-> "apply", at |-> @.at]]
  /\ UNCHANGED <<files, tool, bundle, kept, rows, tools, states>>

RecordsOver(v) == TRUE

\* The row of schema_migrations is new: its key admits one.
Records(v) == v \notin visible.recorded

\* One transaction applies a migration and records it.
Apply(p) ==
  /\ proc[p].pc = "apply" /\ Records(proc[p].at)
  /\ visible' = Content(visible.rows, Append(visible.done, proc[p].at), visible.recorded \cup {proc[p].at})
  /\ proc' = [proc EXCEPT ![p] = [pc |-> "check", at |-> @.at + 1]]
  /\ UNCHANGED <<main, tool, bundle, kept, rows, tools, states>>

Write(p) ==
  /\ proc[p].pc = "up" /\ rows < MaxRows
  /\ rows' = rows + 1
  /\ visible' = Content(visible.rows \cup {rows + 1}, visible.done, visible.recorded)
  /\ states' = states \cup {visible.rows \cup {rows + 1}}
  /\ UNCHANGED <<main, proc, tool, bundle, kept, tools>>

\* SQLite moves the log into the file as it likes.
Checkpoint ==
  /\ main # visible /\ \E p \in Procs : proc[p] # Down
  /\ main' = visible
  /\ UNCHANGED <<visible, proc, tool, bundle, kept, rows, tools, states>>

\* The last connection to close checkpoints; a failed migration closes too.
Close(p) ==
  /\ proc[p] # Down
  /\ proc' = [proc EXCEPT ![p] = Down]
  /\ main' = IF Copying \/ \E q \in Procs \ {p} : proc[q] # Down THEN main ELSE visible
  /\ UNCHANGED <<visible, tool, bundle, kept, rows, tools, states>>

Crash(p) ==
  /\ proc[p] # Down
  /\ proc' = [proc EXCEPT ![p] = Down]
  /\ UNCHANGED <<files, tool, bundle, kept, rows, tools, states>>

-----------------------------------------------------------------------------
(* "admin backup" *)

Starts == tool = Idle /\ tools < MaxTools /\ tools' = tools + 1

\* O_EXCL
MayCreate(o) == bundle[o] = NoFile

BackupBegins(o) ==
  /\ Starts /\ main # NoFile /\ MayCreate(o)
  /\ bundle' = [bundle EXCEPT ![o] = Partial]
  /\ tool' = [pc |-> "snapshot", out |-> o]
  /\ UNCHANGED <<files, proc, kept, rows, states>>

\* VACUUM INTO: one consistent transaction.
Snapshot ==
  /\ tool.pc = "snapshot"
  /\ tool' = [pc |-> "bundle", out |-> tool.out, copy |-> visible]
  /\ UNCHANGED <<files, proc, bundle, kept, rows, tools, states>>

CloseTool == main' = IF \E p \in Procs : proc[p] # Down THEN main ELSE visible

WriteBundle ==
  /\ tool.pc = "bundle"
  /\ bundle' = [bundle EXCEPT ![tool.out] = tool.copy]
  /\ tool' = Idle /\ CloseTool
  /\ UNCHANGED <<visible, proc, kept, rows, tools, states>>

\* A failed backup leaves nothing behind.
BackupFails ==
  /\ Copying
  /\ bundle' = [bundle EXCEPT ![tool.out] = NoFile]
  /\ tool' = Idle /\ CloseTool
  /\ UNCHANGED <<visible, proc, kept, rows, tools, states>>

-----------------------------------------------------------------------------
(* "admin restore" and "admin vacuum" *)

\* extract, inspect, the manifest's hash and its migrations
Verified(b) == b # Partial /\ Migrations + 1 \notin b.recorded

RestoreBegins(o) ==
  /\ Starts /\ bundle[o] # NoFile /\ Verified(bundle[o])
  /\ tool' = [pc |-> "staged", kind |-> "restore", copy |-> bundle[o]]
  /\ UNCHANGED <<files, proc, bundle, kept, rows, states>>

\* ensureUnlocked finds another connection.
InUse == \E p \in Procs : proc[p] # Down

LogLeft == main

\* What the file holds once ensureUnlocked, the only connection, has closed.
Unlocked == visible

Stage(pc) == [pc |-> pc, kind |-> tool.kind, copy |-> tool.copy]

\* With --force; where there is no file nothing is set aside.
RestoreChecks ==
  /\ tool.pc = "staged"
  /\ IF main = NoFile THEN tool' = Stage("install") /\ UNCHANGED main
     ELSE IF InUse THEN tool' = Idle /\ UNCHANGED main
     ELSE tool' = Stage("swap") /\ main' = Unlocked
  /\ UNCHANGED <<visible, proc, bundle, kept, rows, tools, states>>

VacuumBegins ==
  /\ Starts /\ main # NoFile /\ ~InUse
  /\ main' = Unlocked
  /\ tool' = [pc |-> "compact"]
  /\ UNCHANGED <<visible, proc, bundle, kept, rows, states>>

\* VACUUM INTO and quick_check
VacuumCopies ==
  /\ tool.pc = "compact"
  /\ tool' = [pc |-> "swap", kind |-> "vacuum", copy |-> visible]
  /\ UNCHANGED <<files, proc, bundle, kept, rows, tools, states>>

\* The second the tool was started: a name of its own.
Stamp == tools

\* The first rename; then the log is removed.
SetAside ==
  /\ tool.pc = "swap"
  /\ kept' = kept \cup {[stamp |-> Stamp, rows |-> main.rows]}
  /\ main' = NoFile /\ visible' = NoFile
  /\ tool' = Stage("install")
  /\ UNCHANGED <<proc, bundle, rows, tools, states>>

\* The second rename.  Vacuum then may remove what it set aside.
Install ==
  /\ tool.pc = "install"
  /\ main' = tool.copy /\ visible' = tool.copy
  /\ tool' = [pc |-> "cleanup", kind |-> tool.kind]
  /\ UNCHANGED <<proc, bundle, kept, rows, tools, states>>

VacuumRemoves ==
  /\ tool.pc = "cleanup" /\ tool.kind = "vacuum"
  /\ kept' = {k \in kept : k.stamp # Stamp}
  /\ tool' = Idle
  /\ UNCHANGED <<files, proc, bundle, rows, tools, states>>

\* Done, with an error, by a signal or a crash; files stay.
ToolEnds ==
  /\ tool # Idle
  /\ tool' = Idle
  /\ UNCHANGED <<files, proc, bundle, kept, rows, tools, states>>

DatabaseNext ==
  \/ \E p \in Procs : Open(p) \/ Check(p) \/ Apply(p) \/ Write(p) \/ Close(p) \/ Crash(p)
  \/ Checkpoint
  \/ \E o \in Outs : BackupBegins(o) \/ RestoreBegins(o)
  \/ Snapshot \/ WriteBundle \/ BackupFails
  \/ RestoreChecks \/ VacuumBegins \/ VacuumCopies \/ SetAside \/ Install \/ VacuumRemoves
  \/ ToolEnds

DatabaseSpec == DatabaseInit /\ [][DatabaseNext]_databaseVars

-----------------------------------------------------------------------------
Stored == (UNION {k.rows : k \in kept}) \cup (IF visible = NoFile THEN {} ELSE visible.rows)

(* Whatever is interrupted, between the two renames of a restore or a vacuum
   too, every transaction ever committed is in the database or in a file that
   was set aside. *)
NothingLost == 1..rows \subseteq Stored

(* What a process reads is always a state that was committed at some time: never
   a half of one, nor a bundle cut short, nor one file with the log of another. *)
ReadsCommitted == visible # NoFile => visible.rows \in states

(* Migrations run once each, in order, and are recorded with their effect, also
   when processes start together and when an older database is restored. *)
MigratedOnce ==
  visible # NoFile =>
    /\ \A v \in DOMAIN visible.done : visible.done[v] = v
    /\ visible.recorded = DOMAIN visible.done

(* A process that went past Migrate works on the schema of its binary: nothing
   older, and nothing newer. *)
SchemaMatches == \A p \in Procs : proc[p].pc = "up" => visible.recorded = 1..Migrations

(* A bundle that was completed is never overwritten nor removed. *)
BundleKept == [][\A o \in Outs : bundle[o] \notin {NoFile, Partial} => bundle'[o] = bundle[o]]_bundle

=============================================================================
