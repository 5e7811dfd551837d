----------------------------- MODULE MCDatabase -----------------------------
(***************************************************************************)
(* The database file and the agent's event collectors share no state, so   *)
(* each is explored while the other has not begun.                         *)
(***************************************************************************)
EXTENDS Database, Tail, TLC

\* A line longer than MaxMessage, a routine health check, and stderr beside it.
MCText == [c \in Containers |-> [stdout |-> <<"a", "b", NL, "h", NL>>, stderr |-> <<"c", NL>>]]
MCRoutine == {<<"h">>}
MCSeverity == <<"a", "b">> :> "error"
MCMessages == {<<"m">>, <<"h">>}
Symmetry == Permutations(Procs) \cup Permutations(Outs)

\* Entries and exits of the subprocesses touch nothing of DockerLogs: they are
\* explored before the containers write.
Apart ==
  entries > 0 \/ exited # {} => second = 1 /\ \A c \in Containers : tail[c] = <<>> /\ wrote[c] = Beginning

EitherInit == DatabaseInit /\ TailInit
EitherNext ==
  \/ TailInit /\ DatabaseNext /\ UNCHANGED tailVars
  \/ DatabaseInit /\ bundle = [o \in Outs |-> NoFile] /\ TailNext /\ Apart' /\ UNCHANGED databaseVars
EitherSpec == EitherInit /\ [][EitherNext]_<<databaseVars, tailVars>>

=============================================================================
