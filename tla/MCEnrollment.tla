---------------------------- MODULE MCEnrollment ----------------------------
(* Enrollment with the values of Enrollment.cfg. *)
EXTENDS Enrollment, TLC

Symmetry == Permutations(Hosts) \cup Permutations(Servers) \cup Permutations(Commands)

=============================================================================
