--------------------------- MODULE MCMaintenance ---------------------------
(* Maintenance on small instances, with and without a clock that is set. *)
EXTENDS Maintenance

FairSpec == Spec /\ Fairness

=============================================================================
