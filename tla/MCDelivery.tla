----------------------------- MODULE MCDelivery -----------------------------
(* Delivery on small instances.  Ticks are bounded, so a behaviour may end:   *)
(* only when the sender sleeps, no request is left and nothing is queued, or  *)
(* a file that could not be deleted is all that is queued.                    *)
EXTENDS Delivery

Quiet ==
  /\ open /\ ~adding /\ added = MaxAdded
  /\ pc = "wait" /\ ~kick
  /\ items = <<>> \/ "delete" \in Faults
  /\ UNCHANGED vars

MCNext == Next \/ Quiet

MCSpec == Init /\ [][MCNext]_vars

FairSpec == MCSpec /\ Fairness

=============================================================================
