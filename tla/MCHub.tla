------------------------------- MODULE MCHub -------------------------------
(* Three batches that overlap and an uptime result; one subscriber wants     *)
(* everything, the other some of the records.                                *)
EXTENDS Hub, TLC

CONSTANTS s1, s2, b1, b2, b3, r1, r2, r3, u1

MCRecords == (b1 :> <<r1, r2>>) @@ (b2 :> <<r2, r3>>) @@ (b3 :> <<r1>>)
MCWanted == (s1 :> {r1, r2, r3, u1}) @@ (s2 :> {r2, u1})

FairSpec == Spec /\ Fairness

=============================================================================
