----------------------------- MODULE MCOperator -----------------------------
(* Hosts and commands are interchangeable, so nothing is lost by naming the    *)
(* command that is queued first, and its host; liveness admits no symmetry set.*)
EXTENDS Operator

CONSTANTS First, Home

InOrder == (\E c \in Commands : status[c] # "new") => status[First] # "new"

MCInit == Init /\ hostOf[First] = Home

FairSpec == MCInit /\ [][Next /\ InOrder']_vars /\ Fairness

=============================================================================
