------------------------------ MODULE MCUptime ------------------------------
EXTENDS Uptime, TLC

CONSTANT First

\* Ids are random: whichever is used first is called First.
FirstIsFirst == used # {} => First \in used

MCInit == UptimeInit /\ FirstIsFirst

FairSpec == MCInit /\ [][UptimeNext /\ FirstIsFirst']_uptimeVars /\ Fairness

=============================================================================
