---------------------------- MODULE MCAnalytics ----------------------------
(* Analytics with the values of Analytics.cfg. *)
EXTENDS Analytics

=============================================================================
