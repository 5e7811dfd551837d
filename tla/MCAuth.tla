------------------------------- MODULE MCAuth -------------------------------
(***************************************************************************)
(* Auth and RateLimit share no state, so each is explored while the other  *)
(* has not begun.                                                          *)
(***************************************************************************)
EXTENDS Auth, RateLimit, TLC

CONSTANTS a1, a2, b, proxy

\* a1 and a2 are in one /64; behind the proxy are b and a client without a
\* usable header; a2 writes a header of its own.
MCSources == {[peer |-> a1, forwarded |-> NoAddr, client |-> a1],
              [peer |-> a2, forwarded |-> b, client |-> a1],
              [peer |-> proxy, forwarded |-> b, client |-> b],
              [peer |-> proxy, forwarded |-> NoAddr, client |-> proxy]}
MCPrefix == (a1 :> a1) @@ (a2 :> a1) @@ (b :> b) @@ (proxy :> proxy)
MCTrusted == {proxy}
Symmetry == Permutations(Requests) \cup Permutations(Passwords)

EitherInit == Init /\ BucketInit
EitherNext ==
  \/ BucketInit /\ Next /\ UNCHANGED bucketVars
  \/ Init /\ BucketNext /\ UNCHANGED vars
EitherSpec == EitherInit /\ [][EitherNext]_<<vars, bucketVars>>

=============================================================================
