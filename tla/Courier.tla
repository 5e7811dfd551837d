------------------------------ MODULE Courier ------------------------------
(***************************************************************************)
(* What delivering telemetry promises, with no spool, sessions, requests   *)
(* or processes: batches are numbered as they are accepted, leave oldest   *)
(* first, and leave only once applied or openly given up.                  *)
(***************************************************************************)
EXTENDS Integers

VARIABLES accepted,   \* how many batches have been accepted
          held,       \* the batches still the courier's responsibility
          applied,    \* the batches whose effect has been applied, once each
          lost        \* the batches given up

courierVars == <<accepted, held, applied, lost>>

CourierInit ==
  /\ accepted = 0
  /\ held = {} /\ applied = {} /\ lost = {}

Accept ==
  /\ accepted' = accepted + 1
  /\ held' = held \cup {accepted + 1}
  /\ UNCHANGED <<applied, lost>>

(* The oldest held batch is applied; one given up may still turn up later. *)
Apply(b) ==
  /\ b \notin applied
  /\ \/ b \in held /\ \A c \in held : b <= c
     \/ b \in lost
  /\ applied' = applied \cup {b}
  /\ UNCHANGED <<accepted, held, lost>>

(* Batches leave oldest first, each applied by then or counted as lost. *)
Settle(leaving, giveUp) ==
  /\ leaving \subseteq held
  /\ \A b \in leaving, c \in held \ leaving : b < c
  /\ giveUp \subseteq leaving
  /\ leaving \subseteq applied \cup giveUp
  /\ held' = held \ leaving
  /\ lost' = lost \cup giveUp
  /\ UNCHANGED <<accepted, applied>>

CourierNext ==
  \/ Accept
  \/ \E b \in held \cup lost : Apply(b)
  \/ \E leaving \in SUBSET held : \E giveUp \in SUBSET leaving : Settle(leaving, giveUp)

CourierSpec == CourierInit /\ [][CourierNext]_courierVars

=============================================================================
