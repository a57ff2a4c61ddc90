--------------------------- MODULE StayLifecycle ---------------------------
(* What the reservation promises about a stay, whatever rooms, dates,        *)
(* payments and housekeeping do: a party arrives at most once and then       *)
(* departs, or the reservation is dropped before anybody arrives; both ends  *)
(* are final.  VALID_TRANSITIONS of app/models/reservation.py, with the four *)
(* statuses before arrival and the two in-house ones taken together, and     *)
(* with the absence that mark_reservation_no_show records from any of the    *)
(* four.                                                                     *)
CONSTANT Reservations

VARIABLE phase  \* [Reservations -> Phases]

Phases == {"upcoming", "in_house", "departed", "dropped"}

Init == phase = [r \in Reservations |-> "upcoming"]

\* A first guest arrives.
Arrive(r) == phase[r] = "upcoming" /\ phase' = [phase EXCEPT ![r] = "in_house"]

\* The party leaves.
Depart(r) == phase[r] = "in_house" /\ phase' = [phase EXCEPT ![r] = "departed"]

\* Cancellation, release or no-show.
Drop(r) == phase[r] = "upcoming" /\ phase' = [phase EXCEPT ![r] = "dropped"]

Next == \E r \in Reservations : Arrive(r) \/ Depart(r) \/ Drop(r)

Spec == Init /\ [][Next]_phase
=============================================================================
