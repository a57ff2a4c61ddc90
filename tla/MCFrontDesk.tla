---------------------------- MODULE MCFrontDesk ----------------------------
(* Instances of FrontDesk for TLC.  Rooms are interchangeable; reservations    *)
(* are not, for their dates and parties differ.                                *)
EXTENDS FrontDesk, TLC

CONSTANTS r1, r2, r3

\* r2 arrives on the day r1 leaves; r3 shares a night with each of them.
ArrivalDay == (r1 :> 1) @@ (r2 :> 2) @@ (r3 :> 1)
DepartureDay == (r1 :> 2) @@ (r2 :> 4) @@ (r3 :> 3)

\* A couple, and two single guests.
PartySize == (r1 :> 2) @@ (r2 :> 1) @@ (r3 :> 1)

Symmetric == Permutations(Rooms)
=============================================================================
