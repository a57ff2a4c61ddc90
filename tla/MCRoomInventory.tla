--------------------------- MODULE MCRoomInventory ---------------------------
(* Instances of RoomInventory for TLC.                                        *)
EXTENDS RoomInventory, TLC

\* Reservations and rooms are interchangeable in every definition; the no-show
\* cutoff has passed for all reservations or for none.
Symmetric == Permutations(Reservations) \cup Permutations(Rooms)
=============================================================================
