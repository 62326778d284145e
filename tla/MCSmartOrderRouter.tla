------------------------- MODULE MCSmartOrderRouter -------------------------
(* Three venues, two of equal score, and two calls. *)
EXTENDS SmartOrderRouter

CONSTANTS VenueA, VenueB, VenueC

Scores == [v \in Venues |-> IF v = VenueB THEN 1 ELSE 2]
=============================================================================
