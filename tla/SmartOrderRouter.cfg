SPECIFICATION FairSpec
CONSTANTS
  VenueA = VenueA
  VenueB = VenueB
  VenueC = VenueC
  Venues = {VenueA, VenueB, VenueC}
  Score <- Scores
  MaxCalls = 2
INVARIANTS EachSeenVenueOnce NoTaskOutlivesCall
PROPERTY CallEnds
