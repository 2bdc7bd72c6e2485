SPECIFICATION FairSpec
CONSTANTS
  Pages = {"liveness", "readiness", "keygen"}
  Handler <- ThreePages
  MaxFlights = 2
  MaxVersion = 1
  MaxMoves = 1
  MaxErrors = 2
INVARIANTS TypedIsKept SignTells
PROPERTIES OldOnlyFromBefore EventuallyShows
