\* A whole search of the root with one stage, two cuts and a repair; every answer may be late.
CONSTANTS
  Programs <- OneProgram
  Refines <- SameProgram
  MaxCuts = 2
  Stages = 1
  Comparisons = 1
  Offers <- SomeOffers
  MaxFacts = 1
  IntTypes <- ShortInts
  HalfOf <- ShortHalf
  Safe = 2
  Submasks <- BitsIn
  Nothing = Nothing
SPECIFICATION FairSpec
INVARIANTS AgendaStands NoneForgotten GivesUpWhole
PROPERTIES Finishes
