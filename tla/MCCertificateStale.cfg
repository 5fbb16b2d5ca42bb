\* A cut whose halves were proved, a step of the goal above them, and its own proof.
SPECIFICATION CSpec
CONSTANTS
  lo = lo
  hi = hi
  Programs <- TwoPrograms
  Refines <- TwoRefines
  Asked <- RightAsked
  Scratches <- NoScratch
  Moves <- StaleMoves
  MaxGoals = 3
  MaxHistory = 2
  MaxEffects = 3
INVARIANTS AsProved
\* A run that is settled may have no move left within the bounds.
CHECK_DEADLOCK FALSE
