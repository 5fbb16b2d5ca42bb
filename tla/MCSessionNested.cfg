\* A loop whose contract is proved by an interpose, and unfolded once the interpose is proved,
\* or left without the proof by the undo of cases its callee was split by before.
SPECIFICATION NestedSpec
CONSTANTS
  lo = lo
  mid = mid
  hi = hi
  Programs <- ThreePrograms
  Refines <- ThreeRefines
  Asked <- WrongAsked
  Scratches <- NoScratch
  Moves <- NestedMoves
  MaxGoals = 7
  MaxHistory = 3
PROPERTIES ProofsStand
\* A run that is settled may have no move left within the bounds.
CHECK_DEADLOCK FALSE
