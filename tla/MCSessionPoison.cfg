\* Undoing an interpose whose goal is proved.
SPECIFICATION Spec
CONSTANTS
  lo = lo
  mid = mid
  hi = hi
  Programs <- ThreePrograms
  Refines <- ThreeRefines
  Asked <- BothAsked
  Scratches <- NoScratch
  Moves <- UndoMoves
  MaxGoals = 3
  MaxHistory = 2
INVARIANTS LogFolds
\* A log that does not fold stops the session: there is no move after it.
CHECK_DEADLOCK FALSE
