\* A transaction with any move between its edits, on one split at a time; and, with none,
\* contracts of every kind on one cut with all they land, the unfolds of its loop before and
\* after them, the reverts and undos that would take them back, where nothing does, and
\* splits of any kind below splits, and their undoing.
SPECIFICATION SmallSpec
CONSTANTS
  lo = lo
  mid = mid
  hi = hi
  Programs <- TwoPrograms
  Refines <- TwoRefines
  Asked <- AllAsked
  Scratches <- TwoPrograms
  Moves <- AllMoves
  MaxGoals = 5
  MaxHistory = 3
INVARIANTS TypeOK SettledExactly TxnCurrent Forest VerdictSound SoundInv ContractStands
PROPERTIES PromiseKept GoalNamesFresh
\* A log that does not fold stops the session: there is no move after it.
CHECK_DEADLOCK FALSE
