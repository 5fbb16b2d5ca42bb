\* Contracts on the halves of a cut of the root, plain or at a loop, with the steps, reverts and
\* undos around them, up to the certificate of the proof.
SPECIFICATION CKeptSpec
CONSTANTS
  lo = lo
  hi = hi
  Programs <- TwoPrograms
  Refines <- TwoRefines
  Asked <- RightAsked
  Scratches <- NoScratch
  Moves <- LogMoves
  MaxGoals = 5
  MaxHistory = 2
  MaxEffects = 3
CONSTRAINT OneCut
INVARIANTS ExportedWhole
\* A settled run may have no move left within the bounds, and one whose log does not fold has none.
CHECK_DEADLOCK FALSE
