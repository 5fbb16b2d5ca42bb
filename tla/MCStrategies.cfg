SPECIFICATION Spec
CONSTANTS
  Goals <- SomeGoals
  Edited <- EditedGoals
  Growth = 1
  MaxEdits = 2
INVARIANTS WalkExact RegionsHold SlotTrue OneEntry
\* The searcher is done once it has made every move.
CHECK_DEADLOCK FALSE
