\* One step of a goal, of either side and with every option, between two checks of its pair or
\* of another; every answer of alive2 right or late.
SPECIFICATION Spec
CONSTANTS
  Values <- ThreeValues
  Stop = 2
  Ops <- FourOps
  Does <- MCDoes
  Programs <- SomePrograms
  Asked <- SomeAsked
  Facts <- SomeFacts
  Unrolls = {1, 2}
  EagerMs = 1
  DefaultMs = 2
  CapMs = 3
  AskedMs = {4}
  MaxSteps = 1
  MaxChecks = 2
INVARIANTS ConclusionsTrue Replayable AnswersFit WindowFound
\* A refuted goal takes no step and no check.
CHECK_DEADLOCK FALSE
