\* Two processes in one run directory, one of which has no terminal, and moves that begin in
\* logs of up to two lines.  And every install, then calls of every tool one after the other,
\* each with every way its process, its clock, an abort and the end of the run may come together.
SPECIFICATION EitherSpec
CONSTANTS
  Procs = {p1, p2}
  MaxLines = 2
  MaxTurns = 1
  Headless = {p2}
  Bounded = {p2}
  Eager = {p1}
  Scripts <- AllScripts
  Releases = {"r1", "r2"}
INVARIANTS NamedIsStored ResultsPaired HeardOut NotBlamed TidiesUp
PROPERTIES KeepsPromise Ends AnswersOrNone RidOfInTime
\* A directory whose processes have all ended stays as it is, and a run that is refused, or
\* out of time, stops.
CHECK_DEADLOCK FALSE
