\* One process cut short between a line and its end, and another that resumes from the line.
CONSTANTS
  Procs = {p1, p2}
  MaxLines = 2
  MaxTurns = 1
  Headless = {p2}
  Bounded = {p2}
  Eager = {p1}
SPECIFICATION FairSpec
PROPERTIES ContinuesChain
\* A directory whose processes have all ended stays as it is.
CHECK_DEADLOCK FALSE
