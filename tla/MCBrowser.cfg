\* Two searches of one page, one after the other, with an edit, a file read, a report and a
\* checker in each, and every order in which their messages may arrive.
SPECIFICATION FairSpec
CONSTANTS
  MaxRuns = 2
  MaxMoves = 1
  MaxCalls <- ThreeThenOne
  MaxActs = 2
  MaxReports = 1
  NoJob = NoJob
INVARIANTS WholeHistory NothingRunsOn ReportIsCurrent
PROPERTIES LatestText Answered
\* The page may wait for its user for good.
CHECK_DEADLOCK FALSE
