\* Every solve of every problem of the family.
SPECIFICATION FairSpec
CONSTANTS
  Problems <- MCProblems
  NumPeriods = 5
  Consecutive <- MCConsecutive
  DayOf <- MCDayOf
  Restarts = 2
  MaxConsecutive = 2
  None = None
  T1 = T1
  T2 = T2
  T3 = T3
  C1 = C1
  C2 = C2
  C3 = C3
  R = R
INVARIANTS OccupancySound CompleteKeepsDoubles PreflightSound ExactCompletes
  ColoringIsExact
PROPERTIES SolveKeepsBest SolveEnds
