\* Every attempt at every feasible problem of the family.
SPECIFICATION FairSpec
CONSTANTS
  Problems <- MCProblems
  NumPeriods = 4
  Consecutive <- MCConsecutive
  None = None
  A1 = A1
  A2 = A2
  G1 = G1
  G2 = G2
  G3 = G3
  B1 = B1
  B2 = B2
  T1 = T1
  T2 = T2
  C1 = C1
  C2 = C2
  L1 = L1
  L2 = L2
  R = R
INVARIANTS LearnersBookedOnce TeachersBookedOnce StoredUnlessSplit PlacedMeansSatisfied
  BlocksRunTogether
PROPERTY AttemptEnds
