\* A snapshot arrives during a generation.
SPECIFICATION Spec
CONSTANTS
  Handlers = {h1}
  Snapshots = {s1, s2}
  TermStates = {TRUE}
  MaxVersion = 1
  MaxWrites = 2
  None = None
INVARIANT SnapshotBinding
SYMMETRY Symmetry
