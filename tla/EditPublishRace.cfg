\* Two requests on one version: is a published version immutable?
SPECIFICATION Spec
CONSTANTS
  Handlers = {h1, h2}
  Snapshots = {s1}
  TermStates = {TRUE}
  MaxVersion = 1
  MaxWrites = 2
  None = None
PROPERTY PublishedImmutable
SYMMETRY Symmetry
