\* Two requests overlapping in every way: two versions, two writes.
SPECIFICATION Spec
CONSTANTS
  Handlers = {h1, h2}
  Snapshots = {s1}
  TermStates = {TRUE}
  MaxVersion = 2
  MaxWrites = 2
  None = None
INVARIANTS AtMostOnePublished RunDescribesEntries PublicationAnnounced
PROPERTIES PublishedOnce GenerationSparesPublished
SYMMETRY Symmetry
