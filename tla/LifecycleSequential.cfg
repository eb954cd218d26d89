\* One request at a time: two versions, two writes of entries.
SPECIFICATION WorkflowSpec
CONSTANTS
  Handlers = {h1}
  Snapshots = {s1, s2}
  TermStates = {TRUE, FALSE}
  MaxVersion = 2
  MaxWrites = 2
  None = None
INVARIANTS PublishedSolved ReadyIsPublishable InForceIsShown
PROPERTY ImplementsFeed
SYMMETRY Symmetry
