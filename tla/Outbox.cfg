\* Two workers, full batches, retries, replays, and losses of a worker or of
\* an UPDATE.  Liveness is checked too, hence no symmetry.
SPECIFICATION FairSpec
CONSTANTS
  Workers = {w1, w2}
  MaxEvents = 2
  BatchSize = 1
  MaxAttempts = 3
  MaxReplays = 1
  MaxLosses = 2
INVARIANTS SingleOwner DeliveredWasReceived BoundedAttempts
PROPERTY EventuallySettled
