\* Two requests at once; two events, again and in any order; one grant.
\* Liveness is checked too, hence no symmetry.
SPECIFICATION FairSpec
CONSTANTS
  Requests = {q1, q2}
  Actors = {a1}
  Records = {r1}
  Grants = {g1}
  MaxEvents = 2
  None = None
INVARIANTS GrantOpensOneSession ProjectionIsOneSnapshot
PROPERTY NewestSnapshotArrives
