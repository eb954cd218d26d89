\* Requests that create and activate calendars interleave; one fails, one
\* activates a version of another workspace.
SPECIFICATION Spec
CONSTANTS
  Requests = {q1, q2, q3}
  Ids = {v1, v2, v3, v4}
  UnknownIds = {x1}
  MaxErrors = 1
  None = None
SYMMETRY Symmetry
INVARIANTS NumbersWithoutGap AtMostOneActive ActiveHasSlots
PROPERTY ActiveStays
