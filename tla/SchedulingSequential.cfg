\* One request at a time, a failing statement, a break in the day.
SPECIFICATION Spec
CONSTANTS
  Requests = {q1}
  Sessions = {S1, S2}
  Teachers = {T1, T2}
  Subjects = {C1}
  S1 = S1
  S2 = S2
  T1 = T1
  T2 = T2
  C1 = C1
  C2 = C2
  LessonSlots <- MCLessonSlots
  MaxDuration = 2
  Asked <- MCAllAsked
  MaxErrors = 1
  None = None
SYMMETRY Symmetry
INVARIANT OccupancyOwned
PROPERTY NoValidSlotIsTrue
