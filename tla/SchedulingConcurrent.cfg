\* Two requests race for the slots of a teacher of two cohort subjects.
\* Liveness is checked too, hence no symmetry.
SPECIFICATION FairSpec
CONSTANTS
  Requests = {q1, q2}
  Sessions = {S1, S2}
  Teachers = {T1}
  Subjects = {C1, C2}
  S1 = S1
  S2 = S2
  T1 = T1
  T2 = T2
  C1 = C1
  C2 = C2
  LessonSlots <- MCTwoSlots
  MaxDuration = 2
  Asked <- MCAsked
  MaxErrors = 0
  None = None
INVARIANTS SessionHoldsItsSlots NoDoubleBooking
PROPERTY RequestsAnswered
