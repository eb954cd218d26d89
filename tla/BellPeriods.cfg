\* Every request of MCInputs, the unacceptable ones included.
SPECIFICATION Spec
CONSTANTS
  DayOfWeekFromString <- MCDayOfWeekFromString
  Inputs <- MCInputs
INVARIANTS SlotsTile BreaksKept
CHECK_DEADLOCK FALSE
