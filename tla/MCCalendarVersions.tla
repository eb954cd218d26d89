------------------------- MODULE MCCalendarVersions -------------------------
EXTENDS CalendarVersions, TLC

Symmetry == Permutations(Requests) \cup Permutations(Ids)
=============================================================================
