--------------------------- MODULE MCBellPeriods ----------------------------
(***************************************************************************)
(* Days of at most six minutes that start at minute one, with up to two    *)
(* breaks of any place, order and length, the ones that overlap or leave   *)
(* the day included.                                                       *)
(***************************************************************************)
EXTENDS BellPeriods

MCDayOfWeekFromString == [MON |-> 0, MONDAY |-> 0, TUE |-> 1]

MCWindows(last) == [start : 0..last, end : 0..last, kind : {"LUNCH", ""}]

MCSeqs(S, n) == UNION {[1..m -> S] : m \in 0..n}

MCInputs ==
  [days : {<<"TUE", "FUNDAY", "MON">>}, start : {1}, end : {6, 7}, duration : 1..3,
   breaks : {bs \in MCSeqs(MCWindows(7), 2) :
               \A b \in DOMAIN bs : bs[b].end - bs[b].start \in 0..3}]
  \cup
  [days : MCSeqs({"MON", "MONDAY", "TUE", "FUNDAY"}, 3), start : {0, 1}, end : 0..3,
   duration : 0..2, breaks : MCSeqs(MCWindows(2), 1)]
=============================================================================
