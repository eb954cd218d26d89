--------------------------- MODULE PublicationFeed ---------------------------
(***************************************************************************)
(* What publication promises Scholaroscope about one timetable: at any     *)
(* time at most one version is in force, what is in force is exactly what  *)
(* was announced, it changes only by announcing another version, and no    *)
(* version is announced twice.                                             *)
(***************************************************************************)
EXTENDS Naturals

CONSTANTS Versions,  \* versions of the timetable
          Contents   \* what a version can say

VARIABLES current,   \* the version in force, 0 before the first publication
          shown,     \* the content in force
          feed       \* announcements: <<version, content>>

vars == <<current, shown, feed>>

Init == current = 0 /\ shown = 0 /\ feed = {}

Announce(v, c) ==
  /\ \A a \in feed : a[1] # v
  /\ current' = v
  /\ shown' = c
  /\ feed' = feed \cup {<<v, c>>}

Next == \E v \in Versions, c \in Contents : Announce(v, c)

Spec == Init /\ [][Next]_vars
=============================================================================
