---------------------------- MODULE ExactColoring ---------------------------
(***************************************************************************)
(* exactBipartiteColors: the lessons of a week are the edges of a          *)
(* multigraph between n teachers and n classes (missing ones are dummies   *)
(* without lessons).  It is padded until every vertex has the largest      *)
(* degree, and then one perfect matching after the other is taken away;    *)
(* the real edges of each are one colour.                                  *)
(*                                                                         *)
(* A graph is a matrix of edge counts, g[l][r].  The seeded shuffle of the *)
(* adjacency lists is a parameter: order[l] lists the classes in the order *)
(* teacher l tries them, and realFirst says which of two parallel edges,   *)
(* a lesson or padding, comes first.  The dummy vertices are n = the       *)
(* larger side.  maximumMatching and maximumEligibleCoverage search for    *)
(* augmenting paths in the same way.                                       *)
(***************************************************************************)
EXTENDS Integers, Sequences, FiniteSetsExt

Vertices(g) == DOMAIN g
leftDegree(g, l) == MapThenSumSet(LAMBDA r : g[l][r], Vertices(g))
rightDegree(g, r) == MapThenSumSet(LAMBDA l : g[l][r], Vertices(g))

largestDegree(g) ==
  Max({0} \cup {leftDegree(g, l) : l \in Vertices(g)}
          \cup {rightDegree(g, r) : r \in Vertices(g)})

Empty(g) == [l \in Vertices(g) |-> [r \in Vertices(g) |-> 0]]
Plus(g, h) == [l \in Vertices(g) |-> [r \in Vertices(g) |-> g[l][r] + h[l][r]]]

-----------------------------------------------------------------------------
(* Padding: two cursors over the vertices that lack edges.                 *)

RECURSIVE padding(_, _, _, _, _)
padding(g, pad, left, right, degree) ==
  LET n == Len(g)
      total == Plus(g, pad)
      lacks == degree - leftDegree(total, left)
      rightLacks == degree - rightDegree(total, right)
      amount == IF rightLacks < lacks THEN rightLacks ELSE lacks
  IN IF left > n \/ right > n THEN pad
     ELSE IF lacks = 0 THEN padding(g, pad, left + 1, right, degree)
     ELSE IF rightLacks = 0 THEN padding(g, pad, left, right + 1, degree)
     ELSE padding(g, [pad EXCEPT ![left][right] = @ + amount], left, right, degree)

-----------------------------------------------------------------------------
(* Augmenting paths.  matchRight[r] is the teacher of class r, or 0.       *)

RECURSIVE visit(_, _, _, _, _, _)

Mut_visit(g, order, left, i, seen, matchRight) ==
  LET right == order[left][i]
  IN IF i > Len(order[left]) THEN [found |-> FALSE, seen |-> seen, match |-> matchRight]
     ELSE IF right \in seen \/ g[left][right] = 0 \/ matchRight[right] # 0
          THEN visit(g, order, left, i + 1, seen, matchRight)
     ELSE [found |-> TRUE, seen |-> seen, match |-> [matchRight EXCEPT ![right] = left]]

visit(g, order, left, i, seen, matchRight) ==
  LET failed == [found |-> FALSE, seen |-> seen, match |-> matchRight]
      right == order[left][i]
      marked == seen \cup {right}
      deeper == visit(g, order, matchRight[right], 1, marked, matchRight)
  IN IF i > Len(order[left]) THEN failed
     ELSE IF right \in seen \/ g[left][right] = 0
          THEN visit(g, order, left, i + 1, seen, matchRight)
     ELSE IF matchRight[right] = 0
          THEN [found |-> TRUE, seen |-> marked, match |-> [matchRight EXCEPT ![right] = left]]
     ELSE IF deeper.found
          THEN [deeper EXCEPT !.match = [@ EXCEPT ![right] = left]]
     ELSE visit(g, order, left, i + 1, deeper.seen, matchRight)

RECURSIVE matchFrom(_, _, _, _)
matchFrom(g, order, left, matchRight) ==
  IF left > Len(g) THEN matchRight
  ELSE matchFrom(g, order, left + 1, visit(g, order, left, 1, {}, matchRight).match)

maximumMatching(g, order) == matchFrom(g, order, 1, [r \in Vertices(g) |-> 0])

-----------------------------------------------------------------------------
(* Rounds.                                                                 *)

\* The matched edges that are lessons, as pairs of teacher and class.
lessonsOf(g, pad, realFirst, match) ==
  {<<match[r], r>> : r \in {s \in Vertices(g) :
     match[s] # 0 /\ g[match[s]][s] > 0 /\ (realFirst \/ pad[match[s]][s] = 0)}}

Remove(g, edges) ==
  [l \in Vertices(g) |-> [r \in Vertices(g) |->
     IF <<l, r>> \in edges THEN g[l][r] - 1 ELSE g[l][r]]]

RECURSIVE colorRounds(_, _, _, _, _)
colorRounds(g, pad, order, realFirst, left) ==
  LET match == maximumMatching(Plus(g, pad), order)
      matched == {<<match[r], r>> : r \in {s \in Vertices(g) : match[s] # 0}}
      color == lessonsOf(g, pad, realFirst, match)
  IN IF left = 0 THEN <<>>
     ELSE <<color>> \o colorRounds(Remove(g, color), Remove(pad, matched \ color),
                                   order, realFirst, left - 1)

exactBipartiteColors(g, order, realFirst) ==
  LET degree == largestDegree(g)
  IN colorRounds(g, padding(g, Empty(g), 1, 1, degree), order, realFirst, degree)
=============================================================================
