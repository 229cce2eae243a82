---------------------------- MODULE PathPattern ----------------------------
(***************************************************************************)
(* What it means for a rule's path to match a path of the diff engine.     *)
(* Both are sequences of segments.  In a pattern, "*" stands for any one   *)
(* segment and "**" for any number of them, none included; every other     *)
(* segment stands for itself.  Case is folded before, and not modelled.    *)
(***************************************************************************)
EXTENDS Integers, Sequences

\* `end` lays out the first p segments of the pattern over the first s of the
\* path: end[i] is where the i-th segment of the pattern ends.
LaysOut(end, pattern, path, p, s) ==
  /\ end[0] = 0
  /\ end[p] = s
  /\ \A i \in 1 .. p :
       IF pattern[i] = "**"
         THEN end[i - 1] <= end[i]
         ELSE end[i] = end[i - 1] + 1 /\ pattern[i] \in {"*", path[end[i]]}

Reaches(pattern, path, p, s) ==
  \E end \in [0 .. p -> 0 .. Len(path)] : LaysOut(end, pattern, path, p, s)

Matches(pattern, path) == Reaches(pattern, path, Len(pattern), Len(path))
=============================================================================
