-------------------------------- MODULE Glob --------------------------------
(***************************************************************************)
(* noise.matchSegments: one pass over the path that, on a mismatch, lets   *)
(* the last "**" swallow one more segment and goes on from there.  Whether *)
(* it is enough to come back to the last "**" is what the module is about: *)
(* a rule that matches too much hides a finding, one that matches too      *)
(* little drowns it.                                                       *)
(*                                                                         *)
(* `pi` and `si` count the segments that are done with, as in the code, so *)
(* that the next ones are pattern[pi + 1] and path[si + 1].                *)
(***************************************************************************)
EXTENDS PathPattern

CONSTANTS
  Literals,     \* segments that stand for themselves
  MaxPattern,   \* bound: segments of a pattern
  MaxPath       \* bound: segments of a path

ASSUME GlobAssumption ==
  /\ "*" \notin Literals /\ "**" \notin Literals
  /\ MaxPattern \in Nat /\ MaxPath \in Nat

VARIABLES
  pattern, path,   \* the arguments
  pi, si,          \* segments of each that are done with
  star,            \* index of the last "**" met, or None
  rewind,          \* how far into the path that "**" reaches
  verdict,         \* what is returned
  steps            \* history: iterations of the two loops

vars == <<pattern, path, pi, si, star, rewind, verdict, steps>>

None == -1

Strings(S, max) == UNION {[1 .. k -> S] : k \in 0 .. max}

Init ==
  /\ pattern \in Strings(Literals \union {"*", "**"}, MaxPattern)
  /\ path \in Strings(Literals, MaxPath)
  /\ pi = 0 /\ si = 0
  /\ star = None /\ rewind = 0
  /\ verdict = "none"
  /\ steps = 0

Looping == verdict = "none" /\ si < Len(path)

AtStar == pi < Len(pattern) /\ pattern[pi + 1] = "**"

AtFit == /\ pi < Len(pattern)
         /\ pattern[pi + 1] # "**"
         /\ pattern[pi + 1] \in {"*", path[si + 1]}

-----------------------------------------------------------------------------
(* The switch in the loop over the path *)

\* Mutant of MeetStar: the first "**" is the one to come back to.
MeetFirstStar ==
  /\ Looping /\ AtStar
  /\ star' = (IF star = None THEN pi ELSE star)
  /\ rewind' = si
  /\ pi' = pi + 1
  /\ steps' = steps + 1
  /\ UNCHANGED <<pattern, path, si, verdict>>

\* A "**" swallows nothing at first.
MeetStar ==
  /\ Looping /\ AtStar
  /\ star' = pi
  /\ rewind' = si
  /\ pi' = pi + 1
  /\ steps' = steps + 1
  /\ UNCHANGED <<pattern, path, si, verdict>>

Advance ==
  /\ Looping /\ AtFit
  /\ pi' = pi + 1
  /\ si' = si + 1
  /\ steps' = steps + 1
  /\ UNCHANGED <<pattern, path, star, rewind, verdict>>

\* Mutant of Swallowed: the path goes on where the "**" began.
SwallowedNothing == rewind

\* Mutant of Swallowed: the path goes on one segment too late.
SwallowedTwo == rewind + 2

Swallowed == rewind + 1

\* The last "**" swallows one more segment.
Rewind ==
  /\ Looping /\ ~AtStar /\ ~AtFit
  /\ star # None
  /\ rewind' = Swallowed
  /\ pi' = star + 1
  /\ si' = Swallowed
  /\ steps' = steps + 1
  /\ UNCHANGED <<pattern, path, star, verdict>>

Fail ==
  /\ Looping /\ ~AtStar /\ ~AtFit
  /\ star = None
  /\ verdict' = "mismatch"
  /\ UNCHANGED <<pattern, path, pi, si, star, rewind, steps>>

-----------------------------------------------------------------------------
(* After the loop *)

TrailingStar ==
  /\ verdict = "none" /\ si = Len(path) /\ AtStar
  /\ pi' = pi + 1
  /\ steps' = steps + 1
  /\ UNCHANGED <<pattern, path, si, star, rewind, verdict>>

Finish ==
  /\ verdict = "none" /\ si = Len(path) /\ ~AtStar
  /\ verdict' = IF pi = Len(pattern) THEN "match" ELSE "mismatch"
  /\ UNCHANGED <<pattern, path, pi, si, star, rewind, steps>>

Returned == verdict # "none" /\ UNCHANGED vars

Next == MeetStar \/ Advance \/ Rewind \/ Fail \/ TrailingStar \/ Finish \/ Returned

Spec == Init /\ [][Next]_vars

-----------------------------------------------------------------------------
(* Properties *)

\* Neither index runs out of its slice.
TypeOK ==
  /\ pattern \in Seq(Literals \union {"*", "**"})
  /\ path \in Seq(Literals)
  /\ pi \in 0 .. Len(pattern)
  /\ si \in 0 .. Len(path)
  /\ star \in {None} \union (0 .. Len(pattern) - 1)
  /\ rewind \in 0 .. Len(path)
  /\ verdict \in {"none", "match", "mismatch"}
  /\ steps \in Nat

\* A rule hides what its path says and nothing else: the loop, which never goes
\* back beyond the last "**", accepts exactly the paths that can be laid out.
Correct ==
  /\ verdict = "match" => Matches(pattern, path)
  /\ verdict = "mismatch" => ~Matches(pattern, path)

\* "Recursing at every ** instead is exponential": the loop takes no more steps
\* than there are pairs of a place in the pattern and a place in the path.
StepsBounded == steps <= (Len(pattern) + 1) * (Len(path) + 1)
=============================================================================
