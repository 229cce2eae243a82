----------------------------- MODULE GlobProofs -----------------------------
(***************************************************************************)
(* The matcher is right, for every pattern and every path.                 *)
(*                                                                         *)
(* That a match is one is the easy half: the loop builds a layout as it    *)
(* goes (Built).  That nothing is missed although only the last "**" is    *)
(* ever reconsidered rests on a bound that every layout of the whole       *)
(* pattern obeys: up to the last "**" met it is at least as far into the   *)
(* path as the loop is (Ahead).  A layout that goes elsewhere after an     *)
(* earlier "**" is no further back, so nothing is lost by forgetting it.   *)
(* The segments after the last "**" are one each, which fixes the distance *)
(* between the two indices (Lockstep).                                     *)
(***************************************************************************)
EXTENDS Glob, SequenceTheorems, TLAPS

Layouts ==
  {end \in [0 .. Len(pattern) -> 0 .. Len(path)] :
     LaysOut(end, pattern, path, Len(pattern), Len(path))}

\* The loop has laid out what it is done with, and up to the last "**".
Built ==
  /\ Reaches(pattern, path, pi, si)
  /\ star # None =>
       /\ pattern[star + 1] = "**"
       /\ rewind <= si
       /\ Reaches(pattern, path, star + 1, rewind)

\* With star = None, -1, the last "**" ends at place 0.
Lockstep ==
  /\ star = None => rewind = 0
  /\ star + 1 <= pi
  /\ si < Len(path) =>
       /\ si - rewind = pi - (star + 1)
       /\ \A end \in Layouts : end[pi] - end[star + 1] = pi - (star + 1)

Ahead ==
  \A end \in Layouts :
    /\ si <= end[pi]
    /\ si < Len(path) => rewind <= end[star + 1]

Answered ==
  /\ verdict = "match" => pi = Len(pattern) /\ si = Len(path)
  /\ verdict = "mismatch" => Layouts = {}

Inv == TypeOK /\ Built /\ Lockstep /\ Ahead /\ Answered

-----------------------------------------------------------------------------
(* Layouts *)

\* A "**" may be laid out with nothing, any other segment over one that fits.
LEMMA Extend ==
  ASSUME NEW pat, NEW way, NEW p \in Nat, NEW s, NEW t,
         Len(way) \in Nat, s \in 0 .. Len(way), t \in 0 .. Len(way),
         Reaches(pat, way, p, s),
         IF pat[p + 1] = "**" THEN s <= t
         ELSE t = s + 1 /\ pat[p + 1] \in {"*", way[t]}
  PROVE  Reaches(pat, way, p + 1, t)
<1>1. PICK end \in [0 .. p -> 0 .. Len(way)] : LaysOut(end, pat, way, p, s)
  BY DEF Reaches
<1> DEFINE more == [i \in 0 .. p + 1 |-> IF i <= p THEN end[i] ELSE t]
<1>2. more \in [0 .. p + 1 -> 0 .. Len(way)]
  OBVIOUS
<1>3. /\ more[0] = 0 /\ more[p + 1] = t /\ more[p] = s
      /\ \A i \in 0 .. p : more[i] = end[i]
  BY <1>1 DEF LaysOut
<1>4. ASSUME NEW i \in 1 .. p + 1
      PROVE  IF pat[i] = "**" THEN more[i - 1] <= more[i]
             ELSE more[i] = more[i - 1] + 1 /\ pat[i] \in {"*", way[more[i]]}
  <2> HIDE DEF more
  <2>1. CASE i = p + 1
    BY <1>3, <2>1
  <2>2. CASE i \in 1 .. p
    <3>1. more[i] = end[i] /\ more[i - 1] = end[i - 1]
      BY <1>3, <2>2
    <3> QED
      BY <1>1, <2>2, <3>1 DEF LaysOut
  <2> QED
    BY <2>1, <2>2
<1>5. LaysOut(more, pat, way, p + 1, t)
  BY <1>3, <1>4 DEF LaysOut
<1> QED
  BY <1>2, <1>5 DEF Reaches

\* A "**" at the end of what is laid out may swallow one more segment.
LEMMA Swallow ==
  ASSUME NEW pat, NEW way, NEW p \in Nat \ {0}, NEW s,
         Len(way) \in Nat, s \in 0 .. Len(way), s + 1 \in 0 .. Len(way),
         Reaches(pat, way, p, s), pat[p] = "**"
  PROVE  Reaches(pat, way, p, s + 1)
<1>1. PICK end \in [0 .. p -> 0 .. Len(way)] : LaysOut(end, pat, way, p, s)
  BY DEF Reaches
<1> DEFINE more == [i \in 0 .. p |-> IF i = p THEN s + 1 ELSE end[i]]
<1>2. more \in [0 .. p -> 0 .. Len(way)]
  OBVIOUS
<1>3. /\ more[0] = 0 /\ more[p] = s + 1
      /\ \A i \in 0 .. p - 1 : more[i] = end[i]
  BY <1>1 DEF LaysOut
<1>4. ASSUME NEW i \in 1 .. p
      PROVE  IF pat[i] = "**" THEN more[i - 1] <= more[i]
             ELSE more[i] = more[i - 1] + 1 /\ pat[i] \in {"*", way[more[i]]}
  <2> HIDE DEF more
  <2>1. CASE i = p
    <3>1. more[p - 1] = end[p - 1] /\ end[p - 1] <= end[p] /\ end[p] = s
      BY <1>1, <1>3 DEF LaysOut
    <3>2. end[p - 1] \in Int
      OBVIOUS
    <3> QED
      BY <1>3, <2>1, <3>1, <3>2
  <2>2. CASE i \in 1 .. p - 1
    <3>1. more[i] = end[i] /\ more[i - 1] = end[i - 1]
      BY <1>3, <2>2
    <3> QED
      BY <1>1, <2>2, <3>1 DEF LaysOut
  <2> QED
    BY <2>1, <2>2
<1>5. LaysOut(more, pat, way, p, s + 1)
  BY <1>3, <1>4 DEF LaysOut
<1> QED
  BY <1>2, <1>5 DEF Reaches

\* What one more segment of the pattern means to a layout of the whole.
LEMMA LayoutStep ==
  ASSUME TypeOK, NEW end \in Layouts, NEW p \in 0 .. Len(pattern) - 1
  PROVE  /\ end[p] \in 0 .. Len(path) /\ end[p + 1] \in 0 .. Len(path)
         /\ pattern[p + 1] = "**" => end[p] <= end[p + 1]
         /\ pattern[p + 1] # "**" =>
              end[p + 1] = end[p] + 1 /\ pattern[p + 1] \in {"*", path[end[p] + 1]}
<1>1. Len(pattern) \in Nat /\ p \in 0 .. Len(pattern)
      /\ p + 1 \in 1 .. Len(pattern) /\ (p + 1) - 1 = p
  BY LenProperties DEF TypeOK
<1>2. end \in [0 .. Len(pattern) -> 0 .. Len(path)]
  BY DEF Layouts
<1>3. IF pattern[p + 1] = "**" THEN end[(p + 1) - 1] <= end[p + 1]
      ELSE end[p + 1] = end[(p + 1) - 1] + 1 /\ pattern[p + 1] \in {"*", path[end[p + 1]]}
  BY <1>1 DEF Layouts, LaysOut
<1>4. end[p] \in 0 .. Len(path) /\ end[p + 1] \in 0 .. Len(path)
  BY <1>1, <1>2
<1> QED
  BY <1>1, <1>3, <1>4

\* Where the loop cannot go on after the last "**", no layout stands there.
LEMMA DeadEnd ==
  ASSUME Inv, Looping, ~AtStar, ~AtFit, NEW end \in Layouts
  PROVE  rewind + 1 <= end[star + 1]
<1>1. /\ Len(pattern) \in Nat /\ Len(path) \in Nat
      /\ pi \in 0 .. Len(pattern) /\ si \in 0 .. Len(path) - 1
      /\ star \in -1 .. Len(pattern) - 1 /\ rewind \in 0 .. Len(path)
  BY LenProperties DEF Inv, TypeOK, Looping, None
<1>2. end \in [0 .. Len(pattern) -> 0 .. Len(path)] /\ end[Len(pattern)] = Len(path)
  BY DEF Layouts, LaysOut
<1>3. end[pi] \in Int /\ end[star + 1] \in Int
  BY <1>1, <1>2
<1>4. rewind <= end[star + 1]
  BY <1>1 DEF Inv, Ahead
<1>5. end[star + 1] = rewind => end[pi] = si
  BY <1>1, <1>3 DEF Inv, Lockstep
<1>6. end[pi] # si
  <2>1. CASE pi = Len(pattern)
    BY <1>1, <1>2, <2>1
  <2>2. CASE pi < Len(pattern)
    BY <1>1, <2>2, LayoutStep DEF Inv, AtStar, AtFit
  <2> QED
    BY <1>1, <2>1, <2>2
<1> QED
  BY <1>1, <1>3, <1>4, <1>5, <1>6

-----------------------------------------------------------------------------
(* The invariant *)

\* Nothing is laid out at first, over nothing.
LEMMA InvInit == Init => Inv
<1> SUFFICES ASSUME Init PROVE Inv
  OBVIOUS
<1>1. pattern \in Seq(Literals \union {"*", "**"}) /\ path \in Seq(Literals)
  BY GlobAssumption, SeqDef DEF Init, Strings
<1>2. Len(pattern) \in Nat /\ Len(path) \in Nat
  BY <1>1, LenProperties
<1>3. TypeOK
  BY <1>1, <1>2 DEF Init, TypeOK
<1>4. Reaches(pattern, path, 0, 0)
  <2>1. [i \in 0 .. 0 |-> 0] \in [0 .. 0 -> 0 .. Len(path)]
    BY <1>2
  <2>2. LaysOut([i \in 0 .. 0 |-> 0], pattern, path, 0, 0)
    BY DEF LaysOut
  <2> QED
    BY <2>1, <2>2 DEF Reaches
<1>5. Built
  BY <1>4 DEF Init, Built
<1>6. \A end \in Layouts : end[0] = 0
  BY DEF Layouts, LaysOut
<1>7. Lockstep /\ Ahead
  BY <1>6 DEF Init, None, Lockstep, Ahead
<1>8. Answered
  BY DEF Init, Answered
<1> QED
  BY <1>3, <1>5, <1>7, <1>8 DEF Inv

\* Each iteration of either loop, and each return, keeps the invariant.
LEMMA InvStep == Inv /\ [Next]_vars => Inv'
<1> SUFFICES ASSUME Inv, [Next]_vars PROVE Inv'
  OBVIOUS
<1>1. /\ Len(pattern) \in Nat /\ Len(path) \in Nat
      /\ pi \in 0 .. Len(pattern) /\ si \in 0 .. Len(path)
      /\ star \in -1 .. Len(pattern) - 1 /\ rewind \in 0 .. Len(path)
      /\ star + 1 <= pi
  BY LenProperties DEF Inv, TypeOK, None, Lockstep
<1>2. \A end \in Layouts, p \in 0 .. Len(pattern) : end[p] \in 0 .. Len(path)
  BY DEF Layouts
<1>3. CASE MeetStar
  <2>1. UNCHANGED <<pattern, path, si, verdict>> /\ Layouts' = Layouts
    BY <1>3 DEF MeetStar, Layouts
  <2>2. /\ pi < Len(pattern) /\ pattern[pi + 1] = "**" /\ si < Len(path)
        /\ pi' = pi + 1 /\ star' = pi /\ rewind' = si /\ verdict = "none"
    BY <1>3 DEF MeetStar, Looping, AtStar
  <2>3. TypeOK'
    BY <1>1, <1>3, <2>1, <2>2 DEF Inv, TypeOK, MeetStar
  <2>4. Reaches(pattern, path, pi + 1, si)
    <3>1. Reaches(pattern, path, pi, si)
      BY DEF Inv, Built
    <3>2. pi \in Nat /\ si <= si
      BY <1>1
    <3> QED
      BY <1>1, <2>2, <3>1, <3>2, Extend
  <2>5. Built'
    BY <1>1, <2>1, <2>2, <2>4 DEF Built
  <2>6. Lockstep'
    <3>1. \A end \in Layouts : end[pi + 1] \in Int
      BY <1>1, <1>2, <2>2
    <3> QED
      BY <1>1, <2>1, <2>2, <3>1 DEF Lockstep, None
  <2>7. Ahead'
    <3>1. \A end \in Layouts : end[pi] <= end[pi + 1] /\ end[pi + 1] \in Int /\ end[pi] \in Int
      BY <1>1, <2>2, LayoutStep DEF Inv
    <3>2. \A end \in Layouts : si <= end[pi + 1]
      BY <1>1, <3>1 DEF Inv, Ahead
    <3> QED
      BY <2>1, <2>2, <3>2 DEF Ahead
  <2> QED
    BY <2>1, <2>2, <2>3, <2>5, <2>6, <2>7 DEF Inv, Answered
<1>4. CASE Advance
  <2>1. UNCHANGED <<pattern, path, star, rewind, verdict>> /\ Layouts' = Layouts
    BY <1>4 DEF Advance, Layouts
  <2>2. /\ pi < Len(pattern) /\ pattern[pi + 1] # "**" /\ si < Len(path)
        /\ pattern[pi + 1] \in {"*", path[si + 1]}
        /\ pi' = pi + 1 /\ si' = si + 1 /\ verdict = "none"
    BY <1>4 DEF Advance, Looping, AtFit
  <2>3. TypeOK'
    BY <1>1, <1>4, <2>1, <2>2 DEF Inv, TypeOK, Advance
  <2>4. Reaches(pattern, path, pi + 1, si + 1)
    <3>1. Reaches(pattern, path, pi, si)
      BY DEF Inv, Built
    <3>2. pi \in Nat /\ si + 1 \in 0 .. Len(path)
      BY <1>1, <2>2
    <3> QED
      BY <1>1, <2>2, <3>1, <3>2, Extend
  <2>5. Built'
    BY <1>1, <2>1, <2>2, <2>4 DEF Inv, Built
  <2>6. \A end \in Layouts :
          /\ end[pi] \in Int /\ end[star + 1] \in Int
          /\ end[pi + 1] = end[pi] + 1
    BY <1>1, <1>2, <2>2, LayoutStep DEF Inv
  <2>7. Lockstep'
    <3>1. /\ star = None => rewind = 0
          /\ si - rewind = pi - (star + 1)
          /\ \A end \in Layouts : end[pi] - end[star + 1] = pi - (star + 1)
      BY <2>2 DEF Inv, Lockstep
    <3>2. \A end \in Layouts : end[pi + 1] - end[star + 1] = (pi + 1) - (star + 1)
      BY <1>1, <2>6, <3>1
    <3>3. (si + 1) - rewind = (pi + 1) - (star + 1) /\ star + 1 <= pi + 1
      BY <1>1, <3>1
    <3> QED
      BY <2>1, <2>2, <3>1, <3>2, <3>3 DEF Lockstep
  <2>8. Ahead'
    BY <1>1, <2>1, <2>2, <2>6 DEF Inv, Ahead
  <2> QED
    BY <2>1, <2>2, <2>3, <2>5, <2>7, <2>8 DEF Inv, Answered
<1>5. CASE Rewind
  <2>1. UNCHANGED <<pattern, path, star, verdict>> /\ Layouts' = Layouts
    BY <1>5 DEF Rewind, Layouts
  <2>2. /\ star # None /\ si < Len(path) /\ verdict = "none"
        /\ rewind' = rewind + 1 /\ si' = rewind + 1 /\ pi' = star + 1
    BY <1>5 DEF Rewind, Looping, Swallowed
  <2>3. rewind <= si /\ pattern[star + 1] = "**" /\ Reaches(pattern, path, star + 1, rewind)
    BY <2>2 DEF Inv, Built
  <2>4. star \in 0 .. Len(pattern) - 1
    BY <1>1, <2>2 DEF None
  <2>5. TypeOK'
    BY <1>1, <1>5, <2>1, <2>2, <2>3, <2>4 DEF Inv, TypeOK, Rewind
  <2>6. Reaches(pattern, path, star + 1, rewind + 1)
    <3>1. star + 1 \in Nat \ {0} /\ rewind + 1 \in 0 .. Len(path)
      BY <1>1, <2>2, <2>3, <2>4
    <3> QED
      BY <1>1, <2>3, <3>1, Swallow
  <2>7. Built'
    BY <1>1, <2>1, <2>2, <2>3, <2>6 DEF Built
  <2>8. Lockstep'
    <3>1. \A end \in Layouts : end[star + 1] \in Int
      BY <1>1, <1>2, <2>4
    <3> QED
      BY <1>1, <2>1, <2>2, <2>4, <3>1 DEF Lockstep
  <2>9. Ahead'
    <3>1. \A end \in Layouts : rewind + 1 <= end[star + 1]
      BY <1>5, DeadEnd DEF Rewind
    <3> QED
      BY <2>1, <2>2, <3>1 DEF Ahead
  <2> QED
    BY <2>1, <2>2, <2>5, <2>7, <2>8, <2>9 DEF Inv, Answered
<1>6. CASE Fail
  <2>1. UNCHANGED <<pattern, path, pi, si, star, rewind, steps>> /\ Layouts' = Layouts
    BY <1>6 DEF Fail, Layouts
  <2>2. star = None /\ verdict' = "mismatch"
    BY <1>6 DEF Fail
  <2>3. Layouts = {}
    <3>1. SUFFICES ASSUME NEW end \in Layouts PROVE FALSE
      OBVIOUS
    <3>2. rewind + 1 <= end[star + 1]
      BY <1>6, DeadEnd DEF Fail
    <3>3. rewind = 0 /\ star + 1 = 0
      BY <2>2 DEF Inv, Lockstep, None
    <3>4. end[0] = 0
      BY DEF Layouts, LaysOut
    <3> QED
      BY <3>2, <3>3, <3>4
  <2>4. TypeOK'
    BY <2>1, <2>2 DEF Inv, TypeOK
  <2>5. Built' /\ Lockstep' /\ Ahead'
    BY <2>1 DEF Inv, Built, Lockstep, Ahead
  <2> QED
    BY <2>1, <2>2, <2>3, <2>4, <2>5 DEF Inv, Answered
<1>7. CASE TrailingStar
  <2>1. UNCHANGED <<pattern, path, si, star, rewind, verdict>> /\ Layouts' = Layouts
    BY <1>7 DEF TrailingStar, Layouts
  <2>2. /\ pi < Len(pattern) /\ pattern[pi + 1] = "**" /\ si = Len(path)
        /\ pi' = pi + 1 /\ verdict = "none"
    BY <1>7 DEF TrailingStar, AtStar
  <2>3. TypeOK'
    BY <1>1, <1>7, <2>1, <2>2 DEF Inv, TypeOK, TrailingStar
  <2>4. Reaches(pattern, path, pi + 1, si)
    <3>1. Reaches(pattern, path, pi, si)
      BY DEF Inv, Built
    <3>2. pi \in Nat /\ si <= si
      BY <1>1
    <3> QED
      BY <1>1, <2>2, <3>1, <3>2, Extend
  <2>5. Built'
    BY <2>1, <2>2, <2>4 DEF Inv, Built
  <2>6. Lockstep'
    BY <1>1, <2>1, <2>2 DEF Inv, Lockstep
  <2>7. Ahead'
    <3>1. \A end \in Layouts : end[pi] <= end[pi + 1] /\ end[pi + 1] \in Int /\ end[pi] \in Int
      BY <1>1, <2>2, LayoutStep DEF Inv
    <3> QED
      BY <1>1, <2>1, <2>2, <3>1 DEF Inv, Ahead
  <2> QED
    BY <2>1, <2>2, <2>3, <2>5, <2>6, <2>7 DEF Inv, Answered
<1>8. CASE Finish
  <2>1. UNCHANGED <<pattern, path, pi, si, star, rewind, steps>> /\ Layouts' = Layouts
    BY <1>8 DEF Finish, Layouts
  <2>2. /\ si = Len(path) /\ ~AtStar
        /\ verdict' = IF pi = Len(pattern) THEN "match" ELSE "mismatch"
    BY <1>8 DEF Finish
  <2>3. ASSUME pi # Len(pattern) PROVE Layouts = {}
    <3>1. SUFFICES ASSUME NEW end \in Layouts PROVE FALSE
      OBVIOUS
    <3>2. si <= end[pi]
      BY DEF Inv, Ahead
    <3>3. end[pi] \in Int /\ end[pi + 1] = end[pi] + 1 /\ end[pi + 1] <= Len(path)
      BY <1>1, <2>2, <2>3, LayoutStep DEF Inv, AtStar
    <3> QED
      BY <1>1, <2>2, <3>2, <3>3
  <2>4. TypeOK'
    BY <2>1, <2>2 DEF Inv, TypeOK
  <2>5. Built' /\ Lockstep' /\ Ahead'
    BY <2>1 DEF Inv, Built, Lockstep, Ahead
  <2>6. Answered'
    BY <2>1, <2>2, <2>3 DEF Answered
  <2> QED
    BY <2>4, <2>5, <2>6 DEF Inv
<1>9. CASE UNCHANGED vars
  BY <1>9 DEF vars, Inv, TypeOK, Built, Lockstep, Ahead, Answered, Layouts
<1> QED
  BY <1>3, <1>4, <1>5, <1>6, <1>7, <1>8, <1>9 DEF Next, Returned

-----------------------------------------------------------------------------
(* What it gives *)

\* Neither index ever runs out of its slice, whatever is matched with what.
THEOREM IndicesInRange == Spec => []TypeOK
<1>1. Inv => TypeOK
  BY DEF Inv
<1> QED
  BY InvInit, InvStep, <1>1, PTL DEF Spec

\* A rule's path matches what its "*" and "**" say, no more and no less: coming
\* back to the last "**" only is enough, for every pattern and every path.
THEOREM MatcherIsRight == Spec => []Correct
<1>1. Inv => Correct
  <2> SUFFICES ASSUME Inv PROVE Correct
    OBVIOUS
  <2>1. verdict = "match" => Matches(pattern, path)
    BY DEF Inv, Built, Answered, Matches
  <2>2. verdict = "mismatch" => ~Matches(pattern, path)
    BY DEF Inv, Answered, Layouts, Matches, Reaches
  <2> QED
    BY <2>1, <2>2 DEF Correct
<1> QED
  BY InvInit, InvStep, <1>1, PTL DEF Spec

\* A step is one more segment done with since the last "**" was last extended;
\* each segment it swallowed before cost at most one pass over the pattern.
Counted == steps <= rewind * (Len(pattern) + 1) + pi

\* More swallowed is more passes over the pattern.
LEMMA MorePasses ==
  ASSUME NEW r \in Nat, NEW s \in Nat, NEW p \in Nat, r <= s
  PROVE  /\ r * p \in Nat /\ s * p \in Nat /\ r * p <= s * p
         /\ (r + 1) * p = r * p + p
<1>1. PICK d \in Nat : s = r + d
  <2>1. s - r \in Nat /\ s = r + (s - r)
    OBVIOUS
  <2> QED
    BY <2>1
<1>2. d * p \in Nat /\ r * p \in Nat
  OBVIOUS
<1>3. (r + d) * p = r * p + d * p
  OBVIOUS
<1> QED
  BY <1>1, <1>2, <1>3

\* No iteration of either loop breaks the count.
LEMMA CountedStep == Inv /\ Counted /\ [Next]_vars => Counted'
<1> SUFFICES ASSUME Inv, Counted, [Next]_vars PROVE Counted'
  OBVIOUS
<1> DEFINE p == Len(pattern) + 1
<1>1. /\ p \in Nat /\ pi \in Nat /\ pi <= Len(pattern) /\ si \in Nat
      /\ rewind \in Nat /\ steps \in Nat /\ rewind <= si
  BY LenProperties DEF Inv, TypeOK, Built, Lockstep
<1>2. steps <= rewind * p + pi
  BY DEF Counted
<1>3. /\ rewind * p \in Nat /\ si * p \in Nat /\ rewind * p <= si * p
      /\ (rewind + 1) * p = rewind * p + p
  <2> HIDE DEF p
  <2> QED
    BY <1>1, MorePasses
<1>4. p' = p \/ UNCHANGED vars
  BY DEF Next, MeetStar, Advance, Rewind, Fail, TrailingStar, Finish, Returned, vars
<1>5. CASE MeetStar
  <2>1. steps' = steps + 1 /\ pi' = pi + 1 /\ rewind' = si /\ pattern' = pattern
    BY <1>5 DEF MeetStar
  <2>2. steps + 1 <= si * p + (pi + 1)
    <3> HIDE DEF p
    <3> QED
      BY <1>1, <1>2, <1>3
  <2> QED
    BY <2>1, <2>2 DEF Counted
<1>6. CASE Advance \/ TrailingStar
  <2>1. steps' = steps + 1 /\ pi' = pi + 1 /\ rewind' = rewind /\ pattern' = pattern
    BY <1>6 DEF Advance, TrailingStar
  <2>2. steps + 1 <= rewind * p + (pi + 1)
    <3> HIDE DEF p
    <3> QED
      BY <1>1, <1>2, <1>3
  <2> QED
    BY <2>1, <2>2 DEF Counted
<1>7. CASE Rewind
  <2>1. steps' = steps + 1 /\ pi' = star + 1 /\ rewind' = rewind + 1 /\ pattern' = pattern
    BY <1>7 DEF Rewind, Swallowed
  <2>2. star \in Nat
    BY <1>7, LenProperties DEF Rewind, Inv, TypeOK, None
  <2>3. pi <= p - 1
    BY <1>1
  <2>4. steps + 1 <= (rewind + 1) * p + (star + 1)
    <3> HIDE DEF p
    <3> QED
      BY <1>1, <1>2, <1>3, <2>2, <2>3
  <2> QED
    BY <2>1, <2>4 DEF Counted
<1>8. CASE Fail \/ Finish \/ UNCHANGED vars
  <2>1. UNCHANGED <<steps, pi, rewind, pattern>>
    BY <1>8 DEF Fail, Finish, vars
  <2> QED
    BY <2>1 DEF Counted
<1> QED
  BY <1>5, <1>6, <1>7, <1>8 DEF Next, Returned

\* No pattern makes the loop take more steps than there are pairs of a place
\* in it and a place in the path: coming back to the last "**" is not a search.
THEOREM MatchingIsCheap == Spec => []StepsBounded
<1>1. Init => Counted
  <2> SUFFICES ASSUME Init PROVE Counted
    OBVIOUS
  <2>1. Len(pattern) \in Nat
    BY InvInit, LenProperties DEF Inv, TypeOK
  <2> QED
    BY <2>1 DEF Init, Counted
<1>2. Inv /\ Counted => StepsBounded
  <2> SUFFICES ASSUME Inv, Counted PROVE StepsBounded
    OBVIOUS
  <2> DEFINE p == Len(pattern) + 1
  <2>1. /\ p \in Nat /\ pi \in Nat /\ pi <= p /\ Len(path) \in Nat
        /\ rewind \in Nat /\ steps \in Nat /\ rewind <= Len(path)
    BY LenProperties DEF Inv, TypeOK
  <2>2. steps <= rewind * p + pi
    BY DEF Counted
  <2>3. /\ rewind * p \in Nat /\ Len(path) * p \in Nat
        /\ rewind * p <= Len(path) * p /\ (Len(path) + 1) * p = Len(path) * p + p
    <3> HIDE DEF p
    <3> QED
      BY <2>1, MorePasses
  <2>4. steps <= (Len(path) + 1) * p /\ (Len(path) + 1) * p = p * (Len(path) + 1)
    <3> HIDE DEF p
    <3> QED
      BY <2>1, <2>2, <2>3
  <2> QED
    BY <2>4 DEF StepsBounded
<1> QED
  BY InvInit, InvStep, CountedStep, <1>1, <1>2, PTL DEF Spec
=============================================================================
