------------------------------- MODULE Noise --------------------------------
(***************************************************************************)
(* internal/noise: which differences a ruleset hides.  The diff engine     *)
(* asks Suppress about two values at a path, at the moment it has both.    *)
(*                                                                         *)
(* A decoded value is a tree: it maps each place in it, which is the       *)
(* sequence of keys and indices that lead there, to what is there; <<>> is *)
(* the value itself.  A number is counted in tenths, exactly, and keeps    *)
(* its text, which is what "canonical" shows of it (1 and 1.0 are written  *)
(* differently); where the code computes with it, it is a float64.  One    *)
(* beyond the range of float64 is left out.  A text is opaque but for its  *)
(* length and for what the constants say of it.                            *)
(***************************************************************************)
EXTENDS PathPattern, SequencesExt

CONSTANTS
  Trims,     \* texts that change when trimmed, and what is left of them
  Folds,     \* texts that are not lower case, and their lower case
  Parses,    \* texts that read as a number, and that number
  Doubles,   \* numbers that no float64 is, and the float64 they become
  Cuts       \* texts longer than MaxValueLen, and what is rendered of them

Lone(node) == [place \in {<<>>} |-> node]

Null == Lone([type |-> "null"])
Bool(truth) == Lone([type |-> "boolean", truth |-> truth])
Number(value, text) == Lone([type |-> "number", value |-> value, text |-> text])
Str(text) == Lone([type |-> "string", text |-> text])

Top(v) == v[<<>>]

\* The value at a place, or null.
At(v, place) ==
  IF place \in DOMAIN v
    THEN [q \in {SubSeq(p, Len(place) + 1, Len(p)) : p \in {p \in DOMAIN v : IsPrefix(place, p)}}
            |-> v[place \o q]]
    ELSE Null

\* The segment that an array's i-th element has in a path.
Index(i) == ToString(i - 1)

Become(f, x) == IF x \in DOMAIN f THEN f[x] ELSE x

\* json.Number's Float64.
Double(value) == Become(Doubles, value)

-----------------------------------------------------------------------------
(* Normalisation.  A value it cannot be applied to is never equal.         *)

Unit(places) == IF places = 0 THEN 10 ELSE 1

\* math.Round: half away from zero.
Rounded(value, places) ==
  LET up(v) == (2 * v + Unit(places)) \div (2 * Unit(places))
  IN  IF value < 0 THEN -up(-value) ELSE up(value)

\* The number a value reads as: none, or one.
ReadsAs(v) ==
  CASE Top(v).type = "number" -> {Double(Top(v).value)}
    [] Top(v).type = "string" -> {Double(Parses[t]) : t \in {Top(v).text} \intersect DOMAIN Parses}
    [] OTHER -> {}

EqualRounded(places, a, b) ==
  \E x \in ReadsAs(a), y \in ReadsAs(b) : Rounded(x, places) = Rounded(y, places)

Elements(v) == [i \in 1 .. Top(v).length |-> At(v, <<Index(i)>>)]

EqualSorted(a, b) ==
  /\ Top(a).type = "array" /\ Top(b).type = "array"
  /\ Top(a).length = Top(b).length
  /\ ToBag(Elements(a)) = ToBag(Elements(b))

EqualTexts(f, a, b) ==
  /\ Top(a).type = "string" /\ Top(b).type = "string"
  /\ Become(f, Top(a).text) = Become(f, Top(b).text)

LengthOf(v) ==
  CASE Top(v).type = "string" -> {Len(Top(v).text)}
    [] Top(v).type = "array" -> {Top(v).length}
    [] OTHER -> {}

Equal(normalise, a, b) ==
  CASE normalise.kind = "round" -> EqualRounded(normalise.places, a, b)
    [] normalise.kind = "sort" -> EqualSorted(a, b)
    [] normalise.kind = "trim" -> EqualTexts(Trims, a, b)
    [] normalise.kind = "lower" -> EqualTexts(Folds, a, b)
    [] normalise.kind = "len" -> LengthOf(a) \intersect LengthOf(b) # {}
    [] OTHER -> FALSE

\* Mutant of EqualOnlyNormalised: values that are equal already are not set apart.
EqualNormalised(normalise, a, b) == Equal(normalise, a, b)

\* compare: the values differ as they are written, and not once normalised.
EqualOnlyNormalised(normalise, a, b) == a # b /\ Equal(normalise, a, b)

-----------------------------------------------------------------------------
(* Rules                                                                   *)

\* Mutant of Match: the first rule that matches is the one that counts.
MatchFirst(rules, path) ==
  SelectInSeq(rules, LAMBDA rule : Matches(rule.path, path))

\* The last rule whose path matches, or 0.
Match(rules, path) ==
  SelectLastInSeq(rules, LAMBDA rule : Matches(rule.path, path))

Suppress(rules, path, a, b) ==
  LET i == Match(rules, path)
  IN  /\ i # 0
      /\ rules[i].ignore \/ EqualOnlyNormalised(rules[i].normalise, a, b)

Merge(rules, others) == rules \o others

\* Load: a rule that says nothing, or nothing that is known, is refused.
Known(normalise) ==
  \/ normalise.kind \in {"sort", "trim", "lower", "len"}
  \/ normalise.kind = "round" /\ normalise.places \in 0 .. 15

Loads(rules) ==
  \A i \in DOMAIN rules :
    /\ rules[i].path # <<>>
    /\ rules[i].ignore \/ rules[i].normalise.kind # "none"
    /\ rules[i].normalise.kind = "none" \/ Known(rules[i].normalise)

-----------------------------------------------------------------------------
(* Apply: rules asked afterwards, of a stored result.  By then the values  *)
(* have been rendered to text; that of an array or object is any text of   *)
(* its own.  A long text is cut, and says so at its end.                   *)

Written(v) ==
  CASE Top(v).type = "null" -> "(absent)"
    [] Top(v).type \in {"number", "string"} -> Top(v).text
    [] OTHER -> ToString(v)

IsCut(v) == Written(v) \in DOMAIN Cuts

Rendered(v) == Become(Cuts, Written(v))

\* Mutant of SuppressRendered: texts that are equal are not set apart.
SuppressRenderedEqual(normalise, a, b) ==
  IF normalise.kind = "round" THEN Equal(normalise, a, b)
  ELSE Equal(normalise, Str(Rendered(a)), Str(Rendered(b)))

\* Only "round" reads the texts as numbers, which a text that was cut is not; the
\* others see texts.
SuppressRendered(normalise, a, b) ==
  /\ Rendered(a) # Rendered(b)
  /\ IF normalise.kind = "round" THEN ~IsCut(a) /\ ~IsCut(b) /\ Equal(normalise, a, b)
     ELSE Equal(normalise, Str(Rendered(a)), Str(Rendered(b)))

Apply(rules, result) ==
  LET hides(d) ==
        LET i == Match(rules, d.path)
        IN  /\ i # 0
            /\ rules[i].ignore \/ SuppressRendered(rules[i].normalise, d.primary, d.shadow)
      hidden == {d \in result.differences : hides(d)}
  IN  [differences |-> result.differences \ hidden,
       suppressed |-> result.suppressed + Cardinality(hidden)]
=============================================================================
