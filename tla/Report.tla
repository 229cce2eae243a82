------------------------------- MODULE Report -------------------------------
(***************************************************************************)
(* The consume loop and internal/report: each pair is compared and folded  *)
(* into the report, under the aggregator's lock.  The report groups equal  *)
(* findings, and its numbers are what a team takes its decision from.      *)
(*                                                                         *)
(* A group's severity, example and times are left out: they are read off   *)
(* the group or its first pair.  So is Summary's ranking, which reads.     *)
(***************************************************************************)
EXTENDS Diff

CONSTANTS
  Rulesets,    \* what -rules may hold, merged upon the defaults
  Defaults,    \* the rules of a fresh install
  Responses,   \* what either side may answer
  MaxPairs     \* bound: pairs consumed

\* A tree is grown from its root, through objects, and through arrays whose
\* elements are all there.
IsTree(v) ==
  /\ DOMAIN v \subseteq Seq(STRING) /\ IsFiniteSet(DOMAIN v)
  /\ <<>> \in DOMAIN v
  /\ \A place \in DOMAIN v \ {<<>>} :
       /\ Front(place) \in DOMAIN v
       /\ v[Front(place)].type \in {"object", "array"}
  /\ \A place \in DOMAIN v : v[place].type = "object" => v[place] = [type |-> "object"]
  /\ \A place \in DOMAIN v : v[place].type = "array" =>
       /\ v[place] = [type |-> "array", length |-> v[place].length]
       /\ v[place].length \in Nat
       /\ {p \in DOMAIN v \ {<<>>} : Front(p) = place}
            = {Append(place, Index(i)) : i \in 1 .. v[place].length}

\* The numbers that the engine has before it.
Numbers(r) ==
  {Top(StatusNumber(r.status))}
    \union IF r.body.json THEN {node \in Range(r.body.value) : node.type = "number"} ELSE {}

\* The engine's own words for what it found are written in lower case, begin and
\* end in a letter, and are no numbers.
OwnWord(v) == Top(v).text \notin DOMAIN Trims \union DOMAIN Folds \union DOMAIN Parses

ASSUME ReportAssumption ==
  /\ MaxPairs \in Nat \ {0}
  /\ Defaults \in Seq(Range(Defaults))
  /\ \A loaded \in Rulesets : loaded \in Seq(Range(loaded))
  /\ \A r \in Responses :
       /\ r.status \in Nat
       /\ DOMAIN r.headers \subseteq STRING /\ IsFiniteSet(DOMAIN r.headers)
       /\ r.body.json \in BOOLEAN
       /\ OwnWord(Jsonness(r.body))
       /\ r.body.json =>
            /\ IsTree(r.body.value)
            /\ \A place \in DOMAIN r.body.value :
                 LET node == r.body.value[place]
                 IN  /\ OwnWord(Str(node.type))
                     /\ node.type = "array" => OwnWord(Items(node.length))
                     /\ node.type \notin {"null", "number", "string", "array", "object"}
                          => OwnWord(Str(Rendered(At(r.body.value, place))))
  \* Trimming and folding a number's text leave it the text of that number.
  /\ \A m, n \in UNION {Numbers(r) : r \in Responses}, f \in {Trims, Folds} :
       Become(f, m.text) = Become(f, n.text) => m.value = n.value

VARIABLES
  rules,        \* the engine's ruleset
  groups,       \* bag of findings: kind and path
  pairs, identical, suppressed,   \* the aggregator's counters
  same,         \* history: pairs whose responses say the same
  shown,        \* history: the findings of each pair
  last          \* history: the last pair and its result

vars == <<rules, groups, pairs, identical, suppressed, same, shown, last>>

NoPair == [result |-> [differences |-> {}, suppressed |-> 0]]

Init ==
  /\ rules \in {Merge(Defaults, loaded) : loaded \in {r \in Rulesets : Loads(r)}}
  /\ groups = EmptyBag
  /\ pairs = 0 /\ identical = 0 /\ suppressed = 0
  /\ same = 0
  /\ shown = <<>>
  /\ last = NoPair

-----------------------------------------------------------------------------
(* What two responses that say the same have in common, told of each       *)
(* response alone: what is at each place of it, but for how a number is    *)
(* written and for what a float64 does not keep of it.  This is the        *)
(* reference that the comparison is held against.                          *)

Leaf(node) ==
  IF node.type = "number" THEN [type |-> "number", double |-> Double(node.value)] ELSE node

Leaves(v) == [place \in DOMAIN v |-> Leaf(v[place])]

Headers(headers) ==
  {name \in DOMAIN headers \ TransportHeaders : headers[name] # ""}

\* Of a body, as much as the decoder reads.
SaysTheSame(p, s) ==
  /\ p.status = s.status
  /\ Headers(p.headers) = Headers(s.headers)
  /\ \A name \in Headers(p.headers) : p.headers[name] = s.headers[name]
  /\ p.body.json = s.body.json
  /\ IF p.body.json
       THEN Leaves(p.body.value) = Leaves(s.body.value)
       ELSE p.body.bytes = s.body.bytes

-----------------------------------------------------------------------------
(* Aggregator.Add *)

Identical(result) == result.differences = {}

\* Findings of one kind at one path are the same finding, whatever the values.
Finding(d) == [kind |-> d.kind, path |-> d.path]
Findings(result) ==
  [f \in {Finding(d) : d \in result.differences} |->
     Cardinality({d \in result.differences : Finding(d) = f})]

Filed(result) == groups (+) Findings(result)

\* Mutant of Hides: what the rules hide is reported for divergent pairs only.
HidesOfDivergent(result) == IF Identical(result) THEN 0 ELSE result.suppressed

Hides(result) == result.suppressed

Consume(primary, shadow) ==
  LET result == Diff(rules, primary, shadow)
  IN  /\ pairs < MaxPairs
      /\ pairs' = pairs + 1
      /\ suppressed' = suppressed + Hides(result)
      /\ identical' = identical + (IF Identical(result) THEN 1 ELSE 0)
      /\ groups' = Filed(result)
      /\ same' = same + (IF SaysTheSame(primary, shadow) THEN 1 ELSE 0)
      /\ shown' = Append(shown, BagToSet(Findings(result)))
      /\ last' = [primary |-> primary, shadow |-> shadow, result |-> result]
      /\ UNCHANGED rules

Quiet == pairs = MaxPairs /\ UNCHANGED vars

Next ==
  \/ \E primary, shadow \in Responses : Consume(primary, shadow)
  \/ Quiet

Spec == Init /\ [][Next]_vars

-----------------------------------------------------------------------------
(* Properties *)

\* Every finding lies in the one namespace that the rules' paths speak of.
TypeOK ==
  /\ IsABag(groups)
  /\ \A g \in BagToSet(groups) :
       \/ g.kind = "status" /\ g.path = <<"status">>
       \/ g.kind = "header" /\ Len(g.path) = 2 /\ g.path[1] = "headers"
       \/ g.kind \in {"shape", "body_key", "body_value"} /\ g.path[1] = "body"
  /\ pairs \in 0 .. MaxPairs
  /\ identical \in 0 .. pairs /\ same \in 0 .. pairs
  /\ suppressed \in Nat
  /\ Len(shown) = pairs

\* "Suppression must never be mistakable for agreement": a pair that is counted
\* as identical although the two answers differ, in more than what a float64 does
\* not keep of a number, shows in the suppressed count, and two answers that say
\* the same are never counted as divergent.
AgreementIsHonest ==
  /\ same <= identical
  /\ identical - same <= suppressed

\* "share of compared pairs showing this": a group counts the pairs in which its
\* finding is, each once, and the divergent pairs are those that are in a group.
RatesAreShares ==
  /\ BagToSet(groups) = UNION ToSet(shown)
  /\ \A g \in BagToSet(groups) :
       groups[g] = Cardinality({n \in 1 .. pairs : g \in shown[n]})
  /\ pairs - identical = Cardinality({n \in 1 .. pairs : shown[n] # {}})

\* Which side is which decides nothing but what is called primary: exchanged,
\* the two answers have the same findings and the same suppressions.
SidesAreEqual ==
  last # NoPair =>
    LET exchanged == Diff(rules, last.shadow, last.primary)
    IN  /\ Findings(exchanged) = Findings(last.result)
        /\ exchanged.suppressed = last.result.suppressed

\* The value at a path of the namespace, or null.
ValueAt(response, path) ==
  CASE path[1] = "status" -> StatusNumber(response.status)
    [] path[1] = "headers" -> Str(HeaderValue(response.headers, Last(path)))
    [] path[1] = "body" /\ response.body.json -> At(response.body.value, Tail(path))
    [] OTHER -> Str(response.body.bytes)

\* The claim a rule makes of the two values it stands for.
Claims(rule, a, b) == rule.ignore \/ Equal(rule.normalise, a, b)

\* A change of shape is offered to the rules in the engine's own words, which
\* "len" measures: "string" and "number" are of one length.
Measured(rule, d) == rule.normalise.kind = "len" /\ d.kind = "shape"

\* Rules hide, they never invent, and what is hidden is hidden for a reason that
\* stands: at the finding's place, or at an array around it, the last rule that
\* matches ignores the place or is right about the two values; only that "len" may
\* hide a change of shape at its own place, which it is not right about.
HidingIsJustified ==
  last # NoPair =>
    LET reported == last.result.differences
        found == Diff(<<>>, last.primary, last.shadow).differences
    IN  /\ reported \subseteq found
        /\ \A d \in found \ reported :
             \E n \in 1 .. Len(d.path), i \in DOMAIN rules :
               LET place == SubSeq(d.path, 1, n)
                   a == ValueAt(last.primary, place)
                   b == ValueAt(last.shadow, place)
               IN  /\ n < Len(d.path) => Top(a).type = "array" /\ Top(b).type = "array"
                   /\ Matches(rules[i].path, place)
                   /\ \A j \in i + 1 .. Len(rules) : ~Matches(rules[j].path, place)
                   /\ Claims(rules[i], a, b) \/ (n = Len(d.path) /\ Measured(rules[i], d))

\* "Returning true for values that were already equal would inflate the suppressed
\* count with suppressions that never happened": what a pair reports and what it
\* counts as suppressed are no more than the differences there are without rules,
\* and the arrays that the two sides write differently, or that a rule ignores.
\* The latter are counted in equal answers too.
SuppressionsHappened ==
  last # NoPair =>
    LET p == last.primary.body
        s == last.shadow.body
        arrays == {place \in DOMAIN p.value \intersect DOMAIN s.value :
                     p.value[place].type = "array" /\ s.value[place].type = "array"}
        ignored(place) == LET i == Match(rules, Path(place)) IN i # 0 /\ rules[i].ignore
        offered == {place \in arrays : At(p.value, place) # At(s.value, place) \/ ignored(place)}
        found == Diff(<<>>, last.primary, last.shadow).differences
    IN  last.result.suppressed + Cardinality(last.result.differences)
          <= Cardinality(found) + IF p.json /\ s.json THEN Cardinality(offered) ELSE 0

\* What rendering keeps of a finding's value: a text that was not cut.
InFull(v) == Top(v).type = "string" /\ ~IsCut(v)

\* "To see what it would have hidden": rules asked afterwards, of a result made
\* without any, hide nothing that the engine would have reported under them, and
\* each finding is either kept or counted.  But for what rendering loses: a len
\* rule measures what is written of values that have no length, and a rule that
\* trims or folds takes a value the other side has not for the text "(absent)";
\* either may be wrong about a text that was cut.
ReplayHidesNoMore ==
  last # NoPair =>
    LET bare == Diff(<<>>, last.primary, last.shadow)
        replay == Apply(rules, bare)
    IN  /\ Cardinality(replay.differences) + replay.suppressed = Cardinality(bare.differences)
        /\ \A d \in last.result.differences \ replay.differences :
             LET rule == rules[Match(rules, d.path)]
             IN  /\ ~rule.ignore
                 /\ \/ /\ rule.normalise.kind = "len"
                       /\ ~(InFull(d.primary) /\ InFull(d.shadow))
                    \/ /\ rule.normalise.kind \in {"trim", "lower"}
                       /\ \/ IsCut(d.primary) \/ IsCut(d.shadow)
                          \/ d.kind = "body_key" /\ Top(d.primary).type # Top(d.shadow).type

-----------------------------------------------------------------------------
(* Refuted: what the code's comments say *)

\* "One side stopped being JSON.  That is a real finding", and "Neither is JSON:
\* fall back to bytes": bodies that go on differently after a first document are
\* not reported as identical with nothing suppressed.
RestIsCompared ==
  /\ last # NoPair
  /\ last.primary.body.json /\ last.shadow.body.json
  /\ Identical(last.result) /\ last.result.suppressed = 0
  => last.primary.body.rest = last.shadow.body.rest
=============================================================================
