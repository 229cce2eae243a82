-------------------------------- MODULE Diff --------------------------------
(***************************************************************************)
(* internal/diff: the structural comparison of two responses.  Its result  *)
(* is the differences that no rule hides, each with its kind, its path and *)
(* the two values, and how many a rule has hidden.                         *)
(*                                                                         *)
(* A response is a status, headers (name to joined value, the name in      *)
(* lower case) and a body.  A body is JSON or it is not; of one that is,   *)
(* the decoder reads the first document and leaves the rest unread.        *)
(*                                                                         *)
(* What the walk over two values comes to is told in closed form: which    *)
(* places it reaches, and what it asks the sink at each.  Module Walk has  *)
(* it as the recursion it is in the code.  Its order is left out, which    *)
(* the code sorts for its reader only.                                     *)
(***************************************************************************)
EXTENDS Noise

CONSTANT TransportHeaders   \* headers that say nothing of the answer

-----------------------------------------------------------------------------
(* The sink, the one place where the rules are asked.  `at` is where in the *)
(* response an ask was made; the rules, and the report, see the path.       *)

Ask(kind, at, path, a, b) ==
  [kind |-> kind, at |-> at, path |-> path, primary |-> a, shadow |-> b]

Hidden(rules, ask) == Suppress(rules, ask.path, ask.primary, ask.shadow)

\* That a whole array is let through is no difference yet.
Sink(rules, asks) ==
  LET hidden == {ask \in asks : Hidden(rules, ask)}
  IN  [differences |-> {ask \in asks \ hidden : ask.kind # "array"},
       suppressed |-> Cardinality(hidden)]

-----------------------------------------------------------------------------
(* Bodies                                                                  *)

Items(n) == Str(ToString(n) \o " items")

\* Mutant of Escaped: a key goes into the path as it is.
Unescaped(key) == IF key = "a/b" THEN <<"a", "b">> ELSE <<key>>

\* RFC 6901: whatever a key holds, it is one segment.
Escaped(key) == <<key>>

Path(place) == <<"body">> \o FlattenSeq([i \in DOMAIN place |-> Escaped(place[i])])

\* Scalars of one type.  Numbers that one float64 stands for are equal.
ScalarEqual(x, y) ==
  IF x.type = "number" THEN Double(x.value) = Double(y.value) ELSE x = y

\* The walk goes on below a place: in two objects, and in two arrays that no
\* rule has hidden whole.
Descends(rules, a, b, place) ==
  /\ place \in DOMAIN a \intersect DOMAIN b
  /\ a[place].type = b[place].type
  /\ \/ a[place].type = "object"
     \/ /\ a[place].type = "array"
        /\ ~Suppress(rules, Path(place), At(a, place), At(b, place))

\* Mutant of KeysOf: a key that only the shadow has is not looked at.
KeysOfPrimary(a, b) == DOMAIN a

KeysOf(a, b) == DOMAIN a \union DOMAIN b

\* Where the walk comes: to all keys of two objects, to the first elements of
\* two arrays, as many as both have.
Reached(rules, a, b) ==
  {place \in KeysOf(a, b) :
     /\ \A n \in 0 .. Len(place) - 1 : Descends(rules, a, b, SubSeq(place, 1, n))
     /\ place # <<>> /\ a[Front(place)].type = "array"
          => place \in DOMAIN a \intersect DOMAIN b}

Lengths(a, b, place) ==
  IF a[place].length = b[place].length THEN {}
  ELSE {Ask("shape", place, Path(place), Items(a[place].length), Items(b[place].length))}

\* The whole array is offered to the rules before its elements are compared.
AsksAtArray(rules, a, b, place) ==
  LET whole == Ask("array", place, Path(place), At(a, place), At(b, place))
  IN  {whole} \union IF Hidden(rules, whole) THEN {} ELSE Lengths(a, b, place)

AsksAt(rules, a, b, place) ==
  IF place \notin DOMAIN a \intersect DOMAIN b
    THEN {Ask("body_key", place, Path(place), At(a, place), At(b, place))}
  ELSE IF a[place].type # b[place].type
    THEN {Ask("shape", place, Path(place), Str(a[place].type), Str(b[place].type))}
  ELSE CASE a[place].type = "object" -> {}
         [] a[place].type = "array" -> AsksAtArray(rules, a, b, place)
         [] OTHER ->
              IF ScalarEqual(a[place], b[place]) THEN {}
              ELSE {Ask("body_value", place, Path(place), At(a, place), At(b, place))}

WalkAsks(rules, a, b) == UNION {AsksAt(rules, a, b, place) : place \in Reached(rules, a, b)}

Jsonness(body) == Str(IF body.json THEN "valid JSON" ELSE "not JSON")

BodyAsks(rules, p, s) ==
  CASE p.json /\ s.json -> WalkAsks(rules, p.value, s.value)
    [] p.json # s.json -> {Ask("shape", <<>>, Path(<<>>), Jsonness(p), Jsonness(s))}
    [] OTHER -> IF p.bytes = s.bytes THEN {}
                ELSE {Ask("body_value", <<>>, Path(<<>>), Str(p.bytes), Str(s.bytes))}

-----------------------------------------------------------------------------
(* Status and headers                                                      *)

\* Absent and empty are alike.
HeaderValue(headers, name) == IF name \in DOMAIN headers THEN headers[name] ELSE ""

\* Mutant of HeaderPath: the name alone.
HeaderPathBare(name) == <<name>>

HeaderPath(name) == <<"headers", name>>

HeaderAsks(p, s) ==
  {Ask("header", <<name>>, HeaderPath(name), Str(HeaderValue(p, name)), Str(HeaderValue(s, name))) :
     name \in {name \in (DOMAIN p \union DOMAIN s) \ TransportHeaders :
                 HeaderValue(p, name) # HeaderValue(s, name)}}

StatusNumber(status) == Number(10 * status, ToString(status))

StatusAsks(p, s) ==
  IF p = s THEN {} ELSE {Ask("status", <<>>, <<"status">>, StatusNumber(p), StatusNumber(s))}

Asks(rules, primary, shadow) ==
  StatusAsks(primary.status, shadow.status)
    \union HeaderAsks(primary.headers, shadow.headers)
    \union BodyAsks(rules, primary.body, shadow.body)

Diff(rules, primary, shadow) == Sink(rules, Asks(rules, primary, shadow))
=============================================================================
