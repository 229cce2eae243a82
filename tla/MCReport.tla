------------------------------ MODULE MCReport ------------------------------
(***************************************************************************)
(* Small instances of Report.  The bodies are chosen in families whose     *)
(* members differ in what one part of the comparison looks at.             *)
(***************************************************************************)
EXTENDS Report, Walk

MCTrims == " x" :> "x" @@ " (absent)" :> "(absent)"
MCFolds == "LONG one" :> "long one" @@ "LONG..." :> "long..."
MCParses == "1" :> 10

\* The values of two integers beyond 2^53, in miniature, and what both become.
MCDoubles == 70 :> 80

\* Two texts beyond MaxValueLen that differ in case before it, and after it.
MCCuts == "LONG one" :> "LONG..." @@ "long two" :> "long..."
MCTransportHeaders == {"content-length"}

\* A tree with a root and a tree below it for each key.
Grown(root, below) ==
  [place \in {<<>>} \union UNION {{<<key>> \o p : p \in DOMAIN below[key]} : key \in DOMAIN below} |->
     IF place = <<>> THEN root ELSE below[Head(place)][Tail(place)]]

Object(fields) == Grown([type |-> "object"], fields)

Array(items) ==
  Grown([type |-> "array", length |-> Len(items)],
        [key \in {Index(i) : i \in DOMAIN items} |-> items[CHOOSE i \in DOMAIN items : Index(i) = key]])

x == Str("x")
y == Str("y")
One == Number(10, "1")
OnePointNought == Number(10, "1.0")
OnePointFour == Number(14, "1.4")
Two == Number(20, "2")
Big == Number(70, "9007199254740993")
BigDouble == Number(80, "9007199254740992")

Json(value) == [json |-> TRUE, value |-> value, rest |-> ""]
Text(bytes) == [json |-> FALSE, bytes |-> bytes]

\* A document, and then something else.
More == [Json(Object("total" :> One @@ "name" :> x)) EXCEPT !.rest = "<html>"]

Bodies ==
  {Json(Object("total" :> n @@ "name" :> x)) : n \in {One, OnePointNought, Big, BigDouble}}
  \union {Json(Object("total" :> OnePointFour @@ "name" :> Str(" x")))}
  \union {Json(Object("total" :> Str("1") @@ "name" :> Str(" (absent)")))}
  \union {Json(Object("tags" :> Array(items))) : items \in {<<x, y>>, <<y, x>>, <<x>>}}
  \union {Json(Object("a/b" :> n @@ "a" :> Object("b" :> n))) : n \in {One, Two}}
  \union {Json(Object("total" :> Null @@ "name" :> x))}

Ok(body) == [status |-> 200, headers |-> <<>>, body |-> body]

Dated(date) ==
  [status |-> 200, headers |-> "date" :> date @@ "content-length" :> date, body |-> Text("x")]

MCResponses ==
  {Ok(body) : body \in Bodies}
  \union {Dated("LONG one"), Dated("long one"),
          [Dated("long two") EXCEPT !.status = 500, !.body = Text("")]}

MCResponsesThatGoOn == {Ok(More), Ok([More EXCEPT !.rest = ""])} \union MCResponses

Ignore(path) == [path |-> path, ignore |-> TRUE, normalise |-> [kind |-> "none"]]
Normalise(kind, path) == [path |-> path, ignore |-> FALSE, normalise |-> [kind |-> kind]]
Round(places, path) ==
  [path |-> path, ignore |-> FALSE, normalise |-> [kind |-> "round", places |-> places]]

MCDefaults == <<Ignore(<<"headers", "date">>)>>

MCRulesets ==
  {<<Round(0, <<"body", "total">>), Normalise("sort", <<"body", "tags">>)>>,
   <<Ignore(<<"body", "**">>), Round(0, <<"body", "total">>)>>,
   <<Normalise("trim", <<"body", "*">>), Normalise("lower", <<"headers", "date">>)>>,
   <<Normalise("upper", <<"body", "*">>)>>,
   <<Normalise("len", <<"**", "b">>), Normalise("len", <<"body", "tags">>), Ignore(<<"status">>)>>}

\* Arrays in objects in arrays, with elements that change, go or move.
Deep ==
  {Object("tags" :> Array(<<Object("b" :> u @@ "a/b" :> w), Array(items)>>)) :
     u \in {One, x}, w \in {One, Null}, items \in {<<x, y>>, <<y, x>>, <<x>>, <<>>}}
  \union {Object("tags" :> Array(<<Object("b" :> One)>>)), Array(<<>>), Bool(TRUE), Bool(FALSE)}

\* The closed form of the comparison is the walk, on every two values here.
ASSUME ClosedFormIsWalk ==
  \A loaded \in MCRulesets \union {<<Normalise("sort", <<"body", "**", "1">>)>>},
     a, b \in Deep \union {body.value : body \in {body \in Bodies : body.json}} :
    Sink(loaded, WalkAsks(loaded, a, b)) = Walk(loaded, a, b, <<>>)
=============================================================================
