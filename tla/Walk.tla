-------------------------------- MODULE Walk --------------------------------
(***************************************************************************)
(* The walk over two values as the recursion it is in the code, with the   *)
(* sink it reports to: what module Diff says in closed form comes to the   *)
(* same.  Nothing is proved of this module; TLC compares the two.          *)
(***************************************************************************)
EXTENDS Diff

Nothing == [differences |-> {}, suppressed |-> 0]

Both(r, s) ==
  [differences |-> r.differences \union s.differences,
   suppressed |-> r.suppressed + s.suppressed]

All(results) ==
  MapThenFoldSet(Both, Nothing, LAMBDA at : results[at], LAMBDA T : CHOOSE at \in T : TRUE,
                 DOMAIN results)

Add(rules, ask) == Sink(rules, {ask})

RECURSIVE Walk(_, _, _, _)

WalkObject(rules, a, b, place) ==
  LET keys == {at \in KeysOf(a, b) \ {<<>>} : Front(at) = place}
  IN  All([at \in keys |->
             IF at \in DOMAIN a \intersect DOMAIN b THEN Walk(rules, a, b, at)
             ELSE Add(rules, Ask("body_key", at, Path(at), At(a, at), At(b, at)))])

WalkArray(rules, a, b, place) ==
  LET whole == Ask("array", place, Path(place), At(a, place), At(b, place))
      both == {i \in 1 .. a[place].length : i <= b[place].length}
  IN  IF Hidden(rules, whole) THEN Add(rules, whole)
      ELSE Both(Sink(rules, Lengths(a, b, place)),
                All([i \in both |-> Walk(rules, a, b, Append(place, Index(i)))]))

Walk(rules, a, b, place) ==
  CASE a[place].type # b[place].type ->
         Add(rules, Ask("shape", place, Path(place), Str(a[place].type), Str(b[place].type)))
    [] a[place].type = "object" -> WalkObject(rules, a, b, place)
    [] a[place].type = "array" -> WalkArray(rules, a, b, place)
    [] OTHER ->
         IF ScalarEqual(a[place], b[place]) THEN Nothing
         ELSE Add(rules, Ask("body_value", place, Path(place), At(a, place), At(b, place)))
=============================================================================
