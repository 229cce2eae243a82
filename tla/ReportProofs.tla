---------------------------- MODULE ReportProofs ----------------------------
(***************************************************************************)
(* Theorems about the report, for all answers, rulesets and numbers of     *)
(* pairs.                                                                  *)
(***************************************************************************)
EXTENDS Report, FiniteSetTheorems, SequenceTheorems, WellFoundedInduction, TLAPS

-----------------------------------------------------------------------------
(* Numbers                                                                 *)

\* A set of numbers that is not empty has a least one.
LEMMA Least ==
  ASSUME NEW S, S \subseteq Nat, S # {}
  PROVE  \E m \in S : \A k \in S : m <= k
<1>1. PICK m \in S : \A k \in S : <<k, m>> \notin OpToRel(<, Nat)
  BY NatLessThanWellFounded, WFMin
<1>2. \A k \in S : ~ (k < m)
  BY <1>1 DEF OpToRel
<1> QED BY <1>2

\* Induction up to n: a set with 0 in it, and with m + 1 whenever with m.
LEMMA UpTo ==
  ASSUME NEW n \in Nat, NEW S, 0 \in S, \A m \in 0 .. n - 1 : m \in S => m + 1 \in S
  PROVE  0 .. n \subseteq S
<1> SUFFICES ASSUME (0 .. n) \ S # {} PROVE FALSE
  OBVIOUS
<1>1. PICK m \in (0 .. n) \ S : \A k \in (0 .. n) \ S : m <= k
  <2>1. (0 .. n) \ S \subseteq Nat
    OBVIOUS
  <2> QED BY <2>1, Least
<1>2. m # 0 /\ m - 1 \in 0 .. n - 1 /\ (m - 1) + 1 = m
  BY <1>1
<1>3. m - 1 \in S
  BY <1>1, <1>2
<1> QED BY <1>1, <1>2, <1>3

\* A set of numbers up to n that is not empty has a greatest one.
LEMMA Greatest ==
  ASSUME NEW n \in Nat, NEW S, S \subseteq 0 .. n, S # {}
  PROVE  /\ Max(S) \in S
         /\ \A k \in S : k <= Max(S)
<1> DEFINE T == {n - k : k \in S}
<1>0. \A k \in S : k \in Nat /\ k <= n /\ n - k \in Nat
  OBVIOUS
<1>1. T \subseteq Nat /\ T # {}
  <2>1. \A k \in S : n - k \in Nat
    BY <1>0
  <2>2. PICK k \in S : TRUE
    OBVIOUS
  <2>3. n - k \in T
    OBVIOUS
  <2> QED BY <2>1, <2>3
<1>2. PICK m \in T : \A k \in T : m <= k
  BY <1>1, Least
<1>3. PICK top \in S : m = n - top
  BY <1>2
<1>4. ASSUME NEW k \in S PROVE top >= k
  <2>1. n - k \in T
    OBVIOUS
  <2>2. n - top <= n - k
    BY <1>2, <1>3, <2>1
  <2> QED BY <1>0, <2>2
<1>5. Max(S) \in S /\ \A k \in S : Max(S) >= k
  BY <1>4 DEF Max
<1> QED BY <1>0, <1>5

-----------------------------------------------------------------------------
(* Places and paths                                                        *)

Places == Seq(STRING)

\* The provers do not take the three names of the namespace for strings.
Segments == STRING \union {"body", "headers", "status"}

Paths == Seq(Segments)

\* A prefix of a sequence is one.
LEMMA PrefixOfSeq ==
  ASSUME NEW S, NEW p \in Seq(S), NEW n \in 0 .. Len(p)
  PROVE  /\ SubSeq(p, 1, n) \in Seq(S)
         /\ Len(SubSeq(p, 1, n)) = n
         /\ \A i \in 1 .. n : SubSeq(p, 1, n)[i] = p[i]
         /\ \A m \in 0 .. n : SubSeq(SubSeq(p, 1, n), 1, m) = SubSeq(p, 1, m)
         /\ n > 0 => SubSeq(p, 1, n) # <<>> /\ Front(SubSeq(p, 1, n)) = SubSeq(p, 1, n - 1)
         /\ SubSeq(p, 1, Len(p)) = p
<1>0. Len(p) \in Nat /\ \A i \in 1 .. Len(p) : p[i] \in S
  BY LenProperties, ElementOfSeq
<1>1. /\ SubSeq(p, 1, n) \in Seq(S) /\ Len(SubSeq(p, 1, n)) = n
      /\ \A i \in 1 .. n : SubSeq(p, 1, n)[i] = p[i]
  <2>1. /\ SubSeq(p, 1, n) \in Seq(S)
        /\ Len(SubSeq(p, 1, n)) = IF 1 <= n THEN n - 1 + 1 ELSE 0
        /\ \A i \in 1 .. n - 1 + 1 : SubSeq(p, 1, n)[i] = p[1 + i - 1]
    BY <1>0, SubSeqProperties
  <2> QED BY <1>0, <2>1
<1>2. ASSUME NEW m \in 0 .. n PROVE SubSeq(SubSeq(p, 1, n), 1, m) = SubSeq(p, 1, m)
  <2> DEFINE q == SubSeq(p, 1, n)
             l == SubSeq(q, 1, m)
             r == SubSeq(p, 1, m)
  <2>1. /\ q \in Seq(S) /\ Len(q) = n /\ \A i \in 1 .. n : q[i] = p[i]
    BY <1>1
  <2> HIDE DEF q
  <2>2. /\ l \in Seq(S) /\ Len(l) = IF 1 <= m THEN m - 1 + 1 ELSE 0
        /\ \A i \in 1 .. m - 1 + 1 : l[i] = q[1 + i - 1]
    BY <1>0, <2>1, SubSeqProperties
  <2>3. /\ r \in Seq(S) /\ Len(r) = IF 1 <= m THEN m - 1 + 1 ELSE 0
        /\ \A i \in 1 .. m - 1 + 1 : r[i] = p[1 + i - 1]
    BY <1>0, SubSeqProperties
  <2> HIDE DEF l, r
  <2>4. Len(l) = m /\ Len(r) = m /\ \A i \in 1 .. m : l[i] = r[i]
    BY <1>0, <2>1, <2>2, <2>3
  <2>5. l = r
    BY <2>2, <2>3, <2>4, SeqEqual
  <2> QED BY <2>5 DEF l, r, q
<1>3. ASSUME n > 0
      PROVE  SubSeq(p, 1, n) # <<>> /\ Front(SubSeq(p, 1, n)) = SubSeq(p, 1, n - 1)
  <2>1. SubSeq(p, 1, n) # <<>>
    BY <1>1, <1>3, EmptySeq
  <2>2. n - 1 \in 0 .. n
    BY <1>0, <1>3
  <2> QED BY <1>1, <1>2, <2>1, <2>2 DEF Front
<1>4. SubSeq(p, 1, Len(p)) = p
  BY SubSeqFull
<1> QED BY <1>1, <1>2, <1>3, <1>4

\* A prefix of a place is one.
LEMMA Prefix ==
  ASSUME NEW p \in Places, NEW n \in 0 .. Len(p)
  PROVE  /\ SubSeq(p, 1, n) \in Places
         /\ Len(SubSeq(p, 1, n)) = n
         /\ \A i \in 1 .. n : SubSeq(p, 1, n)[i] = p[i]
         /\ \A m \in 0 .. n : SubSeq(SubSeq(p, 1, n), 1, m) = SubSeq(p, 1, m)
         /\ n > 0 => SubSeq(p, 1, n) # <<>> /\ Front(SubSeq(p, 1, n)) = SubSeq(p, 1, n - 1)
         /\ SubSeq(p, 1, Len(p)) = p
BY PrefixOfSeq DEF Places

\* One segment at a time.
LEMMA Longer ==
  ASSUME NEW p \in Places, NEW i \in 1 .. Len(p)
  PROVE  /\ i # 1 => SubSeq(p, 1, i) = SubSeq(p, 1, i - 1) \o <<p[i]>>
         /\ i = 1 => SubSeq(p, 1, i) = <<p[i]>>
<1>0. Len(p) \in Nat /\ p[i] \in STRING
  BY LenProperties, ElementOfSeq DEF Places
<1>1. SubSeq(p, 1, i) = SubSeq(p, 1, i - 1) \o <<p[i]>>
  BY <1>0, SubSeqRecursiveSecond DEF Places
<1>2. CASE i = 1
  <2>1. SubSeq(p, 1, i - 1) = <<>>
    BY <1>0, <1>2, SubSeqEmpty
  <2>2. <<p[i]>> \in Seq(STRING) /\ <<>> \o <<p[i]>> = <<p[i]>>
    BY <1>0, ConcatEmptySeq
  <2> QED BY <1>1, <1>2, <2>1, <2>2
<1> QED BY <1>1, <1>2

\* Sequences of one segment each, put together, are the sequence of the segments.
LEMMA FlattenSingles ==
  ASSUME NEW p \in Places, NEW s, Len(s) = Len(p), p = <<>> => s = <<>>,
         \A i \in 1 .. Len(p) : s[i] = <<p[i]>>
  PROVE  FlattenSeq(s) = p
<1>0. Len(p) \in Nat
  BY LenProperties DEF Places
<1>1. CASE Len(p) = 0
  <2>1. p = <<>>
    BY <1>1, EmptySeq DEF Places
  <2> QED BY <1>1, <2>1 DEF FlattenSeq
<1>2. CASE Len(p) # 0
  <2> DEFINE Body(f) == [i \in 1 .. Len(s) |-> IF i = 1 THEN s[i] ELSE f[i - 1] \o s[i]]
             flat == [i \in 1 .. Len(p) |-> SubSeq(p, 1, i)]
             all == CHOOSE f : f = Body(f)
  <2>1. flat = Body(flat)
    <3>1. ASSUME NEW i \in 1 .. Len(p)
          PROVE  flat[i] = IF i = 1 THEN s[i] ELSE flat[i - 1] \o s[i]
      <4>1. CASE i = 1
        BY <4>1, Longer
      <4>2. CASE i # 1
        <5>1. i - 1 \in 1 .. Len(p)
          BY <1>0, <4>2
        <5> QED BY <4>2, <5>1, Longer
      <4> QED BY <4>1, <4>2
    <3> QED BY <3>1
  <2>2. all = CHOOSE f : f = Body(f)
    OBVIOUS
  <2> HIDE DEF all, flat
  <2>3. all = Body(all)
    BY <2>1, <2>2
  <2>4. ASSUME NEW i \in 1 .. Len(p)
        PROVE  all[i] = IF i = 1 THEN <<p[i]>> ELSE all[i - 1] \o <<p[i]>>
    BY <2>3
  <2> DEFINE S == {k \in 0 .. Len(p) - 1 : all[k + 1] = SubSeq(p, 1, k + 1)}
  <2>5. 0 \in S
    <3>1. 1 \in 1 .. Len(p)
      BY <1>0, <1>2
    <3>2. all[1] = SubSeq(p, 1, 1)
      BY <2>4, <3>1, Longer
    <3> QED BY <1>0, <1>2, <3>2
  <2>6. ASSUME NEW m \in 0 .. (Len(p) - 1) - 1, m \in S PROVE m + 1 \in S
    <3> DEFINE i == (m + 1) + 1
    <3>1. i \in 1 .. Len(p) /\ i # 1 /\ i - 1 = m + 1 /\ m + 1 \in 0 .. Len(p) - 1
      BY <1>0
    <3>2. all[m + 1] = SubSeq(p, 1, m + 1)
      BY <2>6
    <3> HIDE DEF i
    <3>3. all[i] = SubSeq(p, 1, m + 1) \o <<p[i]>>
      BY <2>4, <3>1, <3>2
    <3>4. all[i] = SubSeq(p, 1, i)
      BY <3>1, <3>3, Longer
    <3> QED BY <3>1, <3>4 DEF i
  <2> HIDE DEF S
  <2>7. 0 .. Len(p) - 1 \subseteq S
    <3>1. Len(p) - 1 \in Nat
      BY <1>0, <1>2
    <3> QED BY <2>5, <2>6, <3>1, UpTo
  <2>8. Len(p) - 1 \in S /\ (Len(p) - 1) + 1 = Len(p)
    BY <1>0, <1>2, <2>7
  <2>9. all[Len(p)] = SubSeq(p, 1, Len(p))
    BY <2>8 DEF S
  <2>10. all[Len(p)] = p
    BY <2>9, SubSeqFull DEF Places
  <2>11. FlattenSeq(s) = all[Len(s)]
    BY <1>0, <1>2 DEF FlattenSeq, all
  <2> QED BY <2>10, <2>11
<1> QED BY <1>1, <1>2

\* Whatever its keys hold, a place is told by its path: each key is one segment.
LEMMA PathIsPlace == ASSUME NEW p \in Places PROVE Path(p) = <<"body">> \o p
<1>0. Len(p) \in Nat /\ p \in [1 .. Len(p) -> STRING] /\ DOMAIN p = 1 .. Len(p)
  BY LenProperties DEF Places
<1> DEFINE segments == [i \in DOMAIN p |-> Escaped(p[i])]
<1>1. segments = [i \in 1 .. Len(p) |-> <<p[i]>>]
  BY <1>0 DEF Escaped
<1>2. segments \in Seq(Seq(STRING))
  <2>1. \A i \in 1 .. Len(p) : <<p[i]>> \in Seq(STRING)
    BY <1>0
  <2>2. segments \in [1 .. Len(p) -> Seq(STRING)]
    BY <1>1, <2>1
  <2> QED BY <1>0, <2>2, SeqDef
<1>3. DOMAIN segments = 1 .. Len(segments) /\ Len(segments) \in Nat
  BY <1>2, LenProperties
<1>4. Len(segments) = Len(p) /\ \A i \in 1 .. Len(p) : segments[i] = <<p[i]>>
  BY <1>0, <1>1, <1>3
<1>5. p = <<>> => segments = <<>>
  OBVIOUS
<1> HIDE DEF segments
<1>6. FlattenSeq(segments) = p
  BY <1>4, <1>5, FlattenSingles
<1> QED BY <1>6 DEF Path, segments

\* A place can stand in a path.
LEMMA PlaceIsPath == Places \subseteq Paths
<1>1. STRING \subseteq Segments
  BY DEF Segments
<1> HIDE DEF Segments
<1> QED BY <1>1, SeqMonotonic DEF Places, Paths

\* A path is the name of the namespace, and then the place.
LEMMA PathEach ==
  ASSUME NEW p \in Places
  PROVE  /\ Len(p) \in Nat
         /\ Path(p) \in Paths /\ Len(Path(p)) = Len(p) + 1 /\ Path(p)[1] = "body"
         /\ \A i \in 1 .. Len(p) : Path(p)[i + 1] = p[i]
<1> DEFINE ns == <<"body">>
<1>1. ns \in Paths /\ ns[1] = "body"
  <2>1. "body" \in Segments
    BY DEF Segments
  <2> HIDE DEF Segments
  <2>2. ns \in Paths
    BY <2>1 DEF Paths
  <2>3. ns[1] = "body"
    OBVIOUS
  <2> QED BY <2>2, <2>3
<1>2. Len(ns) = 1
  OBVIOUS
<1>3. Len(p) \in Nat /\ p \in Paths
  BY LenProperties, PlaceIsPath DEF Places
<1> HIDE DEF ns
<1>4. /\ ns \o p \in Paths /\ Len(ns \o p) = Len(ns) + Len(p)
      /\ \A i \in 1 .. Len(ns) + Len(p) :
           (ns \o p)[i] = IF i <= Len(ns) THEN ns[i] ELSE p[i - Len(ns)]
  BY <1>1, <1>3, ConcatProperties DEF Paths
<1>5. Len(ns \o p) = Len(p) + 1
  BY <1>2, <1>3, <1>4
<1>6. (ns \o p)[1] = "body"
  BY <1>1, <1>2, <1>3, <1>4
<1>7. \A i \in 1 .. Len(p) : (ns \o p)[i + 1] = p[i]
  <2> TAKE i \in 1 .. Len(p)
  <2>1. i + 1 \in 1 .. 1 + Len(p) /\ ~(i + 1 <= 1) /\ (i + 1) - 1 = i
    BY <1>3
  <2> QED BY <1>2, <1>4, <2>1
<1>8. Path(p) = ns \o p
  BY PathIsPlace DEF ns
<1> QED BY <1>3, <1>4, <1>5, <1>6, <1>7, <1>8

\* Two places with one path are one; a path begins with the name of the
\* namespace, and its prefixes are the paths of the prefixes.
LEMMA PathProperties ==
  ASSUME NEW p \in Places
  PROVE  /\ Path(p) \in Paths /\ Len(Path(p)) = Len(p) + 1
         /\ Path(p)[1] = "body" /\ Tail(Path(p)) = p
         /\ \A n \in 0 .. Len(p) : SubSeq(Path(p), 1, n + 1) = Path(SubSeq(p, 1, n))
<1>0. Len(p) \in Nat
  BY PathEach
<1>3. Path(p) \in Paths /\ Len(Path(p)) = Len(p) + 1 /\ Path(p)[1] = "body"
      /\ \A i \in 1 .. Len(p) : Path(p)[i + 1] = p[i]
  BY PathEach
<1>4. Tail(Path(p)) = p
  <2>1. Path(p) # <<>>
    BY <1>0, <1>3, EmptySeq
  <2>2. /\ Tail(Path(p)) \in Paths /\ Len(Tail(Path(p))) = Len(Path(p)) - 1
        /\ \A i \in 1 .. Len(Tail(Path(p))) : Tail(Path(p))[i] = Path(p)[i + 1]
    BY <1>3, <2>1, HeadTailProperties DEF Paths
  <2>3. Len(Tail(Path(p))) = Len(p) /\ \A i \in 1 .. Len(p) : Tail(Path(p))[i] = p[i]
    BY <1>0, <1>3, <2>2
  <2>4. p \in Paths
    BY PlaceIsPath
  <2> QED BY <2>2, <2>3, <2>4, SeqEqual DEF Paths
<1>5. ASSUME NEW n \in 0 .. Len(p)
      PROVE  SubSeq(Path(p), 1, n + 1) = Path(SubSeq(p, 1, n))
  <2> DEFINE q == SubSeq(p, 1, n)
             l == SubSeq(Path(p), 1, n + 1)
  <2>1. q \in Places /\ Len(q) = n /\ \A i \in 1 .. n : q[i] = p[i]
    BY Prefix
  <2>2. n + 1 \in 0 .. Len(Path(p))
    BY <1>0, <1>3
  <2>3. l \in Paths /\ Len(l) = n + 1 /\ \A i \in 1 .. n + 1 : l[i] = Path(p)[i]
    BY <1>3, <2>2, PrefixOfSeq DEF Paths
  <2> HIDE DEF q, l
  <2>4. /\ Path(q) \in Paths /\ Len(Path(q)) = n + 1 /\ Path(q)[1] = "body"
        /\ \A i \in 1 .. n : Path(q)[i + 1] = q[i]
    BY <2>1, PathEach
  <2>5. ASSUME NEW i \in 1 .. n + 1 PROVE l[i] = Path(q)[i]
    <3>1. CASE i = 1
      BY <1>3, <2>3, <2>4, <3>1
    <3>2. CASE i # 1
      <4>1. i - 1 \in 1 .. n /\ i - 1 \in 1 .. Len(p) /\ (i - 1) + 1 = i
        BY <1>0, <3>2
      <4>2. Path(p)[i] = p[i - 1] /\ Path(q)[i] = q[i - 1] /\ q[i - 1] = p[i - 1]
        BY <1>3, <2>1, <2>4, <4>1
      <4> QED BY <2>3, <4>2
    <3> QED BY <3>1, <3>2
  <2>6. l = Path(q)
    BY <2>3, <2>4, <2>5, SeqEqual DEF Paths
  <2> QED BY <2>6 DEF l, q
<1> QED BY <1>3, <1>4, <1>5

-----------------------------------------------------------------------------
(* Trees                                                                   *)

\* A place of a tree has all places above it in the tree, and those hold others.
LEMMA Ancestors ==
  ASSUME NEW v, IsTree(v), NEW p \in DOMAIN v, NEW n \in 0 .. Len(p)
  PROVE  /\ p \in Places
         /\ SubSeq(p, 1, n) \in DOMAIN v
         /\ n < Len(p) => v[SubSeq(p, 1, n)].type \in {"object", "array"}
<1>1. p \in Places /\ Len(p) \in Nat /\ SubSeq(p, 1, Len(p)) = p
  BY LenProperties, Prefix DEF IsTree, Places
<1>2. ASSUME NEW k \in 1 .. Len(p), SubSeq(p, 1, k) \in DOMAIN v
      PROVE  /\ SubSeq(p, 1, k - 1) \in DOMAIN v
             /\ v[SubSeq(p, 1, k - 1)].type \in {"object", "array"}
  <2>1. k \in 0 .. Len(p) /\ k > 0
    BY <1>1
  <2>2. SubSeq(p, 1, k) # <<>> /\ Front(SubSeq(p, 1, k)) = SubSeq(p, 1, k - 1)
    BY <1>1, <2>1, Prefix
  <2> QED BY <1>2, <2>2 DEF IsTree
<1> DEFINE S == {k \in 0 .. Len(p) : SubSeq(p, 1, Len(p) - k) \in DOMAIN v}
<1>3. 0 \in S
  <2>1. Len(p) - 0 = Len(p) /\ 0 \in 0 .. Len(p)
    BY <1>1
  <2>2. SubSeq(p, 1, Len(p) - 0) \in DOMAIN v
    BY <1>1, <2>1
  <2> QED BY <2>1, <2>2
<1>4. ASSUME NEW m \in 0 .. Len(p) - 1, m \in S PROVE m + 1 \in S
  <2>1. Len(p) - m \in 1 .. Len(p) /\ Len(p) - (m + 1) = (Len(p) - m) - 1 /\ m + 1 \in 0 .. Len(p)
    BY <1>1
  <2>2. SubSeq(p, 1, Len(p) - m) \in DOMAIN v
    BY <1>4
  <2> QED BY <1>2, <2>1, <2>2
<1> HIDE DEF S
<1>5. 0 .. Len(p) \subseteq S
  BY <1>1, <1>3, <1>4, UpTo
<1>6. \A k \in 0 .. Len(p) : SubSeq(p, 1, k) \in DOMAIN v
  <2> TAKE k \in 0 .. Len(p)
  <2>1. Len(p) - k \in S /\ Len(p) - (Len(p) - k) = k
    BY <1>1, <1>5
  <2> QED BY <2>1 DEF S
<1>7. n < Len(p) => v[SubSeq(p, 1, n)].type \in {"object", "array"}
  <2> SUFFICES ASSUME n < Len(p) PROVE v[SubSeq(p, 1, n)].type \in {"object", "array"}
    OBVIOUS
  <2>1. n + 1 \in 1 .. Len(p) /\ n + 1 \in 0 .. Len(p) /\ (n + 1) - 1 = n
    BY <1>1
  <2> QED BY <1>2, <1>6, <2>1
<1> QED BY <1>1, <1>6, <1>7



\* At a place of it, a value has what is there.
LEMMA TopOfAt ==
  ASSUME NEW v, IsTree(v), NEW p \in DOMAIN v
  PROVE  Top(At(v, p)) = v[p]
<1>1. p \in Places /\ Len(p) \in Nat
  BY LenProperties DEF IsTree, Places
<1>2. IsPrefix(p, p)
  BY <1>1 DEF IsPrefix
<1>3. SubSeq(p, Len(p) + 1, Len(p)) = <<>>
  BY <1>1, SubSeqEmpty
<1>4. p \o <<>> = p
  BY <1>1, ConcatEmptySeq DEF Places
<1> DEFINE below == {SubSeq(q, Len(p) + 1, Len(q)) : q \in {q \in DOMAIN v : IsPrefix(p, q)}}
<1>5. <<>> \in below
  <2>1. SubSeq(p, Len(p) + 1, Len(p)) \in below
    BY <1>2
  <2> QED BY <1>3, <2>1
<1>6. At(v, p) = [q \in below |-> v[p \o q]]
  BY DEF At
<1> HIDE DEF below
<1> QED BY <1>4, <1>5, <1>6 DEF Top

\* Two trees that have the same array at a place have the same places right below.
LEMMA SameElements ==
  ASSUME NEW a, NEW b, IsTree(a), IsTree(b),
         NEW p \in DOMAIN a, p # <<>>, Front(p) \in DOMAIN b,
         a[Front(p)] = b[Front(p)], a[Front(p)].type = "array"
  PROVE  p \in DOMAIN b
<1> DEFINE f == Front(p)
<1>1. f \in DOMAIN a
  BY DEF IsTree
<1>2. {q \in DOMAIN a \ {<<>>} : Front(q) = f}
        = {Append(f, Index(i)) : i \in 1 .. a[f].length}
  BY <1>1 DEF IsTree
<1>3. {q \in DOMAIN b \ {<<>>} : Front(q) = f}
        = {Append(f, Index(i)) : i \in 1 .. b[f].length}
  BY DEF IsTree
<1>4. p \in {q \in DOMAIN a \ {<<>>} : Front(q) = f}
  OBVIOUS
<1> QED BY <1>2, <1>3, <1>4

-----------------------------------------------------------------------------
(* Finite sets                                                             *)

\* The values of a function on a finite set are finitely many.
LEMMA ImageFinite ==
  ASSUME NEW S, IsFiniteSet(S), NEW f
  PROVE  IsFiniteSet({f[x] : x \in S})
<1> DEFINE T == {f[x] : x \in S}
           g == [x \in S |-> f[x]]
<1>1. g \in Surjection(S, T)
  BY DEF Surjection
<1> QED BY <1>1, FS_Surjection

-----------------------------------------------------------------------------
(* Rules                                                                   *)

\* The rule that counts is the last one that matches.
LEMMA MatchIsLast ==
  ASSUME NEW R, NEW rs \in Seq(R), NEW path
  PROVE  /\ Match(rs, path) \in 0 .. Len(rs)
         /\ Match(rs, path) # 0 =>
              /\ Matches(rs[Match(rs, path)].path, path)
              /\ \A j \in Match(rs, path) + 1 .. Len(rs) : ~Matches(rs[j].path, path)
<1> DEFINE I == {i \in 1 .. Len(rs) : Matches(rs[i].path, path)}
<1>1. Match(rs, path) = IF I # {} THEN Max(I) ELSE 0
  BY DEF Match, SelectLastInSeq
<1>2. Len(rs) \in Nat
  BY LenProperties
<1>3. I \subseteq 1 .. Len(rs) /\ I \subseteq 0 .. Len(rs)
  BY <1>2
<1>4. \A i \in 1 .. Len(rs) : i \in I <=> Matches(rs[i].path, path)
  OBVIOUS
<1> HIDE DEF I
<1>5. CASE I = {}
  BY <1>1, <1>2, <1>5
<1>6. CASE I # {}
  <2> DEFINE m == Max(I)
  <2>1. m \in I /\ \A k \in I : k <= m
    BY <1>2, <1>3, <1>6, Greatest
  <2>2. Match(rs, path) = m
    BY <1>1, <1>6
  <2> HIDE DEF m
  <2>3. m \in 1 .. Len(rs) /\ m \in 0 .. Len(rs)
    BY <1>3, <2>1
  <2>4. Matches(rs[m].path, path)
    BY <1>4, <2>1, <2>3
  <2>5. \A j \in m + 1 .. Len(rs) : ~Matches(rs[j].path, path)
    <3> TAKE j \in m + 1 .. Len(rs)
    <3>1. j \in 1 .. Len(rs) /\ ~(j <= m)
      BY <1>2, <2>3
    <3> QED BY <1>4, <2>1, <3>1
  <2> QED BY <2>2, <2>3, <2>4, <2>5
<1> QED BY <1>5, <1>6

\* No rules hide nothing.
LEMMA NoRules == ASSUME NEW path, NEW a, NEW b PROVE ~Suppress(<<>>, path, a, b)
<1>1. <<>> \in Seq({})
  OBVIOUS
<1>2. Match(<<>>, path) \in 0 .. Len(<<>>)
  BY <1>1, MatchIsLast
<1>3. Match(<<>>, path) = 0
  BY <1>2
<1> QED BY <1>3 DEF Suppress

\* A normalisation does not tell the sides apart.
LEMMA EqualEitherWay ==
  ASSUME NEW normalise, NEW a, NEW b, Equal(normalise, a, b)
  PROVE  Equal(normalise, b, a)
<1>1. CASE normalise.kind = "round"
  <2>1. EqualRounded(normalise.places, a, b)
    BY <1>1 DEF Equal
  <2>2. EqualRounded(normalise.places, b, a)
    BY <2>1 DEF EqualRounded
  <2> QED BY <1>1, <2>2 DEF Equal
<1>2. CASE normalise.kind = "sort"
  <2>1. EqualSorted(b, a)
    BY <1>2 DEF Equal, EqualSorted
  <2> QED BY <1>2, <2>1 DEF Equal
<1>3. CASE normalise.kind = "trim"
  <2>1. EqualTexts(Trims, b, a)
    BY <1>3 DEF Equal, EqualTexts
  <2> QED BY <1>3, <2>1 DEF Equal
<1>4. CASE normalise.kind = "lower"
  <2>1. EqualTexts(Folds, b, a)
    BY <1>4 DEF Equal, EqualTexts
  <2> QED BY <1>4, <2>1 DEF Equal
<1>5. CASE normalise.kind = "len"
  <2>1. LengthOf(a) \intersect LengthOf(b) # {}
    BY <1>5 DEF Equal
  <2>2. LengthOf(b) \intersect LengthOf(a) # {}
    BY <2>1
  <2> QED BY <1>5, <2>2 DEF Equal
<1> QED BY <1>1, <1>2, <1>3, <1>4, <1>5 DEF Equal

\* Nor do the rules.
LEMMA SuppressEitherWay ==
  ASSUME NEW rs, NEW path, NEW a, NEW b
  PROVE  Suppress(rs, path, a, b) <=> Suppress(rs, path, b, a)
<1>1. \A n, x, y : EqualOnlyNormalised(n, x, y) => EqualOnlyNormalised(n, y, x)
  BY EqualEitherWay DEF EqualOnlyNormalised
<1> QED BY <1>1 DEF Suppress

-----------------------------------------------------------------------------
(* What is asked                                                           *)

\* Two places with one path are one.
LEMMA PathTellsPlace ==
  ASSUME NEW p \in Places, NEW q \in Places, Path(p) = Path(q)
  PROVE  p = q
<1>1. Tail(Path(p)) = p /\ Tail(Path(q)) = q
  BY PathProperties
<1> QED BY <1>1

PlaceKinds == {"array", "shape", "body_key", "body_value"}

\* What is asked at a place names it, and there is one ask of a kind.
LEMMA AskAtPlace ==
  ASSUME NEW rs, NEW a, NEW b, NEW place, NEW x \in AsksAt(rs, a, b, place)
  PROVE  /\ x.at = place /\ x.path = Path(place) /\ x.kind \in PlaceKinds
         /\ \A y \in AsksAt(rs, a, b, place) : y.kind = x.kind => y = x
<1> DEFINE path == Path(place)
<1>1. CASE place \notin DOMAIN a \intersect DOMAIN b
  <2> DEFINE one == Ask("body_key", place, path, At(a, place), At(b, place))
  <2>1. AsksAt(rs, a, b, place) \subseteq {one}
    BY <1>1 DEF AsksAt
  <2>2. one.at = place /\ one.path = path /\ one.kind = "body_key"
    BY DEF Ask
  <2> HIDE DEF one, path
  <2>3. x = one /\ \A y \in AsksAt(rs, a, b, place) : y = one
    BY <2>1
  <2> QED BY <2>2, <2>3 DEF PlaceKinds, path
<1>2. CASE place \in DOMAIN a \intersect DOMAIN b /\ a[place].type # b[place].type
  <2> DEFINE one == Ask("shape", place, path, Str(a[place].type), Str(b[place].type))
  <2>1. AsksAt(rs, a, b, place) \subseteq {one}
    BY <1>2 DEF AsksAt
  <2>2. one.at = place /\ one.path = path /\ one.kind = "shape"
    BY DEF Ask
  <2> HIDE DEF one, path
  <2>3. x = one /\ \A y \in AsksAt(rs, a, b, place) : y = one
    BY <2>1
  <2> QED BY <2>2, <2>3 DEF PlaceKinds, path
<1>3. CASE /\ place \in DOMAIN a \intersect DOMAIN b /\ a[place].type = b[place].type
           /\ a[place].type = "object"
  BY <1>3 DEF AsksAt
<1>4. CASE /\ place \in DOMAIN a \intersect DOMAIN b /\ a[place].type = b[place].type
           /\ a[place].type = "array"
  <2>1. AsksAt(rs, a, b, place) = AsksAtArray(rs, a, b, place)
    BY <1>4 DEF AsksAt
  <2> DEFINE whole == Ask("array", place, path, At(a, place), At(b, place))
             lengths == Ask("shape", place, path, Items(a[place].length), Items(b[place].length))
  <2>2. AsksAtArray(rs, a, b, place) \subseteq {whole, lengths}
    BY DEF AsksAtArray, Lengths
  <2>3. /\ whole.at = place /\ whole.path = path /\ whole.kind = "array"
        /\ lengths.at = place /\ lengths.path = path /\ lengths.kind = "shape"
    BY DEF Ask
  <2> HIDE DEF whole, lengths
  <2> QED BY <2>1, <2>2, <2>3 DEF PlaceKinds
<1>5. CASE /\ place \in DOMAIN a \intersect DOMAIN b /\ a[place].type = b[place].type
           /\ a[place].type \notin {"object", "array"}
  <2> DEFINE one == Ask("body_value", place, path, At(a, place), At(b, place))
  <2>1. AsksAt(rs, a, b, place) \subseteq {one}
    BY <1>5 DEF AsksAt
  <2>2. one.at = place /\ one.path = path /\ one.kind = "body_value"
    BY DEF Ask
  <2> HIDE DEF one, path
  <2>3. x = one /\ \A y \in AsksAt(rs, a, b, place) : y = one
    BY <2>1
  <2> QED BY <2>2, <2>3 DEF PlaceKinds, path
<1> QED BY <1>1, <1>2, <1>3, <1>4, <1>5

IsBody(body) == body.json \in BOOLEAN /\ (body.json => IsTree(body.value))

\* Where the walk comes is a place of either value.
LEMMA ReachedPlaces ==
  ASSUME NEW rs, NEW a, NEW b, IsTree(a), IsTree(b), NEW p \in Reached(rs, a, b)
  PROVE  p \in DOMAIN a \union DOMAIN b /\ p \in Places
BY DEF Reached, KeysOf, IsTree, Places

\* What is asked of the bodies names a place, and an ask is told by its kind and
\* its path.
LEMMA BodyAskShape ==
  ASSUME NEW rs, NEW p, NEW s, IsBody(p), IsBody(s), NEW x \in BodyAsks(rs, p, s)
  PROVE  /\ x.at \in Places /\ x.path = Path(x.at) /\ x.kind \in PlaceKinds
         /\ p.json /\ s.json =>
              x.at \in Reached(rs, p.value, s.value) /\ x \in AsksAt(rs, p.value, s.value, x.at)
         /\ \A y \in BodyAsks(rs, p, s) : y.kind = x.kind /\ y.path = x.path => y = x
<1>1. CASE p.json /\ s.json
  <2> DEFINE a == p.value
             b == s.value
  <2>1. IsTree(a) /\ IsTree(b)
    BY <1>1 DEF IsBody
  <2>2. BodyAsks(rs, p, s) = UNION {AsksAt(rs, a, b, place) : place \in Reached(rs, a, b)}
    BY <1>1 DEF BodyAsks, WalkAsks
  <2> HIDE DEF a, b
  <2>3. ASSUME NEW y \in BodyAsks(rs, p, s)
        PROVE  /\ y.at \in Reached(rs, a, b) /\ y.at \in Places
               /\ y \in AsksAt(rs, a, b, y.at)
               /\ y.path = Path(y.at) /\ y.kind \in PlaceKinds
    <3>1. PICK place \in Reached(rs, a, b) : y \in AsksAt(rs, a, b, place)
      BY <2>2
    <3>2. y.at = place /\ y.path = Path(place) /\ y.kind \in PlaceKinds
      BY <3>1, AskAtPlace
    <3> QED BY <2>1, <3>1, <3>2, ReachedPlaces
  <2>4. ASSUME NEW y \in BodyAsks(rs, p, s), y.kind = x.kind, y.path = x.path
        PROVE  y = x
    <3>1. y.at = x.at
      BY <2>3, <2>4, PathTellsPlace
    <3>2. x \in AsksAt(rs, a, b, x.at) /\ y \in AsksAt(rs, a, b, x.at)
      BY <2>3, <3>1
    <3> QED BY <2>4, <3>2, AskAtPlace
  <2> QED BY <2>3, <2>4 DEF a, b
<1>2. CASE ~(p.json /\ s.json)
  <2> DEFINE shape == Ask("shape", <<>>, Path(<<>>), Jsonness(p), Jsonness(s))
             bytes == Ask("body_value", <<>>, Path(<<>>), Str(p.bytes), Str(s.bytes))
  <2>1. BodyAsks(rs, p, s) \subseteq {shape} \/ BodyAsks(rs, p, s) \subseteq {bytes}
    BY <1>2 DEF BodyAsks
  <2>2. /\ shape.at = <<>> /\ shape.path = Path(<<>>) /\ shape.kind = "shape"
        /\ bytes.at = <<>> /\ bytes.path = Path(<<>>) /\ bytes.kind = "body_value"
    BY DEF Ask
  <2> HIDE DEF shape, bytes
  <2>3. <<>> \in Places
    BY DEF Places
  <2> QED BY <1>2, <2>1, <2>2, <2>3 DEF PlaceKinds
<1> QED BY <1>1, <1>2

Shaped(x) ==
  \/ x.kind = "status" /\ x.path = <<"status">>
  \/ x.kind = "header" /\ \E name \in STRING : x.path = HeaderPath(name)
  \/ x.kind \in PlaceKinds /\ x.at \in Places /\ x.path = Path(x.at)

\* Of a response, what the comparison needs.
LEMMA ResponseShape ==
  ASSUME NEW r \in Responses
  PROVE  /\ DOMAIN r.headers \subseteq STRING /\ IsFiniteSet(DOMAIN r.headers)
         /\ IsBody(r.body)
BY ReportAssumption DEF IsBody

\* Every ask is of one of three forms, and is told by its kind and its path.
LEMMA AskShape ==
  ASSUME NEW rs, NEW p \in Responses, NEW s \in Responses, NEW x \in Asks(rs, p, s)
  PROVE  /\ Shaped(x)
         /\ \A y \in Asks(rs, p, s) : y.kind = x.kind /\ y.path = x.path => y = x
<1> DEFINE st == StatusAsks(p.status, s.status)
           he == HeaderAsks(p.headers, s.headers)
           bo == BodyAsks(rs, p.body, s.body)
<1>1. Asks(rs, p, s) = st \union he \union bo
  BY DEF Asks
<1>2. \A y \in st : y.kind = "status" /\ y.path = <<"status">>
  BY DEF StatusAsks, Ask
<1>3. \A y, z \in st : y = z
  BY DEF StatusAsks
<1>4. \A y \in he : \E name \in STRING :
        /\ y = Ask("header", <<name>>, HeaderPath(name),
                   Str(HeaderValue(p.headers, name)), Str(HeaderValue(s.headers, name)))
        /\ y.kind = "header" /\ y.path = HeaderPath(name)
  <2> TAKE y \in he
  <2>1. PICK name \in (DOMAIN p.headers \union DOMAIN s.headers) \ TransportHeaders :
          y = Ask("header", <<name>>, HeaderPath(name),
                  Str(HeaderValue(p.headers, name)), Str(HeaderValue(s.headers, name)))
    BY DEF HeaderAsks
  <2>2. name \in STRING
    BY ResponseShape
  <2>3. y.kind = "header" /\ y.path = HeaderPath(name)
    BY <2>1 DEF Ask
  <2> QED BY <2>1, <2>2, <2>3
<1>5. \A y, z \in he : y.path = z.path => y = z
  <2> SUFFICES ASSUME NEW y \in he, NEW z \in he, y.path = z.path PROVE y = z
    OBVIOUS
  <2>1. PICK n \in STRING :
          /\ y = Ask("header", <<n>>, HeaderPath(n),
                     Str(HeaderValue(p.headers, n)), Str(HeaderValue(s.headers, n)))
          /\ y.path = HeaderPath(n)
    BY <1>4
  <2>2. PICK m \in STRING :
          /\ z = Ask("header", <<m>>, HeaderPath(m),
                     Str(HeaderValue(p.headers, m)), Str(HeaderValue(s.headers, m)))
          /\ z.path = HeaderPath(m)
    BY <1>4
  <2>3. <<"headers", n>> = <<"headers", m>>
    BY <2>1, <2>2 DEF HeaderPath
  <2>4. n = m
    BY <2>3
  <2> QED BY <2>1, <2>2, <2>4
<1>6. \A y \in bo : /\ y.kind \in PlaceKinds /\ y.at \in Places /\ y.path = Path(y.at)
                    /\ \A z \in bo : z.kind = y.kind /\ z.path = y.path => z = y
  BY ResponseShape, BodyAskShape
<1> HIDE DEF st, he, bo
<1>7. \A y \in he : y.kind = "header" /\ \E name \in STRING : y.path = HeaderPath(name)
  BY <1>4
<1>8. Shaped(x)
  BY <1>1, <1>2, <1>6, <1>7 DEF Shaped
<1>9. ASSUME NEW y \in Asks(rs, p, s), y.kind = x.kind, y.path = x.path PROVE y = x
  <2>1. "status" \notin PlaceKinds /\ "header" \notin PlaceKinds
    BY DEF PlaceKinds
  <2> QED BY <1>1, <1>2, <1>3, <1>5, <1>6, <1>7, <1>9, <2>1
<1> QED BY <1>8, <1>9

\* A comparison asks finitely often.
LEMMA AsksFinite ==
  ASSUME NEW rs, NEW p \in Responses, NEW s \in Responses
  PROVE  IsFiniteSet(Asks(rs, p, s))
<1>1. IsFiniteSet(StatusAsks(p.status, s.status))
  BY FS_EmptySet, FS_Singleton DEF StatusAsks
<1>2. IsFiniteSet(HeaderAsks(p.headers, s.headers))
  <2> DEFINE names == {name \in (DOMAIN p.headers \union DOMAIN s.headers) \ TransportHeaders :
                         HeaderValue(p.headers, name) # HeaderValue(s.headers, name)}
             f == [name \in names |->
                     Ask("header", <<name>>, HeaderPath(name),
                         Str(HeaderValue(p.headers, name)), Str(HeaderValue(s.headers, name)))]
  <2>1. IsFiniteSet(DOMAIN p.headers \union DOMAIN s.headers)
    BY ResponseShape, FS_Union
  <2>2. names \in SUBSET (DOMAIN p.headers \union DOMAIN s.headers)
    OBVIOUS
  <2>3. IsFiniteSet(names)
    BY <2>1, <2>2, FS_Subset
  <2>4. HeaderAsks(p.headers, s.headers) = {f[name] : name \in names}
    BY DEF HeaderAsks
  <2> HIDE DEF names, f
  <2> QED BY <2>3, <2>4, ImageFinite
<1>3. IsFiniteSet(BodyAsks(rs, p.body, s.body))
  <2>1. CASE p.body.json /\ s.body.json
    <3> DEFINE a == p.body.value
               b == s.body.value
               f == [place \in Reached(rs, a, b) |-> AsksAt(rs, a, b, place)]
               all == {f[place] : place \in Reached(rs, a, b)}
    <3>1. IsFiniteSet(DOMAIN a) /\ IsFiniteSet(DOMAIN b)
      BY <2>1, ResponseShape DEF IsBody, IsTree
    <3>2. Reached(rs, a, b) \in SUBSET (DOMAIN a \union DOMAIN b)
      BY DEF Reached, KeysOf
    <3>3. IsFiniteSet(Reached(rs, a, b))
      BY <3>1, <3>2, FS_Union, FS_Subset
    <3>4. IsFiniteSet(all)
      BY <3>3, ImageFinite
    <3>5. ASSUME NEW place PROVE IsFiniteSet(AsksAt(rs, a, b, place))
      <4> DEFINE A == AsksAt(rs, a, b, place)
      <4>1. \A x, y \in A : x.kind \in PlaceKinds /\ (x.kind = y.kind => x = y)
        BY AskAtPlace
      <4> HIDE DEF A
      <4> DEFINE k == [x \in A |-> x.kind]
      <4>2. k \in Injection(A, PlaceKinds)
        BY <4>1 DEF Injection, IsInjective
      <4>3. IsFiniteSet(PlaceKinds)
        <5>1. IsFiniteSet({"array"} \union {"shape"})
          BY FS_Singleton, FS_Union
        <5>2. IsFiniteSet({"body_key"} \union {"body_value"})
          BY FS_Singleton, FS_Union
        <5>3. IsFiniteSet(({"array"} \union {"shape"}) \union ({"body_key"} \union {"body_value"}))
          BY <5>1, <5>2, FS_Union
        <5>4. PlaceKinds = ({"array"} \union {"shape"}) \union ({"body_key"} \union {"body_value"})
          BY DEF PlaceKinds
        <5> QED BY <5>3, <5>4
      <4>4. IsFiniteSet(A)
        BY <4>2, <4>3, FS_Injection
      <4> QED BY <4>4 DEF A
    <3>6. \A T \in all : IsFiniteSet(T)
      BY <3>5
    <3>7. IsFiniteSet(UNION all)
      BY <3>4, <3>6, FS_UNION
    <3>8. all = {AsksAt(rs, a, b, place) : place \in Reached(rs, a, b)}
      OBVIOUS
    <3> QED BY <2>1, <3>7, <3>8 DEF BodyAsks, WalkAsks
  <2>2. CASE ~(p.body.json /\ s.body.json)
    BY <2>2, FS_EmptySet, FS_Singleton DEF BodyAsks
  <2> QED BY <2>1, <2>2
<1>4. IsFiniteSet(StatusAsks(p.status, s.status) \union HeaderAsks(p.headers, s.headers))
  BY <1>1, <1>2, FS_Union
<1> QED BY <1>3, <1>4, FS_Union DEF Asks

-----------------------------------------------------------------------------
(* Which side is which                                                     *)

Mirror(x) == Ask(x.kind, x.at, x.path, x.shadow, x.primary)

\* What an exchange of the sides changes of an ask.
LEMMA MirrorOfAsk ==
  ASSUME NEW kind, NEW at, NEW path, NEW a, NEW b
  PROVE  /\ Mirror(Ask(kind, at, path, a, b)) = Ask(kind, at, path, b, a)
         /\ Mirror(Mirror(Ask(kind, at, path, a, b))) = Ask(kind, at, path, a, b)
         /\ \A rs : Hidden(rs, Ask(kind, at, path, a, b)) <=> Hidden(rs, Ask(kind, at, path, b, a))
         /\ \A rs : Hidden(rs, Ask(kind, at, path, a, b)) <=> Suppress(rs, path, a, b)
<1>1. /\ Ask(kind, at, path, a, b).path = path
      /\ Ask(kind, at, path, a, b).primary = a
      /\ Ask(kind, at, path, a, b).shadow = b
  BY DEF Ask
<1>2. /\ Ask(kind, at, path, b, a).path = path
      /\ Ask(kind, at, path, b, a).primary = b
      /\ Ask(kind, at, path, b, a).shadow = a
  BY DEF Ask
<1>3. Mirror(Ask(kind, at, path, a, b)) = Ask(kind, at, path, b, a)
  BY DEF Ask, Mirror
<1>4. Mirror(Ask(kind, at, path, b, a)) = Ask(kind, at, path, a, b)
  BY DEF Ask, Mirror
<1>5. \A rs : Suppress(rs, path, a, b) <=> Suppress(rs, path, b, a)
  BY SuppressEitherWay
<1> QED BY <1>1, <1>2, <1>3, <1>4, <1>5 DEF Hidden

\* The walk goes on below the same places.
LEMMA DescendsEitherWay ==
  ASSUME NEW rs, NEW a, NEW b, NEW p, Descends(rs, a, b, p)
  PROVE  Descends(rs, b, a, p)
<1>1. Suppress(rs, Path(p), At(a, p), At(b, p)) <=> Suppress(rs, Path(p), At(b, p), At(a, p))
  BY SuppressEitherWay
<1> QED BY <1>1 DEF Descends

\* And comes to the same places.
LEMMA ReachedEitherWay ==
  ASSUME NEW rs, NEW a, NEW b, IsTree(a), IsTree(b), NEW p \in Reached(rs, a, b)
  PROVE  p \in Reached(rs, b, a)
<1>1. p \in Places /\ Len(p) \in Nat
  BY ReachedPlaces, LenProperties DEF Places
<1>2. \A n \in 0 .. Len(p) - 1 : Descends(rs, b, a, SubSeq(p, 1, n))
  BY DescendsEitherWay DEF Reached
<1>3. p \in KeysOf(b, a)
  BY DEF Reached, KeysOf
<1>4. ASSUME p # <<>>, b[Front(p)].type = "array"
      PROVE  p \in DOMAIN b \intersect DOMAIN a
  <2>1. Len(p) # 0
    BY <1>1, <1>4, EmptySeq DEF Places
  <2>2. Len(p) - 1 \in 0 .. Len(p) - 1
    BY <1>1, <2>1
  <2>3. Descends(rs, a, b, Front(p))
    BY <2>2 DEF Reached, Front
  <2>4. a[Front(p)].type = "array"
    BY <1>4, <2>3 DEF Descends
  <2> QED BY <1>4, <2>4 DEF Reached
<1> QED BY <1>2, <1>3, <1>4 DEF Reached

\* What is asked at a place, the other way round.
LEMMA AsksAtEitherWay ==
  ASSUME NEW rs, NEW a, NEW b, NEW p, NEW x \in AsksAt(rs, a, b, p)
  PROVE  /\ Mirror(x) \in AsksAt(rs, b, a, p)
         /\ \E kind, at, path, u, w : x = Ask(kind, at, path, u, w)
<1>1. CASE p \notin DOMAIN a \intersect DOMAIN b
  <2>1. x = Ask("body_key", p, Path(p), At(a, p), At(b, p))
    BY <1>1 DEF AsksAt
  <2>2. Ask("body_key", p, Path(p), At(b, p), At(a, p)) \in AsksAt(rs, b, a, p)
    BY <1>1 DEF AsksAt
  <2> QED BY <2>1, <2>2, MirrorOfAsk
<1>2. CASE p \in DOMAIN a \intersect DOMAIN b /\ a[p].type # b[p].type
  <2>1. x = Ask("shape", p, Path(p), Str(a[p].type), Str(b[p].type))
    BY <1>2 DEF AsksAt
  <2>2. Ask("shape", p, Path(p), Str(b[p].type), Str(a[p].type)) \in AsksAt(rs, b, a, p)
    BY <1>2 DEF AsksAt
  <2> QED BY <2>1, <2>2, MirrorOfAsk
<1>3. CASE p \in DOMAIN a \intersect DOMAIN b /\ a[p].type = b[p].type /\ a[p].type = "object"
  BY <1>3 DEF AsksAt
<1>4. CASE p \in DOMAIN a \intersect DOMAIN b /\ a[p].type = b[p].type /\ a[p].type = "array"
  <2> DEFINE whole == Ask("array", p, Path(p), At(a, p), At(b, p))
             other == Ask("array", p, Path(p), At(b, p), At(a, p))
  <2>1. x \in AsksAtArray(rs, a, b, p)
    BY <1>4 DEF AsksAt
  <2>2. AsksAt(rs, b, a, p) = AsksAtArray(rs, b, a, p)
    BY <1>4 DEF AsksAt
  <2>3. Hidden(rs, whole) <=> Hidden(rs, other)
    BY MirrorOfAsk
  <2>4. x = whole \/ (~Hidden(rs, whole) /\ x \in Lengths(a, b, p))
    <3>1. CASE Hidden(rs, whole)
      <4>1. AsksAtArray(rs, a, b, p) = {whole} \union {}
        BY <3>1 DEF AsksAtArray
      <4> HIDE DEF whole
      <4> QED BY <2>1, <4>1
    <3>2. CASE ~Hidden(rs, whole)
      <4>1. AsksAtArray(rs, a, b, p) = {whole} \union Lengths(a, b, p)
        BY <3>2 DEF AsksAtArray
      <4> HIDE DEF whole
      <4> QED BY <2>1, <3>2, <4>1
    <3> QED BY <3>1, <3>2
  <2>5. other \in AsksAtArray(rs, b, a, p)
    BY DEF AsksAtArray
  <2>6. ~Hidden(rs, other) => Lengths(b, a, p) \subseteq AsksAtArray(rs, b, a, p)
    BY DEF AsksAtArray
  <2>7. Mirror(whole) = other
    BY MirrorOfAsk
  <2>8. CASE x = whole
    BY <2>2, <2>5, <2>7, <2>8
  <2>9. CASE ~Hidden(rs, whole) /\ x \in Lengths(a, b, p)
    <3>1. /\ x = Ask("shape", p, Path(p), Items(a[p].length), Items(b[p].length))
          /\ a[p].length # b[p].length
      BY <2>9 DEF Lengths
    <3>2. Ask("shape", p, Path(p), Items(b[p].length), Items(a[p].length)) \in Lengths(b, a, p)
      BY <3>1 DEF Lengths
    <3> HIDE DEF whole, other
    <3> QED BY <2>2, <2>3, <2>6, <2>9, <3>1, <3>2, MirrorOfAsk
  <2> QED BY <2>4, <2>8, <2>9
<1>5. CASE /\ p \in DOMAIN a \intersect DOMAIN b /\ a[p].type = b[p].type
           /\ a[p].type \notin {"object", "array"}
  <2>1. x = Ask("body_value", p, Path(p), At(a, p), At(b, p)) /\ ~ScalarEqual(a[p], b[p])
    BY <1>5 DEF AsksAt
  <2>2. ~ScalarEqual(b[p], a[p])
    BY <1>5, <2>1 DEF ScalarEqual
  <2>3. Ask("body_value", p, Path(p), At(b, p), At(a, p)) \in AsksAt(rs, b, a, p)
    BY <1>5, <2>2 DEF AsksAt
  <2> QED BY <2>1, <2>3, MirrorOfAsk
<1> QED BY <1>1, <1>2, <1>3, <1>4, <1>5

\* What is asked of two answers, the other way round.
LEMMA AsksEitherWay ==
  ASSUME NEW rs, NEW p \in Responses, NEW s \in Responses, NEW x \in Asks(rs, p, s)
  PROVE  /\ Mirror(x) \in Asks(rs, s, p)
         /\ \E kind, at, path, u, w : x = Ask(kind, at, path, u, w)
<1>1. CASE x \in StatusAsks(p.status, s.status)
  <2>1. /\ x = Ask("status", <<>>, <<"status">>, StatusNumber(p.status), StatusNumber(s.status))
        /\ p.status # s.status
    BY <1>1 DEF StatusAsks
  <2>2. Ask("status", <<>>, <<"status">>, StatusNumber(s.status), StatusNumber(p.status))
          \in StatusAsks(s.status, p.status)
    BY <2>1 DEF StatusAsks
  <2> QED BY <2>1, <2>2, MirrorOfAsk DEF Asks
<1>2. CASE x \in HeaderAsks(p.headers, s.headers)
  <2>1. PICK name \in (DOMAIN p.headers \union DOMAIN s.headers) \ TransportHeaders :
          /\ HeaderValue(p.headers, name) # HeaderValue(s.headers, name)
          /\ x = Ask("header", <<name>>, HeaderPath(name),
                     Str(HeaderValue(p.headers, name)), Str(HeaderValue(s.headers, name)))
    BY <1>2 DEF HeaderAsks
  <2>2. Ask("header", <<name>>, HeaderPath(name),
            Str(HeaderValue(s.headers, name)), Str(HeaderValue(p.headers, name)))
          \in HeaderAsks(s.headers, p.headers)
    BY <2>1 DEF HeaderAsks
  <2> QED BY <2>1, <2>2, MirrorOfAsk DEF Asks
<1>3. CASE x \in BodyAsks(rs, p.body, s.body)
  <2>0. IsBody(p.body) /\ IsBody(s.body)
    BY ResponseShape
  <2>1. CASE p.body.json /\ s.body.json
    <3> DEFINE a == p.body.value
               b == s.body.value
    <3>1. IsTree(a) /\ IsTree(b)
      BY <2>0, <2>1 DEF IsBody
    <3>2. PICK place \in Reached(rs, a, b) : x \in AsksAt(rs, a, b, place)
      BY <1>3, <2>1 DEF BodyAsks, WalkAsks
    <3>3. BodyAsks(rs, s.body, p.body)
            = UNION {AsksAt(rs, b, a, q) : q \in Reached(rs, b, a)}
      BY <2>1 DEF BodyAsks, WalkAsks
    <3> HIDE DEF a, b
    <3>4. place \in Reached(rs, b, a)
      BY <3>1, ReachedEitherWay
    <3>5. Mirror(x) \in AsksAt(rs, b, a, place)
      BY <3>2, AsksAtEitherWay
    <3>6. Mirror(x) \in BodyAsks(rs, s.body, p.body)
      BY <3>3, <3>4, <3>5
    <3>7. \E kind, at, path, u, w : x = Ask(kind, at, path, u, w)
      BY <3>2, AsksAtEitherWay
    <3> QED BY <3>6, <3>7 DEF Asks
  <2>2. CASE p.body.json # s.body.json
    <3>1. x = Ask("shape", <<>>, Path(<<>>), Jsonness(p.body), Jsonness(s.body))
      BY <1>3, <2>0, <2>2 DEF BodyAsks, IsBody
    <3>2. Ask("shape", <<>>, Path(<<>>), Jsonness(s.body), Jsonness(p.body))
            \in BodyAsks(rs, s.body, p.body)
      BY <2>0, <2>2 DEF BodyAsks, IsBody
    <3> QED BY <3>1, <3>2, MirrorOfAsk DEF Asks
  <2>3. CASE ~p.body.json /\ ~s.body.json
    <3>1. /\ x = Ask("body_value", <<>>, Path(<<>>), Str(p.body.bytes), Str(s.body.bytes))
          /\ p.body.bytes # s.body.bytes
      BY <1>3, <2>0, <2>3 DEF BodyAsks, IsBody
    <3>2. Ask("body_value", <<>>, Path(<<>>), Str(s.body.bytes), Str(p.body.bytes))
            \in BodyAsks(rs, s.body, p.body)
      BY <2>0, <2>3, <3>1 DEF BodyAsks, IsBody
    <3> QED BY <3>1, <3>2, MirrorOfAsk DEF Asks
  <2> QED BY <2>0, <2>1, <2>2, <2>3 DEF IsBody
<1> QED BY <1>1, <1>2, <1>3 DEF Asks

-----------------------------------------------------------------------------
(* Results                                                                 *)

HiddenAsks(rs, p, s) == {ask \in Asks(rs, p, s) : Hidden(rs, ask)}

\* A result: what is asked and not hidden, whole arrays apart, and how many are.
LEMMA ResultIs ==
  ASSUME NEW rs, NEW p \in Responses, NEW s \in Responses
  PROVE  /\ \A x : x \in Diff(rs, p, s).differences
                     <=> x \in Asks(rs, p, s) /\ ~Hidden(rs, x) /\ x.kind # "array"
         /\ IsFiniteSet(Diff(rs, p, s).differences)
         /\ IsFiniteSet(HiddenAsks(rs, p, s))
         /\ Diff(rs, p, s).suppressed = Cardinality(HiddenAsks(rs, p, s))
         /\ Diff(rs, p, s).suppressed \in Nat
         /\ (\E x \in Asks(rs, p, s) : Hidden(rs, x)) => Diff(rs, p, s).suppressed >= 1
<1> DEFINE A == Asks(rs, p, s)
           H == HiddenAsks(rs, p, s)
           D == Diff(rs, p, s).differences
<1>1. H = {ask \in A : Hidden(rs, ask)}
  BY DEF HiddenAsks
<1>2. D = {ask \in A \ H : ask.kind # "array"} /\ Diff(rs, p, s).suppressed = Cardinality(H)
  BY DEF Diff, Sink, HiddenAsks
<1>3. IsFiniteSet(A)
  BY AsksFinite
<1> HIDE DEF A, H, D
<1>4. D \in SUBSET A /\ H \in SUBSET A
  BY <1>1, <1>2
<1>5. IsFiniteSet(D) /\ IsFiniteSet(H)
  BY <1>3, <1>4, FS_Subset
<1>6. Cardinality(H) \in Nat
  BY <1>5, FS_CardinalityType
<1>7. (\E x \in A : Hidden(rs, x)) => Cardinality(H) >= 1
  <2> SUFFICES ASSUME NEW x \in A, Hidden(rs, x) PROVE Cardinality(H) >= 1
    OBVIOUS
  <2>1. H # {}
    BY <1>1
  <2>2. Cardinality(H) # 0
    BY <1>5, <2>1, FS_EmptySet
  <2> QED BY <1>6, <2>2
<1>8. \A x : x \in D <=> x \in A /\ ~Hidden(rs, x) /\ x.kind # "array"
  BY <1>1, <1>2
<1> QED BY <1>2, <1>5, <1>6, <1>7, <1>8 DEF A, H, D

\* A pair has a finding once.
LEMMA FindingsAreOnce ==
  ASSUME NEW rs, NEW p \in Responses, NEW s \in Responses
  PROVE  Findings(Diff(rs, p, s)) = [f \in {Finding(d) : d \in Diff(rs, p, s).differences} |-> 1]
<1> DEFINE D == Diff(rs, p, s).differences
<1>1. \A x, y \in D : Finding(x) = Finding(y) => x = y
  <2> SUFFICES ASSUME NEW x \in D, NEW y \in D, Finding(x) = Finding(y) PROVE x = y
    OBVIOUS
  <2>1. x \in Asks(rs, p, s) /\ y \in Asks(rs, p, s)
    BY ResultIs
  <2>2. y.kind = x.kind /\ y.path = x.path
    BY DEF Finding
  <2> QED BY <2>1, <2>2, AskShape
<1>2. Findings(Diff(rs, p, s))
        = [f \in {Finding(d) : d \in D} |-> Cardinality({d \in D : Finding(d) = f})]
  BY DEF Findings
<1> HIDE DEF D
<1>3. ASSUME NEW f \in {Finding(d) : d \in D}
      PROVE  Cardinality({d \in D : Finding(d) = f}) = 1
  <2>1. PICK x \in D : f = Finding(x)
    OBVIOUS
  <2>2. {d \in D : Finding(d) = f} = {x}
    BY <1>1, <2>1
  <2> QED BY <2>2, FS_Singleton
<1> QED BY <1>2, <1>3 DEF D

\* Exchanged, two answers have the same findings and suppressions.
LEMMA ExchangeIsNothing ==
  ASSUME NEW rs, NEW p \in Responses, NEW s \in Responses
  PROVE  /\ Findings(Diff(rs, s, p)) = Findings(Diff(rs, p, s))
         /\ Diff(rs, s, p).suppressed = Diff(rs, p, s).suppressed
<1>1. ASSUME NEW q \in Responses, NEW t \in Responses, NEW x \in Asks(rs, q, t)
      PROVE  /\ Mirror(x) \in Asks(rs, t, q) /\ Mirror(Mirror(x)) = x
             /\ Hidden(rs, Mirror(x)) <=> Hidden(rs, x)
             /\ Mirror(x).kind = x.kind /\ Finding(Mirror(x)) = Finding(x)
  <2>1. PICK kind, at, path, u, w : x = Ask(kind, at, path, u, w)
    BY AsksEitherWay
  <2>2. Mirror(x) = Ask(kind, at, path, w, u) /\ Mirror(Mirror(x)) = x
    BY <2>1, MirrorOfAsk
  <2>3. Hidden(rs, Mirror(x)) <=> Hidden(rs, x)
    BY <2>1, <2>2, MirrorOfAsk
  <2>4. Mirror(x).kind = x.kind /\ Mirror(x).path = x.path
    BY <2>1, <2>2 DEF Ask
  <2> QED BY <2>2, <2>3, <2>4, AsksEitherWay DEF Finding
<1>2. ASSUME NEW q \in Responses, NEW t \in Responses
      PROVE  {Finding(d) : d \in Diff(rs, q, t).differences}
               \subseteq {Finding(d) : d \in Diff(rs, t, q).differences}
  <2> SUFFICES ASSUME NEW d \in Diff(rs, q, t).differences
               PROVE  \E e \in Diff(rs, t, q).differences : Finding(e) = Finding(d)
    OBVIOUS
  <2>1. d \in Asks(rs, q, t) /\ ~Hidden(rs, d) /\ d.kind # "array"
    BY <1>2, ResultIs
  <2>2. Mirror(d) \in Diff(rs, t, q).differences
    BY <1>1, <1>2, <2>1, ResultIs
  <2> QED BY <1>1, <1>2, <2>1, <2>2
<1>3. {Finding(d) : d \in Diff(rs, s, p).differences}
        = {Finding(d) : d \in Diff(rs, p, s).differences}
  BY <1>2
<1>4. Findings(Diff(rs, s, p)) = Findings(Diff(rs, p, s))
  <2> DEFINE F == {Finding(d) : d \in Diff(rs, p, s).differences}
             G == {Finding(d) : d \in Diff(rs, s, p).differences}
  <2>1. F = G
    BY <1>3
  <2>2. Findings(Diff(rs, p, s)) = [f \in F |-> 1] /\ Findings(Diff(rs, s, p)) = [f \in G |-> 1]
    BY FindingsAreOnce
  <2> HIDE DEF F, G
  <2> QED BY <2>1, <2>2
<1>5. Cardinality(HiddenAsks(rs, s, p)) = Cardinality(HiddenAsks(rs, p, s))
  <2> DEFINE H == HiddenAsks(rs, p, s)
             I == HiddenAsks(rs, s, p)
             f == [x \in H |-> Mirror(x)]
  <2>1. \A x \in H : Mirror(x) \in I /\ Mirror(Mirror(x)) = x
    BY <1>1 DEF HiddenAsks
  <2>2. \A x \in I : Mirror(x) \in H /\ Mirror(Mirror(x)) = x
    BY <1>1 DEF HiddenAsks
  <2>3. IsFiniteSet(H)
    BY ResultIs
  <2> HIDE DEF H, I
  <2>4. f \in [H -> I] /\ \A x \in H : f[x] = Mirror(x)
    BY <2>1
  <2>5. f \in Injection(H, I)
    <3>1. \A x, y \in H : f[x] = f[y] => x = y
      BY <2>1, <2>4
    <3>2. DOMAIN f = H
      OBVIOUS
    <3> QED BY <2>4, <3>1, <3>2 DEF Injection, IsInjective
  <2>6. f \in Surjection(H, I)
    <3>1. \A t \in I : \E x \in H : f[x] = t
      BY <2>2, <2>4
    <3> QED BY <2>4, <3>1 DEF Surjection
  <2>7. ExistsBijection(H, I)
    BY <2>5, <2>6 DEF ExistsBijection, Bijection
  <2> QED BY <2>3, <2>7, FS_Bijection DEF H, I
<1> QED BY <1>4, <1>5, ResultIs

-----------------------------------------------------------------------------
(* Agreement                                                               *)

\* Two nodes have one leaf if they are equal, or numbers of one float64.
LEMMA LeafEqual ==
  ASSUME NEW x, NEW y
  PROVE  Leaf(x) = Leaf(y)
           <=> /\ x.type = y.type
               /\ IF x.type = "number" THEN Double(x.value) = Double(y.value) ELSE x = y
<1> DEFINE num(v) == [type |-> "number", double |-> v]
<1>1. \A v, w : num(v).type = "number" /\ (num(v) = num(w) <=> v = w)
  OBVIOUS
<1>2. CASE x.type = "number" /\ y.type = "number"
  <2>1. Leaf(x) = num(Double(x.value)) /\ Leaf(y) = num(Double(y.value))
    BY <1>2 DEF Leaf
  <2> HIDE DEF num
  <2> QED BY <1>1, <1>2, <2>1
<1>3. CASE x.type = "number" /\ y.type # "number"
  <2>1. Leaf(x) = num(Double(x.value)) /\ Leaf(y) = y
    BY <1>3 DEF Leaf
  <2> HIDE DEF num
  <2> QED BY <1>1, <1>3, <2>1
<1>4. CASE x.type # "number" /\ y.type = "number"
  <2>1. Leaf(x) = x /\ Leaf(y) = num(Double(y.value))
    BY <1>4 DEF Leaf
  <2> HIDE DEF num
  <2> QED BY <1>1, <1>4, <2>1
<1>5. CASE x.type # "number" /\ y.type # "number"
  BY <1>5 DEF Leaf
<1> QED BY <1>2, <1>3, <1>4, <1>5

\* Below places where both values go on, the walk comes to all, or to an array
\* that a rule hides whole.
LEMMA HiddenAbove ==
  ASSUME NEW rs, NEW a, NEW b, NEW p \in Places,
         \A n \in 0 .. Len(p) - 1 :
           LET q == SubSeq(p, 1, n)
           IN  /\ q \in DOMAIN a \intersect DOMAIN b
               /\ a[q].type = b[q].type /\ a[q].type \in {"object", "array"}
  PROVE  \/ \A n \in 0 .. Len(p) - 1 : Descends(rs, a, b, SubSeq(p, 1, n))
         \/ \E n \in 0 .. Len(p) - 1 :
              LET q == SubSeq(p, 1, n)
              IN  /\ q \in DOMAIN a \intersect DOMAIN b
                  /\ q \in Reached(rs, a, b)
                  /\ a[q].type = "array" /\ b[q].type = "array"
                  /\ Suppress(rs, Path(q), At(a, q), At(b, q))
<1> DEFINE N == {n \in 0 .. Len(p) - 1 : ~Descends(rs, a, b, SubSeq(p, 1, n))}
<1>0. Len(p) \in Nat
  BY LenProperties DEF Places
<1>1. CASE N = {}
  BY <1>1
<1>2. CASE N # {}
  <2>1. N \subseteq Nat
    BY <1>0
  <2>2. PICK n \in N : \A m \in N : n <= m
    BY <1>2, <2>1, Least
  <2>3. n \in 0 .. Len(p) - 1 /\ ~Descends(rs, a, b, SubSeq(p, 1, n))
    OBVIOUS
  <2>4. \A m \in 0 .. n - 1 : Descends(rs, a, b, SubSeq(p, 1, m))
    <3> TAKE m \in 0 .. n - 1
    <3>1. m \in 0 .. Len(p) - 1 /\ ~(n <= m)
      BY <1>0, <2>3
    <3>2. m \notin N
      BY <2>2, <3>1
    <3> QED BY <3>1, <3>2
  <2> HIDE DEF N
  <2> DEFINE q == SubSeq(p, 1, n)
  <2>5. /\ q \in DOMAIN a \intersect DOMAIN b
        /\ a[q].type = b[q].type /\ a[q].type \in {"object", "array"}
    BY <2>3
  <2>6. a[q].type = "array" /\ Suppress(rs, Path(q), At(a, q), At(b, q))
    BY <2>3, <2>5 DEF Descends
  <2>7. Len(q) = n /\ \A m \in 0 .. n : SubSeq(q, 1, m) = SubSeq(p, 1, m)
    <3>1. n \in 0 .. Len(p)
      BY <1>0, <2>3
    <3> QED BY <3>1, Prefix
  <2>8. q \in Reached(rs, a, b)
    <3>1. q \in KeysOf(a, b)
      BY <2>5 DEF KeysOf
    <3> HIDE DEF q
    <3>2. \A m \in 0 .. Len(q) - 1 : Descends(rs, a, b, SubSeq(q, 1, m))
      <4> TAKE m \in 0 .. Len(q) - 1
      <4>1. m \in 0 .. n - 1 /\ m \in 0 .. n
        BY <2>3, <2>7
      <4> QED BY <2>4, <2>7, <4>1
    <3> QED BY <2>5, <3>1, <3>2 DEF Reached
  <2> QED BY <2>3, <2>5, <2>6, <2>8
<1> QED BY <1>1, <1>2

\* Values whose leaves differ: there is something to report, or it is hidden.
LEMMA DifferenceIsAsked ==
  ASSUME NEW rs, NEW a, NEW b, IsTree(a), IsTree(b), Leaves(a) # Leaves(b)
  PROVE  \E x \in WalkAsks(rs, a, b) : Hidden(rs, x) \/ x.kind # "array"
<1> DEFINE Agree(p) == p \in DOMAIN a \intersect DOMAIN b /\ Leaf(a[p]) = Leaf(b[p])
           Apart == {p \in DOMAIN a \union DOMAIN b : ~Agree(p)}
           lengths == {Len(p) : p \in Apart}
<1>1. Apart # {}
  <2> SUFFICES ASSUME Apart = {} PROVE FALSE
    OBVIOUS
  <2>1. DOMAIN a = DOMAIN b /\ \A p \in DOMAIN a : Leaf(a[p]) = Leaf(b[p])
    OBVIOUS
  <2> QED BY <2>1 DEF Leaves
<1>2. \A p \in Apart : p \in Places /\ Len(p) \in Nat
  BY LenProperties DEF IsTree, Places
<1>3. lengths \subseteq Nat /\ lengths # {}
  BY <1>1, <1>2
<1>4. PICK least \in lengths : \A k \in lengths : least <= k
  BY <1>3, Least
<1>5. PICK p \in Apart : least = Len(p)
  BY <1>4
<1>6. \A q \in Apart : Len(p) <= Len(q)
  BY <1>4, <1>5
<1>7. ASSUME NEW n \in 0 .. Len(p) - 1
      PROVE  LET q == SubSeq(p, 1, n)
             IN  /\ q \in DOMAIN a \intersect DOMAIN b
                 /\ a[q].type = b[q].type /\ a[q].type \in {"object", "array"}
                 /\ Leaf(a[q]) = Leaf(b[q])
  <2> DEFINE q == SubSeq(p, 1, n)
  <2>1. n \in 0 .. Len(p) /\ n < Len(p)
    BY <1>2
  <2>2. Len(q) = n
    BY <1>2, <2>1, Prefix
  <2>3. \/ q \in DOMAIN a /\ a[q].type \in {"object", "array"}
        \/ q \in DOMAIN b /\ b[q].type \in {"object", "array"}
    BY <2>1, Ancestors
  <2>4. q \notin Apart
    <3> SUFFICES ASSUME q \in Apart PROVE FALSE
      OBVIOUS
    <3> HIDE DEF q, Apart
    <3>1. Len(p) <= Len(q) /\ Len(p) \in Nat
      BY <1>2, <1>6
    <3> QED BY <2>1, <2>2, <3>1
  <2>5. Agree(q)
    BY <2>3, <2>4
  <2>6. a[q].type = b[q].type
    BY <2>5, LeafEqual
  <2> QED BY <2>3, <2>5, <2>6
<1>8. p \in Places /\ p \in DOMAIN a \union DOMAIN b /\ ~Agree(p)
  BY <1>2
<1>9. CASE \A n \in 0 .. Len(p) - 1 : Descends(rs, a, b, SubSeq(p, 1, n))
  <2>1. p \in Reached(rs, a, b)
    <3>1. ASSUME p # <<>>, a[Front(p)].type = "array" PROVE p \in DOMAIN a \intersect DOMAIN b
      <4>1. Len(p) - 1 \in 0 .. Len(p) - 1
        BY <1>2, <1>8, <3>1, EmptySeq DEF Places
      <4>2. /\ Front(p) \in DOMAIN a \intersect DOMAIN b
            /\ a[Front(p)].type = b[Front(p)].type
            /\ Leaf(a[Front(p)]) = Leaf(b[Front(p)])
        BY <1>7, <4>1 DEF Front
      <4>3. a[Front(p)] = b[Front(p)]
        BY <3>1, <4>2, LeafEqual
      <4> QED BY <1>8, <3>1, <4>2, <4>3, SameElements
    <3> QED BY <1>8, <1>9, <3>1 DEF Reached, KeysOf
  <2>2. AsksAt(rs, a, b, p) \subseteq WalkAsks(rs, a, b)
    BY <2>1 DEF WalkAsks
  <2>3. CASE p \notin DOMAIN a \intersect DOMAIN b
    <3>1. Ask("body_key", p, Path(p), At(a, p), At(b, p)) \in AsksAt(rs, a, b, p)
      BY <2>3 DEF AsksAt
    <3>2. Ask("body_key", p, Path(p), At(a, p), At(b, p)).kind = "body_key"
      BY DEF Ask
    <3> QED BY <2>2, <3>1, <3>2
  <2>4. CASE p \in DOMAIN a \intersect DOMAIN b /\ a[p].type # b[p].type
    <3>1. Ask("shape", p, Path(p), Str(a[p].type), Str(b[p].type)) \in AsksAt(rs, a, b, p)
      BY <2>4 DEF AsksAt
    <3>2. Ask("shape", p, Path(p), Str(a[p].type), Str(b[p].type)).kind = "shape"
      BY DEF Ask
    <3> QED BY <2>2, <3>1, <3>2
  <2>5. CASE /\ p \in DOMAIN a \intersect DOMAIN b /\ a[p].type = b[p].type
             /\ a[p].type = "object"
    <3>1. a[p] = [type |-> "object"] /\ b[p] = [type |-> "object"]
      BY <2>5 DEF IsTree
    <3> QED BY <1>8, <2>5, <3>1
  <2>6. CASE /\ p \in DOMAIN a \intersect DOMAIN b /\ a[p].type = b[p].type
             /\ a[p].type = "array"
    <3> DEFINE whole == Ask("array", p, Path(p), At(a, p), At(b, p))
               lens == Ask("shape", p, Path(p), Items(a[p].length), Items(b[p].length))
    <3>1. a[p].length # b[p].length
      <4>1. /\ a[p] = [type |-> "array", length |-> a[p].length]
            /\ b[p] = [type |-> "array", length |-> b[p].length]
        BY <2>6 DEF IsTree
      <4>2. a[p] # b[p]
        BY <1>8, <2>6
      <4> QED BY <4>1, <4>2
    <3>2. AsksAt(rs, a, b, p) = AsksAtArray(rs, a, b, p)
      BY <2>6 DEF AsksAt
    <3>3. whole \in AsksAtArray(rs, a, b, p)
      BY DEF AsksAtArray
    <3>4. ~Hidden(rs, whole) => lens \in AsksAtArray(rs, a, b, p)
      BY <3>1 DEF AsksAtArray, Lengths
    <3>5. lens.kind = "shape"
      BY DEF Ask
    <3> HIDE DEF whole, lens
    <3> QED BY <2>2, <3>2, <3>3, <3>4, <3>5
  <2>7. CASE /\ p \in DOMAIN a \intersect DOMAIN b /\ a[p].type = b[p].type
             /\ a[p].type \notin {"object", "array"}
    <3>1. ~ScalarEqual(a[p], b[p])
      BY <1>8, <2>7, LeafEqual DEF ScalarEqual
    <3>2. Ask("body_value", p, Path(p), At(a, p), At(b, p)) \in AsksAt(rs, a, b, p)
      BY <2>7, <3>1 DEF AsksAt
    <3>3. Ask("body_value", p, Path(p), At(a, p), At(b, p)).kind = "body_value"
      BY DEF Ask
    <3> QED BY <2>2, <3>2, <3>3
  <2> QED BY <2>3, <2>4, <2>5, <2>6, <2>7
<1>10. ASSUME NEW n \in 0 .. Len(p) - 1,
              LET q == SubSeq(p, 1, n)
              IN  /\ q \in DOMAIN a \intersect DOMAIN b
                  /\ q \in Reached(rs, a, b)
                  /\ a[q].type = "array" /\ b[q].type = "array"
                  /\ Suppress(rs, Path(q), At(a, q), At(b, q))
       PROVE  \E x \in WalkAsks(rs, a, b) : Hidden(rs, x)
  <2> DEFINE q == SubSeq(p, 1, n)
             whole == Ask("array", q, Path(q), At(a, q), At(b, q))
  <2>1. whole \in AsksAt(rs, a, b, q)
    BY <1>10 DEF AsksAt, AsksAtArray
  <2>2. Hidden(rs, whole)
    BY <1>10, MirrorOfAsk
  <2>3. whole \in WalkAsks(rs, a, b)
    BY <1>10, <2>1 DEF WalkAsks
  <2> QED BY <2>2, <2>3
<1>11. \/ \A n \in 0 .. Len(p) - 1 : Descends(rs, a, b, SubSeq(p, 1, n))
       \/ \E n \in 0 .. Len(p) - 1 :
            LET q == SubSeq(p, 1, n)
            IN  /\ q \in DOMAIN a \intersect DOMAIN b
                /\ q \in Reached(rs, a, b)
                /\ a[q].type = "array" /\ b[q].type = "array"
                /\ Suppress(rs, Path(q), At(a, q), At(b, q))
  BY <1>7, <1>8, HiddenAbove
<1> QED BY <1>9, <1>10, <1>11

\* Headers that say the same: no header's value differs, absent and empty being
\* alike.
LEMMA HeadersAgree ==
  ASSUME NEW p, NEW s
  PROVE  (Headers(p) = Headers(s) /\ \A name \in Headers(p) : p[name] = s[name])
           <=> \A name \in (DOMAIN p \union DOMAIN s) \ TransportHeaders :
                 HeaderValue(p, name) = HeaderValue(s, name)
<1>1. ASSUME NEW q, NEW name
      PROVE  /\ name \in Headers(q) => HeaderValue(q, name) = q[name] /\ HeaderValue(q, name) # ""
             /\ name \notin TransportHeaders =>
                  (name \in Headers(q) <=> HeaderValue(q, name) # "")
             /\ name \in Headers(q) => name \in DOMAIN q \ TransportHeaders
  BY DEF Headers, HeaderValue
<1>2. ASSUME Headers(p) = Headers(s), \A name \in Headers(p) : p[name] = s[name],
             NEW name \in (DOMAIN p \union DOMAIN s) \ TransportHeaders
      PROVE  HeaderValue(p, name) = HeaderValue(s, name)
  BY <1>1, <1>2
<1>3. ASSUME \A name \in (DOMAIN p \union DOMAIN s) \ TransportHeaders :
               HeaderValue(p, name) = HeaderValue(s, name)
      PROVE  Headers(p) = Headers(s) /\ \A name \in Headers(p) : p[name] = s[name]
  <2>1. \A name : name \in Headers(p) <=> name \in Headers(s)
    BY <1>1, <1>3
  <2>2. \A name \in Headers(p) : p[name] = s[name]
    BY <1>1, <1>3, <2>1
  <2> QED BY <2>1, <2>2
<1> QED BY <1>2, <1>3

\* Leaves that are equal: nothing is asked but of whole arrays.
LEMMA NothingToReport ==
  ASSUME NEW rs, NEW a, NEW b, IsTree(a), IsTree(b), Leaves(a) = Leaves(b),
         NEW x \in WalkAsks(rs, a, b)
  PROVE  x.kind = "array"
<1>1. PICK p \in Reached(rs, a, b) : x \in AsksAt(rs, a, b, p)
  BY DEF WalkAsks
<1>2. DOMAIN a = DOMAIN b
  <2>1. DOMAIN Leaves(a) = DOMAIN a /\ DOMAIN Leaves(b) = DOMAIN b
    BY DEF Leaves
  <2> QED BY <2>1
<1>3. p \in DOMAIN a \intersect DOMAIN b
  BY <1>1, <1>2, ReachedPlaces
<1>4. Leaf(a[p]) = Leaf(b[p])
  <2>1. Leaves(a)[p] = Leaf(a[p]) /\ Leaves(b)[p] = Leaf(b[p])
    BY <1>3 DEF Leaves
  <2> QED BY <2>1
<1>5. /\ a[p].type = b[p].type
      /\ IF a[p].type = "number" THEN Double(a[p].value) = Double(b[p].value) ELSE a[p] = b[p]
  BY <1>4, LeafEqual
<1>6. CASE a[p].type = "object"
  BY <1>1, <1>3, <1>5, <1>6 DEF AsksAt
<1>7. CASE a[p].type = "array"
  <2> DEFINE whole == Ask("array", p, Path(p), At(a, p), At(b, p))
  <2>1. AsksAt(rs, a, b, p) = AsksAtArray(rs, a, b, p)
    BY <1>3, <1>5, <1>7 DEF AsksAt
  <2>2. Lengths(a, b, p) = {}
    BY <1>5, <1>7 DEF Lengths
  <2>3. AsksAtArray(rs, a, b, p) \subseteq {whole}
    BY <2>2 DEF AsksAtArray
  <2>4. whole.kind = "array"
    BY DEF Ask
  <2> HIDE DEF whole
  <2> QED BY <1>1, <2>1, <2>3, <2>4
<1>8. CASE a[p].type \notin {"object", "array"}
  <2>1. ScalarEqual(a[p], b[p])
    BY <1>5 DEF ScalarEqual
  <2>2. AsksAt(rs, a, b, p) = {}
    BY <1>3, <1>5, <1>8, <2>1 DEF AsksAt
  <2> QED BY <1>1, <2>2
<1> QED BY <1>6, <1>7, <1>8

\* Two answers that say the same are identical; two that do not and are taken
\* for identical show in what is suppressed.
LEMMA AgreementOfPair ==
  ASSUME NEW rs, NEW p \in Responses, NEW s \in Responses
  PROVE  /\ SaysTheSame(p, s) => Identical(Diff(rs, p, s))
         /\ ~SaysTheSame(p, s) /\ Identical(Diff(rs, p, s)) => Diff(rs, p, s).suppressed >= 1
<1> DEFINE A == Asks(rs, p, s)
<1>0. IsBody(p.body) /\ IsBody(s.body)
  BY ResponseShape
<1>1. ASSUME SaysTheSame(p, s) PROVE Identical(Diff(rs, p, s))
  <2>1. StatusAsks(p.status, s.status) = {}
    BY <1>1 DEF SaysTheSame, StatusAsks
  <2>2. HeaderAsks(p.headers, s.headers) = {}
    <3>1. \A name \in (DOMAIN p.headers \union DOMAIN s.headers) \ TransportHeaders :
            HeaderValue(p.headers, name) = HeaderValue(s.headers, name)
      BY <1>1, HeadersAgree DEF SaysTheSame
    <3> QED BY <3>1 DEF HeaderAsks
  <2>3. \A x \in BodyAsks(rs, p.body, s.body) : x.kind = "array"
    <3>1. CASE p.body.json
      <4>1. s.body.json /\ Leaves(p.body.value) = Leaves(s.body.value)
        BY <1>1, <3>1 DEF SaysTheSame
      <4>2. BodyAsks(rs, p.body, s.body) = WalkAsks(rs, p.body.value, s.body.value)
        BY <3>1, <4>1 DEF BodyAsks
      <4> QED BY <1>0, <3>1, <4>1, <4>2, NothingToReport DEF IsBody
    <3>2. CASE ~p.body.json
      <4>1. ~s.body.json /\ p.body.json = s.body.json /\ p.body.bytes = s.body.bytes
        BY <1>1, <3>2 DEF SaysTheSame
      <4> QED BY <3>2, <4>1 DEF BodyAsks
    <3> QED BY <3>1, <3>2
  <2>4. \A x \in A : x.kind = "array"
    BY <2>1, <2>2, <2>3 DEF Asks
  <2> QED BY <2>4, ResultIs DEF Identical
<1>2. ASSUME ~SaysTheSame(p, s)
      PROVE  \E x \in A : Hidden(rs, x) \/ x.kind # "array"
  <2>1. CASE p.status # s.status
    <3> DEFINE x == Ask("status", <<>>, <<"status">>, StatusNumber(p.status), StatusNumber(s.status))
    <3>1. x \in A
      BY <2>1 DEF Asks, StatusAsks
    <3>2. x.kind = "status"
      BY DEF Ask
    <3> QED BY <3>1, <3>2
  <2>2. CASE ~(Headers(p.headers) = Headers(s.headers)
                 /\ \A name \in Headers(p.headers) : p.headers[name] = s.headers[name])
    <3>1. PICK name \in (DOMAIN p.headers \union DOMAIN s.headers) \ TransportHeaders :
            HeaderValue(p.headers, name) # HeaderValue(s.headers, name)
      BY <2>2, HeadersAgree
    <3> DEFINE x == Ask("header", <<name>>, HeaderPath(name),
                        Str(HeaderValue(p.headers, name)), Str(HeaderValue(s.headers, name)))
    <3>2. x \in HeaderAsks(p.headers, s.headers)
      BY <3>1 DEF HeaderAsks
    <3>3. x \in A
      BY <3>2 DEF Asks
    <3>4. x.kind = "header"
      BY DEF Ask
    <3> QED BY <3>3, <3>4
  <2>3. CASE p.body.json # s.body.json
    <3> DEFINE x == Ask("shape", <<>>, Path(<<>>), Jsonness(p.body), Jsonness(s.body))
    <3>1. x \in BodyAsks(rs, p.body, s.body)
      BY <1>0, <2>3 DEF BodyAsks, IsBody
    <3>2. x \in A
      BY <3>1 DEF Asks
    <3>3. x.kind = "shape"
      BY DEF Ask
    <3> QED BY <3>2, <3>3
  <2>4. CASE p.body.json /\ s.body.json /\ Leaves(p.body.value) # Leaves(s.body.value)
    <3>1. BodyAsks(rs, p.body, s.body) = WalkAsks(rs, p.body.value, s.body.value)
      BY <2>4 DEF BodyAsks
    <3>2. \E x \in BodyAsks(rs, p.body, s.body) : Hidden(rs, x) \/ x.kind # "array"
      BY <1>0, <2>4, <3>1, DifferenceIsAsked DEF IsBody
    <3> QED BY <3>2 DEF Asks
  <2>5. CASE ~p.body.json /\ ~s.body.json /\ p.body.bytes # s.body.bytes
    <3> DEFINE x == Ask("body_value", <<>>, Path(<<>>), Str(p.body.bytes), Str(s.body.bytes))
    <3>1. x \in BodyAsks(rs, p.body, s.body)
      BY <1>0, <2>5 DEF BodyAsks, IsBody
    <3>2. x \in A
      BY <3>1 DEF Asks
    <3>3. x.kind = "body_value"
      BY DEF Ask
    <3> QED BY <3>2, <3>3
  <2> QED BY <1>0, <1>2, <2>1, <2>2, <2>3, <2>4, <2>5 DEF SaysTheSame, IsBody
<1>3. ASSUME ~SaysTheSame(p, s), Identical(Diff(rs, p, s))
      PROVE  Diff(rs, p, s).suppressed >= 1
  <2>1. PICK x \in A : Hidden(rs, x) \/ x.kind # "array"
    BY <1>2, <1>3
  <2>2. x \notin Diff(rs, p, s).differences
    BY <1>3 DEF Identical
  <2>3. Hidden(rs, x)
    BY <2>1, <2>2, ResultIs
  <2> QED BY <2>3, ResultIs
<1> QED BY <1>1, <1>3

-----------------------------------------------------------------------------
(* Hiding                                                                  *)

\* What the namespace's paths speak of.
LEMMA ValueAtPath ==
  ASSUME NEW r
  PROVE  /\ ValueAt(r, <<"status">>) = StatusNumber(r.status)
         /\ \A name \in STRING :
              ValueAt(r, HeaderPath(name)) = Str(HeaderValue(r.headers, name))
         /\ \A place \in Places :
              ValueAt(r, Path(place)) =
                IF r.body.json THEN At(r.body.value, place) ELSE Str(r.body.bytes)
<1>1. ValueAt(r, <<"status">>) = StatusNumber(r.status)
  <2>1. <<"status">>[1] = "status"
    OBVIOUS
  <2> QED BY <2>1 DEF ValueAt
<1>2. ASSUME NEW name \in STRING
      PROVE  ValueAt(r, HeaderPath(name)) = Str(HeaderValue(r.headers, name))
  <2>1. HeaderPath(name)[1] = "headers" /\ Last(HeaderPath(name)) = name
    BY DEF HeaderPath, Last
  <2> QED BY <2>1 DEF ValueAt
<1>3. ASSUME NEW place \in Places
      PROVE  ValueAt(r, Path(place)) =
               IF r.body.json THEN At(r.body.value, place) ELSE Str(r.body.bytes)
  <2>1. Path(place)[1] = "body" /\ Tail(Path(place)) = place
    BY PathProperties
  <2> QED BY <2>1 DEF ValueAt
<1> QED BY <1>1, <1>2, <1>3

\* Of two of the engine's own words, no normalisation but "len" is right.
LEMMA OwnWordsApart ==
  ASSUME NEW u, NEW w, u # w, OwnWord(Str(u)), OwnWord(Str(w)),
         NEW normalise, Equal(normalise, Str(u), Str(w))
  PROVE  normalise.kind = "len"
<1>1. \A t : Top(Str(t)).type = "string" /\ Top(Str(t)).text = t
  <2> TAKE t
  <2>1. Top(Str(t)) = [type |-> "string", text |-> t]
    BY DEF Top, Str, Lone
  <2> QED BY <2>1
<1>2. \A t \in {u, w} : t \notin DOMAIN Trims /\ t \notin DOMAIN Folds /\ t \notin DOMAIN Parses
  BY <1>1 DEF OwnWord
<1>3. CASE normalise.kind = "round"
  <2>1. ReadsAs(Str(u)) = {}
    <3>1. ReadsAs(Str(u)) = {Double(Parses[t]) : t \in {u} \intersect DOMAIN Parses}
      BY <1>1 DEF ReadsAs
    <3>2. {u} \intersect DOMAIN Parses = {}
      BY <1>2
    <3> QED BY <3>1, <3>2
  <2>2. EqualRounded(normalise.places, Str(u), Str(w))
    BY <1>3 DEF Equal
  <2> QED BY <2>1, <2>2 DEF EqualRounded
<1>4. CASE normalise.kind = "sort"
  <2>1. EqualSorted(Str(u), Str(w))
    BY <1>4 DEF Equal
  <2> QED BY <1>1, <2>1 DEF EqualSorted
<1>5. CASE normalise.kind = "trim"
  <2>1. Become(Trims, u) = Become(Trims, w)
    BY <1>1, <1>5 DEF Equal, EqualTexts
  <2> QED BY <1>2, <2>1 DEF Become
<1>6. CASE normalise.kind = "lower"
  <2>1. Become(Folds, u) = Become(Folds, w)
    BY <1>1, <1>6 DEF Equal, EqualTexts
  <2> QED BY <1>2, <2>1 DEF Become
<1> QED BY <1>3, <1>4, <1>5, <1>6 DEF Equal

\* Under no rules the walk comes everywhere it comes under some.
LEMMA RulesReachLess ==
  ASSUME NEW rs, NEW a, NEW b, NEW p \in Reached(rs, a, b)
  PROVE  p \in Reached(<<>>, a, b)
<1>1. \A q : Descends(rs, a, b, q) => Descends(<<>>, a, b, q)
  BY NoRules DEF Descends
<1> QED BY <1>1 DEF Reached

\* What the rules change of a place's asks: the lengths of an array they hide.
LEMMA RulesAtPlace ==
  ASSUME NEW rs, NEW a, NEW b, NEW p
  PROVE  /\ \A x \in AsksAt(rs, a, b, p) : x.kind # "array" => x \in AsksAt(<<>>, a, b, p)
         /\ \A x \in AsksAt(<<>>, a, b, p) :
              \/ x \in AsksAt(rs, a, b, p)
              \/ /\ p \in DOMAIN a \intersect DOMAIN b
                 /\ a[p].type = "array" /\ b[p].type = "array"
                 /\ Suppress(rs, Path(p), At(a, p), At(b, p))
<1>1. CASE /\ p \in DOMAIN a \intersect DOMAIN b
           /\ a[p].type = b[p].type /\ a[p].type = "array"
  <2> DEFINE whole == Ask("array", p, Path(p), At(a, p), At(b, p))
  <2>1. /\ AsksAt(rs, a, b, p) = AsksAtArray(rs, a, b, p)
        /\ AsksAt(<<>>, a, b, p) = AsksAtArray(<<>>, a, b, p)
    BY <1>1 DEF AsksAt
  <2>2. /\ Hidden(rs, whole) <=> Suppress(rs, Path(p), At(a, p), At(b, p))
        /\ ~Hidden(<<>>, whole)
    BY MirrorOfAsk, NoRules
  <2>3. AsksAtArray(<<>>, a, b, p) = {whole} \union Lengths(a, b, p)
    BY <2>2 DEF AsksAtArray
  <2>4. /\ AsksAtArray(rs, a, b, p) \subseteq {whole} \union Lengths(a, b, p)
        /\ ~Hidden(rs, whole) => AsksAtArray(rs, a, b, p) = {whole} \union Lengths(a, b, p)
    BY DEF AsksAtArray
  <2> HIDE DEF whole
  <2> QED BY <1>1, <2>1, <2>2, <2>3, <2>4
<1>2. CASE ~(/\ p \in DOMAIN a \intersect DOMAIN b
             /\ a[p].type = b[p].type /\ a[p].type = "array")
  <2>1. AsksAt(rs, a, b, p) = AsksAt(<<>>, a, b, p)
    BY <1>2 DEF AsksAt
  <2> QED BY <2>1
<1> QED BY <1>1, <1>2

\* Rules never make the engine ask of more, whole arrays apart.
LEMMA RulesAskLess ==
  ASSUME NEW rs, NEW p, NEW s, NEW x \in Asks(rs, p, s), x.kind # "array"
  PROVE  x \in Asks(<<>>, p, s)
<1>1. CASE x \in BodyAsks(rs, p.body, s.body)
  <2>1. CASE p.body.json /\ s.body.json
    <3> DEFINE a == p.body.value
               b == s.body.value
    <3>1. PICK place \in Reached(rs, a, b) : x \in AsksAt(rs, a, b, place)
      BY <1>1, <2>1 DEF BodyAsks, WalkAsks
    <3>2. place \in Reached(<<>>, a, b)
      BY RulesReachLess
    <3>3. x \in AsksAt(<<>>, a, b, place)
      BY <3>1, RulesAtPlace
    <3>4. x \in BodyAsks(<<>>, p.body, s.body)
      BY <2>1, <3>2, <3>3 DEF BodyAsks, WalkAsks
    <3> QED BY <3>4 DEF Asks
  <2>2. CASE ~(p.body.json /\ s.body.json)
    <3>1. BodyAsks(rs, p.body, s.body) = BodyAsks(<<>>, p.body, s.body)
      BY <2>2 DEF BodyAsks
    <3> QED BY <1>1, <3>1 DEF Asks
  <2> QED BY <2>1, <2>2
<1> QED BY <1>1 DEF Asks

\* What is no longer asked lies in an array that a rule hides whole, or is its
\* length.
LEMMA NoLongerAsked ==
  ASSUME NEW rs, NEW p \in Responses, NEW s \in Responses,
         NEW x \in Asks(<<>>, p, s), x \notin Asks(rs, p, s)
  PROVE  /\ p.body.json /\ s.body.json
         /\ x.at \in Places /\ x.path = Path(x.at)
         /\ \E n \in 0 .. Len(x.at) :
              LET q == SubSeq(x.at, 1, n)
              IN  /\ q \in DOMAIN p.body.value \intersect DOMAIN s.body.value
                  /\ p.body.value[q].type = "array" /\ s.body.value[q].type = "array"
                  /\ Suppress(rs, Path(q), At(p.body.value, q), At(s.body.value, q))
<1> DEFINE a == p.body.value
           b == s.body.value
           place == x.at
<1>1. x \in BodyAsks(<<>>, p.body, s.body) /\ x \notin BodyAsks(rs, p.body, s.body)
  BY DEF Asks
<1>2. p.body.json /\ s.body.json
  <2> SUFFICES ASSUME ~(p.body.json /\ s.body.json) PROVE FALSE
    OBVIOUS
  <2>1. BodyAsks(rs, p.body, s.body) = BodyAsks(<<>>, p.body, s.body)
    BY DEF BodyAsks
  <2> QED BY <1>1, <2>1
<1>3. /\ place \in Places /\ x.path = Path(place) /\ Len(place) \in Nat
      /\ place \in Reached(<<>>, a, b) /\ x \in AsksAt(<<>>, a, b, place)
  BY <1>1, <1>2, ResponseShape, BodyAskShape, LenProperties DEF Places
<1>4. place \in Reached(rs, a, b) => x \notin AsksAt(rs, a, b, place)
  <2>1. BodyAsks(rs, p.body, s.body) = UNION {AsksAt(rs, a, b, q) : q \in Reached(rs, a, b)}
    BY <1>2 DEF BodyAsks, WalkAsks
  <2> QED BY <1>1, <2>1
<1> HIDE DEF a, b, place
<1>5. \A n \in 0 .. Len(place) - 1 :
        LET q == SubSeq(place, 1, n)
        IN  /\ q \in DOMAIN a \intersect DOMAIN b
            /\ a[q].type = b[q].type /\ a[q].type \in {"object", "array"}
  BY <1>3 DEF Reached, Descends
<1>6. ASSUME \A n \in 0 .. Len(place) - 1 : Descends(rs, a, b, SubSeq(place, 1, n))
      PROVE  /\ place \in DOMAIN a \intersect DOMAIN b
             /\ a[place].type = "array" /\ b[place].type = "array"
             /\ Suppress(rs, Path(place), At(a, place), At(b, place))
  <2>1. place \in Reached(rs, a, b)
    BY <1>3, <1>6 DEF Reached
  <2> QED BY <1>3, <1>4, <2>1, RulesAtPlace
<1>7. \E n \in 0 .. Len(place) :
        LET q == SubSeq(place, 1, n)
        IN  /\ q \in DOMAIN a \intersect DOMAIN b
            /\ a[q].type = "array" /\ b[q].type = "array"
            /\ Suppress(rs, Path(q), At(a, q), At(b, q))
  <2>1. CASE \A n \in 0 .. Len(place) - 1 : Descends(rs, a, b, SubSeq(place, 1, n))
    <3>1. SubSeq(place, 1, Len(place)) = place /\ Len(place) \in 0 .. Len(place)
      BY <1>3, SubSeqFull DEF Places
    <3> QED BY <1>6, <2>1, <3>1
  <2>2. CASE \E n \in 0 .. Len(place) - 1 :
              LET q == SubSeq(place, 1, n)
              IN  /\ q \in DOMAIN a \intersect DOMAIN b
                  /\ q \in Reached(rs, a, b)
                  /\ a[q].type = "array" /\ b[q].type = "array"
                  /\ Suppress(rs, Path(q), At(a, q), At(b, q))
    BY <1>3, <2>2
  <2> QED BY <1>3, <1>5, <2>1, <2>2, HiddenAbove
<1> QED BY <1>2, <1>3, <1>7 DEF a, b, place

\* The engine's own words in the answers are in no table.
LEMMA OwnWords ==
  ASSUME NEW r \in Responses
  PROVE  /\ OwnWord(Jsonness(r.body))
         /\ r.body.json => \A place \in DOMAIN r.body.value :
              /\ OwnWord(Str(r.body.value[place].type))
              /\ r.body.value[place].type = "array" => OwnWord(Items(r.body.value[place].length))
BY ReportAssumption

\* An ask shows the two values of its path, or two of the engine's own words.
LEMMA AskValues ==
  ASSUME NEW rs, NEW p \in Responses, NEW s \in Responses, NEW x \in Asks(rs, p, s)
  PROVE  \/ x.primary = ValueAt(p, x.path) /\ x.shadow = ValueAt(s, x.path)
         \/ /\ x.kind = "shape"
            /\ \E u, w : /\ x.primary = Str(u) /\ x.shadow = Str(w)
                         /\ OwnWord(Str(u)) /\ OwnWord(Str(w))
<1>0. \A kind, at, path, u, w :
        /\ Ask(kind, at, path, u, w).kind = kind
        /\ Ask(kind, at, path, u, w).path = path
        /\ Ask(kind, at, path, u, w).primary = u
        /\ Ask(kind, at, path, u, w).shadow = w
  BY DEF Ask
<1>1. CASE x \in StatusAsks(p.status, s.status)
  <2>1. x = Ask("status", <<>>, <<"status">>, StatusNumber(p.status), StatusNumber(s.status))
    BY <1>1 DEF StatusAsks
  <2> QED BY <1>0, <2>1, ValueAtPath
<1>2. CASE x \in HeaderAsks(p.headers, s.headers)
  <2>1. PICK name \in (DOMAIN p.headers \union DOMAIN s.headers) \ TransportHeaders :
          x = Ask("header", <<name>>, HeaderPath(name),
                  Str(HeaderValue(p.headers, name)), Str(HeaderValue(s.headers, name)))
    BY <1>2 DEF HeaderAsks
  <2>2. name \in STRING
    BY ResponseShape
  <2> QED BY <1>0, <2>1, <2>2, ValueAtPath
<1>3. CASE x \in BodyAsks(rs, p.body, s.body)
  <2>0. IsBody(p.body) /\ IsBody(s.body)
    BY ResponseShape
  <2>1. CASE p.body.json /\ s.body.json
    <3> DEFINE a == p.body.value
               b == s.body.value
               place == x.at
    <3>1. place \in Places /\ x \in AsksAt(rs, a, b, place)
      BY <1>3, <2>0, <2>1, BodyAskShape
    <3>2. /\ ValueAt(p, Path(place)) = At(a, place)
          /\ ValueAt(s, Path(place)) = At(b, place)
      BY <2>1, <3>1, ValueAtPath
    <3>3. /\ \A q \in DOMAIN a : /\ OwnWord(Str(a[q].type))
                                 /\ a[q].type = "array" => OwnWord(Items(a[q].length))
          /\ \A q \in DOMAIN b : /\ OwnWord(Str(b[q].type))
                                 /\ b[q].type = "array" => OwnWord(Items(b[q].length))
      BY <2>1, OwnWords
    <3>4. \A n : \E t : Items(n) = Str(t)
      BY DEF Items
    <3> HIDE DEF a, b, place
    <3>5. CASE place \notin DOMAIN a \intersect DOMAIN b
      <4>1. x = Ask("body_key", place, Path(place), At(a, place), At(b, place))
        BY <3>1, <3>5 DEF AsksAt
      <4> QED BY <1>0, <3>2, <4>1
    <3>6. CASE place \in DOMAIN a \intersect DOMAIN b /\ a[place].type # b[place].type
      <4>1. x = Ask("shape", place, Path(place), Str(a[place].type), Str(b[place].type))
        BY <3>1, <3>6 DEF AsksAt
      <4> QED BY <1>0, <3>3, <3>6, <4>1
    <3>7. CASE /\ place \in DOMAIN a \intersect DOMAIN b /\ a[place].type = b[place].type
               /\ a[place].type = "object"
      BY <3>1, <3>7 DEF AsksAt
    <3>8. CASE /\ place \in DOMAIN a \intersect DOMAIN b /\ a[place].type = b[place].type
               /\ a[place].type = "array"
      <4> DEFINE whole == Ask("array", place, Path(place), At(a, place), At(b, place))
                 lens == Ask("shape", place, Path(place),
                             Items(a[place].length), Items(b[place].length))
      <4>1. x = whole \/ x = lens
        <5>1. AsksAt(rs, a, b, place) = AsksAtArray(rs, a, b, place)
          BY <3>8 DEF AsksAt
        <5>2. AsksAtArray(rs, a, b, place) \subseteq {whole, lens}
          BY DEF AsksAtArray, Lengths
        <5> HIDE DEF whole, lens
        <5> QED BY <3>1, <5>1, <5>2
      <4>2. CASE x = whole
        BY <1>0, <3>2, <4>2
      <4>3. CASE x = lens
        <5>1. OwnWord(Items(a[place].length)) /\ OwnWord(Items(b[place].length))
          BY <3>3, <3>8
        <5>2. PICK t : Items(a[place].length) = Str(t)
          BY <3>4
        <5>3. PICK u : Items(b[place].length) = Str(u)
          BY <3>4
        <5>4. x.kind = "shape" /\ x.primary = Str(t) /\ x.shadow = Str(u)
          BY <1>0, <4>3, <5>2, <5>3
        <5>5. OwnWord(Str(t)) /\ OwnWord(Str(u))
          BY <5>1, <5>2, <5>3
        <5> QED BY <5>4, <5>5
      <4> QED BY <4>1, <4>2, <4>3
    <3>9. CASE /\ place \in DOMAIN a \intersect DOMAIN b /\ a[place].type = b[place].type
               /\ a[place].type \notin {"object", "array"}
      <4>1. x = Ask("body_value", place, Path(place), At(a, place), At(b, place))
        BY <3>1, <3>9 DEF AsksAt
      <4> QED BY <1>0, <3>2, <4>1
    <3> QED BY <3>5, <3>6, <3>7, <3>8, <3>9
  <2>2. CASE p.body.json # s.body.json
    <3>1. x = Ask("shape", <<>>, Path(<<>>), Jsonness(p.body), Jsonness(s.body))
      BY <1>3, <2>0, <2>2 DEF BodyAsks, IsBody
    <3>2. OwnWord(Jsonness(p.body)) /\ OwnWord(Jsonness(s.body))
      BY OwnWords
    <3>3. \A body : \E t : Jsonness(body) = Str(t)
      BY DEF Jsonness
    <3>4. PICK t : Jsonness(p.body) = Str(t)
      BY <3>3
    <3>5. PICK u : Jsonness(s.body) = Str(u)
      BY <3>3
    <3>6. x.kind = "shape" /\ x.primary = Str(t) /\ x.shadow = Str(u)
      BY <1>0, <3>1, <3>4, <3>5
    <3>7. OwnWord(Str(t)) /\ OwnWord(Str(u))
      BY <3>2, <3>4, <3>5
    <3> QED BY <3>6, <3>7
  <2>3. CASE ~p.body.json /\ ~s.body.json
    <3>1. x = Ask("body_value", <<>>, Path(<<>>), Str(p.body.bytes), Str(s.body.bytes))
      BY <1>3, <2>0, <2>3 DEF BodyAsks, IsBody
    <3>2. <<>> \in Places
      BY DEF Places
    <3>3. /\ ValueAt(p, Path(<<>>)) = Str(p.body.bytes)
          /\ ValueAt(s, Path(<<>>)) = Str(s.body.bytes)
      BY <2>3, <3>2, ValueAtPath
    <3> QED BY <1>0, <3>1, <3>3
  <2> QED BY <2>0, <2>1, <2>2, <2>3 DEF IsBody
<1> QED BY <1>1, <1>2, <1>3 DEF Asks

\* A rule that hides something is right about the two values at its path, or
\* measures the engine's own words for a change of shape.
LEMMA ClaimHolds ==
  ASSUME NEW rs, NEW p \in Responses, NEW s \in Responses,
         NEW x \in Asks(rs, p, s), Hidden(rs, x)
  PROVE  \/ Claims(rs[Match(rs, x.path)], ValueAt(p, x.path), ValueAt(s, x.path))
         \/ Measured(rs[Match(rs, x.path)], x)
<1> DEFINE rule == rs[Match(rs, x.path)]
           n == rule.normalise
<1>1. rule.ignore \/ (x.primary # x.shadow /\ Equal(n, x.primary, x.shadow))
  BY DEF Hidden, Suppress, EqualOnlyNormalised
<1> HIDE DEF rule
<1>2. CASE rule.ignore
  BY <1>2 DEF Claims, rule
<1>3. CASE x.primary # x.shadow /\ Equal(n, x.primary, x.shadow)
  <2>1. CASE x.primary = ValueAt(p, x.path) /\ x.shadow = ValueAt(s, x.path)
    BY <1>3, <2>1 DEF Claims, rule
  <2>2. CASE /\ x.kind = "shape"
             /\ \E u, w : /\ x.primary = Str(u) /\ x.shadow = Str(w)
                          /\ OwnWord(Str(u)) /\ OwnWord(Str(w))
    <3>1. PICK u, w : /\ x.primary = Str(u) /\ x.shadow = Str(w)
                      /\ OwnWord(Str(u)) /\ OwnWord(Str(w))
      BY <2>2
    <3>2. u # w /\ Equal(n, Str(u), Str(w))
      BY <1>3, <3>1
    <3>3. n.kind = "len"
      BY <3>1, <3>2, OwnWordsApart
    <3> QED BY <2>2, <3>3 DEF Measured, rule
  <2> QED BY <2>1, <2>2, AskValues
<1> QED BY <1>1, <1>2, <1>3

\* A pair's findings are among those of no rules, and each that is missing is
\* hidden at its place, or at an array around it, by the last rule that matches.
LEMMA JustifiedOfPair ==
  ASSUME NEW R, NEW rs \in Seq(R), NEW p \in Responses, NEW s \in Responses
  PROVE  LET reported == Diff(rs, p, s).differences
             found == Diff(<<>>, p, s).differences
         IN  /\ reported \subseteq found
             /\ \A d \in found \ reported :
                  \E n \in 1 .. Len(d.path), i \in DOMAIN rs :
                    LET place == SubSeq(d.path, 1, n)
                        a == ValueAt(p, place)
                        b == ValueAt(s, place)
                    IN  /\ n < Len(d.path) => Top(a).type = "array" /\ Top(b).type = "array"
                        /\ Matches(rs[i].path, place)
                        /\ \A j \in i + 1 .. Len(rs) : ~Matches(rs[j].path, place)
                        /\ Claims(rs[i], a, b) \/ (n = Len(d.path) /\ Measured(rs[i], d))
<1> DEFINE reported == Diff(rs, p, s).differences
           found == Diff(<<>>, p, s).differences
<1>1. \A x : ~Hidden(<<>>, x)
  BY NoRules DEF Hidden
<1>2. reported \subseteq found
  <2> SUFFICES ASSUME NEW x \in reported PROVE x \in found
    OBVIOUS
  <2>1. x \in Asks(rs, p, s) /\ x.kind # "array"
    BY ResultIs
  <2>2. x \in Asks(<<>>, p, s)
    BY <2>1, RulesAskLess
  <2> QED BY <1>1, <2>1, <2>2, ResultIs
<1>3. \A path : Match(rs, path) # 0 =>
        /\ Match(rs, path) \in DOMAIN rs
        /\ Matches(rs[Match(rs, path)].path, path)
        /\ \A j \in Match(rs, path) + 1 .. Len(rs) : ~Matches(rs[j].path, path)
  <2> TAKE path
  <2>1. Len(rs) \in Nat /\ DOMAIN rs = 1 .. Len(rs)
    BY LenProperties
  <2>2. Match(rs, path) \in 0 .. Len(rs)
    BY MatchIsLast
  <2>3. Match(rs, path) # 0 => Match(rs, path) \in DOMAIN rs
    BY <2>1, <2>2
  <2> QED BY <2>3, MatchIsLast
<1>4. ASSUME NEW d \in found \ reported
      PROVE  \E n \in 1 .. Len(d.path), i \in DOMAIN rs :
               LET place == SubSeq(d.path, 1, n)
                   a == ValueAt(p, place)
                   b == ValueAt(s, place)
               IN  /\ n < Len(d.path) => Top(a).type = "array" /\ Top(b).type = "array"
                   /\ Matches(rs[i].path, place)
                   /\ \A j \in i + 1 .. Len(rs) : ~Matches(rs[j].path, place)
                   /\ Claims(rs[i], a, b) \/ (n = Len(d.path) /\ Measured(rs[i], d))
  <2>1. d \in Asks(<<>>, p, s) /\ d.kind # "array"
    BY ResultIs
  <2>2. Shaped(d)
    BY <2>1, AskShape
  <2>3. Len(d.path) \in Nat \ {0} /\ SubSeq(d.path, 1, Len(d.path)) = d.path
    <3>1. CASE d.kind = "status" /\ d.path = <<"status">>
      <4>1. "status" \in Segments
        BY DEF Segments
      <4> HIDE DEF Segments
      <4>2. <<"status">> \in Seq(Segments) /\ Len(<<"status">>) = 1
        BY <4>1
      <4>3. SubSeq(<<"status">>, 1, Len(<<"status">>)) = <<"status">>
        BY <4>2, SubSeqFull
      <4> QED BY <3>1, <4>2, <4>3
    <3>2. CASE d.kind = "header" /\ \E name \in STRING : d.path = HeaderPath(name)
      <4>1. PICK name \in STRING : d.path = HeaderPath(name)
        BY <3>2
      <4>2. "headers" \in Segments /\ name \in Segments
        BY DEF Segments
      <4> HIDE DEF Segments
      <4>3. HeaderPath(name) \in Seq(Segments) /\ Len(HeaderPath(name)) = 2
        BY <4>2 DEF HeaderPath
      <4>4. SubSeq(d.path, 1, Len(d.path)) = d.path
        BY <4>1, <4>3, SubSeqFull
      <4> QED BY <4>1, <4>3, <4>4
    <3>3. CASE d.kind \in PlaceKinds /\ d.at \in Places /\ d.path = Path(d.at)
      <4>1. Path(d.at) \in Paths /\ Len(Path(d.at)) = Len(d.at) + 1 /\ Len(d.at) \in Nat
        BY <3>3, PathProperties, LenProperties DEF Places
      <4>2. SubSeq(Path(d.at), 1, Len(Path(d.at))) = Path(d.at)
        BY <4>1, SubSeqFull DEF Paths
      <4> QED BY <3>3, <4>1, <4>2
    <3> QED BY <2>2, <3>1, <3>2, <3>3 DEF Shaped
  <2>4. CASE d \in Asks(rs, p, s)
    <3>1. Hidden(rs, d)
      BY <2>1, <2>4, ResultIs
    <3> DEFINE i == Match(rs, d.path)
    <3>2. i # 0
      BY <3>1 DEF Hidden, Suppress
    <3>3. /\ i \in DOMAIN rs /\ Matches(rs[i].path, d.path)
          /\ \A j \in i + 1 .. Len(rs) : ~Matches(rs[j].path, d.path)
      BY <1>3, <3>2
    <3>4. Claims(rs[i], ValueAt(p, d.path), ValueAt(s, d.path)) \/ Measured(rs[i], d)
      BY <2>4, <3>1, ClaimHolds
    <3> HIDE DEF i
    <3>5. Len(d.path) \in 1 .. Len(d.path) /\ ~(Len(d.path) < Len(d.path))
      BY <2>3
    <3> QED BY <2>3, <3>3, <3>4, <3>5
  <2>5. CASE d \notin Asks(rs, p, s)
    <3> DEFINE v == p.body.value
               w == s.body.value
    <3>1. PICK n \in 0 .. Len(d.at) :
            LET q == SubSeq(d.at, 1, n)
            IN  /\ q \in DOMAIN v \intersect DOMAIN w
                /\ v[q].type = "array" /\ w[q].type = "array"
                /\ Suppress(rs, Path(q), At(v, q), At(w, q))
      BY <2>1, <2>5, NoLongerAsked
    <3>2. p.body.json /\ s.body.json /\ d.at \in Places /\ d.path = Path(d.at)
      BY <2>1, <2>5, NoLongerAsked
    <3> DEFINE q == SubSeq(d.at, 1, n)
               i == Match(rs, Path(q))
    <3>3. /\ q \in Places /\ SubSeq(d.path, 1, n + 1) = Path(q)
          /\ n + 1 \in 1 .. Len(d.path)
      <4>1. q \in Places
        BY <3>1, <3>2, Prefix
      <4>2. Len(d.at) \in Nat /\ Len(d.path) = Len(d.at) + 1
        BY <3>2, PathProperties, LenProperties DEF Places
      <4> QED BY <3>1, <3>2, <4>1, <4>2, PathProperties
    <3>4. ValueAt(p, Path(q)) = At(v, q) /\ ValueAt(s, Path(q)) = At(w, q)
      BY <3>2, <3>3, ValueAtPath
    <3>5. Top(At(v, q)).type = "array" /\ Top(At(w, q)).type = "array"
      <4>1. IsTree(v) /\ IsTree(w)
        BY <3>2, ResponseShape DEF IsBody
      <4> QED BY <3>1, <4>1, TopOfAt
    <3>6. i # 0 /\ Claims(rs[i], At(v, q), At(w, q))
      BY <3>1 DEF Suppress, EqualOnlyNormalised, Claims
    <3>7. /\ i \in DOMAIN rs /\ Matches(rs[i].path, Path(q))
          /\ \A j \in i + 1 .. Len(rs) : ~Matches(rs[j].path, Path(q))
      BY <1>3, <3>6
    <3> HIDE DEF i, q, v, w
    <3> QED BY <3>3, <3>4, <3>5, <3>6, <3>7
  <2> QED BY <2>4, <2>5
<1> QED BY <1>2, <1>4

\* The arrays that a rule may be counted for: both sides have one there, and they
\* write it differently or the rule ignores the place.
Offered(rs, p, s) ==
  {place \in {place \in DOMAIN p.value \intersect DOMAIN s.value :
               p.value[place].type = "array" /\ s.value[place].type = "array"} :
     \/ At(p.value, place) # At(s.value, place)
     \/ Match(rs, Path(place)) # 0 /\ rs[Match(rs, Path(place))].ignore}

\* A whole array is hidden at a place that is offered.
LEMMA HiddenArray ==
  ASSUME NEW rs, NEW p \in Responses, NEW s \in Responses,
         NEW x \in HiddenAsks(rs, p, s), x.kind = "array"
  PROVE  /\ p.body.json /\ s.body.json
         /\ x.at \in Offered(rs, p.body, s.body) /\ x.path = Path(x.at)
<1> DEFINE a == p.body.value
           b == s.body.value
           place == x.at
<1>0. \A kind, at, path, u, w :
        /\ Ask(kind, at, path, u, w).kind = kind
        /\ Ask(kind, at, path, u, w).path = path
        /\ Ask(kind, at, path, u, w).primary = u
        /\ Ask(kind, at, path, u, w).shadow = w
  BY DEF Ask
<1>1. x \in Asks(rs, p, s) /\ Hidden(rs, x)
  BY DEF HiddenAsks
<1>2. x \in BodyAsks(rs, p.body, s.body)
  <2>1. \A y \in StatusAsks(p.status, s.status) : y.kind = "status"
    BY <1>0 DEF StatusAsks
  <2>2. \A y \in HeaderAsks(p.headers, s.headers) : y.kind = "header"
    BY DEF HeaderAsks, Ask
  <2> QED BY <1>1, <2>1, <2>2 DEF Asks
<1>3. IsBody(p.body) /\ IsBody(s.body)
  BY ResponseShape
<1>4. p.body.json /\ s.body.json
  <2>1. CASE ~(p.body.json /\ s.body.json)
    <3>1. \/ x = Ask("shape", <<>>, Path(<<>>), Jsonness(p.body), Jsonness(s.body))
          \/ x = Ask("body_value", <<>>, Path(<<>>), Str(p.body.bytes), Str(s.body.bytes))
      BY <1>2, <2>1 DEF BodyAsks
    <3> QED BY <1>0, <3>1
  <2> QED BY <2>1
<1>5. x.path = Path(place) /\ x \in AsksAt(rs, a, b, place)
  BY <1>2, <1>3, <1>4, BodyAskShape
<1> HIDE DEF a, b, place
<1>6. /\ place \in DOMAIN a \intersect DOMAIN b
      /\ a[place].type = "array" /\ b[place].type = "array"
      /\ x \in AsksAtArray(rs, a, b, place)
  BY <1>0, <1>5 DEF AsksAt
<1>7. x = Ask("array", place, Path(place), At(a, place), At(b, place))
  BY <1>0, <1>6 DEF AsksAtArray, Lengths
<1>8. Suppress(rs, Path(place), At(a, place), At(b, place))
  BY <1>0, <1>1, <1>7 DEF Hidden
<1>9. \/ At(a, place) # At(b, place)
      \/ Match(rs, Path(place)) # 0 /\ rs[Match(rs, Path(place))].ignore
  BY <1>8 DEF Suppress, EqualOnlyNormalised
<1> QED BY <1>4, <1>5, <1>6, <1>9 DEF Offered, a, b, place

\* A pair counts as suppressed no more than there is to suppress.
LEMMA SuppressionsOfPair ==
  ASSUME NEW rs, NEW p \in Responses, NEW s \in Responses
  PROVE  Diff(rs, p, s).suppressed + Cardinality(Diff(rs, p, s).differences)
           <= Cardinality(Diff(<<>>, p, s).differences)
                + IF p.body.json /\ s.body.json THEN Cardinality(Offered(rs, p.body, s.body)) ELSE 0
<1> DEFINE D == Diff(rs, p, s).differences
           F == Diff(<<>>, p, s).differences
           H == HiddenAsks(rs, p, s)
           N == {x \in H : x.kind # "array"}
           A == {x \in H : x.kind = "array"}
           O == Offered(rs, p.body, s.body)
<1>1. /\ IsFiniteSet(D) /\ IsFiniteSet(F) /\ IsFiniteSet(H)
      /\ Diff(rs, p, s).suppressed = Cardinality(H)
  BY ResultIs
<1>2. N \union D \in SUBSET F /\ N \intersect D = {}
  <2>1. \A x \in N \union D : x \in Asks(rs, p, s) /\ x.kind # "array"
    BY ResultIs DEF HiddenAsks
  <2>2. \A x \in N \union D : x \in F
    BY <2>1, RulesAskLess, NoRules, ResultIs DEF Hidden
  <2>3. \A x \in N : x \notin D
    BY ResultIs DEF HiddenAsks
  <2> QED BY <2>2, <2>3
<1>3. H = N \union A /\ N \intersect A = {}
  OBVIOUS
<1>4. \A x \in A : p.body.json /\ s.body.json /\ x.at \in O /\ x.path = Path(x.at)
  BY HiddenArray
<1>5. IsFiniteSet(O) \/ ~(p.body.json /\ s.body.json)
  <2>1. CASE p.body.json /\ s.body.json
    <3>1. IsFiniteSet(DOMAIN p.body.value)
      BY <2>1, ResponseShape DEF IsBody, IsTree
    <3>2. O \in SUBSET DOMAIN p.body.value
      BY DEF Offered
    <3> HIDE DEF O
    <3> QED BY <3>1, <3>2, FS_Subset
  <2> QED BY <2>1
<1>6. \A x, y \in A : x.at = y.at => x = y
  <2> TAKE x, y \in A
  <2>1. x \in Asks(rs, p, s) /\ y \in Asks(rs, p, s) /\ x.kind = "array" /\ y.kind = "array"
    BY DEF HiddenAsks
  <2>2. x.at = y.at => x.path = y.path
    BY <1>4
  <2> QED BY <2>1, <2>2, AskShape
<1> HIDE DEF D, F, H, O
<1>7. /\ IsFiniteSet(N) /\ IsFiniteSet(A)
      /\ Cardinality(N) \in Nat /\ Cardinality(A) \in Nat /\ Cardinality(D) \in Nat
      /\ Cardinality(F) \in Nat
  <2>1. N \in SUBSET H /\ A \in SUBSET H
    OBVIOUS
  <2>2. IsFiniteSet(N) /\ IsFiniteSet(A)
    BY <1>1, <2>1, FS_Subset
  <2> QED BY <1>1, <2>2, FS_CardinalityType
<1>8. Cardinality(A) <= IF p.body.json /\ s.body.json THEN Cardinality(O) ELSE 0
  <2>1. CASE p.body.json /\ s.body.json
    <3> DEFINE f == [x \in A |-> x.at]
    <3>1. f \in [A -> O] /\ \A x \in A : f[x] = x.at
      BY <1>4
    <3>2. f \in Injection(A, O)
      <4>1. \A x, y \in A : f[x] = f[y] => x = y
        BY <1>6, <3>1
      <4>2. DOMAIN f = A
        OBVIOUS
      <4> QED BY <3>1, <4>1, <4>2 DEF Injection, IsInjective
    <3>3. IsFiniteSet(O)
      BY <1>5, <2>1
    <3> HIDE DEF A, f
    <3>4. Cardinality(A) <= Cardinality(O)
      BY <3>2, <3>3, FS_Injection
    <3> QED BY <2>1, <3>4
  <2>2. CASE ~(p.body.json /\ s.body.json)
    <3>1. A = {}
      BY <1>4, <2>2
    <3>2. Cardinality({}) = 0
      BY FS_EmptySet
    <3> HIDE DEF A
    <3> QED BY <2>2, <3>1, <3>2
  <2> QED BY <2>1, <2>2
<1> HIDE DEF N, A
<1>9. Cardinality(H) = Cardinality(N) + Cardinality(A)
  <2>1. Cardinality(N \union A) = Cardinality(N) + Cardinality(A) - Cardinality(N \intersect A)
    BY <1>7, FS_Union
  <2>2. Cardinality(N \intersect A) = 0
    BY <1>3, FS_EmptySet
  <2> QED BY <1>3, <1>7, <2>1, <2>2
<1>10. Cardinality(N) + Cardinality(D) <= Cardinality(F)
  <2>1. Cardinality(N \union D) = Cardinality(N) + Cardinality(D) - Cardinality(N \intersect D)
    BY <1>1, <1>7, FS_Union
  <2>2. Cardinality(N \intersect D) = 0
    BY <1>2, FS_EmptySet
  <2>3. Cardinality(N \union D) <= Cardinality(F)
    BY <1>1, <1>2, FS_Subset
  <2> QED BY <1>7, <2>1, <2>2, <2>3
<1>11. IF p.body.json /\ s.body.json THEN Cardinality(O) \in Nat ELSE TRUE
  BY <1>5, FS_CardinalityType
<1>12. Cardinality(H) + Cardinality(D)
         <= Cardinality(F) + IF p.body.json /\ s.body.json THEN Cardinality(O) ELSE 0
  BY <1>7, <1>8, <1>9, <1>10, <1>11
<1> QED BY <1>1, <1>12 DEF D, F, O

-----------------------------------------------------------------------------
(* The closed form and the recursion of the code                           *)

\* The places that walkObject and walkArray go on to: all keys, and as many
\* elements as both have.
Children(rs, a, b, place) ==
  IF ~Descends(rs, a, b, place) THEN {}
  ELSE IF a[place].type = "object" THEN {c \in KeysOf(a, b) \ {<<>>} : Front(c) = place}
  ELSE {Append(place, Index(i)) : i \in {i \in 1 .. a[place].length : i <= b[place].length}}

Extends(q, place) == Len(place) <= Len(q) /\ SubSeq(q, 1, Len(place)) = place

\* What the walk asks from a place on.
AsksFrom(rs, a, b, place) ==
  UNION {AsksAt(rs, a, b, q) : q \in {q \in Reached(rs, a, b) : Extends(q, place)}}

\* The places gone on to are reached, and one segment longer.
LEMMA ChildIsReached ==
  ASSUME NEW rs, NEW a, NEW b, IsTree(a), IsTree(b), NEW place \in Reached(rs, a, b),
         NEW c \in Children(rs, a, b, place)
  PROVE  /\ c \in Reached(rs, a, b) /\ c \in Places
         /\ Len(c) = Len(place) + 1 /\ SubSeq(c, 1, Len(place)) = place
<1> DEFINE n == Len(place)
<1>1. place \in Places /\ n \in Nat /\ Descends(rs, a, b, place)
  BY ReachedPlaces, LenProperties DEF Places, Children
<1>2. /\ c \in KeysOf(a, b) /\ c # <<>> /\ Front(c) = place
      /\ a[place].type = "array" => c \in DOMAIN a \intersect DOMAIN b
  <2>1. CASE a[place].type = "object"
    BY <1>1, <2>1 DEF Children
  <2>2. CASE a[place].type # "object"
    <3>1. /\ a[place].type = "array" /\ b[place].type = "array"
          /\ place \in DOMAIN a /\ place \in DOMAIN b
      BY <1>1, <2>2 DEF Descends
    <3>2. PICK i \in 1 .. a[place].length : i <= b[place].length /\ c = Append(place, Index(i))
      BY <1>1, <2>2 DEF Children
    <3>3. b[place].length \in Nat /\ a[place].length \in Nat
      BY <3>1 DEF IsTree
    <3>4. i \in 1 .. b[place].length
      BY <3>2, <3>3
    <3>5. \A v : IsTree(v) /\ place \in DOMAIN v /\ v[place].type = "array" =>
            \A k \in 1 .. v[place].length :
              /\ Append(place, Index(k)) \in DOMAIN v
              /\ Append(place, Index(k)) # <<>>
              /\ Front(Append(place, Index(k))) = place
      <4> SUFFICES ASSUME NEW v, IsTree(v), place \in DOMAIN v, v[place].type = "array",
                          NEW k \in 1 .. v[place].length
                   PROVE  Append(place, Index(k)) \in {q \in DOMAIN v \ {<<>>} : Front(q) = place}
        OBVIOUS
      <4>1. {q \in DOMAIN v \ {<<>>} : Front(q) = place}
              = {Append(place, Index(j)) : j \in 1 .. v[place].length}
        BY DEF IsTree
      <4> QED BY <4>1
    <3>6. c \in DOMAIN a /\ c # <<>> /\ Front(c) = place
      BY <3>1, <3>2, <3>5
    <3>7. c \in DOMAIN b
      BY <3>1, <3>2, <3>4, <3>5
    <3> QED BY <3>6, <3>7 DEF KeysOf
  <2> QED BY <2>1, <2>2
<1>3. c \in Places /\ Len(c) \in Nat
  BY <1>2, LenProperties DEF KeysOf, IsTree, Places
<1>4. Len(c) # 0
  BY <1>2, <1>3, EmptySeq DEF Places
<1>5. Len(c) = n + 1 /\ SubSeq(c, 1, n) = place
  <2>1. Len(c) - 1 \in 0 .. Len(c) /\ place = SubSeq(c, 1, Len(c) - 1)
    BY <1>2, <1>3, <1>4 DEF Front
  <2>2. n = Len(c) - 1
    BY <1>3, <2>1, Prefix
  <2> QED BY <1>1, <1>3, <2>1, <2>2
<1>6. \A k \in 0 .. Len(c) - 1 : Descends(rs, a, b, SubSeq(c, 1, k))
  <2> TAKE k \in 0 .. Len(c) - 1
  <2>1. k \in 0 .. n /\ n \in 0 .. Len(c)
    BY <1>1, <1>5
  <2>2. SubSeq(c, 1, k) = SubSeq(place, 1, k)
    BY <1>3, <1>5, <2>1, Prefix
  <2>3. CASE k = n
    BY <1>1, <1>5, <2>3
  <2>4. CASE k # n
    <3>1. k \in 0 .. n - 1
      BY <1>1, <2>1, <2>4
    <3> QED BY <2>2, <3>1 DEF Reached
  <2> QED BY <2>3, <2>4
<1> QED BY <1>2, <1>3, <1>5, <1>6 DEF Reached

\* Every place further on is one of them, or further on from one.
LEMMA ChildOnTheWay ==
  ASSUME NEW rs, NEW a, NEW b, IsTree(a), IsTree(b), NEW place \in Reached(rs, a, b),
         NEW q \in Reached(rs, a, b), Extends(q, place), q # place
  PROVE  \E c \in Children(rs, a, b, place) : Extends(q, c)
<1> DEFINE n == Len(place)
           c == SubSeq(q, 1, n + 1)
<1>1. place \in Places /\ q \in Places /\ n \in Nat /\ Len(q) \in Nat
  BY ReachedPlaces, LenProperties DEF Places
<1>2. n < Len(q)
  <2>1. n = Len(q) => SubSeq(q, 1, n) = q
    BY <1>1, Prefix
  <2> QED BY <1>1, <2>1 DEF Extends
<1>3. n + 1 \in 0 .. Len(q) /\ n \in 0 .. n + 1 /\ n \in 0 .. Len(q) - 1 /\ n + 1 > 0
      /\ (n + 1) - 1 = n
  BY <1>1, <1>2
<1>4. Len(c) = n + 1 /\ c # <<>> /\ Front(c) = place
  <2>1. Len(c) = n + 1
    BY <1>1, <1>3, Prefix
  <2>2. c # <<>> /\ Front(c) = SubSeq(q, 1, (n + 1) - 1)
    BY <1>1, <1>3, Prefix
  <2>3. SubSeq(q, 1, (n + 1) - 1) = place
    BY <1>3 DEF Extends
  <2> QED BY <2>1, <2>2, <2>3
<1>5. Descends(rs, a, b, place)
  BY <1>3 DEF Reached, Extends
<1>6. c \in DOMAIN a \union DOMAIN b
  BY <1>3, ReachedPlaces, Ancestors
<1>7. a[place].type = "array" => c \in DOMAIN a \intersect DOMAIN b
  <2>1. CASE n + 1 = Len(q)
    <3>1. c = q
      BY <1>1, <2>1, Prefix
    <3> HIDE DEF c
    <3> QED BY <1>4, <3>1 DEF Reached
  <2>2. CASE n + 1 # Len(q)
    <3>1. n + 1 \in 0 .. Len(q) - 1
      BY <1>1, <1>2, <2>2
    <3>2. Descends(rs, a, b, c)
      BY <3>1 DEF Reached
    <3> QED BY <3>2 DEF Descends
  <2> QED BY <2>1, <2>2
<1>8. Extends(q, c)
  BY <1>1, <1>3, <1>4 DEF Extends
<1> HIDE DEF c
<1>9. CASE a[place].type = "object"
  BY <1>4, <1>5, <1>6, <1>8, <1>9 DEF Children, KeysOf
<1>10. CASE a[place].type # "object"
  <2>1. /\ a[place].type = "array" /\ b[place].type = "array"
        /\ place \in DOMAIN a /\ place \in DOMAIN b
    BY <1>5, <1>10 DEF Descends
  <2>2. /\ c \in {p \in DOMAIN a \ {<<>>} : Front(p) = place}
        /\ c \in {p \in DOMAIN b \ {<<>>} : Front(p) = place}
    BY <1>4, <1>7, <2>1
  <2>3. b[place].length \in Nat /\ a[place].length \in Nat
    BY <2>1 DEF IsTree
  <2>4. PICK i \in 1 .. a[place].length : c = Append(place, Index(i))
    BY <2>1, <2>2 DEF IsTree
  <2>5. PICK j \in 1 .. b[place].length : c = Append(place, Index(j))
    BY <2>1, <2>2 DEF IsTree
  <2>6. \E k \in 1 .. a[place].length : k <= b[place].length /\ c = Append(place, Index(k))
    <3>1. CASE i <= b[place].length
      BY <2>4, <3>1
    <3>2. CASE ~(i <= b[place].length)
      <4>1. j \in 1 .. a[place].length /\ j <= b[place].length
        BY <2>3, <3>2
      <4> QED BY <2>5, <4>1
    <3> QED BY <3>1, <3>2
  <2>7. c \in Children(rs, a, b, place)
    BY <1>5, <1>10, <2>6 DEF Children
  <2> QED BY <1>8, <2>7
<1> QED BY <1>9, <1>10

\* The closed form is what the recursion of the code comes to: from the root it
\* asks all that the walk asks, and from any place what is asked there, then what is
\* asked from each place gone on to, which is one segment further (structural.walk,
\* walkObject, walkArray).
THEOREM WalkIsRecursive ==
  ASSUME NEW rs, NEW a, NEW b, IsTree(a), IsTree(b)
  PROVE  /\ <<>> \in Reached(rs, a, b) /\ AsksFrom(rs, a, b, <<>>) = WalkAsks(rs, a, b)
         /\ \A place \in Reached(rs, a, b) :
              /\ AsksFrom(rs, a, b, place)
                   = AsksAt(rs, a, b, place)
                       \union UNION {AsksFrom(rs, a, b, c) : c \in Children(rs, a, b, place)}
              /\ \A c \in Children(rs, a, b, place) :
                   c \in Reached(rs, a, b) /\ Len(c) = Len(place) + 1
<1>1. <<>> \in Reached(rs, a, b)
  <2>1. <<>> \in DOMAIN a /\ Len(<<>>) = 0
    BY DEF IsTree
  <2> QED BY <2>1 DEF Reached, KeysOf
<1>2. AsksFrom(rs, a, b, <<>>) = WalkAsks(rs, a, b)
  <2>1. \A q \in Reached(rs, a, b) : Extends(q, <<>>)
    <3> TAKE q \in Reached(rs, a, b)
    <3>1. q \in Places /\ Len(q) \in Nat /\ Len(<<>>) = 0
      BY ReachedPlaces, LenProperties DEF Places
    <3>2. SubSeq(q, 1, 0) = <<>>
      BY <3>1, SubSeqEmpty
    <3> QED BY <3>1, <3>2 DEF Extends
  <2>2. {q \in Reached(rs, a, b) : Extends(q, <<>>)} = Reached(rs, a, b)
    BY <2>1
  <2> QED BY <2>2 DEF AsksFrom, WalkAsks
<1>3. ASSUME NEW place \in Reached(rs, a, b)
      PROVE  AsksFrom(rs, a, b, place)
               = AsksAt(rs, a, b, place)
                   \union UNION {AsksFrom(rs, a, b, c) : c \in Children(rs, a, b, place)}
  <2> DEFINE below == UNION {AsksFrom(rs, a, b, c) : c \in Children(rs, a, b, place)}
  <2>0. place \in Places /\ Len(place) \in Nat
    BY ReachedPlaces, LenProperties DEF Places
  <2>1. Extends(place, place)
    BY <2>0, Prefix DEF Extends
  <2>2. ASSUME NEW c \in Children(rs, a, b, place), NEW q \in Reached(rs, a, b), Extends(q, c)
        PROVE  Extends(q, place)
    <3>1. /\ c \in Places /\ Len(c) = Len(place) + 1 /\ SubSeq(c, 1, Len(place)) = place
          /\ q \in Places /\ Len(q) \in Nat
      BY ChildIsReached, ReachedPlaces, LenProperties DEF Places
    <3>2. Len(c) \in 0 .. Len(q) /\ Len(place) \in 0 .. Len(c) /\ SubSeq(q, 1, Len(c)) = c
      BY <2>0, <2>2, <3>1 DEF Extends
    <3>3. SubSeq(q, 1, Len(place)) = place
      BY <3>1, <3>2, Prefix
    <3> QED BY <2>0, <3>1, <3>2, <3>3 DEF Extends
  <2>3. ASSUME NEW x \in AsksFrom(rs, a, b, place)
        PROVE  x \in AsksAt(rs, a, b, place) \union below
    <3>1. PICK q \in Reached(rs, a, b) : Extends(q, place) /\ x \in AsksAt(rs, a, b, q)
      BY DEF AsksFrom
    <3>2. CASE q = place
      BY <3>1, <3>2
    <3>3. CASE q # place
      <4>1. PICK c \in Children(rs, a, b, place) : Extends(q, c)
        BY <3>1, <3>3, ChildOnTheWay
      <4>2. x \in AsksFrom(rs, a, b, c)
        BY <3>1, <4>1 DEF AsksFrom
      <4> QED BY <4>2
    <3> QED BY <3>2, <3>3
  <2>4. ASSUME NEW x \in AsksAt(rs, a, b, place) \union below
        PROVE  x \in AsksFrom(rs, a, b, place)
    <3>1. CASE x \in AsksAt(rs, a, b, place)
      BY <2>1, <3>1 DEF AsksFrom
    <3>2. CASE x \in below
      <4>1. PICK c \in Children(rs, a, b, place) : x \in AsksFrom(rs, a, b, c)
        BY <3>2
      <4>2. PICK q \in Reached(rs, a, b) : Extends(q, c) /\ x \in AsksAt(rs, a, b, q)
        BY <4>1 DEF AsksFrom
      <4> QED BY <2>2, <4>2 DEF AsksFrom
    <3> QED BY <3>1, <3>2
  <2> QED BY <2>3, <2>4
<1>4. \A place \in Reached(rs, a, b) : \A c \in Children(rs, a, b, place) :
        c \in Reached(rs, a, b) /\ Len(c) = Len(place) + 1
  BY ChildIsReached
<1> QED BY <1>1, <1>2, <1>3, <1>4

-----------------------------------------------------------------------------
(* Rules asked afterwards                                                  *)

\* A text is written as it is.
LEMMA StrIsItself ==
  ASSUME NEW t
  PROVE  Top(Str(t)).type = "string" /\ Top(Str(t)).text = t /\ Written(Str(t)) = t
<1>1. Top(Str(t)) = [type |-> "string", text |-> t]
  BY DEF Top, Str, Lone
<1>2. Top(Str(t)).type = "string" /\ Top(Str(t)).text = t
  BY <1>1
<1> QED BY <1>2 DEF Written

\* What is not cut is rendered as it is written.
LEMMA UncutIsItself ==
  ASSUME NEW v, ~IsCut(v)
  PROVE  Rendered(v) = Written(v)
BY DEF Rendered, IsCut, Become

AllNumbers == UNION {Numbers(r) : r \in Responses}

\* Of the two values of a finding, what their texts tell: they are of two types,
\* or both texts, or rendered alike, or two numbers, or words that no rule changes.
Told(x) ==
  \/ x.kind = "body_key" /\ Top(x.primary).type # Top(x.shadow).type
  \/ Top(x.primary).type = "string" /\ Top(x.shadow).type = "string"
  \/ Rendered(x.primary) = Rendered(x.shadow)
  \/ /\ Top(x.primary).type = "number" /\ Top(x.shadow).type = "number"
     /\ Top(x.primary) \in AllNumbers /\ Top(x.shadow) \in AllNumbers
     /\ Top(x.primary).value # Top(x.shadow).value
  \/ OwnWord(Str(Rendered(x.primary))) /\ OwnWord(Str(Rendered(x.shadow)))

\* The values at a place that only one side has.
LEMMA KeyTold ==
  ASSUME NEW a, NEW b, IsTree(a), IsTree(b),
         NEW place \in DOMAIN a \union DOMAIN b, place \notin DOMAIN a \intersect DOMAIN b
  PROVE  \/ Top(At(a, place)).type # Top(At(b, place)).type
         \/ Rendered(At(a, place)) = Rendered(At(b, place))
<1>1. Top(Null).type = "null" /\ Written(Null) = "(absent)"
  <2>1. Top(Null) = [type |-> "null"]
    BY DEF Top, Null, Lone
  <2>2. Top(Null).type = "null"
    BY <2>1
  <2> QED BY <2>2 DEF Written
<1>2. \A v : Top(v).type = "null" => Written(v) = "(absent)"
  BY DEF Written
<1>3. At(a, place) = Null \/ At(b, place) = Null
  BY DEF At
<1>4. \A v, w : Written(v) = Written(w) => Rendered(v) = Rendered(w)
  BY DEF Rendered
<1> QED BY <1>1, <1>2, <1>3, <1>4

\* The values at a place where both have a scalar of one type.
LEMMA ScalarTold ==
  ASSUME NEW p \in Responses, NEW s \in Responses, p.body.json, s.body.json,
         NEW place \in DOMAIN p.body.value \intersect DOMAIN s.body.value,
         p.body.value[place].type = s.body.value[place].type,
         p.body.value[place].type \notin {"object", "array"},
         ~ScalarEqual(p.body.value[place], s.body.value[place]),
         NEW x, x.primary = At(p.body.value, place), x.shadow = At(s.body.value, place)
  PROVE  Told(x)
<1> DEFINE a == p.body.value
           b == s.body.value
<1>1. Top(x.primary) = a[place] /\ Top(x.shadow) = b[place]
  BY TopOfAt, ResponseShape DEF IsBody
<1>2. CASE a[place].type = "number"
  <2>1. a[place].value # b[place].value
    BY <1>2 DEF ScalarEqual
  <2>2. \A r \in Responses : r.body.json =>
          \A q \in DOMAIN r.body.value :
            r.body.value[q].type = "number" => r.body.value[q] \in AllNumbers
    BY DEF AllNumbers, Numbers, Range
  <2>3. a[place] \in AllNumbers /\ b[place] \in AllNumbers
    BY <1>2, <2>2
  <2> QED BY <1>1, <1>2, <2>1, <2>3 DEF Told
<1>3. CASE a[place].type = "string"
  BY <1>1, <1>3 DEF Told
<1>4. CASE a[place].type = "null"
  <2>1. Written(x.primary) = "(absent)" /\ Written(x.shadow) = "(absent)"
    BY <1>1, <1>4 DEF Written
  <2>2. Rendered(x.primary) = Rendered(x.shadow)
    BY <2>1 DEF Rendered
  <2> QED BY <2>2 DEF Told
<1>5. CASE a[place].type \notin {"null", "number", "string", "array", "object"}
  <2>1. /\ OwnWord(Str(Rendered(At(a, place))))
        /\ OwnWord(Str(Rendered(At(b, place))))
    BY <1>5, ReportAssumption
  <2> QED BY <2>1 DEF Told
<1> QED BY <1>2, <1>3, <1>4, <1>5

\* So it is of every finding.
LEMMA FindingTold ==
  ASSUME NEW rs, NEW p \in Responses, NEW s \in Responses,
         NEW x \in Asks(rs, p, s), x.kind # "array"
  PROVE  Told(x)
<1>0. \A kind, at, path, u, w :
        /\ Ask(kind, at, path, u, w).kind = kind
        /\ Ask(kind, at, path, u, w).primary = u
        /\ Ask(kind, at, path, u, w).shadow = w
  BY DEF Ask
<1>a. ASSUME NEW u, NEW w, x.primary = Str(u), x.shadow = Str(w) PROVE Told(x)
  BY <1>a, StrIsItself DEF Told
<1>1. CASE x \in StatusAsks(p.status, s.status)
  <2> DEFINE n(r) == StatusNumber(r.status)
  <2>1. x = Ask("status", <<>>, <<"status">>, n(p), n(s)) /\ p.status # s.status
    BY <1>1 DEF StatusAsks
  <2>2. \A r \in Responses : /\ Top(n(r)).type = "number" /\ Top(n(r)).value = 10 * r.status
                             /\ Top(n(r)) \in AllNumbers
    <3> TAKE r \in Responses
    <3>1. Top(n(r)) = [type |-> "number", value |-> 10 * r.status, text |-> ToString(r.status)]
      BY DEF Top, StatusNumber, Number, Lone
    <3>2. Top(n(r)) \in AllNumbers
      BY DEF AllNumbers, Numbers
    <3> HIDE DEF n
    <3> QED BY <3>1, <3>2
  <2>3. p.status \in Nat /\ s.status \in Nat
    BY ReportAssumption
  <2>4. 10 * p.status # 10 * s.status
    BY <2>1, <2>3
  <2> HIDE DEF n
  <2> QED BY <1>0, <2>1, <2>2, <2>4 DEF Told
<1>2. CASE x \in HeaderAsks(p.headers, s.headers)
  <2>1. \E name : x = Ask("header", <<name>>, HeaderPath(name),
                          Str(HeaderValue(p.headers, name)), Str(HeaderValue(s.headers, name)))
    BY <1>2 DEF HeaderAsks
  <2> QED BY <1>0, <1>a, <2>1
<1>3. CASE x \in BodyAsks(rs, p.body, s.body)
  <2>0. IsBody(p.body) /\ IsBody(s.body)
    BY ResponseShape
  <2>1. CASE p.body.json /\ s.body.json
    <3> DEFINE a == p.body.value
               b == s.body.value
               place == x.at
    <3>1. place \in Reached(rs, a, b) /\ x \in AsksAt(rs, a, b, place)
      BY <1>3, <2>0, <2>1, BodyAskShape
    <3>2. place \in DOMAIN a \union DOMAIN b /\ IsTree(a) /\ IsTree(b)
      BY <2>0, <2>1, <3>1 DEF Reached, KeysOf, IsBody
    <3>3. CASE place \notin DOMAIN a \intersect DOMAIN b
      <4>1. x = Ask("body_key", place, Path(place), At(a, place), At(b, place))
        BY <3>1, <3>3 DEF AsksAt
      <4>2. x.kind = "body_key" /\ x.primary = At(a, place) /\ x.shadow = At(b, place)
        BY <1>0, <4>1
      <4> QED BY <3>2, <3>3, <4>2, KeyTold DEF Told
    <3>4. CASE place \in DOMAIN a \intersect DOMAIN b /\ a[place].type # b[place].type
      <4>1. x = Ask("shape", place, Path(place), Str(a[place].type), Str(b[place].type))
        BY <3>1, <3>4 DEF AsksAt
      <4> QED BY <1>0, <1>a, <4>1
    <3>5. CASE /\ place \in DOMAIN a \intersect DOMAIN b /\ a[place].type = b[place].type
               /\ a[place].type = "object"
      BY <3>1, <3>5 DEF AsksAt
    <3>6. CASE /\ place \in DOMAIN a \intersect DOMAIN b /\ a[place].type = b[place].type
               /\ a[place].type = "array"
      <4>1. x \in AsksAtArray(rs, a, b, place)
        BY <3>1, <3>6 DEF AsksAt
      <4>2. x = Ask("shape", place, Path(place), Items(a[place].length), Items(b[place].length))
        BY <1>0, <4>1 DEF AsksAtArray, Lengths
      <4>3. \A n : \E t : Items(n) = Str(t)
        BY DEF Items
      <4> QED BY <1>0, <1>a, <4>2, <4>3
    <3>7. CASE /\ place \in DOMAIN a \intersect DOMAIN b /\ a[place].type = b[place].type
               /\ a[place].type \notin {"object", "array"}
      <4>1. /\ x = Ask("body_value", place, Path(place), At(a, place), At(b, place))
            /\ ~ScalarEqual(a[place], b[place])
        BY <3>1, <3>7 DEF AsksAt
      <4> QED BY <1>0, <2>1, <3>7, <4>1, ScalarTold
    <3> QED BY <3>3, <3>4, <3>5, <3>6, <3>7
  <2>2. CASE ~(p.body.json /\ s.body.json)
    <3>1. \/ x = Ask("shape", <<>>, Path(<<>>), Jsonness(p.body), Jsonness(s.body))
          \/ x = Ask("body_value", <<>>, Path(<<>>), Str(p.body.bytes), Str(s.body.bytes))
      BY <1>3, <2>2 DEF BodyAsks
    <3>2. \A body : \E t : Jsonness(body) = Str(t)
      BY DEF Jsonness
    <3> QED BY <1>0, <1>a, <3>1, <3>2
  <2> QED BY <2>1, <2>2
<1> QED BY <1>1, <1>2, <1>3 DEF Asks

\* A rule that hides the texts would have hidden the values, but for what is lost
\* in rendering.
LEMMA TextsJudgeLess ==
  ASSUME NEW x, Told(x), NEW normalise,
         SuppressRendered(normalise, x.primary, x.shadow),
         normalise.kind = "len" => InFull(x.primary) /\ InFull(x.shadow),
         normalise.kind \in {"trim", "lower"}
           => /\ ~IsCut(x.primary) /\ ~IsCut(x.shadow)
              /\ ~(x.kind = "body_key" /\ Top(x.primary).type # Top(x.shadow).type)
  PROVE  EqualOnlyNormalised(normalise, x.primary, x.shadow)
<1> DEFINE a == x.primary
           b == x.shadow
           u == Rendered(a)
           w == Rendered(b)
<1>1. u # w /\ a # b
  BY DEF SuppressRendered
<1>2. CASE normalise.kind = "round"
  BY <1>1, <1>2 DEF SuppressRendered, EqualOnlyNormalised
<1>3. CASE normalise.kind = "len"
  <2>1. Equal(normalise, Str(u), Str(w))
    BY <1>3 DEF SuppressRendered
  <2>2. \A v : InFull(v) => Top(v).type = "string" /\ Rendered(v) = Top(v).text
    BY UncutIsItself DEF InFull, Written
  <2>3. LengthOf(Str(u)) = LengthOf(a) /\ LengthOf(Str(w)) = LengthOf(b)
    <3>1. /\ Top(a).type = "string" /\ Top(Str(u)).type = "string" /\ Top(Str(u)).text = Top(a).text
          /\ Top(b).type = "string" /\ Top(Str(w)).type = "string" /\ Top(Str(w)).text = Top(b).text
      BY <1>3, <2>2, StrIsItself
    <3> QED BY <3>1 DEF LengthOf
  <2>4. Equal(normalise, a, b)
    BY <1>3, <2>1, <2>3 DEF Equal
  <2> QED BY <1>1, <2>4 DEF EqualOnlyNormalised
<1>4. CASE normalise.kind \notin {"round", "len"}
  <2>1. Equal(normalise, Str(u), Str(w))
    BY <1>4 DEF SuppressRendered
  <2>2. normalise.kind # "sort"
    <3>1. Equal(normalise, Str(u), Str(w)) /\ normalise.kind = "sort" => EqualSorted(Str(u), Str(w))
      BY DEF Equal
    <3>2. ~EqualSorted(Str(u), Str(w))
      <4>1. Top(Str(u)).type # "array"
        BY StrIsItself
      <4> QED BY <4>1 DEF EqualSorted
    <3> QED BY <2>1, <3>1, <3>2
  <2>3. PICK f \in {Trims, Folds} :
          /\ normalise.kind \in {"trim", "lower"}
          /\ Become(f, u) = Become(f, w)
          /\ EqualTexts(f, a, b) => Equal(normalise, a, b)
    <3>1. \A f : EqualTexts(f, Str(u), Str(w)) => Become(f, u) = Become(f, w)
      BY StrIsItself DEF EqualTexts
    <3>2. CASE normalise.kind = "trim"
      <4>1. EqualTexts(Trims, Str(u), Str(w))
        BY <2>1, <3>2 DEF Equal
      <4>2. EqualTexts(Trims, a, b) => Equal(normalise, a, b)
        BY <3>2 DEF Equal
      <4> QED BY <3>1, <3>2, <4>1, <4>2
    <3>3. CASE normalise.kind = "lower"
      <4>1. EqualTexts(Folds, Str(u), Str(w))
        BY <2>1, <3>3 DEF Equal
      <4>2. EqualTexts(Folds, a, b) => Equal(normalise, a, b)
        BY <3>3 DEF Equal
      <4> QED BY <3>1, <3>3, <4>1, <4>2
    <3>4. normalise.kind \in {"trim", "lower"}
      BY <1>4, <2>1, <2>2 DEF Equal
    <3> QED BY <3>2, <3>3, <3>4
  <2>0. u = Written(a) /\ w = Written(b)
    BY <2>3, UncutIsItself
  <2>4. CASE Top(a).type = "string" /\ Top(b).type = "string"
    <3>1. u = Top(a).text /\ w = Top(b).text
      BY <2>0, <2>4 DEF Written
    <3>2. EqualTexts(f, a, b)
      BY <2>3, <2>4, <3>1 DEF EqualTexts
    <3> QED BY <1>1, <2>3, <3>2 DEF EqualOnlyNormalised
  <2>5. CASE /\ Top(a).type = "number" /\ Top(b).type = "number"
             /\ Top(a) \in AllNumbers /\ Top(b) \in AllNumbers
             /\ Top(a).value # Top(b).value
    <3>1. u = Top(a).text /\ w = Top(b).text
      BY <2>0, <2>5 DEF Written
    <3>2. \A m, n \in AllNumbers, g \in {Trims, Folds} :
            Become(g, m.text) = Become(g, n.text) => m.value = n.value
      BY ReportAssumption DEF AllNumbers
    <3> QED BY <2>3, <2>5, <3>1, <3>2
  <2>6. CASE OwnWord(Str(u)) /\ OwnWord(Str(w))
    <3>1. \A t : OwnWord(Str(t)) => t \notin DOMAIN Trims /\ t \notin DOMAIN Folds
      BY StrIsItself DEF OwnWord
    <3>2. Become(f, u) = u /\ Become(f, w) = w
      BY <2>3, <2>6, <3>1 DEF Become
    <3> QED BY <1>1, <2>3, <3>2
  <2> QED BY <1>1, <2>3, <2>4, <2>5, <2>6 DEF Told
<1> QED BY <1>2, <1>3, <1>4

\* What a finding that goes though the engine would report it is due to.
LostInRendering(rule, d) ==
  /\ ~rule.ignore
  /\ \/ /\ rule.normalise.kind = "len"
        /\ ~(InFull(d.primary) /\ InFull(d.shadow))
     \/ /\ rule.normalise.kind \in {"trim", "lower"}
        /\ \/ IsCut(d.primary) \/ IsCut(d.shadow)
           \/ d.kind = "body_key" /\ Top(d.primary).type # Top(d.shadow).type

\* Asked afterwards, the rules hide no more, and each finding is kept or counted.
LEMMA ReplayOfPair ==
  ASSUME NEW rs, NEW p \in Responses, NEW s \in Responses
  PROVE  /\ Cardinality(Apply(rs, Diff(<<>>, p, s)).differences)
              + Apply(rs, Diff(<<>>, p, s)).suppressed
              = Cardinality(Diff(<<>>, p, s).differences)
         /\ \A d \in Diff(rs, p, s).differences \ Apply(rs, Diff(<<>>, p, s)).differences :
              LostInRendering(rs[Match(rs, d.path)], d)
<1> DEFINE bare == Diff(<<>>, p, s)
           hides(d) == LET i == Match(rs, d.path)
                       IN  /\ i # 0
                           /\ rs[i].ignore \/ SuppressRendered(rs[i].normalise, d.primary, d.shadow)
           H == {d \in bare.differences : hides(d)}
           replay == Apply(rs, bare)
<1>1. replay.differences = bare.differences \ H /\ replay.suppressed = bare.suppressed + Cardinality(H)
  BY DEF Apply
<1>2. IsFiniteSet(bare.differences)
  BY ResultIs
<1>3. bare.suppressed = 0
  <2>1. HiddenAsks(<<>>, p, s) = {}
    BY NoRules DEF HiddenAsks, Hidden
  <2>2. bare.suppressed = Cardinality(HiddenAsks(<<>>, p, s))
    BY ResultIs
  <2>3. Cardinality({}) = 0
    BY FS_EmptySet
  <2> HIDE DEF bare
  <2> QED BY <2>1, <2>2, <2>3
<1>4. \A d : d \in Diff(rs, p, s).differences =>
        d \in bare.differences /\ d \in Asks(rs, p, s) /\ d.kind # "array" /\ ~Hidden(rs, d)
  BY ResultIs, RulesAskLess, NoRules DEF Hidden
<1>5. Cardinality(replay.differences) + replay.suppressed = Cardinality(bare.differences)
  <2> HIDE DEF bare, replay
  <2>1. H \in SUBSET bare.differences /\ bare.differences \cap H = H
    OBVIOUS
  <2> HIDE DEF H
  <2>2. IsFiniteSet(H) /\ IsFiniteSet(bare.differences \ H)
    BY <1>2, <2>1, FS_Subset
  <2>3. /\ Cardinality(H) \in Nat /\ Cardinality(bare.differences \ H) \in Nat
        /\ Cardinality(bare.differences) \in Nat
    BY <1>2, <2>2, FS_CardinalityType
  <2>4. Cardinality(bare.differences \ H) = Cardinality(bare.differences) - Cardinality(H)
    BY <1>2, <2>1, FS_Difference
  <2> QED BY <1>1, <1>3, <2>3, <2>4
<1>6. ASSUME NEW d \in Diff(rs, p, s).differences \ replay.differences
      PROVE  LostInRendering(rs[Match(rs, d.path)], d)
  <2> DEFINE i == Match(rs, d.path)
             rule == rs[i]
  <2>1. d \in H
    BY <1>1, <1>4
  <2>2. i # 0 /\ (rule.ignore \/ SuppressRendered(rule.normalise, d.primary, d.shadow))
    BY <2>1
  <2>3. ~(rule.ignore \/ EqualOnlyNormalised(rule.normalise, d.primary, d.shadow))
    BY <1>4, <2>2 DEF Hidden, Suppress
  <2>4. Told(d)
    BY <1>4, FindingTold
  <2> HIDE DEF rule
  <2>5. LostInRendering(rule, d)
    BY <2>2, <2>3, <2>4, TextsJudgeLess DEF LostInRendering
  <2> QED BY <2>5 DEF rule
<1> QED BY <1>5, <1>6

-----------------------------------------------------------------------------
(* The report                                                              *)

Rules == Range(Defaults) \union UNION {Range(loaded) : loaded \in Rulesets}

\* What a pair can show.
Shows == {BagToSet(Findings(Diff(rs, p, s))) : rs \in Seq(Rules), p \in Responses, s \in Responses}

LastIsPair ==
  last # NoPair =>
    /\ last.primary \in Responses /\ last.shadow \in Responses
    /\ last.result = Diff(rules, last.primary, last.shadow)

\* The inductive invariant: every counter is told by what each pair has shown.
IInv ==
  /\ rules \in Seq(Rules)
  /\ shown \in Seq(Shows)
  /\ LastIsPair
  /\ TypeOK
  /\ AgreementIsHonest
  /\ RatesAreShares

\* One more index to count.
LEMMA OneMore ==
  ASSUME NEW N \in Nat, NEW S, NEW T, S \subseteq 1 .. N, T \subseteq 1 .. N + 1,
         \A n \in 1 .. N : n \in T <=> n \in S
  PROVE  /\ Cardinality(S) \in 0 .. N
         /\ Cardinality(T) = Cardinality(S) + IF N + 1 \in T THEN 1 ELSE 0
<1>1. IsFiniteSet(1 .. N) /\ Cardinality(1 .. N) = N
  BY FS_Interval
<1>2. IsFiniteSet(S) /\ Cardinality(S) <= N
  BY <1>1, FS_Subset
<1>3. Cardinality(S) \in Nat
  BY <1>2, FS_CardinalityType
<1>4. N + 1 \notin S
  OBVIOUS
<1>5. \A n \in 1 .. N + 1 : n \in 1 .. N \/ n = N + 1
  OBVIOUS
<1>6. CASE N + 1 \in T
  <2>1. T = S \union {N + 1}
    <3>1. \A n : n \in T => n \in S \/ n = N + 1
      BY <1>5
    <3>2. \A n : n \in S => n \in T
      OBVIOUS
    <3> QED BY <1>6, <3>1, <3>2
  <2>2. Cardinality(T) = Cardinality(S) + 1
    BY <1>2, <1>4, <2>1, FS_AddElement
  <2> QED BY <1>2, <1>3, <1>6, <2>2
<1>7. CASE N + 1 \notin T
  <2>1. T = S
    <3>1. \A n : n \in T => n \in S
      BY <1>5, <1>7
    <3>2. \A n : n \in S => n \in T
      OBVIOUS
    <3> QED BY <3>1, <3>2
  <2> QED BY <1>2, <1>3, <1>7, <2>1
<1> QED BY <1>6, <1>7

\* One more set to unite.
LEMMA UnionOfMore ==
  ASSUME NEW A, NEW B, NEW F, B = A \union {F}
  PROVE  UNION B = (UNION A) \union F
OBVIOUS

\* The findings of a pair are of the forms that the type invariant names.
LEMMA FindingShape ==
  ASSUME NEW rs, NEW p \in Responses, NEW s \in Responses,
         NEW g \in {Finding(d) : d \in Diff(rs, p, s).differences}
  PROVE  \/ g.kind = "status" /\ g.path = <<"status">>
         \/ g.kind = "header" /\ Len(g.path) = 2 /\ g.path[1] = "headers"
         \/ g.kind \in {"shape", "body_key", "body_value"} /\ g.path[1] = "body"
<1>1. PICK d \in Diff(rs, p, s).differences : g = Finding(d)
  OBVIOUS
<1>2. d \in Asks(rs, p, s) /\ d.kind # "array"
  BY ResultIs
<1>3. Shaped(d)
  BY <1>2, AskShape
<1>4. g.kind = d.kind /\ g.path = d.path
  BY <1>1 DEF Finding
<1>5. \A name : Len(HeaderPath(name)) = 2 /\ HeaderPath(name)[1] = "headers"
  BY DEF HeaderPath
<1>6. \A place \in Places : Path(place)[1] = "body"
  BY PathProperties
<1> QED BY <1>2, <1>3, <1>4, <1>5, <1>6 DEF Shaped, PlaceKinds

\* A fresh report.
LEMMA InitIInv == Init => IInv
<1> SUFFICES ASSUME Init PROVE IInv
  OBVIOUS
<1>1. rules \in Seq(Rules)
  <2>1. PICK loaded \in Rulesets : rules = Defaults \o loaded
    BY DEF Init, Merge
  <2>2. Defaults \in Seq(Rules)
    <3>1. Range(Defaults) \subseteq Rules
      BY DEF Rules
    <3> HIDE DEF Rules
    <3> QED BY <3>1, ReportAssumption, SeqMonotonic
  <2>3. loaded \in Seq(Rules)
    <3>1. Range(loaded) \subseteq Rules
      BY <2>1 DEF Rules
    <3> HIDE DEF Rules
    <3> QED BY <2>1, <3>1, ReportAssumption, SeqMonotonic
  <2> HIDE DEF Rules
  <2> QED BY <2>1, <2>2, <2>3, ConcatProperties
<1>2. shown = <<>> /\ shown \in Seq(Shows) /\ Len(shown) = 0 /\ ToSet(shown) = {}
  <2>1. shown = <<>>
    BY DEF Init
  <2>2. Len(shown) = 0 /\ shown \in Seq(Shows)
    BY <2>1
  <2>3. DOMAIN shown = {}
    BY <2>1
  <2>4. ToSet(shown) = {}
    BY <2>3 DEF ToSet
  <2> QED BY <2>1, <2>2, <2>4
<1>3. LastIsPair
  BY DEF Init, LastIsPair
<1>4. groups = [e \in {} |-> 1] /\ DOMAIN groups = {} /\ pairs = 0 /\ identical = 0
      /\ suppressed = 0 /\ same = 0
  BY DEF Init, EmptyBag, SetToBag
<1>5. MaxPairs \in Nat
  BY ReportAssumption
<1>6. IsABag(groups) /\ BagToSet(groups) = {}
  BY <1>4 DEF IsABag, BagToSet
<1>7. TypeOK
  BY <1>2, <1>4, <1>5, <1>6 DEF TypeOK
<1>8. AgreementIsHonest
  BY <1>4 DEF AgreementIsHonest
<1>9. RatesAreShares
  <2>1. {n \in 1 .. pairs : shown[n] # {}} = {}
    BY <1>4
  <2>2. Cardinality({n \in 1 .. pairs : shown[n] # {}}) = 0
    BY <2>1, FS_EmptySet
  <2>3. UNION ToSet(shown) = {}
    BY <1>2
  <2> QED BY <1>4, <1>6, <2>2, <2>3 DEF RatesAreShares
<1> QED BY <1>1, <1>2, <1>3, <1>7, <1>8, <1>9 DEF IInv

\* A pair keeps it.
LEMMA ConsumeIInv ==
  ASSUME IInv, NEW p \in Responses, NEW s \in Responses, Consume(p, s)
  PROVE  IInv'
<1> DEFINE result == Diff(rules, p, s)
           F == {Finding(d) : d \in result.differences}
<1>1. /\ pairs \in 0 .. MaxPairs /\ identical \in 0 .. pairs /\ same \in 0 .. pairs
      /\ suppressed \in Nat /\ Len(shown) = pairs /\ MaxPairs \in Nat
      /\ pairs \in Nat
  BY ReportAssumption DEF IInv, TypeOK
<1>2. /\ pairs < MaxPairs /\ pairs' = pairs + 1 /\ rules' = rules
      /\ suppressed' = suppressed + result.suppressed
      /\ identical' = identical + (IF Identical(result) THEN 1 ELSE 0)
      /\ groups' = groups (+) Findings(result)
      /\ same' = same + (IF SaysTheSame(p, s) THEN 1 ELSE 0)
      /\ shown' = Append(shown, BagToSet(Findings(result)))
      /\ last' = [primary |-> p, shadow |-> s, result |-> result]
  BY DEF Consume, Filed, Hides
<1>3. Findings(result) = [f \in F |-> 1]
  BY FindingsAreOnce
<1>4. result.suppressed \in Nat
  BY ResultIs
<1>5. Identical(result) <=> F = {}
  BY DEF Identical
<1>6. \A g \in F :
        \/ g.kind = "status" /\ g.path = <<"status">>
        \/ g.kind = "header" /\ Len(g.path) = 2 /\ g.path[1] = "headers"
        \/ g.kind \in {"shape", "body_key", "body_value"} /\ g.path[1] = "body"
  BY FindingShape
<1>7. /\ SaysTheSame(p, s) => Identical(result)
      /\ ~SaysTheSame(p, s) /\ Identical(result) => result.suppressed >= 1
  BY AgreementOfPair
<1>8. F \in Shows
  <2>1. BagToSet(Findings(result)) \in Shows
    BY DEF IInv, Shows
  <2> HIDE DEF F
  <2>2. BagToSet(Findings(result)) = F
    BY <1>3 DEF BagToSet
  <2> QED BY <2>1, <2>2
<1>9. LastIsPair'
  BY <1>2 DEF LastIsPair
<1> HIDE DEF result, F
<1>10. shown' = Append(shown, F)
  BY <1>2, <1>3 DEF BagToSet
<1>11. /\ shown' \in Seq(Shows) /\ Len(shown') = pairs + 1
       /\ \A n \in 1 .. pairs : shown'[n] = shown[n]
       /\ shown'[pairs + 1] = F
  <2>1. shown \in Seq(Shows)
    BY DEF IInv
  <2> HIDE DEF Shows
  <2> QED BY <1>1, <1>8, <1>10, <2>1, AppendProperties
<1>12. /\ BagToSet(groups') = BagToSet(groups) \union F
       /\ \A g \in BagToSet(groups') :
            groups'[g] = (IF g \in BagToSet(groups) THEN groups[g] ELSE 0) + (IF g \in F THEN 1 ELSE 0)
       /\ groups' = [g \in BagToSet(groups') |-> groups'[g]]
  BY <1>2, <1>3 DEF (+), BagToSet
<1>13. IsABag(groups) /\ BagToSet(groups) = UNION ToSet(shown)
       /\ \A g \in BagToSet(groups) : groups[g] \in Nat \ {0}
  BY DEF IInv, TypeOK, RatesAreShares, IsABag, BagToSet
<1>14. TypeOK'
  <2>1. \A g \in BagToSet(groups') : groups'[g] \in Nat \ {0}
    BY <1>12, <1>13
  <2>2. IsABag(groups')
    BY <1>12, <2>1 DEF IsABag, BagToSet
  <2>3. \A g \in BagToSet(groups') :
          \/ g.kind = "status" /\ g.path = <<"status">>
          \/ g.kind = "header" /\ Len(g.path) = 2 /\ g.path[1] = "headers"
          \/ g.kind \in {"shape", "body_key", "body_value"} /\ g.path[1] = "body"
    BY <1>6, <1>12 DEF IInv, TypeOK
  <2>4. /\ pairs' \in 0 .. MaxPairs /\ identical' \in 0 .. pairs' /\ same' \in 0 .. pairs'
        /\ suppressed' \in Nat
    BY <1>1, <1>2, <1>4
  <2>5. Len(shown') = pairs'
    BY <1>2, <1>11
  <2> QED BY <2>2, <2>3, <2>4, <2>5 DEF TypeOK
<1>15. AgreementIsHonest'
  <2>1. same <= identical /\ identical - same <= suppressed
    BY DEF IInv, AgreementIsHonest
  <2>2. CASE SaysTheSame(p, s)
    BY <1>1, <1>2, <1>4, <1>7, <2>1, <2>2 DEF AgreementIsHonest
  <2>3. CASE ~SaysTheSame(p, s) /\ Identical(result)
    BY <1>1, <1>2, <1>4, <1>7, <2>1, <2>3 DEF AgreementIsHonest
  <2>4. CASE ~SaysTheSame(p, s) /\ ~Identical(result)
    BY <1>1, <1>2, <1>4, <2>1, <2>4 DEF AgreementIsHonest
  <2> QED BY <2>2, <2>3, <2>4
<1>16. RatesAreShares'
  <2>1. UNION ToSet(shown') = (UNION ToSet(shown)) \union F
    <3>1. DOMAIN shown = 1 .. pairs /\ DOMAIN shown' = 1 .. pairs + 1
      BY <1>1, <1>11, LenProperties DEF IInv
    <3>2. ToSet(shown') = ToSet(shown) \union {F}
      <4>1. \A t : t \in ToSet(shown') <=> \E n \in 1 .. pairs + 1 : shown'[n] = t
        BY <3>1 DEF ToSet
      <4>2. \A t : t \in ToSet(shown) <=> \E n \in 1 .. pairs : shown[n] = t
        BY <3>1 DEF ToSet
      <4>3. \A n \in 1 .. pairs + 1 : n = pairs + 1 \/ n \in 1 .. pairs
        BY <1>1
      <4>4. pairs + 1 \in 1 .. pairs + 1 /\ \A n \in 1 .. pairs : n \in 1 .. pairs + 1
        BY <1>1
      <4>5. \A t \in ToSet(shown') : t \in ToSet(shown) \/ t = F
        BY <1>11, <4>1, <4>2, <4>3
      <4>6. F \in ToSet(shown') /\ \A t \in ToSet(shown) : t \in ToSet(shown')
        BY <1>11, <4>1, <4>2, <4>4
      <4> QED BY <4>5, <4>6
    <3> QED BY <3>2, UnionOfMore
  <2>2. BagToSet(groups') = UNION ToSet(shown')
    <3>1. BagToSet(groups') = BagToSet(groups) \union F
      BY <1>12
    <3>2. BagToSet(groups) = UNION ToSet(shown)
      BY <1>13
    <3> QED BY <2>1, <3>1, <3>2
  <2>3. ASSUME NEW g \in BagToSet(groups')
        PROVE  groups'[g] = Cardinality({n \in 1 .. pairs' : g \in shown'[n]})
    <3> DEFINE S == {n \in 1 .. pairs : g \in shown[n]}
               T == {n \in 1 .. pairs + 1 : g \in shown'[n]}
    <3>1. \A n \in 1 .. pairs : n \in T <=> n \in S
      BY <1>1, <1>11
    <3>2. pairs + 1 \in T <=> g \in F
      BY <1>1, <1>11
    <3>3. S \subseteq 1 .. pairs /\ T \subseteq 1 .. pairs + 1
      OBVIOUS
    <3>4. g \in BagToSet(groups) => groups[g] = Cardinality(S)
      BY DEF IInv, RatesAreShares
    <3>5. g \notin BagToSet(groups) => S = {}
      <4>1. \A n \in 1 .. pairs : shown[n] \in ToSet(shown)
        BY <1>1, LenProperties DEF IInv, ToSet
      <4> QED BY <1>13, <4>1
    <3>6. {n \in 1 .. pairs' : g \in shown'[n]} = T
      BY <1>2
    <3> HIDE DEF S, T
    <3>7. Cardinality(T) = Cardinality(S) + IF pairs + 1 \in T THEN 1 ELSE 0
      BY <1>1, <3>1, <3>3, OneMore
    <3>8. S = {} => Cardinality(S) = 0
      BY FS_EmptySet
    <3>9. groups'[g] = (IF g \in BagToSet(groups) THEN groups[g] ELSE 0) + (IF g \in F THEN 1 ELSE 0)
      BY <1>12
    <3>10. groups'[g] = Cardinality(T)
      BY <3>2, <3>4, <3>5, <3>7, <3>8, <3>9
    <3> QED BY <3>6, <3>10
  <2>4. pairs' - identical' = Cardinality({n \in 1 .. pairs' : shown'[n] # {}})
    <3> DEFINE S == {n \in 1 .. pairs : shown[n] # {}}
               T == {n \in 1 .. pairs + 1 : shown'[n] # {}}
    <3>1. \A n \in 1 .. pairs : n \in T <=> n \in S
      BY <1>1, <1>11
    <3>2. pairs + 1 \in T <=> F # {}
      BY <1>1, <1>11
    <3>3. S \subseteq 1 .. pairs /\ T \subseteq 1 .. pairs + 1
      OBVIOUS
    <3>4. pairs - identical = Cardinality(S)
      BY DEF IInv, RatesAreShares
    <3>5. {n \in 1 .. pairs' : shown'[n] # {}} = T
      BY <1>2
    <3> HIDE DEF S, T
    <3>6. /\ Cardinality(T) = Cardinality(S) + IF pairs + 1 \in T THEN 1 ELSE 0
          /\ Cardinality(S) \in 0 .. pairs
      BY <1>1, <3>1, <3>3, OneMore
    <3>7. pairs' - identical' = Cardinality(T)
      <4>1. CASE Identical(result)
        <5>1. identical' = identical + 1 /\ Cardinality(T) = Cardinality(S)
          BY <1>1, <1>2, <1>5, <3>2, <3>6, <4>1
        <5> QED BY <1>1, <1>2, <3>4, <5>1
      <4>2. CASE ~Identical(result)
        <5>1. identical' = identical /\ Cardinality(T) = Cardinality(S) + 1
          BY <1>1, <1>2, <1>5, <3>2, <3>6, <4>2
        <5> QED BY <1>1, <1>2, <3>4, <5>1
      <4> QED BY <4>1, <4>2
    <3> QED BY <3>5, <3>7
  <2> QED BY <2>2, <2>3, <2>4 DEF RatesAreShares
<1>17. rules' \in Seq(Rules)
  BY <1>2 DEF IInv
<1> QED BY <1>9, <1>11, <1>14, <1>15, <1>16, <1>17 DEF IInv

\* It holds throughout.
LEMMA Invariant == Spec => []IInv
<1>1. IInv /\ [Next]_vars => IInv'
  <2> SUFFICES ASSUME IInv, [Next]_vars PROVE IInv'
    OBVIOUS
  <2>1. CASE \E p, s \in Responses : Consume(p, s)
    BY <2>1, ConsumeIInv
  <2>2. CASE UNCHANGED vars
    <3>1. /\ rules' = rules /\ groups' = groups /\ pairs' = pairs /\ identical' = identical
          /\ suppressed' = suppressed /\ same' = same /\ shown' = shown /\ last' = last
      BY <2>2 DEF vars
    <3>2. LastIsPair' /\ TypeOK' /\ AgreementIsHonest'
      BY <3>1 DEF IInv, LastIsPair, TypeOK, AgreementIsHonest
    <3>3. RatesAreShares'
      BY <3>1 DEF IInv, RatesAreShares
    <3> QED BY <3>1, <3>2, <3>3 DEF IInv
  <2> QED BY <2>1, <2>2 DEF Next, Quiet
<1> QED BY <1>1, InitIInv, PTL DEF Spec

\* Every finding lies in the namespace of the rules' paths, and no count is larger
\* than the number of pairs (Diff's paths, Aggregator.Add).
THEOREM TypeCorrect == Spec => []TypeOK
<1>1. IInv => TypeOK
  BY DEF IInv
<1> QED BY <1>1, Invariant, PTL

\* Suppression is never mistakable for agreement: answers that say the same are
\* counted as identical, and those that are so counted and do not say the same are
\* no more than what is suppressed (Engine.Diff, Aggregator.Add).
THEOREM AgreementHonest == Spec => []AgreementIsHonest
<1>1. IInv => AgreementIsHonest
  BY DEF IInv
<1> QED BY <1>1, Invariant, PTL

\* A group counts the pairs in which its finding is, each once, and the divergent
\* pairs are those that are in a group (Aggregator.Add).
THEOREM RatesHonest == Spec => []RatesAreShares
<1>1. IInv => RatesAreShares
  BY DEF IInv
<1> QED BY <1>1, Invariant, PTL

\* Exchanged, the two answers have the same findings and suppressions (Engine.Diff).
THEOREM SidesEqual == Spec => []SidesAreEqual
<1>1. IInv => SidesAreEqual
  BY ExchangeIsNothing DEF IInv, LastIsPair, SidesAreEqual
<1> QED BY <1>1, Invariant, PTL

\* Rules hide and never invent, and what they hide they hide for a reason that
\* stands (Ruleset.Suppress, sink.add, walkArray).
THEOREM HidingJustified == Spec => []HidingIsJustified
<1>1. IInv => HidingIsJustified
  BY JustifiedOfPair DEF IInv, LastIsPair, HidingIsJustified
<1> QED BY <1>1, Invariant, PTL

\* What is counted as suppressed was suppressed: a pair reports and counts no more
\* than the differences there are without rules and the arrays that are written
\* differently or ignored (sink.add, walkArray, normaliseEqual).
THEOREM SuppressionsReal == Spec => []SuppressionsHappened
<1>1. IInv => SuppressionsHappened
  <2> SUFFICES ASSUME IInv, last # NoPair PROVE SuppressionsHappened
    BY DEF SuppressionsHappened
  <2>1. /\ last.primary \in Responses /\ last.shadow \in Responses
        /\ last.result = Diff(rules, last.primary, last.shadow)
    BY DEF IInv, LastIsPair
  <2>2. last.result.suppressed + Cardinality(last.result.differences)
          <= Cardinality(Diff(<<>>, last.primary, last.shadow).differences)
               + IF last.primary.body.json /\ last.shadow.body.json
                   THEN Cardinality(Offered(rules, last.primary.body, last.shadow.body)) ELSE 0
    BY <2>1, SuppressionsOfPair
  <2> QED BY <2>2 DEF SuppressionsHappened, Offered
<1> QED BY <1>1, Invariant, PTL

\* Rules asked afterwards hide no more than they would have, but for what is lost
\* in rendering, and lose no finding (Ruleset.Apply, suppressRendered).
THEOREM ReplayHides == Spec => []ReplayHidesNoMore
<1>1. IInv => ReplayHidesNoMore
  <2> SUFFICES ASSUME IInv, last # NoPair PROVE ReplayHidesNoMore
    BY DEF ReplayHidesNoMore
  <2>1. /\ last.primary \in Responses /\ last.shadow \in Responses
        /\ last.result = Diff(rules, last.primary, last.shadow)
    BY DEF IInv, LastIsPair
  <2>2. /\ Cardinality(Apply(rules, Diff(<<>>, last.primary, last.shadow)).differences)
             + Apply(rules, Diff(<<>>, last.primary, last.shadow)).suppressed
             = Cardinality(Diff(<<>>, last.primary, last.shadow).differences)
        /\ \A d \in last.result.differences
                   \ Apply(rules, Diff(<<>>, last.primary, last.shadow)).differences :
             LostInRendering(rules[Match(rules, d.path)], d)
    BY <2>1, ReplayOfPair
  <2> QED BY <2>2 DEF ReplayHidesNoMore, LostInRendering
<1> QED BY <1>1, Invariant, PTL

=============================================================================
