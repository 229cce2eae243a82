-------------------------- MODULE CollectorProofs --------------------------
(***************************************************************************)
(* Theorems about the correlating buffer, for every number of callers and  *)
(* ids, every timeout, limit and capacity, posted captures or proxy mode.  *)
(***************************************************************************)
EXTENDS Collector, FiniteSetTheorems, SequenceTheorems, WellFoundedInduction, TLAPS

-----------------------------------------------------------------------------
(* The operators the critical sections are made of *)

\* A map from ids to well-formed captures of that id, and a slice that names
\* each of its ids once: the two halves of OrderMatchesPending.
Table(held) ==
  /\ DOMAIN held \subseteq Ids
  /\ IsFiniteSet(DOMAIN held)
  /\ held = [i \in DOMAIN held |-> held[i]]
  /\ \A i \in DOMAIN held :
       held[i] \in Capture /\ held[i].id = i /\ WellFormed(held[i])

Index(ord, held, n) ==
  /\ DOMAIN ord \subseteq 1 .. n
  /\ ord = [j \in DOMAIN ord |-> ord[j]]
  /\ \A j \in DOMAIN ord : ord[j] \in DOMAIN held
  /\ \A i \in DOMAIN held : \E j \in DOMAIN ord : ord[j] = i
  /\ \A j, k \in DOMAIN ord : ord[j] = ord[k] => j = k

\* Deleting any set of ids from the map leaves a map (expire, remove,
\* evictOldest), and its size drops by the number of ids that were there.
LEMMA WithoutTable ==
  ASSUME NEW held, NEW S, Table(held)
  PROVE  /\ Table(Without(held, S))
         /\ DOMAIN Without(held, S) = DOMAIN held \ S
         /\ \A i \in DOMAIN held \ S : Without(held, S)[i] = held[i]
         /\ S \subseteq DOMAIN held =>
              /\ IsFiniteSet(S)
              /\ Cardinality(DOMAIN Without(held, S))
                   = Cardinality(DOMAIN held) - Cardinality(S)
<1>1. /\ DOMAIN Without(held, S) = DOMAIN held \ S
      /\ \A i \in DOMAIN held \ S : Without(held, S)[i] = held[i]
      /\ Without(held, S) = [i \in DOMAIN held \ S |-> held[i]]
  BY DEF Without, Restrict
<1>2. IsFiniteSet(DOMAIN held \ S)
  BY FS_Difference DEF Table
<1>3. Table(Without(held, S))
  BY <1>1, <1>2 DEF Table
<1>4. ASSUME S \subseteq DOMAIN held
      PROVE  /\ IsFiniteSet(S)
             /\ Cardinality(DOMAIN Without(held, S))
                  = Cardinality(DOMAIN held) - Cardinality(S)
  <2>1. IsFiniteSet(DOMAIN held)
    BY DEF Table
  <2>2. IsFiniteSet(S)
    BY <1>4, <2>1, FS_Subset
  <2>3. DOMAIN held \cap S = S
    BY <1>4
  <2> QED BY <1>1, <2>1, <2>2, <2>3, FS_Difference
<1> QED BY <1>1, <1>3, <1>4

\* Storing a capture under an id that is free, or in place of the one that is
\* held, leaves a map.
LEMMA PutTable ==
  ASSUME NEW held, NEW c \in Capture, Table(held), WellFormed(c)
  PROVE  /\ Table(Put(held, c.id, c))
         /\ DOMAIN Put(held, c.id, c) = DOMAIN held \union {c.id}
         /\ c.id \notin DOMAIN held =>
              Cardinality(DOMAIN Put(held, c.id, c)) = Cardinality(DOMAIN held) + 1
<1>1. DOMAIN Put(held, c.id, c) = DOMAIN held \union {c.id}
  BY DEF Put
<1>2. c.id \in Ids
  BY DEF Capture, WellFormed
<1>3. /\ IsFiniteSet(DOMAIN held \union {c.id})
      /\ c.id \notin DOMAIN held =>
           Cardinality(DOMAIN held \union {c.id}) = Cardinality(DOMAIN held) + 1
  BY FS_AddElement DEF Table
<1>4. Table(Put(held, c.id, c))
  BY <1>1, <1>2, <1>3 DEF Table, Put
<1> QED BY <1>1, <1>3, <1>4

\* Replacing the capture held under an id keeps the ids of the map.
LEMMA ReplaceTable ==
  ASSUME NEW held, NEW c \in Capture, Table(held), WellFormed(c), c.id \in DOMAIN held
  PROVE  /\ Table([held EXCEPT ![c.id] = c])
         /\ DOMAIN [held EXCEPT ![c.id] = c] = DOMAIN held
  BY DEF Table

\* compactOrder restores the correspondence after any deletion from the map.
LEMMA CompactIndex ==
  ASSUME NEW ord, NEW held, NEW kept, NEW n,
         Index(ord, held, n), DOMAIN kept \subseteq DOMAIN held
  PROVE  Index(Compact(ord, kept), kept, n)
  BY DEF Index, Compact, Restrict

\* Appending to the slice keeps the correspondence when the id is free.
LEMMA PutIndex ==
  ASSUME NEW ord, NEW held, NEW n \in Nat, NEW i, NEW c,
         Index(ord, held, n), i \notin DOMAIN held
  PROVE  Index(Put(ord, n + 1, i), Put(held, i, c), n + 1)
<1>1. /\ DOMAIN Put(ord, n + 1, i) = DOMAIN ord \union {n + 1}
      /\ DOMAIN Put(held, i, c) = DOMAIN held \union {i}
      /\ Put(ord, n + 1, i)[n + 1] = i
      /\ \A j \in DOMAIN ord : j # n + 1 => Put(ord, n + 1, i)[j] = ord[j]
  BY DEF Put
<1>2. n + 1 \notin DOMAIN ord
  BY DEF Index
<1>3. \A j \in DOMAIN ord : Put(ord, n + 1, i)[j] = ord[j]
  BY <1>1, <1>2
<1>4. DOMAIN Put(ord, n + 1, i) \subseteq 1 .. n + 1
  BY <1>1 DEF Index
<1>5. Put(ord, n + 1, i) = [j \in DOMAIN Put(ord, n + 1, i) |-> Put(ord, n + 1, i)[j]]
  BY DEF Put
<1> QED BY <1>1, <1>2, <1>3, <1>4, <1>5 DEF Index

-----------------------------------------------------------------------------
(* Typing, and the map with its slice *)

CallState ==
  [pc : {"idle"}] \union [pc : {"called"}, cap : Capture]
                  \union [pc : {"send", "full"}, pair : Pair]

\* TypeOK and OrderMatchesPending in the form the steps preserve.
Shape ==
  /\ TypeOK
  /\ Table(pending)
  /\ Index(order, pending, stats.received)

\* The inductive invariant says what the two invariants say.
LEMMA ShapeImplies == Shape => TypeOK /\ OrderMatchesPending
<1> SUFFICES ASSUME Shape PROVE TypeOK /\ OrderMatchesPending
  OBVIOUS
<1>1. Range(order) = DOMAIN pending
  BY DEF Shape, Index, Range
<1>2. IsInjective(order)
  BY DEF Shape, Index, IsInjective
<1>3. \A i \in DOMAIN pending : pending[i].id = i /\ WellFormed(pending[i])
  BY DEF Shape, Table
<1> QED BY <1>1, <1>2, <1>3 DEF Shape, OrderMatchesPending

\* What a call holds in each of its states.
LEMMA CallsTyped ==
  ASSUME TypeOK, NEW g \in Callers
  PROVE  /\ calls[g] \in CallState
         /\ calls[g].pc = "called" => calls[g].cap \in Capture
         /\ calls[g].pc \in {"send", "full"} => calls[g].pair \in Pair
  BY DEF TypeOK, CallState

GoneType == [superseded : Nat, overflowed : Nat, consumed : Nat]

StatType == [received : Nat, paired : Int, expired : Nat, dropped : Nat, discarded : Nat]

\* The record types of TypeOK by name, so that a leaf need not expand it.
LEMMA RecordsTyped ==
  ASSUME TypeOK
  PROVE  /\ calls \in [Callers -> CallState]
         /\ gone \in GoneType
         /\ stats \in StatType
  BY DEF TypeOK, CallState, GoneType, StatType

\* What every critical section that files a capture starts from.
LEMMA HeldShape ==
  ASSUME Shape, NEW t \in Nat
  PROVE  /\ Table(Held(t))
         /\ DOMAIN Held(t) = DOMAIN pending \ Expired(t)
         /\ \A i \in DOMAIN Held(t) : Held(t)[i] = pending[i]
         /\ Expired(t) \subseteq DOMAIN pending
         /\ Cardinality(Expired(t)) \in Nat
         /\ Cardinality(DOMAIN pending) \in Nat
         /\ Cardinality(DOMAIN Held(t)) = Cardinality(DOMAIN pending) - Cardinality(Expired(t))
         /\ Index(Compact(order, Held(t)), Held(t), stats.received)
<1>1. Expired(t) \subseteq DOMAIN pending
  BY DEF Expired
<1>2. /\ Table(Held(t))
      /\ DOMAIN Held(t) = DOMAIN pending \ Expired(t)
      /\ \A i \in DOMAIN Held(t) : Held(t)[i] = pending[i]
      /\ IsFiniteSet(Expired(t))
      /\ Cardinality(DOMAIN Held(t)) = Cardinality(DOMAIN pending) - Cardinality(Expired(t))
  <2>1. Table(pending)
    BY DEF Shape
  <2>2. /\ Table(Without(pending, Expired(t)))
        /\ DOMAIN Without(pending, Expired(t)) = DOMAIN pending \ Expired(t)
        /\ \A i \in DOMAIN pending \ Expired(t) :
             Without(pending, Expired(t))[i] = pending[i]
        /\ IsFiniteSet(Expired(t))
        /\ Cardinality(DOMAIN Without(pending, Expired(t)))
             = Cardinality(DOMAIN pending) - Cardinality(Expired(t))
    BY <1>1, <2>1, WithoutTable
  <2> QED BY <2>2 DEF Held
<1>3. Cardinality(Expired(t)) \in Nat /\ Cardinality(DOMAIN pending) \in Nat
  BY <1>2, FS_CardinalityType DEF Shape, Table
<1>4. Index(Compact(order, Held(t)), Held(t), stats.received)
  BY <1>2, CompactIndex DEF Shape
<1> QED BY <1>1, <1>2, <1>3, <1>4

\* PairOf builds a pair from any two captures.
LEMMA PairOfTyped ==
  ASSUME NEW c \in Capture, NEW d \in Capture
  PROVE  PairOf(c, d) \in Pair
  BY DEF PairOf, Pair

\* What a well-formed capture's expiry does to each counter.
LEMMA CountedTyped ==
  ASSUME Shape, NEW t \in Nat
  PROVE  /\ Counted(t) \in StatType
         /\ Counted(t).received = stats.received + 1
         /\ Counted(t).expired = stats.expired + Cardinality(Expired(t))
         /\ Counted(t).paired = stats.paired
         /\ Counted(t).dropped = stats.dropped
         /\ Counted(t).discarded = stats.discarded
<1> DEFINE n == Cardinality(Expired(t))
           s1 == [stats EXCEPT !.received = @ + 1]
<1>1. n \in Nat /\ stats \in StatType
  BY HeldShape DEF Shape, TypeOK, StatType
<1>2. Counted(t) = [s1 EXCEPT !.expired = s1.expired + n]
  BY <1>1 DEF Counted, StatType
<1>3. /\ s1 \in StatType
      /\ s1.received = stats.received + 1
      /\ s1.expired = stats.expired
      /\ s1.paired = stats.paired
      /\ s1.dropped = stats.dropped
      /\ s1.discarded = stats.discarded
  BY <1>1 DEF StatType
<1> HIDE DEF n, s1
<1>4. /\ Counted(t) \in StatType
      /\ Counted(t).received = stats.received + 1
      /\ Counted(t).expired = stats.expired + n
      /\ Counted(t).paired = stats.paired
      /\ Counted(t).dropped = stats.dropped
      /\ Counted(t).discarded = stats.discarded
  BY <1>1, <1>2, <1>3 DEF StatType
<1> QED BY <1>4 DEF n

\* What a malformed capture does to each counter.
LEMMA DiscardTyped ==
  ASSUME NEW s \in StatType
  PROVE  LET r == [s EXCEPT !.received = @ + 1, !.discarded = @ + 1]
         IN  /\ r \in StatType
             /\ r.received = s.received + 1 /\ r.discarded = s.discarded + 1
             /\ r.paired = s.paired /\ r.expired = s.expired /\ r.dropped = s.dropped
<1> DEFINE s1 == [s EXCEPT !.received = @ + 1]
<1>1. /\ s1 \in StatType /\ s1.received = s.received + 1
      /\ s1.discarded = s.discarded /\ s1.paired = s.paired
      /\ s1.expired = s.expired /\ s1.dropped = s.dropped
  BY DEF StatType
<1>2. [s EXCEPT !.received = @ + 1, !.discarded = @ + 1]
        = [s1 EXCEPT !.discarded = s1.discarded + 1]
  BY DEF StatType
<1> HIDE DEF s1
<1>3. [s1 EXCEPT !.discarded = s1.discarded + 1] \in StatType
  BY <1>1 DEF StatType
<1>4. QED BY <1>1, <1>2, <1>3 DEF StatType

\* What an overflowing pair does to each counter: Dropped up, Paired down.
LEMMA CountDropTyped ==
  ASSUME NEW s \in StatType
  PROVE  LET r == [s EXCEPT !.dropped = @ + 1, !.paired = @ - 1]
         IN  /\ r \in StatType
             /\ r.received = s.received /\ r.discarded = s.discarded
             /\ r.paired = s.paired - 1 /\ r.dropped = s.dropped + 1
             /\ r.expired = s.expired
<1> DEFINE s1 == [s EXCEPT !.dropped = @ + 1]
<1>1. /\ s1 \in StatType /\ s1.received = s.received
      /\ s1.discarded = s.discarded /\ s1.paired = s.paired
      /\ s1.expired = s.expired /\ s1.dropped = s.dropped + 1
  BY DEF StatType
<1>2. [s EXCEPT !.dropped = @ + 1, !.paired = @ - 1]
        = [s1 EXCEPT !.paired = s1.paired - 1]
  BY DEF StatType
<1> HIDE DEF s1
<1>3. [s1 EXCEPT !.paired = s1.paired - 1] \in StatType
  BY <1>1 DEF StatType
<1>4. QED BY <1>1, <1>2, <1>3 DEF StatType

\* A call past its first check carries a well-formed capture.
LEMMA FilingTyped ==
  ASSUME TypeOK, NEW g \in Callers, Filing(g)
  PROVE  /\ Arg(g) \in Capture
         /\ WellFormed(Arg(g))
         /\ Arg(g).at \in Nat
         /\ Arg(g).id \in Ids
  BY CallsTyped DEF Filing, Arg, Capture, WellFormed

\* Positions in range stay in range as Received grows.
LEMMA IndexGrows ==
  ASSUME NEW ord, NEW held, NEW n \in Nat, Index(ord, held, n)
  PROVE  Index(ord, held, n + 1)
  BY DEF Index

\* One step of the critical section keeps the map and the slice in step, and
\* every caller's locals typed.  The parts that only this lemma's cases touch:
\* the map, the slice, the counters, the history counters and the call itself.
Filed(g) ==
  /\ Table(pending')
  /\ Index(order', pending', stats'.received)
  /\ stats' \in StatType
  /\ gone' \in GoneType
  /\ calls' \in [Callers -> CallState]

\* A same-side capture takes its elder's place: map and slice stay in step.
LEMMA SupersedeFiles ==
  ASSUME Shape, NEW g \in Callers, Supersede(g)
  PROVE  Filed(g)
<1> DEFINE c == Arg(g)
           held == Held(c.at)
<1>1. c \in Capture /\ WellFormed(c) /\ c.at \in Nat
  BY FilingTyped DEF Shape, Supersede
<1>2. /\ Table(held)
      /\ Index(Compact(order, held), held, stats.received)
  BY <1>1, HeldShape
<1>3. /\ pending' = [held EXCEPT ![c.id] = c]
      /\ c.id \in DOMAIN held
      /\ order' = Compact(order, held)
      /\ stats' = Counted(c.at)
      /\ gone' = [gone EXCEPT !.superseded = @ + 1]
      /\ calls' = [calls EXCEPT ![g] = Idle]
  BY DEF Supersede, Return
<1>4. Table(pending') /\ DOMAIN pending' = DOMAIN held
  BY <1>1, <1>2, <1>3, ReplaceTable
<1>5. stats' \in StatType /\ stats'.received = stats.received + 1
  BY <1>1, <1>3, CountedTyped
<1>6. stats.received \in Nat
  BY DEF Shape, TypeOK
<1>7. Index(order', held, stats.received + 1)
  BY <1>2, <1>3, <1>6, IndexGrows
<1>8. Index(order', pending', stats'.received)
  BY <1>4, <1>5, <1>7 DEF Index
<1>9. gone' \in GoneType
  BY <1>3, RecordsTyped DEF Shape, GoneType
<1>10. calls' \in [Callers -> CallState]
  BY <1>3, RecordsTyped DEF Shape, CallState, Idle
<1> QED BY <1>4, <1>5, <1>8, <1>9, <1>10 DEF Filed

\* A pair leaves map and slice together.
LEMMA MatchFiles ==
  ASSUME Shape, NEW g \in Callers, Match(g)
  PROVE  Filed(g)
<1> DEFINE c == Arg(g)
           held == Held(c.at)
<1>1. c \in Capture /\ WellFormed(c) /\ c.at \in Nat
  BY FilingTyped DEF Shape, Match
<1>2. /\ Table(held)
      /\ Index(Compact(order, held), held, stats.received)
      /\ DOMAIN held \subseteq DOMAIN pending
  BY <1>1, HeldShape
<1>3. /\ pending' = Without(held, {c.id})
      /\ c.id \in DOMAIN held
      /\ order' = Compact(order, pending')
      /\ stats' = [Counted(c.at) EXCEPT !.paired = @ + 1]
      /\ calls' = [calls EXCEPT ![g] = Sending(PairOf(c, held[c.id]))]
      /\ gone' = gone
  BY DEF Match
<1>4. Table(pending') /\ DOMAIN pending' = DOMAIN held \ {c.id}
  BY <1>2, <1>3, WithoutTable
<1>5. stats' \in StatType /\ stats'.received = stats.received + 1
  BY <1>1, <1>3, CountedTyped DEF StatType
<1>6. stats.received \in Nat /\ Index(order, pending, stats.received)
  BY DEF Shape, TypeOK
<1>7. Index(Compact(order, pending'), pending', stats.received)
  BY <1>2, <1>4, <1>6, CompactIndex
<1>8. Index(order', pending', stats'.received)
  BY <1>3, <1>5, <1>6, <1>7, IndexGrows
<1>9. PairOf(c, held[c.id]) \in Pair
  BY <1>1, <1>2, <1>3, PairOfTyped DEF Table
<1>10. calls' \in [Callers -> CallState]
  BY <1>3, <1>9, RecordsTyped DEF Shape, CallState, Sending
<1> QED BY <1>3, <1>4, <1>5, <1>8, <1>10, RecordsTyped DEF Filed, Shape

\* What evictOldest chooses: an id of the map, and never more than one.
LEMMA OldestIsOne ==
  ASSUME NEW held, NEW ord, NEW n \in Nat, Index(ord, held, n)
  PROVE  /\ Oldest(held, ord) \subseteq DOMAIN held
         /\ \A x, y \in Oldest(held, ord) : x = y
<1>1. Oldest(held, ord) \subseteq DOMAIN held
  BY DEF Oldest
<1>2. ASSUME NEW x \in Oldest(held, ord), NEW y \in Oldest(held, ord)
      PROVE  x = y
  <2>1. PICK j \in DOMAIN ord :
          x = ord[j] /\ \A k \in DOMAIN ord : ord[k] \in DOMAIN held => j <= k
    BY <1>2 DEF Oldest
  <2>2. PICK k \in DOMAIN ord :
          y = ord[k] /\ \A l \in DOMAIN ord : ord[l] \in DOMAIN held => k <= l
    BY <1>2 DEF Oldest
  <2>3. j \in Nat /\ k \in Nat /\ j <= k /\ k <= j
    BY <1>1, <2>1, <2>2 DEF Index
  <2> QED BY <2>1, <2>2, <2>3
<1> QED BY <1>1, <1>2

\* Expiry, eviction and insertion, one after the other, keep map and slice in step.
LEMMA StoreFiles ==
  ASSUME Shape, NEW g \in Callers, Store(g)
  PROVE  Filed(g)
<1> DEFINE c == Arg(g)
           held == Held(c.at)
           ord == Compact(order, held)
           victims == IF Full(held) THEN Oldest(held, ord) ELSE {}
           kept == Without(held, victims)
<1>1. c \in Capture /\ WellFormed(c) /\ c.at \in Nat
  BY FilingTyped DEF Shape, Store
<1>2. Table(held) /\ Index(ord, held, stats.received)
  BY <1>1, HeldShape
<1>3. /\ pending' = Put(kept, c.id, c)
      /\ c.id \notin DOMAIN held
      /\ order' = Put(Compact(ord, kept), stats.received + 1, c.id)
      /\ stats' = [Counted(c.at) EXCEPT !.dropped = @ + Cardinality(victims)]
      /\ calls' = [calls EXCEPT ![g] = Idle]
      /\ gone' = gone
  BY DEF Store, Return
<1>4. stats.received \in Nat
  BY DEF Shape, TypeOK
<1>5. victims \subseteq DOMAIN held
  BY <1>2, <1>4, OldestIsOne
<1>6. /\ Table(kept) /\ DOMAIN kept = DOMAIN held \ victims
      /\ IsFiniteSet(victims)
  BY <1>2, <1>5, WithoutTable
<1>7. Table(pending')
  BY <1>1, <1>3, <1>6, PutTable
<1>8. Index(Compact(ord, kept), kept, stats.received)
  BY <1>2, <1>6, CompactIndex
<1>9. c.id \notin DOMAIN kept
  BY <1>3, <1>6
<1>10. Index(order', pending', stats.received + 1)
  BY <1>3, <1>4, <1>8, <1>9, PutIndex
<1>11. stats' \in StatType /\ stats'.received = stats.received + 1
  BY <1>1, <1>3, <1>6, CountedTyped, FS_CardinalityType DEF StatType
<1>12. calls' \in [Callers -> CallState]
  BY <1>3, RecordsTyped DEF Shape, CallState, Idle
<1> QED BY <1>3, <1>7, <1>10, <1>11, <1>12, RecordsTyped DEF Filed, Shape

\* The part of the type invariant that Filed does not speak of.
Surroundings ==
  /\ now \in Nat
  /\ ticks \in Seq(Nat) /\ Len(ticks) <= 1
  /\ begun \in Nat
  /\ reported \subseteq Paths \X (Ids \union {NoId})
  /\ pairs \in Seq(Pair) /\ Len(pairs) <= Buffer

Contents ==
  /\ Table(pending)
  /\ Index(order, pending, stats.received)
  /\ stats \in StatType
  /\ gone \in GoneType
  /\ calls \in [Callers -> CallState]

\* The inductive invariant, split into what the critical sections touch and the rest.
LEMMA ShapeSplit == Shape <=> Surroundings /\ Contents
<1>1. Shape => Surroundings /\ Contents
  BY RecordsTyped DEF Shape, Surroundings, Contents, TypeOK
<1>2. ASSUME Surroundings, Contents PROVE Shape
  <2>1. DOMAIN pending \subseteq Ids /\ pending \in [DOMAIN pending -> Capture]
    BY <1>2 DEF Contents, Table
  <2>2. DOMAIN order \subseteq 1 .. stats.received /\ order \in [DOMAIN order -> Ids]
    BY <1>2, <2>1 DEF Contents, Index
  <2>3. TypeOK
    BY <1>2, <2>1, <2>2
       DEF TypeOK, Surroundings, Contents, StatType, GoneType, CallState
  <2> QED BY <1>2, <2>3 DEF Shape, Contents
<1> QED BY <1>1, <1>2

\* An empty buffer has the shape.
LEMMA ShapeInit == Init => Shape
<1> SUFFICES ASSUME Init PROVE Surroundings /\ Contents
  BY ShapeSplit
<1>1. Surroundings
  BY ConstantsAssumption DEF Init, Surroundings, ConstantsAssumption
<1>2. DOMAIN pending = {} /\ DOMAIN order = {}
  BY DEF Init
<1>3. Table(pending) /\ Index(order, pending, stats.received)
  BY <1>2, FS_EmptySet DEF Init, Table, Index
<1>4. /\ stats \in StatType
      /\ gone \in GoneType
      /\ calls \in [Callers -> CallState]
  BY DEF Init, StatType, GoneType, CallState, Idle
<1> QED BY <1>1, <1>3, <1>4 DEF Contents

\* Every step of every goroutine keeps the shape.
LEMMA ShapeStep == Shape /\ [Next]_vars => Surroundings' /\ Contents'
<1> SUFFICES ASSUME Shape, [Next]_vars PROVE Surroundings' /\ Contents'
  OBVIOUS
<1>0. /\ Surroundings /\ Contents
      /\ stats \in StatType /\ gone \in GoneType
  BY ShapeSplit DEF Contents
<1> USE DEF Surroundings
<1>1. ASSUME NEW g \in Callers, NEW p \in Paths, NEW i \in Ids \union {NoId},
             CallIngest(g, p, i)
      PROVE  Surroundings' /\ Contents'
  <2>1. [path |-> p, id |-> i, serial |-> begun + 1, at |-> now] \in Capture
    BY <1>0 DEF Capture
  <2>2. calls' \in [Callers -> CallState]
    BY <1>0, <1>1, <2>1 DEF CallIngest, Contents, CallState, Called
  <2>3. /\ begun' \in Nat
        /\ reported' \subseteq Paths \X (Ids \union {NoId})
    BY <1>0, <1>1 DEF CallIngest
  <2> QED BY <1>0, <1>1, <2>2, <2>3 DEF CallIngest, Contents
<1>2. ASSUME NEW g \in Callers, Discard(g)
      PROVE  Surroundings' /\ Contents'
  <2>1. calls' \in [Callers -> CallState]
    BY <1>0, <1>2 DEF Discard, Return, Idle, CallState, Contents
  <2>2. stats' \in StatType /\ stats'.received = stats.received + 1
    BY <1>0, <1>2, DiscardTyped DEF Discard
  <2>3. Index(order', pending', stats'.received)
    BY <1>0, <1>2, <2>2, IndexGrows DEF Discard, Contents, StatType
  <2> QED BY <1>0, <1>2, <2>1, <2>2, <2>3 DEF Discard, Contents
<1>3. ASSUME NEW g \in Callers, Supersede(g)
      PROVE  Surroundings' /\ Contents'
  BY <1>0, <1>3, SupersedeFiles DEF Supersede, Filed, Contents
<1>4. ASSUME NEW g \in Callers, Match(g)
      PROVE  Surroundings' /\ Contents'
  BY <1>0, <1>4, MatchFiles DEF Match, Filed, Contents
<1>5. ASSUME NEW g \in Callers, Store(g)
      PROVE  Surroundings' /\ Contents'
  BY <1>0, <1>5, StoreFiles DEF Store, Filed, Contents
<1>6. ASSUME NEW g \in Callers, Send(g)
      PROVE  Surroundings' /\ Contents'
  <2>1. calls[g].pair \in Pair
    BY <1>6, CallsTyped DEF Send, Shape
  <2>2. pairs' \in Seq(Pair) /\ Len(pairs') = Len(pairs) + 1
    BY <1>0, <1>6, <2>1, AppendProperties DEF Send
  <2>3. Len(pairs') <= Buffer
    BY <1>0, <1>6, <2>2, LenProperties, ConstantsAssumption
       DEF Send, Room, ConstantsAssumption
  <2>4. calls' \in [Callers -> CallState]
    BY <1>0, <1>6 DEF Send, Return, Idle, CallState, Contents
  <2> QED BY <1>0, <1>6, <2>2, <2>3, <2>4 DEF Send, Contents
<1>7. ASSUME NEW g \in Callers, SendFull(g)
      PROVE  Surroundings' /\ Contents'
  <2>1. calls[g].pair \in Pair
    BY <1>7, CallsTyped DEF SendFull, Shape
  <2>2. calls' \in [Callers -> CallState]
    BY <1>0, <1>7, <2>1 DEF SendFull, Overflowing, CallState, Contents
  <2> QED BY <1>0, <1>7, <2>2 DEF SendFull, Contents
<1>8. ASSUME NEW g \in Callers, CountDrop(g)
      PROVE  Surroundings' /\ Contents'
  <2>1. calls' \in [Callers -> CallState]
    BY <1>0, <1>8 DEF CountDrop, Return, Idle, CallState, Contents
  <2>2. stats' \in StatType /\ stats'.received = stats.received
    BY <1>0, <1>8, CountDropTyped DEF CountDrop
  <2>3. gone' \in GoneType
    <3>1. gone' = [gone EXCEPT !.overflowed = @ + 1]
      BY <1>8 DEF CountDrop
    <3> QED BY <1>0, <3>1 DEF GoneType
  <2> QED BY <1>0, <1>8, <2>1, <2>2, <2>3 DEF CountDrop, Contents
<1>9. CASE Sweep
  <2> DEFINE t == Head(ticks)
  <2>1. t \in Nat /\ ticks' \in Seq(Nat) /\ Len(ticks') <= 1
    BY <1>0, <1>9, HeadTailProperties, LenProperties DEF Sweep
  <2>2. /\ Table(Held(t))
        /\ Index(Compact(order, Held(t)), Held(t), stats.received)
        /\ Cardinality(Expired(t)) \in Nat
    BY <2>1, HeldShape
  <2>3. /\ pending' = Held(t) /\ order' = Compact(order, Held(t))
        /\ stats' = [stats EXCEPT !.expired = @ + Cardinality(Expired(t))]
    BY <1>9 DEF Sweep
  <2>4. stats' \in StatType /\ stats'.received = stats.received
    <3> DEFINE n == Cardinality(Expired(t))
    <3>1. n \in Nat /\ stats' = [stats EXCEPT !.expired = @ + n]
      BY <2>2, <2>3
    <3> HIDE DEF n
    <3> QED BY <1>0, <3>1 DEF StatType
  <2> QED BY <1>0, <1>9, <2>1, <2>2, <2>3, <2>4 DEF Sweep, Contents
<1>10. CASE Consume
  <2>1. pairs' \in Seq(Pair) /\ Len(pairs') <= Buffer
    BY <1>0, <1>10, HeadTailProperties, LenProperties, ConstantsAssumption
       DEF Consume, ConstantsAssumption
  <2>2. gone' \in GoneType
    BY <1>0, <1>10 DEF Consume, GoneType
  <2> QED BY <1>0, <1>10, <2>1, <2>2 DEF Consume, Contents
<1>11. CASE Tick
  <2>1. now' \in Nat
    BY <1>0, <1>11 DEF Tick
  <2>2. ticks' \in Seq(Nat) /\ Len(ticks') <= 1
    BY <1>0, <1>11, <2>1 DEF Tick
  <2> QED BY <1>0, <1>11, <2>1, <2>2 DEF Tick, Contents
<1>12. CASE UNCHANGED vars
  BY <1>0, <1>12 DEF vars, Contents
<1> QED
  BY <1>1, <1>2, <1>3, <1>4, <1>5, <1>6, <1>7, <1>8, <1>9, <1>10, <1>11, <1>12
     DEF Next, IngestStep, Quiet

\* The buffer is always well formed, whatever the interleaving of callers,
\* sweeper, consumer and clock: neither channel exceeds its capacity.
THEOREM TypeCorrect == Spec => []TypeOK
<1>1. Shape => TypeOK
  BY ShapeImplies
<1> QED BY ShapeInit, ShapeStep, ShapeSplit, <1>1, PTL DEF Spec

\* The map and the order slice never drift apart.
THEOREM OrderCorrect == Spec => []OrderMatchesPending
<1>1. Shape => OrderMatchesPending
  BY ShapeImplies
<1> QED BY ShapeInit, ShapeStep, ShapeSplit, <1>1, PTL DEF Spec

-----------------------------------------------------------------------------
(* The limit on pending captures *)

\* A set of positions that is not empty has a least one (evictOldest's first hit).
LEMMA LeastPosition ==
  ASSUME NEW S, S \subseteq Nat, S # {}
  PROVE  \E m \in S : \A k \in S : m <= k
<1>1. PICK m \in S : \A k \in S : <<k, m>> \notin OpToRel(<, Nat)
  BY NatLessThanWellFounded, WFMin
<1>2. \A k \in S : ~ (k < m)
  BY <1>1 DEF OpToRel
<1> QED BY <1>2

\* A full map does make room: evictOldest finds an id to evict.
LEMMA OldestExists ==
  ASSUME NEW held, NEW ord, NEW n \in Nat, Index(ord, held, n), DOMAIN held # {}
  PROVE  Oldest(held, ord) # {}
<1>1. DOMAIN ord # {} /\ DOMAIN ord \subseteq Nat
  BY DEF Index
<1>2. PICK m \in DOMAIN ord : \A k \in DOMAIN ord : m <= k
  BY <1>1, LeastPosition
<1>3. ord[m] \in Oldest(held, ord)
  BY <1>2 DEF Oldest, Index
<1> QED BY <1>3

\* How each outcome of the critical section changes the size of the map and the
\* counters, with e captures expired by it and v evicted.
LEMMA SupersedeCounts ==
  ASSUME Shape, NEW g \in Callers, Supersede(g)
  PROVE  \E e \in Nat :
           /\ Cardinality(DOMAIN pending') = Cardinality(DOMAIN pending) - e
           /\ stats'.received = stats.received + 1 /\ stats'.expired = stats.expired + e
           /\ stats'.paired = stats.paired /\ stats'.dropped = stats.dropped
           /\ stats'.discarded = stats.discarded
           /\ gone'.superseded = gone.superseded + 1
           /\ gone'.overflowed = gone.overflowed /\ gone'.consumed = gone.consumed
<1> DEFINE c == Arg(g)
           held == Held(c.at)
<1>1. c \in Capture /\ WellFormed(c) /\ c.at \in Nat
  BY FilingTyped DEF Shape, Supersede
<1>2. /\ c.id \in DOMAIN held
      /\ pending' = [held EXCEPT ![c.id] = c]
      /\ stats' = Counted(c.at)
      /\ gone' = [gone EXCEPT !.superseded = @ + 1]
  BY DEF Supersede
<1>3. /\ Table(held)
      /\ Cardinality(Expired(c.at)) \in Nat
      /\ Cardinality(DOMAIN held) = Cardinality(DOMAIN pending) - Cardinality(Expired(c.at))
  BY <1>1, HeldShape
<1>4. DOMAIN pending' = DOMAIN held
  BY <1>1, <1>2, <1>3, ReplaceTable
<1>5. gone \in GoneType
  BY RecordsTyped DEF Shape
<1>6. /\ gone'.superseded = gone.superseded + 1
      /\ gone'.overflowed = gone.overflowed /\ gone'.consumed = gone.consumed
  BY <1>2, <1>5 DEF GoneType
<1>7. /\ stats'.received = stats.received + 1
      /\ stats'.expired = stats.expired + Cardinality(Expired(c.at))
      /\ stats'.paired = stats.paired /\ stats'.dropped = stats.dropped
      /\ stats'.discarded = stats.discarded
  BY <1>1, <1>2, CountedTyped
<1>8. Cardinality(DOMAIN pending')
        = Cardinality(DOMAIN pending) - Cardinality(Expired(c.at))
  BY <1>3, <1>4
<1> QED BY <1>3, <1>6, <1>7, <1>8, Zenon

\* How a match moves captures between the columns of the account.
LEMMA MatchCounts ==
  ASSUME Shape, NEW g \in Callers, Match(g)
  PROVE  \E e \in Nat :
           /\ Cardinality(DOMAIN pending') = Cardinality(DOMAIN pending) - e - 1
           /\ stats'.received = stats.received + 1 /\ stats'.expired = stats.expired + e
           /\ stats'.paired = stats.paired + 1 /\ stats'.dropped = stats.dropped
           /\ stats'.discarded = stats.discarded
           /\ gone' = gone
<1> DEFINE c == Arg(g)
           held == Held(c.at)
<1>1. c \in Capture /\ WellFormed(c) /\ c.at \in Nat
  BY FilingTyped DEF Shape, Match
<1>2. /\ c.id \in DOMAIN held
      /\ pending' = Without(held, {c.id})
      /\ stats' = [Counted(c.at) EXCEPT !.paired = @ + 1]
      /\ gone' = gone
  BY DEF Match
<1>3. /\ Table(held)
      /\ Cardinality(Expired(c.at)) \in Nat
      /\ Cardinality(DOMAIN held) = Cardinality(DOMAIN pending) - Cardinality(Expired(c.at))
  BY <1>1, HeldShape
<1>4. Cardinality(DOMAIN pending')
        = Cardinality(DOMAIN pending) - Cardinality(Expired(c.at)) - 1
  <2>1. {c.id} \subseteq DOMAIN held /\ Cardinality({c.id}) = 1
    BY <1>2, FS_Singleton
  <2>2. Cardinality(DOMAIN Without(held, {c.id}))
          = Cardinality(DOMAIN held) - Cardinality({c.id})
    BY <1>3, <2>1, WithoutTable
  <2> QED BY <1>2, <1>3, <2>1, <2>2
<1>5. /\ stats'.received = stats.received + 1
      /\ stats'.expired = stats.expired + Cardinality(Expired(c.at))
      /\ stats'.paired = stats.paired + 1 /\ stats'.dropped = stats.dropped
      /\ stats'.discarded = stats.discarded
  BY <1>1, <1>2, CountedTyped DEF StatType
<1> QED BY <1>2, <1>3, <1>4, <1>5, Zenon

\* How a store does: some expire, one is evicted if the map is still full, one is added.
LEMMA StoreCounts ==
  ASSUME Shape, NEW g \in Callers, Store(g)
  PROVE  \E e \in Nat, v \in Nat :
           /\ Cardinality(DOMAIN pending') = Cardinality(DOMAIN pending) - e - v + 1
           /\ Cardinality(DOMAIN pending) - e >= MaxPending => v = 1
           /\ stats'.received = stats.received + 1 /\ stats'.expired = stats.expired + e
           /\ stats'.paired = stats.paired /\ stats'.dropped = stats.dropped + v
           /\ stats'.discarded = stats.discarded
           /\ gone' = gone
<1> DEFINE c == Arg(g)
           held == Held(c.at)
           ord == Compact(order, held)
           victims == IF Full(held) THEN Oldest(held, ord) ELSE {}
           kept == Without(held, victims)
<1>1. c \in Capture /\ WellFormed(c) /\ c.at \in Nat
  BY FilingTyped DEF Shape, Store
<1>2. /\ c.id \notin DOMAIN held
      /\ pending' = Put(kept, c.id, c)
      /\ stats' = [Counted(c.at) EXCEPT !.dropped = @ + Cardinality(victims)]
      /\ gone' = gone
  BY DEF Store
<1>3. /\ Table(held)
      /\ Index(ord, held, stats.received)
      /\ Cardinality(Expired(c.at)) \in Nat
      /\ Cardinality(DOMAIN pending) \in Nat
      /\ Cardinality(DOMAIN held) = Cardinality(DOMAIN pending) - Cardinality(Expired(c.at))
  BY <1>1, HeldShape
<1>4. stats.received \in Nat
  BY DEF Shape, TypeOK
<1>5. victims \subseteq DOMAIN held
  BY <1>3, <1>4, OldestIsOne
<1>6. /\ Table(kept) /\ DOMAIN kept = DOMAIN held \ victims
      /\ IsFiniteSet(victims)
      /\ Cardinality(DOMAIN kept) = Cardinality(DOMAIN held) - Cardinality(victims)
  BY <1>3, <1>5, WithoutTable
<1>7. Cardinality(victims) \in Nat
  BY <1>6, FS_CardinalityType
<1>8. Cardinality(DOMAIN pending') = Cardinality(DOMAIN kept) + 1
  BY <1>1, <1>2, <1>6, PutTable
<1>9. ASSUME Cardinality(DOMAIN held) >= MaxPending
      PROVE  Cardinality(victims) = 1
  <2>1. victims = Oldest(held, ord)
    BY <1>9 DEF Full
  <2>2. DOMAIN held # {}
    BY <1>9, FS_EmptySet, ConstantsAssumption DEF ConstantsAssumption
  <2>3. PICK x : x \in victims
    BY <1>3, <1>4, <2>1, <2>2, OldestExists
  <2>4. victims = {x}
    BY <1>3, <1>4, <2>1, <2>3, OldestIsOne
  <2> QED BY <2>4, FS_Singleton
<1>10. /\ stats'.received = stats.received + 1
       /\ stats'.expired = stats.expired + Cardinality(Expired(c.at))
       /\ stats'.paired = stats.paired
       /\ stats'.dropped = stats.dropped + Cardinality(victims)
       /\ stats'.discarded = stats.discarded
  <2> DEFINE v == Cardinality(victims)
             s == Counted(c.at)
  <2>1. v \in Nat /\ s \in StatType /\ stats' = [s EXCEPT !.dropped = s.dropped + v]
    BY <1>1, <1>2, <1>7, CountedTyped
  <2>2. /\ s.received = stats.received + 1
        /\ s.expired = stats.expired + Cardinality(Expired(c.at))
        /\ s.paired = stats.paired /\ s.dropped = stats.dropped
        /\ s.discarded = stats.discarded
    BY <1>1, CountedTyped
  <2> HIDE DEF v, s
  <2>3. /\ stats'.received = s.received /\ stats'.expired = s.expired
        /\ stats'.paired = s.paired /\ stats'.dropped = s.dropped + v
        /\ stats'.discarded = s.discarded
    BY <2>1 DEF StatType
  <2> QED BY <2>2, <2>3 DEF v
<1> DEFINE e == Cardinality(Expired(c.at))
           v == Cardinality(victims)
           size == Cardinality(DOMAIN pending)
<1>11. /\ Cardinality(DOMAIN pending') = size - e - v + 1
       /\ size - e >= MaxPending => v = 1
  <2> DEFINE h == Cardinality(DOMAIN held)
             k == Cardinality(DOMAIN kept)
  <2>1. /\ e \in Nat /\ v \in Nat /\ size \in Nat /\ h = size - e /\ k = h - v
        /\ h >= MaxPending => v = 1
        /\ Cardinality(DOMAIN pending') = k + 1
    BY <1>3, <1>6, <1>7, <1>8, <1>9
  <2> HIDE DEF e, v, size, h, k
  <2> QED BY <2>1
<1> QED BY <1>2, <1>3, <1>7, <1>10, <1>11, Zenon

\* What a sweep does to the same quantities, and what the other steps leave
\* alone.
LEMMA SweepCounts ==
  ASSUME Shape, Sweep
  PROVE  \E e \in Nat :
           /\ Cardinality(DOMAIN pending') = Cardinality(DOMAIN pending) - e
           /\ stats'.expired = stats.expired + e
           /\ stats'.received = stats.received /\ stats'.paired = stats.paired
           /\ stats'.dropped = stats.dropped /\ stats'.discarded = stats.discarded
           /\ gone' = gone
<1> DEFINE t == Head(ticks)
           e == Cardinality(Expired(t))
<1>1. t \in Nat /\ stats \in StatType
  BY HeadTailProperties, RecordsTyped DEF Sweep, Shape, TypeOK
<1>2. e \in Nat /\ Cardinality(DOMAIN Held(t)) = Cardinality(DOMAIN pending) - e
  BY <1>1, HeldShape
<1>3. pending' = Held(t) /\ stats' = [stats EXCEPT !.expired = @ + e] /\ gone' = gone
  BY DEF Sweep
<1> HIDE DEF e
<1>4. /\ stats'.expired = stats.expired + e
      /\ stats'.received = stats.received /\ stats'.paired = stats.paired
      /\ stats'.dropped = stats.dropped /\ stats'.discarded = stats.discarded
  BY <1>1, <1>2, <1>3 DEF StatType
<1> QED BY <1>2, <1>3, <1>4, Zenon

Sizes ==
  /\ Cardinality(DOMAIN pending) \in Nat
  /\ stats.received \in Nat /\ stats.expired \in Nat /\ stats.dropped \in Nat
  /\ stats.discarded \in Nat /\ stats.paired \in Int
  /\ gone.superseded \in Nat /\ gone.overflowed \in Nat /\ gone.consumed \in Nat

\* The counters and sizes are integers, which the arithmetic below needs.
LEMMA ShapeSizes == Shape => Sizes
  BY FS_CardinalityType, RecordsTyped DEF Shape, Table, Sizes, StatType, GoneType

\* The step that counts nothing and holds nothing more.
Untouched == /\ pending' = pending
             /\ stats' = stats
             /\ gone' = gone

\* No step takes the map past MaxPending.
LEMMA BoundStep == Shape /\ PendingBounded /\ [Next]_vars => PendingBounded'
<1> SUFFICES ASSUME Shape, PendingBounded, [Next]_vars PROVE PendingBounded'
  OBVIOUS
<1> USE DEF PendingBounded
<1>0. Cardinality(DOMAIN pending) \in Nat /\ MaxPending \in Nat \ {0}
  BY ShapeSizes, ConstantsAssumption DEF Sizes, ConstantsAssumption
<1>1. ASSUME pending' = pending PROVE PendingBounded'
  BY <1>1
<1>2. ASSUME NEW g \in Callers, Supersede(g) PROVE PendingBounded'
  BY <1>0, <1>2, SupersedeCounts
<1>3. ASSUME NEW g \in Callers, Match(g) PROVE PendingBounded'
  BY <1>0, <1>3, MatchCounts
<1>4. ASSUME NEW g \in Callers, Store(g) PROVE PendingBounded'
  BY <1>0, <1>4, StoreCounts
<1>5. ASSUME Sweep PROVE PendingBounded'
  BY <1>0, <1>5, SweepCounts
<1> QED
  BY <1>1, <1>2, <1>3, <1>4, <1>5
     DEF Next, IngestStep, CallIngest, Discard, Send, SendFull, CountDrop, Consume,
         Tick, Quiet, vars

\* No step moves a capture out of the account or counts one twice.
LEMMA AccountStep ==
  Shape /\ EveryCaptureAccounted /\ [Next]_vars => EveryCaptureAccounted'
<1> SUFFICES ASSUME Shape, EveryCaptureAccounted, [Next]_vars
             PROVE  EveryCaptureAccounted'
  OBVIOUS
<1> USE DEF EveryCaptureAccounted
<1>0. Sizes /\ stats \in StatType /\ gone \in GoneType
  BY ShapeSizes, RecordsTyped DEF Shape
<1>1. ASSUME Untouched PROVE EveryCaptureAccounted'
  BY <1>1 DEF Untouched
<1>2. ASSUME NEW g \in Callers, Discard(g) PROVE EveryCaptureAccounted'
  <2>1. /\ stats'.received = stats.received + 1
        /\ stats'.discarded = stats.discarded + 1
        /\ stats'.paired = stats.paired /\ stats'.expired = stats.expired
        /\ stats'.dropped = stats.dropped
        /\ pending' = pending /\ gone' = gone
    BY <1>0, <1>2, DiscardTyped DEF Discard
  <2> QED BY <1>0, <2>1 DEF Sizes
<1>3. ASSUME NEW g \in Callers, Supersede(g) PROVE EveryCaptureAccounted'
  BY <1>0, <1>3, SupersedeCounts DEF Sizes
<1>4. ASSUME NEW g \in Callers, Match(g) PROVE EveryCaptureAccounted'
  BY <1>0, <1>4, MatchCounts DEF Sizes
<1>5. ASSUME NEW g \in Callers, Store(g) PROVE EveryCaptureAccounted'
  BY <1>0, <1>5, StoreCounts DEF Sizes
<1>6. ASSUME NEW g \in Callers, CountDrop(g) PROVE EveryCaptureAccounted'
  <2>1. /\ stats'.received = stats.received /\ stats'.discarded = stats.discarded
        /\ stats'.paired = stats.paired - 1 /\ stats'.dropped = stats.dropped + 1
        /\ stats'.expired = stats.expired
        /\ pending' = pending
    BY <1>0, <1>6, CountDropTyped DEF CountDrop
  <2>2. gone' = [gone EXCEPT !.overflowed = @ + 1]
    BY <1>6 DEF CountDrop
  <2>3. gone'.overflowed = gone.overflowed + 1 /\ gone'.superseded = gone.superseded
    BY <1>0, <2>2 DEF GoneType
  <2> QED BY <1>0, <2>1, <2>3 DEF Sizes
<1>7. ASSUME Sweep PROVE EveryCaptureAccounted'
  BY <1>0, <1>7, SweepCounts DEF Sizes
<1>8. ASSUME Consume PROVE EveryCaptureAccounted'
  <2>1. /\ gone' = [gone EXCEPT !.consumed = @ + 1]
        /\ pending' = pending /\ stats' = stats
    BY <1>8 DEF Consume
  <2>2. gone'.overflowed = gone.overflowed /\ gone'.superseded = gone.superseded
    BY <1>0, <2>1 DEF GoneType
  <2> QED BY <2>1, <2>2
<1>9. Untouched \/ Consume \/ Sweep
      \/ \E g \in Callers : Discard(g) \/ Supersede(g) \/ Match(g) \/ Store(g) \/ CountDrop(g)
  BY DEF Next, IngestStep, CallIngest, Send, SendFull, Tick, Quiet, vars, Untouched
<1> QED BY <1>1, <1>2, <1>3, <1>4, <1>5, <1>6, <1>7, <1>8, <1>9

\* "MaxPending bounds memory": the buffer never holds more than it.
THEOREM PendingIsBounded == Spec => []PendingBounded
<1>1. Init => PendingBounded
  BY FS_EmptySet, ConstantsAssumption DEF Init, PendingBounded, ConstantsAssumption
<1> QED BY ShapeInit, ShapeStep, ShapeSplit, <1>1, BoundStep, PTL DEF Spec

\* Nothing vanishes: at every instant the captures received are exactly those
\* the counters, the map and the superseded ones make up.
THEOREM CapturesConserved == Spec => []EveryCaptureAccounted
<1>1. Init => EveryCaptureAccounted
  BY FS_EmptySet DEF Init, EveryCaptureAccounted
<1> QED BY ShapeInit, ShapeStep, ShapeSplit, <1>1, AccountStep, PTL DEF Spec
=============================================================================
