------------------------- MODULE CorrelationProofs -------------------------
(***************************************************************************)
(* That the buffer implements the abstract correlation, for every number   *)
(* of callers and ids, every timeout, limit and capacity, posted captures  *)
(* or proxy mode.  CollectorProofs gives the shape of the map, the slice   *)
(* and the calls; here it is followed where each capture goes.             *)
(***************************************************************************)
EXTENDS CollectorProofs

-----------------------------------------------------------------------------
(* Where the steps move captures *)

\* A step that files the capture of g: every entry of the map afterwards was
\* there before, or is that capture under its own id.
LEMMA FilesOne ==
  ASSUME Shape, NEW g \in Callers, Supersede(g) \/ Store(g)
  PROVE  /\ calls[g].pc = "called" /\ calls' = [calls EXCEPT ![g] = Idle]
         /\ pairs' = pairs /\ begun' = begun /\ reported' = reported
         /\ \A i \in DOMAIN pending' :
              \/ i \in DOMAIN pending /\ pending'[i] = pending[i]
              \/ i = calls[g].cap.id /\ pending'[i] = calls[g].cap
<1> DEFINE c == Arg(g)
           held == Held(c.at)
<1>1. c \in Capture /\ WellFormed(c) /\ c.at \in Nat /\ c = calls[g].cap
  BY FilingTyped DEF Shape, Supersede, Store, Arg
<1>2. /\ Table(held) /\ DOMAIN held \subseteq DOMAIN pending
      /\ \A i \in DOMAIN held : held[i] = pending[i]
      /\ Index(Compact(order, held), held, stats.received)
  BY <1>1, HeldShape
<1>3. /\ calls[g].pc = "called" /\ calls' = [calls EXCEPT ![g] = Idle]
      /\ pairs' = pairs /\ begun' = begun /\ reported' = reported
  BY DEF Supersede, Store, Return, Filing
<1>4. CASE Supersede(g)
  <2>1. pending' = [held EXCEPT ![c.id] = c] /\ c.id \in DOMAIN held
    BY <1>4 DEF Supersede
  <2> HIDE DEF held, c
  <2>2. \A i \in DOMAIN pending' : i \in DOMAIN held /\ pending'[i] = IF i = c.id THEN c ELSE held[i]
    BY <1>2, <2>1 DEF Table
  <2> QED BY <1>1, <1>2, <1>3, <2>2
<1>5. CASE Store(g)
  <2> DEFINE ord == Compact(order, held)
             victims == IF Full(held) THEN Oldest(held, ord) ELSE {}
             kept == Without(held, victims)
  <2>1. pending' = Put(kept, c.id, c)
    BY <1>5 DEF Store
  <2>4. Table(held)
    BY <1>2
  <2>5. DOMAIN kept = DOMAIN held \ victims /\ \A i \in DOMAIN held \ victims : kept[i] = held[i]
    BY <2>4, WithoutTable
  <2>2. DOMAIN kept \subseteq DOMAIN held /\ \A i \in DOMAIN kept : kept[i] = held[i]
    BY <2>5
  <2> HIDE DEF held, c, kept
  <2>3. \A i \in DOMAIN pending' :
           (i \in DOMAIN kept /\ pending'[i] = kept[i]) \/ (i = c.id /\ pending'[i] = c)
    BY <2>1 DEF Put
  <2> QED BY <1>1, <1>2, <1>3, <2>2, <2>3
<1> QED BY <1>4, <1>5

\* A match takes one entry out of the map, and pairs it with the capture of g,
\* which has the other side of the same id.
LEMMA MatchTakes ==
  ASSUME Shape, NEW g \in Callers, Match(g)
  PROVE  LET c == calls[g].cap  d == pending[c.id]
         IN  /\ calls[g].pc = "called" /\ c.id \in DOMAIN pending
             /\ c \in Capture /\ d \in Capture
             /\ MatchedPair(PairOf(c, d))
             /\ calls' = [calls EXCEPT ![g] = Sending(PairOf(c, d))]
             /\ \A i \in DOMAIN pending' :
                  i \in DOMAIN pending /\ i # c.id /\ pending'[i] = pending[i]
             /\ pairs' = pairs /\ begun' = begun /\ reported' = reported
<1> DEFINE c == Arg(g)
           held == Held(c.at)
<1>1. c \in Capture /\ WellFormed(c) /\ c.at \in Nat /\ c = calls[g].cap
  BY FilingTyped DEF Shape, Match, Arg
<1>2. /\ Table(held) /\ DOMAIN held \subseteq DOMAIN pending
      /\ \A i \in DOMAIN held : held[i] = pending[i]
  BY <1>1, HeldShape
<1>3. /\ calls[g].pc = "called" /\ c.id \in DOMAIN held /\ held[c.id].path # c.path
      /\ pending' = Without(held, {c.id})
      /\ calls' = [calls EXCEPT ![g] = Sending(PairOf(c, held[c.id]))]
      /\ pairs' = pairs /\ begun' = begun /\ reported' = reported
  BY DEF Match, Filing
<1>4. \A i \in DOMAIN pending' : i \in DOMAIN held /\ i # c.id /\ pending'[i] = held[i]
  <2>1. Table(held)
    BY <1>2
  <2>2. /\ DOMAIN Without(held, {c.id}) = DOMAIN held \ {c.id}
        /\ \A i \in DOMAIN held \ {c.id} : Without(held, {c.id})[i] = held[i]
    BY <2>1, WithoutTable
  <2> QED BY <1>3, <2>2
<1> DEFINE d == pending[c.id]
<1>5. d = held[c.id] /\ d \in Capture /\ d.id = c.id /\ WellFormed(d) /\ d.path # c.path
  BY <1>2, <1>3 DEF Table
<1> HIDE DEF c, d, held
<1>6. MatchedPair(PairOf(c, d))
  BY <1>1, <1>5 DEF PairOf, MatchedPair, WellFormed
<1>7. /\ calls[g].pc = "called" /\ c.id \in DOMAIN pending /\ c \in Capture /\ d \in Capture
      /\ calls' = [calls EXCEPT ![g] = Sending(PairOf(c, d))]
      /\ \A i \in DOMAIN pending' :
           i \in DOMAIN pending /\ i # c.id /\ pending'[i] = pending[i]
      /\ pairs' = pairs /\ begun' = begun /\ reported' = reported
  BY <1>1, <1>2, <1>3, <1>4, <1>5
<1> QED BY <1>1, <1>6, <1>7 DEF d

\* The other steps leave the map as it is, or with fewer entries.
Fewer ==
  \A i \in DOMAIN pending' : i \in DOMAIN pending /\ pending'[i] = pending[i]

\* A sweep only takes entries out of the map.
LEMMA SweepTakes ==
  ASSUME Shape, Sweep
  PROVE  Fewer /\ calls' = calls /\ pairs' = pairs /\ begun' = begun /\ reported' = reported
<1> DEFINE t == Head(ticks)
<1>1. t \in Nat
  BY HeadTailProperties DEF Sweep, Shape, TypeOK
<1>2. DOMAIN Held(t) \subseteq DOMAIN pending /\ \A i \in DOMAIN Held(t) : Held(t)[i] = pending[i]
  BY <1>1, HeldShape
<1>3. /\ pending' = Held(t) /\ calls' = calls /\ pairs' = pairs /\ begun' = begun
      /\ reported' = reported
  BY DEF Sweep
<1> QED BY <1>2, <1>3 DEF Fewer

-----------------------------------------------------------------------------
(* Pairs are matched, and counted *)

\* Steps that make no pair and put none into the channel keep all pairs matched.
LEMMA MatchedStep == Shape /\ PairsWellFormed /\ [Next]_vars => PairsWellFormed'
<1> SUFFICES ASSUME Shape, PairsWellFormed, [Next]_vars PROVE PairsWellFormed'
  OBVIOUS
<1>0. calls \in [Callers -> CallState] /\ pairs \in Seq(Pair)
  BY RecordsTyped DEF Shape, TypeOK
<1>1. ASSUME calls' = calls, pairs' = pairs PROVE PairsWellFormed'
  BY <1>1 DEF PairsWellFormed, Carrying
<1>2. ASSUME NEW g \in Callers, calls' = [calls EXCEPT ![g] = Idle], pairs' = pairs
      PROVE  PairsWellFormed'
  <2>1. \A h \in Carrying' : h \in Carrying /\ calls'[h] = calls[h]
    BY <1>0, <1>2 DEF Carrying, Idle
  <2> QED BY <1>2, <2>1 DEF PairsWellFormed
<1>3. ASSUME NEW g \in Callers, NEW p \in Paths, NEW i \in Ids \union {NoId}, CallIngest(g, p, i)
      PROVE  PairsWellFormed'
  <2>1. \A h \in Carrying' : h \in Carrying /\ calls'[h] = calls[h]
    BY <1>0, <1>3 DEF Carrying, CallIngest, Called
  <2> QED BY <1>3, <2>1 DEF PairsWellFormed, CallIngest
<1>4. ASSUME NEW g \in Callers, Match(g) PROVE PairsWellFormed'
  <2> DEFINE p == PairOf(calls[g].cap, pending[calls[g].cap.id])
  <2>1. MatchedPair(p) /\ calls' = [calls EXCEPT ![g] = Sending(p)] /\ pairs' = pairs
    BY <1>4, MatchTakes
  <2> HIDE DEF p
  <2>2. \A h \in Carrying' : (h \in Carrying /\ calls'[h] = calls[h]) \/ calls'[h].pair = p
    BY <1>0, <2>1 DEF Carrying, Sending
  <2> QED BY <2>1, <2>2 DEF PairsWellFormed
<1>5. ASSUME NEW g \in Callers, Send(g) PROVE PairsWellFormed'
  <2> DEFINE p == calls[g].pair
  <2>1. /\ g \in Carrying /\ calls' = [calls EXCEPT ![g] = Idle] /\ pairs' = Append(pairs, p)
    BY <1>5 DEF Send, Return, Carrying
  <2>2. MatchedPair(p) /\ p \in Pair
    BY <1>5, <2>1, CallsTyped DEF PairsWellFormed, Shape, Send
  <2> HIDE DEF p
  <2>3. \A h \in Carrying' : h \in Carrying /\ calls'[h] = calls[h]
    BY <1>0, <2>1 DEF Carrying, Idle
  <2>4. \A m \in DOMAIN pairs' : (m \in DOMAIN pairs /\ pairs'[m] = pairs[m]) \/ pairs'[m] = p
    BY <1>0, <2>1, <2>2
  <2> QED BY <2>2, <2>3, <2>4 DEF PairsWellFormed
<1>6. ASSUME NEW g \in Callers, SendFull(g) PROVE PairsWellFormed'
  <2>1. \A h \in Carrying' : h \in Carrying /\ calls'[h].pair = calls[h].pair
    BY <1>0, <1>6 DEF Carrying, SendFull, Overflowing
  <2> QED BY <1>6, <2>1 DEF PairsWellFormed, SendFull
<1>7. ASSUME Consume PROVE PairsWellFormed'
  <2>1. pairs # << >> /\ pairs' = Tail(pairs) /\ calls' = calls
    BY <1>7 DEF Consume
  <2>2. \A m \in DOMAIN pairs' : m + 1 \in DOMAIN pairs /\ pairs'[m] = pairs[m + 1]
    BY <1>0, <2>1, HeadTailProperties
  <2> QED BY <2>1, <2>2 DEF PairsWellFormed, Carrying
<1>8. ASSUME NEW g \in Callers, Discard(g) \/ CountDrop(g) \/ Supersede(g) \/ Store(g)
      PROVE  PairsWellFormed'
  <2>1. calls' = [calls EXCEPT ![g] = Idle] /\ pairs' = pairs
    BY <1>8 DEF Discard, CountDrop, Supersede, Store, Return
  <2> QED BY <1>2, <2>1
<1> QED
  BY <1>1, <1>3, <1>4, <1>5, <1>6, <1>7, <1>8
     DEF Next, IngestStep, Sweep, Tick, Quiet, vars

\* A pair that is under way or in the channel is one primary and one shadow of the
\* same correlation id, in every interleaving and of whatever was posted.
THEOREM PairsMatch == Spec => []PairsWellFormed
<1>1. Init => PairsWellFormed
  BY DEF Init, PairsWellFormed, Carrying, Idle
<1> QED BY ShapeInit, ShapeStep, ShapeSplit, <1>1, MatchedStep, PTL DEF Spec

\* Who carries a pair, and how many of them there are.
LEMMA CarryingCounted == IsFiniteSet(Carrying) /\ Cardinality(Carrying) \in Nat
<1>1. Carrying \subseteq Callers /\ IsFiniteSet(Callers)
  BY ConstantsAssumption DEF Carrying, ConstantsAssumption
<1> QED BY <1>1, FS_Subset, FS_CardinalityType

\* Every pair counted is consumed, in the channel or carried; the step that
\* uncounts one drops what it carried.
LEMMA PairsAccountedStep == Shape /\ PairsAccounted /\ [Next]_vars => PairsAccounted'
<1> SUFFICES ASSUME Shape, PairsAccounted, [Next]_vars PROVE PairsAccounted'
  OBVIOUS
<1> DEFINE k == Cardinality(Carrying)  k1 == Cardinality(Carrying')
<1>0. /\ calls \in [Callers -> CallState] /\ pairs \in Seq(Pair) /\ Len(pairs) \in Nat
      /\ stats \in StatType /\ gone \in GoneType /\ k \in Nat /\ Sizes
      /\ stats.paired = gone.consumed + Len(pairs) + k /\ gone.overflowed <= stats.dropped
  <2>1. calls \in [Callers -> CallState] /\ stats \in StatType /\ gone \in GoneType
    BY RecordsTyped DEF Shape
  <2>2. pairs \in Seq(Pair) /\ Len(pairs) \in Nat
    BY DEF Shape, TypeOK
  <2>3. k \in Nat /\ Sizes
    BY CarryingCounted, ShapeSizes
  <2>4. stats.paired = gone.consumed + Len(pairs) + k /\ gone.overflowed <= stats.dropped
    BY DEF PairsAccounted
  <2> QED BY <2>1, <2>2, <2>3, <2>4
<1>1. ASSUME stats'.paired = gone'.consumed + Len(pairs') + k1,
             gone'.overflowed <= stats'.dropped
      PROVE  PairsAccounted'
  BY <1>1 DEF PairsAccounted
<1>2. ASSUME NEW g \in Callers, g \in Carrying, calls' = [calls EXCEPT ![g] = Idle]
      PROVE  k1 = k - 1
  <2>1. Carrying' = Carrying \ {g}
    BY <1>0, <1>2 DEF Carrying, Idle
  <2> QED BY <1>2, <2>1, CarryingCounted, FS_RemoveElement
<1>3. ASSUME NEW g \in Callers, g \notin Carrying, calls' = [calls EXCEPT ![g] = Idle]
      PROVE  k1 = k
  <2>1. Carrying' = Carrying
    BY <1>0, <1>3 DEF Carrying, Idle
  <2> QED BY <2>1
<1>4. ASSUME stats' = stats, gone' = gone, pairs' = pairs, Carrying' = Carrying
      PROVE  PairsAccounted'
  BY <1>0, <1>4 DEF PairsAccounted
<1>5. ASSUME NEW g \in Callers, NEW p \in Paths, NEW i \in Ids \union {NoId}, CallIngest(g, p, i)
      PROVE  PairsAccounted'
  <2>1. Carrying' = Carrying
    BY <1>0, <1>5 DEF CallIngest, Carrying, Called
  <2> QED BY <1>4, <1>5, <2>1 DEF CallIngest
<1>6. ASSUME NEW g \in Callers, Discard(g) PROVE PairsAccounted'
  <2>1. /\ k1 = k /\ pairs' = pairs /\ gone' = gone
    BY <1>3, <1>6 DEF Discard, Return, Carrying
  <2>2. stats'.paired = stats.paired /\ stats'.dropped = stats.dropped
    BY <1>0, <1>6, DiscardTyped DEF Discard
  <2> HIDE DEF k1, k
  <2> QED BY <1>0, <1>1, <2>1, <2>2
<1>7. ASSUME NEW g \in Callers, Supersede(g) PROVE PairsAccounted'
  <2>1. k1 = k /\ pairs' = pairs
    BY <1>3, <1>7 DEF Supersede, Return, Carrying, Filing
  <2>2. /\ stats'.paired = stats.paired /\ stats'.dropped = stats.dropped
        /\ gone'.overflowed = gone.overflowed /\ gone'.consumed = gone.consumed
    BY <1>7, SupersedeCounts
  <2> HIDE DEF k1, k
  <2> QED BY <1>0, <1>1, <2>1, <2>2
<1>8. ASSUME NEW g \in Callers, Store(g) PROVE PairsAccounted'
  <2>1. k1 = k /\ pairs' = pairs
    BY <1>3, <1>8 DEF Store, Return, Carrying, Filing
  <2>2. PICK v \in Nat : /\ stats'.paired = stats.paired /\ stats'.dropped = stats.dropped + v
                         /\ gone' = gone
    BY <1>8, StoreCounts
  <2> HIDE DEF k1, k
  <2>3. gone'.overflowed <= stats'.dropped
    BY <1>0, <2>2 DEF Sizes
  <2> QED BY <1>0, <1>1, <2>1, <2>2, <2>3
<1>9. ASSUME NEW g \in Callers, Match(g) PROVE PairsAccounted'
  <2>1. /\ calls[g].pc = "called" /\ pairs' = pairs
        /\ \E p : calls' = [calls EXCEPT ![g] = Sending(p)]
    BY <1>9, MatchTakes
  <2>2. Carrying' = Carrying \union {g} /\ g \notin Carrying
    BY <1>0, <2>1 DEF Carrying, Sending
  <2>3. k1 = k + 1
    BY <2>2, CarryingCounted, FS_AddElement
  <2>4. stats'.paired = stats.paired + 1 /\ stats'.dropped = stats.dropped /\ gone' = gone
    BY <1>9, MatchCounts DEF Match
  <2> HIDE DEF k1, k
  <2> QED BY <1>0, <1>1, <2>1, <2>3, <2>4 DEF Sizes, GoneType
<1>10. ASSUME NEW g \in Callers, Send(g) PROVE PairsAccounted'
  <2>1. /\ g \in Carrying /\ calls' = [calls EXCEPT ![g] = Idle]
        /\ pairs' = Append(pairs, calls[g].pair) /\ stats' = stats /\ gone' = gone
    BY <1>10 DEF Send, Return, Carrying
  <2>2. calls[g].pair \in Pair
    BY <1>10, CallsTyped DEF Shape, Send
  <2>3. Len(pairs') = Len(pairs) + 1
    BY <1>0, <2>1, <2>2, AppendProperties
  <2>4. k1 = k - 1
    BY <1>2, <2>1
  <2> HIDE DEF k1, k
  <2> QED BY <1>0, <1>1, <2>1, <2>3, <2>4 DEF Sizes, GoneType
<1>11. ASSUME NEW g \in Callers, SendFull(g) PROVE PairsAccounted'
  <2>1. Carrying' = Carrying
    BY <1>0, <1>11 DEF SendFull, Carrying, Overflowing
  <2> QED BY <1>4, <1>11, <2>1 DEF SendFull
<1>12. ASSUME NEW g \in Callers, CountDrop(g) PROVE PairsAccounted'
  <2>1. /\ g \in Carrying /\ calls' = [calls EXCEPT ![g] = Idle]
        /\ pairs' = pairs /\ gone' = [gone EXCEPT !.overflowed = @ + 1]
    BY <1>12 DEF CountDrop, Return, Carrying
  <2>2. stats'.paired = stats.paired - 1 /\ stats'.dropped = stats.dropped + 1
    BY <1>0, <1>12, CountDropTyped DEF CountDrop
  <2>3. gone'.overflowed = gone.overflowed + 1 /\ gone'.consumed = gone.consumed
    BY <1>0, <2>1 DEF GoneType
  <2>4. k1 = k - 1
    BY <1>2, <2>1
  <2> HIDE DEF k1, k
  <2> QED BY <1>0, <1>1, <2>1, <2>2, <2>3, <2>4 DEF Sizes, GoneType
<1>13. ASSUME Sweep PROVE PairsAccounted'
  <2>1. calls' = calls /\ pairs' = pairs /\ gone' = gone
    BY <1>13 DEF Sweep
  <2>2. stats'.paired = stats.paired /\ stats'.dropped = stats.dropped
    BY <1>13, SweepCounts
  <2>3. Carrying' = Carrying
    BY <2>1 DEF Carrying
  <2> QED BY <1>0, <1>1, <2>1, <2>2, <2>3
<1>14. ASSUME Consume PROVE PairsAccounted'
  <2>1. /\ pairs # << >> /\ pairs' = Tail(pairs) /\ stats' = stats
        /\ gone' = [gone EXCEPT !.consumed = @ + 1] /\ calls' = calls
    BY <1>14 DEF Consume
  <2>2. Len(pairs') = Len(pairs) - 1
    BY <1>0, <2>1, HeadTailProperties
  <2>3. gone'.overflowed = gone.overflowed /\ gone'.consumed = gone.consumed + 1
    BY <1>0, <2>1 DEF GoneType
  <2>4. k1 = k
    BY <2>1 DEF Carrying
  <2> HIDE DEF k1, k
  <2> QED BY <1>0, <1>1, <2>1, <2>2, <2>3, <2>4 DEF Sizes, GoneType
<1>15. ASSUME Tick \/ Quiet \/ UNCHANGED vars PROVE PairsAccounted'
  <2>1. stats' = stats /\ gone' = gone /\ pairs' = pairs /\ calls' = calls
    BY <1>15 DEF Tick, Quiet, vars
  <2>2. Carrying' = Carrying
    BY <2>1 DEF Carrying
  <2> QED BY <1>4, <2>1, <2>2
<1> QED
  BY <1>5, <1>6, <1>7, <1>8, <1>9, <1>10, <1>11, <1>12, <1>13, <1>14, <1>15
     DEF Next, IngestStep

\* Paired counts exactly the pairs the diff engine took, those in the channel and
\* those a call still carries, although a drop is counted in a second critical
\* section; and a pair dropped is never counted as paired.
THEOREM PairsConserved == Spec => []PairsAccounted
<1>1. Init => PairsAccounted
  <2> SUFFICES ASSUME Init PROVE PairsAccounted
    OBVIOUS
  <2>1. Carrying = {}
    BY DEF Init, Carrying, Idle
  <2>2. Cardinality(Carrying) = 0
    BY <2>1, FS_EmptySet
  <2> QED BY <2>2 DEF Init, PairsAccounted
<1> QED BY ShapeInit, ShapeStep, ShapeSplit, <1>1, PairsAccountedStep, PTL DEF Spec

-----------------------------------------------------------------------------
(* No capture is in two places *)

\* Whatever is somewhere after a step came from somewhere, and no two places are
\* filled from one.
Moved ==
  \A x, y \in Located' : \E u, v \in Located :
    u[2] = x[2] /\ v[2] = y[2] /\ (u[1] = v[1] => x[1] = y[1])

\* Nothing moves, but something may leave.
LEMMA LeavesOnly ==
  ASSUME Located' \subseteq Located
  PROVE  Moved
BY DEF Moved

\* One capture moves, or two, and something may leave.
LEMMA MovesTwo ==
  ASSUME NEW u \in Located, NEW v \in Located, NEW p, NEW q, u[1] = v[1] => p = q,
         \A x \in Located' : \/ x \in Located /\ x[1] # u[1] /\ x[1] # v[1]
                             \/ x[1] = p /\ x[2] = u[2]
                             \/ x[1] = q /\ x[2] = v[2]
  PROVE  Moved
<1> SUFFICES ASSUME NEW x \in Located', NEW y \in Located'
             PROVE  \E a, b \in Located :
                      a[2] = x[2] /\ b[2] = y[2] /\ (a[1] = b[1] => x[1] = y[1])
  BY DEF Moved
<1>1. CASE x \in Located /\ x[1] # u[1] /\ x[1] # v[1]
  BY <1>1
<1>2. CASE x[1] = p /\ x[2] = u[2]
  BY <1>2
<1>3. CASE x[1] = q /\ x[2] = v[2]
  BY <1>3
<1> QED BY <1>1, <1>2, <1>3

\* What is where, place by place.
Somewhere(x) ==
  \/ \E g \in Callers : calls[g].pc = "called" /\ x = <<<<"called", g>>, calls[g].cap>>
  \/ \E i \in DOMAIN pending : x = <<<<"held", i>>, pending[i]>>
  \/ \E g \in Carrying : x = <<<<"left", g>>, calls[g].pair.primary>>
  \/ \E g \in Carrying : x = <<<<"right", g>>, calls[g].pair.shadow>>
  \/ \E m \in DOMAIN pairs : x = <<<<"primary", m>>, pairs[m].primary>>
  \/ \E m \in DOMAIN pairs : x = <<<<"shadow", m>>, pairs[m].shadow>>

\* Located is the set of what is somewhere.
LEMMA LocatedIs == \A x : x \in Located <=> Somewhere(x)
BY DEF Located, Somewhere

\* The same of the next state.
LEMMA LocatedNext == \A x : x \in Located' <=> Somewhere(x)'
BY DEF Located, Somewhere

\* A call that returns takes away what it held.
LEMMA ReturnLeaves ==
  ASSUME calls \in [Callers -> CallState], NEW g \in Callers,
         calls' = [calls EXCEPT ![g] = Idle], pending' = pending, pairs' = pairs
  PROVE  Moved
<1>1. \A h \in Callers : calls'[h].pc # "idle" => calls'[h] = calls[h]
  BY DEF Idle
<1>2. \A x : Somewhere(x)' => Somewhere(x)
  BY <1>1 DEF Somewhere, Carrying
<1> QED BY <1>2, LocatedIs, LocatedNext, LeavesOnly

\* Discarding, dropping and finding the channel full move nothing.
LEMMA StaysMoved ==
  ASSUME Shape, NEW g \in Callers, Discard(g) \/ CountDrop(g) \/ SendFull(g)
  PROVE  Moved
<1>0. calls \in [Callers -> CallState]
  BY RecordsTyped DEF Shape
<1>1. CASE Discard(g) \/ CountDrop(g)
  <2>1. calls' = [calls EXCEPT ![g] = Idle] /\ pending' = pending /\ pairs' = pairs
    BY <1>1 DEF Discard, CountDrop, Return
  <2> QED BY <1>0, <2>1, ReturnLeaves
<1>2. CASE SendFull(g)
  <2>1. /\ Carrying' = Carrying /\ \A h \in Carrying : calls'[h].pair = calls[h].pair
        /\ \A h \in Callers : calls'[h].pc = "called" => calls'[h] = calls[h]
        /\ pending' = pending /\ pairs' = pairs
    BY <1>0, <1>2 DEF SendFull, Carrying, Overflowing
  <2>2. \A x : Somewhere(x)' => Somewhere(x)
    BY <2>1 DEF Somewhere
  <2> QED BY <2>2, LocatedIs, LocatedNext, LeavesOnly
<1> QED BY <1>1, <1>2

\* Filing a capture moves it from the call into the map.
LEMMA FilesMoved ==
  ASSUME Shape, NEW g \in Callers, Supersede(g) \/ Store(g)
  PROVE  Moved
<1> DEFINE c == calls[g].cap
           u == <<<<"called", g>>, c>>
           p == <<"held", c.id>>
<1>0. calls \in [Callers -> CallState]
  BY RecordsTyped DEF Shape
<1>1. /\ calls[g].pc = "called" /\ calls' = [calls EXCEPT ![g] = Idle] /\ pairs' = pairs
      /\ \A i \in DOMAIN pending' : \/ i \in DOMAIN pending /\ pending'[i] = pending[i]
                                    \/ i = c.id /\ pending'[i] = c
  BY FilesOne
<1>2. u \in Located
  BY <1>1, LocatedIs DEF Somewhere
<1>3. \A h \in Callers : calls'[h].pc # "idle" => h # g /\ calls'[h] = calls[h]
  BY <1>0, <1>1 DEF Idle
<1> HIDE DEF c
<1>4. \A x : Somewhere(x)' => \/ Somewhere(x) /\ x[1] # <<"called", g>>
                              \/ x[1] = p /\ x[2] = c
  BY <1>1, <1>3 DEF Somewhere, Carrying
<1>5. u[1] = <<"called", g>> /\ u[2] = c
  OBVIOUS
<1> HIDE DEF u, p
<1>6. \A x \in Located' : \/ x \in Located /\ x[1] # u[1]
                          \/ x[1] = p /\ x[2] = u[2]
  BY <1>4, <1>5, LocatedIs, LocatedNext
<1> QED BY <1>2, <1>6, MovesTwo

\* A match moves the capture of the call and its partner into the pair.
LEMMA MatchMoved ==
  ASSUME Shape, NEW g \in Callers, Match(g)
  PROVE  Moved
<1> DEFINE c == calls[g].cap
           d == pending[c.id]
           pair == PairOf(c, d)
           u == <<<<"called", g>>, c>>
           v == <<<<"held", c.id>>, d>>
           p == IF c.path = "primary" THEN <<"left", g>> ELSE <<"right", g>>
           q == IF c.path = "primary" THEN <<"right", g>> ELSE <<"left", g>>
<1>0. calls \in [Callers -> CallState]
  BY RecordsTyped DEF Shape
<1>1. /\ calls[g].pc = "called" /\ c.id \in DOMAIN pending
      /\ calls' = [calls EXCEPT ![g] = Sending(pair)]
      /\ \A i \in DOMAIN pending' : i \in DOMAIN pending /\ i # c.id /\ pending'[i] = pending[i]
      /\ pairs' = pairs
  BY MatchTakes
<1>2. u \in Located /\ v \in Located
  BY <1>1, LocatedIs DEF Somewhere
<1>3. /\ calls'[g].pc = "send" /\ calls'[g].pair = pair
      /\ \A h \in Callers : h # g => calls'[h] = calls[h]
  BY <1>0, <1>1 DEF Sending
<1>4. \/ pair.primary = c /\ pair.shadow = d /\ p = <<"left", g>> /\ q = <<"right", g>>
      \/ pair.primary = d /\ pair.shadow = c /\ p = <<"right", g>> /\ q = <<"left", g>>
  BY DEF PairOf
<1> HIDE DEF c, d, pair, p, q
<1>5. \A x : Somewhere(x)' => \/ Somewhere(x) /\ x[1] # <<"called", g>> /\ x[1] # <<"held", c.id>>
                              \/ x[1] = <<"left", g>> /\ x[2] = pair.primary
                              \/ x[1] = <<"right", g>> /\ x[2] = pair.shadow
  BY <1>1, <1>3 DEF Somewhere, Carrying
<1>6. /\ u[1] = <<"called", g>> /\ u[2] = c /\ v[1] = <<"held", c.id>> /\ v[2] = d
      /\ u[1] # v[1]
  OBVIOUS
<1> HIDE DEF u, v
<1>7. \A x \in Located' : \/ x \in Located /\ x[1] # u[1] /\ x[1] # v[1]
                          \/ x[1] = p /\ x[2] = u[2]
                          \/ x[1] = q /\ x[2] = v[2]
  BY <1>4, <1>5, <1>6, LocatedIs, LocatedNext
<1>8. u[1] = v[1] => p = q
  BY <1>6
<1> QED BY <1>2, <1>7, <1>8, MovesTwo

\* A send moves both captures of the pair into the channel.
LEMMA SendMoved ==
  ASSUME Shape, NEW g \in Callers, Send(g)
  PROVE  Moved
<1> DEFINE pair == calls[g].pair
           n == Len(pairs) + 1
           u == <<<<"left", g>>, pair.primary>>
           v == <<<<"right", g>>, pair.shadow>>
           p == <<"primary", n>>
           q == <<"shadow", n>>
<1>0. calls \in [Callers -> CallState] /\ pairs \in Seq(Pair)
  BY RecordsTyped DEF Shape, TypeOK
<1>1. /\ calls[g].pc = "send" /\ g \in Carrying /\ pending' = pending
      /\ calls' = [calls EXCEPT ![g] = Idle] /\ pairs' = Append(pairs, pair)
  BY DEF Send, Return, Carrying
<1>2. u \in Located /\ v \in Located
  BY <1>1, LocatedIs DEF Somewhere
<1>3. \A h \in Callers : calls'[h].pc # "idle" => h # g /\ calls'[h] = calls[h]
  BY <1>0, <1>1 DEF Idle
<1>4. pair \in Pair
  BY <1>1, CallsTyped DEF Shape
<1> HIDE DEF pair
<1>5. \A m \in DOMAIN pairs' : \/ m \in DOMAIN pairs /\ pairs'[m] = pairs[m]
                               \/ m = n /\ pairs'[m] = pair
  BY <1>0, <1>1, <1>4
<1> HIDE DEF n
<1>6. \A x : Somewhere(x)' => \/ Somewhere(x) /\ x[1] # <<"left", g>> /\ x[1] # <<"right", g>>
                              \/ x[1] = p /\ x[2] = pair.primary
                              \/ x[1] = q /\ x[2] = pair.shadow
  BY <1>1, <1>3, <1>5 DEF Somewhere, Carrying
<1>7. /\ u[1] = <<"left", g>> /\ u[2] = pair.primary /\ v[1] = <<"right", g>>
      /\ v[2] = pair.shadow /\ u[1] # v[1]
  OBVIOUS
<1> HIDE DEF u, v, p, q
<1>8. \A x \in Located' : \/ x \in Located /\ x[1] # u[1] /\ x[1] # v[1]
                          \/ x[1] = p /\ x[2] = u[2]
                          \/ x[1] = q /\ x[2] = v[2]
  BY <1>6, <1>7, LocatedIs, LocatedNext
<1> QED BY <1>2, <1>7, <1>8, MovesTwo

\* What is in the channel moves up when a pair is taken out.
LEMMA ConsumeMoved ==
  ASSUME Shape, Consume
  PROVE  Moved
<1>0. pairs \in Seq(Pair)
  BY DEF Shape, TypeOK
<1>1. pairs # << >> /\ pairs' = Tail(pairs) /\ calls' = calls /\ pending' = pending
  BY DEF Consume
<1>2. \A m \in DOMAIN pairs' : m \in Int /\ m + 1 \in DOMAIN pairs /\ pairs'[m] = pairs[m + 1]
  BY <1>0, <1>1, HeadTailProperties
\* Where a capture came from: the position behind it, if it is in the channel.
<1> DEFINE Came(x, u) == /\ u[2] = x[2]
                         /\ \/ u[1] = x[1] /\ u[1][1] \notin {"primary", "shadow"}
                            \/ \E side \in {"primary", "shadow"}, m \in Int :
                                 x[1] = <<side, m>> /\ u[1] = <<side, m + 1>>
<1>3. \A x : Somewhere(x)' => \E u : Somewhere(u) /\ Came(x, u)
  <2> SUFFICES ASSUME NEW x, Somewhere(x)' PROVE \E u : Somewhere(u) /\ Came(x, u)
    OBVIOUS
  <2>1. CASE \E m \in DOMAIN pairs' : x = <<<<"primary", m>>, pairs'[m].primary>>
    <3>1. PICK m \in DOMAIN pairs' : x = <<<<"primary", m>>, pairs'[m].primary>>
      BY <2>1
    <3>2. Somewhere(<<<<"primary", m + 1>>, pairs[m + 1].primary>>)
      BY <1>2 DEF Somewhere
    <3>3. Came(x, <<<<"primary", m + 1>>, pairs[m + 1].primary>>)
      BY <1>2, <3>1
    <3> QED BY <3>2, <3>3
  <2>2. CASE \E m \in DOMAIN pairs' : x = <<<<"shadow", m>>, pairs'[m].shadow>>
    <3>1. PICK m \in DOMAIN pairs' : x = <<<<"shadow", m>>, pairs'[m].shadow>>
      BY <2>2
    <3>2. Somewhere(<<<<"shadow", m + 1>>, pairs[m + 1].shadow>>)
      BY <1>2 DEF Somewhere
    <3>3. Came(x, <<<<"shadow", m + 1>>, pairs[m + 1].shadow>>)
      BY <1>2, <3>1
    <3> QED BY <3>2, <3>3
  <2>3. CASE /\ ~\E m \in DOMAIN pairs' : x = <<<<"primary", m>>, pairs'[m].primary>>
             /\ ~\E m \in DOMAIN pairs' : x = <<<<"shadow", m>>, pairs'[m].shadow>>
    <3>1. Somewhere(x) /\ x[1][1] \notin {"primary", "shadow"}
      BY <1>1, <2>3 DEF Somewhere, Carrying
    <3> QED BY <3>1
  <2> QED BY <2>1, <2>2, <2>3
<1>4. \A x, y, u, v : Came(x, u) /\ Came(y, v) /\ u[1] = v[1] => x[1] = y[1]
  OBVIOUS
<1>5. \A x, u : Came(x, u) => u[2] = x[2]
  OBVIOUS
<1> HIDE DEF Came
<1> SUFFICES ASSUME NEW x \in Located', NEW y \in Located'
             PROVE  \E u, v \in Located :
                      u[2] = x[2] /\ v[2] = y[2] /\ (u[1] = v[1] => x[1] = y[1])
  BY DEF Moved
<1>6. PICK u \in Located : Came(x, u)
  BY <1>3, LocatedIs, LocatedNext
<1>7. PICK v \in Located : Came(y, v)
  BY <1>3, LocatedIs, LocatedNext
<1> QED BY <1>4, <1>5, <1>6, <1>7

\* Every step moves captures, except the call that brings one.
LEMMA StepMoves ==
  ASSUME Shape, [Next]_vars,
         ~\E g \in Callers, p \in Paths, i \in Ids \union {NoId} : CallIngest(g, p, i)
  PROVE  Moved /\ begun' = begun /\ reported' = reported
<1>1. ASSUME NEW g \in Callers, IngestStep(g) PROVE Moved
  BY <1>1, StaysMoved, FilesMoved, MatchMoved, SendMoved DEF IngestStep
<1>2. ASSUME Fewer, calls' = calls, pairs' = pairs PROVE Moved
  <2>1. \A x : Somewhere(x)' => Somewhere(x)
    BY <1>2 DEF Fewer, Somewhere, Carrying
  <2> QED BY <2>1, LocatedIs, LocatedNext, LeavesOnly
<1>3. ASSUME Sweep PROVE Moved
  BY <1>2, <1>3, SweepTakes
<1>4. ASSUME Tick \/ Quiet \/ UNCHANGED vars PROVE Moved
  BY <1>2, <1>4 DEF Tick, Quiet, vars, Fewer
<1>5. begun' = begun /\ reported' = reported
  BY DEF Next, IngestStep, Discard, Supersede, Match, Store, Send, SendFull, CountDrop, Sweep,
         Consume, Tick, Quiet, vars
<1> QED BY <1>1, <1>3, <1>4, <1>5, ConsumeMoved DEF Next

\* The call that brings a capture puts it where nothing was.
LEMMA CallBrings ==
  ASSUME Shape, NEW g \in Callers, NEW p \in Paths, NEW i \in Ids \union {NoId},
         CallIngest(g, p, i)
  PROVE  \A x \in Located' :
           \/ x \in Located
           \/ /\ x[1] = <<"called", g>>
              /\ x[2] = [path |-> p, id |-> i, serial |-> begun + 1, at |-> now]
<1> DEFINE c == [path |-> p, id |-> i, serial |-> begun + 1, at |-> now]
<1>0. calls \in [Callers -> CallState]
  BY RecordsTyped DEF Shape
<1>1. /\ calls' = [calls EXCEPT ![g] = Called(c)] /\ pending' = pending /\ pairs' = pairs
  BY DEF CallIngest
<1> HIDE DEF c
<1>2. /\ calls'[g].pc = "called" /\ calls'[g].cap = c
      /\ \A h \in Callers : h # g => calls'[h] = calls[h]
  BY <1>0, <1>1 DEF Called
<1>3. \A x : Somewhere(x)' => Somewhere(x) \/ (x[1] = <<"called", g>> /\ x[2] = c)
  BY <1>1, <1>2 DEF Somewhere, Carrying
<1> QED BY <1>3, LocatedIs, LocatedNext DEF c

-----------------------------------------------------------------------------
(* Serials, and in proxy mode sides of an id, are where they are once *)

\* Serials are given out in order, and none is in two places.
SerialsOnce ==
  /\ \A x \in Located : x[2].serial <= begun
  /\ NoCaptureTwice

\* In proxy mode the side and the id identify a capture as its serial does.
SidesOnce ==
  Posted = FALSE =>
    /\ \A x \in Located : <<x[2].path, x[2].id>> \in reported
    /\ \A x, y \in Located : x[2].path = y[2].path /\ x[2].id = y[2].id => x[1] = y[1]

\* A capture somewhere is a capture.
LEMMA LocatedTyped == Shape => \A x \in Located : x[2] \in Capture
<1> SUFFICES ASSUME Shape, NEW x, Somewhere(x) PROVE x[2] \in Capture
  BY LocatedIs
<1>1. /\ \A g \in Callers : calls[g].pc = "called" => calls[g].cap \in Capture
      /\ \A g \in Carrying : calls[g].pair \in Pair
      /\ \A i \in DOMAIN pending : pending[i] \in Capture
      /\ \A m \in DOMAIN pairs : pairs[m] \in Pair
  BY CallsTyped DEF Shape, Table, Carrying, TypeOK
<1> QED BY <1>1 DEF Somewhere, Pair

\* The newest serial is above all others; the rest only moves.
LEMMA SerialsStep == Shape /\ SerialsOnce /\ [Next]_vars => SerialsOnce'
<1> SUFFICES ASSUME Shape, SerialsOnce, [Next]_vars PROVE SerialsOnce'
  OBVIOUS
<1>0. begun \in Nat /\ \A x \in Located : x[2].serial \in Nat
  BY LocatedTyped DEF Shape, TypeOK, Capture
<1>1. CASE ~\E g \in Callers, p \in Paths, i \in Ids \union {NoId} : CallIngest(g, p, i)
  <2>1. Moved /\ begun' = begun
    BY <1>1, StepMoves
  <2> QED BY <2>1 DEF Moved, SerialsOnce, NoCaptureTwice
<1>2. ASSUME NEW g \in Callers, NEW p \in Paths, NEW i \in Ids \union {NoId}, CallIngest(g, p, i)
      PROVE  SerialsOnce'
  <2> DEFINE c == [path |-> p, id |-> i, serial |-> begun + 1, at |-> now]
  <2>1. begun' = begun + 1 /\ c.serial = begun + 1
    BY <1>2 DEF CallIngest
  <2>2. \A x \in Located' : x \in Located \/ (x[1] = <<"called", g>> /\ x[2] = c)
    BY <1>2, CallBrings
  <2> HIDE DEF c
  <2>3. \A x \in Located' : x[2].serial <= begun'
    BY <1>0, <2>1, <2>2 DEF SerialsOnce
  <2>4. \A x, y \in Located' : x[2].serial = y[2].serial => x[1] = y[1]
    BY <1>0, <2>1, <2>2 DEF SerialsOnce, NoCaptureTwice
  <2> QED BY <2>3, <2>4 DEF SerialsOnce, NoCaptureTwice
<1> QED BY <1>1, <1>2

\* In proxy mode a call brings a side that was not reported before.
LEMMA SidesStep == Shape /\ SidesOnce /\ [Next]_vars => SidesOnce'
<1> SUFFICES ASSUME Shape, SidesOnce, [Next]_vars, Posted = FALSE
             PROVE  /\ \A x \in Located' : <<x[2].path, x[2].id>> \in reported'
                    /\ \A x, y \in Located' :
                         x[2].path = y[2].path /\ x[2].id = y[2].id => x[1] = y[1]
  BY DEF SidesOnce
<1>1. CASE ~\E g \in Callers, p \in Paths, i \in Ids \union {NoId} : CallIngest(g, p, i)
  <2>1. Moved /\ reported' = reported
    BY <1>1, StepMoves
  <2> QED BY <2>1 DEF Moved, SidesOnce
<1>2. ASSUME NEW g \in Callers, NEW p \in Paths, NEW i \in Ids \union {NoId}, CallIngest(g, p, i)
      PROVE  /\ \A x \in Located' : <<x[2].path, x[2].id>> \in reported'
             /\ \A x, y \in Located' :
                  x[2].path = y[2].path /\ x[2].id = y[2].id => x[1] = y[1]
  <2> DEFINE c == [path |-> p, id |-> i, serial |-> begun + 1, at |-> now]
  <2>1. /\ <<p, i>> \notin reported /\ reported' = reported \union {<<p, i>>}
        /\ c.path = p /\ c.id = i
    BY <1>2 DEF CallIngest, MadeByProxy
  <2>2. \A x \in Located' : x \in Located \/ (x[1] = <<"called", g>> /\ x[2] = c)
    BY <1>2, CallBrings
  <2> HIDE DEF c
  <2> QED BY <2>1, <2>2 DEF SidesOnce
<1> QED BY <1>1, <1>2

\* At the start nothing is anywhere.
LEMMA InitNowhere == Init => Located = {}
<1>1. Init => \A x : ~Somewhere(x)
  BY DEF Init, Somewhere, Carrying, Idle
<1> QED BY <1>1, LocatedIs

\* What the theorems below rest on.
Placed == Shape /\ SerialsOnce /\ SidesOnce

\* Placed is inductive.
LEMMA PlacedAlways == Spec => []Placed
<1>1. Init => Placed
  BY ShapeInit, InitNowhere DEF Placed, SerialsOnce, NoCaptureTwice, SidesOnce
<1>2. Placed /\ [Next]_vars => Placed'
  <2> SUFFICES ASSUME Placed, [Next]_vars PROVE Shape' /\ SerialsOnce' /\ SidesOnce'
    BY DEF Placed
  <2>1. Shape'
    <3>1. Surroundings' /\ Contents'
      BY ShapeStep DEF Placed
    <3> QED BY <3>1, ShapeSplit, PTL
  <2>2. SerialsOnce' /\ SidesOnce'
    BY SerialsStep, SidesStep DEF Placed
  <2> QED BY <2>1, <2>2
<1> QED BY <1>1, <1>2, PTL DEF Spec

\* No capture is compared twice, and none that was paired can also expire or be
\* evicted, however the calls interleave.
THEOREM CapturesOnce == Spec => []NoCaptureTwice
<1>1. Placed => NoCaptureTwice
  BY DEF Placed, SerialsOnce
<1> QED BY <1>1, PlacedAlways, PTL

\* In proxy mode nothing is superseded: a superseded capture would be held under
\* the id and the side of the one that is being filed.
LEMMA NothingSuperseded ==
  ASSUME Posted = FALSE, Placed, NEW g \in Callers
  PROVE  ~Supersede(g)
<1> SUFFICES ASSUME Supersede(g) PROVE FALSE
  OBVIOUS
<1> DEFINE c == Arg(g)
           held == Held(c.at)
<1>1. /\ c = calls[g].cap /\ calls[g].pc = "called" /\ c.id \in DOMAIN held
      /\ held[c.id].path = c.path /\ c.at \in Nat
  BY FilingTyped DEF Supersede, Filing, Arg, Placed, Shape
<1>2. c.id \in DOMAIN pending /\ held[c.id] = pending[c.id]
  BY <1>1, HeldShape DEF Placed
<1>3. pending[c.id].id = c.id /\ pending[c.id].path = c.path
  BY <1>1, <1>2 DEF Placed, Shape, Table
<1> HIDE DEF c, held
<1> DEFINE x == <<<<"called", g>>, c>>
           y == <<<<"held", c.id>>, pending[c.id]>>
<1>4. x \in Located /\ y \in Located
  BY <1>1, <1>2, LocatedIs DEF Somewhere
<1>5. x[2].path = y[2].path /\ x[2].id = y[2].id
  BY <1>3
<1>6. x[1] = y[1]
  BY <1>4, <1>5 DEF Placed, SidesOnce
<1> QED BY <1>6

\* In proxy mode GET /stats adds up, granting that one drop may stand for the two
\* captures of a pair.  (A capture posted twice is superseded, and uncounted.)
THEOREM StatsAddUpForProxy ==
  ASSUME Posted = FALSE
  PROVE  Spec => []StatsAddUp
<1> DEFINE NoneSuperseded == gone.superseded = 0
<1>1. Init => NoneSuperseded
  BY DEF Init
<1>2. Placed /\ NoneSuperseded /\ [Next]_vars => NoneSuperseded'
  <2> SUFFICES ASSUME Placed, gone.superseded = 0, [Next]_vars PROVE gone'.superseded = 0
    OBVIOUS
  <2>1. gone \in GoneType
    BY RecordsTyped DEF Placed, Shape
  <2>2. \A g \in Callers : ~Supersede(g)
    BY NothingSuperseded
  <2>3. \/ gone' = gone
        \/ gone' = [gone EXCEPT !.overflowed = @ + 1]
        \/ gone' = [gone EXCEPT !.consumed = @ + 1]
    BY <2>2 DEF Next, IngestStep, CallIngest, Discard, Match, Store, Send, SendFull, CountDrop,
                Sweep, Consume, Tick, Quiet, vars
  <2> QED BY <2>1, <2>3 DEF GoneType
<1>3. Placed /\ NoneSuperseded /\ EveryCaptureAccounted /\ PairsAccounted => StatsAddUp
  <2> SUFFICES ASSUME Placed, NoneSuperseded, EveryCaptureAccounted, PairsAccounted
               PROVE  StatsAddUp
    OBVIOUS
  <2> DEFINE size == Cardinality(DOMAIN pending)
  <2>1. /\ size \in Nat /\ stats.expired \in Nat /\ stats.dropped \in Nat
        /\ stats.discarded \in Nat /\ stats.paired \in Int /\ gone.overflowed \in Nat
    BY ShapeSizes DEF Placed, Sizes
  <2>2. stats.received = stats.discarded + gone.superseded + size + stats.expired
                         + 2 * stats.paired + stats.dropped + gone.overflowed
    BY DEF EveryCaptureAccounted
  <2>3. gone.superseded = 0 /\ gone.overflowed <= stats.dropped
    BY DEF PairsAccounted
  <2> HIDE DEF size
  <2>4. stats.received <= stats.discarded + size + stats.expired + 2 * stats.paired
                          + 2 * stats.dropped
    BY <2>1, <2>2, <2>3
  <2> QED BY <2>4 DEF StatsAddUp, size
<1> HIDE DEF NoneSuperseded
<1> QED
  BY <1>1, <1>2, <1>3, PlacedAlways, CapturesConserved, PairsConserved, PTL DEF Spec

-----------------------------------------------------------------------------
(* The buffer implements the abstract correlation *)

\* What waits, by where it is.
Waits(c) ==
  \/ \E g \in Callers : calls[g].pc = "called" /\ c = calls[g].cap
  \/ \E i \in DOMAIN pending : c = pending[i]
  \/ \E g \in Carrying : c = calls[g].pair.primary \/ c = calls[g].pair.shadow

\* The map's range is its values, as Waits says.
LEMMA WaitingIs == \A c : c \in Waiting <=> Waits(c)
BY DEF Waiting, Waits, Range

\* The same of the next state.
LEMMA WaitingNext == \A c : c \in Waiting' <=> Waits(c)'
BY DEF Waiting, Waits, Range

\* The clock stays within the readings that the abstract captures may have.
ClockBounded == now <= MaxNow

\* Captures that leave without being delivered are given up.
LEMMA GivesUp ==
  ASSUME \A c : Waits(c)' => Waits(c), begun' = begun, pairs' = pairs
  PROVE  Correlated!GiveUp
BY WaitingIs, WaitingNext DEF Correlated!GiveUp

\* A call accepts a capture.
LEMMA CallAccepts ==
  ASSUME Shape, ClockBounded, NEW g \in Callers, NEW p \in Paths, NEW i \in Ids \union {NoId},
         CallIngest(g, p, i)
  PROVE  Correlated!Accept
<1> DEFINE c == [path |-> p, id |-> i, serial |-> begun + 1, at |-> now]
<1>0. calls \in [Callers -> CallState] /\ now \in 0 .. MaxNow
  <2>1. calls \in [Callers -> CallState]
    BY RecordsTyped DEF Shape
  <2>2. now \in Nat /\ MaxNow \in Nat
    BY ConstantsAssumption DEF Shape, TypeOK, ConstantsAssumption
  <2> QED BY <2>1, <2>2 DEF ClockBounded
<1>1. /\ calls[g].pc = "idle" /\ calls' = [calls EXCEPT ![g] = Called(c)]
      /\ pending' = pending /\ pairs' = pairs /\ begun' = begun + 1
  BY DEF CallIngest
<1>2. c \in Correlated!Capture(begun + 1)
  BY <1>0 DEF Correlated!Capture
<1> HIDE DEF c
<1>3. /\ calls'[g].pc = "called" /\ calls'[g].cap = c
      /\ \A h \in Callers : h # g => calls'[h] = calls[h]
  BY <1>0, <1>1 DEF Called
<1>4. \A d : Waits(d)' <=> Waits(d) \/ d = c
  BY <1>1, <1>3 DEF Waits, Carrying
<1>5. Waiting' = Waiting \union {c}
  BY <1>4, WaitingIs, WaitingNext
<1> QED BY <1>1, <1>2, <1>5 DEF Correlated!Accept

\* A send delivers the pair that the call carries, which nobody else holds any of.
LEMMA SendDelivers ==
  ASSUME Placed, PairsWellFormed, NEW g \in Callers, Send(g)
  PROVE  Correlated!Deliver
<1> DEFINE pair == calls[g].pair
           p == pair.primary
           s == pair.shadow
<1>0. calls \in [Callers -> CallState]
  BY RecordsTyped DEF Placed, Shape
<1>1. /\ calls[g].pc = "send" /\ g \in Carrying /\ pending' = pending /\ begun' = begun
      /\ calls' = [calls EXCEPT ![g] = Idle] /\ pairs' = Append(pairs, pair)
  BY DEF Send, Return, Carrying
<1>2. pair \in Pair /\ MatchedPair(pair)
  BY <1>1, CallsTyped DEF Placed, Shape, PairsWellFormed
<1>3. \A h \in Callers : IF h = g THEN calls'[h].pc = "idle" ELSE calls'[h] = calls[h]
  BY <1>0, <1>1 DEF Idle
<1>4. <<<<"left", g>>, p>> \in Located /\ <<<<"right", g>>, s>> \in Located
  BY <1>1, LocatedIs DEF Somewhere
<1> HIDE DEF pair
<1>5. \A x : Somewhere(x) /\ (x[2] = p \/ x[2] = s) =>
               x[1] = <<"left", g>> \/ x[1] = <<"right", g>>
  BY <1>4, LocatedIs DEF Placed, SerialsOnce, NoCaptureTwice
<1>6. ASSUME NEW c, Waits(c)' PROVE Waits(c) /\ c # p /\ c # s
  <2>1. CASE \E h \in Callers : h # g /\ calls[h].pc = "called" /\ c = calls[h].cap
    <3>1. PICK h \in Callers : h # g /\ calls[h].pc = "called" /\ c = calls[h].cap
      BY <2>1
    <3>2. Somewhere(<<<<"called", h>>, c>>)
      BY <3>1 DEF Somewhere
    <3> QED BY <1>5, <3>1, <3>2 DEF Waits
  <2>2. CASE \E i \in DOMAIN pending : c = pending[i]
    <3>1. PICK i \in DOMAIN pending : c = pending[i]
      BY <2>2
    <3>2. Somewhere(<<<<"held", i>>, c>>)
      BY <3>1 DEF Somewhere
    <3> QED BY <1>5, <3>1, <3>2 DEF Waits
  <2>3. CASE \E h \in Carrying : h # g /\ c = calls[h].pair.primary
    <3>1. PICK h \in Carrying : h # g /\ c = calls[h].pair.primary
      BY <2>3
    <3>2. Somewhere(<<<<"left", h>>, c>>)
      BY <3>1 DEF Somewhere
    <3> QED BY <1>5, <3>1, <3>2 DEF Waits
  <2>4. CASE \E h \in Carrying : h # g /\ c = calls[h].pair.shadow
    <3>1. PICK h \in Carrying : h # g /\ c = calls[h].pair.shadow
      BY <2>4
    <3>2. Somewhere(<<<<"right", h>>, c>>)
      BY <3>1 DEF Somewhere
    <3> QED BY <1>5, <3>1, <3>2 DEF Waits
  <2> QED BY <1>1, <1>3, <1>6, <2>1, <2>2, <2>3, <2>4 DEF Waits, Carrying
<1>7. ASSUME NEW c, Waits(c), c # p, c # s PROVE Waits(c)'
  BY <1>1, <1>3, <1>7 DEF Waits, Carrying, pair
<1>8. Waiting' = Waiting \ {p, s}
  BY <1>6, <1>7, WaitingIs, WaitingNext
<1>9. p \in Waiting /\ s \in Waiting
  BY <1>1, WaitingIs DEF Waits, pair
<1>10. Correlated!Matching(p, s)
  BY <1>2 DEF MatchedPair, Correlated!Matching
<1>11. pair = [primary |-> p, shadow |-> s]
  BY <1>2 DEF Pair
<1> QED BY <1>1, <1>8, <1>9, <1>10, <1>11 DEF Correlated!Deliver

\* Every step of the buffer is one of the abstract correlation, or is not seen there.
LEMMA Implements ==
  Placed /\ PairsWellFormed /\ ClockBounded /\ [Next]_vars
    => [Correlated!Next]_(Correlated!vars)
<1> SUFFICES ASSUME Placed, PairsWellFormed, ClockBounded, [Next]_vars
             PROVE  Correlated!Next \/ UNCHANGED <<begun, Waiting, pairs>>
  BY DEF Correlated!vars
<1>0. Shape /\ calls \in [Callers -> CallState]
  BY RecordsTyped DEF Placed, Shape
<1>1. ASSUME NEW g \in Callers, NEW p \in Paths, NEW i \in Ids \union {NoId}, CallIngest(g, p, i)
      PROVE  Correlated!Next
  BY <1>0, <1>1, CallAccepts DEF Correlated!Next
<1>2. ASSUME NEW g \in Callers, Supersede(g) \/ Store(g) PROVE Correlated!GiveUp
  <2> DEFINE c == calls[g].cap
  <2>1. /\ calls[g].pc = "called" /\ calls' = [calls EXCEPT ![g] = Idle]
        /\ pairs' = pairs /\ begun' = begun
        /\ \A i \in DOMAIN pending' : (i \in DOMAIN pending /\ pending'[i] = pending[i])
                                      \/ pending'[i] = c
    BY <1>0, <1>2, FilesOne
  <2>2. Waits(c)
    BY <2>1 DEF Waits
  <2>3. \A h \in Callers : calls'[h].pc # "idle" => calls'[h] = calls[h]
    BY <1>0, <2>1 DEF Idle
  <2> HIDE DEF c
  <2>4. \A d : Waits(d)' => Waits(d)
    BY <2>1, <2>2, <2>3 DEF Waits, Carrying
  <2> QED BY <2>1, <2>4, GivesUp
<1>3. ASSUME NEW g \in Callers, Match(g) PROVE Correlated!GiveUp
  <2> DEFINE c == calls[g].cap
             d == pending[c.id]
             pair == PairOf(c, d)
  <2>1. /\ calls[g].pc = "called" /\ c.id \in DOMAIN pending
        /\ calls' = [calls EXCEPT ![g] = Sending(pair)]
        /\ \A i \in DOMAIN pending' : i \in DOMAIN pending /\ pending'[i] = pending[i]
        /\ pairs' = pairs /\ begun' = begun
    BY <1>0, <1>3, MatchTakes
  <2>2. Waits(c) /\ Waits(d)
    BY <2>1 DEF Waits
  <2>3. pair.primary \in {c, d} /\ pair.shadow \in {c, d}
    BY DEF PairOf
  <2> HIDE DEF c, d, pair
  <2>4. /\ calls'[g].pc = "send" /\ calls'[g].pair = pair
        /\ \A h \in Callers : h # g => calls'[h] = calls[h]
    BY <1>0, <2>1 DEF Sending
  <2>5. \A e : Waits(e)' => Waits(e)
    BY <2>1, <2>2, <2>3, <2>4 DEF Waits, Carrying
  <2> QED BY <2>1, <2>5, GivesUp
<1>4. ASSUME NEW g \in Callers, Discard(g) \/ CountDrop(g) PROVE Correlated!GiveUp
  <2>1. /\ calls' = [calls EXCEPT ![g] = Idle] /\ pending' = pending /\ pairs' = pairs
        /\ begun' = begun
    BY <1>4 DEF Discard, CountDrop, Return
  <2>2. \A h \in Callers : calls'[h].pc # "idle" => calls'[h] = calls[h]
    BY <1>0, <2>1 DEF Idle
  <2>3. \A d : Waits(d)' => Waits(d)
    BY <2>1, <2>2 DEF Waits, Carrying
  <2> QED BY <2>1, <2>3, GivesUp
<1>5. ASSUME NEW g \in Callers, SendFull(g) PROVE Correlated!GiveUp
  <2>1. /\ Carrying' = Carrying /\ \A h \in Carrying : calls'[h].pair = calls[h].pair
        /\ \A h \in Callers : calls'[h].pc = "called" => calls'[h] = calls[h]
        /\ pending' = pending /\ pairs' = pairs /\ begun' = begun
    BY <1>0, <1>5 DEF SendFull, Carrying, Overflowing
  <2>2. \A d : Waits(d)' => Waits(d)
    BY <2>1 DEF Waits
  <2> QED BY <2>1, <2>2, GivesUp
<1>6. ASSUME Sweep PROVE Correlated!GiveUp
  <2>1. Fewer /\ calls' = calls /\ pairs' = pairs /\ begun' = begun
    BY <1>0, <1>6, SweepTakes
  <2>2. \A d : Waits(d)' => Waits(d)
    BY <2>1 DEF Waits, Fewer, Carrying
  <2> QED BY <2>1, <2>2, GivesUp
<1>7. ASSUME NEW g \in Callers, Send(g) PROVE Correlated!Next
  BY <1>7, SendDelivers DEF Correlated!Next
<1>8. ASSUME Consume PROVE Correlated!Take
  <2>1. /\ pairs # << >> /\ pairs' = Tail(pairs) /\ calls' = calls /\ pending' = pending
        /\ begun' = begun
    BY <1>8 DEF Consume
  <2>2. Waiting' = Waiting
    BY <2>1 DEF Waiting, Carrying
  <2> QED BY <2>1, <2>2 DEF Correlated!Take
<1>9. ASSUME Tick \/ Quiet \/ UNCHANGED vars PROVE UNCHANGED <<begun, Waiting, pairs>>
  BY <1>9 DEF Tick, Quiet, vars, Waiting, Carrying
<1> QED
  BY <1>1, <1>2, <1>3, <1>4, <1>5, <1>6, <1>7, <1>8, <1>9
     DEF Next, IngestStep, Correlated!Next

\* Every behaviour of the buffer, with its mutex, slice, counters and clock, is one
\* of the abstract correlation: each capture accepted leaves, or is delivered in
\* one pair with one capture of the other side of its id, in order.
THEOREM BufferCorrelates == Spec => ImplementsCorrelation
<1>1. Init => Correlated!Init
  BY WaitingIs DEF Init, Correlated!Init, Waits, Carrying, Idle
<1>2. Spec => []ClockBounded
  <2>1. Init => ClockBounded
    BY ConstantsAssumption DEF Init, ClockBounded, ConstantsAssumption
  <2>2. Shape /\ ClockBounded /\ [Next]_vars => ClockBounded'
    <3>1. Shape /\ [Next]_vars => now' = now \/ (now < MaxNow /\ now' = now + 1)
      BY DEF Next, IngestStep, CallIngest, Discard, Supersede, Match, Store, Send, SendFull,
             CountDrop, Sweep, Consume, Tick, Quiet, vars
    <3>2. Shape => now \in Nat /\ MaxNow \in Nat
      BY ConstantsAssumption DEF Shape, TypeOK, ConstantsAssumption
    <3> QED BY <3>1, <3>2 DEF ClockBounded
  <2> QED BY ShapeInit, ShapeStep, ShapeSplit, <2>1, <2>2, PTL DEF Spec
<1> QED
  BY <1>1, <1>2, PlacedAlways, PairsMatch, Implements, PTL
     DEF Spec, ImplementsCorrelation, Correlated!Spec
=============================================================================
