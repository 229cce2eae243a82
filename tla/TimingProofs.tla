---------------------------- MODULE TimingProofs ----------------------------
(***************************************************************************)
(* What the buffer promises of time in proxy mode, where no capture        *)
(* supersedes another: for every number of callers and ids, every timeout, *)
(* limit, capacity and lag.  The slice is in the order of insertion, not   *)
(* of the clock readings; the invariant says how far the two may differ.   *)
(***************************************************************************)
EXTENDS CorrelationProofs

\* How old what is held or under way may be, and how far the slice may be from
\* the order of the clock readings: as far as a call may be kept from running.
InTime ==
  /\ \A g \in Callers : calls[g].pc = "called"
                          => calls[g].cap.at <= now /\ now <= calls[g].cap.at + MaxLag
  /\ \A i \in DOMAIN pending : pending[i].at <= now
  /\ \A j, k \in DOMAIN order :
       j < k => pending[order[j]].at <= pending[order[k]].at + MaxLag

\* The halves of a pair were read as close together as PartnersInTime says.
Timely(p) ==
  /\ p.primary.at < p.shadow.at + Timeout + MaxLag
  /\ p.shadow.at < p.primary.at + Timeout + MaxLag

AllTimely ==
  /\ \A g \in Carrying : Timely(calls[g].pair)
  /\ \A m \in DOMAIN pairs : Timely(pairs[m])

\* PartnersInTime, caller by caller and position by position.
LEMMA TimelyIs == PartnersInTime <=> AllTimely
BY DEF PartnersInTime, AllTimely, Timely, Range

\* The numbers that the arithmetic below is about.
LEMMA Clocks ==
  ASSUME Shape
  PROVE  /\ now \in Nat /\ Timeout \in Nat /\ MaxLag \in Nat
         /\ \A g \in Callers : calls[g].pc = "called" => calls[g].cap.at \in Nat
         /\ \A i \in DOMAIN pending : pending[i].at \in Nat
<1>1. now \in Nat /\ Timeout \in Nat /\ MaxLag \in Nat
  BY ConstantsAssumption DEF Shape, TypeOK, ConstantsAssumption
<1>2. \A g \in Callers : calls[g].pc = "called" => calls[g].cap.at \in Nat
  BY CallsTyped DEF Shape, Capture
<1>3. \A i \in DOMAIN pending : pending[i].at \in Nat
  BY DEF Shape, Table, Capture
<1> QED BY <1>1, <1>2, <1>3

-----------------------------------------------------------------------------
(* The slice *)

\* A position and what is held under it stay as they were.
Stays(j) ==
  /\ j \in DOMAIN order /\ order[j] \in DOMAIN pending
  /\ order'[j] = order[j] /\ pending'[order[j]] = pending[order[j]]

\* A match and a sweep only take positions out of the slice.
LEMMA SliceShrinks ==
  ASSUME Shape, Sweep \/ \E g \in Callers : Match(g)
  PROVE  \A j \in DOMAIN order' : Stays(j)
<1>1. order' = Compact(order, pending')
  BY DEF Sweep, Match
<1>2. \A i \in DOMAIN pending' : i \in DOMAIN pending /\ pending'[i] = pending[i]
  BY SweepTakes, MatchTakes DEF Fewer
<1>3. \A j \in DOMAIN order' :
        j \in DOMAIN order /\ order[j] \in DOMAIN pending' /\ order'[j] = order[j]
  BY <1>1 DEF Compact, Restrict
<1> QED BY <1>2, <1>3 DEF Stays

\* A store takes positions out and adds one, behind all others.
LEMMA StoreExtends ==
  ASSUME Shape, NEW g \in Callers, Store(g)
  PROVE  \A j \in DOMAIN order' :
           \/ Stays(j) /\ j <= stats.received
           \/ /\ j = stats.received + 1 /\ order'[j] = calls[g].cap.id
              /\ pending'[calls[g].cap.id] = calls[g].cap
<1> DEFINE c == Arg(g)
           held == Held(c.at)
           ord == Compact(order, held)
           victims == IF Full(held) THEN Oldest(held, ord) ELSE {}
           kept == Without(held, victims)
<1>1. c = calls[g].cap /\ c.at \in Nat
  BY FilingTyped DEF Shape, Store, Arg
<1>2. /\ Table(held) /\ DOMAIN held \subseteq DOMAIN pending
      /\ \A i \in DOMAIN held : held[i] = pending[i]
  BY <1>1, HeldShape
<1>3. /\ pending' = Put(kept, c.id, c) /\ c.id \notin DOMAIN held
      /\ order' = Put(Compact(ord, kept), stats.received + 1, c.id)
  BY DEF Store
<1>4. Table(held)
  BY <1>2
<1>5. DOMAIN kept = DOMAIN held \ victims /\ \A i \in DOMAIN held \ victims : kept[i] = held[i]
  BY <1>4, WithoutTable
<1>6. DOMAIN kept \subseteq DOMAIN held /\ \A i \in DOMAIN kept : kept[i] = held[i]
  BY <1>5
<1>7. \A j \in DOMAIN Compact(ord, kept) :
        /\ j \in DOMAIN order /\ Compact(ord, kept)[j] = order[j] /\ order[j] \in DOMAIN kept
  BY DEF Compact, Restrict
<1>8. DOMAIN order \subseteq 1 .. stats.received /\ stats.received \in Nat
  BY DEF Shape, TypeOK
<1> DEFINE short == Compact(ord, kept)
<1> HIDE DEF c, held, ord, kept, short
<1>9. \A j \in DOMAIN order' : \/ j \in DOMAIN short /\ j # stats.received + 1 /\ order'[j] = short[j]
                               \/ j = stats.received + 1 /\ order'[j] = c.id
  BY <1>3, <1>7, <1>8 DEF Put, short
<1>10. /\ pending'[c.id] = c
       /\ \A i \in DOMAIN kept : i \in DOMAIN pending /\ pending'[i] = pending[i]
  BY <1>2, <1>3, <1>6 DEF Put
<1>11. \A j \in DOMAIN short : j \in DOMAIN order /\ short[j] = order[j] /\ order[j] \in DOMAIN kept
  BY <1>7 DEF short
<1> QED BY <1>1, <1>8, <1>9, <1>10, <1>11 DEF Stays

\* Why an id survived the expiry at t: at its position or before is a fresh one.
LEMMA FreshBefore ==
  ASSUME Shape, NEW t \in Nat, NEW i \in DOMAIN Held(t)
  PROVE  \E j, k \in DOMAIN order : /\ order[j] = i /\ k <= j /\ order[k] \in DOMAIN pending
                                    /\ Fresh(pending[order[k]], t)
<1>1. i \in DOMAIN pending /\ i \notin Expired(t)
  BY HeldShape
<1>2. PICK j \in DOMAIN order : order[j] = i
  BY <1>1 DEF Shape, Index
<1>3. ~\A k \in DOMAIN order :
         k <= j /\ order[k] \in DOMAIN pending => ~Fresh(pending[order[k]], t)
  BY <1>1, <1>2 DEF Expired
<1> QED BY <1>2, <1>3

-----------------------------------------------------------------------------
(* Captures in time *)

\* Every step of proxy mode keeps the slice near the order of the clock.
LEMMA InTimeStep ==
  ASSUME Posted = FALSE, Placed, InTime, [Next]_vars
  PROVE  InTime'
<1>0. /\ Shape /\ calls \in [Callers -> CallState] /\ now \in Nat /\ MaxLag \in Nat
      /\ \A g \in Callers : calls[g].pc = "called" => calls[g].cap.at \in Nat
      /\ \A i \in DOMAIN pending : pending[i].at \in Nat
  BY Clocks, RecordsTyped DEF Placed, Shape
\* A call that stays where it was, or is past the clock reading, stays in time.
<1> DEFINE CallsInTime == \A g \in Callers : calls'[g].pc = "called"
                            => calls'[g].cap.at <= now' /\ now' <= calls'[g].cap.at + MaxLag
<1>1. ASSUME \A g \in Callers : calls'[g].pc = "called" => calls'[g] = calls[g], now' = now
      PROVE  CallsInTime
  BY <1>1 DEF InTime
<1>2. ASSUME CallsInTime, pending' = pending, order' = order, now <= now', now' \in Nat
      PROVE  InTime'
  <2>1. \A i \in DOMAIN pending' : pending'[i].at <= now'
    BY <1>0, <1>2 DEF InTime
  <2>2. \A j, k \in DOMAIN order' :
          j < k => pending'[order'[j]].at <= pending'[order'[k]].at + MaxLag
    BY <1>2 DEF InTime
  <2> QED BY <1>2, <2>1, <2>2 DEF InTime
<1>3. ASSUME NEW g \in Callers, NEW p \in Paths, NEW i \in Ids \union {NoId}, CallIngest(g, p, i)
      PROVE  InTime'
  <2> DEFINE c == [path |-> p, id |-> i, serial |-> begun + 1, at |-> now]
  <2>1. calls' = [calls EXCEPT ![g] = Called(c)] /\ c.at = now /\ now' = now
    BY <1>3 DEF CallIngest
  <2> HIDE DEF c
  <2>2. CallsInTime
    BY <1>0, <2>1 DEF InTime, Called
  <2> QED BY <1>0, <1>2, <1>3, <2>2 DEF CallIngest
<1>4. ASSUME NEW g \in Callers, calls' = [calls EXCEPT ![g] = Idle]
      PROVE  \A h \in Callers : calls'[h].pc = "called" => h # g /\ calls'[h] = calls[h]
  BY <1>0, <1>4 DEF Idle
<1>5. ASSUME NEW g \in Callers, Discard(g) \/ Send(g) \/ SendFull(g) \/ CountDrop(g)
      PROVE  InTime'
  <2>1. \A h \in Callers : calls'[h].pc = "called" => calls'[h] = calls[h]
    BY <1>0, <1>4, <1>5 DEF Discard, Send, SendFull, CountDrop, Return, Overflowing
  <2>2. pending' = pending /\ order' = order /\ now' = now
    BY <1>5 DEF Discard, Send, SendFull, CountDrop
  <2> QED BY <1>0, <1>1, <1>2, <2>1, <2>2
<1>6. ASSUME NEW g \in Callers, Store(g) PROVE InTime'
  <2> DEFINE c == calls[g].cap
  <2>1. /\ calls[g].pc = "called" /\ calls' = [calls EXCEPT ![g] = Idle]
        /\ \A i \in DOMAIN pending' : \/ i \in DOMAIN pending /\ pending'[i] = pending[i]
                                      \/ pending'[i] = c
    BY <1>0, <1>6, FilesOne
  <2>2. now' = now /\ CallsInTime
    BY <1>1, <1>4, <1>6, <2>1 DEF Store
  <2>3. c.at \in Nat /\ c.at <= now /\ now <= c.at + MaxLag
    BY <1>0, <2>1 DEF InTime
  <2>4. \A j \in DOMAIN order' :
          \/ Stays(j) /\ j <= stats.received
          \/ j = stats.received + 1 /\ pending'[order'[j]] = c
    BY <1>0, <1>6, StoreExtends
  <2>5. stats.received \in Nat /\ DOMAIN order \subseteq 1 .. stats.received
    BY <1>0 DEF Shape, TypeOK
  <2> HIDE DEF c
  <2>6. \A i \in DOMAIN pending' : pending'[i].at <= now'
    BY <1>0, <2>1, <2>2, <2>3 DEF InTime
  <2>7. ASSUME NEW j \in DOMAIN order', NEW k \in DOMAIN order', j < k
        PROVE  pending'[order'[j]].at <= pending'[order'[k]].at + MaxLag
    <3>1. Stays(j) /\ j <= stats.received
      BY <2>4, <2>5, <2>7 DEF Stays
    <3>2. CASE Stays(k)
      BY <2>7, <3>1, <3>2 DEF InTime, Stays
    <3>3. CASE pending'[order'[k]] = c
      <4>1. pending[order[j]].at <= now /\ pending[order[j]].at \in Nat
        BY <1>0, <3>1 DEF InTime, Stays
      <4> QED BY <1>0, <2>3, <3>1, <3>3, <4>1 DEF Stays
    <3> QED BY <2>4, <3>2, <3>3
  <2> QED BY <2>2, <2>6, <2>7 DEF InTime
<1>7. ASSUME Sweep \/ \E g \in Callers : Match(g) PROVE InTime'
  <2>1. now' = now /\ \A h \in Callers : calls'[h].pc = "called" => calls'[h] = calls[h]
    <3>1. ASSUME NEW g \in Callers, Match(g)
          PROVE  \A h \in Callers : calls'[h].pc = "called" => calls'[h] = calls[h]
      <4>1. \E pair : calls' = [calls EXCEPT ![g] = Sending(pair)]
        BY <1>0, <3>1, MatchTakes
      <4> QED BY <1>0, <4>1 DEF Sending
    <3>2. now' = now
      BY <1>7 DEF Sweep, Match
    <3> QED BY <1>7, <3>1, <3>2 DEF Sweep
  <2>2. \A i \in DOMAIN pending' : i \in DOMAIN pending /\ pending'[i] = pending[i]
    BY <1>0, <1>7, SweepTakes, MatchTakes DEF Fewer
  <2>3. \A j \in DOMAIN order' : Stays(j)
    BY <1>0, <1>7, SliceShrinks
  <2>4. CallsInTime
    BY <1>1, <2>1
  <2>5. \A i \in DOMAIN pending' : pending'[i].at <= now'
    BY <2>1, <2>2 DEF InTime
  <2>6. \A j, k \in DOMAIN order' :
          j < k => pending'[order'[j]].at <= pending'[order'[k]].at + MaxLag
    BY <2>3 DEF InTime, Stays
  <2> QED BY <2>4, <2>5, <2>6 DEF InTime
<1>8. ASSUME Tick PROVE InTime'
  <2>1. /\ now' = now + 1 /\ calls' = calls /\ pending' = pending /\ order' = order
        /\ \A g \in Callers : calls[g].pc = "called" => now + 1 <= calls[g].cap.at + MaxLag
    BY <1>8 DEF Tick, WithinLag, Arg
  <2>2. CallsInTime
    BY <1>0, <2>1 DEF InTime
  <2> QED BY <1>0, <1>2, <2>1, <2>2
<1>9. ASSUME Consume \/ Quiet \/ UNCHANGED vars PROVE InTime'
  <2>1. now' = now /\ calls' = calls /\ pending' = pending /\ order' = order
    BY <1>9 DEF Consume, Quiet, vars
  <2> QED BY <1>0, <1>1, <1>2, <2>1
<1>10. \A g \in Callers : ~Supersede(g)
  BY NothingSuperseded
<1> QED
  BY <1>3, <1>5, <1>6, <1>7, <1>8, <1>9, <1>10 DEF Next, IngestStep

\* A match joins captures that were read within the timeout, up to the lag: the
\* one that comes, because it is past its clock reading; the one that is held,
\* because a fresh one at or before its position is at most the lag older.
LEMMA MatchTimely ==
  ASSUME Shape, InTime, NEW g \in Callers, Match(g)
  PROVE  Timely(PairOf(calls[g].cap, pending[calls[g].cap.id]))
<1> DEFINE c == calls[g].cap
           d == pending[c.id]
<1>0. now \in Nat /\ Timeout \in Nat \ {0} /\ MaxLag \in Nat
  BY Clocks, ConstantsAssumption DEF ConstantsAssumption
<1>1. calls[g].pc = "called" /\ c.id \in DOMAIN Held(c.at) /\ c.id \in DOMAIN pending
  BY MatchTakes DEF Match, Filing, Arg
<1>2. c.at \in Nat /\ d.at \in Nat
  BY <1>1, Clocks
<1>3. c.at <= now /\ now <= c.at + MaxLag /\ d.at <= now
  BY <1>1 DEF InTime
<1>4. PICK j, k \in DOMAIN order : /\ order[j] = c.id /\ k <= j /\ order[k] \in DOMAIN pending
                                   /\ Fresh(pending[order[k]], c.at)
  BY <1>1, <1>2, FreshBefore
<1> DEFINE e == pending[order[k]]
<1>5. e.at \in Nat /\ e.at + Timeout > c.at
  BY <1>4, Clocks DEF Fresh
<1>6. e.at <= d.at + MaxLag
  <2>1. CASE k = j
    BY <1>0, <1>2, <1>4, <1>5, <2>1
  <2>2. CASE k # j
    <3>1. k < j
      BY <1>4, <2>2 DEF Shape, TypeOK
    <3> QED BY <1>4, <3>1 DEF InTime
  <2> QED BY <2>1, <2>2
<1> HIDE DEF c, d, e
<1>7. c.at < d.at + Timeout + MaxLag /\ d.at < c.at + Timeout + MaxLag
  BY <1>0, <1>2, <1>3, <1>5, <1>6
<1>8. Timely(PairOf(c, d))
  BY <1>7 DEF Timely, PairOf
<1> QED BY <1>8 DEF c, d

\* Once joined, a pair is what it is.
LEMMA TimelyStep == Shape /\ InTime /\ AllTimely /\ [Next]_vars => AllTimely'
<1> SUFFICES ASSUME Shape, InTime, AllTimely, [Next]_vars PROVE AllTimely'
  OBVIOUS
<1>0. calls \in [Callers -> CallState] /\ pairs \in Seq(Pair)
  BY RecordsTyped DEF Shape, TypeOK
<1>1. ASSUME \A g \in Carrying' : g \in Carrying /\ calls'[g].pair = calls[g].pair,
             pairs' = pairs
      PROVE  AllTimely'
  BY <1>1 DEF AllTimely
<1>2. ASSUME NEW g \in Callers, calls' = [calls EXCEPT ![g] = Idle]
      PROVE  \A h \in Carrying' : h \in Carrying /\ calls'[h].pair = calls[h].pair
  BY <1>0, <1>2 DEF Carrying, Idle
<1>3. ASSUME NEW g \in Callers,
             Discard(g) \/ CountDrop(g) \/ Supersede(g) \/ Store(g) \/ SendFull(g)
      PROVE  AllTimely'
  <2>1. SendFull(g) => \A h \in Carrying' : h \in Carrying /\ calls'[h].pair = calls[h].pair
    BY <1>0 DEF Carrying, SendFull, Overflowing
  <2>2. pairs' = pairs /\ (SendFull(g) \/ calls' = [calls EXCEPT ![g] = Idle])
    BY <1>3 DEF Discard, CountDrop, Supersede, Store, SendFull, Return
  <2> QED BY <1>1, <1>2, <2>1, <2>2
<1>4. ASSUME NEW g \in Callers, NEW p \in Paths, NEW i \in Ids \union {NoId}, CallIngest(g, p, i)
      PROVE  AllTimely'
  <2>1. \A h \in Carrying' : h \in Carrying /\ calls'[h].pair = calls[h].pair
    BY <1>0, <1>4 DEF Carrying, CallIngest, Called
  <2> QED BY <1>1, <1>4, <2>1 DEF CallIngest
<1>5. ASSUME NEW g \in Callers, Match(g) PROVE AllTimely'
  <2> DEFINE p == PairOf(calls[g].cap, pending[calls[g].cap.id])
  <2>1. calls' = [calls EXCEPT ![g] = Sending(p)] /\ pairs' = pairs
    BY <1>5, MatchTakes
  <2>2. Timely(p)
    BY <1>5, MatchTimely
  <2> HIDE DEF p
  <2>3. \A h \in Carrying' : (h \in Carrying /\ calls'[h] = calls[h]) \/ calls'[h].pair = p
    BY <1>0, <2>1 DEF Carrying, Sending
  <2> QED BY <2>1, <2>2, <2>3 DEF AllTimely
<1>6. ASSUME NEW g \in Callers, Send(g) PROVE AllTimely'
  <2> DEFINE p == calls[g].pair
  <2>1. /\ g \in Carrying /\ calls' = [calls EXCEPT ![g] = Idle] /\ pairs' = Append(pairs, p)
    BY <1>6 DEF Send, Return, Carrying
  <2>2. Timely(p) /\ p \in Pair
    BY <1>6, <2>1, CallsTyped DEF AllTimely, Shape, Send
  <2>3. \A h \in Carrying' : h \in Carrying /\ calls'[h].pair = calls[h].pair
    BY <1>2, <2>1
  <2> HIDE DEF p
  <2>4. \A m \in DOMAIN pairs' : (m \in DOMAIN pairs /\ pairs'[m] = pairs[m]) \/ pairs'[m] = p
    BY <1>0, <2>1, <2>2
  <2> QED BY <2>2, <2>3, <2>4 DEF AllTimely
<1>7. ASSUME Consume PROVE AllTimely'
  <2>1. pairs # << >> /\ pairs' = Tail(pairs) /\ calls' = calls
    BY <1>7 DEF Consume
  <2>2. \A m \in DOMAIN pairs' : m + 1 \in DOMAIN pairs /\ pairs'[m] = pairs[m + 1]
    BY <1>0, <2>1, HeadTailProperties
  <2> QED BY <2>1, <2>2 DEF AllTimely, Carrying
<1>8. ASSUME Sweep \/ Tick \/ Quiet \/ UNCHANGED vars PROVE AllTimely'
  <2>1. calls' = calls /\ pairs' = pairs
    BY <1>8 DEF Sweep, Tick, Quiet, vars
  <2> QED BY <2>1 DEF AllTimely, Carrying
<1> QED
  BY <1>3, <1>4, <1>5, <1>6, <1>7, <1>8 DEF Next, IngestStep

\* At the start nothing is held or under way.
LEMMA InTimeInit == Init => InTime /\ AllTimely
BY DEF Init, InTime, AllTimely, Carrying, Idle

\* In proxy mode the slice is near the order of the clock, and pairs are timely.
LEMMA InTimeAlways ==
  ASSUME Posted = FALSE
  PROVE  Spec => [](Placed /\ InTime /\ AllTimely)
<1>1. Placed /\ InTime /\ [Next]_vars => InTime'
  BY InTimeStep
<1>2. Placed /\ InTime /\ AllTimely /\ [Next]_vars => AllTimely'
  BY TimelyStep DEF Placed
<1> QED BY <1>1, <1>2, InTimeInit, PlacedAlways, PTL DEF Spec

\* In proxy mode a pair never joins captures that were reported further apart than
\* the timeout, up to the time a call may be kept from running.
THEOREM PairsInTime ==
  ASSUME Posted = FALSE
  PROVE  Spec => []PartnersInTime
BY InTimeAlways, TimelyIs, PTL

-----------------------------------------------------------------------------
(* What leaves is no younger than what stays *)

\* An id that expired has its position before that of any that did not.
LEMMA ExpiredFirst ==
  ASSUME Shape, NEW j \in DOMAIN order, NEW k \in DOMAIN order, NEW t,
         order[j] \in Expired(t), order[k] \notin Expired(t)
  PROVE  j < k
<1>0. j \in Nat /\ k \in Nat /\ (order[j] = order[k] => j = k)
  BY DEF Shape, TypeOK, Index
<1>1. \A l \in DOMAIN order :
        l <= j /\ order[l] \in DOMAIN pending => ~Fresh(pending[order[l]], t)
  <2>1. PICK i \in DOMAIN order :
          /\ order[i] = order[j]
          /\ \A l \in DOMAIN order :
               l <= i /\ order[l] \in DOMAIN pending => ~Fresh(pending[order[l]], t)
    BY DEF Expired
  <2>2. i = j
    BY <2>1 DEF Shape, Index
  <2> QED BY <2>1, <2>2
<1>2. ASSUME k <= j PROVE FALSE
  <2>1. order[k] \in DOMAIN pending
    BY DEF Shape, Index
  <2>2. \A l \in DOMAIN order :
          l <= k /\ order[l] \in DOMAIN pending => ~Fresh(pending[order[l]], t)
    <3> SUFFICES ASSUME NEW l \in DOMAIN order, l <= k PROVE l <= j
      BY <1>1
    <3>1. l \in Nat
      BY DEF Shape, TypeOK
    <3> QED BY <1>0, <1>2, <3>1
  <2> QED BY <2>1, <2>2 DEF Expired
<1> QED BY <1>0, <1>2

\* What expires is no younger than what does not, up to the lag.
LEMMA ExpiredOlder ==
  ASSUME Shape, InTime, NEW t, NEW i \in DOMAIN pending, NEW l \in DOMAIN pending,
         i \in Expired(t), l \notin Expired(t)
  PROVE  pending[i].at <= pending[l].at + MaxLag
<1>1. PICK j, k \in DOMAIN order : order[j] = i /\ order[k] = l
  BY DEF Shape, Index
<1>2. j < k
  BY <1>1, ExpiredFirst
<1> QED BY <1>1, <1>2 DEF InTime

\* What a full map evicts is no younger than what it keeps, up to the lag.
LEMMA EvictedOlder ==
  ASSUME Shape, InTime, NEW t \in Nat, NEW i, NEW l \in DOMAIN Held(t),
         i \in Oldest(Held(t), Compact(order, Held(t)))
  PROVE  pending[i].at <= pending[l].at + MaxLag
<1> DEFINE held == Held(t)
           ord == Compact(order, held)
<1>1. /\ DOMAIN held \subseteq DOMAIN pending /\ Index(ord, held, stats.received)
      /\ \A j \in DOMAIN ord : j \in DOMAIN order /\ ord[j] = order[j]
  <2>1. \A j \in DOMAIN ord : j \in DOMAIN order /\ ord[j] = order[j]
    BY DEF Compact, Restrict
  <2> QED BY <2>1, HeldShape
<1>2. PICK j \in DOMAIN ord : /\ i = ord[j] /\ ord[j] \in DOMAIN held
                              /\ \A k \in DOMAIN ord : ord[k] \in DOMAIN held => j <= k
  BY DEF Oldest
<1>3. PICK k \in DOMAIN ord : ord[k] = l
  BY <1>1 DEF Index
<1>4. j \in DOMAIN order /\ k \in DOMAIN order /\ order[j] = i /\ order[k] = l /\ j <= k
  BY <1>1, <1>2, <1>3
<1>5. /\ pending[l].at \in Nat /\ pending[i].at \in Nat /\ MaxLag \in Nat
      /\ j \in Nat /\ k \in Nat
  <2>1. i \in DOMAIN pending /\ l \in DOMAIN pending
    BY <1>1, <1>2
  <2>2. j \in Nat /\ k \in Nat
    BY <1>4 DEF Shape, TypeOK
  <2> QED BY <2>1, <2>2, Clocks
<1>6. CASE j = k
  BY <1>4, <1>5, <1>6
<1>7. CASE j # k
  BY <1>4, <1>5, <1>7 DEF InTime
<1> QED BY <1>6, <1>7

\* How a store treats what was held: what is not there afterwards expired or was
\* evicted, and what is there did not.
LEMMA StoreLeaves ==
  ASSUME Placed, NEW g \in Callers, Store(g), NEW i \in DOMAIN pending,
         NEW l \in DOMAIN pending, pending[i] \notin Range(pending'),
         pending[l] \in Range(pending')
  PROVE  LET t == calls[g].cap.at
         IN  /\ t \in Nat /\ l \in DOMAIN Held(t)
             /\ \/ i \in Expired(t)
                \/ i \in Oldest(Held(t), Compact(order, Held(t)))
<1> DEFINE c == Arg(g)
           held == Held(c.at)
           ord == Compact(order, held)
           victims == IF Full(held) THEN Oldest(held, ord) ELSE {}
           kept == Without(held, victims)
<1>0. Shape
  BY DEF Placed
<1>1. c = calls[g].cap /\ c.at \in Nat /\ calls[g].pc = "called"
  BY <1>0, FilingTyped DEF Shape, Store, Arg, Filing
<1>2. /\ Table(held) /\ DOMAIN held = DOMAIN pending \ Expired(c.at)
      /\ \A m \in DOMAIN held : held[m] = pending[m]
  BY <1>0, <1>1, HeldShape
<1>3. pending' = Put(kept, c.id, c) /\ c.id \notin DOMAIN held
  BY DEF Store
<1>4. Table(held)
  BY <1>2
<1>5. DOMAIN kept = DOMAIN held \ victims /\ \A m \in DOMAIN held \ victims : kept[m] = held[m]
  <2> HIDE DEF held, victims
  <2> QED BY <1>4, WithoutTable
<1>6. \A m \in DOMAIN pending' : \/ m \in DOMAIN kept /\ pending'[m] = pending[m]
                                 \/ pending'[m] = c
  <2> HIDE DEF c, held, victims, kept
  <2> QED BY <1>2, <1>3, <1>5 DEF Put
<1>7. \A m \in DOMAIN kept : m \in DOMAIN pending' /\ pending'[m] = pending[m]
  <2> HIDE DEF c, held, victims, kept
  <2> QED BY <1>2, <1>3, <1>5 DEF Put
<1>8. i \notin DOMAIN kept
  BY <1>7 DEF Range
<1>9. pending[l] # c
  <2> SUFFICES ASSUME pending[l] = c PROVE FALSE
    OBVIOUS
  <2> HIDE DEF c
  <2> DEFINE x == <<<<"called", g>>, c>>
             y == <<<<"held", l>>, c>>
  <2>1. x \in Located /\ y \in Located
    BY <1>1, LocatedIs DEF Somewhere
  <2>2. x[2].serial = y[2].serial
    OBVIOUS
  <2>3. x[1] = y[1]
    BY <2>1, <2>2 DEF Placed, SerialsOnce, NoCaptureTwice
  <2> QED BY <2>3
<1>10. PICK m \in DOMAIN pending' : pending[l] = pending'[m]
  BY DEF Range
<1>11. m \in DOMAIN kept /\ pending[l] = pending[m]
  BY <1>6, <1>9, <1>10
<1>12. m = l
  <2>1. m \in DOMAIN pending
    BY <1>2, <1>5, <1>11
  <2>2. pending[m].id = m /\ pending[l].id = l
    BY <1>0, <2>1 DEF Shape, Table
  <2> QED BY <1>11, <2>2
<1>13. /\ l \in DOMAIN held
       /\ i \in Expired(c.at) \/ i \in Oldest(held, ord)
  <2> HIDE DEF c, held, kept, ord
  <2> QED BY <1>2, <1>5, <1>8, <1>11, <1>12
<1> QED BY <1>1, <1>13

\* Every step of proxy mode lets the oldest leave first.
LEMMA LeavesStep ==
  ASSUME Posted = FALSE, Placed, InTime, [Next]_vars,
         NEW c \in Range(pending) \ Range(pending'), ~PairedNow(c),
         NEW d \in Range(pending) \intersect Range(pending')
  PROVE  c.at <= d.at + MaxLag
<1>0. Shape /\ calls \in [Callers -> CallState]
  BY RecordsTyped DEF Placed, Shape
<1>1. PICK i \in DOMAIN pending : pending[i] = c
  BY DEF Range
<1>2. PICK l \in DOMAIN pending : pending[l] = d
  BY DEF Range
<1>3. pending' # pending
  OBVIOUS
<1>4. PICK m \in DOMAIN pending' : pending'[m] = d
  BY DEF Range
<1>5. pending[l].id = l /\ pending[i].id = i
  BY <1>0 DEF Shape, Table
<1>6. ASSUME Sweep PROVE c.at <= d.at + MaxLag
  <2> DEFINE t == Head(ticks)
  <2>1. t \in Nat
    BY <1>0, <1>6, HeadTailProperties DEF Sweep, Shape, TypeOK
  <2>2. pending' = Held(t)
    BY <1>6 DEF Sweep
  <2>3. /\ DOMAIN pending' = DOMAIN pending \ Expired(t)
        /\ \A k \in DOMAIN pending' : pending'[k] = pending[k]
    BY <1>0, <2>1, <2>2, HeldShape
  <2> HIDE DEF t
  <2>4. i \in Expired(t)
    BY <1>1, <2>3 DEF Range
  <2>5. m = l
    BY <1>0, <1>2, <1>4, <1>5, <2>3 DEF Shape, Table
  <2> QED BY <1>0, <1>1, <1>2, <2>3, <2>4, <2>5, ExpiredOlder
<1>7. ASSUME NEW g \in Callers, Store(g) PROVE c.at <= d.at + MaxLag
  <2> DEFINE t == calls[g].cap.at
  <2>1. /\ t \in Nat /\ l \in DOMAIN Held(t)
        /\ i \in Expired(t) \/ i \in Oldest(Held(t), Compact(order, Held(t)))
    BY <1>1, <1>2, <1>7, StoreLeaves
  <2> HIDE DEF t
  <2>2. CASE i \in Expired(t)
    <3>1. l \notin Expired(t)
      BY <1>0, <2>1, HeldShape
    <3> QED BY <1>0, <1>1, <1>2, <2>2, <3>1, ExpiredOlder
  <2>3. CASE i \in Oldest(Held(t), Compact(order, Held(t)))
    BY <1>0, <1>1, <1>2, <2>1, <2>3, EvictedOlder
  <2> QED BY <2>1, <2>2, <2>3
<1>8. ASSUME NEW g \in Callers, Match(g) PROVE c.at <= d.at + MaxLag
  <2> DEFINE b == calls[g].cap
             t == b.at
             pair == PairOf(b, pending[b.id])
  <2>1. /\ calls[g].pc = "called" /\ calls' = [calls EXCEPT ![g] = Sending(pair)]
        /\ \A k \in DOMAIN pending' : k \in DOMAIN pending /\ pending'[k] = pending[k]
    BY <1>0, <1>8, MatchTakes
  <2>2. t \in Nat /\ pending' = Without(Held(t), {b.id})
    BY <1>0, <1>8, FilingTyped DEF Match, Arg, Shape
  <2>3. Table(Held(t)) /\ DOMAIN Held(t) = DOMAIN pending \ Expired(t)
    BY <1>0, <2>2, HeldShape
  <2>4. DOMAIN pending' = DOMAIN Held(t) \ {b.id}
    BY <2>2, <2>3, WithoutTable
  <2>5. i # b.id
    <3> SUFFICES ASSUME i = b.id PROVE FALSE
      OBVIOUS
    <3>1. pair.primary = c \/ pair.shadow = c
      BY <1>1 DEF PairOf
    <3> HIDE DEF pair
    <3>2. calls'[g].pc = "send" /\ calls'[g].pair = pair /\ calls[g].pc # "send"
      BY <1>0, <2>1 DEF Sending
    <3> QED BY <3>1, <3>2 DEF PairedNow
  <2> HIDE DEF t, b
  <2>6. i \in Expired(t)
    <3>1. i \notin DOMAIN pending'
      BY <1>1, <2>1 DEF Range
    <3> QED BY <2>3, <2>4, <2>5, <3>1
  <2>7. m = l
    BY <1>0, <1>2, <1>4, <1>5, <2>1 DEF Shape, Table
  <2> QED BY <1>0, <1>1, <1>2, <2>3, <2>4, <2>6, <2>7, ExpiredOlder
<1>9. \A g \in Callers : ~Supersede(g)
  BY NothingSuperseded
<1>10. Sweep \/ \E g \in Callers : Store(g) \/ Match(g)
  BY <1>3, <1>9 DEF Next, IngestStep, CallIngest, Discard, Send, SendFull, CountDrop, Consume,
                    Tick, Quiet, vars
<1> QED BY <1>6, <1>7, <1>8, <1>10

\* In proxy mode what leaves the buffer unpaired, expired or evicted, is no younger
\* than what stays, up to the time a call may be kept from running.
THEOREM LeavesInOrder ==
  ASSUME Posted = FALSE
  PROVE  Spec => OldestLeavesFirst
<1> DEFINE Leaving == \A c \in Range(pending) \ Range(pending') :
                        PairedNow(c) \/ \A d \in Range(pending) \intersect Range(pending') :
                                          c.at <= d.at + MaxLag
<1>1. Placed /\ InTime /\ [Next]_vars => Leaving
  BY LeavesStep
<1> HIDE DEF Leaving
<1>2. Spec => [][Leaving]_vars
  BY <1>1, InTimeAlways, PTL DEF Spec
<1> QED BY <1>2 DEF OldestLeavesFirst, Leaving

-----------------------------------------------------------------------------
(* Lone captures leave in time *)

\* m is the last moment at which the ticker fired, or would have.  Once its tick is
\* swept, what is held would not have been stopped at by that sweep; until then,
\* not by the one before.
Swept(m) ==
  /\ m % Timeout = 0 /\ m <= now /\ now < m + Timeout
  /\ ticks = << >> => \A i \in DOMAIN pending : m < pending[i].at + MaxLag + Timeout
  /\ ticks # << >> => /\ Head(ticks) = m /\ now <= m + MaxLag
                      /\ \A i \in DOMAIN pending :
                           m < pending[i].at + MaxLag + 2 * Timeout

Ticked == \E m \in Nat : Swept(m)

\* The multiples of a period follow each other at its distance.
LEMMA NextMultiple ==
  ASSUME NEW T \in Nat \ {0}, NEW m \in Nat, m % T = 0
  PROVE  (m + T) % T = 0
<1> DEFINE q == m \div T
<1>1. m = T * (m \div T) + (m % T)
  OBVIOUS
<1>2. q \in Int /\ m = T * q
  BY <1>1
<1> HIDE DEF q
<1>3. m + T = T * (q + 1)
  BY <1>2
<1>4. (T * (q + 1)) % T = 0
  BY <1>2
<1> QED BY <1>3, <1>4

\* A sweep leaves what was read less than the timeout and the lag before its tick.
LEMMA SweptYoung ==
  ASSUME Shape, InTime, NEW t \in Nat, NEW i \in DOMAIN Held(t)
  PROVE  t < Held(t)[i].at + MaxLag + Timeout
<1>1. i \in DOMAIN pending /\ Held(t)[i] = pending[i]
  BY HeldShape
<1>2. PICK j, k \in DOMAIN order : /\ order[j] = i /\ k <= j /\ order[k] \in DOMAIN pending
                                   /\ Fresh(pending[order[k]], t)
  BY FreshBefore
<1> DEFINE d == pending[i]
           e == pending[order[k]]
<1>3. /\ d.at \in Nat /\ e.at \in Nat /\ MaxLag \in Nat /\ Timeout \in Nat
      /\ e.at + Timeout > t
  BY <1>1, <1>2, Clocks DEF Fresh
<1>4. e.at <= d.at + MaxLag
  <2>1. CASE k = j
    BY <1>2, <1>3, <2>1
  <2>2. CASE k # j
    <3>1. k < j
      BY <1>2, <2>2 DEF Shape, TypeOK
    <3> QED BY <1>2, <3>1 DEF InTime
  <2> QED BY <2>1, <2>2
<1> HIDE DEF d, e
<1>5. t < d.at + MaxLag + Timeout
  BY <1>3, <1>4
<1> QED BY <1>1, <1>5 DEF d

\* Every step keeps the period, as long as no tick can wait for the next one.
LEMMA TickedStep ==
  ASSUME Posted = FALSE, MaxLag < Timeout, Placed, InTime, Ticked, [Next]_vars
  PROVE  Ticked'
<1>0. /\ Shape /\ now \in Nat /\ Timeout \in Nat \ {0} /\ MaxLag \in Nat
      /\ ticks \in Seq(Nat) /\ Len(ticks) <= 1
      /\ \A i \in DOMAIN pending : pending[i].at \in Nat
  BY Clocks, ConstantsAssumption DEF Placed, Shape, TypeOK, ConstantsAssumption
<1>1. PICK m \in Nat : Swept(m)
  BY DEF Ticked
<1>2. ASSUME now' = now, ticks' = ticks,
             \A i \in DOMAIN pending' : pending'[i].at \in Nat /\
               (\/ i \in DOMAIN pending /\ pending'[i] = pending[i]
                \/ now <= pending'[i].at + MaxLag)
      PROVE  Ticked'
  <2>1. ticks' = << >> => \A i \in DOMAIN pending' : m < pending'[i].at + MaxLag + Timeout
    BY <1>0, <1>1, <1>2 DEF Swept
  <2>2. ticks' # << >> =>
          \A i \in DOMAIN pending' : m < pending'[i].at + MaxLag + 2 * Timeout
    BY <1>0, <1>1, <1>2 DEF Swept
  <2>3. Swept(m)'
    BY <1>1, <1>2, <2>1, <2>2 DEF Swept
  <2> QED BY <2>3 DEF Ticked
<1>3. ASSUME now' = now, ticks' = ticks, Fewer PROVE Ticked'
  BY <1>0, <1>2, <1>3 DEF Fewer
<1>4. ASSUME NEW g \in Callers, Store(g) PROVE Ticked'
  <2>1. /\ calls[g].pc = "called" /\ now' = now /\ ticks' = ticks
        /\ \A i \in DOMAIN pending' : \/ i \in DOMAIN pending /\ pending'[i] = pending[i]
                                      \/ pending'[i] = calls[g].cap
    BY <1>0, <1>4, FilesOne DEF Store
  <2>2. calls[g].cap.at \in Nat /\ now <= calls[g].cap.at + MaxLag
    BY <1>0, <2>1, Clocks DEF InTime
  <2> QED BY <1>0, <1>2, <2>1, <2>2
<1>5. ASSUME NEW g \in Callers, Match(g) PROVE Ticked'
  <2>1. now' = now /\ ticks' = ticks
    BY <1>5 DEF Match
  <2>2. Fewer
    BY <1>0, <1>5, MatchTakes DEF Fewer
  <2> QED BY <1>3, <2>1, <2>2
<1>6. ASSUME Sweep PROVE Ticked'
  <2>1. /\ ticks # << >> /\ ticks' = Tail(ticks) /\ now' = now /\ pending' = Held(Head(ticks))
    BY <1>6 DEF Sweep
  <2>2. ticks' = << >>
    BY <1>0, <2>1, HeadTailProperties
  <2>3. Head(ticks) = m
    BY <1>1, <2>1 DEF Swept
  <2>4. \A i \in DOMAIN pending' : m < pending'[i].at + MaxLag + Timeout
    BY <1>0, <2>1, <2>3, SweptYoung
  <2>5. Swept(m)'
    BY <1>1, <2>1, <2>2, <2>4 DEF Swept
  <2> QED BY <2>5 DEF Ticked
<1>7. ASSUME Tick PROVE Ticked'
  <2>1. /\ now' = now + 1 /\ pending' = pending
        /\ ticks # << >> => now + 1 <= Head(ticks) + MaxLag
        /\ ticks' = IF now' % Timeout = 0 /\ ticks = << >> THEN <<now'>> ELSE ticks
    BY <1>7 DEF Tick, WithinLag
  <2>2. CASE now' % Timeout = 0 /\ ticks = << >>
    <3> DEFINE t == now'
    <3>1. t \in Nat /\ t % Timeout = 0 /\ t <= m + Timeout
      BY <1>0, <1>1, <2>1, <2>2 DEF Swept
    <3>2. ticks' = <<t>>
      BY <2>1, <2>2
    <3>3. \A i \in DOMAIN pending : t < pending[i].at + MaxLag + 2 * Timeout
      <4> SUFFICES ASSUME NEW i \in DOMAIN pending
                   PROVE  t < pending[i].at + MaxLag + 2 * Timeout
        OBVIOUS
      <4>1. m < pending[i].at + MaxLag + Timeout /\ pending[i].at \in Nat
        BY <1>0, <1>1, <2>2 DEF Swept
      <4> HIDE DEF t
      <4> QED BY <1>0, <3>1, <4>1
    <3>4. ticks' # << >> /\ Head(ticks') = t
      BY <3>1, <3>2
    <3>5. Timeout \in Nat \ {0} /\ MaxLag \in Nat /\ t = now'
      BY <1>0
    <3> HIDE DEF t
    <3>6. t <= now' /\ now' < t + Timeout /\ now' <= t + MaxLag
      <4>0. t \in Nat
        BY <3>1
      <4>1. t <= t /\ t < t + Timeout /\ t <= t + MaxLag
        <5>1. Timeout \in Nat \ {0} /\ MaxLag \in Nat
          BY <3>5
        <5> QED BY <4>0, <5>1
      <4> QED BY <3>5, <4>1, Zenon
    <3>7. \A i \in DOMAIN pending' : t < pending'[i].at + MaxLag + 2 * Timeout
      BY <2>1, <3>3
    <3>8. Swept(now)'
      BY <3>1, <3>4, <3>5, <3>6, <3>7 DEF Swept
    <3>9. now' \in Nat
      BY <3>1, <3>5
    <3>10. Ticked'
      BY <3>8, <3>9 DEF Ticked, Swept
    <3> QED BY <3>10
  <2>3. CASE ~(now' % Timeout = 0 /\ ticks = << >>)
    <3>1. ticks' = ticks
      BY <2>1, <2>3
    <3>2. now + 1 < m + Timeout
      <4>1. CASE ticks # << >>
        <5>1. Head(ticks) = m
          BY <1>1, <4>1 DEF Swept
        <5> QED BY <1>0, <2>1, <4>1, <5>1
      <4>2. CASE ticks = << >>
        <5>1. (m + Timeout) % Timeout = 0
          BY <1>0, <1>1, NextMultiple DEF Swept
        <5>2. now + 1 # m + Timeout
          BY <2>1, <2>3, <4>2, <5>1
        <5> QED BY <1>0, <1>1, <5>2 DEF Swept
      <4> QED BY <4>1, <4>2
    <3>3. Swept(m)'
      BY <1>0, <1>1, <2>1, <3>1, <3>2 DEF Swept
    <3> QED BY <3>3 DEF Ticked
  <2> QED BY <2>2, <2>3
<1>8. \A g \in Callers : ~Supersede(g)
  BY NothingSuperseded
<1>9. Sweep \/ Tick \/ (\E g \in Callers : Store(g) \/ Match(g))
      \/ (now' = now /\ ticks' = ticks /\ pending' = pending)
  BY <1>8 DEF Next, IngestStep, CallIngest, Discard, Send, SendFull, CountDrop, Consume,
              Quiet, vars
<1> QED BY <1>3, <1>4, <1>5, <1>6, <1>7, <1>9 DEF Fewer

\* In proxy mode a lone capture is gone within two periods of the ticker and twice
\* the lag, whatever it queues behind, provided that the lag is below the period: a
\* tick that waits for longer than that can make the ticker drop the next one.
THEOREM LonersLeave ==
  ASSUME Posted = FALSE, MaxLag < Timeout
  PROVE  Spec => []LonerLeavesInTime
<1>1. Init => Ticked
  <2> SUFFICES ASSUME Init PROVE Swept(0)
    BY DEF Ticked
  <2>1. Timeout \in Nat \ {0}
    BY ConstantsAssumption DEF ConstantsAssumption
  <2>2. 0 % Timeout = 0
    BY <2>1
  <2> QED BY <2>1, <2>2 DEF Init, Swept
<1>2. Placed /\ InTime /\ Ticked /\ [Next]_vars => Ticked'
  BY TickedStep
<1>3. Placed /\ Ticked => LonerLeavesInTime
  <2> SUFFICES ASSUME Placed, Ticked, NEW i \in DOMAIN pending
               PROVE  now < pending[i].at + 2 * Timeout + 2 * MaxLag
    BY DEF LonerLeavesInTime
  <2>1. PICK m \in Nat : Swept(m)
    BY DEF Ticked
  <2>2. now \in Nat /\ Timeout \in Nat /\ MaxLag \in Nat /\ pending[i].at \in Nat
    BY Clocks DEF Placed
  <2>3. CASE ticks = << >>
    <3>1. m < pending[i].at + MaxLag + Timeout /\ now < m + Timeout
      BY <2>1, <2>3 DEF Swept
    <3> QED BY <2>2, <3>1
  <2>4. CASE ticks # << >>
    <3>1. m < pending[i].at + MaxLag + 2 * Timeout /\ now <= m + MaxLag
      BY <2>1, <2>4 DEF Swept
    <3> QED BY <2>2, <3>1
  <2> QED BY <2>3, <2>4
<1> QED BY <1>1, <1>2, <1>3, InTimeAlways, PTL DEF Spec
=============================================================================
