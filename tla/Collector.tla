----------------------------- MODULE Collector -----------------------------
(***************************************************************************)
(* The correlating buffer of internal/collector with what surrounds it in  *)
(* cmd/dark-canary: the goroutines that call Ingest (HTTP handlers in      *)
(* capture mode; primary and shadow legs in proxy mode), the sweep loop    *)
(* with its ticker, and the consume loop that receives from Pairs().       *)
(*                                                                         *)
(* Ingest is not one step.  It reads the clock before it takes the mutex,  *)
(* does its bookkeeping under the mutex, sends the pair after it released  *)
(* the mutex and, when the channel is full, takes the mutex a second time  *)
(* to correct the counters.  Each of those is an action of its own here,   *)
(* and the critical section is one action per outcome.                     *)
(*                                                                         *)
(* `order` is the Go slice of ids in insertion order, written as a         *)
(* function from the position of an insertion (the value of Received when  *)
(* it happened) to the id inserted: removing elements then is restricting  *)
(* the function, and the order of the rest is untouched.                   *)
(***************************************************************************)
EXTENDS Integers, Sequences, FiniteSets, Functions

CONSTANTS
  Callers,      \* goroutines that call Ingest
  Ids,          \* correlation ids
  NoId,         \* the empty correlation id
  Timeout,      \* Options.Timeout, in ticks of `now`
  MaxPending,   \* Options.MaxPending
  Buffer,       \* Options.Buffer, the capacity of the Pairs channel
  Posted,       \* TRUE: captures are posted to /captures, in any shape and any
                \* number of times.  FALSE: proxy mode, where this process makes
                \* them itself, one for each side of a fresh id at most
  MaxIngest,    \* bound: number of calls of Ingest
  MaxNow,       \* bound: horizon of the clock
  MaxLag        \* how long a runnable goroutine may be kept from running

ASSUME ConstantsAssumption ==
  /\ IsFiniteSet(Callers)
  /\ NoId \notin Ids
  /\ Timeout \in Nat \ {0}
  /\ MaxPending \in Nat \ {0}
  /\ Buffer \in Nat \ {0}
  /\ Posted \in BOOLEAN
  /\ MaxIngest \in Nat
  /\ MaxNow \in Nat
  /\ MaxLag \in Nat

VARIABLES
  now,       \* the wall clock
  ticks,     \* the ticker's channel, which holds one tick at most
  begun,     \* number of calls of Ingest so far; serial of the newest capture
  reported,  \* in proxy mode: which side of which id has been reported
  calls,     \* per caller: where its call of Ingest is, and its locals
  pending,   \* Buffer.pending: correlation id -> capture held
  order,     \* Buffer.order: insertion position -> correlation id
  stats,     \* Buffer.stats
  pairs,     \* Buffer.pairs, the channel
  gone       \* history: what left without a counter of its own

vars == <<now, ticks, begun, reported, calls, pending, order, stats, pairs, gone>>

-----------------------------------------------------------------------------
(* Data *)

Paths == {"primary", "shadow", "sideways"}   \* the last: any unknown path

Capture == [path : Paths, id : Ids \union {NoId}, serial : Nat, at : Nat]

WellFormed(c) == c.id # NoId /\ c.path \in {"primary", "shadow"}

Pair == [primary : Capture, shadow : Capture]

\* Mutant of PairOf: the order of arrival decides the side.
PairOfByArrival(c, held) == [primary |-> held, shadow |-> c]

PairOf(c, held) ==
  IF c.path = "primary" THEN [primary |-> c, shadow |-> held]
                        ELSE [primary |-> held, shadow |-> c]

Idle == [pc |-> "idle"]
Called(c) == [pc |-> "called", cap |-> c]        \* clock read, no lock yet
Sending(p) == [pc |-> "send", pair |-> p]        \* unlocked, about to send
Overflowing(p) == [pc |-> "full", pair |-> p]    \* the channel was full

Busy == {g \in Callers : calls[g].pc # "idle"}
Carrying == {g \in Callers : calls[g].pc \in {"send", "full"}}

Init ==
  /\ now = 0
  /\ ticks = << >>
  /\ begun = 0
  /\ reported = {}
  /\ calls = [g \in Callers |-> Idle]
  /\ pending = << >>
  /\ order = << >>
  /\ stats = [received |-> 0, paired |-> 0, expired |-> 0,
              dropped |-> 0, discarded |-> 0]
  /\ pairs = << >>
  /\ gone = [superseded |-> 0, overflowed |-> 0, consumed |-> 0]

-----------------------------------------------------------------------------
(* What the critical sections are made of *)

\* p.at.After(now - timeout)
Fresh(c, t) == c.at + Timeout > t

\* expire: scan the order slice, skip ids that are not held, stop at the first
\* one that is still fresh, and delete everything before it.
Expired(t) ==
  {order[j] : j \in {j \in DOMAIN order :
     /\ order[j] \in DOMAIN pending
     /\ \A k \in DOMAIN order :
          k <= j /\ order[k] \in DOMAIN pending => ~Fresh(pending[order[k]], t)}}

\* Mutant of Without: the delete is forgotten.
KeepAll(held, S) == held

Without(held, S) == Restrict(held, DOMAIN held \ S)

\* Mutant of Compact: removals leave their position behind.
NoCompaction(ord, held) == ord

\* compactOrder: keep the positions whose id is still held.
Compact(ord, held) == Restrict(ord, {j \in DOMAIN ord : ord[j] \in DOMAIN held})

\* Mutant of Oldest: evicts from the wrong end of the slice.
NewestInstead(held, ord) ==
  {ord[j] : j \in {j \in DOMAIN ord :
     /\ ord[j] \in DOMAIN held
     /\ \A k \in DOMAIN ord : ord[k] \in DOMAIN held => j >= k}}

\* evictOldest: the id it evicts, as a set of at most one element.
Oldest(held, ord) ==
  {ord[j] : j \in {j \in DOMAIN ord :
     /\ ord[j] \in DOMAIN held
     /\ \A k \in DOMAIN ord : ord[k] \in DOMAIN held => j <= k}}

\* Mutant of Full: off by one.
FullOneLate(held) == Cardinality(DOMAIN held) > MaxPending

Full(held) == Cardinality(DOMAIN held) >= MaxPending

\* Mutant of Room: off by one.
RoomForOneMore == Len(pairs) <= Buffer

Room == Len(pairs) < Buffer

Put(f, x, v) == [y \in DOMAIN f \union {x} |-> IF y = x THEN v ELSE f[y]]

\* The capture that g was called with.
Arg(g) == calls[g].cap

\* Mutant of Held: the lookup sees the map as it was before the expiry.
HeldBeforeExpiry(t) == pending

\* The map after the expiry that every well-formed capture triggers first.
Held(t) == Without(pending, Expired(t))

\* Mutant of Counted: what Ingest itself expires is deleted but not counted.
CountedExceptExpired(t) == [stats EXCEPT !.received = @ + 1]

Counted(t) == [stats EXCEPT !.received = @ + 1,
                            !.expired = @ + Cardinality(Expired(t))]

Return(g) == calls' = [calls EXCEPT ![g] = Idle]

-----------------------------------------------------------------------------
(* Ingest *)

\* The correlation id is a counter of the proxy's; each leg reports once.
MadeByProxy(p, i) ==
  p \in {"primary", "shadow"} /\ i # NoId /\ <<p, i>> \notin reported

\* The caller enters Ingest and reads the clock.  It holds no lock yet.
CallIngest(g, p, i) ==
  /\ calls[g].pc = "idle"
  /\ begun < MaxIngest
  /\ Posted \/ MadeByProxy(p, i)
  /\ begun' = begun + 1
  /\ reported' = IF Posted THEN reported ELSE reported \union {<<p, i>>}
  /\ calls' = [calls EXCEPT ![g] =
                 Called([path |-> p, id |-> i, serial |-> begun + 1, at |-> now])]
  /\ UNCHANGED <<now, ticks, pending, order, stats, pairs, gone>>

\* No correlation id, or a path that is neither side: counted and dropped,
\* before anything is expired.
Discard(g) ==
  /\ calls[g].pc = "called"
  /\ ~WellFormed(Arg(g))
  /\ stats' = [stats EXCEPT !.received = @ + 1, !.discarded = @ + 1]
  /\ Return(g)
  /\ UNCHANGED <<now, ticks, begun, reported, pending, order, pairs, gone>>

Filing(g) ==
  /\ calls[g].pc = "called"
  /\ WellFormed(Arg(g))

\* The same side is held under this id already: the newer capture takes its
\* place in the map.  Its position in the order slice stays what it was.
Supersede(g) ==
  LET c == Arg(g)
      held == Held(c.at)
  IN  /\ Filing(g)
      /\ c.id \in DOMAIN held
      /\ held[c.id].path = c.path
      /\ pending' = [held EXCEPT ![c.id] = c]
      /\ order' = Compact(order, held)
      /\ stats' = Counted(c.at)
      /\ gone' = [gone EXCEPT !.superseded = @ + 1]
      /\ Return(g)
      /\ UNCHANGED <<now, ticks, begun, reported, pairs>>

\* The partner is held: take it out, count the pair, release the lock.
Match(g) ==
  LET c == Arg(g)
      held == Held(c.at)
  IN  /\ Filing(g)
      /\ c.id \in DOMAIN held
      /\ held[c.id].path # c.path
      /\ pending' = Without(held, {c.id})
      /\ order' = Compact(order, pending')
      /\ stats' = [Counted(c.at) EXCEPT !.paired = @ + 1]
      /\ calls' = [calls EXCEPT ![g] = Sending(PairOf(c, held[c.id]))]
      /\ UNCHANGED <<now, ticks, begun, reported, pairs, gone>>

\* The first side to arrive is stored; a full map makes room first.
Store(g) ==
  LET c == Arg(g)
      held == Held(c.at)
      ord == Compact(order, held)
      victims == IF Full(held) THEN Oldest(held, ord) ELSE {}
      kept == Without(held, victims)
  IN  /\ Filing(g)
      /\ c.id \notin DOMAIN held
      /\ pending' = Put(kept, c.id, c)
      /\ order' = Put(Compact(ord, kept), stats.received + 1, c.id)
      /\ stats' = [Counted(c.at) EXCEPT !.dropped = @ + Cardinality(victims)]
      /\ Return(g)
      /\ UNCHANGED <<now, ticks, begun, reported, pairs, gone>>

\* The select after the lock was released: a send if the channel has room ...
Send(g) ==
  /\ calls[g].pc = "send"
  /\ Room
  /\ pairs' = Append(pairs, calls[g].pair)
  /\ Return(g)
  /\ UNCHANGED <<now, ticks, begun, reported, pending, order, stats, gone>>

\* Mutant of SendFull: a select without a default case.
SendFullBlocks(g) == FALSE

\* ... and the default case if it has none.
SendFull(g) ==
  /\ calls[g].pc = "send"
  /\ ~Room
  /\ calls' = [calls EXCEPT ![g] = Overflowing(calls[g].pair)]
  /\ UNCHANGED <<now, ticks, begun, reported, pending, order, stats, pairs, gone>>

\* Mutant of CountDrop: Dropped++ without Paired--.
CountDropOnce(g) ==
  /\ calls[g].pc = "full"
  /\ stats' = [stats EXCEPT !.dropped = @ + 1]
  /\ gone' = [gone EXCEPT !.overflowed = @ + 1]
  /\ Return(g)
  /\ UNCHANGED <<now, ticks, begun, reported, pending, order, pairs>>

\* The second critical section of an overflowing call.
CountDrop(g) ==
  /\ calls[g].pc = "full"
  /\ stats' = [stats EXCEPT !.dropped = @ + 1, !.paired = @ - 1]
  /\ gone' = [gone EXCEPT !.overflowed = @ + 1]
  /\ Return(g)
  /\ UNCHANGED <<now, ticks, begun, reported, pending, order, pairs>>

IngestStep(g) ==
  \/ Discard(g) \/ Supersede(g) \/ Match(g) \/ Store(g)
  \/ Send(g) \/ SendFull(g) \/ CountDrop(g)

-----------------------------------------------------------------------------
(* The sweep loop, the consume loop and the clock *)

\* Mutant of Sweep: the tick is received and nothing is swept.
SweepNothing ==
  /\ ticks # << >>
  /\ ticks' = Tail(ticks)
  /\ UNCHANGED <<now, begun, reported, calls, pending, order, stats, pairs, gone>>

\* sweep: the tick is received and handed to Sweep, whose argument is the
\* moment the ticker fired, not the moment the loop got to it.
Sweep ==
  /\ ticks # << >>
  /\ LET t == Head(ticks)
     IN  /\ pending' = Held(t)
         /\ order' = Compact(order, pending')
         /\ stats' = [stats EXCEPT !.expired = @ + Cardinality(Expired(t))]
  /\ ticks' = Tail(ticks)
  /\ UNCHANGED <<now, begun, reported, calls, pairs, gone>>

Consume ==
  /\ pairs # << >>
  /\ pairs' = Tail(pairs)
  /\ gone' = [gone EXCEPT !.consumed = @ + 1]
  /\ UNCHANGED <<now, ticks, begun, reported, calls, pending, order, stats>>

\* Nothing that is runnable is kept waiting for longer than MaxLag: neither a
\* call that has read the clock nor a sweep whose tick is in the channel.
WithinLag(t) ==
  /\ \A g \in Callers : calls[g].pc = "called" => t <= Arg(g).at + MaxLag
  /\ ticks # << >> => t <= Head(ticks) + MaxLag

\* The clock advances; the ticker fires every Timeout and drops a tick that
\* finds its channel full.
Tick ==
  /\ now < MaxNow
  /\ WithinLag(now + 1)
  /\ now' = now + 1
  /\ ticks' = IF now' % Timeout = 0 /\ ticks = << >> THEN <<now'>> ELSE ticks
  /\ UNCHANGED <<begun, reported, calls, pending, order, stats, pairs, gone>>

\* The bounds are reached and nothing is left to do.
Quiet ==
  /\ begun = MaxIngest /\ now = MaxNow
  /\ Busy = {} /\ pairs = << >> /\ ticks = << >>
  /\ UNCHANGED vars

Next ==
  \/ \E g \in Callers, p \in Paths, i \in Ids \union {NoId} : CallIngest(g, p, i)
  \/ \E g \in Callers : IngestStep(g)
  \/ Sweep
  \/ Consume
  \/ Tick
  \/ Quiet

Spec == Init /\ [][Next]_vars

\* The Go scheduler runs every runnable goroutine: a call of Ingest goes on.
\* Nothing is assumed of the consumer, the sweeper or the clock.
Fairness == \A g \in Callers : WF_vars(IngestStep(g))

FairSpec == Spec /\ Fairness

-----------------------------------------------------------------------------
(* Properties *)

\* Type invariant.  The two channels never hold more than their capacity.
TypeOK ==
  /\ now \in Nat
  /\ ticks \in Seq(Nat) /\ Len(ticks) <= 1
  /\ begun \in Nat
  /\ reported \subseteq Paths \X (Ids \union {NoId})
  /\ calls \in [Callers -> [pc : {"idle"}]
                           \union [pc : {"called"}, cap : Capture]
                           \union [pc : {"send", "full"}, pair : Pair]]
  /\ DOMAIN pending \subseteq Ids
  /\ pending \in [DOMAIN pending -> Capture]
  /\ DOMAIN order \subseteq 1 .. stats.received
  /\ order \in [DOMAIN order -> Ids]
  /\ stats \in [received : Nat, paired : Int, expired : Nat,
                dropped : Nat, discarded : Nat]
  /\ pairs \in Seq(Pair) /\ Len(pairs) <= Buffer
  /\ gone \in [superseded : Nat, overflowed : Nat, consumed : Nat]

\* The map and the slice are two representations of one set, kept in step by
\* hand in Ingest, expire, evictOldest and remove: every held id has exactly
\* one position, and no position outlives its id.  An id without a position
\* could never expire; one with two would be evicted in another's turn.
OrderMatchesPending ==
  /\ Range(order) = DOMAIN pending
  /\ IsInjective(order)
  /\ \A i \in DOMAIN pending : pending[i].id = i /\ WellFormed(pending[i])

\* Options.MaxPending: "a shadow that stops responding must not turn into an
\* unbounded buffer of primary captures".
PendingBounded == Cardinality(DOMAIN pending) <= MaxPending

\* A pair is one primary and one shadow capture of the same id, never a capture
\* with itself or with another id's ("pairing the wrong halves would invent
\* divergence that never happened"), whichever side arrived first.
MatchedPair(p) ==
  /\ p.primary.path = "primary" /\ p.shadow.path = "shadow"
  /\ p.primary.id = p.shadow.id /\ p.primary.id # NoId

PairsWellFormed ==
  /\ \A g \in Carrying : MatchedPair(calls[g].pair)
  /\ \A n \in DOMAIN pairs : MatchedPair(pairs[n])

\* Where a capture can be, and which one is there.
Located ==
  {<<<<"called", g>>, calls[g].cap>> : g \in {g \in Callers : calls[g].pc = "called"}}
  \union {<<<<"held", i>>, pending[i]>> : i \in DOMAIN pending}
  \union {<<<<"left", g>>, calls[g].pair.primary>> : g \in Carrying}
  \union {<<<<"right", g>>, calls[g].pair.shadow>> : g \in Carrying}
  \union {<<<<"primary", n>>, pairs[n].primary>> : n \in DOMAIN pairs}
  \union {<<<<"shadow", n>>, pairs[n].shadow>> : n \in DOMAIN pairs}

\* No capture is in two places: none is compared twice, and none that was
\* paired can also expire or be evicted, however the calls interleave between
\* the two critical sections and the send.
NoCaptureTwice ==
  \A x, y \in Located : x[2].serial = y[2].serial => x[1] = y[1]

\* Conservation of captures, at every instant and not only at rest: whatever
\* was received is discarded, superseded, held, expired, in a pair that counts
\* as paired (two of them), evicted (one of dropped) or lost with a pair that
\* found the channel full (two for one of dropped).
EveryCaptureAccounted ==
  stats.received = stats.discarded + gone.superseded + Cardinality(DOMAIN pending)
                   + stats.expired + 2 * stats.paired + stats.dropped
                   + gone.overflowed

\* Conservation of pairs: Paired counts exactly the pairs the diff engine has
\* taken, those in the channel, and those whose send is still under way.
PairsAccounted ==
  /\ stats.paired = gone.consumed + Len(pairs) + Cardinality(Carrying)
  /\ gone.overflowed <= stats.dropped

\* "Every outcome -- paired, pending, dropped, discarded -- is counted": what
\* GET /stats shows (Stats, a snapshot under the lock) adds up, granting that
\* one drop may stand for the two captures of a pair.
StatsAddUp ==
  stats.received <= stats.discarded + Cardinality(DOMAIN pending) + stats.expired
                    + 2 * stats.paired + 2 * stats.dropped

\* In proxy mode, a pair never joins captures that were reported further
\* apart than the timeout, up to the time a call may be kept from running:
\* expire runs before the lookup, so a late partner finds nothing to join.
PartnersInTime ==
  \A p \in {calls[g].pair : g \in Carrying} \union Range(pairs) :
    /\ p.primary.at < p.shadow.at + Timeout + MaxLag
    /\ p.shadow.at < p.primary.at + Timeout + MaxLag

\* In proxy mode, with traffic or without, a lone capture is gone within two
\* periods of the ticker, whatever it queues behind: the sweep is what frees
\* "the last few captures" of an idle collector.  It holds for lags below the
\* period; a tick that waits longer can make the ticker drop the next one.
LonerLeavesInTime ==
  \A i \in DOMAIN pending : now < pending[i].at + 2 * Timeout + 2 * MaxLag

\* In proxy mode, what leaves the buffer unpaired is no younger than what
\* stays, up to the lag of a call: expiry and eviction both start at the old end.
PairedNow(c) ==
  \E g \in Callers : /\ calls[g].pc # "send" /\ calls'[g].pc = "send"
                     /\ c \in {calls'[g].pair.primary, calls'[g].pair.shadow}

OldestLeavesFirst ==
  [][\A c \in Range(pending) \ Range(pending') :
       PairedNow(c) \/ \A d \in Range(pending) \intersect Range(pending') :
                         c.at <= d.at + MaxLag]_vars

\* Ingest never blocks: every call returns although nobody may be receiving
\* from the channel ("blocking here would push back onto the capture path").
IngestReturns == \A g \in Callers : calls[g].pc # "idle" ~> calls[g].pc = "idle"

\* The buffer implements the abstract correlation.  A capture waits from the
\* moment its call begins until its pair is in the channel, or it is given up.
Waiting ==
  {calls[g].cap : g \in {g \in Callers : calls[g].pc = "called"}}
  \union Range(pending)
  \union UNION {{calls[g].pair.primary, calls[g].pair.shadow} : g \in Carrying}

Correlated == INSTANCE Correlation
  WITH Sides <- Paths, Names <- Ids \union {NoId}, Moments <- 0 .. MaxNow,
       accepted <- begun, waiting <- Waiting, out <- pairs

\* Every behaviour of the buffer is one of Correlation: nothing is delivered
\* twice, mispaired, delivered after it was given up, or reordered.
ImplementsCorrelation == Correlated!Spec
=============================================================================
