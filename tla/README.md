# dark-canary in TLA+

dark-canary compares a *primary* and a *shadow* deployment: every mirrored
request reaches both, the two answers are captured, correlated by an id,
compared structurally, and the differences are aggregated into a report. The
process is concurrent (a goroutine per request, one per shadow request, a sweep
loop, a consume loop, two listeners and a shutdown goroutine) and its first
promise is about what it must *not* do: slow a client, fail a request, compare
the wrong halves, lose a capture silently, go on after it was told to stop.
That is what the modules here are about.

## Inventory

| Part | State | Operations | Interacts with |
| --- | --- | --- | --- |
| correlating buffer, `internal/collector` | map `pending`, slice `order`, counters, channel `pairs` | `Ingest`, `Sweep`, `Stats`, `Pairs` | called by handlers and proxy legs; read by the consume loop |
| consume and sweep loops, `main.go` | none; a ticker's channel | take a pair, diff it, add it; sweep on a tick | buffer, diff engine, aggregator |
| kill switch, `internal/safety` | cached answer and its time, under a mutex | `Engaged` | asked by `mirror`, `handleCapture`, `handleStats`; the file belongs to the operator |
| proxy mode, `proxy.go` | channel `slots`, counters `n` and `skipped`; per response a tee | `mirror`, `ServeHTTP`, `capturePrimary`, `mirrorToShadow` | kill switch, buffer, primary, shadow, client |
| process life, `main.go`, `exit.go` | signal context, channel `fatal`, two servers | `run`, `shutdownOn`, `main`, `exitCode` | everything above runs inside it |
| flags and guard rails, `config.go`, `safety.Config` | none after start | parse, `Validate`, refuse | `run` |
| HTTP handlers | none of their own | `/captures`, `/report`, `/stats`, dashboard | kill switch, scrubber, buffer, aggregator |
| scrubber | compiled fields | `Body`, `Header` | `server.ingest` |
| diff engine, `internal/diff` | none | `Diff` | noise rules (asked during the walk) |
| noise rules, `internal/noise` | rule list | `Load`, `Merge`, `Match`, `Suppress`, `Apply` | diff engine |
| report aggregator, `internal/report` | groups and counters under a mutex | `Add`, `Summary`, `Text` | consume loop, `/report`, final report |
| edge hook, `lua/dark_canary.lua` | per-request context | decide, buffer the body, post | `/captures` |

What is hard here is not any one function, it is the order of things: `Ingest`
reads its clock before it has the lock and sends after it gave the lock back;
the ticker's time is older than the sweep that uses it; a shadow goroutine
outlives the request that started it; the kill file changes while it is being
looked at; the process ends when one goroutine says so, whatever the others are
doing. `PROJECT.json` lists these as hazards, each at its line, with the
properties that watch it.

What makes each part correct, beyond having its types:

* buffer: map and slice agree; bounded; no capture mispaired, compared twice,
  or gone without being counted; old captures leave in time and first; no call
  ever blocks;
* kill switch: takes effect within TTL; one look per TTL; every caller answered;
* proxy: slots conserved on every path; each side of an id reported once, and
  only for a request that was mirrored; no write and no cut body to the shadow;
  the client never waits for the shadow, nor gets an error because of it;
* handlers: the switch and the other refusals come before anything is kept; a
  refusal leaves nothing behind; a value to be scrubbed that reaches `ingest` whole,
  as a text, number or truth value, does not reach the buffer (that none does is
  refuted below);
* process: a failure that was reported is never a clean exit; the report is printed
  by clean exits only; told to stop, it stops; requests in flight get their grace
  period (refuted below);
* diff, noise, report: agreement is claimed only for answers that say the same, up
  to what float64 keeps of a number, or with a counted suppression; what is counted as
  suppressed was there to suppress; what is hidden is hidden by the rule that should
  win, and that rule is right, but for a `len` rule on a change of shape; the glob
  matches what its pattern means; a rate is a share.

## Modules

| Module | Models | Notes |
| --- | --- | --- |
| `Correlation` | what the collector promises | abstract: captures wait, are given up, or are delivered in pairs |
| `Collector` | `internal/collector` with its callers, the sweep and the consume loop | implements `Correlation` |
| `MCCollector` | symmetry for TLC | two configurations: proxy mode, and captures posted to `/captures` |
| `CollectorProofs`, `CorrelationProofs`, `TimingProofs` | theorems about `Collector` | each extends the one before |
| `KillSwitch` | `safety.FileKillSwitch` | checked by TLC inside `Server`, its theorems are in `ServerProofs` |
| `Server` | the handlers of `main.go`, `server.ingest`, the scrubber | extends `KillSwitch`: its handlers are the switch's callers |
| `MCServer`, `ServerProofs` | requests for TLC; theorems about `KillSwitch` and `Server` | the switch's theorems are carried over to the handlers |
| `Proxy`, `ProxyProofs` | `cmd/dark-canary/proxy.go`, theorems | `Ingest` is one step, `Engaged` a Boolean: the other modules show that they may be |
| `Flags` | `config.go`, `safety.Config`: what is refused, in which order | operators |
| `Lifecycle`, `LifecycleProofs` | `main.go` and `exit.go`, theorems | extends `Flags` |
| `PathPattern` | what `*` and `**` mean | the reference, and what `Noise` uses |
| `Glob`, `GlobProofs` | `noise.matchSegments`, the loop; theorems | shown to agree with `PathPattern` |
| `Noise` | `internal/noise`: rules, normalisations, `Load`, `Apply` | operators |
| `Diff` | `internal/diff`: the walk, asking `Noise` | operators; the walk in closed form |
| `Walk` | the walk as the recursion of the code | for TLC only: compared with `Diff`'s closed form |
| `Report`, `ReportProofs` | the consume loop and `internal/report`; theorems about the comparison and the report | composes `Diff` with the aggregator |
| `MCReport` | families of bodies, headers and rulesets | two configurations |

### Collector

`Ingest` is cut where another goroutine can run. `CallIngest` reads the clock;
then one action per outcome of the critical section (`Discard`, `Supersede`,
`Match`, `Store`), each with the expiry, the eviction and the compaction the code
does inside it; then, unlocked, `Send` or `SendFull`; then `CountDrop`, the second
critical section, which corrects the counters of a pair the channel had no room
for. `Sweep` uses the tick's time, `Tick` drops a tick that finds the ticker's
channel full, `Consume` takes a pair. `order` is written as a function from the
position of an insertion to the id, so that compaction is a restriction and
`Expired`, `Oldest` say directly which ids the Go loops stop at.

`Posted` tells the two sources of captures apart. In collector mode any capture
may be posted any number of times, malformed ones included. In proxy mode the
process makes them itself: a fresh id each, each side once at most. `Proxy`
has as an invariant that it does (`EachSideOnce`, proved in `ProxyProofs`). But
`POST /captures` is registered in proxy mode too (main.go:83): with captures posted
there, under whatever ids, the process is an instance of `Posted`.

The properties that speak of time hold in proxy mode only: a posted duplicate
refreshes a capture's time and not its place in `order`.

### KillSwitch

A call that misses the cache is three steps under the mutex: the clock reading
(`Miss`), the file system's answer (`Stat`), the recording under the earlier
reading (`Record`). The operator may change the file between any two.

### Server

One record per goroutine (`handlers`) says where its handler is and which request it
has. The refusals come as the handler makes them: 401, 405, the kill switch's 503, a
body that breaks off or is no capture 400, a write under reads-only 403; then
`ingest`, then 202. Between the switch and the body lies as much time as the client
takes (`Admit`, `Read`), so a kill in between does not stop the capture; what is
promised, and checked, is about the moment of the question (`AdmittedBeforeKill`).

`Cleaned` is `ingest`'s scrub and cap, in that order. A body is a sequence of pieces,
each a member the scrubber could look for or text in between, with a length: enough
to say that a value may be cut in two, and that the scrubber no longer recognises
half of one; nor does it ever recognise an object or an array, which the pattern does
not have (safety.go:150). Bodies may come cut: an edge has a cap of its own, and of
proxy mode's own captures (`ProxyIngest`) the answers are what the tee and the shadow's
reader kept (`Observed`), both of which stop at the cap before `ingest` is called.
`IngestExposesNothing` says what the order of `ingest` is worth nevertheless, and
`NothingStoredRaw`, which the code's comment claims, is refuted. `WireSize` counts what the capture takes in base64, because the
reader's limit is counted there while `-max-body` is counted in bytes of a body.

`Server` extends `KillSwitch` and runs its actions inside the handlers' own, so a
behaviour of `Server` is one of `KillSwitch`; `ServerProofs` proves it.

### Proxy

One record per request (`reqs`) says where `ServeHTTP` is, and `shadows` where the
shadow goroutine is. The body either comes whole or is `unfit` - too large, or
broken off: the code treats them alike. The tee around the response body is open
until the first `Close`; nothing keeps `ReverseProxy` from closing twice. Of
`ReverseProxy` itself the model keeps that `ModifyResponse` runs first, that a 101
needs a body it can write to, and that an unreachable primary means 502 without
`ModifyResponse`. The sampling's dice are a choice.

### Flags and Lifecycle

`Flags` takes the flags that a check may refuse, or that what is started before the
listeners may panic on, each as the classes of values that these tell apart, and follows
the checks in their order: `Validate` with its odd last answer (an error that the caller
takes for a warning), the loopback rule, the ruleset, the upstreams. A `-sample` that is
not a number is a class of its own, which `Validate` accepts, as the code does; an empty
`-kill-file` is taken up in `KillSwitch`, and a `-shadow-timeout` that is not positive,
which is no timeout at all, is left out of `Proxy`. `Settings` is what the rest of the process sees of them, and
`Lifecycle` begins in every combination.

`Lifecycle` has `run` up to the configuration's refusal, the listeners, `shutdownOn`,
the select on `fatal`, the report, and `main`'s exit code. After `Exit` nothing else
runs: that is what makes the grace period a question at all. `ListenAndServe` returns
`ErrServerClosed` when `Shutdown` begins, as net/http documents. That the proxy's
listener fails (`ProxyFails`) and that its goroutine says so in `fatal` (`ProxySays`)
are two steps; "said so" in the property means the second, and a process that is told to
stop between the two may exit with 0. Two values that no
check refuses end the process by a panic, `StartPanics` in `newProxy` and `SweepPanics`
in the sweep goroutine, at whatever moment the scheduler gets to it.

### Glob

One action per case of the switch, and the loop over trailing `**` after it. The
reference, `Matches`, says what a pattern means without an algorithm: there is a
layout, a function from the pattern's segments to where each ends in the path.

### Noise, Diff and Report

A JSON value is a tree: a function from places, sequences of keys and indices, to
nodes. A node has its type; a number has a value and the text it was written with,
because the engine compares the one and a normalisation's "already equal" the other. The
value is exact; where the code computes with it, it is a float64, and which numbers are
none, and what they become, is the constant `Doubles`. A
text is opaque but for its length and for what trimming, folding, parsing and the cut at
`MaxValueLen` make of it, which are constants. A body has the first document and the `rest`, which the
decoder never reads.

`Diff` says what the sink is asked: an `Ask` is what the code hands to `add`, or to
`Suppressed`, for one place. `Reached` are the places the walk comes to, those below
which it was let through everywhere above (`Descends`), and `AsksAt` is what it asks
at one of them. The sink keeps what no rule hides and counts the rest. This closed form
can be reasoned about, which a recursion over trees cannot be here (below); `Walk` has
the recursion, function by function as in the code, and `MCReport` has TLC evaluate as
an assumption, `ClosedFormIsWalk`, that the two return the same for every pair of its
bodies under every ruleset; that the closed form unfolds as the recursion does is proved
for all trees (`WalkIsRecursive`).

`Report` takes a pair, compares it and adds it in one step: the consume loop is one
goroutine, comparing touches nothing shared, and `Add` holds the lock throughout.

`Noise` also has the refusals of `Load` (the rulesets of `MCReport` all load) and
`Apply`, which judges a stored result by its rendered texts; nothing in the program
calls it, but its comment says what it is for, and `ReplayHidesNoMore` holds it
against the engine, naming what rendering loses: the length of what is no text, that a
value is missing, and the end of a long text.

What an answer *says* is defined of one answer alone, its tree but for how its numbers
are written and for what a float64 does not keep of them (`Leaves`, `SaysTheSame`), and the walk over two trees is held against
that. `shown`, a history variable, keeps the set of findings of each pair: the counts
of the report's groups are held against the number of pairs that show them.

## Runs

| Run | Bounds | Shows |
| --- | --- | --- |
| `collector_proxy` | 2 callers, 3 ids, at most 2 held, channel of 1, timeout 3, 4 captures, clock to 8, lag 1 | time and order: paired, expired or evicted, in time and in turn; counters add up |
| `collector_posted` | 2 callers, 2 ids and the empty one, any path, 1 held, channel of 1, timeout 1, 4 captures | nothing mispaired, compared twice or unaccounted; the refinement; `Ingest` returns |
| `server` | 2 handler goroutines, 7 requests, a capture of proxy mode, TTL 2, clock to 2, 2 questions to the switch, cap 20, the file changed at any time | the switch takes effect, one stat per TTL, everyone is answered; none slips past it; nothing refused is kept, and nothing to be scrubbed that came whole |
| `proxy` | 2 requests, 1 slot, reads only | slots, ids, guard rails; the client is served, slots come back |
| `lifecycle` | 1 request in flight per listener, 1 pair waiting, every combination of flags | failure, report and exit code agree; told to stop, it stops |
| `glob` | every pattern and path of up to 4 segments over 2 literals, `*` and `**` | the loop decides as the definition does, in bounded steps |
| `report` | 2 pairs of 15 answers, 4 rulesets over the defaults | honest agreement, justified hiding, true suppressions, rates, symmetry, replay |
| `server_size`, `server_raw`, `proxy_upgrade`, `lifecycle_grace`, `report_rest` | small | each refutes one sentence of the code's own comments (below) |

Why these bounds are enough to meet the hard cases. Four captures are enough for
two pairs, for a pair that overflows while another waits in the channel, and for
an eviction followed by the arrival of the evicted one's partner. Two callers are
enough for any two critical sections to interleave with a third party (sweep,
consumer) in between; the proofs remove the bound for the safety properties. A clock
of more than two timeouts is what `LonerLeavesInTime` needs to be violated, and
`MaxLag` 1 lets a call or a sweep act on a reading that is stale. One slot and two
requests make one request find the slots taken in every state of the other.
`Lifecycle` has no counter worth scaling: its interleavings are complete. A TTL of 2
with a clock to 2 has a cache that is filled, used, and stale; every bound on a
counter (`MaxNow`, `MaxCalls`, `MaxIngest`) is a guard of the action that advances it.
The requests of `server` fail one check each, or none; the bodies of one of them have a
secret that straddles the cap, one that grows when it is redacted and one that is an
array, and proxy mode makes a capture of the same.

Four segments hold two `**` with literals between and after them, which is where
forgetting the first `**` could go wrong; the proof removes the bound. The answers of
`report` come in families whose members differ in what the comparison looks at -
a number's value or only its writing, two integers that one float64 stands for, a type,
a text's case or padding, two texts that the cut makes alike, an array's order or length, a key with a slash, a header, the status, JSON or not - and every
pair of them is compared under every ruleset, twice in a row so that groups are met
again.

Fairness. Goroutines that can run do run (weak fairness on their steps), which is
what the Go scheduler gives. A caller that waits for the kill switch's mutex needs
strong fairness: `sync.Mutex` hands over to a waiter that starves. Nothing is
assumed of the consumer, the sweeper, the clock, the operator, the shadow, of the
clients of `Server`, or of requests in flight ending. `EveryRequestServed` assumes
that the primary answers or fails and that a client's body ends or breaks off;
`SlotsComeBack` states its own premise, the shadow client's timeout, which takes a
positive `-shadow-timeout`; a client that sends its body for ever keeps its slot. `WithinLag` in
`Collector` is the one timing assumption: a runnable goroutine is not kept waiting for
more than `MaxLag`, and the time bounds are stated with that lag in them.

Deadlock is checked in every run. `Quiet` (everything sent, delivered and swept at
the bounds) and `Gone` (the process has ended) are the only stuttering steps.

### Where code and comment disagree

* `server_size`: "largest capture body accepted, in bytes" - a capture whose two
  bodies are within `-max-body` is refused as malformed when their base64 text is
  longer than the `2*max-body + 1024` bytes the handler reads.
* `server_raw`: "there is no path that stores a raw body" - in proxy mode an answer is
  cut at the cap before it is scrubbed, so the beginning of a text to be scrubbed that
  straddles the cap is stored.
* `proxy_upgrade`: "cannot fail the request" - a mirrored protocol upgrade
  gets 502, because the tee is not writable.
* `lifecycle_grace`: "giving in-flight requests shutdownGrace to finish" - the
  process ends as soon as the listener is closed.
* `report_rest`: "one side stopped being JSON. That is a real finding" - not when
  it stops after a first document, the rest of which nobody reads.

Also met, with no run of its own:

* "One table for the whole tool": a `-correlate-timeout` that is not positive panics
  `time.NewTicker`, a negative `-max-inflight` panics `newProxy`, and the exit code is
  the runtime's 2, which is not in the table.
* "refuses a configuration that quietly disables a guard rail": `-sample NaN` passes both
  comparisons of `Validate` and mirrors everything.
* "Body redacts every configured field": a field whose value is an object or an array is
  left as it is.
* "avoids float64 mangling large integers": the decoder does, and `scalarEqual` then
  compares float64, so two integers beyond 2^53 may differ and be equal.
* "every outcome is counted" - a superseded capture is not. The conservation law that
  does hold is `EveryCaptureAccounted`, which has a history variable for it; in proxy
  mode `StatsAddUp` holds without.
* "strings/arrays of the same length": a `len` rule on an array hides a change of
  length, offered to it as "2 items" and "1 items", and one on any value a change of type,
  offered as "string" and "number".
* The `Collector` interface's comment says `Pairs` emits a pair when one "times out",
  and no code does; the comment in `expire` says "anything expired is a prefix of
  order", which a same-side duplicate breaks, since it refreshes a capture's time and
  not its place.
* `Suppressor`'s contract wants true only for values that differ, and an `ignore` rule
  on an array answers true for equal ones: suppressions are counted that never happened.
  `SuppressionsHappened` allows that one case, and no other.
* "to see what it would have hidden": `Apply` sees a missing value as the text
  "(absent)", which a `trim` or `lower` rule may find equal to the other side's text; a
  number, a truth value or a missing one as text that a `len` rule measures; and a
  text over 200 bytes as its beginning, so that `trim`, `lower` and `len` do not see how
  it ends. The engine hides none of these.
* `-kill-file` "stops all processing", but a request that passed the check is mirrored,
  or stored, whenever its body ends.
* `Engaged` takes the switch for off when the stat of the file fails for whatever reason,
  a directory that may not be read among them (safety.go:117).

## Proofs

The theorems hold for any values of the constants that satisfy the modules' named
assumptions (`ConstantsAssumption`, `KillSwitchAssumption`, `ServerAssumption`,
`ProxyAssumption`, `LifecycleAssumption`, `GlobAssumption`, `ReportAssumption`), which TLC evaluates in
every run. Those that hold in proxy mode only say `ASSUME Posted = FALSE`. In outline:

`CollectorProofs`:

* `TypeCorrect`, `OrderCorrect`: the inductive invariant is `Shape`. `TypeOK` and
  `OrderMatchesPending` together are not quite inductive: expiry and eviction need
  the map to be finite and to hold only well-formed captures, and insertion needs
  every position of the slice to be at most the number of captures received, so
  that the next position is new. `Table` says the first, `Index` the second, and
  one lemma for each operator (`Without`, `Put`, `Compact`, `Expired`, `Oldest`)
  says that it keeps both. The step proof has one case per action; the critical
  sections share what they do in `Filed`.
* `PendingIsBounded`: with `Shape`, since a full map that is not empty has an oldest
  capture to evict (`LeastPosition`).
* `CapturesConserved`: each action moves captures between the columns of the
  account; the lemmas `MatchCounts`, `StoreCounts` and their like give the sizes.

`CorrelationProofs`: where captures go. `PairsMatch` and `PairsConserved` follow each
action from `Shape`. For the rest, a capture is located with a caller, in the map, in a
pair under way or in the channel, until it is compared or given up. `Placed` says that no serial number is in two places (`SerialsOnce`) and, in proxy mode, that no
side of an id is (`SidesOnce`); the lemma `Moved` carries it: after any step each place
is filled from one place before. From it follow `CapturesOnce`, `StatsAddUpForProxy`
(a side that is reported once supersedes nothing, `NothingSuperseded`), and the
refinement `BufferCorrelates`: every step of `Collector` is a step of `Correlation` or
leaves its variables alone.

`TimingProofs`, for proxy mode. `Ingest` reads its clock before it has the lock, so the
slice is in order of insertion and only within `MaxLag` of the order of the times:
that is `InTime`, and `PairsInTime` and `LeavesInOrder` follow. `LonersLeave` needs the
ticker too: `Swept(m)` says what the sweep of the last tick, or of the one still in the
channel, has left or will leave. It assumes `MaxLag < Timeout`: with a longer lag a tick
is dropped because the one before has not been taken, and a whole period may be lost.

`ServerProofs` begins with the switch: `KillSwitchWorks` and `LooksOncePerTTL`, for any
callers and TTL. The invariant `CacheKnows` says that a look under way, and the cache,
are dated no later than what they saw; it is the dating by the *earlier* clock reading
that carries the proof. `ServerUsesSwitch` (the composition is a behaviour of
`KillSwitch`) gives `SwitchWorksHere` and `OneStatHere` for nothing, and
`NoCaptureAfterKill` from the former: a handler admits what the switch let through.
`RefusalsLeaveNothing` counts what is stored against what is answered, and follows each
posted capture back through the checks. `SecretsStayOut` is `IngestExposesNothing`, for
any capture, posted or proxied, whole or cut, any fields and cap: no scalar survives the
scrubber whole (`ScrubbedIsCovered`) and cutting makes none of what is redacted
(`CutCovered`); and where a body is cut is told by the sums of its pieces' lengths
(`Ends`), which only grow, so what is kept fits the cap (`CutFits`). `ServerAssumption`
asks of a body only that nothing in it is redacted when it arrives.

`ProxyProofs`: `SlotsAreConserved` needs `IdsUnique` (an id is a count, taken once, so
no two requests hold one) and `AllLocal` (what each place of a request says about
the slot it holds, its tee and its shadow). `SidesOnce` adds `ReportsOK`: a side is reported
by the one request or shadow with that id, which then no longer can. With it what
`Collector` assumes when `Posted` is false is proved of the captures that proxy mode makes
itself; that nobody posts others to `/captures` remains an assumption. `ShadowGuard` follows
from `AllLocal`.

`LifecycleProofs`: one invariant, `Progress`, says what each place of `run` has behind
it. `FailuresShow` rests on three facts in it: `run` gets past its listener only when
told to stop, the proxy's goroutine fails once at most, and the channel is looked at
after the listener has closed. `ReportsAreClean` follows too. `ConfigRefusals` is what
they need of every combination of flags.

`GlobProofs`: `MatcherIsRight` (with `IndicesInRange`), for any pattern and any path.
That a match is one: the loop builds the layout as it goes (`Built`). That nothing is
missed: every layout of the whole pattern is, at the last `**` met, at least as far
into the path as the loop is (`Ahead`), because what follows a `**` takes one segment
each (`Lockstep`); where the loop is stuck no layout stands (`DeadEnd`), so letting
the last `**` swallow one more loses none, and with no `**` there is none.
`MatchingIsCheap`: the steps taken are counted by a measure of where the two indices
are, in passes over the pattern between two rewinds (`Counted`), so no input makes the
loop exponential, which is why the code has a loop here and no recursion.

`ReportProofs`: all seven properties of the report, for any answers whose bodies
are trees and any rulesets that are sequences. The invariant `IInv` adds to the
properties that the last pair is one of `Responses` with the result of comparing it
(`LastIsPair`); the rest is about `Diff` as a function.

* `RatesHonest`: an ask is told by its kind and its path (`AskShape`), since a path tells
  the place it was made from (`PathTellsPlace`; it does not if a key's slashes are left
  as they are). So one comparison shows a finding once (`FindingsAreOnce`), and the
  groups' counts are numbers of pairs. `TypeCorrect` has the shapes of the paths.
* `SidesEqual`: each ask has its mirror image when the answers are exchanged
  (`AsksEitherWay`), and a rule hides an ask if it hides the image
  (`SuppressEitherWay`): normalising is per value, and the relations are symmetric.
* `AgreementHonest`: two trees with the same leaves are walked alike and nothing is asked
  but arrays let through or hidden (`NothingToReport`, `HeadersAgree`). Conversely, where
  two trees differ, the shortest place at which they do is asked about, or lies below
  an array that a rule has hidden, which counts (`HiddenAbove`, `DifferenceIsAsked`).
* `HidingJustified`: under more rules fewer places are reached and nothing is asked that
  was not asked without (`RulesAskLess`); what is no longer asked lies below a hidden
  array (`NoLongerAsked`); and the two values an ask carries are those at its path
  (`AskValues`), of which the last matching rule claims what it should, or measures the
  engine's own words for a change of shape (`ClaimHolds`).
  The engine's own words ("not JSON", "2 items") must not be texts that trimming or
  folding changes, `OwnWord` in `ReportAssumption`; that is so of the words in the code.
* `SuppressionsReal`: what is hidden and no array is a difference that there would be
  without rules and is not reported; what is a hidden array is told by its place, which
  both sides fill with arrays that differ or are ignored (`HiddenArray`).
* `ReplayHides`: of a finding that `Apply` hides, the two values are both texts, or two
  numbers that trimming and folding keep apart, or of two types (`FindingTold`); in the
  first case the rule would have hidden them in the engine unless one was cut
  (`TextsJudgeLess`), in the last one is missing; `ReplayHidesNoMore` states both.
  `ReportAssumption` has that trimming and folding leave a number's text the text of that
  number, which is so of JSON's digits, sign, point and exponent.
* `WalkIsRecursive`, about `Diff` alone: what is asked from a place on is what is asked at
  it, and from each of the places `walkObject` and `walkArray` go on to (`ChildIsReached`,
  `ChildOnTheWay`). Since those are one segment longer and a tree is finite, there is one
  solution to this: the recursion of the code.

Model-checked only: liveness (`IngestReturns`, `AskedIsAnswered`, `EveryRequestServed`,
`SlotsComeBack`, `StopsWhenTold`), which is out of the prover's reach, and the last step
from `WalkIsRecursive` to `Walk` itself (`ClosedFormIsWalk`), which needs induction over
data. Every safety property that a run checks is also proved.

## Not modelled

What is inside the modelled parts and left out: the scrubber's regular expressions,
which are taken to redact a whole scalar of a configured field and neither part of a
text nor an object or array; YAML; numbers beyond the range of float64, which are compared
as text; how an array or object is rendered, and the ranking in the report; a header that comes in two spellings at once; what `/report` and `/stats`
print, `/healthz` and the dashboard, which read and change nothing; the
`-report-every` loop, likewise; `splitList` and the texts of messages.

Whole parts: the Lua hook, whose decisions are taken by a module of another repository
(what reaches this process from it - late, twice, alone, not at all - is what
`Collector` and `Server` allow of posted captures); the chart, the demo service and the
end-to-end harness.

## Plan

The order in which the project was built, all of it done: the collector with its
abstract specification and the loops around it; the kill switch; proxy mode; the
process's life; the matcher; the comparison from rules through walk to report; the
handlers composed with the kill switch; the flags that feed the process; `Apply`
against the engine; the proofs of what is safety in the concurrent parts; and, once the
walk was put in closed form, those of the comparison and the report.

What could follow: the sampling decision, so that a rate can be related to `-sample`; a
client that never ends its body, with the slots it keeps; and the report's ranking, which
is sequential and within the reach of unit tests.

## Running it

    tlc -workers 2 -config MCCollector_proxy.cfg MCCollector
    tlapm CollectorProofs.tla

`PROJECT.json` lists every run with its properties, for each property a mutant of the
code that it catches (the operator next to the one it replaces), and for every
definition the lines it stands for.
