------------------------------- MODULE Proxy -------------------------------
(***************************************************************************)
(* Proxy mode, cmd/dark-canary/proxy.go: one goroutine per request, which  *)
(* decides whether to mirror, takes one of the slots that bound shadow     *)
(* requests in flight, reads the body, starts the shadow goroutine and     *)
(* then serves the primary; and that shadow goroutine, which outlives or   *)
(* is outlived by the request that started it.                             *)
(*                                                                         *)
(* What is outside: the client (may send its body slowly, or never), the   *)
(* primary and the shadow (answer, refuse, or hang) and the standard       *)
(* library's ReverseProxy, of which the model keeps what ServeHTTP and     *)
(* capturePrimary rely on.  `killed` is what KillSwitch's Engaged answers. *)
(* Ingest (module Collector) is one step here: it never blocks.            *)
(***************************************************************************)
EXTENDS Integers, Sequences, FiniteSets, Functions

CONSTANTS
  Requests,   \* requests that clients may send, each once
  Inflight,   \* -max-inflight, the capacity of p.slots
  ReadsOnly   \* Config.MirrorReadsOnly

ASSUME ProxyAssumption ==
  /\ IsFiniteSet(Requests)
  /\ Inflight \in Nat
  /\ ReadsOnly \in BOOLEAN

VARIABLES
  killed,    \* is the kill switch engaged, as Engaged reports it
  slots,     \* number of elements in the channel p.slots
  n,         \* p.n, the counter that correlation ids come from
  skipped,   \* p.skipped
  reqs,      \* per request: what the client sent, and where ServeHTTP is
  shadows,   \* per request: where its shadow goroutine is
  reports    \* history: the captures ingested, as <<side, correlation id>>

vars == <<killed, slots, n, skipped, reqs, shadows, reports>>

-----------------------------------------------------------------------------
(* Requests *)

\* `correl` is 0 as long as the request is not mirrored; `tee` is the state of
\* the response body's wrapper: none, open (a capture is to come) or spent.
NotSent == [pc |-> "unsent", read |-> TRUE, body |-> "small", upgrade |-> FALSE,
            correl |-> 0, tee |-> "none", status |-> "none"]

\* A body larger than MaxBodyBytes and one that breaks off go the same way.
Bodies == {"small", "unfit"}

Init ==
  /\ killed = FALSE
  /\ slots = 0
  /\ n = 0
  /\ skipped = 0
  /\ reqs = [r \in Requests |-> NotSent]
  /\ shadows = [r \in Requests |-> "none"]
  /\ reports = << >>

At(r, pc) == reqs[r].pc = pc

\* A request arrives: idempotent or not, its body, and whether it asks for a
\* protocol upgrade (a GET without a body, such as a WebSocket handshake).
Arrive(r, read, body, upgrade) ==
  /\ At(r, "unsent")
  /\ upgrade => read /\ body = "small"
  /\ reqs' = [reqs EXCEPT ![r] = [NotSent EXCEPT !.pc = "mirror", !.read = read,
                                                 !.body = body, !.upgrade = upgrade]]
  /\ UNCHANGED <<killed, slots, n, skipped, shadows, reports>>

\* Engage or release the kill switch.
Toggle ==
  /\ killed' = ~killed
  /\ UNCHANGED <<slots, n, skipped, reqs, shadows, reports>>

-----------------------------------------------------------------------------
(* mirror, and ServeHTTP up to the primary *)

Goto(r, pc) == reqs' = [reqs EXCEPT ![r].pc = pc]

\* Mutant of Eligible: the method is not looked at.
AnyMethod(r) == ~killed

Eligible(r) == ~killed /\ (ReadsOnly => reqs[r].read)

\* Not mirrored: the kill switch, the method, or the dice of the sampling.
NotMirrored(r) ==
  /\ At(r, "mirror")
  /\ Goto(r, "forward")
  /\ UNCHANGED <<killed, slots, n, skipped, shadows, reports>>

Chosen(r) ==
  /\ At(r, "mirror")
  /\ Eligible(r)
  /\ Goto(r, "slot")
  /\ UNCHANGED <<killed, slots, n, skipped, shadows, reports>>

\* The select on p.slots: take a slot and a correlation id ...
TakeSlot(r) ==
  /\ At(r, "slot")
  /\ slots < Inflight
  /\ slots' = slots + 1
  /\ n' = n + 1
  /\ reqs' = [reqs EXCEPT ![r].pc = "body", ![r].correl = n + 1]
  /\ UNCHANGED <<killed, skipped, shadows, reports>>

\* ... or, when all are taken, serve without mirroring.
SkipFull(r) ==
  /\ At(r, "slot")
  /\ slots = Inflight
  /\ skipped' = skipped + 1
  /\ Goto(r, "forward")
  /\ UNCHANGED <<killed, slots, n, shadows, reports>>

\* The body came whole and fits: the shadow goroutine is started, then the
\* primary is served, with the correlation id in the request's context.
StartShadow(r) ==
  /\ At(r, "body")
  /\ reqs[r].body = "small"
  /\ shadows' = [shadows EXCEPT ![r] = "started"]
  /\ Goto(r, "forward")
  /\ UNCHANGED <<killed, slots, n, skipped, reports>>

\* Mutant of Bail: the slot is not given back.
BailWithSlot(r) ==
  /\ At(r, "body")
  /\ reqs[r].body = "unfit"
  /\ skipped' = skipped + 1
  /\ reqs' = [reqs EXCEPT ![r].pc = "forward", ![r].correl = 0]
  /\ UNCHANGED <<killed, slots, n, shadows, reports>>

\* It did not: give the slot back and serve without mirroring.  The context
\* carries no correlation id, so nothing of this request is captured.
Bail(r) ==
  /\ At(r, "body")
  /\ reqs[r].body = "unfit"
  /\ slots' = slots - 1
  /\ skipped' = skipped + 1
  /\ reqs' = [reqs EXCEPT ![r].pc = "forward", ![r].correl = 0]
  /\ UNCHANGED <<killed, n, shadows, reports>>

-----------------------------------------------------------------------------
(* ReverseProxy and capturePrimary *)

\* Mutant of MayForward: mirrorToShadow is called instead of started.
AfterShadow(r) == At(r, "forward") /\ shadows[r] \in {"none", "done"}

MayForward(r) == At(r, "forward")

\* The primary answers.  ModifyResponse (capturePrimary) wraps the body of a
\* mirrored request's response before anything else is done with it.
PrimaryAnswers(r) ==
  /\ MayForward(r)
  /\ reqs' = [reqs EXCEPT ![r].pc = "answered",
                          ![r].tee = IF reqs[r].correl # 0 THEN "open" ELSE "none"]
  /\ UNCHANGED <<killed, slots, n, skipped, shadows, reports>>

\* The primary cannot be reached: 502 to the client, and no response to modify.
PrimaryFails(r) ==
  /\ MayForward(r)
  /\ reqs' = [reqs EXCEPT ![r].pc = "served", ![r].status = "badgateway"]
  /\ UNCHANGED <<killed, slots, n, skipped, shadows, reports>>

\* The response body is copied to the client, to its end or until the client
\* hangs up, and closed.
CopyBody(r) ==
  /\ At(r, "answered")
  /\ ~reqs[r].upgrade
  /\ Goto(r, "closing")
  /\ UNCHANGED <<killed, slots, n, skipped, shadows, reports>>

\* 101 Switching Protocols: ReverseProxy needs a body it can write to.  The bare
\* body of the response is one; teeBody only reads.
Upgrade(r) ==
  /\ At(r, "answered")
  /\ reqs[r].upgrade
  /\ reqs' = [reqs EXCEPT ![r].pc = "served",
                          ![r].status = IF reqs[r].tee = "none" THEN "switched"
                                                                ELSE "badgateway"]
  /\ UNCHANGED <<killed, slots, n, skipped, shadows, reports>>

\* Mutant of Spent: done is not cleared, so every Close hands the capture over.
NeverSpent(r) == reqs[r].tee

Spent(r) == IF reqs[r].tee = "open" THEN "spent" ELSE reqs[r].tee

\* Close of the body; nothing keeps it from being called a second time.
Close(r) ==
  /\ At(r, "closing")
  /\ reports' = IF reqs[r].tee = "open"
                  THEN Append(reports, <<"primary", reqs[r].correl>>) ELSE reports
  /\ \E pc \in {"closing", "served"} :
       /\ pc = "closing" => reqs[r].tee = "open"
       /\ reqs' = [reqs EXCEPT ![r].pc = pc, ![r].tee = Spent(r),
                               ![r].status = IF pc = "served" THEN "ok" ELSE "none"]
  /\ UNCHANGED <<killed, slots, n, skipped, shadows>>

-----------------------------------------------------------------------------
(* mirrorToShadow *)

\* client.Do fails: refused, or cut by the client's timeout.  The deferred
\* release gives the slot back; the primary's capture will expire alone.
ShadowFails(r) ==
  /\ shadows[r] = "started"
  /\ shadows' = [shadows EXCEPT ![r] = "done"]
  /\ slots' = slots - 1
  /\ UNCHANGED <<killed, n, skipped, reqs, reports>>

\* The shadow answers, and its body is read as far as it goes.
ShadowAnswers(r) ==
  /\ shadows[r] = "started"
  /\ shadows' = [shadows EXCEPT ![r] = "answered"]
  /\ UNCHANGED <<killed, slots, n, skipped, reqs, reports>>

ShadowReports(r) ==
  /\ shadows[r] = "answered"
  /\ reports' = Append(reports, <<"shadow", reqs[r].correl>>)
  /\ shadows' = [shadows EXCEPT ![r] = "ingested"]
  /\ UNCHANGED <<killed, slots, n, skipped, reqs>>

\* Mutant of ShadowReleases: released here and by the deferred call as well.
ShadowReleasesTwice(r) ==
  /\ shadows[r] = "ingested"
  /\ shadows' = [shadows EXCEPT ![r] = "done"]
  /\ slots' = slots - 2
  /\ UNCHANGED <<killed, n, skipped, reqs, reports>>

\* Mutant of ShadowReleases: the release is only on the error path.
ShadowKeepsSlot(r) ==
  /\ shadows[r] = "ingested"
  /\ shadows' = [shadows EXCEPT ![r] = "done"]
  /\ UNCHANGED <<killed, slots, n, skipped, reqs, reports>>

ShadowReleases(r) ==
  /\ shadows[r] = "ingested"
  /\ shadows' = [shadows EXCEPT ![r] = "done"]
  /\ slots' = slots - 1
  /\ UNCHANGED <<killed, n, skipped, reqs, reports>>

ShadowStep(r) ==
  ShadowFails(r) \/ ShadowAnswers(r) \/ ShadowReports(r) \/ ShadowReleases(r)

DecideStep(r) == NotMirrored(r) \/ Chosen(r) \/ TakeSlot(r) \/ SkipFull(r)
BodyStep(r) == StartShadow(r) \/ Bail(r)
PrimaryStep(r) == PrimaryAnswers(r) \/ PrimaryFails(r) \/ CopyBody(r) \/ Upgrade(r)

Next ==
  \/ \E r \in Requests, read \in BOOLEAN, body \in Bodies, upgrade \in BOOLEAN :
       Arrive(r, read, body, upgrade)
  \/ \E r \in Requests :
       DecideStep(r) \/ BodyStep(r) \/ PrimaryStep(r) \/ Close(r) \/ ShadowStep(r)
  \/ Toggle

Spec == Init /\ [][Next]_vars

\* Goroutines run.  A client that has sent its headers sends its body, and the
\* primary answers or fails; Close is called to the end.  Nothing is assumed of
\* the shadow.
Fairness ==
  \A r \in Requests : /\ WF_vars(DecideStep(r))
                      /\ WF_vars(BodyStep(r))
                      /\ WF_vars(PrimaryStep(r))
                      /\ WF_vars(Close(r) /\ At(r, "served")')

FairSpec == Spec /\ Fairness

-----------------------------------------------------------------------------
(* Properties *)

TypeOK ==
  /\ killed \in BOOLEAN
  /\ slots \in 0 .. Inflight
  /\ n \in Nat
  /\ skipped \in Nat
  /\ reqs \in [Requests -> [pc : {"unsent", "mirror", "slot", "body", "forward",
                                  "answered", "closing", "served"},
                            read : BOOLEAN, body : Bodies, upgrade : BOOLEAN,
                            correl : Nat, tee : {"none", "open", "spent"},
                            status : {"none", "ok", "switched", "badgateway"}]]
  /\ shadows \in [Requests -> {"none", "started", "answered", "ingested", "done"}]
  /\ reports \in Seq({"primary", "shadow"} \X Nat)

Reading == {r \in Requests : At(r, "body")}
Mirroring == {r \in Requests : shadows[r] \in {"started", "answered", "ingested"}}

\* "A slot is held from here until the shadow goroutine finishes or bails": the
\* channel holds one element for each request that reads its body and for each
\* shadow goroutine that runs, whatever path they leave by.
SlotsConserved == slots = Cardinality(Reading) + Cardinality(Mirroring)

\* What the collector assumes of proxy mode (MadeByProxy): each side of each
\* correlation id is reported at most once, by one request, and only of a
\* request that was mirrored.
EachSideOnce ==
  /\ IsInjective(reports)
  /\ \A m \in DOMAIN reports :
       Cardinality({r \in Requests : shadows[r] # "none"
                                     /\ reqs[r].correl = reports[m][2]}) = 1

\* Guard rail: the shadow gets no write under reads-only, and never a body that
\* was cut at the cap or broke off.
ShadowSeesWholeReads ==
  \A r \in Requests : shadows[r] # "none" =>
    (ReadsOnly => reqs[r].read) /\ reqs[r].body = "small"

\* The shadow cannot keep a client waiting: every request is served, although
\* its shadow, and those that hold all the slots, may hang for ever.
EveryRequestServed ==
  \A r \in Requests : At(r, "mirror") ~> At(r, "served")

\* With a client timeout (-shadow-timeout) every slot comes back.
ShadowTimeout == \A r \in Requests : WF_vars(ShadowStep(r))

SlotsComeBack == ShadowTimeout => \A r \in Requests :
                                    At(r, "body") ~> shadows[r] \in {"none", "done"}
                                                     /\ slots < Inflight

\* "The shadow cannot slow the client down, cannot fail the request" (the header
\* of proxy.go): when the primary has answered a mirrored request, the client
\* does not get an error instead of that answer.
PrimaryAnswerReachesClient ==
  \A r \in Requests :
    At(r, "served") /\ reqs[r].tee # "none" => reqs[r].status # "badgateway"
=============================================================================
