------------------------------- MODULE Server -------------------------------
(***************************************************************************)
(* The HTTP handlers of cmd/dark-canary/main.go around the kill switch:    *)
(* each request runs in a goroutine of its own, and its refusals come in   *)
(* the order the handler makes them.  handleCapture asks the kill switch   *)
(* before it reads the body, which the client may send slowly or break     *)
(* off, and hands what it accepts to ingest: scrub, cap, store.  Proxy     *)
(* mode calls ingest too, with what its tee kept of an answer.  The buffer *)
(* behind it is module Collector; here it is the set `stored`.             *)
(*                                                                         *)
(* A body is a sequence of pieces.  A piece is a JSON member the scrubber  *)
(* could look for, or text in between (field ""): it has a length and a    *)
(* value, which is a scalar that is there whole, a text there in part (its *)
(* end was cut off), an object or array, or redacted.  Header names are    *)
(* taken as folded, since the scrubber folds them.                         *)
(***************************************************************************)
EXTENDS KillSwitch, FiniteSets, Sequences

CONSTANTS
  Requests,      \* requests that clients may send
  Proxied,       \* captures that proxy mode makes, with bodies as upstreams sent them
  Token,         \* is -token set?
  ReadsOnly,     \* Config.MirrorReadsOnly
  MaxBodyBytes,  \* Config.MaxBodyBytes
  ScrubFields,   \* Config.ScrubFields, which NewScrubber compiles
  Credentials    \* alwaysScrubbed: headers nobody has to configure

\* Nothing has been redacted when a body arrives.  It may have been cut: the edge
\* has a cap of its own.  Under reads-only, proxy mode mirrors reads.
ASSUME ServerAssumption ==
  /\ Token \in BOOLEAN
  /\ ReadsOnly \in BOOLEAN
  /\ MaxBodyBytes \in Nat \ {0}
  /\ \A r \in Requests \union Proxied : r.kind \in {"capture", "proxied"} =>
       {r.req, r.res} \subseteq Seq([field : STRING, size : Nat, value : {"whole", "part", "nested"}])
  /\ \A r \in Proxied : r.kind = "proxied" /\ (ReadsOnly => r.method # "write")

VARIABLES
  handlers,   \* per goroutine: where its handler is, and its request
  stored,     \* the captures that were handed to the buffer
  ingested,   \* how many that were
  accepted    \* history: how many requests were answered 202

serverVars == <<handlers, stored, ingested, accepted>>
allVars == <<vars, serverVars>>

NoRequest == [kind |-> "none"]

Done == [pc |-> "done", request |-> NoRequest]

ServerInit ==
  /\ Init
  /\ handlers = [c \in Callers |-> Done]
  /\ stored = {}
  /\ ingested = 0
  /\ accepted = 0

-----------------------------------------------------------------------------
(* ingest: scrub, cap, store *)

Redacted == 12   \* length of the text that takes a value's place

\* Where each piece of a body ends, from nothing at 0.
Ends(body) ==
  LET end[n \in 0 .. Len(body)] == IF n = 0 THEN 0 ELSE end[n - 1] + body[n].size
  IN  end

Size(body) == Ends(body)[Len(body)]

\* The pattern wants a text to its closing quote, and knows scalars only: a part
\* of a text stays, and so does an object or an array.
ScrubBody(body) ==
  [i \in DOMAIN body |->
     IF body[i].field \in ScrubFields /\ body[i].value = "whole"
       THEN [body[i] EXCEPT !.value = "redacted", !.size = Redacted]
       ELSE body[i]]

ScrubHeader(name) == IF name \in Credentials \union ScrubFields THEN "redacted" ELSE "whole"

\* The first `max` bytes of a body: whole pieces, and what is left of the next.
Cut(body, max) ==
  LET before(i) == Ends(body)[i - 1]
      kept(i) == IF before(i) + body[i].size <= max THEN body[i]
                 ELSE [body[i] EXCEPT !.size = max - before(i),
                                      !.value = IF @ = "whole" THEN "part" ELSE @]
  IN  [i \in {i \in DOMAIN body : before(i) < max} |-> kept(i)]

Limit(body) == IF Size(body) > MaxBodyBytes THEN Cut(body, MaxBodyBytes) ELSE body

\* Mutant of Cleaned: the cap comes before the scrubber.
CutThenScrubbed(body) == ScrubBody(Limit(body))

Cleaned(body) == Limit(ScrubBody(body))

\* `from` is history: the capture as it came to ingest.
Ingested(capture) ==
  [method  |-> capture.method,
   req     |-> Cleaned(capture.req),
   res     |-> Cleaned(capture.res),
   headers |-> [name \in capture.headers |-> ScrubHeader(name)],
   from    |-> capture]

\* What proxy mode keeps of an answer: the tee at the primary's and the reader at
\* the shadow's stop at the cap, before ingest has seen the body.
Observed(capture) == [capture EXCEPT !.res = Limit(@)]

-----------------------------------------------------------------------------
(* The bytes of a capture on the wire *)

\* Bodies travel in base64, four bytes for three.
Base64(n) == 4 * ((n + 2) \div 3)

\* What the capture takes at least: its envelope's own bytes are left out.
WireSize(request) == Base64(Size(request.req)) + Base64(Size(request.res))

ReadLimit == 2 * MaxBodyBytes + 1024

\* Read no further than the limit, and decoded: what was cut is not JSON.
Decodes(request) == request.json /\ WireSize(request) <= ReadLimit

-----------------------------------------------------------------------------
(* Handlers *)

At(c, pc) == handlers[c].pc = pc
Request(c) == handlers[c].request

Goto(c, pc) == handlers' = [handlers EXCEPT ![c].pc = pc]

\* The status is on the wire: the goroutine is ready for another request.
Respond(c) == handlers' = [handlers EXCEPT ![c] = Done]

Arrive(c, request) ==
  /\ At(c, "done")
  /\ handlers' = [handlers EXCEPT ![c] = [pc |-> "arrived", request |-> request]]
  /\ UNCHANGED <<vars, stored, ingested, accepted>>

Authorised(request) == Token => request.token

\* 401
Unauthorised(c) ==
  /\ At(c, "arrived")
  /\ ~Authorised(Request(c))
  /\ Respond(c)
  /\ UNCHANGED <<vars, stored, ingested, accepted>>

\* 405
NotPost(c) ==
  /\ At(c, "arrived")
  /\ Authorised(Request(c))
  /\ Request(c).kind = "capture" /\ ~Request(c).post
  /\ Respond(c)
  /\ UNCHANGED <<vars, stored, ingested, accepted>>

\* handleReport looks at the aggregator only.
TellReport(c) ==
  /\ At(c, "arrived")
  /\ Authorised(Request(c))
  /\ Request(c).kind = "report"
  /\ Respond(c)
  /\ UNCHANGED <<vars, stored, ingested, accepted>>

\* handleCapture and handleStats ask the kill switch.
Ask(c) ==
  /\ At(c, "arrived")
  /\ Authorised(Request(c))
  /\ Request(c).kind # "report"
  /\ Request(c).kind = "capture" => Request(c).post
  /\ Call(c)
  /\ Goto(c, "asking")
  /\ UNCHANGED <<stored, ingested, accepted>>

SwitchAnswers(c) ==
  /\ NotConfigured(c) \/ Cached(c) \/ Miss(c) \/ Stat(c) \/ Record(c)
  /\ UNCHANGED serverVars

\* Mutant of TellStats: the answer about the switch is not waited for.
StatsWithoutWaiting(c) ==
  /\ At(c, "asking")
  /\ Request(c).kind = "stats"
  /\ Respond(c)
  /\ UNCHANGED <<vars, stored, ingested, accepted>>

TellStats(c) ==
  /\ At(c, "asking")
  /\ Request(c).kind = "stats"
  /\ Return(c)
  /\ Respond(c)
  /\ UNCHANGED <<stored, ingested, accepted>>

\* Mutant of Killed: the edge is trusted to have looked at the file.
KilledAtTheEdge(c) == FALSE

Killed(c) == calls[c].answer

\* 503
RefuseKilled(c) ==
  /\ At(c, "asking")
  /\ Request(c).kind = "capture"
  /\ Killed(c)
  /\ Return(c)
  /\ Respond(c)
  /\ UNCHANGED <<stored, ingested, accepted>>

Admit(c) ==
  /\ At(c, "asking")
  /\ Request(c).kind = "capture"
  /\ ~Killed(c)
  /\ Return(c)
  /\ Goto(c, "reading")
  /\ UNCHANGED <<stored, ingested, accepted>>

\* The client breaks off: 400.
Unreadable(c) ==
  /\ At(c, "reading")
  /\ Respond(c)
  /\ UNCHANGED <<vars, stored, ingested, accepted>>

\* 400 as well
Malformed(c) ==
  /\ At(c, "reading")
  /\ ~Decodes(Request(c))
  /\ Respond(c)
  /\ UNCHANGED <<vars, stored, ingested, accepted>>

Read(c) ==
  /\ At(c, "reading")
  /\ Decodes(Request(c))
  /\ Goto(c, "read")
  /\ UNCHANGED <<vars, stored, ingested, accepted>>

\* A capture that names no method is taken for a read.
Refused(request) == ReadsOnly /\ request.method = "write"

\* Mutant of ForbidWrite: the refusal comes after the capture is stored.
ForbidStored(c) ==
  /\ At(c, "read")
  /\ Refused(Request(c))
  /\ stored' = stored \union {Ingested(Request(c))}
  /\ ingested' = ingested + 1
  /\ Respond(c)
  /\ UNCHANGED <<vars, accepted>>

\* 403
ForbidWrite(c) ==
  /\ At(c, "read")
  /\ Refused(Request(c))
  /\ Respond(c)
  /\ UNCHANGED <<vars, stored, ingested, accepted>>

Ingest(c) ==
  /\ At(c, "read")
  /\ ~Refused(Request(c))
  /\ stored' = stored \union {Ingested(Request(c))}
  /\ ingested' = ingested + 1
  /\ Goto(c, "ingested")
  /\ UNCHANGED <<vars, accepted>>

\* 202
Accept(c) ==
  /\ At(c, "ingested")
  /\ accepted' = accepted + 1
  /\ Respond(c)
  /\ UNCHANGED <<vars, stored, ingested>>

\* The primary's body is closed, or the shadow's is read.
ProxyIngest(capture) ==
  /\ stored' = stored \union {Ingested(Observed(capture))}
  /\ UNCHANGED <<vars, handlers, ingested, accepted>>

ArrivedStep(c) == Unauthorised(c) \/ NotPost(c) \/ TellReport(c) \/ Ask(c)
AskedStep(c) == TellStats(c) \/ RefuseKilled(c) \/ Admit(c)
BodyStep(c) == Unreadable(c) \/ Malformed(c) \/ Read(c)
ReadStep(c) == ForbidWrite(c) \/ Ingest(c) \/ Accept(c)

ServerNext ==
  \/ \E c \in Callers :
       \/ \E request \in Requests : Arrive(c, request)
       \/ ArrivedStep(c) \/ SwitchAnswers(c) \/ AskedStep(c) \/ BodyStep(c) \/ ReadStep(c)
  \/ \E capture \in Proxied : ProxyIngest(capture)
  \/ (Toggle \/ Tick) /\ UNCHANGED serverVars

ServerSpec == ServerInit /\ [][ServerNext]_allVars

\* As in KillSwitch.  Nothing is assumed of clients: a body may never come.
ServerFairness ==
  \A c \in Callers : /\ WF_allVars(NotConfigured(c) /\ UNCHANGED serverVars)
                     /\ SF_allVars((Cached(c) \/ Miss(c)) /\ UNCHANGED serverVars)
                     /\ WF_allVars((Stat(c) \/ Record(c)) /\ UNCHANGED serverVars)

FairServerSpec == ServerSpec /\ ServerFairness

-----------------------------------------------------------------------------
(* Properties *)

\* Captures as they come to ingest.
Offered == {r \in Requests : r.kind = "capture"} \union {Observed(r) : r \in Proxied}

\* A handler is in the kill switch exactly while it asks.
ServerTypeOK ==
  /\ TypeOK
  /\ handlers \in [Callers -> [pc : {"done", "arrived", "asking", "reading", "read", "ingested"},
                               request : Requests \union {NoRequest}]]
  /\ \A c \in Callers : At(c, "asking") <=> calls[c].pc # "idle"
  /\ stored \subseteq {Ingested(capture) : capture \in Offered}
  /\ ingested \in Nat
  /\ accepted \in Nat

\* "The kill switch is checked here as well as at the edge": no capture is let
\* in by a check that began when the kill file had been there for a TTL, although
\* other handlers may fill and use the cache meanwhile.
AdmittedBeforeKill ==
  [][\A c \in Callers :
       At(c, "asking") /\ At(c, "reading")'
         => ~(configured /\ file /\ calls[c].start >= changedAt + TTL)]_allVars

\* The order of ingest exposes nothing: a value of a field to be scrubbed that is
\* in the buffer, whole or in part, came to ingest as an object or array or cut
\* already, and was not cut there before the scrubber saw it; no credential is in
\* the buffer, and no body is larger than the cap, although redacting can make one
\* longer.
IngestExposesNothing ==
  \A capture \in stored :
    /\ \A body \in {"req", "res"} :
         /\ \A i \in DOMAIN capture[body] :
              capture[body][i].field \in ScrubFields
                => \/ capture[body][i].value = "redacted"
                   \/ capture.from[body][i].value \in {"part", "nested"}
         /\ Size(capture[body]) <= MaxBodyBytes
    /\ \A name \in DOMAIN capture.headers :
         name \in Credentials \union ScrubFields => capture.headers[name] = "redacted"

\* "There is no path that stores a raw body": no value of a field to be scrubbed
\* is in the buffer, nor a part of one.
NothingStoredRaw ==
  \A capture \in stored :
    \A body \in {capture.req, capture.res} :
      \A i \in DOMAIN body : body[i].field \in ScrubFields => body[i].value = "redacted"

\* A refusal leaves nothing behind: what was posted and is in the buffer passed
\* each of the checks and was answered with 202, or is about to be, and under
\* reads-only no write is in the buffer.
AcceptedIsStored ==
  /\ ingested = accepted + Cardinality({c \in Callers : At(c, "ingested")})
  /\ \A capture \in stored :
       /\ ReadsOnly => capture.method # "write"
       /\ capture.from.kind = "capture" =>
            Authorised(capture.from) /\ capture.from.post /\ Decodes(capture.from)

\* "largest capture body accepted, in bytes" (-max-body): a capture whose bodies
\* are no larger is not refused for its size.
LargestIsAccepted ==
  [][\A c \in Callers :
       Malformed(c) /\ Request(c).json
         => \E body \in {Request(c).req, Request(c).res} : Size(body) > MaxBodyBytes]_allVars
=============================================================================
