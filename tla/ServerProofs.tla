---------------------------- MODULE ServerProofs ----------------------------
(***************************************************************************)
(* Theorems about the kill switch, for any callers and any TTL, and about  *)
(* the handlers, for any number of goroutines, any requests and any caps:  *)
(* they use the kill switch as it wants to be used, so that what is proved *)
(* of it holds of them; a refusal leaves nothing behind; and ingest leaves *)
(* no secret but those it could not read, and no body beyond the cap.      *)
(***************************************************************************)
EXTENDS Server, FiniteSetTheorems, SequenceTheorems, WellFoundedInduction, TLAPS

-----------------------------------------------------------------------------
(* The kill switch *)

\* What the cache knows.  A look that is under way is dated no later than now,
\* and what it saw is the file as long as the file has not changed since its
\* date; the same holds of what the cache keeps.  A call that began after the
\* last change, and a TTL later, can only have found a cache of this kind.
CacheKnows ==
  /\ changedAt <= now
  /\ checked <= now
  /\ checked # Never /\ checked > changedAt => engaged = file
  /\ \A c \in Callers :
       /\ calls[c].start <= now
       /\ calls[c].pc \in {"stat", "seen"} =>
            calls[c].start <= calls[c].t /\ calls[c].t <= now
       /\ calls[c].pc = "seen" /\ calls[c].t > changedAt => calls[c].answer = file
       /\ calls[c].pc \in {"stat", "seen"} => configured

IInv == TypeOK /\ CacheKnows /\ KillTakesEffect

\* The invariant holds before the first call.
LEMMA TypeInit == Init => IInv
<1> SUFFICES ASSUME Init PROVE IInv
  OBVIOUS
<1>1. TypeOK
  BY DEF Init, TypeOK, Idle, Never
<1>2. \A c \in Callers : calls[c] = Idle
  BY DEF Init
<1>3. CacheKnows /\ KillTakesEffect
  BY <1>2 DEF Init, CacheKnows, KillTakesEffect, Idle, Never
<1> QED BY <1>1, <1>3 DEF IInv

\* Every step of callers, operator and clock keeps the types.
LEMMA TypeStep == TypeOK /\ [Next]_vars => TypeOK'
<1> SUFFICES ASSUME TypeOK, [Next]_vars PROVE TypeOK'
  OBVIOUS
<1> USE DEF TypeOK, Never
<1>1. ASSUME NEW c \in Callers, Call(c) PROVE TypeOK'
  <2>1. [calls[c] EXCEPT !.pc = "waiting", !.start = now]
          \in [pc : {"idle", "waiting", "stat", "seen", "answered"},
               start : Nat, t : Nat, answer : BOOLEAN]
    OBVIOUS
  <2>2. calls' = [calls EXCEPT ![c] = [calls[c] EXCEPT !.pc = "waiting", !.start = now]]
    BY <1>1 DEF Call
  <2> HIDE DEF TypeOK
  <2>3. calls' \in [Callers -> [pc : {"idle", "waiting", "stat", "seen", "answered"},
                                start : Nat, t : Nat, answer : BOOLEAN]]
    BY <2>1, <2>2 DEF TypeOK
  <2> QED BY <1>1, <2>3 DEF Call, TypeOK
<1>2. ASSUME NEW c \in Callers, NotConfigured(c) PROVE TypeOK'
  BY <1>2 DEF NotConfigured, Answer
<1>3. ASSUME NEW c \in Callers, Cached(c) PROVE TypeOK'
  BY <1>3 DEF Cached, Answer
<1>4. ASSUME NEW c \in Callers, Miss(c) PROVE TypeOK'
  BY <1>4 DEF Miss
<1>5. ASSUME NEW c \in Callers, Stat(c) PROVE TypeOK'
  BY <1>5 DEF Stat
<1>6. ASSUME NEW c \in Callers, Record(c) PROVE TypeOK'
  BY <1>6 DEF Record, Dated, Unlock
<1>7. ASSUME NEW c \in Callers, Return(c) PROVE TypeOK'
  BY <1>7 DEF Return, Idle
<1>8. CASE Toggle
  BY <1>8 DEF Toggle
<1>9. CASE Tick
  BY <1>9 DEF Tick
<1>10. CASE UNCHANGED vars
  BY <1>10 DEF vars
<1> QED
  BY <1>1, <1>2, <1>3, <1>4, <1>5, <1>6, <1>7, <1>8, <1>9, <1>10 DEF Next, EngagedStep

\* No step makes the cache, or a look that is under way, know something wrong.
LEMMA KnowsStep == IInv /\ [Next]_vars => CacheKnows' /\ KillTakesEffect'
<1> SUFFICES ASSUME IInv, [Next]_vars PROVE CacheKnows' /\ KillTakesEffect'
  OBVIOUS
<1>0. TTL \in Nat \ {0} /\ TypeOK /\ CacheKnows /\ KillTakesEffect
  BY KillSwitchAssumption DEF IInv, KillSwitchAssumption
<1> USE DEF TypeOK, CacheKnows, KillTakesEffect, Never
<1>1. ASSUME NEW c \in Callers, Call(c) PROVE CacheKnows' /\ KillTakesEffect'
  BY <1>0, <1>1 DEF Call
<1>2. ASSUME NEW c \in Callers, NotConfigured(c) PROVE CacheKnows' /\ KillTakesEffect'
  BY <1>0, <1>2 DEF NotConfigured, Answer
<1>3. ASSUME NEW c \in Callers, Cached(c) PROVE CacheKnows' /\ KillTakesEffect'
  BY <1>0, <1>3 DEF Cached, Answer, CacheValid
<1>4. ASSUME NEW c \in Callers, Miss(c) PROVE CacheKnows' /\ KillTakesEffect'
  BY <1>0, <1>4 DEF Miss
<1>5. ASSUME NEW c \in Callers, Stat(c) PROVE CacheKnows' /\ KillTakesEffect'
  BY <1>0, <1>5 DEF Stat
<1>6. ASSUME NEW c \in Callers, Record(c) PROVE CacheKnows' /\ KillTakesEffect'
  <2>1. /\ calls'[c].pc = "answered" /\ calls'[c].start = calls[c].start
        /\ calls'[c].t = calls[c].t /\ calls'[c].answer = calls[c].answer
        /\ \A d \in Callers : d # c => calls'[d] = calls[d]
    BY <1>0, <1>6 DEF Record
  <2>2. /\ calls[c].pc = "seen" /\ engaged' = calls[c].answer /\ checked' = calls[c].t
        /\ now' = now /\ file' = file /\ changedAt' = changedAt
        /\ configured' = configured
    BY <1>6 DEF Record, Dated
  <2>3. CacheKnows'
    BY <1>0, <2>1, <2>2
  <2>4. calls[c].start >= changedAt + TTL => calls[c].t > changedAt
    BY <1>0, <2>2
  <2> QED BY <1>0, <2>1, <2>2, <2>3, <2>4
<1>7. ASSUME NEW c \in Callers, Return(c) PROVE CacheKnows' /\ KillTakesEffect'
  <2>1. /\ calls'[c] = Idle
        /\ \A d \in Callers : d # c => calls'[d] = calls[d]
    BY <1>0, <1>7 DEF Return
  <2>2. UNCHANGED <<now, begun, configured, file, changedAt, holder, checked, engaged>>
    BY <1>7 DEF Return
  <2> QED BY <1>0, <2>1, <2>2 DEF Idle
<1>8. CASE Toggle
  BY <1>0, <1>8 DEF Toggle
<1>9. CASE Tick
  BY <1>0, <1>9 DEF Tick
<1>10. CASE UNCHANGED vars
  BY <1>0, <1>10 DEF vars
<1> QED
  BY <1>1, <1>2, <1>3, <1>4, <1>5, <1>6, <1>7, <1>8, <1>9, <1>10 DEF Next, EngagedStep

\* For every number of callers and every TTL: a call that begins a TTL after the
\* kill file last changed answers what the file says.
THEOREM KillSwitchWorks == Spec => []KillTakesEffect
<1>1. IInv /\ [Next]_vars => IInv'
  BY TypeStep, KnowsStep DEF IInv
<1>2. IInv => KillTakesEffect
  BY DEF IInv
<1> QED BY TypeInit, <1>1, <1>2, PTL DEF Spec

\* What the mutex is for: a look under way is its holder's, and is the last that
\* was begun; with nobody holding it, the cache is dated by that look.
LooksAlone ==
  /\ \A c \in Callers :
       calls[c].pc \in {"stat", "seen"} => holder = {c} /\ calls[c].t = looked
  /\ holder = {} => checked = looked

\* Looks are made one at a time.
LEMMA LooksStep == TypeOK /\ LooksAlone /\ [Next]_vars => LooksAlone'
<1> SUFFICES ASSUME TypeOK, LooksAlone, [Next]_vars PROVE LooksAlone'
  OBVIOUS
<1> USE DEF TypeOK, LooksAlone
<1>1. ASSUME NEW c \in Callers, Call(c) PROVE LooksAlone'
  BY <1>1 DEF Call
<1>2. ASSUME NEW c \in Callers, NotConfigured(c) PROVE LooksAlone'
  BY <1>2 DEF NotConfigured, Answer
<1>3. ASSUME NEW c \in Callers, Cached(c) PROVE LooksAlone'
  BY <1>3 DEF Cached, Answer
<1>4. ASSUME NEW c \in Callers, Miss(c) PROVE LooksAlone'
  BY <1>4 DEF Miss, Free
<1>5. ASSUME NEW c \in Callers, Stat(c) PROVE LooksAlone'
  BY <1>5 DEF Stat
<1>6. ASSUME NEW c \in Callers, Record(c) PROVE LooksAlone'
  <2>1. /\ holder = {c} /\ calls[c].t = looked /\ holder' = {}
        /\ checked' = calls[c].t /\ looked' = looked
    BY <1>6 DEF Record, Dated, Unlock
  <2>2. \A d \in Callers : calls'[d].pc \notin {"stat", "seen"}
    BY <1>6, <2>1 DEF Record
  <2> QED BY <2>1, <2>2
<1>7. ASSUME NEW c \in Callers, Return(c) PROVE LooksAlone'
  BY <1>7 DEF Return, Idle
<1>8. CASE Toggle
  BY <1>8 DEF Toggle
<1>9. CASE Tick
  BY <1>9 DEF Tick
<1>10. CASE UNCHANGED vars
  BY <1>10 DEF vars
<1> QED
  BY <1>1, <1>2, <1>3, <1>4, <1>5, <1>6, <1>7, <1>8, <1>9, <1>10 DEF Next, EngagedStep

\* A look is begun only a TTL after the last one.
LEMMA StatLater ==
  TypeOK /\ LooksAlone /\ [Next]_vars =>
    \A c \in Callers : calls[c].pc # "stat" /\ calls'[c].pc = "stat" /\ looked # Never
                         => now >= looked + TTL
<1> SUFFICES ASSUME TypeOK, LooksAlone, [Next]_vars, NEW c \in Callers,
                    calls[c].pc # "stat", calls'[c].pc = "stat", looked # Never
             PROVE  now >= looked + TTL
  OBVIOUS
<1>1. TTL \in Nat
  BY KillSwitchAssumption DEF KillSwitchAssumption
<1>2. Miss(c)
  <2> USE DEF TypeOK
  <2>1. \A d \in Callers : ~Call(d) /\ ~NotConfigured(d) /\ ~Cached(d)
    BY DEF Call, NotConfigured, Cached, Answer
  <2>2. \A d \in Callers : ~Stat(d) /\ ~Record(d) /\ ~Return(d)
    BY DEF Stat, Record, Return, Idle
  <2>3. \A d \in Callers : Miss(d) => d = c
    BY DEF Miss
  <2>4. ~Toggle /\ ~Tick /\ ~UNCHANGED vars
    BY DEF Toggle, Tick, vars
  <2> QED BY <2>1, <2>2, <2>3, <2>4 DEF Next, EngagedStep
<1>3. checked = looked /\ ~CacheValid(now)
  BY <1>2 DEF Miss, Free, LooksAlone
<1> QED BY <1>1, <1>3 DEF CacheValid, TypeOK, Never

\* However many callers find the cache stale together, the file is looked at
\* once per TTL.
THEOREM LooksOncePerTTL == Spec => OneStatPerTTL
<1>1. Init => TypeOK /\ LooksAlone
  <2>1. Init => TypeOK
    BY TypeInit DEF IInv
  <2>2. Init => LooksAlone
    BY DEF Init, LooksAlone, Idle
  <2> QED BY <2>1, <2>2
<1>2. TypeOK /\ LooksAlone /\ [Next]_vars => (TypeOK /\ LooksAlone)'
  BY TypeStep, LooksStep
<1>3. TypeOK /\ LooksAlone /\ [Next]_vars =>
        [\A c \in Callers : calls[c].pc # "stat" /\ calls'[c].pc = "stat" /\ looked # Never
                              => now >= looked + TTL]_vars
  BY StatLater
<1> QED BY <1>1, <1>2, <1>3, PTL DEF Spec, OneStatPerTTL

-----------------------------------------------------------------------------
(* Handlers and what they have stored *)

Handler == [pc : {"done", "arrived", "asking", "reading", "read", "ingested"},
            request : Requests \union {NoRequest}]

\* Where a handler is tells what it has: a request that came from a client, which
\* has passed the checks before that place, and past the kill switch a capture.
HandlersOK ==
  /\ handlers \in [Callers -> Handler]
  /\ \A c \in Callers :
       /\ At(c, "asking") <=> calls[c].pc # "idle"
       /\ ~At(c, "done") => Request(c) \in Requests
       /\ handlers[c].pc \in {"reading", "read", "ingested"} => Request(c).kind = "capture"
       /\ handlers[c].pc \in {"asking", "reading", "read", "ingested"} =>
            Authorised(Request(c)) /\ (Request(c).kind = "capture" => Request(c).post)
       /\ handlers[c].pc \in {"read", "ingested"} => Decodes(Request(c))

Ready == {c \in Callers : At(c, "ingested")}

\* Finitely many handlers have stored a capture and not yet said so.
StoreOK ==
  /\ stored \subseteq {Ingested(capture) : capture \in Offered}
  /\ \A capture \in stored :
       /\ ReadsOnly => capture.method # "write"
       /\ capture.from.kind = "capture" =>
            Authorised(capture.from) /\ capture.from.post /\ Decodes(capture.from)
  /\ ingested \in Nat /\ accepted \in Nat
  /\ IsFiniteSet(Ready)
  /\ ingested = accepted + Cardinality(Ready)

ServerInv == TypeOK /\ HandlersOK /\ StoreOK

-----------------------------------------------------------------------------
(* Server is KillSwitch, with something around it *)

\* What a handler does to the kill switch is a step of it, or nothing.
LEMMA ServerSteps == [ServerNext]_allVars => [Next]_vars
<1> SUFFICES ASSUME ServerNext PROVE [Next]_vars
  BY DEF allVars
<1>1. ASSUME NEW c \in Callers, NEW request \in Requests, Arrive(c, request) PROVE [Next]_vars
  BY <1>1 DEF Arrive
<1>2. ASSUME NEW c \in Callers, ArrivedStep(c) PROVE [Next]_vars
  BY <1>2 DEF ArrivedStep, Unauthorised, NotPost, TellReport, Ask, Next
<1>3. ASSUME NEW c \in Callers, SwitchAnswers(c) PROVE [Next]_vars
  BY <1>3 DEF SwitchAnswers, Next, EngagedStep
<1>4. ASSUME NEW c \in Callers, AskedStep(c) PROVE [Next]_vars
  BY <1>4 DEF AskedStep, TellStats, RefuseKilled, Admit, Next, EngagedStep
<1>5. ASSUME NEW c \in Callers, BodyStep(c) PROVE [Next]_vars
  BY <1>5 DEF BodyStep, Unreadable, Malformed, Read
<1>6. ASSUME NEW c \in Callers, ReadStep(c) PROVE [Next]_vars
  BY <1>6 DEF ReadStep, ForbidWrite, Ingest, Accept
<1>7. Toggle \/ Tick => Next
  BY DEF Next
<1>8. ASSUME NEW capture \in Proxied, ProxyIngest(capture) PROVE [Next]_vars
  BY <1>8 DEF ProxyIngest
<1> QED BY <1>1, <1>2, <1>3, <1>4, <1>5, <1>6, <1>7, <1>8 DEF ServerNext

\* Server implements KillSwitch: whatever holds of the switch holds of it here.
THEOREM ServerUsesSwitch == ServerSpec => Spec
<1>1. ServerInit => Init
  BY DEF ServerInit
<1> QED BY <1>1, ServerSteps, PTL DEF ServerSpec, Spec

\* A call that begins a TTL after the file changed answers what the file says,
\* whoever else the handlers are serving.
THEOREM SwitchWorksHere == ServerSpec => []KillTakesEffect
BY ServerUsesSwitch, KillSwitchWorks, PTL

\* However many handlers ask, the file is looked at once per TTL.
THEOREM OneStatHere == ServerSpec => OneStatPerTTL
BY ServerUsesSwitch, LooksOncePerTTL, PTL

-----------------------------------------------------------------------------
(* Handlers *)

\* A handler moves, and the others stay where they are.
LEMMA Moved ==
  ASSUME NEW c \in Callers, NEW h \in Handler,
         handlers \in [Callers -> Handler], handlers' = [handlers EXCEPT ![c] = h]
  PROVE  /\ handlers' \in [Callers -> Handler]
         /\ handlers'[c] = h
         /\ \A d \in Callers : d # c => handlers'[d] = handlers[d]
OBVIOUS

\* Where Goto and Respond lead.
LEMMA GotoMoves ==
  ASSUME NEW c \in Callers, handlers \in [Callers -> Handler],
         NEW pc \in {"done", "arrived", "asking", "reading", "read", "ingested"}, Goto(c, pc)
  PROVE  /\ handlers' \in [Callers -> Handler]
         /\ handlers'[c].pc = pc /\ handlers'[c].request = handlers[c].request
         /\ \A d \in Callers : d # c => handlers'[d] = handlers[d]
<1> DEFINE h == [handlers[c] EXCEPT !.pc = pc]
<1>1. h \in Handler /\ h.pc = pc /\ h.request = handlers[c].request
  BY DEF Handler
<1>2. handlers' = [handlers EXCEPT ![c] = h]
  BY DEF Goto
<1> HIDE DEF h
<1> QED BY <1>1, <1>2, Moved

\* The handler is done with its request.
LEMMA RespondMoves ==
  ASSUME NEW c \in Callers, handlers \in [Callers -> Handler], Respond(c)
  PROVE  /\ handlers' \in [Callers -> Handler]
         /\ handlers'[c].pc = "done"
         /\ \A d \in Callers : d # c => handlers'[d] = handlers[d]
<1>1. Done \in Handler /\ Done.pc = "done"
  BY DEF Done, Handler
<1> QED BY <1>1, Moved DEF Respond

\* Calls and returns are the handlers' own; the rest of a call leaves it under way.
LEMMA CallsMove ==
  ASSUME TypeOK, NEW c \in Callers
  PROVE  /\ Call(c) => /\ calls[c].pc = "idle" /\ calls'[c].pc = "waiting"
                       /\ \A d \in Callers : d # c => calls'[d] = calls[d]
         /\ Return(c) => /\ calls'[c].pc = "idle"
                         /\ \A d \in Callers : d # c => calls'[d] = calls[d]
         /\ SwitchAnswers(c) => \A d \in Callers : calls'[d].pc = "idle" <=> calls[d].pc = "idle"
         /\ Toggle \/ Tick => calls' = calls
<1> USE DEF TypeOK
<1>1. Call(c) => /\ calls[c].pc = "idle" /\ calls'[c].pc = "waiting"
                 /\ \A d \in Callers : d # c => calls'[d] = calls[d]
  BY DEF Call
<1>2. Return(c) => /\ calls'[c].pc = "idle"
                   /\ \A d \in Callers : d # c => calls'[d] = calls[d]
  BY DEF Return, Idle
<1>3. SwitchAnswers(c) => \A d \in Callers : calls'[d].pc = "idle" <=> calls[d].pc = "idle"
  BY DEF SwitchAnswers, NotConfigured, Cached, Miss, Stat, Record, Answer
<1>4. Toggle \/ Tick => calls' = calls
  BY DEF Toggle, Tick
<1> QED BY <1>1, <1>2, <1>3, <1>4

\* A handler that does not ask answers, the switch being left alone.
LEMMA QuietRespond ==
  ASSUME HandlersOK, NEW c \in Callers, ~At(c, "asking"), Respond(c), calls' = calls
  PROVE  HandlersOK'
<1>1. /\ handlers' \in [Callers -> Handler]
      /\ handlers'[c].pc = "done"
      /\ \A d \in Callers : d # c => handlers'[d] = handlers[d]
  BY RespondMoves DEF HandlersOK
<1> QED BY <1>1 DEF HandlersOK, At, Request

\* Past the switch, a handler goes on with its capture.
LEMMA QuietGoto ==
  ASSUME HandlersOK, NEW c \in Callers, NEW pc \in {"read", "ingested"},
         handlers[c].pc \in {"reading", "read"}, Goto(c, pc), calls' = calls,
         Decodes(Request(c))
  PROVE  HandlersOK'
<1>1. /\ handlers' \in [Callers -> Handler]
      /\ handlers'[c].pc = pc /\ handlers'[c].request = handlers[c].request
      /\ \A d \in Callers : d # c => handlers'[d] = handlers[d]
  BY GotoMoves DEF HandlersOK
<1> QED BY <1>1 DEF HandlersOK, At, Request

\* A handler that asks answers, having its own answer from the switch.
LEMMA AskedRespond ==
  ASSUME TypeOK, HandlersOK, NEW c \in Callers, Return(c), Respond(c)
  PROVE  HandlersOK'
<1>1. /\ handlers' \in [Callers -> Handler]
      /\ handlers'[c].pc = "done"
      /\ \A d \in Callers : d # c => handlers'[d] = handlers[d]
  BY RespondMoves DEF HandlersOK
<1>2. calls'[c].pc = "idle" /\ \A d \in Callers : d # c => calls'[d] = calls[d]
  BY CallsMove
<1> QED BY <1>1, <1>2 DEF HandlersOK, At, Request

\* Every step leaves each handler with what belongs to its place.
LEMMA HandlersStep == ServerInv /\ [ServerNext]_allVars => HandlersOK'
<1> SUFFICES ASSUME ServerInv, [ServerNext]_allVars PROVE HandlersOK'
  OBVIOUS
<1>0. TypeOK /\ HandlersOK
  BY DEF ServerInv
<1>1. ASSUME NEW c \in Callers, NEW request \in Requests, Arrive(c, request) PROVE HandlersOK'
  <2> DEFINE h == [pc |-> "arrived", request |-> request]
  <2>1. h \in Handler /\ h.pc = "arrived" /\ h.request = request
    BY DEF Handler
  <2>2. handlers' = [handlers EXCEPT ![c] = h] /\ calls' = calls /\ At(c, "done")
    BY <1>1 DEF Arrive, vars
  <2> HIDE DEF h
  <2>3. /\ handlers' \in [Callers -> Handler]
        /\ handlers'[c] = h
        /\ \A d \in Callers : d # c => handlers'[d] = handlers[d]
    BY <1>0, <2>1, <2>2, Moved DEF HandlersOK
  <2> QED BY <1>0, <2>1, <2>2, <2>3 DEF HandlersOK, At, Request
<1>2. ASSUME NEW c \in Callers, Unauthorised(c) \/ NotPost(c) \/ TellReport(c) PROVE HandlersOK'
  <2>1. At(c, "arrived") /\ Respond(c) /\ calls' = calls
    BY <1>2 DEF Unauthorised, NotPost, TellReport, vars
  <2> QED BY <1>0, <2>1, QuietRespond DEF At
<1>3. ASSUME NEW c \in Callers, Ask(c) PROVE HandlersOK'
  <2>1. At(c, "arrived") /\ Call(c) /\ Goto(c, "asking")
        /\ Authorised(Request(c)) /\ (Request(c).kind = "capture" => Request(c).post)
    BY <1>3 DEF Ask
  <2>2. /\ handlers' \in [Callers -> Handler]
        /\ handlers'[c].pc = "asking" /\ handlers'[c].request = handlers[c].request
        /\ \A d \in Callers : d # c => handlers'[d] = handlers[d]
    BY <1>0, <2>1, GotoMoves DEF HandlersOK
  <2>3. calls'[c].pc = "waiting" /\ \A d \in Callers : d # c => calls'[d] = calls[d]
    BY <1>0, <2>1, CallsMove
  <2> QED BY <1>0, <2>1, <2>2, <2>3 DEF HandlersOK, At, Request
<1>4. ASSUME NEW c \in Callers, SwitchAnswers(c) PROVE HandlersOK'
  <2>1. handlers' = handlers
    BY <1>4 DEF SwitchAnswers, serverVars
  <2>2. \A d \in Callers : calls'[d].pc = "idle" <=> calls[d].pc = "idle"
    BY <1>0, <1>4, CallsMove
  <2> QED BY <1>0, <2>1, <2>2 DEF HandlersOK, At, Request
<1>5. ASSUME NEW c \in Callers, TellStats(c) \/ RefuseKilled(c) PROVE HandlersOK'
  <2>1. Return(c) /\ Respond(c)
    BY <1>5 DEF TellStats, RefuseKilled
  <2> QED BY <1>0, <2>1, AskedRespond
<1>6. ASSUME NEW c \in Callers, Admit(c) PROVE HandlersOK'
  <2>1. At(c, "asking") /\ Request(c).kind = "capture" /\ Return(c) /\ Goto(c, "reading")
    BY <1>6 DEF Admit
  <2>2. /\ handlers' \in [Callers -> Handler]
        /\ handlers'[c].pc = "reading" /\ handlers'[c].request = handlers[c].request
        /\ \A d \in Callers : d # c => handlers'[d] = handlers[d]
    BY <1>0, <2>1, GotoMoves DEF HandlersOK
  <2>3. calls'[c].pc = "idle" /\ \A d \in Callers : d # c => calls'[d] = calls[d]
    BY <1>0, <2>1, CallsMove
  <2> QED BY <1>0, <2>1, <2>2, <2>3 DEF HandlersOK, At, Request
<1>7. ASSUME NEW c \in Callers,
             Unreadable(c) \/ Malformed(c) \/ ForbidWrite(c) \/ Accept(c)
      PROVE  HandlersOK'
  <2>1. ~At(c, "asking") /\ Respond(c) /\ calls' = calls
    BY <1>7 DEF Unreadable, Malformed, ForbidWrite, Accept, At, vars
  <2> QED BY <1>0, <2>1, QuietRespond
<1>8. ASSUME NEW c \in Callers, Read(c) \/ Ingest(c) PROVE HandlersOK'
  <2>1. /\ handlers[c].pc \in {"reading", "read"} /\ calls' = calls
        /\ Goto(c, "read") \/ Goto(c, "ingested")
    BY <1>8 DEF Read, Ingest, At, vars
  <2>2. Decodes(Request(c))
    BY <1>0, <1>8 DEF Read, Ingest, At, HandlersOK
  <2> QED BY <1>0, <2>1, <2>2, QuietGoto
<1>9. CASE (Toggle \/ Tick) /\ UNCHANGED serverVars
  <2>1. calls' = calls /\ handlers' = handlers
    BY <1>9 DEF Toggle, Tick, serverVars
  <2> QED BY <1>0, <2>1 DEF HandlersOK, At, Request
<1>10. CASE UNCHANGED allVars
  <2>1. calls' = calls /\ handlers' = handlers
    BY <1>10 DEF allVars, vars, serverVars
  <2> QED BY <1>0, <2>1 DEF HandlersOK, At, Request
<1>11. ASSUME NEW capture \in Proxied, ProxyIngest(capture) PROVE HandlersOK'
  <2>1. calls' = calls /\ handlers' = handlers
    BY <1>11 DEF ProxyIngest, vars
  <2> QED BY <1>0, <2>1 DEF HandlersOK, At, Request
<1> QED
  BY <1>1, <1>2, <1>3, <1>4, <1>5, <1>6, <1>7, <1>8, <1>9, <1>10, <1>11
  DEF ServerNext, ArrivedStep, AskedStep, BodyStep, ReadStep

-----------------------------------------------------------------------------
(* What is stored *)

\* A handler that has stored nothing moves on without storing.
LEMMA ReadyStays ==
  ASSUME NEW c \in Callers, ~At(c, "ingested"), ~At(c, "ingested")',
         \A d \in Callers : d # c => handlers'[d] = handlers[d]
  PROVE  Ready' = Ready
BY DEF Ready, At

\* The account does not depend on anything but these.
LEMMA StoreStays ==
  ASSUME StoreOK, Ready' = Ready, UNCHANGED <<stored, ingested, accepted>>
  PROVE  StoreOK'
BY DEF StoreOK

\* A handler that answers, or goes on, without storing leaves the account as it is.
LEMMA MovesWithoutStoring ==
  ASSUME HandlersOK, StoreOK, NEW c \in Callers, ~At(c, "ingested"),
         \/ Respond(c)
         \/ \E pc \in {"asking", "reading", "read"} : Goto(c, pc),
         UNCHANGED <<stored, ingested, accepted>>
  PROVE  StoreOK'
<1>1. CASE Respond(c)
  <2>1. handlers'[c].pc = "done" /\ \A d \in Callers : d # c => handlers'[d] = handlers[d]
    BY <1>1, RespondMoves DEF HandlersOK
  <2> QED BY <2>1, ReadyStays, StoreStays DEF At
<1>2. ASSUME NEW pc \in {"asking", "reading", "read"}, Goto(c, pc) PROVE StoreOK'
  <2>1. handlers'[c].pc = pc /\ \A d \in Callers : d # c => handlers'[d] = handlers[d]
    BY <1>2, GotoMoves DEF HandlersOK
  <2> QED BY <2>1, ReadyStays, StoreStays DEF At
<1> QED BY <1>1, <1>2

\* ingest stores what was not refused, and the answer 202 is still to come.
LEMMA IngestStores == ASSUME ServerInv, NEW c \in Callers, Ingest(c) PROVE StoreOK'
<1>1. /\ HandlersOK /\ StoreOK /\ At(c, "read") /\ ~Refused(Request(c)) /\ Goto(c, "ingested")
      /\ stored' = stored \union {Ingested(Request(c))}
      /\ ingested' = ingested + 1 /\ accepted' = accepted
  BY DEF ServerInv, Ingest
<1>2. /\ Request(c) \in Requests /\ Request(c).kind = "capture"
      /\ Authorised(Request(c)) /\ Request(c).post /\ Decodes(Request(c))
  BY <1>1 DEF HandlersOK, At
<1>3. handlers'[c].pc = "ingested" /\ \A d \in Callers : d # c => handlers'[d] = handlers[d]
  BY <1>1, GotoMoves DEF HandlersOK
<1>4. c \notin Ready /\ Ready' = Ready \union {c}
  BY <1>1, <1>3 DEF Ready, At
<1>5. IsFiniteSet(Ready') /\ Cardinality(Ready') = Cardinality(Ready) + 1
  BY <1>1, <1>4, FS_AddElement DEF StoreOK
<1>6. Cardinality(Ready) \in Nat
  BY <1>1, FS_CardinalityType DEF StoreOK
<1>7. Ingested(Request(c)).method = Request(c).method /\ Ingested(Request(c)).from = Request(c)
  BY DEF Ingested
<1>8. ingested' \in Nat /\ accepted' \in Nat /\ ingested' = accepted' + Cardinality(Ready')
  <2> DEFINE k == Cardinality(Ready)  k1 == Cardinality(Ready')
  <2>1. k \in Nat /\ k1 = k + 1 /\ ingested = accepted + k
    BY <1>1, <1>5, <1>6 DEF StoreOK
  <2> HIDE DEF k, k1
  <2>2. ingested' = accepted' + k1 /\ ingested' \in Nat /\ accepted' \in Nat
    BY <1>1, <2>1 DEF StoreOK
  <2> QED BY <2>2 DEF k1
<1>9. stored' \subseteq {Ingested(capture) : capture \in Offered}
  BY <1>1, <1>2 DEF StoreOK, Offered
<1>10. \A capture \in stored' :
         /\ ReadsOnly => capture.method # "write"
         /\ capture.from.kind = "capture" =>
              Authorised(capture.from) /\ capture.from.post /\ Decodes(capture.from)
  BY <1>1, <1>2, <1>7 DEF StoreOK, Refused
<1> QED BY <1>5, <1>8, <1>9, <1>10 DEF StoreOK

\* What proxy mode stores is no write under reads-only, and was not posted.
LEMMA ProxyStores ==
  ASSUME StoreOK, NEW capture \in Proxied, ProxyIngest(capture)
  PROVE  StoreOK'
<1> DEFINE new == Observed(capture)
<1>1. stored' = stored \union {Ingested(new)} /\ UNCHANGED <<handlers, ingested, accepted>>
  BY DEF ProxyIngest
<1>2. /\ Ingested(new).method = new.method /\ Ingested(new).from = new
      /\ new.kind = capture.kind /\ new.method = capture.method
  BY DEF Ingested, Observed
<1>3. new \in Offered
  BY DEF Offered
<1> HIDE DEF new
<1>4. new.kind # "capture" /\ (ReadsOnly => new.method # "write")
  BY <1>2, ServerAssumption DEF ServerAssumption
<1>5. \A c \in stored' :
        /\ ReadsOnly => c.method # "write"
        /\ c.from.kind = "capture" => Authorised(c.from) /\ c.from.post /\ Decodes(c.from)
  BY <1>1, <1>2, <1>4 DEF StoreOK
<1>6. stored' \subseteq {Ingested(c) : c \in Offered}
  BY <1>1, <1>3 DEF StoreOK
<1>7. Ready' = Ready
  BY <1>1 DEF Ready, At
<1> QED BY <1>1, <1>5, <1>6, <1>7 DEF StoreOK

\* 202 is said of one capture that was stored.
LEMMA AcceptCounts == ASSUME ServerInv, NEW c \in Callers, Accept(c) PROVE StoreOK'
<1>1. /\ HandlersOK /\ StoreOK /\ At(c, "ingested") /\ Respond(c)
      /\ accepted' = accepted + 1 /\ stored' = stored /\ ingested' = ingested
  BY DEF ServerInv, Accept
<1>2. handlers'[c].pc = "done" /\ \A d \in Callers : d # c => handlers'[d] = handlers[d]
  BY <1>1, RespondMoves DEF HandlersOK
<1>3. c \in Ready /\ Ready' = Ready \ {c}
  BY <1>1, <1>2 DEF Ready, At
<1>4. IsFiniteSet(Ready') /\ Cardinality(Ready') = Cardinality(Ready) - 1
  BY <1>1, <1>3, FS_RemoveElement DEF StoreOK
<1>5. Cardinality(Ready) \in Nat /\ Cardinality(Ready') \in Nat
  BY <1>1, <1>4, FS_CardinalityType DEF StoreOK
<1>6. accepted' \in Nat /\ ingested' \in Nat /\ ingested' = accepted' + Cardinality(Ready')
  <2> DEFINE k == Cardinality(Ready)  k1 == Cardinality(Ready')
  <2>1. k \in Nat /\ k1 \in Nat /\ k1 = k - 1 /\ ingested = accepted + k
    BY <1>1, <1>4, <1>5 DEF StoreOK
  <2> HIDE DEF k, k1
  <2>2. ingested' = accepted' + k1 /\ ingested' \in Nat /\ accepted' \in Nat
    BY <1>1, <2>1 DEF StoreOK
  <2> QED BY <2>2 DEF k1
<1> QED BY <1>1, <1>4, <1>6 DEF StoreOK

\* Every step keeps the account.
LEMMA StoreStep == ServerInv /\ [ServerNext]_allVars => StoreOK'
<1> SUFFICES ASSUME ServerInv, [ServerNext]_allVars PROVE StoreOK'
  OBVIOUS
<1>0. HandlersOK /\ StoreOK
  BY DEF ServerInv
<1>1. ASSUME NEW c \in Callers, NEW request \in Requests, Arrive(c, request) PROVE StoreOK'
  <2> DEFINE h == [pc |-> "arrived", request |-> request]
  <2>1. h \in Handler /\ h.pc = "arrived"
    BY DEF Handler
  <2>2. /\ handlers' = [handlers EXCEPT ![c] = h] /\ At(c, "done")
        /\ UNCHANGED <<stored, ingested, accepted>>
    BY <1>1 DEF Arrive
  <2> HIDE DEF h
  <2>3. handlers'[c] = h /\ \A d \in Callers : d # c => handlers'[d] = handlers[d]
    BY <1>0, <2>1, <2>2, Moved DEF HandlersOK
  <2> QED BY <1>0, <2>1, <2>2, <2>3, ReadyStays, StoreStays DEF At
<1>2. ASSUME NEW c \in Callers,
             \/ ArrivedStep(c) \/ AskedStep(c) \/ BodyStep(c) \/ ForbidWrite(c)
      PROVE  StoreOK'
  <2>1. ~At(c, "ingested") /\ UNCHANGED <<stored, ingested, accepted>>
    BY <1>2 DEF ArrivedStep, AskedStep, BodyStep, Unauthorised, NotPost, TellReport, Ask,
                TellStats, RefuseKilled, Admit, Unreadable, Malformed, Read, ForbidWrite, At
  <2>2. Respond(c) \/ Goto(c, "asking") \/ Goto(c, "reading") \/ Goto(c, "read")
    BY <1>2 DEF ArrivedStep, AskedStep, BodyStep, Unauthorised, NotPost, TellReport, Ask,
                TellStats, RefuseKilled, Admit, Unreadable, Malformed, Read, ForbidWrite
  <2> QED BY <1>0, <2>1, <2>2, MovesWithoutStoring
<1>3. ASSUME NEW c \in Callers, SwitchAnswers(c) PROVE StoreOK'
  BY <1>0, <1>3, StoreStays DEF SwitchAnswers, serverVars, Ready, At
<1>4. ASSUME NEW c \in Callers, Ingest(c) PROVE StoreOK'
  BY <1>4, IngestStores
<1>5. ASSUME NEW c \in Callers, Accept(c) PROVE StoreOK'
  BY <1>5, AcceptCounts
<1>6. CASE UNCHANGED serverVars
  BY <1>0, <1>6, StoreStays DEF serverVars, Ready, At
<1>7. ASSUME NEW capture \in Proxied, ProxyIngest(capture) PROVE StoreOK'
  BY <1>0, <1>7, ProxyStores
<1> QED
  BY <1>1, <1>2, <1>3, <1>4, <1>5, <1>6, <1>7 DEF ServerNext, ReadStep, allVars

\* The handlers' invariant, with what the switch contributes to it.
LEMMA ServerInvariant == ServerSpec => []ServerInv
<1>1. ServerInit => ServerInv
  <2> SUFFICES ASSUME ServerInit PROVE ServerInv
    OBVIOUS
  <2>1. TypeOK
    BY TypeInit DEF ServerInit, IInv
  <2>2. /\ handlers = [c \in Callers |-> Done] /\ \A c \in Callers : calls[c].pc = "idle"
        /\ stored = {} /\ ingested = 0 /\ accepted = 0
    BY DEF ServerInit, Init, Idle
  <2>3. Done \in Handler /\ Done.pc = "done"
    BY DEF Done, Handler
  <2>4. HandlersOK
    BY <2>2, <2>3 DEF HandlersOK, At
  <2>5. Ready = {}
    BY <2>2, <2>3 DEF Ready, At
  <2>6. StoreOK
    BY <2>2, <2>5, FS_EmptySet DEF StoreOK
  <2> QED BY <2>1, <2>4, <2>6 DEF ServerInv
<1>2. ServerInv /\ [ServerNext]_allVars => ServerInv'
  BY ServerSteps, TypeStep, HandlersStep, StoreStep DEF ServerInv
<1> QED BY <1>1, <1>2, PTL DEF ServerSpec

\* Every reachable state of the handlers is well typed, and a handler is in the
\* kill switch exactly while it asks.
THEOREM ServerTypeCorrect == ServerSpec => []ServerTypeOK
<1>1. ServerInv => ServerTypeOK
  BY DEF ServerInv, HandlersOK, StoreOK, ServerTypeOK, Handler
<1> QED BY <1>1, ServerInvariant, PTL

\* Whatever is refused leaves nothing in the buffer: what was posted and is there
\* passed every check.  No write is in it under reads-only.
THEOREM RefusalsLeaveNothing == ServerSpec => []AcceptedIsStored
<1>1. ServerInv => AcceptedIsStored
  BY DEF ServerInv, StoreOK, AcceptedIsStored, Ready
<1> QED BY <1>1, ServerInvariant, PTL

\* A handler gets past the switch by its own answer only.
LEMMA AdmitOnly ==
  ASSUME ServerInv, [ServerNext]_allVars, NEW c \in Callers, At(c, "asking"), At(c, "reading")'
  PROVE  Admit(c)
<1>0. HandlersOK
  BY DEF ServerInv
<1>2. handlers'[c] # handlers[c]
  BY DEF At
<1>3. ASSUME NEW d \in Callers, handlers'[d].pc # "reading",
             \A e \in Callers : e # d => handlers'[e] = handlers[e]
      PROVE  FALSE
  BY <1>2, <1>3 DEF At
<1>4. \A d \in Callers : ~Respond(d)
  BY <1>0, <1>3, RespondMoves DEF HandlersOK
<1>5. \A d \in Callers : ~Goto(d, "asking") /\ ~Goto(d, "read") /\ ~Goto(d, "ingested")
  <2> SUFFICES ASSUME NEW d \in Callers, NEW pc \in {"asking", "read", "ingested"}, Goto(d, pc)
               PROVE  FALSE
    OBVIOUS
  <2>1. handlers'[d].pc = pc /\ \A e \in Callers : e # d => handlers'[e] = handlers[e]
    BY <1>0, GotoMoves DEF HandlersOK
  <2> QED BY <1>3, <2>1
<1>6. \A d \in Callers, request \in Requests : ~Arrive(d, request)
  <2> SUFFICES ASSUME NEW d \in Callers, NEW request \in Requests, Arrive(d, request)
               PROVE  FALSE
    OBVIOUS
  <2> DEFINE h == [pc |-> "arrived", request |-> request]
  <2>1. h \in Handler /\ h.pc = "arrived"
    BY DEF Handler
  <2>2. handlers' = [handlers EXCEPT ![d] = h]
    BY DEF Arrive
  <2> HIDE DEF h
  <2>3. handlers'[d] = h /\ \A e \in Callers : e # d => handlers'[e] = handlers[e]
    BY <1>0, <2>1, <2>2, Moved DEF HandlersOK
  <2> QED BY <1>3, <2>1, <2>3
<1>7. ~UNCHANGED serverVars /\ \A d \in Callers : ~SwitchAnswers(d)
  BY <1>2 DEF serverVars, SwitchAnswers
<1>8. \A d \in Callers : ~ArrivedStep(d) /\ ~BodyStep(d) /\ ~ReadStep(d)
                         /\ ~TellStats(d) /\ ~RefuseKilled(d)
  BY <1>4, <1>5 DEF ArrivedStep, BodyStep, ReadStep, Unauthorised, NotPost, TellReport, Ask,
                    Unreadable, Malformed, Read, ForbidWrite, Ingest, Accept,
                    TellStats, RefuseKilled
<1>9. PICK d \in Callers : Admit(d)
  <2>1. \A capture \in Proxied : ~ProxyIngest(capture)
    BY <1>2 DEF ProxyIngest
  <2> QED BY <1>6, <1>7, <1>8, <2>1 DEF ServerNext, AskedStep, allVars
<1>10. \A e \in Callers : e # d => handlers'[e] = handlers[e]
  BY <1>0, <1>9, GotoMoves DEF Admit, HandlersOK
<1> QED BY <1>2, <1>9, <1>10

\* No capture is let in by a check that began a TTL after the kill file was
\* touched, whatever the other handlers ask, and however slow the stat is.
THEOREM NoCaptureAfterKill == ServerSpec => AdmittedBeforeKill
<1>1. ServerInv /\ KillTakesEffect /\ [ServerNext]_allVars =>
        [\A c \in Callers :
           At(c, "asking") /\ At(c, "reading")'
             => ~(configured /\ file /\ calls[c].start >= changedAt + TTL)]_allVars
  <2> SUFFICES ASSUME ServerInv, KillTakesEffect, [ServerNext]_allVars,
                      NEW c \in Callers, At(c, "asking"), At(c, "reading")',
                      configured, file, calls[c].start >= changedAt + TTL
               PROVE  FALSE
    OBVIOUS
  <2>1. ~calls[c].answer /\ calls[c].pc = "answered"
    BY AdmitOnly DEF Admit, Killed, Return
  <2> QED BY <2>1 DEF KillTakesEffect
<1> QED BY <1>1, ServerInvariant, SwitchWorksHere, PTL DEF ServerSpec, AdmittedBeforeKill

-----------------------------------------------------------------------------
(* Sizes: a body's is a sum over its pieces, and what is proved of a sum is   *)
(* proved by the least place at which it would fail.                          *)

\* A set of numbers that is not empty has a least one.
LEMMA Least ==
  ASSUME NEW S, S \subseteq Nat, S # {}
  PROVE  \E m \in S : \A k \in S : m <= k
<1>1. PICK m \in S : \A k \in S : <<k, m>> \notin OpToRel(<, Nat)
  BY NatLessThanWellFounded, WFMin
<1>2. \A k \in S : ~ (k < m)
  BY <1>1 DEF OpToRel
<1> QED BY <1>2

\* Induction up to n: a set with 0 in it, and with m + 1 whenever with m.
LEMMA UpTo ==
  ASSUME NEW n \in Nat, NEW S, 0 \in S, \A m \in 0 .. n - 1 : m \in S => m + 1 \in S
  PROVE  0 .. n \subseteq S
<1> SUFFICES ASSUME (0 .. n) \ S # {} PROVE FALSE
  OBVIOUS
<1>1. PICK m \in (0 .. n) \ S : \A k \in (0 .. n) \ S : m <= k
  <2>1. (0 .. n) \ S \subseteq Nat
    OBVIOUS
  <2> QED BY <2>1, Least
<1>2. m # 0 /\ m - 1 \in 0 .. n - 1 /\ (m - 1) + 1 = m
  BY <1>1
<1>3. m - 1 \in S
  BY <1>1, <1>2
<1> QED BY <1>1, <1>2, <1>3

Piece == [field : STRING, size : Nat, value : {"whole", "part", "nested", "redacted"}]

\* What Ends is: every piece ends where the one before ends, and its size later.
SumsUp(end, body, n) ==
  /\ end \in [0 .. n -> Nat]
  /\ end[0] = 0
  /\ \A i \in 1 .. n : end[i] = end[i - 1] + body[i].size

\* Every piece has a size.
LEMMA PieceSize ==
  ASSUME NEW body \in Seq(Piece), NEW i \in 1 .. Len(body)
  PROVE  body[i] \in Piece /\ body[i].size \in Nat
<1>1. body[i] \in Piece
  BY ElementOfSeq
<1> QED BY <1>1 DEF Piece

\* There is such a function, so that the recursion defines one.
LEMMA EndsExist ==
  ASSUME NEW body \in Seq(Piece), NEW n \in 0 .. Len(body)
  PROVE  \E end : SumsUp(end, body, n)
<1> DEFINE S == {k \in 0 .. Len(body) : \E end : SumsUp(end, body, k)}
<1>0. Len(body) \in Nat
  BY LenProperties
<1>1. 0 \in S
  <2>1. SumsUp([i \in 0 .. 0 |-> 0], body, 0)
    BY DEF SumsUp
  <2> QED BY <1>0, <2>1
<1>2. ASSUME NEW m \in 0 .. Len(body) - 1, m \in S PROVE m + 1 \in S
  <2>1. PICK end : SumsUp(end, body, m)
    BY <1>2
  <2> DEFINE more == [i \in 0 .. m + 1 |-> IF i <= m THEN end[i] ELSE end[m] + body[m + 1].size]
  <2>2. body[m + 1].size \in Nat /\ m + 1 \in 1 .. Len(body)
    BY <1>0, PieceSize
  <2>3. more \in [0 .. m + 1 -> Nat]
    BY <2>1, <2>2 DEF SumsUp
  <2>4. more[0] = 0
    BY <2>1 DEF SumsUp
  <2>5. ASSUME NEW i \in 1 .. m + 1 PROVE more[i] = more[i - 1] + body[i].size
    <3>1. CASE i = m + 1
      BY <3>1
    <3>2. CASE i \in 1 .. m
      BY <2>1, <3>2 DEF SumsUp
    <3> QED BY <3>1, <3>2
  <2>6. SumsUp(more, body, m + 1)
    <3> HIDE DEF more
    <3> QED BY <2>3, <2>4, <2>5 DEF SumsUp
  <2> QED BY <1>0, <2>6
<1> HIDE DEF S
<1>3. 0 .. Len(body) \subseteq S
  BY <1>0, <1>1, <1>2, UpTo
<1> QED BY <1>3 DEF S

\* Ends is what its recursion says.
LEMMA EndsSumUp ==
  ASSUME NEW body \in Seq(Piece)
  PROVE  SumsUp(Ends(body), body, Len(body))
<1>0. Len(body) \in Nat
  BY LenProperties
<1> DEFINE Body(f) == [n \in 0 .. Len(body) |-> IF n = 0 THEN 0 ELSE f[n - 1] + body[n].size]
<1>1. PICK end : SumsUp(end, body, Len(body))
  BY <1>0, EndsExist
<1>2. end = Body(end)
  BY <1>0, <1>1 DEF SumsUp
<1>3. Ends(body) = CHOOSE f : f = Body(f)
  BY DEF Ends
<1> DEFINE e == Ends(body)
<1>4. e = Body(e)
  BY <1>2, <1>3
<1> HIDE DEF e
<1>5. /\ DOMAIN e = 0 .. Len(body) /\ e[0] = 0
      /\ \A i \in 1 .. Len(body) : e[i] = e[i - 1] + body[i].size
  BY <1>0, <1>4
<1>6. \A i \in 1 .. Len(body) : body[i].size \in Nat
  BY PieceSize
<1> DEFINE S == {i \in 0 .. Len(body) : e[i] \in Nat}
<1>7. 0 \in S
  BY <1>0, <1>5
<1>8. ASSUME NEW m \in 0 .. Len(body) - 1, m \in S PROVE m + 1 \in S
  <2>1. m + 1 \in 1 .. Len(body) /\ (m + 1) - 1 = m
    BY <1>0
  <2> QED BY <1>5, <1>6, <1>8, <2>1
<1> HIDE DEF S
<1>9. 0 .. Len(body) \subseteq S
  BY <1>0, <1>7, <1>8, UpTo
<1>10. e \in [0 .. Len(body) -> Nat]
  BY <1>4, <1>9 DEF S
<1> QED BY <1>5, <1>10 DEF SumsUp, e

\* A piece ends no earlier than the one before.
LEMMA EndsGrow ==
  ASSUME NEW body \in Seq(Piece), NEW i \in 0 .. Len(body), NEW j \in i .. Len(body)
  PROVE  Ends(body)[i] <= Ends(body)[j]
<1>0. Len(body) \in Nat
  BY LenProperties
<1> DEFINE e == Ends(body)
           S == {k \in 0 .. Len(body) - i : e[i] <= e[i + k]}
<1>1. e \in [0 .. Len(body) -> Nat] /\ \A k \in 1 .. Len(body) : e[k] = e[k - 1] + body[k].size
  BY EndsSumUp DEF SumsUp
<1> HIDE DEF e
<1>2. 0 \in S
  BY <1>0, <1>1
<1>3. ASSUME NEW m \in 0 .. (Len(body) - i) - 1, m \in S PROVE m + 1 \in S
  <2>1. (i + m) + 1 \in 1 .. Len(body) /\ ((i + m) + 1) - 1 = i + m /\ i + (m + 1) = (i + m) + 1
    BY <1>0
  <2>2. body[(i + m) + 1].size \in Nat
    BY <2>1, PieceSize
  <2>3. e[(i + m) + 1] = e[i + m] + body[(i + m) + 1].size
    BY <1>1, <2>1
  <2>4. e[i] \in Nat /\ e[i + m] \in Nat /\ e[i] <= e[i + m]
    <3>1. i + m \in 0 .. Len(body)
      BY <1>0
    <3>2. e[i] \in Nat /\ e[i + m] \in Nat
      BY <1>1, <3>1
    <3>3. e[i] <= e[i + m]
      BY <1>3
    <3> QED BY <3>2, <3>3
  <2>5. e[i] <= e[(i + m) + 1]
    BY <2>2, <2>3, <2>4
  <2> QED BY <1>0, <2>1, <2>5
<1> HIDE DEF S
<1>4. 0 .. Len(body) - i \subseteq S
  BY <1>0, <1>2, <1>3, UpTo
<1>5. j - i \in S /\ i + (j - i) = j
  BY <1>0, <1>4
<1> QED BY <1>5 DEF S, e

\* What is kept of the piece that ends at or beyond the cap, as in Cut.
Kept(body, max, i) ==
  IF Ends(body)[i - 1] + body[i].size <= max THEN body[i]
  ELSE [body[i] EXCEPT !.size = max - Ends(body)[i - 1],
                       !.value = IF @ = "whole" THEN "part" ELSE @]

\* The cap keeps the pieces that begin before it, and those are the first ones.
LEMMA CutKeeps ==
  ASSUME NEW body \in Seq(Piece), NEW max \in Nat
  PROVE  \E k \in 0 .. Len(body) :
           /\ Cut(body, max) = [i \in 1 .. k |-> Kept(body, max, i)]
           /\ \A i \in 1 .. k : Ends(body)[i - 1] < max
           /\ k < Len(body) => max <= Ends(body)[k]
<1>0. Len(body) \in Nat /\ DOMAIN body = 1 .. Len(body)
  BY LenProperties
<1> DEFINE e == Ends(body)
           Beyond == {i \in 1 .. Len(body) + 1 : i <= Len(body) => max <= e[i - 1]}
<1>1. e \in [0 .. Len(body) -> Nat]
  BY EndsSumUp DEF SumsUp
<1>2. Beyond \subseteq Nat /\ Beyond # {}
  <2>1. Len(body) + 1 \in Beyond
    BY <1>0
  <2> QED BY <1>0, <2>1
<1>3. PICK m \in Beyond : \A k \in Beyond : m <= k
  <2> HIDE DEF Beyond
  <2> QED BY <1>2, Least
<1>4. m - 1 \in 0 .. Len(body) /\ (m <= Len(body) => max <= e[m - 1]) /\ m \in Nat
  BY <1>0, <1>3
<1>5. ASSUME NEW i \in 1 .. m - 1 PROVE i \in DOMAIN body /\ e[i - 1] < max
  <2>1. i \in 1 .. Len(body) /\ i - 1 \in 0 .. Len(body)
    BY <1>0, <1>4
  <2>2. i \notin Beyond
    <3> HIDE DEF Beyond
    <3> QED BY <1>3, <1>4
  <2>3. max > e[i - 1]
    <3>1. e[i - 1] \in Nat
      BY <1>1, <2>1
    <3> QED BY <2>1, <2>2, <3>1
  <2> QED BY <1>0, <2>1, <2>3
<1>6. ASSUME NEW i \in DOMAIN body, e[i - 1] < max PROVE i \in 1 .. m - 1
  <2> SUFFICES ASSUME m <= i PROVE FALSE
    BY <1>0, <1>4
  <2>1. m - 1 \in 0 .. Len(body) /\ i - 1 \in m - 1 .. Len(body) /\ m <= Len(body)
    BY <1>0, <1>4
  <2>2. e[m - 1] <= e[i - 1]
    BY <2>1, EndsGrow
  <2>3. e[m - 1] \in Nat /\ e[i - 1] \in Nat /\ max <= e[m - 1]
    BY <1>0, <1>1, <1>4, <2>1
  <2> QED BY <1>6, <2>2, <2>3
<1>7. {i \in DOMAIN body : e[i - 1] < max} = 1 .. m - 1
  <2> HIDE DEF e
  <2> QED BY <1>5, <1>6
<1>8. Cut(body, max) = [i \in 1 .. m - 1 |-> Kept(body, max, i)]
  BY <1>7 DEF Cut, Kept
<1>9. m - 1 < Len(body) => max <= e[m - 1]
  BY <1>0, <1>4
<1> QED BY <1>4, <1>5, <1>8, <1>9

\* A body that was cut is a body, and no larger than the cap.
LEMMA CutFits ==
  ASSUME NEW body \in Seq(Piece), NEW max \in Nat
  PROVE  Cut(body, max) \in Seq(Piece) /\ Size(Cut(body, max)) <= max
<1>0. Len(body) \in Nat
  BY LenProperties
<1> DEFINE e == Ends(body)
           c == Cut(body, max)
<1>1. e \in [0 .. Len(body) -> Nat] /\ e[0] = 0
      /\ \A i \in 1 .. Len(body) : e[i] = e[i - 1] + body[i].size
  BY EndsSumUp DEF SumsUp
<1>2. PICK k \in 0 .. Len(body) :
        /\ c = [i \in 1 .. k |-> Kept(body, max, i)]
        /\ \A i \in 1 .. k : e[i - 1] < max
  BY CutKeeps
<1> HIDE DEF e, c
<1>3. ASSUME NEW i \in 1 .. k
      PROVE  /\ Kept(body, max, i) \in Piece
             /\ e[i - 1] \in Nat /\ e[i] \in Nat /\ e[i] = e[i - 1] + body[i].size /\ e[i - 1] < max
             /\ Kept(body, max, i).size = IF e[i] <= max THEN body[i].size ELSE max - e[i - 1]
  <2>1. i \in 1 .. Len(body) /\ i \in 0 .. Len(body) /\ i - 1 \in 0 .. Len(body)
    BY <1>0
  <2>2. /\ e[i - 1] \in Nat /\ e[i] \in Nat /\ e[i] = e[i - 1] + body[i].size /\ e[i - 1] < max
    BY <1>1, <1>2, <2>1
  <2>3. body[i] \in Piece
    BY <2>1, PieceSize
  <2>4. CASE e[i] <= max
    BY <2>2, <2>3, <2>4 DEF Kept, e
  <2>5. CASE ~(e[i] <= max)
    <3>1. Kept(body, max, i) = [body[i] EXCEPT !.size = max - e[i - 1],
                                               !.value = IF @ = "whole" THEN "part" ELSE @]
      BY <2>2, <2>5 DEF Kept, e
    <3>2. max - e[i - 1] \in Nat
      BY <2>2
    <3> QED BY <2>2, <2>3, <2>5, <3>1, <3>2 DEF Piece
  <2> QED BY <2>4, <2>5
<1>4. c \in Seq(Piece) /\ Len(c) = k /\ \A i \in 1 .. k : c[i] = Kept(body, max, i)
  <2>1. \A i \in 1 .. k : Kept(body, max, i) \in Piece
    BY <1>3
  <2>2. c \in [1 .. k -> Piece] /\ k \in Nat
    BY <1>0, <1>2, <2>1
  <2>3. c \in Seq(Piece)
    BY <2>2, SeqDef
  <2> QED BY <1>2, <2>2, <2>3, LenProperties
<1> DEFINE ec == Ends(c)
<1>5. ec \in [0 .. k -> Nat] /\ ec[0] = 0
      /\ \A i \in 1 .. k : ec[i] = ec[i - 1] + c[i].size
  BY <1>4, EndsSumUp DEF SumsUp
<1> HIDE DEF ec
<1> DEFINE S == {i \in 0 .. k : ec[i] = IF e[i] <= max THEN e[i] ELSE max}
<1>6. 0 \in S
  BY <1>0, <1>1, <1>5
<1>7. ASSUME NEW m \in 0 .. k - 1, m \in S PROVE m + 1 \in S
  <2>1. m + 1 \in 1 .. k /\ (m + 1) - 1 = m
    BY <1>0
  <2> DEFINE i == m + 1
  <2>2. /\ e[m] \in Nat /\ e[i] \in Nat /\ e[i] = e[m] + body[i].size /\ e[m] < max
        /\ c[i].size = IF e[i] <= max THEN body[i].size ELSE max - e[m]
    BY <1>3, <1>4, <2>1
  <2>3. ec[m] = e[m]
    BY <1>7, <2>2
  <2>4. ec[i] = e[m] + c[i].size
    BY <1>5, <2>1, <2>3
  <2>5. ec[i] = IF e[i] <= max THEN e[i] ELSE max
    <3> HIDE DEF i
    <3> QED BY <2>2, <2>4
  <2> QED BY <1>0, <2>1, <2>5
<1> HIDE DEF S
<1>8. 0 .. k \subseteq S
  BY <1>0, <1>6, <1>7, UpTo
<1>9. ec[k] = IF e[k] <= max THEN e[k] ELSE max
  BY <1>0, <1>8 DEF S
<1>10. ec[k] <= max
  BY <1>1, <1>9
<1> QED BY <1>4, <1>10 DEF Size, c, ec

-----------------------------------------------------------------------------
(* What ingest exposes *)

Arriving == [field : STRING, size : Nat, value : {"whole", "part", "nested"}]

\* A value of a field to be scrubbed is unredacted only where it came in part, or
\* as an object or array.
Covered(body, came) ==
  \A i \in DOMAIN body :
    body[i].field \in ScrubFields =>
      body[i].value = "redacted" \/ came[i].value \in {"part", "nested"}

\* The scrubber leaves no value that it can read.
LEMMA ScrubbedIsCovered ==
  ASSUME NEW body \in Seq(Arriving)
  PROVE  ScrubBody(body) \in Seq(Piece) /\ Covered(ScrubBody(body), body)
<1>1. DOMAIN body = 1 .. Len(body) /\ Len(body) \in Nat
  BY LenProperties
<1>2. \A i \in 1 .. Len(body) : body[i] \in Arriving
  BY ElementOfSeq
<1>3. \A i \in 1 .. Len(body) :
        /\ ScrubBody(body)[i] \in Piece
        /\ ScrubBody(body)[i].field \in ScrubFields =>
             ScrubBody(body)[i].value = "redacted" \/ body[i].value \in {"part", "nested"}
  BY <1>1, <1>2 DEF ScrubBody, Redacted, Arriving, Piece
<1>4. ScrubBody(body) \in [1 .. Len(body) -> Piece]
  <2>1. /\ DOMAIN ScrubBody(body) = 1 .. Len(body)
        /\ ScrubBody(body) = [i \in DOMAIN ScrubBody(body) |-> ScrubBody(body)[i]]
    BY <1>1 DEF ScrubBody
  <2> QED BY <1>3, <2>1
<1>5. ScrubBody(body) \in Seq(Piece)
  BY <1>1, <1>4, SeqDef
<1>6. Covered(ScrubBody(body), body)
  BY <1>3, <1>4 DEF Covered
<1> QED BY <1>5, <1>6

\* The cap keeps each piece in its place, and makes no value of a redacted one.
LEMMA CutCovered ==
  ASSUME NEW body \in Seq(Piece), NEW came, NEW max \in Nat, Covered(body, came)
  PROVE  Covered(Cut(body, max), came)
<1>1. Len(body) \in Nat /\ DOMAIN body = 1 .. Len(body)
  BY LenProperties
<1>2. PICK k \in 0 .. Len(body) : Cut(body, max) = [i \in 1 .. k |-> Kept(body, max, i)]
  BY CutKeeps
<1>3. ASSUME NEW i \in 1 .. k, Kept(body, max, i).field \in ScrubFields
      PROVE  Kept(body, max, i).value = "redacted" \/ came[i].value \in {"part", "nested"}
  <2>1. i \in 1 .. Len(body)
    BY <1>1
  <2>2. body[i] \in Piece
    BY <2>1, PieceSize
  <2>3. Kept(body, max, i).field = body[i].field
        /\ (body[i].value = "redacted" => Kept(body, max, i).value = "redacted")
    BY <2>2 DEF Kept, Piece
  <2> QED BY <1>1, <1>3, <2>1, <2>3 DEF Covered
<1> QED BY <1>2, <1>3 DEF Covered

\* Scrubbed and then cut, a body exposes nothing but what the scrubber could not
\* read, and is no larger than the cap.
LEMMA CleanedIsCovered ==
  ASSUME NEW body \in Seq(Arriving)
  PROVE  Covered(Cleaned(body), body) /\ Size(Cleaned(body)) <= MaxBodyBytes
<1> DEFINE scrubbed == ScrubBody(body)
<1>1. scrubbed \in Seq(Piece) /\ Covered(scrubbed, body)
  BY ScrubbedIsCovered
<1>2. MaxBodyBytes \in Nat
  BY ServerAssumption DEF ServerAssumption
<1>3. Size(scrubbed) \in Nat
  BY <1>1, EndsSumUp, LenProperties DEF SumsUp, Size
<1> HIDE DEF scrubbed
<1>4. CASE Size(scrubbed) > MaxBodyBytes
  BY <1>1, <1>2, <1>4, CutCovered, CutFits DEF Cleaned, Limit, scrubbed
<1>5. CASE Size(scrubbed) <= MaxBodyBytes
  BY <1>1, <1>2, <1>3, <1>5 DEF Cleaned, Limit, scrubbed
<1> QED BY <1>2, <1>3, <1>4, <1>5

\* What the tee has cut is a body like those that arrive.
LEMMA LimitArrives ==
  ASSUME NEW body \in Seq(Arriving)
  PROVE  Limit(body) \in Seq(Arriving)
<1>1. MaxBodyBytes \in Nat
  BY ServerAssumption DEF ServerAssumption
<1>2. Arriving \subseteq Piece
  BY DEF Arriving, Piece
<1>3. body \in Seq(Piece) /\ Len(body) \in Nat
  BY <1>2, LenProperties, SeqDef
<1> DEFINE c == Cut(body, MaxBodyBytes)
<1>4. c \in Seq(Piece)
  BY <1>1, <1>3, CutFits
<1>5. PICK k \in 0 .. Len(body) : c = [i \in 1 .. k |-> Kept(body, MaxBodyBytes, i)]
  BY <1>1, <1>3, CutKeeps
<1>6. \A i \in 1 .. k : c[i] \in Piece
  <2>1. DOMAIN c = 1 .. k /\ k \in Nat
    BY <1>3, <1>5
  <2>2. Len(c) = k
    BY <1>4, <2>1, LenProperties
  <2> QED BY <1>4, <2>2, ElementOfSeq
<1>7. \A i \in 1 .. k : c[i] \in Arriving
  <2> SUFFICES ASSUME NEW i \in 1 .. k PROVE c[i] \in Arriving
    OBVIOUS
  <2>1. c[i] \in Piece /\ c[i] = Kept(body, MaxBodyBytes, i)
    BY <1>5, <1>6
  <2>2. body[i] \in Arriving
    BY <1>3, ElementOfSeq
  <2>3. Kept(body, MaxBodyBytes, i).value # "redacted"
    BY <2>2 DEF Kept, Arriving
  <2> QED BY <2>1, <2>3 DEF Piece, Arriving
<1> HIDE DEF c
<1>8. c \in [1 .. k -> Arriving] /\ k \in Nat
  BY <1>3, <1>5, <1>7
<1>9. c \in Seq(Arriving)
  BY <1>8, SeqDef
<1> QED BY <1>9 DEF Limit, c

\* Whatever comes to ingest, over the wire or from the tee, a value of a field to
\* be scrubbed that comes whole never enters the buffer, nor does a part of it
\* that the cap has cut; no credential does, and no body beyond the cap.
THEOREM SecretsStayOut == ServerSpec => []IngestExposesNothing
<1>1. ServerInv => IngestExposesNothing
  <2> SUFFICES ASSUME ServerInv, NEW r \in Offered
               PROVE  /\ \A body \in {"req", "res"} :
                           /\ Covered(Ingested(r)[body], Ingested(r).from[body])
                           /\ Size(Ingested(r)[body]) <= MaxBodyBytes
                      /\ \A name \in DOMAIN Ingested(r).headers :
                           name \in Credentials \union ScrubFields
                             => Ingested(r).headers[name] = "redacted"
    BY DEF ServerInv, StoreOK, IngestExposesNothing, Covered
  <2>1. r.req \in Seq(Arriving) /\ r.res \in Seq(Arriving)
    <3>1. CASE r \in Requests /\ r.kind = "capture"
      BY <3>1, ServerAssumption DEF ServerAssumption, Arriving
    <3>2. ASSUME NEW p \in Proxied, r = Observed(p) PROVE r.req \in Seq(Arriving) /\ r.res \in Seq(Arriving)
      <4>1. p.req \in Seq(Arriving) /\ p.res \in Seq(Arriving)
        BY ServerAssumption DEF ServerAssumption, Arriving
      <4>2. r.req = p.req /\ r.res = Limit(p.res)
        BY <3>2 DEF Observed
      <4> QED BY <4>1, <4>2, LimitArrives
    <3> QED BY <3>1, <3>2 DEF Offered
  <2>2. /\ Covered(Cleaned(r.req), r.req) /\ Size(Cleaned(r.req)) <= MaxBodyBytes
        /\ Covered(Cleaned(r.res), r.res) /\ Size(Cleaned(r.res)) <= MaxBodyBytes
    BY <2>1, CleanedIsCovered
  <2>3. /\ Ingested(r).req = Cleaned(r.req) /\ Ingested(r).res = Cleaned(r.res)
        /\ Ingested(r).from = r
        /\ \A name \in DOMAIN Ingested(r).headers : Ingested(r).headers[name] = ScrubHeader(name)
    BY DEF Ingested
  <2> QED BY <2>2, <2>3 DEF ScrubHeader
<1> QED BY <1>1, ServerInvariant, PTL
=============================================================================
