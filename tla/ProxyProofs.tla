----------------------------- MODULE ProxyProofs ----------------------------
(***************************************************************************)
(* Theorems about proxy mode, for any number of requests, any capacity of  *)
(* the channel of slots, and whatever client, primary, shadow and kill     *)
(* switch do.  A step changes one request, one shadow goroutine or both;   *)
(* the invariant has a part for each request alone, one for the            *)
(* correlation ids of all of them, and one for what was reported.          *)
(***************************************************************************)
EXTENDS Proxy, TLAPS, FiniteSetTheorems

PCs == {"unsent", "mirror", "slot", "body", "forward", "answered", "closing", "served"}
Tees == {"none", "open", "spent"}
Shadows == {"none", "started", "answered", "ingested", "done"}

Req == [pc : PCs, read : BOOLEAN, body : Bodies, upgrade : BOOLEAN, correl : Nat,
        tee : Tees, status : {"none", "ok", "switched", "badgateway"}]

\* What belongs together in one request: before the body is there, no id and no
\* shadow; after it, an id and a shadow or neither; a capture to come, or gone,
\* of mirrored requests only; and a shadow of small reads only.
Local(q, shadow) ==
  /\ q.pc \in {"unsent", "mirror", "slot", "body", "forward"} => q.tee = "none"
  /\ q.pc \in {"unsent", "mirror", "slot"} => q.correl = 0
  /\ q.pc = "body" => q.correl # 0
  /\ q.pc \in {"unsent", "mirror", "slot", "body"} => shadow = "none"
  /\ q.pc \in {"forward", "answered", "closing", "served"} /\ q.correl # 0 => shadow # "none"
  /\ shadow # "none" => q.correl # 0 /\ q.body = "small"
  /\ q.tee # "none" => q.correl # 0
  /\ q.pc \in {"slot", "body"} \/ shadow # "none" => (ReadsOnly => q.read)

AllLocal == \A r \in Requests : Local(reqs[r], shadows[r])

\* Correlation ids are handed out once.
IdsUnique ==
  /\ \A r \in Requests : reqs[r].correl <= n
  /\ \A r, s \in Requests : r # s /\ reqs[r].correl # 0 => reqs[r].correl # reqs[s].correl

\* The request whose side a report is: it has been handed over.
Handed(report, r) ==
  /\ reqs[r].correl # 0 /\ reqs[r].correl = report[2]
  /\ \/ report[1] = "primary" /\ reqs[r].tee = "spent"
     \/ report[1] = "shadow" /\ shadows[r] \in {"ingested", "done"}

ReportsOK ==
  /\ IsInjective(reports)
  /\ \A m \in DOMAIN reports : \E r \in Requests : Handed(reports[m], r)

IInv == TypeOK /\ SlotsConserved /\ AllLocal /\ IdsUnique /\ ReportsOK

-----------------------------------------------------------------------------
(* What the actions do to a request *)

\* A request comes to `pc` with this id and this tee, and nothing else of it, nor
\* any other request, changes.
Changes(r, pc, correl, tee) ==
  /\ reqs' \in [Requests -> Req]
  /\ reqs'[r].pc = pc /\ reqs'[r].correl = correl /\ reqs'[r].tee = tee
  /\ reqs'[r].read = reqs[r].read /\ reqs'[r].body = reqs[r].body
  /\ \A s \in Requests : s # r => reqs'[s] = reqs[s]

\* One record takes another's place.
LEMMA Becomes ==
  ASSUME reqs \in [Requests -> Req], NEW r \in Requests, NEW q \in Req,
         reqs' = [reqs EXCEPT ![r] = q]
  PROVE  /\ reqs' \in [Requests -> Req]
         /\ reqs'[r] = q
         /\ \A s \in Requests : s # r => reqs'[s] = reqs[s]
OBVIOUS

\* Goto changes the place only.
LEMMA GotoChanges ==
  ASSUME reqs \in [Requests -> Req], NEW r \in Requests, NEW pc \in PCs, Goto(r, pc)
  PROVE  Changes(r, pc, reqs[r].correl, reqs[r].tee)
<1> DEFINE q == [reqs[r] EXCEPT !.pc = pc]
<1>1. /\ q \in Req /\ q.pc = pc /\ q.correl = reqs[r].correl /\ q.tee = reqs[r].tee
      /\ q.read = reqs[r].read /\ q.body = reqs[r].body
  BY DEF Req
<1>2. reqs' = [reqs EXCEPT ![r] = q]
  BY DEF Goto
<1> HIDE DEF q
<1> QED BY <1>1, <1>2, Becomes DEF Changes

\* A slot comes with an id.
LEMMA TakeSlotChanges ==
  ASSUME reqs \in [Requests -> Req], n \in Nat, NEW r \in Requests, TakeSlot(r)
  PROVE  Changes(r, "body", n + 1, reqs[r].tee)
<1> DEFINE id == n + 1
           q == [reqs[r] EXCEPT !.pc = "body", !.correl = id]
<1>1. id \in Nat
  OBVIOUS
<1>2. reqs' = [reqs EXCEPT ![r] = q]
  BY DEF TakeSlot
<1> HIDE DEF id
<1>3. /\ q \in Req /\ q.pc = "body" /\ q.correl = id /\ q.tee = reqs[r].tee
      /\ q.read = reqs[r].read /\ q.body = reqs[r].body
  BY <1>1 DEF Req, PCs
<1> HIDE DEF q
<1>4. Changes(r, "body", id, reqs[r].tee)
  BY <1>2, <1>3, Becomes DEF Changes
<1> QED BY <1>4 DEF id

\* Bailing out takes the id away.
LEMMA BailChanges ==
  ASSUME reqs \in [Requests -> Req], NEW r \in Requests, Bail(r)
  PROVE  Changes(r, "forward", 0, reqs[r].tee)
<1> DEFINE q == [reqs[r] EXCEPT !.pc = "forward", !.correl = 0]
<1>1. /\ q \in Req /\ q.pc = "forward" /\ q.correl = 0 /\ q.tee = reqs[r].tee
      /\ q.read = reqs[r].read /\ q.body = reqs[r].body
  BY DEF Req, PCs
<1>2. reqs' = [reqs EXCEPT ![r] = q]
  BY DEF Bail
<1> HIDE DEF q
<1> QED BY <1>1, <1>2, Becomes DEF Changes

\* The primary's answer opens the tee of a mirrored request.
LEMMA PrimaryAnswersChanges ==
  ASSUME reqs \in [Requests -> Req], NEW r \in Requests, PrimaryAnswers(r)
  PROVE  Changes(r, "answered", reqs[r].correl, IF reqs[r].correl # 0 THEN "open" ELSE "none")
<1> DEFINE tee == IF reqs[r].correl # 0 THEN "open" ELSE "none"
           q == [reqs[r] EXCEPT !.pc = "answered", !.tee = tee]
<1>1. tee \in Tees
  BY DEF Tees
<1>2. reqs' = [reqs EXCEPT ![r] = q]
  BY DEF PrimaryAnswers
<1> HIDE DEF tee
<1>3. /\ q \in Req /\ q.pc = "answered" /\ q.correl = reqs[r].correl /\ q.tee = tee
      /\ q.read = reqs[r].read /\ q.body = reqs[r].body
  BY <1>1 DEF Req, PCs
<1> HIDE DEF q
<1>4. Changes(r, "answered", reqs[r].correl, tee)
  BY <1>2, <1>3, Becomes DEF Changes
<1> QED BY <1>4 DEF tee

\* However a request is served, its id and its tee stay.
LEMMA ServedChanges ==
  ASSUME reqs \in [Requests -> Req], NEW r \in Requests, PrimaryFails(r) \/ Upgrade(r)
  PROVE  Changes(r, "served", reqs[r].correl, reqs[r].tee)
<1> SUFFICES ASSUME NEW status \in {"switched", "badgateway"},
                    reqs' = [reqs EXCEPT ![r].pc = "served", ![r].status = status]
             PROVE  Changes(r, "served", reqs[r].correl, reqs[r].tee)
  BY DEF PrimaryFails, Upgrade
<1> DEFINE q == [reqs[r] EXCEPT !.pc = "served", !.status = status]
<1>1. /\ q \in Req /\ q.pc = "served" /\ q.correl = reqs[r].correl /\ q.tee = reqs[r].tee
      /\ q.read = reqs[r].read /\ q.body = reqs[r].body
  BY DEF Req, PCs
<1>2. reqs' = [reqs EXCEPT ![r] = q]
  OBVIOUS
<1> HIDE DEF q
<1> QED BY <1>1, <1>2, Becomes DEF Changes

\* Close spends the tee.
LEMMA CloseChanges ==
  ASSUME reqs \in [Requests -> Req], NEW r \in Requests, Close(r)
  PROVE  \E pc \in {"closing", "served"} : Changes(r, pc, reqs[r].correl, Spent(r))
<1>1. PICK pc \in {"closing", "served"} :
        reqs' = [reqs EXCEPT ![r].pc = pc, ![r].tee = Spent(r),
                             ![r].status = IF pc = "served" THEN "ok" ELSE "none"]
  BY DEF Close
<1> DEFINE status == IF pc = "served" THEN "ok" ELSE "none"
           tee == Spent(r)
           q == [reqs[r] EXCEPT !.pc = pc, !.tee = tee, !.status = status]
<1>2. status \in {"ok", "none"} /\ tee \in Tees
  BY DEF Spent, Req, Tees
<1>3. reqs' = [reqs EXCEPT ![r] = q]
  BY <1>1
<1> HIDE DEF status, tee
<1>4. /\ q \in Req /\ q.pc = pc /\ q.correl = reqs[r].correl /\ q.tee = tee
      /\ q.read = reqs[r].read /\ q.body = reqs[r].body
  BY <1>2 DEF Req, PCs
<1> HIDE DEF q
<1>5. Changes(r, pc, reqs[r].correl, tee)
  BY <1>3, <1>4, Becomes DEF Changes
<1> QED BY <1>5 DEF tee

\* A request that arrives has neither id nor tee.
LEMMA ArriveChanges ==
  ASSUME reqs \in [Requests -> Req], NEW r \in Requests, NEW read \in BOOLEAN,
         NEW body \in Bodies, NEW upgrade \in BOOLEAN, Arrive(r, read, body, upgrade)
  PROVE  /\ reqs' \in [Requests -> Req]
         /\ reqs'[r].pc = "mirror" /\ reqs'[r].correl = 0 /\ reqs'[r].tee = "none"
         /\ \A s \in Requests : s # r => reqs'[s] = reqs[s]
<1> DEFINE q == [NotSent EXCEPT !.pc = "mirror", !.read = read, !.body = body,
                                !.upgrade = upgrade]
<1>1. q \in Req /\ q.pc = "mirror" /\ q.correl = 0 /\ q.tee = "none"
  BY DEF NotSent, Req, PCs, Tees
<1>2. reqs' = [reqs EXCEPT ![r] = q]
  BY DEF Arrive
<1> HIDE DEF q
<1> QED BY <1>1, <1>2, Becomes

-----------------------------------------------------------------------------
(* Steps by what they do to the rest *)

\* Only the place and the tee of one request: the primary's side of it.
Quiet(r, pc, tee) == Changes(r, pc, reqs[r].correl, tee) /\ UNCHANGED <<slots, n, shadows>>

\* The decision, the primary and the copy of its body leave slots, ids and shadow
\* goroutines alone.
LEMMA QuietSteps ==
  ASSUME reqs \in [Requests -> Req], NEW r \in Requests
  PROVE  /\ NotMirrored(r) \/ SkipFull(r) => Quiet(r, "forward", reqs[r].tee)
         /\ Chosen(r) => Quiet(r, "slot", reqs[r].tee)
         /\ PrimaryAnswers(r) =>
              Quiet(r, "answered", IF reqs[r].correl # 0 THEN "open" ELSE "none")
         /\ PrimaryFails(r) \/ Upgrade(r) => Quiet(r, "served", reqs[r].tee)
         /\ CopyBody(r) => Quiet(r, "closing", reqs[r].tee)
         /\ Close(r) => \E pc \in {"closing", "served"} : Quiet(r, pc, Spent(r))
<1>1. NotMirrored(r) \/ SkipFull(r) => Quiet(r, "forward", reqs[r].tee)
  BY GotoChanges DEF NotMirrored, SkipFull, PCs, Quiet
<1>2. Chosen(r) => Quiet(r, "slot", reqs[r].tee)
  BY GotoChanges DEF Chosen, PCs, Quiet
<1>3. PrimaryAnswers(r) =>
        Quiet(r, "answered", IF reqs[r].correl # 0 THEN "open" ELSE "none")
  BY PrimaryAnswersChanges DEF PrimaryAnswers, Quiet
<1>4. PrimaryFails(r) \/ Upgrade(r) => Quiet(r, "served", reqs[r].tee)
  BY ServedChanges DEF PrimaryFails, Upgrade, Quiet
<1>5. CopyBody(r) => Quiet(r, "closing", reqs[r].tee)
  BY GotoChanges DEF CopyBody, PCs, Quiet
<1>6. Close(r) => \E pc \in {"closing", "served"} : Quiet(r, pc, Spent(r))
  BY CloseChanges DEF Close, Quiet
<1> QED BY <1>1, <1>2, <1>3, <1>4, <1>5, <1>6

\* What the types say of the variables, request by request.
LEMMA Types ==
  TypeOK <=> /\ killed \in BOOLEAN /\ slots \in 0 .. Inflight /\ n \in Nat /\ skipped \in Nat
             /\ reqs \in [Requests -> Req] /\ shadows \in [Requests -> Shadows]
             /\ reports \in Seq({"primary", "shadow"} \X Nat)
BY DEF TypeOK, Req, PCs, Tees, Shadows

-----------------------------------------------------------------------------
(* Slots *)

\* How many read and how many are mirrored are numbers.
LEMMA Counts ==
  /\ IsFiniteSet(Reading) /\ IsFiniteSet(Mirroring)
  /\ Cardinality(Reading) \in Nat /\ Cardinality(Mirroring) \in Nat
<1>1. Reading \subseteq Requests /\ Mirroring \subseteq Requests
  BY DEF Reading, Mirroring
<1>2. IsFiniteSet(Requests)
  BY ProxyAssumption DEF ProxyAssumption
<1> QED BY <1>1, <1>2, FS_Subset, FS_CardinalityType

\* Someone who holds a slot is counted among them.
LEMMA HolderCounts ==
  ASSUME SlotsConserved, NEW r \in Requests, r \in Reading \/ r \in Mirroring
  PROVE  slots >= 1
<1>1. Cardinality(Reading) \in Nat /\ Cardinality(Mirroring) \in Nat
  BY Counts
<1>2. Cardinality(Reading) # 0 \/ Cardinality(Mirroring) # 0
  BY Counts, FS_EmptySet
<1> DEFINE a == Cardinality(Reading)  b == Cardinality(Mirroring)
<1>3. slots = a + b /\ a \in Nat /\ b \in Nat /\ (a # 0 \/ b # 0)
  BY <1>1, <1>2 DEF SlotsConserved
<1> HIDE DEF a, b
<1> QED BY <1>3

\* Who comes and who goes is counted.
LEMMA SlotsMove ==
  ASSUME SlotsConserved, NEW r \in Requests,
         \/ /\ r \notin Reading /\ Reading' = Reading \union {r} /\ Mirroring' = Mirroring
            /\ slots' = slots + 1
         \/ /\ r \in Reading /\ Reading' = Reading \ {r} /\ Mirroring' = Mirroring
            /\ slots' = slots - 1
         \/ /\ r \in Mirroring /\ Mirroring' = Mirroring \ {r} /\ Reading' = Reading
            /\ slots' = slots - 1
         \/ /\ r \in Reading /\ Reading' = Reading \ {r}
            /\ r \notin Mirroring /\ Mirroring' = Mirroring \union {r}
            /\ slots' = slots
         \/ Reading' = Reading /\ Mirroring' = Mirroring /\ slots' = slots
  PROVE  SlotsConserved'
<1> DEFINE a == Cardinality(Reading)    b == Cardinality(Mirroring)
           a1 == Cardinality(Reading')  b1 == Cardinality(Mirroring')
<1>1. slots = a + b /\ a \in Nat /\ b \in Nat
  BY Counts DEF SlotsConserved
<1>2. r \notin Reading /\ Reading' = Reading \union {r} => a1 = a + 1
  BY Counts, FS_AddElement
<1>3. r \in Reading /\ Reading' = Reading \ {r} => a1 = a - 1
  BY Counts, FS_RemoveElement
<1>4. r \in Mirroring /\ Mirroring' = Mirroring \ {r} => b1 = b - 1
  BY Counts, FS_RemoveElement
<1>5. r \notin Mirroring /\ Mirroring' = Mirroring \union {r} => b1 = b + 1
  BY Counts, FS_AddElement
<1>6. (Reading' = Reading => a1 = a) /\ (Mirroring' = Mirroring => b1 = b)
  OBVIOUS
<1> HIDE DEF a, b, a1, b1
<1>7. slots' = a1 + b1
  BY <1>1, <1>2, <1>3, <1>4, <1>5, <1>6
<1> QED BY <1>7 DEF SlotsConserved, a1, b1

\* Away from the reading of bodies, a request's place does not matter to slots.
LEMMA QuietSlots ==
  ASSUME reqs \in [Requests -> Req], SlotsConserved, NEW r \in Requests, ~At(r, "body"),
         NEW pc, pc # "body", NEW tee, Quiet(r, pc, tee)
  PROVE  SlotsConserved' /\ slots' = slots
<1>1. Reading' = Reading
  BY DEF Quiet, Changes, Reading, At
<1>2. Mirroring' = Mirroring /\ slots' = slots
  BY DEF Quiet, Mirroring
<1> QED BY <1>1, <1>2, SlotsMove

\* A shadow goroutine that ends gives its slot back, by whichever path it ends;
\* one that goes on keeps it.
LEMMA ShadowSlots ==
  ASSUME shadows \in [Requests -> Shadows], SlotsConserved, NEW r \in Requests, ShadowStep(r)
  PROVE  SlotsConserved' /\ (slots' = slots \/ (slots' = slots - 1 /\ r \in Mirroring))
<1>1. Reading' = Reading
  BY DEF ShadowStep, ShadowFails, ShadowAnswers, ShadowReports, ShadowReleases, Reading, At
<1>2. ASSUME ShadowFails(r) \/ ShadowReleases(r)
      PROVE  SlotsConserved' /\ slots' = slots - 1 /\ r \in Mirroring
  <2>1. r \in Mirroring /\ Mirroring' = Mirroring \ {r} /\ slots' = slots - 1
    BY <1>2 DEF ShadowFails, ShadowReleases, Mirroring, Shadows
  <2>2. SlotsConserved'
    BY <1>1, <2>1, SlotsMove
  <2> QED BY <2>1, <2>2
<1>3. ASSUME ShadowAnswers(r) \/ ShadowReports(r) PROVE SlotsConserved' /\ slots' = slots
  <2>1. Mirroring' = Mirroring /\ slots' = slots
    BY <1>3 DEF ShadowAnswers, ShadowReports, Mirroring, Shadows
  <2>2. SlotsConserved'
    BY <1>1, <2>1, SlotsMove
  <2> QED BY <2>1, <2>2
<1> QED BY <1>2, <1>3 DEF ShadowStep

\* Every step conserves the slots, and the channel stays within its capacity.
LEMMA SlotsStep == IInv /\ [Next]_vars => SlotsConserved' /\ slots' \in 0 .. Inflight
<1> SUFFICES ASSUME IInv, [Next]_vars PROVE SlotsConserved' /\ slots' \in 0 .. Inflight
  OBVIOUS
<1>0. /\ reqs \in [Requests -> Req] /\ shadows \in [Requests -> Shadows]
      /\ slots \in 0 .. Inflight /\ n \in Nat /\ Inflight \in Nat
      /\ SlotsConserved /\ AllLocal
  BY Types, ProxyAssumption DEF IInv, ProxyAssumption
<1>1. ASSUME NEW r \in Requests, NEW read \in BOOLEAN, NEW body \in Bodies,
             NEW upgrade \in BOOLEAN, Arrive(r, read, body, upgrade)
      PROVE  SlotsConserved' /\ slots' \in 0 .. Inflight
  <2>1. At(r, "unsent") /\ slots' = slots /\ shadows' = shadows
    BY <1>1 DEF Arrive
  <2>2. reqs'[r].pc = "mirror" /\ \A s \in Requests : s # r => reqs'[s] = reqs[s]
    BY <1>0, <1>1, ArriveChanges
  <2>3. Reading' = Reading /\ Mirroring' = Mirroring
    BY <2>1, <2>2 DEF Reading, Mirroring, At
  <2> QED BY <1>0, <2>1, <2>3, SlotsMove
<1>2. ASSUME NEW r \in Requests,
             \/ NotMirrored(r) \/ SkipFull(r) \/ Chosen(r) \/ PrimaryStep(r) \/ Close(r)
      PROVE  SlotsConserved' /\ slots' \in 0 .. Inflight
  <2>1. ~At(r, "body")
    BY <1>2 DEF NotMirrored, SkipFull, Chosen, PrimaryStep, PrimaryAnswers, PrimaryFails,
                CopyBody, Upgrade, Close, MayForward, At
  <2>2. \E pc \in PCs \ {"body"}, tee \in Tees \union {reqs[r].tee, Spent(r)} : Quiet(r, pc, tee)
    BY <1>0, <1>2, QuietSteps DEF PrimaryStep, PCs, Tees
  <2>3. SlotsConserved' /\ slots' = slots
    BY <1>0, <2>1, <2>2, QuietSlots
  <2> QED BY <1>0, <2>3
<1>3. ASSUME NEW r \in Requests, TakeSlot(r) PROVE SlotsConserved' /\ slots' \in 0 .. Inflight
  <2>1. At(r, "slot") /\ slots < Inflight /\ slots' = slots + 1 /\ shadows' = shadows
    BY <1>3 DEF TakeSlot
  <2>2. reqs'[r].pc = "body" /\ \A s \in Requests : s # r => reqs'[s] = reqs[s]
    BY <1>0, <1>3, TakeSlotChanges DEF Changes
  <2>3. r \notin Reading /\ Reading' = Reading \union {r} /\ Mirroring' = Mirroring
    BY <2>1, <2>2 DEF Reading, Mirroring, At
  <2>4. SlotsConserved'
    BY <1>0, <2>1, <2>3, SlotsMove
  <2> QED BY <1>0, <2>1, <2>4
<1>4. ASSUME NEW r \in Requests, Bail(r) PROVE SlotsConserved' /\ slots' \in 0 .. Inflight
  <2>1. At(r, "body") /\ slots' = slots - 1 /\ shadows' = shadows
    BY <1>4 DEF Bail
  <2>2. reqs'[r].pc = "forward" /\ \A s \in Requests : s # r => reqs'[s] = reqs[s]
    BY <1>0, <1>4, BailChanges DEF Changes
  <2>3. r \in Reading /\ Reading' = Reading \ {r} /\ Mirroring' = Mirroring
    BY <2>1, <2>2 DEF Reading, Mirroring, At
  <2>4. SlotsConserved' /\ slots >= 1
    BY <1>0, <2>1, <2>3, SlotsMove, HolderCounts
  <2> QED BY <1>0, <2>1, <2>4
<1>5. ASSUME NEW r \in Requests, StartShadow(r)
      PROVE  SlotsConserved' /\ slots' \in 0 .. Inflight
  <2>1. /\ At(r, "body") /\ slots' = slots /\ Goto(r, "forward")
        /\ shadows' = [shadows EXCEPT ![r] = "started"]
    BY <1>5 DEF StartShadow
  <2>2. reqs'[r].pc = "forward" /\ \A s \in Requests : s # r => reqs'[s] = reqs[s]
    BY <1>0, <2>1, GotoChanges DEF Changes, PCs
  <2>3. shadows[r] = "none"
    BY <1>0, <2>1 DEF AllLocal, Local, At
  <2>4. r \in Reading /\ Reading' = Reading \ {r}
    BY <2>1, <2>2 DEF Reading, At
  <2>5. r \notin Mirroring /\ Mirroring' = Mirroring \union {r}
    BY <1>0, <2>1, <2>3 DEF Mirroring
  <2>6. SlotsConserved'
    BY <1>0, <2>1, <2>4, <2>5, SlotsMove
  <2> QED BY <1>0, <2>1, <2>6
<1>6. ASSUME NEW r \in Requests, ShadowStep(r) PROVE SlotsConserved' /\ slots' \in 0 .. Inflight
  <2>1. SlotsConserved' /\ (slots' = slots \/ (slots' = slots - 1 /\ slots >= 1))
    BY <1>0, <1>6, ShadowSlots, HolderCounts
  <2> QED BY <1>0, <2>1
<1>7. CASE Toggle \/ UNCHANGED vars
  <2>1. Reading' = Reading /\ Mirroring' = Mirroring /\ slots' = slots
    BY <1>7 DEF Toggle, vars, Reading, Mirroring, At
  <2>2. SlotsConserved'
    BY <1>0, <2>1 DEF SlotsConserved
  <2> QED BY <1>0, <2>1, <2>2
<1> QED
  BY <1>1, <1>2, <1>3, <1>4, <1>5, <1>6, <1>7 DEF Next, DecideStep, BodyStep

-----------------------------------------------------------------------------
(* Types, and what belongs together in a request *)

\* Every step keeps the types.
LEMMA TypeStep == IInv /\ [Next]_vars => TypeOK'
<1> SUFFICES ASSUME IInv, [Next]_vars PROVE TypeOK'
  OBVIOUS
<1>0. /\ killed \in BOOLEAN /\ n \in Nat /\ skipped \in Nat
      /\ reqs \in [Requests -> Req] /\ shadows \in [Requests -> Shadows]
      /\ reports \in Seq({"primary", "shadow"} \X Nat)
  BY Types DEF IInv
<1>1. slots' \in 0 .. Inflight
  BY SlotsStep
<1>2. reqs' \in [Requests -> Req]
  <2>1. ASSUME NEW r \in Requests, DecideStep(r) \/ BodyStep(r) \/ PrimaryStep(r) \/ Close(r)
        PROVE  reqs' \in [Requests -> Req]
    <3>1. StartShadow(r) => reqs' \in [Requests -> Req]
      BY <1>0, GotoChanges DEF StartShadow, Changes, PCs
    <3> QED
      BY <1>0, <2>1, <3>1, QuietSteps, TakeSlotChanges, BailChanges
      DEF DecideStep, BodyStep, PrimaryStep, Quiet, Changes
  <2>2. ASSUME NEW r \in Requests, ShadowStep(r) PROVE reqs' = reqs
    BY <2>2 DEF ShadowStep, ShadowFails, ShadowAnswers, ShadowReports, ShadowReleases
  <2>3. Toggle \/ UNCHANGED vars => reqs' = reqs
    BY DEF Toggle, vars
  <2> QED BY <1>0, <2>1, <2>2, <2>3, ArriveChanges DEF Next
<1>3. shadows' \in [Requests -> Shadows]
  BY <1>0 DEF Next, vars, Arrive, Toggle, DecideStep, BodyStep, PrimaryStep, Close, ShadowStep,
              NotMirrored, Chosen, TakeSlot, SkipFull, StartShadow, Bail, PrimaryAnswers,
              PrimaryFails, CopyBody, Upgrade, ShadowFails, ShadowAnswers, ShadowReports,
              ShadowReleases, Shadows
<1>4. reports' \in Seq({"primary", "shadow"} \X Nat)
  <2>1. \A r \in Requests : reqs[r].correl \in Nat
    BY <1>0 DEF Req
  <2>2. ASSUME NEW r \in Requests, Close(r) PROVE reports' \in Seq({"primary", "shadow"} \X Nat)
    <3> DEFINE e == <<"primary", reqs[r].correl>>
    <3>1. e \in {"primary", "shadow"} \X Nat
      BY <2>1
    <3>2. reports' = reports \/ reports' = Append(reports, e)
      BY <2>2 DEF Close
    <3> DEFINE T == {"primary", "shadow"} \X Nat
    <3>3. reports \in Seq(T) /\ e \in T
      BY <1>0, <3>1
    <3> HIDE DEF e, T
    <3>4. Append(reports, e) \in Seq(T)
      BY <3>3
    <3>5. reports' \in Seq(T)
      BY <3>2, <3>3, <3>4
    <3> QED BY <3>5 DEF T
  <2>4. ASSUME NEW r \in Requests, ShadowReports(r)
        PROVE  reports' \in Seq({"primary", "shadow"} \X Nat)
    <3> DEFINE e == <<"shadow", reqs[r].correl>>
    <3>1. e \in {"primary", "shadow"} \X Nat
      BY <2>1
    <3>2. reports' = Append(reports, e)
      BY <2>4 DEF ShadowReports
    <3> HIDE DEF e
    <3> QED BY <1>0, <3>1, <3>2
  <2>3. (\A r \in Requests : ~Close(r) /\ ~ShadowReports(r)) => reports' = reports
    BY DEF Next, vars, Arrive, Toggle, DecideStep, BodyStep, PrimaryStep, ShadowStep,
           NotMirrored, Chosen, TakeSlot, SkipFull, StartShadow, Bail, PrimaryAnswers,
           PrimaryFails, CopyBody, Upgrade, ShadowFails, ShadowAnswers, ShadowReleases
  <2> QED BY <1>0, <2>2, <2>3, <2>4
<1>5. killed' \in BOOLEAN
  BY <1>0 DEF Next, vars, Arrive, Toggle, DecideStep, BodyStep, PrimaryStep, Close, ShadowStep,
              NotMirrored, Chosen, TakeSlot, SkipFull, StartShadow, Bail, PrimaryAnswers,
              PrimaryFails, CopyBody, Upgrade, ShadowFails, ShadowAnswers, ShadowReports,
              ShadowReleases
<1>7. n' \in Nat
  <2>1. n' = n \/ n' = n + 1
    BY DEF Next, vars, Arrive, Toggle, DecideStep, BodyStep, PrimaryStep, Close, ShadowStep,
           NotMirrored, Chosen, TakeSlot, SkipFull, StartShadow, Bail, PrimaryAnswers,
           PrimaryFails, CopyBody, Upgrade, ShadowFails, ShadowAnswers, ShadowReports,
           ShadowReleases
  <2> QED BY <1>0, <2>1
<1>8. skipped' \in Nat
  <2>1. skipped' = skipped \/ skipped' = skipped + 1
    BY DEF Next, vars, Arrive, Toggle, DecideStep, BodyStep, PrimaryStep, Close, ShadowStep,
           NotMirrored, Chosen, TakeSlot, SkipFull, StartShadow, Bail, PrimaryAnswers,
           PrimaryFails, CopyBody, Upgrade, ShadowFails, ShadowAnswers, ShadowReports,
           ShadowReleases
  <2> QED BY <1>0, <2>1
<1>6. /\ killed' \in BOOLEAN /\ slots' \in 0 .. Inflight /\ n' \in Nat /\ skipped' \in Nat
      /\ reqs' \in [Requests -> Req] /\ shadows' \in [Requests -> Shadows]
      /\ reports' \in Seq({"primary", "shadow"} \X Nat)
  BY <1>1, <1>2, <1>3, <1>4, <1>5, <1>7, <1>8
<1> QED BY <1>6 DEF TypeOK, Req, PCs, Tees, Shadows

-----------------------------------------------------------------------------
(* What a step of one request, or of its shadow goroutine, keeps *)

\* The others are as they were; what belongs together in `r` does so afterwards;
\* its id is the one it had, none, or the next; and what was handed over stays so.
Keeps(r) ==
  /\ \A s \in Requests : s # r => reqs'[s] = reqs[s] /\ shadows'[s] = shadows[s]
  /\ Local(reqs'[r], shadows'[r])
  /\ \/ n' = n /\ reqs'[r].correl \in {reqs[r].correl, 0}
     \/ n' = n + 1 /\ reqs'[r].correl = n + 1
  /\ reqs[r].correl # 0 /\ (reqs[r].tee = "spent" \/ shadows[r] \in {"ingested", "done"})
       => reqs'[r].correl = reqs[r].correl
  /\ reqs[r].tee = "spent" => reqs'[r].tee = "spent"
  /\ shadows[r] \in {"ingested", "done"} => shadows'[r] \in {"ingested", "done"}

\* A request's own steps on the primary's side keep all that.
LEMMA QuietKeeps ==
  ASSUME IInv, NEW r \in Requests,
         NotMirrored(r) \/ SkipFull(r) \/ Chosen(r) \/ PrimaryStep(r) \/ Close(r)
  PROVE  Keeps(r)
<1>0. reqs \in [Requests -> Req] /\ shadows \in [Requests -> Shadows] /\ Local(reqs[r], shadows[r])
  BY Types DEF IInv, AllLocal
<1>1. CASE NotMirrored(r) \/ SkipFull(r)
  <2>1. reqs[r].pc \in {"mirror", "slot"} /\ Quiet(r, "forward", reqs[r].tee)
    BY <1>0, <1>1, QuietSteps DEF NotMirrored, SkipFull, At
  <2> QED BY <1>0, <2>1 DEF Quiet, Changes, Keeps, Local
<1>2. CASE Chosen(r)
  <2>1. /\ reqs[r].pc = "mirror" /\ (ReadsOnly => reqs[r].read)
        /\ Quiet(r, "slot", reqs[r].tee)
    BY <1>0, <1>2, QuietSteps DEF Chosen, Eligible, At
  <2> QED BY <1>0, <2>1 DEF Quiet, Changes, Keeps, Local
<1>3. CASE PrimaryAnswers(r)
  <2>1. /\ reqs[r].pc = "forward"
        /\ Quiet(r, "answered", IF reqs[r].correl # 0 THEN "open" ELSE "none")
    BY <1>0, <1>3, QuietSteps DEF PrimaryAnswers, MayForward, At
  <2> QED BY <1>0, <2>1 DEF Quiet, Changes, Keeps, Local
<1>4. CASE PrimaryFails(r) \/ Upgrade(r)
  <2>1. reqs[r].pc \in {"forward", "answered"} /\ Quiet(r, "served", reqs[r].tee)
    BY <1>0, <1>4, QuietSteps DEF PrimaryFails, Upgrade, MayForward, At
  <2> QED BY <1>0, <2>1 DEF Quiet, Changes, Keeps, Local
<1>5. CASE CopyBody(r)
  <2>1. reqs[r].pc = "answered" /\ Quiet(r, "closing", reqs[r].tee)
    BY <1>0, <1>5, QuietSteps DEF CopyBody, At
  <2> QED BY <1>0, <2>1 DEF Quiet, Changes, Keeps, Local
<1>6. CASE Close(r)
  <2>1. reqs[r].pc = "closing" /\ \E pc \in {"closing", "served"} : Quiet(r, pc, Spent(r))
    BY <1>0, <1>6, QuietSteps DEF Close, At
  <2> QED BY <1>0, <2>1 DEF Quiet, Changes, Keeps, Local, Spent
<1> QED BY <1>1, <1>2, <1>3, <1>4, <1>5, <1>6 DEF PrimaryStep

\* So do arriving, taking a slot and reading the body.
LEMMA BodyKeeps ==
  ASSUME IInv, NEW r \in Requests,
         \/ \E read \in BOOLEAN, body \in Bodies, upgrade \in BOOLEAN :
              Arrive(r, read, body, upgrade)
         \/ TakeSlot(r) \/ BodyStep(r)
  PROVE  Keeps(r)
<1>0. /\ reqs \in [Requests -> Req] /\ shadows \in [Requests -> Shadows] /\ n \in Nat
      /\ Local(reqs[r], shadows[r])
  BY Types DEF IInv, AllLocal
<1>1. ASSUME NEW read \in BOOLEAN, NEW body \in Bodies, NEW upgrade \in BOOLEAN,
             Arrive(r, read, body, upgrade)
      PROVE  Keeps(r)
  <2>1. /\ reqs[r].pc = "unsent" /\ n' = n /\ shadows' = shadows
        /\ reqs'[r].pc = "mirror" /\ reqs'[r].correl = 0 /\ reqs'[r].tee = "none"
        /\ \A s \in Requests : s # r => reqs'[s] = reqs[s]
    BY <1>0, <1>1, ArriveChanges DEF Arrive, At
  <2> QED BY <1>0, <2>1 DEF Keeps, Local
<1>2. CASE TakeSlot(r)
  <2>1. /\ reqs[r].pc = "slot" /\ n' = n + 1 /\ shadows' = shadows
        /\ Changes(r, "body", n + 1, reqs[r].tee)
    BY <1>0, <1>2, TakeSlotChanges DEF TakeSlot, At
  <2>2. n + 1 # 0
    BY <1>0
  <2>3. Local(reqs'[r], shadows'[r])
    BY <1>0, <2>1, <2>2 DEF Changes, Local
  <2> QED BY <1>0, <2>1, <2>3 DEF Changes, Keeps, Local
<1>3. CASE StartShadow(r)
  <2>1. /\ reqs[r].pc = "body" /\ reqs[r].body = "small" /\ n' = n
        /\ Changes(r, "forward", reqs[r].correl, reqs[r].tee)
        /\ shadows' = [shadows EXCEPT ![r] = "started"]
    BY <1>0, <1>3, GotoChanges DEF StartShadow, At, PCs
  <2>2. shadows'[r] = "started" /\ \A s \in Requests : s # r => shadows'[s] = shadows[s]
    BY <1>0, <2>1
  <2> QED BY <1>0, <2>1, <2>2 DEF Changes, Keeps, Local
<1>4. CASE Bail(r)
  <2>1. /\ reqs[r].pc = "body" /\ n' = n /\ shadows' = shadows
        /\ Changes(r, "forward", 0, reqs[r].tee)
    BY <1>0, <1>4, BailChanges DEF Bail, At
  <2> QED BY <1>0, <2>1 DEF Changes, Keeps, Local
<1> QED BY <1>1, <1>2, <1>3, <1>4 DEF BodyStep

\* And the shadow goroutine's.
LEMMA ShadowKeeps ==
  ASSUME IInv, NEW r \in Requests, ShadowStep(r)
  PROVE  Keeps(r)
<1>0. shadows \in [Requests -> Shadows] /\ Local(reqs[r], shadows[r])
  BY Types DEF IInv, AllLocal
<1>1. reqs' = reqs /\ n' = n
  BY DEF ShadowStep, ShadowFails, ShadowAnswers, ShadowReports, ShadowReleases
<1>2. PICK shadow \in Shadows \ {"none"} :
        /\ shadows[r] # "none" /\ shadows' = [shadows EXCEPT ![r] = shadow]
        /\ shadows[r] \in {"ingested", "done"} => shadow = "done"
  BY DEF ShadowStep, ShadowFails, ShadowAnswers, ShadowReports, ShadowReleases, Shadows
<1>3. shadows'[r] = shadow /\ \A s \in Requests : s # r => shadows'[s] = shadows[s]
  BY <1>0, <1>2
<1> QED BY <1>0, <1>1, <1>2, <1>3 DEF Keeps, Local

\* Every step is one request's, and keeps that; or it is the kill switch's.
LEMMA Stepwise ==
  IInv /\ [Next]_vars => UNCHANGED <<reqs, shadows, n>> \/ \E r \in Requests : Keeps(r)
<1> SUFFICES ASSUME IInv, [Next]_vars
             PROVE  UNCHANGED <<reqs, shadows, n>> \/ \E r \in Requests : Keeps(r)
  OBVIOUS
<1>1. Toggle \/ UNCHANGED vars => UNCHANGED <<reqs, shadows, n>>
  BY DEF Toggle, vars
<1>2. ASSUME NEW r \in Requests,
             \/ \E read \in BOOLEAN, body \in Bodies, upgrade \in BOOLEAN :
                  Arrive(r, read, body, upgrade)
             \/ DecideStep(r) \/ BodyStep(r) \/ PrimaryStep(r) \/ Close(r) \/ ShadowStep(r)
      PROVE  Keeps(r)
  BY <1>2, QuietKeeps, BodyKeeps, ShadowKeeps DEF DecideStep
<1> QED BY <1>1, <1>2 DEF Next

\* What belongs together stays together, and ids are handed out once.
LEMMA LocalStep == IInv /\ [Next]_vars => AllLocal' /\ IdsUnique'
<1> SUFFICES ASSUME IInv, [Next]_vars PROVE AllLocal' /\ IdsUnique'
  OBVIOUS
<1>1. CASE UNCHANGED <<reqs, shadows, n>>
  BY <1>1 DEF IInv, AllLocal, IdsUnique
<1>2. ASSUME NEW r \in Requests, Keeps(r) PROVE AllLocal' /\ IdsUnique'
  <2>1. AllLocal'
    BY <1>2 DEF IInv, AllLocal, Keeps
  <2>2. n \in Nat /\ \A s \in Requests : reqs[s].correl \in Nat
    BY Types DEF IInv, Req
  <2>3. \A s \in Requests : reqs'[s].correl <= n'
    BY <1>2, <2>2 DEF IInv, IdsUnique, Keeps
  <2>4. \A s, t \in Requests : s # t /\ reqs'[s].correl # 0 => reqs'[s].correl # reqs'[t].correl
    BY <1>2, <2>2 DEF IInv, IdsUnique, Keeps
  <2> QED BY <2>1, <2>3, <2>4 DEF IdsUnique
<1> QED BY <1>1, <1>2, Stepwise

-----------------------------------------------------------------------------
(* Reports *)

\* A request whose side was handed over stays one.
LEMMA HandedStays ==
  ASSUME IInv, [Next]_vars, NEW report, NEW s \in Requests, Handed(report, s)
  PROVE  /\ reqs'[s].correl # 0 /\ reqs'[s].correl = report[2]
         /\ \/ report[1] = "primary" /\ reqs'[s].tee = "spent"
            \/ report[1] = "shadow" /\ shadows'[s] \in {"ingested", "done"}
<1>1. CASE UNCHANGED <<reqs, shadows, n>>
  BY <1>1 DEF Handed
<1>2. ASSUME NEW r \in Requests, Keeps(r)
      PROVE  /\ reqs'[s].correl # 0 /\ reqs'[s].correl = report[2]
             /\ \/ report[1] = "primary" /\ reqs'[s].tee = "spent"
                \/ report[1] = "shadow" /\ shadows'[s] \in {"ingested", "done"}
  BY <1>2 DEF Handed, Keeps
<1> QED BY <1>1, <1>2, Stepwise

\* A report of a side not handed over before is new, and is backed by its request.
LEMMA NewReport ==
  ASSUME IInv, [Next]_vars, NEW r \in Requests, NEW side \in {"primary", "shadow"},
         reports' = Append(reports, <<side, reqs[r].correl>>),
         reqs[r].correl # 0, reqs'[r].correl = reqs[r].correl,
         \/ side = "primary" /\ reqs[r].tee = "open" /\ reqs'[r].tee = "spent"
         \/ side = "shadow" /\ shadows[r] = "answered" /\ shadows'[r] = "ingested"
  PROVE  ReportsOK'
<1> DEFINE e == <<side, reqs[r].correl>>
<1>0. reports \in Seq({"primary", "shadow"} \X Nat) /\ reports' = Append(reports, e)
  BY Types DEF IInv
<1>1. \A m \in DOMAIN reports : reports[m] # e
  <2> SUFFICES ASSUME NEW m \in DOMAIN reports, reports[m] = e PROVE FALSE
    OBVIOUS
  <2>1. PICK s \in Requests : Handed(e, s)
    BY DEF IInv, ReportsOK
  <2>2. reqs[s].correl = reqs[r].correl /\ ((e[1] = "primary" /\ reqs[s].tee = "spent")
                             \/ (e[1] = "shadow" /\ shadows[s] \in {"ingested", "done"}))
    BY <2>1 DEF Handed
  <2>3. s = r
    BY <2>2 DEF IInv, IdsUnique
  <2> QED BY <2>2, <2>3
<1>2. \A m \in DOMAIN reports' : \E s \in Requests : Handed(reports[m], s)' 
  <2> SUFFICES ASSUME NEW m \in DOMAIN reports' PROVE \E s \in Requests : Handed(reports[m], s)'
    OBVIOUS
  <2>1. CASE m = Len(reports) + 1
    <3>1. reports'[m] = e
      BY <1>0, <2>1
    <3> QED BY <3>1 DEF Handed
  <2>2. CASE m # Len(reports) + 1
    <3>1. m \in DOMAIN reports /\ reports'[m] = reports[m]
      BY <1>0, <2>2
    <3>2. PICK s \in Requests : Handed(reports[m], s)
      BY <3>1 DEF IInv, ReportsOK
    <3> QED BY <3>1, <3>2, HandedStays DEF Handed
  <2> QED BY <2>1, <2>2
<1>3. IsInjective(reports')
  <2>1. \A i, j \in DOMAIN reports : reports[i] = reports[j] => i = j
    BY DEF IInv, ReportsOK, IsInjective
  <2>2. /\ \A i \in DOMAIN reports : reports'[i] = reports[i]
        /\ reports'[Len(reports) + 1] = e
        /\ DOMAIN reports' = DOMAIN reports \union {Len(reports) + 1}
        /\ Len(reports) + 1 \notin DOMAIN reports
    BY <1>0
  <2> HIDE DEF e
  <2>3. \A i, j \in DOMAIN reports' : reports'[i] = reports'[j] => i = j
    BY <1>1, <2>1, <2>2
  <2> QED BY <2>3 DEF IsInjective
<1> QED BY <1>2, <1>3 DEF ReportsOK

\* Every step reports nothing, or what was not reported before.
LEMMA ReportsStep == IInv /\ [Next]_vars => ReportsOK'
<1> SUFFICES ASSUME IInv, [Next]_vars PROVE ReportsOK'
  OBVIOUS
<1>0. /\ reqs \in [Requests -> Req] /\ shadows \in [Requests -> Shadows] /\ AllLocal
  BY Types DEF IInv
<1>1. ASSUME reports' = reports PROVE ReportsOK'
  <2>1. IsInjective(reports')
    BY <1>1 DEF IInv, ReportsOK
  <2>2. ASSUME NEW m \in DOMAIN reports' PROVE \E s \in Requests : Handed(reports[m], s)'
    <3>1. PICK s \in Requests : Handed(reports[m], s)
      BY <1>1, <2>2 DEF IInv, ReportsOK
    <3> QED BY <1>1, <3>1, HandedStays DEF Handed
  <2> QED BY <2>1, <2>2 DEF ReportsOK
<1>2. ASSUME NEW r \in Requests, Close(r) PROVE ReportsOK'
  <2>1. CASE reqs[r].tee = "open"
    <3>1. reports' = Append(reports, <<"primary", reqs[r].correl>>) /\ Spent(r) = "spent"
      BY <1>2, <2>1 DEF Close, Spent
    <3>2. reqs'[r].correl = reqs[r].correl /\ reqs'[r].tee = "spent"
      BY <1>0, <1>2, <3>1, CloseChanges DEF Changes
    <3>3. reqs[r].correl # 0
      BY <1>0, <2>1 DEF AllLocal, Local
    <3> QED BY <2>1, <3>1, <3>2, <3>3, NewReport
  <2>2. CASE reqs[r].tee # "open"
    BY <1>1, <1>2, <2>2 DEF Close
  <2> QED BY <2>1, <2>2
<1>3. ASSUME NEW r \in Requests, ShadowReports(r) PROVE ReportsOK'
  <2>1. /\ reports' = Append(reports, <<"shadow", reqs[r].correl>>) /\ reqs' = reqs
        /\ shadows[r] = "answered" /\ shadows' = [shadows EXCEPT ![r] = "ingested"]
    BY <1>3 DEF ShadowReports
  <2>2. shadows'[r] = "ingested" /\ reqs'[r].correl = reqs[r].correl
    BY <1>0, <2>1
  <2>3. reqs[r].correl # 0
    BY <1>0, <2>1 DEF AllLocal, Local
  <2> QED BY <2>1, <2>2, <2>3, NewReport
<1>4. (\A r \in Requests : ~Close(r) /\ ~ShadowReports(r)) => reports' = reports
  BY DEF Next, vars, Arrive, Toggle, DecideStep, BodyStep, PrimaryStep, ShadowStep,
         NotMirrored, Chosen, TakeSlot, SkipFull, StartShadow, Bail, PrimaryAnswers,
         PrimaryFails, CopyBody, Upgrade, ShadowFails, ShadowAnswers, ShadowReleases
<1> QED BY <1>1, <1>2, <1>3, <1>4

-----------------------------------------------------------------------------
(* The theorems *)

\* At the start nothing is held, no id is out and nothing was reported.
LEMMA InitInv == Init => IInv
<1> SUFFICES ASSUME Init PROVE IInv
  OBVIOUS
<1>1. NotSent \in Req /\ NotSent.pc = "unsent" /\ NotSent.correl = 0 /\ NotSent.tee = "none"
  BY DEF NotSent, Req, PCs, Bodies, Tees
<1>2. \A r \in Requests : reqs[r] = NotSent /\ shadows[r] = "none"
  BY DEF Init
<1>3. TypeOK
  <2>1. reqs \in [Requests -> Req] /\ shadows \in [Requests -> Shadows]
    BY <1>1 DEF Init, Shadows
  <2>2. Inflight \in Nat
    BY ProxyAssumption DEF ProxyAssumption
  <2>3. reports = << >> /\ << >> \in Seq({"primary", "shadow"} \X Nat)
    BY DEF Init
  <2>4. slots \in 0 .. Inflight /\ n \in Nat /\ skipped \in Nat
    BY <2>2 DEF Init
  <2>5. killed \in BOOLEAN
    BY DEF Init
  <2> QED BY <2>1, <2>3, <2>4, <2>5, Types
<1>4. SlotsConserved
  <2>1. Reading = {} /\ Mirroring = {}
    BY <1>1, <1>2 DEF Reading, Mirroring, At
  <2>2. Cardinality(Reading) = 0 /\ Cardinality(Mirroring) = 0
    BY <2>1, FS_EmptySet
  <2> QED BY <2>2 DEF SlotsConserved, Init
<1>5. AllLocal
  BY <1>1, <1>2 DEF AllLocal, Local
<1>6. IdsUnique
  BY <1>1, <1>2 DEF IdsUnique, Init
<1>7. ReportsOK
  BY DEF ReportsOK, IsInjective, Init
<1> QED BY <1>3, <1>4, <1>5, <1>6, <1>7 DEF IInv

\* IInv is inductive.
LEMMA Invariant == Spec => []IInv
<1>1. IInv /\ [Next]_vars => IInv'
  BY TypeStep, SlotsStep, LocalStep, ReportsStep DEF IInv
<1> QED BY InitInv, <1>1, PTL DEF Spec

\* The variables of proxy mode keep their types; in particular `slots` never
\* leaves 0 .. -max-inflight: no send on the channel waits, no receive does.
THEOREM TypeCorrect == Spec => []TypeOK
BY Invariant, PTL DEF IInv

\* A slot is held by every request that reads its body and by every shadow
\* goroutine that runs, and by nobody else: none is lost, none is given back twice.
THEOREM SlotsAreConserved == Spec => []SlotsConserved
BY Invariant, PTL DEF IInv

\* Each side of each correlation id is handed to the collector at most once, and
\* by one mirrored request: what the collector assumes of proxy mode.
THEOREM SidesOnce == Spec => []EachSideOnce
<1>1. IInv => EachSideOnce
  <2> SUFFICES ASSUME IInv, NEW m \in DOMAIN reports
               PROVE  Cardinality({r \in Requests : shadows[r] # "none"
                                      /\ reqs[r].correl = reports[m][2]}) = 1
    BY DEF EachSideOnce, IInv, ReportsOK
  <2>1. PICK r \in Requests : Handed(reports[m], r)
    BY DEF IInv, ReportsOK
  <2>2. reqs \in [Requests -> Req] /\ Local(reqs[r], shadows[r])
    BY Types DEF IInv, AllLocal
  <2>3. shadows[r] # "none" /\ reqs[r].correl # 0 /\ reqs[r].correl = reports[m][2]
    BY <2>1, <2>2 DEF Handed, Local, Req, PCs
  <2>4. \A s \in Requests : reqs[s].correl = reports[m][2] => s = r
    BY <2>3 DEF IInv, IdsUnique
  <2>5. {s \in Requests : shadows[s] # "none" /\ reqs[s].correl = reports[m][2]} = {r}
    BY <2>3, <2>4
  <2> QED BY <2>5, FS_Singleton
<1> QED BY <1>1, Invariant, PTL

\* Guard rail: whatever is mirrored is a read, under reads-only, and was read whole.
THEOREM ShadowGuard == Spec => []ShadowSeesWholeReads
<1>1. IInv => ShadowSeesWholeReads
  BY DEF IInv, AllLocal, Local, ShadowSeesWholeReads
<1> QED BY <1>1, Invariant, PTL
=============================================================================
