---------------------------- MODULE KillSwitch -----------------------------
(***************************************************************************)
(* safety.FileKillSwitch: a file whose existence means "stop", looked at   *)
(* through a cache that asks the file system once per TTL at most.         *)
(*                                                                         *)
(* Callers are request goroutines (proxy.mirror, handleCapture,            *)
(* handleStats); the operator touches and removes the file at any moment.  *)
(* A call that misses the cache reads the clock, then asks the file        *)
(* system, and holds the mutex in between: the file may change, and other  *)
(* callers may queue up, while the answer is on its way.                   *)
(***************************************************************************)
EXTENDS Integers

CONSTANTS
  Callers,   \* goroutines that ask
  TTL,       \* FileKillSwitch.TTL, in ticks of `now`
  MaxNow,    \* bound: horizon of the clock
  MaxCalls   \* bound: number of calls of Engaged

ASSUME KillSwitchAssumption ==
  /\ TTL \in Nat \ {0}
  /\ MaxNow \in Nat
  /\ MaxCalls \in Nat

Never == -1   \* the zero time.Time of `checked`

VARIABLES
  now,         \* the wall clock
  begun,       \* number of calls so far
  configured,  \* Path # "": a kill file is configured at all
  file,        \* does the kill file exist?
  changedAt,   \* history: when the operator last touched or removed it
  holder,      \* callers that hold k.mu: none or one
  checked,     \* FileKillSwitch.checked
  engaged,     \* FileKillSwitch.engaged
  looked,      \* history: clock reading of the last look that was begun
  calls        \* per caller: pc, when the call began, clock reading, answer

vars == <<now, begun, configured, file, changedAt, holder, checked, engaged, looked, calls>>

Idle == [pc |-> "idle", start |-> 0, t |-> 0, answer |-> FALSE]

Init ==
  /\ now = 0
  /\ begun = 0
  /\ configured \in BOOLEAN
  /\ file \in BOOLEAN
  /\ changedAt = 0
  /\ holder = {}
  /\ checked = Never
  /\ engaged = FALSE
  /\ looked = Never
  /\ calls = [c \in Callers |-> Idle]

-----------------------------------------------------------------------------
(* Engaged *)

Answer(c, value) ==
  calls' = [calls EXCEPT ![c].pc = "answered", ![c].answer = value]

Call(c) ==
  /\ calls[c].pc = "idle"
  /\ begun < MaxCalls
  /\ begun' = begun + 1
  /\ calls' = [calls EXCEPT ![c].pc = "waiting", ![c].start = now]
  /\ UNCHANGED <<now, configured, file, changedAt, holder, checked, engaged, looked>>

\* No path: the switch is off for good, and nothing is locked or looked at.
NotConfigured(c) ==
  /\ calls[c].pc = "waiting"
  /\ ~configured
  /\ Answer(c, FALSE)
  /\ UNCHANGED <<now, begun, configured, file, changedAt, holder, checked, engaged, looked>>

\* Mutant of CacheValid: the answer is kept for one tick too long.
CacheValidTooLong(t) == checked # Never /\ t - checked <= TTL

CacheValid(t) == checked # Never /\ t - checked < TTL

\* Mutant of Free: the mutex is released while the file system is asked.
NotExclusive == TRUE

Free == holder = {}

\* Under the mutex: the cached answer is recent enough.
Cached(c) ==
  /\ calls[c].pc = "waiting"
  /\ configured
  /\ Free
  /\ CacheValid(now)
  /\ Answer(c, engaged)
  /\ UNCHANGED <<now, begun, configured, file, changedAt, holder, checked, engaged, looked>>

\* Under the mutex: it is not.  The clock has been read, the file not yet.
Miss(c) ==
  /\ calls[c].pc = "waiting"
  /\ configured
  /\ Free
  /\ ~CacheValid(now)
  /\ holder' = {c}
  /\ calls' = [calls EXCEPT ![c].pc = "stat", ![c].t = now]
  /\ looked' = now
  /\ UNCHANGED <<now, begun, configured, file, changedAt, checked, engaged>>

\* os.Stat: the file system answers for the moment it is asked.
Stat(c) ==
  /\ calls[c].pc = "stat"
  /\ calls' = [calls EXCEPT ![c].pc = "seen", ![c].answer = file]
  /\ UNCHANGED <<now, begun, configured, file, changedAt, holder, checked, engaged, looked>>

Dated(c) == calls[c].t

\* Mutant of Unlock: the mutex is not released after a look.
StaysLocked(c) == holder' = holder

Unlock(c) == holder' = holder \ {c}

\* The answer is cached under the clock reading that came before the stat, and
\* the mutex is released.
Record(c) ==
  /\ calls[c].pc = "seen"
  /\ engaged' = calls[c].answer
  /\ checked' = Dated(c)
  /\ Unlock(c)
  /\ calls' = [calls EXCEPT ![c].pc = "answered"]
  /\ UNCHANGED <<now, begun, configured, file, changedAt, looked>>

\* The caller acts on the answer and may ask again.
Return(c) ==
  /\ calls[c].pc = "answered"
  /\ calls' = [calls EXCEPT ![c] = Idle]
  /\ UNCHANGED <<now, begun, configured, file, changedAt, holder, checked, engaged, looked>>

EngagedStep(c) ==
  NotConfigured(c) \/ Cached(c) \/ Miss(c) \/ Stat(c) \/ Record(c) \/ Return(c)

-----------------------------------------------------------------------------
(* The operator and the clock *)

\* `touch` or `rm` of the kill file.
Toggle ==
  /\ file' = ~file
  /\ changedAt' = now
  /\ UNCHANGED <<now, begun, configured, holder, checked, engaged, looked, calls>>

Tick ==
  /\ now < MaxNow
  /\ now' = now + 1
  /\ UNCHANGED <<begun, configured, file, changedAt, holder, checked, engaged, looked, calls>>

Next ==
  \/ \E c \in Callers : Call(c) \/ EngagedStep(c)
  \/ Toggle
  \/ Tick

Spec == Init /\ [][Next]_vars

\* Goroutines run, and os.Stat answers; a goroutine that waits for a mutex gets
\* it in the end (sync.Mutex hands it over to a waiter that starves).
Fairness ==
  \A c \in Callers : /\ WF_vars(NotConfigured(c))
                     /\ SF_vars(Cached(c) \/ Miss(c))
                     /\ WF_vars(Stat(c) \/ Record(c))

FairSpec == Spec /\ Fairness

-----------------------------------------------------------------------------
(* Properties *)

TypeOK ==
  /\ now \in Nat
  /\ begun \in Nat
  /\ configured \in BOOLEAN
  /\ file \in BOOLEAN
  /\ changedAt \in Nat
  /\ holder \in SUBSET Callers
  /\ checked \in Nat \union {Never}
  /\ engaged \in BOOLEAN
  /\ looked \in Nat \union {Never}
  /\ calls \in [Callers -> [pc : {"idle", "waiting", "stat", "seen", "answered"},
                            start : Nat, t : Nat, answer : BOOLEAN]]

\* "`touch` it over SSH and everything stops within TTL": a call that begins a
\* TTL or more after the file last changed, and until whose answer it does not
\* change again, answers what the file says, whatever other calls were asking
\* or being answered when it changed.
KillTakesEffect ==
  configured =>
    \A c \in Callers :
      calls[c].pc = "answered" /\ calls[c].start >= changedAt + TTL
        => calls[c].answer = file

\* "reports whether the kill file exists, at most once per TTL": however many
\* callers find the cache stale together, two looks at the file system are
\* begun a TTL apart.
OneStatPerTTL ==
  [][\A c \in Callers :
       calls[c].pc # "stat" /\ calls'[c].pc = "stat" /\ looked # Never
         => now >= looked + TTL]_vars

\* Every call is answered, although a stat may keep all other callers waiting.
AskedIsAnswered ==
  \A c \in Callers : calls[c].pc = "waiting" ~> calls[c].pc = "answered"
=============================================================================
