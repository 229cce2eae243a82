----------------------------- MODULE Lifecycle -----------------------------
(***************************************************************************)
(* The life of the process, cmd/dark-canary/main.go and exit.go: run reads *)
(* its configuration, starts the consume loop, the two listeners and the   *)
(* goroutine that shuts them down, and returns when the collector's        *)
(* listener does; main turns what run returned into an exit code.  When    *)
(* main returns the process is gone, whatever the other goroutines do.     *)
(*                                                                         *)
(* Of net/http the model keeps what run relies on: ListenAndServe returns  *)
(* ErrServerClosed as soon as Shutdown has been called, while Shutdown     *)
(* returns when the requests in flight are done or its context expires.    *)
(***************************************************************************)
EXTENDS Flags, Integers, FiniteSets

CONSTANTS
  MaxInFlight,   \* bound: requests in flight on each listener
  Backlog        \* bound: pairs waiting for the consume loop

ASSUME LifecycleAssumption == MaxInFlight \in Nat /\ Backlog \in Nat

Servers == {"http", "proxy"}

VARIABLES
  config,      \* what the flags come to: see Settings
  main,        \* where run is
  err,         \* the error run is about to return, or has returned
  proxyUp,     \* where the goroutine that serves the proxy is
  shutter,     \* where shutdownOn is
  graceOver,   \* has shutdownGrace elapsed since the shutdown began?
  closing,     \* servers on which Shutdown has been called
  inflight,    \* per server: requests in flight
  cancelled,   \* the signal context is done
  fatal,       \* number of errors in the channel `fatal`
  backlog,     \* pairs the consume loop has not taken
  consumer,    \* is the consume loop running?
  reported,    \* has the final report been printed?
  code,        \* exit code, or -1
  failedFirst  \* history: a listener had failed, and said so, before any signal

vars == <<config, main, err, proxyUp, shutter, graceOver, closing, inflight,
          cancelled, fatal, backlog, consumer, reported, code, failedFirst>>

Running == -1

\* What the Go runtime exits with when a goroutine panics.
Panicked == 2

Config == {Settings(o) : o \in Options}

Init ==
  /\ config \in Config
  /\ main = "config"
  /\ err = "none"
  /\ proxyUp = "off"
  /\ shutter = "wait"
  /\ graceOver = FALSE
  /\ closing = {}
  /\ inflight = [s \in Servers |-> 0]
  /\ cancelled = FALSE
  /\ fatal = 0
  /\ backlog = 0
  /\ consumer = FALSE
  /\ reported = FALSE
  /\ code = Running
  /\ failedFirst = FALSE

Alive == code = Running

-----------------------------------------------------------------------------
(* run, and main around it *)

\* exitCode: one code for each class of error.
ExitCode(e) ==
  CASE e = "closed"                     -> 0
    [] e = "usage"                      -> 64
    [] e = "ruleset"                    -> 65
    [] e = "missing"            -> 66
    [] e \in {"listener", "fatal"}      -> 71

Refuse ==
  /\ Alive /\ main = "config"
  /\ err' \in config.errors
  /\ main' = "returned"
  /\ UNCHANGED <<config, proxyUp, shutter, graceOver, closing, inflight, cancelled,
                 fatal, backlog, consumer, reported, code, failedFirst>>

\* The goroutines are started; what runs when is up to the scheduler.
Start ==
  /\ Alive /\ main = "config"
  /\ config.errors = {} /\ ~config.slotsPanic
  /\ main' = "listen"
  /\ consumer' = TRUE
  /\ proxyUp' = IF config.proxy THEN "listen" ELSE "off"
  /\ UNCHANGED <<config, err, shutter, graceOver, closing, inflight, cancelled,
                 fatal, backlog, reported, code, failedFirst>>

\* newProxy makes the channel of slots: main itself panics ...
StartPanics ==
  /\ Alive /\ main = "config"
  /\ config.errors = {} /\ config.slotsPanic
  /\ code' = Panicked
  /\ UNCHANGED <<config, main, err, proxyUp, shutter, graceOver, closing, inflight,
                 cancelled, fatal, backlog, consumer, reported, failedFirst>>

\* ... and sweep, in a goroutine, makes its ticker, whatever has been started.
SweepPanics ==
  /\ Alive /\ main # "config"
  /\ config.errors = {} /\ config.tickerPanics
  /\ code' = Panicked
  /\ UNCHANGED <<config, main, err, proxyUp, shutter, graceOver, closing, inflight,
                 cancelled, fatal, backlog, consumer, reported, failedFirst>>

\* httpSrv.ListenAndServe: the port is bound, unless Shutdown came first.
Listen ==
  /\ Alive /\ main = "listen"
  /\ "http" \notin closing
  /\ main' = "serve"
  /\ UNCHANGED <<config, err, proxyUp, shutter, graceOver, closing, inflight,
                 cancelled, fatal, backlog, consumer, reported, code, failedFirst>>

\* The port is taken, or accepting fails for good.
ListenFails ==
  /\ Alive /\ main \in {"listen", "serve"}
  /\ "http" \notin closing
  /\ err' = "listener"
  /\ main' = "returned"
  /\ failedFirst' = (failedFirst \/ ~cancelled)
  /\ UNCHANGED <<config, proxyUp, shutter, graceOver, closing, inflight, cancelled,
                 fatal, backlog, consumer, reported, code>>

\* ErrServerClosed, at once: Shutdown has closed the listener.
Closed ==
  /\ Alive /\ main \in {"listen", "serve"}
  /\ "http" \in closing
  /\ main' = "closed"
  /\ UNCHANGED <<config, err, proxyUp, shutter, graceOver, closing, inflight,
                 cancelled, fatal, backlog, consumer, reported, code, failedFirst>>

\* Mutant of FatalSeen: the channel is not looked at on the way out.
FatalIgnored == FALSE

FatalSeen == fatal > 0

\* The select on `fatal`: an error in it is what run returns.
ReturnFatal ==
  /\ Alive /\ main = "closed"
  /\ FatalSeen
  /\ fatal' = fatal - 1
  /\ err' = "fatal"
  /\ main' = "returned"
  /\ UNCHANGED <<config, proxyUp, shutter, graceOver, closing, inflight, cancelled,
                 backlog, consumer, reported, code, failedFirst>>

\* Mutant of Report: it is printed before the channel is looked at.
ReportFirst ==
  /\ Alive /\ main = "closed"
  /\ reported' = TRUE
  /\ err' = IF FatalSeen THEN "fatal" ELSE "closed"
  /\ main' = "returned"
  /\ UNCHANGED <<config, proxyUp, shutter, graceOver, closing, inflight, cancelled,
                 fatal, backlog, consumer, code, failedFirst>>

\* Otherwise the report is printed.
Report ==
  /\ Alive /\ main = "closed"
  /\ ~FatalSeen
  /\ reported' = TRUE
  /\ err' = "closed"
  /\ main' = "returned"
  /\ UNCHANGED <<config, proxyUp, shutter, graceOver, closing, inflight, cancelled,
                 fatal, backlog, consumer, code, failedFirst>>

\* main: the process ends, with everything that is still running in it.
Exit ==
  /\ Alive /\ main = "returned"
  /\ code' = ExitCode(err)
  /\ UNCHANGED <<config, main, err, proxyUp, shutter, graceOver, closing, inflight,
                 cancelled, fatal, backlog, consumer, reported, failedFirst>>

-----------------------------------------------------------------------------
(* The goroutine that serves the proxy *)

ProxyListen ==
  /\ Alive /\ proxyUp = "listen"
  /\ "proxy" \notin closing
  /\ proxyUp' = "serve"
  /\ UNCHANGED <<config, main, err, shutter, graceOver, closing, inflight,
                 cancelled, fatal, backlog, consumer, reported, code, failedFirst>>

\* The port is taken, or accepting fails for good: ListenAndServe returns ...
ProxyFails ==
  /\ Alive /\ proxyUp \in {"listen", "serve"}
  /\ "proxy" \notin closing
  /\ proxyUp' = "failed"
  /\ UNCHANGED <<config, main, err, shutter, graceOver, closing, inflight, cancelled,
                 fatal, backlog, consumer, reported, code, failedFirst>>

\* Mutant of ProxySays: the goroutine tries again instead of stopping.
ProxyRetries ==
  /\ Alive /\ proxyUp = "failed"
  /\ fatal' = fatal + 1
  /\ failedFirst' = (failedFirst \/ ~cancelled)
  /\ proxyUp' = "listen"
  /\ UNCHANGED <<config, main, err, shutter, graceOver, closing, inflight, cancelled,
                 backlog, consumer, reported, code>>

\* ... its error goes into the channel, which has room for it ...
ProxySays ==
  /\ Alive /\ proxyUp = "failed"
  /\ fatal' = fatal + 1
  /\ failedFirst' = (failedFirst \/ ~cancelled)
  /\ proxyUp' = "stop"
  /\ UNCHANGED <<config, main, err, shutter, graceOver, closing, inflight, cancelled,
                 backlog, consumer, reported, code>>

\* ... and then the signal context is cancelled, which shuts the process down.
ProxyStops ==
  /\ Alive /\ proxyUp = "stop"
  /\ cancelled' = TRUE
  /\ proxyUp' = "gone"
  /\ UNCHANGED <<config, main, err, shutter, graceOver, closing, inflight, fatal,
                 backlog, consumer, reported, code, failedFirst>>

ProxyClosed ==
  /\ Alive /\ proxyUp \in {"listen", "serve"}
  /\ "proxy" \in closing
  /\ proxyUp' = "gone"
  /\ UNCHANGED <<config, main, err, shutter, graceOver, closing, inflight,
                 cancelled, fatal, backlog, consumer, reported, code, failedFirst>>

-----------------------------------------------------------------------------
(* shutdownOn: the collector's listener first, then the proxy's *)

Drained(s) == inflight[s] = 0 \/ graceOver

\* Mutant of Begin: the listener is closed only when no request is left on it.
BeginWhenIdle(s) == inflight[s] = 0 /\ closing' = closing \union {s}

\* Shutdown(s) has been called: no new connection is accepted.
Begin(s) == closing' = closing \union {s}

ShutHttp ==
  /\ Alive /\ shutter = "wait"
  /\ main # "config" /\ cancelled
  /\ Begin("http")
  /\ shutter' = "http"
  /\ UNCHANGED <<config, main, err, proxyUp, graceOver, inflight, cancelled, fatal,
                 backlog, consumer, reported, code, failedFirst>>

ShutProxy ==
  /\ Alive /\ shutter = "http"
  /\ Drained("http")
  /\ Begin("proxy")
  /\ shutter' = "proxy"
  /\ UNCHANGED <<config, main, err, proxyUp, graceOver, inflight, cancelled, fatal,
                 backlog, consumer, reported, code, failedFirst>>

ShutDone ==
  /\ Alive /\ shutter = "proxy"
  /\ Drained("proxy")
  /\ shutter' = "done"
  /\ UNCHANGED <<config, main, err, proxyUp, graceOver, closing, inflight, cancelled,
                 fatal, backlog, consumer, reported, code, failedFirst>>

GraceElapses ==
  /\ Alive /\ shutter \in {"http", "proxy"}
  /\ ~graceOver
  /\ graceOver' = TRUE
  /\ UNCHANGED <<config, main, err, proxyUp, shutter, closing, inflight, cancelled,
                 fatal, backlog, consumer, reported, code, failedFirst>>

-----------------------------------------------------------------------------
(* Around it: signals, requests, pairs *)

\* SIGINT or SIGTERM, once the context that listens for them exists.
Signal ==
  /\ Alive /\ main # "config" /\ ~cancelled
  /\ cancelled' = TRUE
  /\ UNCHANGED <<config, main, err, proxyUp, shutter, graceOver, closing, inflight,
                 fatal, backlog, consumer, reported, code, failedFirst>>

Accepting(s) == s \notin closing /\ IF s = "http" THEN main = "serve" ELSE proxyUp = "serve"

RequestBegins(s) ==
  /\ Alive /\ Accepting(s)
  /\ inflight[s] < MaxInFlight
  /\ inflight' = [inflight EXCEPT ![s] = @ + 1]
  /\ UNCHANGED <<config, main, err, proxyUp, shutter, graceOver, closing, cancelled,
                 fatal, backlog, consumer, reported, code, failedFirst>>

\* A request ends; it may have completed a pair.
RequestEnds(s) ==
  /\ Alive /\ inflight[s] > 0
  /\ inflight' = [inflight EXCEPT ![s] = @ - 1]
  /\ \E b \in {backlog, backlog + 1} : b <= Backlog /\ backlog' = b
  /\ UNCHANGED <<config, main, err, proxyUp, shutter, graceOver, closing, cancelled,
                 fatal, consumer, reported, code, failedFirst>>

\* consume: with a pair waiting and the context done, select picks either.
ConsumePair ==
  /\ Alive /\ consumer /\ backlog > 0
  /\ backlog' = backlog - 1
  /\ UNCHANGED <<config, main, err, proxyUp, shutter, graceOver, closing, inflight,
                 cancelled, fatal, consumer, reported, code, failedFirst>>

ConsumerStops ==
  /\ Alive /\ consumer /\ cancelled
  /\ consumer' = FALSE
  /\ UNCHANGED <<config, main, err, proxyUp, shutter, graceOver, closing, inflight,
                 cancelled, fatal, backlog, reported, code, failedFirst>>

\* The process is gone.
Gone == ~Alive /\ UNCHANGED vars

MainStep == Refuse \/ Start \/ Listen \/ Closed \/ ReturnFatal \/ Report \/ Exit
ProxyStep == ProxyListen \/ ProxySays \/ ProxyStops \/ ProxyClosed
ShutterStep == ShutHttp \/ ShutProxy \/ ShutDone

Next ==
  \/ MainStep \/ StartPanics \/ SweepPanics \/ ListenFails \/ ProxyStep \/ ProxyFails \/ ShutterStep \/ GraceElapses
  \/ Signal \/ ConsumePair \/ ConsumerStops \/ Gone
  \/ \E s \in Servers : RequestBegins(s) \/ RequestEnds(s)

Spec == Init /\ [][Next]_vars

\* The goroutines of the process run; nothing is assumed of requests, of the
\* consume loop, of signals or of failures, nor that a grace period elapses.
Fairness == WF_vars(MainStep) /\ WF_vars(ProxyStep) /\ WF_vars(ShutterStep)

FairSpec == Spec /\ Fairness

-----------------------------------------------------------------------------
(* Properties *)

TypeOK ==
  /\ config \in Config
  /\ main \in {"config", "listen", "serve", "closed", "returned"}
  /\ err \in {"none", "usage", "ruleset", "missing", "listener", "fatal", "closed"}
  /\ proxyUp \in {"off", "listen", "serve", "failed", "stop", "gone"}
  /\ shutter \in {"wait", "http", "proxy", "done"}
  /\ graceOver \in BOOLEAN
  /\ closing \in SUBSET Servers
  /\ inflight \in [Servers -> 0 .. MaxInFlight]
  /\ cancelled \in BOOLEAN
  /\ fatal \in 0 .. 2
  /\ backlog \in 0 .. Backlog
  /\ consumer \in BOOLEAN
  /\ reported \in BOOLEAN
  /\ code \in {Running, Panicked, 0, 64, 65, 66, 71}
  /\ failedFirst \in BOOLEAN

\* "failing to bind it is fatal, and must exit non-zero": if a listener fails
\* and says so before the process is told to stop, the process does not exit
\* with 0, however the failure, the shutdown it triggers, a signal and run's
\* last look at the channel interleave.
FailureIsNotClean == code = 0 => ~failedFirst

\* "A listener that never came up has no report to give": the report is printed
\* exactly by the runs that exit with 0, and never ahead of an error.  A panic may
\* come at any moment.
ReportMeansClean == ~Alive /\ code # Panicked => (reported <=> code = 0)

\* Once told to stop, the process exits, although requests in flight may never
\* end, nobody may consume, and the grace period may not elapse.
StopsWhenTold == cancelled ~> ~Alive

\* "giving in-flight requests shutdownGrace to finish before they are cut": a
\* process that exits because it was told to has no request in flight, unless
\* the grace period is over.
GraceIsGiven ==
  code = 0 => graceOver \/ \A s \in Servers : inflight[s] = 0
=============================================================================
