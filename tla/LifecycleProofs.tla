--------------------------- MODULE LifecycleProofs --------------------------
(***************************************************************************)
(* Theorems about the life of the process, for every combination of flags  *)
(* and any bounds on requests and pairs.  The one invariant behind them    *)
(* says what each place of run has behind it; that a failure is never      *)
(* exited from with 0 rests on three facts: main gets past its listener    *)
(* only when it was told to stop, a listener's goroutine fails once at     *)
(* most, and the channel is looked at after the listener has closed.       *)
(***************************************************************************)
EXTENDS Lifecycle, TLAPS

Refusals == {"usage", "ruleset", "missing"}

\* What is refused is one of the classes that have a code of their own.
LEMMA ConfigRefusals == ASSUME config \in Config PROVE config.errors \subseteq Refusals
BY DEF Config, Settings, ConfigErrors, RulesetRefused, Refusals

\* What each place of run, and each exit code, has behind it.
Progress ==
  /\ main = "config" => proxyUp = "off"
  /\ proxyUp \in {"off", "listen", "serve", "failed"} => fatal = 0
  /\ fatal \in 0 .. 1
  /\ main \in {"listen", "serve", "closed"} => config.errors = {}
  /\ main = "returned" <=> err # "none"
  /\ shutter # "wait" \/ closing # {} => cancelled
  /\ main = "closed" \/ err = "closed" => cancelled
  /\ reported <=> err = "closed"
  /\ code \notin {Running, Panicked} => err # "none" /\ code = ExitCode(err)
  /\ failedFirst => IF main = "returned" THEN err # "closed" ELSE fatal > 0

IInv == TypeOK /\ Progress

\* The invariant holds before the flags are read.
LEMMA InvInit == Init => IInv
<1> SUFFICES ASSUME Init PROVE IInv
  OBVIOUS
<1>1. MaxInFlight \in Nat /\ Backlog \in Nat
  BY LifecycleAssumption DEF LifecycleAssumption
<1>2. TypeOK
  <2>1. inflight \in [Servers -> 0 .. MaxInFlight] /\ fatal \in 0 .. 2 /\ backlog \in 0 .. Backlog
    BY <1>1 DEF Init
  <2>2. /\ config \in Config /\ main = "config" /\ err = "none" /\ proxyUp = "off"
        /\ shutter = "wait" /\ ~graceOver /\ closing = {} /\ ~cancelled /\ ~consumer
        /\ ~reported /\ code = Running /\ ~failedFirst
    BY DEF Init
  <2>3. /\ graceOver \in BOOLEAN /\ cancelled \in BOOLEAN /\ consumer \in BOOLEAN
        /\ reported \in BOOLEAN /\ failedFirst \in BOOLEAN
    BY DEF Init
  <2> QED BY <2>1, <2>2, <2>3 DEF TypeOK
<1>3. Progress
  BY DEF Init, Progress
<1> QED BY <1>2, <1>3 DEF IInv

\* Every step of run, of the two listeners, of the shutdown and of what surrounds
\* them keeps the types.
LEMMA TypeStep == IInv /\ [Next]_vars => TypeOK'
<1> SUFFICES ASSUME IInv, [Next]_vars PROVE TypeOK'
  OBVIOUS
<1>0. /\ MaxInFlight \in Nat /\ Backlog \in Nat /\ TypeOK
      /\ config.errors \subseteq Refusals
      /\ fatal \in 0 .. 1 /\ (main = "returned" => err # "none")
      /\ proxyUp \in {"off", "listen", "serve", "failed"} => fatal = 0
  BY LifecycleAssumption, ConfigRefusals DEF LifecycleAssumption, IInv, Progress, TypeOK
<1> USE DEF TypeOK, Running, Panicked, Alive, Servers
<1>1. CASE Refuse
  BY <1>0, <1>1 DEF Refuse, Refusals
<1>2. CASE Start
  BY <1>0, <1>2 DEF Start
<1>3. CASE StartPanics
  BY <1>0, <1>3 DEF StartPanics
<1>4. CASE SweepPanics
  BY <1>0, <1>4 DEF SweepPanics
<1>5. CASE Listen
  BY <1>0, <1>5 DEF Listen
<1>6. CASE ListenFails
  BY <1>0, <1>6 DEF ListenFails
<1>7. CASE Closed
  BY <1>0, <1>7 DEF Closed
<1>8. CASE ReturnFatal
  BY <1>0, <1>8 DEF ReturnFatal, FatalSeen
<1>9. CASE Report
  BY <1>0, <1>9 DEF Report, FatalSeen
<1>10. CASE Exit
  BY <1>0, <1>10 DEF Exit, ExitCode
<1>11. CASE ProxyListen
  BY <1>0, <1>11 DEF ProxyListen
<1>12. CASE ProxyFails
  BY <1>0, <1>12 DEF ProxyFails
<1>13. CASE ProxyStops
  BY <1>0, <1>13 DEF ProxyStops
<1>14. CASE ProxyClosed
  BY <1>0, <1>14 DEF ProxyClosed
<1>15. CASE ShutHttp
  BY <1>0, <1>15 DEF ShutHttp, Begin
<1>16. CASE ShutProxy
  BY <1>0, <1>16 DEF ShutProxy, Begin, Drained
<1>17. CASE ShutDone
  BY <1>0, <1>17 DEF ShutDone, Drained
<1>18. CASE GraceElapses
  BY <1>0, <1>18 DEF GraceElapses
<1>19. CASE Signal
  BY <1>0, <1>19 DEF Signal
<1>20. CASE ConsumePair
  BY <1>0, <1>20 DEF ConsumePair
<1>21. CASE ConsumerStops
  <2>1. consumer' \in BOOLEAN
    BY <1>21 DEF ConsumerStops
  <2>2. UNCHANGED <<config, main, err, proxyUp, shutter, graceOver, closing, inflight,
                    cancelled, fatal, backlog, reported, code, failedFirst>>
    BY <1>21 DEF ConsumerStops
  <2> QED BY <1>0, <2>1, <2>2
<1>22. CASE Gone
  BY <1>0, <1>22 DEF Gone, vars
<1>23. ASSUME NEW s \in Servers, RequestBegins(s) PROVE TypeOK'
  BY <1>0, <1>23 DEF RequestBegins
<1>24. ASSUME NEW s \in Servers, RequestEnds(s) PROVE TypeOK'
  BY <1>0, <1>24 DEF RequestEnds
<1>25. CASE ProxySays
  BY <1>0, <1>25 DEF ProxySays
<1>26. CASE UNCHANGED vars
  BY <1>0, <1>26 DEF vars
<1> QED
  BY <1>1, <1>2, <1>3, <1>4, <1>5, <1>6, <1>7, <1>8, <1>9, <1>10, <1>11,
     <1>12, <1>13, <1>14, <1>15, <1>16, <1>17, <1>18, <1>19, <1>20, <1>21, <1>22,
     <1>23, <1>24, <1>25, <1>26
  DEF Next, MainStep, ProxyStep, ShutterStep

\* And keeps what its place has behind it.
LEMMA ProgressStep == IInv /\ [Next]_vars => Progress'
<1> SUFFICES ASSUME IInv, [Next]_vars PROVE Progress'
  OBVIOUS
<1>0. TypeOK /\ Progress /\ config.errors \subseteq Refusals
  BY ConfigRefusals DEF IInv, TypeOK
<1> USE DEF TypeOK, Progress, Running, Panicked, Alive, Servers
<1>1. CASE Refuse
  BY <1>0, <1>1 DEF Refuse, Refusals
<1>2. CASE Start
  BY <1>0, <1>2 DEF Start
<1>3. CASE StartPanics
  BY <1>0, <1>3 DEF StartPanics
<1>4. CASE SweepPanics
  BY <1>0, <1>4 DEF SweepPanics
<1>5. CASE Listen
  BY <1>0, <1>5 DEF Listen
<1>6. CASE ListenFails
  BY <1>0, <1>6 DEF ListenFails
<1>7. CASE Closed
  BY <1>0, <1>7 DEF Closed
<1>8. CASE ReturnFatal
  BY <1>0, <1>8 DEF ReturnFatal, FatalSeen
<1>9. CASE Report
  BY <1>0, <1>9 DEF Report, FatalSeen
<1>10. CASE Exit
  BY <1>0, <1>10 DEF Exit, ExitCode
<1>11. CASE ProxyListen
  BY <1>0, <1>11 DEF ProxyListen
<1>12. CASE ProxyFails
  BY <1>0, <1>12 DEF ProxyFails
<1>13. CASE ProxyStops
  BY <1>0, <1>13 DEF ProxyStops
<1>14. CASE ProxyClosed
  BY <1>0, <1>14 DEF ProxyClosed
<1>15. CASE ShutHttp
  BY <1>0, <1>15 DEF ShutHttp, Begin
<1>16. CASE ShutProxy
  BY <1>0, <1>16 DEF ShutProxy, Begin, Drained
<1>17. CASE ShutDone
  BY <1>0, <1>17 DEF ShutDone, Drained
<1>18. CASE GraceElapses
  BY <1>0, <1>18 DEF GraceElapses
<1>19. CASE Signal
  BY <1>0, <1>19 DEF Signal
<1>20. CASE ConsumePair
  BY <1>0, <1>20 DEF ConsumePair
<1>21. CASE ConsumerStops
  BY <1>0, <1>21 DEF ConsumerStops
<1>22. CASE Gone
  BY <1>0, <1>22 DEF Gone, vars
<1>23. ASSUME NEW s \in Servers, RequestBegins(s) PROVE Progress'
  BY <1>0, <1>23 DEF RequestBegins
<1>24. ASSUME NEW s \in Servers, RequestEnds(s) PROVE Progress'
  BY <1>0, <1>24 DEF RequestEnds
<1>25. CASE ProxySays
  BY <1>0, <1>25 DEF ProxySays
<1>26. CASE UNCHANGED vars
  BY <1>0, <1>26 DEF vars
<1> QED
  BY <1>1, <1>2, <1>3, <1>4, <1>5, <1>6, <1>7, <1>8, <1>9, <1>10, <1>11,
     <1>12, <1>13, <1>14, <1>15, <1>16, <1>17, <1>18, <1>19, <1>20, <1>21, <1>22,
     <1>23, <1>24, <1>25, <1>26
  DEF Next, MainStep, ProxyStep, ShutterStep

\* The invariant holds in every reachable state.
LEMMA Invariant == Spec => []IInv
<1>1. IInv /\ [Next]_vars => IInv'
  BY TypeStep, ProgressStep DEF IInv
<1> QED BY InvInit, <1>1, PTL DEF Spec

\* Every reachable state of the process is well typed: the channel `fatal` never
\* holds more than it has room for, and every exit code is one that is known.
THEOREM TypeCorrect == Spec => []TypeOK
<1>1. IInv => TypeOK
  BY DEF IInv
<1> QED BY <1>1, Invariant, PTL

\* A listener that fails before the process is told to stop is never exited from
\* with 0, however failure, signal, shutdown and the last look at the channel
\* interleave.
THEOREM FailuresShow == Spec => []FailureIsNotClean
<1>1. IInv => FailureIsNotClean
  BY DEF IInv, TypeOK, Progress, FailureIsNotClean, ExitCode, Running, Panicked
<1> QED BY <1>1, Invariant, PTL

\* The report is printed by the runs that exit with 0, and by no other.
THEOREM ReportsAreClean == Spec => []ReportMeansClean
<1>1. IInv => ReportMeansClean
  BY DEF IInv, TypeOK, Progress, ReportMeansClean, ExitCode, Alive, Running, Panicked
<1> QED BY <1>1, Invariant, PTL
=============================================================================
