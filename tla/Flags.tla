-------------------------------- MODULE Flags -------------------------------
(***************************************************************************)
(* What the flags are refused for, cmd/dark-canary/config.go with          *)
(* safety.Config's Validate: the checks in their order, each with the      *)
(* class of error that decides the exit code.  The flags are those that a  *)
(* check may refuse or that what is started before the listeners may panic *)
(* on, each taken as the classes of its values that these tell apart.      *)
(*                                                                         *)
(* The other flags are accepted whatever they say.  An empty -kill-file,   *)
(* which turns the kill switch off, is taken up in KillSwitch; Proxy takes *)
(* -shadow-timeout for positive (one that is not is no timeout at all);    *)
(* Collector takes -max-pending for positive, as its New makes it.         *)
(***************************************************************************)
EXTENDS Naturals

Options == [
  sample     : {"in range", "out of range", "not a number"},   \* -sample
  maxBody    : {"positive", "not positive"},                   \* -max-body
  writes     : BOOLEAN,                                        \* -allow-write-mirroring
  listen     : {"localhost", "loopback address", "other address", "no host", "no address"},
  token      : BOOLEAN,                                        \* -token, with -listen above
  rules      : {"default", "good", "missing", "bad"},          \* -rules
  primary    : {"none", "good", "bad"},                        \* -primary
  shadow     : {"none", "good", "bad"},                        \* -shadow
  timeout    : {"positive", "not positive"},                   \* -correlate-timeout
  inflight   : {"fine", "negative"}]                           \* -max-inflight

-----------------------------------------------------------------------------
(* safety.Config.Validate.  NaN is neither below 0 nor above 1: Validate    *)
(* accepts it.                                                             *)

BadSample(o) == o.sample = "out of range"
BadMaxBody(o) == o.maxBody = "not positive"

\* Write mirroring is reported last, as an error that callers take for a warning.
Validate(o) ==
  IF BadSample(o) \/ BadMaxBody(o) THEN "error"
  ELSE IF o.writes THEN "warning" ELSE "ok"

-----------------------------------------------------------------------------
(* options: safetyConfig, rules, upstreams                                 *)

\* ":8099" listens on every interface, and what cannot be told is taken for it.
IsLoopback(o) == o.listen \in {"localhost", "loopback address"}

Exposed(o) == ~IsLoopback(o) /\ ~o.token

SafetyRefuses(o) == Validate(o) = "error" \/ Exposed(o)

RulesetRefused(o) ==
  CASE o.rules = "missing" -> {"missing"}
    [] o.rules = "bad" -> {"ruleset"}
    [] OTHER -> {}

\* parseUpstream: not an http or https URL with a host.
BadUpstream(url) == url = "bad"

\* Both or neither.
UpstreamsRefused(o) ==
  IF o.primary = "none" THEN o.shadow # "none"
  ELSE o.shadow = "none" \/ BadUpstream(o.primary) \/ BadUpstream(o.shadow)

\* The errors of the three steps; run returns the first.
ConfigErrors(o) ==
  IF SafetyRefuses(o) THEN {"usage"}
  ELSE IF RulesetRefused(o) # {} THEN RulesetRefused(o)
  ELSE IF UpstreamsRefused(o) THEN {"usage"} ELSE {}

-----------------------------------------------------------------------------
(* What the rest of the process sees of the flags                          *)

\* Without -primary there is no proxy.
ProxyMode(o) == o.primary # "none"

\* time.NewTicker(-correlate-timeout) in sweep, which is not checked before.
TickerPanics(o) == o.timeout = "not positive"

\* make(chan struct{}, -max-inflight) in newProxy, likewise.
SlotsPanic(o) == ProxyMode(o) /\ o.inflight = "negative"

Settings(o) ==
  [errors       |-> ConfigErrors(o),
   proxy        |-> ProxyMode(o),
   tickerPanics |-> TickerPanics(o),
   slotsPanic   |-> SlotsPanic(o)]
=============================================================================
