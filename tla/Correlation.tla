---------------------------- MODULE Correlation ----------------------------
(***************************************************************************)
(* What the correlating collector promises, without the mutex, the order   *)
(* slice, the counters and the clock that internal/collector builds the    *)
(* promise from.  Captures are accepted, and each one then either leaves   *)
(* the system or is delivered in one pair, together with one capture of    *)
(* the opposite side that carries the same correlation id.  Pairs reach    *)
(* the diff engine in the order in which they were delivered.              *)
(***************************************************************************)
EXTENDS Integers, Sequences

CONSTANTS
  Sides,     \* every value a capture's path may have
  Names,     \* every correlation id, the empty one included
  Moments    \* clock readings

VARIABLES
  accepted,  \* number of captures accepted so far; also the newest serial
  waiting,   \* captures accepted and neither delivered nor given up
  out        \* pairs delivered and not yet taken, oldest first

vars == <<accepted, waiting, out>>

Capture(serial) == [path : Sides, id : Names, serial : {serial}, at : Moments]

Matching(p, s) ==
  /\ p.path = "primary"
  /\ s.path = "shadow"
  /\ p.id = s.id

Init ==
  /\ accepted = 0
  /\ waiting = {}
  /\ out = << >>

Accept ==
  \E c \in Capture(accepted + 1) :
    /\ accepted' = accepted + 1
    /\ waiting' = waiting \union {c}
    /\ UNCHANGED out

\* Malformed, superseded, expired, evicted, or in a pair the channel had no
\* room for: any of the captures that wait may be given up, for good.
GiveUp ==
  /\ waiting' \subseteq waiting
  /\ UNCHANGED <<accepted, out>>

Deliver ==
  \E p, s \in waiting :
    /\ Matching(p, s)
    /\ waiting' = waiting \ {p, s}
    /\ out' = Append(out, [primary |-> p, shadow |-> s])
    /\ UNCHANGED accepted

Take ==
  /\ out # << >>
  /\ out' = Tail(out)
  /\ UNCHANGED <<accepted, waiting>>

Next == Accept \/ GiveUp \/ Deliver \/ Take

Spec == Init /\ [][Next]_vars
=============================================================================
