---------------------------- MODULE MCCollector ----------------------------
(* Collector for TLC: callers and ids are interchangeable model values. *)
EXTENDS Collector, TLC

Symmetry == Permutations(Callers) \union Permutations(Ids)
=============================================================================
