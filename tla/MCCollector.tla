----------------------------- MODULE MCCollector -----------------------------
(* Small instances of the collector: a handful of addresses.                *)
EXTENDS Collector, TLC

Interchangeable == Permutations(Obj)
=============================================================================
