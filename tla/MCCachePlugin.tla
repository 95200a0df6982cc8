---------------------------- MODULE MCCachePlugin ----------------------------
(* Instances of CachePlugin small enough for TLC. *)
EXTENDS CachePlugin

(* One direct-mapped L1 of a single block, outer levels of two: evictions  *)
(* and refills at every level within a few accesses.                       *)
TinyGeometry ==
  [lvl \in Level |-> [sets |-> 1, ways |-> IF lvl \in {"l1d", "l1i"} THEN 1 ELSE 2]]
=============================================================================
