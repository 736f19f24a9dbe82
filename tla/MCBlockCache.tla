---------------------------- MODULE MCBlockCache ----------------------------
(* Instances of BlockCache for TLC; threads and values are interchangeable. *)
EXTENDS BlockCache, TLC

Symmetric == Permutations(Threads) \cup Permutations(Values)
=============================================================================
