---------------------------- MODULE MCTableCache ----------------------------
(* A model-checking instance of TableCache.                                *)
EXTENDS TableCache, TLC

\* Clients are alike, and so are places in memory.
Symmetry == Permutations(Client) \cup Permutations(Handle)
=============================================================================
