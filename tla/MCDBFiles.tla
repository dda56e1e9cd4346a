------------------------------ MODULE MCDBFiles -----------------------------
(* Model-checking instances of DBFiles.                                    *)
EXTENDS DBFiles, TLC

\* Batches are interchangeable.
Symmetry == Permutations(Batch)
=============================================================================
