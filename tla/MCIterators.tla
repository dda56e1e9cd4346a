---------------------------- MODULE MCIterators ----------------------------
(***************************************************************************)
(* Small databases for Iterators.  Level 1 is two files; the larger one    *)
(* has two blocks, cut inside the versions of <<2, 0>> or between <<0, 1>> *)
(* and <<2, 0>> (then <<1>> is their separator in the index), and a block  *)
(* of three entries has two restart points.  The level-0 table and the     *)
(* memtable overwrite or delete one key each.                              *)
(***************************************************************************)
EXTENDS Iterators

A == <<0>>
B == <<0, 1>>
C == <<2, 0>>

MCKeys == {A, B, C}
MCTargets == {<<>>, A, B, <<1>>, C, <<3>>}
MCCutKey == A

Put(k) == [key |-> k, type |-> kTypeValue]
Del(k) == [key |-> k, type |-> kTypeDeletion]

\* A repeated overwrite, a deleted last key, and a key deleted and put back,
\* each under a level-0 table and a memtable that change other keys.
MCContents ==
    {[level1 |-> <<Put(C), Put(B), Put(A), Del(C), Put(B), Put(C)>>,
      level0 |-> <<Put(A)>>, mem |-> <<Del(C)>>],
     [level1 |-> <<Put(C), Put(B), Put(A), Put(C), Del(A), Del(C)>>,
      level0 |-> <<Del(B)>>, mem |-> <<Put(B)>>],
     [level1 |-> <<Put(C), Put(B), Put(A), Put(B), Del(B), Put(C)>>,
      level0 |-> <<Put(A)>>, mem |-> <<Put(B)>>],
     [level1 |-> <<Put(C), Put(B), Put(A), Put(B), Del(B), Put(C)>>,
      level0 |-> <<Del(B)>>, mem |-> <<Del(C)>>]}
=============================================================================
