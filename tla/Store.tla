------------------------------- MODULE Store -------------------------------
(***************************************************************************)
(* What leveldb promises its user about crashes (include/leveldb/options.h *)
(* on WriteOptions::sync): a database is a set of batches; a write that    *)
(* returned survives the end of the process, one with sync also survives a *)
(* power failure, and a write that did not return may or may not show up.  *)
(*                                                                         *)
(* The number of power failures is part of the state, so that only a real  *)
(* one may take a batch away.  While the database is not open, contents    *)
(* are what opening it will show: nothing but a power failure, no step of  *)
(* DB::Open and no end of the process in the middle of it, changes them.   *)
(***************************************************************************)
EXTENDS Naturals

CONSTANTS
  Batch,
  Power      \* whether the power may fail

VARIABLES
  up,        \* DB::Open has returned OK
  contents,  \* the batches a reader of the database sees, or will see
  safe,      \* those written with sync
  pending,   \* the batch being written
  doubt,     \* batches whose write failed
  outages    \* how often the power failed

vars == <<up, contents, safe, pending, doubt, outages>>

Init ==
  /\ up = FALSE /\ contents = {} /\ safe = {} /\ pending = {} /\ doubt = {}
  /\ outages = 0

Open == ~up /\ up' = TRUE /\ UNCHANGED <<contents, safe, pending, doubt, outages>>

Begin ==
  /\ up /\ pending = {}
  /\ \E b \in Batch \ (contents \cup doubt) : pending' = {b}
  /\ UNCHANGED <<up, contents, safe, doubt, outages>>

Commit ==
  /\ up /\ pending # {}
  /\ contents' = contents \cup pending
  /\ safe' \in {safe, safe \cup pending}
  /\ pending' = {}
  /\ UNCHANGED <<up, doubt, outages>>

Fail ==
  /\ up /\ pending # {}
  /\ doubt' = doubt \cup pending
  /\ pending' = {}
  /\ UNCHANGED <<up, contents, safe, outages>>

\* The process ends with the database open: nothing that was committed is lost.
ProcessCrash ==
  /\ up /\ up' = FALSE /\ pending' = {}
  /\ contents \subseteq contents'
  /\ contents' \subseteq contents \cup pending \cup doubt
  /\ UNCHANGED <<safe, doubt, outages>>

\* The power fails, at any time: what was written with sync is not lost.
PowerLoss ==
  /\ Power /\ outages' = outages + 1
  /\ up' = FALSE /\ pending' = {}
  /\ safe \subseteq contents'
  /\ contents' \subseteq contents \cup pending \cup doubt
  /\ UNCHANGED <<safe, doubt>>

Next == Open \/ Begin \/ Commit \/ Fail \/ ProcessCrash \/ PowerLoss

Spec == Init /\ [][Next]_vars
=============================================================================
