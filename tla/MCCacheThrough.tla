--------------------------- MODULE MCCacheThrough ---------------------------
(* A write-through level for TLC, with and without write-allocate: which of *)
(* the two it is has been drawn once, at the start.  Nothing but Next       *)
(* depends on it.                                                           *)
EXTENDS MCCache

VARIABLE write_allocate

Around == INSTANCE Cache WITH WriteAllocate <- FALSE

InitEither == Init /\ write_allocate \in BOOLEAN

NextEither ==
  /\ \/ write_allocate /\ Next
     \/ ~ write_allocate /\ Around!Next
  /\ UNCHANGED write_allocate

SpecEither == InitEither /\ [][NextEither]_<<vars, write_allocate>>

BehaviourEither == <<write_allocate, Behaviour>>
=============================================================================
