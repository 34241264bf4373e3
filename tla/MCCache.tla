------------------------------- MODULE MCCache -------------------------------
(* Instances of Cache for TLC. *)
EXTENDS Cache, TLC

\* Three mapped blocks of two bytes and one block that is not mapped: a byte at
\* the start of a block, one at its end, a whole block, an unmapped byte.
MCMapped   == 0 .. 5
MCAccesses == {<<0, 1>>, <<2, 2>>, <<5, 1>>, <<6, 1>>}

\* What decides the next steps: nothing of an invalid line, no counter.
Behaviour ==
  <<[s \in Sets |-> [w \in Ways |->
       IF cache.set[s][w].valid THEN cache.set[s][w] ELSE <<>>]], lower, status>>

\* Bytes are only moved, never looked at.
ByteSymmetry == Permutations(Byte)
=============================================================================
