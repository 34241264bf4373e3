-------------------------- MODULE MCCacheHierarchy --------------------------
(* Instances of CacheHierarchy for TLC. *)
EXTENDS CacheHierarchy, TLC

\* Blocks of one byte: four that are mapped and one that is not.
MCMapped   == 0 .. 3
MCAccesses == {<<a, 1>> : a \in 0 .. 4}

\* The lines as far as they decide what happens next: nothing of an invalid
\* line, and no age where a set has a single way.
Lines(set, ways) ==
  [s \in DOMAIN set |-> [w \in ways |->
     IF ~ set[s][w].valid THEN <<>>
     ELSE IF ways = {0} THEN [set[s][w] EXCEPT !.visited_t = 0] ELSE set[s][w]]]

Behaviour == <<Lines(l1.set, L1!Ways), Lines(l2.set, L2!Ways), Lines(llc.set, LLC!Ways),
               memory.byte, status>>

\* Bytes are only moved, never looked at.
ByteSymmetry == Permutations(Byte)
=============================================================================
