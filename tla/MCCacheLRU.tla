----------------------------- MODULE MCCacheLRU -----------------------------
(* Instances of CacheLRU for TLC. *)
EXTENDS CacheLRU

\* Two sets: four blocks compete for the three ways of set 0 while requests for
\* the block of set 1 age them too.
MCMapped   == 0 .. 7
MCAccesses == {<<0, 1>>, <<2, 1>>, <<4, 1>>, <<6, 1>>, <<1, 1>>}

\* Ages and the count of requests, which bounds them, but no statistics.
Behaviour == <<cache.set, cache.access_counter, lower, status>>
=============================================================================
