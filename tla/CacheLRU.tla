------------------------------ MODULE CacheLRU ------------------------------
(***************************************************************************)
(* The replacement policy of a level, seen as an order of recency in each  *)
(* set.  The code keeps no order: it ages every valid line of the whole    *)
(* level on every request and clears the age of the line it uses.          *)
(***************************************************************************)
EXTENDS Cache

\* The tags the lines of one set hold, and which of them was used later than which
\* other one, from the ages of the lines.
Taken(ways) == {w \in Ways : ways[w].valid}
Held(ways)  == {ways[w].tag : w \in Taken(ways)}
Later(ways) ==
  {<<ways[x[1]].tag, ways[x[2]].tag>> :
     x \in {x \in Taken(ways) \X Taken(ways) : ways[x[1]].visited_t < ways[x[2]].visited_t}}

\* What stays in a set in which tag is used: all others, but for the one used before
\* all of them when there is no room.
Stays(ways, tag) ==
  IF tag \notin Held(ways) /\ Taken(ways) = Ways
  THEN {t \in Held(ways) : \E u \in Held(ways) : <<t, u>> \in Later(ways)}
  ELSE Held(ways) \ {tag}

\* Every request makes its block the last one used of its set, evicting the least
\* recently used block exactly when the set is full, and leaves the order of all others
\* and of every other set as it was (cache.cpp:20-30 and ReplaceAlgorithm, "//lru"
\* at cache.cpp:203).  A write miss that does not allocate disturbs no set at all.
RecencyStep ==
  cache' # cache =>
    LET tag     == Tag(resp'.addr)
        uses(s) == /\ s = SetIndex(resp'.addr)
                   /\ tag \in Held(cache.set[s]) \/ resp'.read \/ WriteAllocate
    IN  \A s \in Sets :
          LET now   == cache.set[s]
              then  == cache'.set[s]
              stays == Stays(now, tag)
          IN  IF uses(s)
              THEN /\ Held(then) = {tag} \cup stays
                   /\ Later(then) = ({tag} \X stays) \cup (Later(now) \cap (stays \X stays))
              ELSE Held(then) = Held(now) /\ Later(then) = Later(now)
EvictsLeastRecentlyUsed == [][RecencyStep]_vars

\* No two lines of a set have the same age, so the order leaves no choice of the
\* victim: whatever was used, in this set or in others, aged both or neither
\* (cache.cpp:20-30).
NoTies ==
  \A s \in Sets : \A v, w \in Taken(cache.set[s]) :
    v # w => cache.set[s][v].visited_t # cache.set[s][w].visited_t
=============================================================================
