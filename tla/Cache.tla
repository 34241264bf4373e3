------------------------------- MODULE Cache -------------------------------
(***************************************************************************)
(* One cache level in front of a storage that behaves as a flat memory:    *)
(* the situation of every level of the simulator, whatever is below it.    *)
(* Each action is one whole call of Cache::HandleRequest.                  *)
(***************************************************************************)
EXTENDS Integers, FiniteSetsExt

CONSTANTS
  BlockSize, SetNum, Assoc, WriteThrough, WriteAllocate, Latency, AgeMax, Byte,
  Mapped,        \* the addresses the level below has pages for
  Accesses,      \* the pairs <<addr, bytes>> a caller may ask for
  LowerLatency,  \* time the level below takes for a request
  MaxAccesses    \* bound: the int counters stay below it

\* The level below: it ends the process on an address it has no page for.
LowerHandle(low, rq) ==
  IF rq.addr \notin Mapped
  THEN [st |-> low, content |-> rq.content, time |-> 0, exit |-> TRUE]
  ELSE [st      |-> IF rq.read THEN low
                    ELSE [a \in Mapped |-> IF a \in rq.addr .. rq.addr + rq.bytes - 1
                                           THEN rq.content[a - rq.addr] ELSE low[a]],
        content |-> IF rq.read THEN [i \in 0 .. rq.bytes - 1 |-> low[rq.addr + i]]
                    ELSE rq.content,
        time    |-> LowerLatency,
        exit    |-> FALSE]

INSTANCE CacheLevel WITH Lower <- LowerHandle

ASSUME LevelAssumption == Parameters

ASSUME CacheAssumption ==
  /\ Mapped \subseteq Nat
  /\ \A a \in Mapped : \A k \in Offsets : BlockAddr(a) + k \in Mapped
  /\ Byte # {}
  /\ Accesses \subseteq Nat \X (Nat \ {0})
  /\ \A x \in Accesses : BlockOffset(x[1]) + x[2] <= BlockSize
  /\ LowerLatency \in Nat
  /\ MaxAccesses \in Nat

VARIABLES
  cache,         \* set, stats_.access_counter, stats_.miss_num, stats_.access_time
  lower,         \* *lower_ : the byte it answers for each address
  resp,          \* the last answer: [addr, read, content]
  time,          \* the time of all requests so far (the caller adds them up)
  status         \* "running", or "exit" once the process has ended

vars == <<cache, lower, resp, time, status>>

\* SetConfig: the blocks come from new char[], their bytes are unspecified.
Init ==
  /\ \E junk \in [Offsets -> Byte] :
       cache = [set            |-> [s \in Sets |-> [w \in Ways |-> EmptyLine(junk)]],
                access_counter |-> 0, miss_num |-> 0, access_time |-> 0]
  /\ lower \in [Mapped -> Byte]
  /\ resp = [addr |-> 0, read |-> TRUE, content |-> <<>>]
  /\ time = 0
  /\ status = "running"

Request(rq) ==
  \E r \in {HandleRequest([c |-> cache, low |-> lower], rq)} :
      /\ status = "running"
      /\ cache.access_counter < MaxAccesses
      /\ IF r.exit
         THEN status' = "exit" /\ UNCHANGED <<cache, lower, resp, time>>
         ELSE /\ cache' = r.st.c
              /\ lower' = r.st.low
              /\ resp' = [addr |-> rq.addr, read |-> rq.read, content |-> r.content]
              /\ time' = time + r.time
              /\ UNCHANGED status

Read(a, n) == Request([addr |-> a, bytes |-> n, read |-> TRUE, content |-> <<>>])

Write(a, n) ==
  \E content \in [0 .. n - 1 -> Byte] :
    Request([addr |-> a, bytes |-> n, read |-> FALSE, content |-> content])

Next == \E access \in Accesses : Read(access[1], access[2]) \/ Write(access[1], access[2])

Spec == Init /\ [][Next]_vars

\* Every variable keeps its type; a response has as many bytes as were asked for.
TypeOK ==
  /\ cache \in Level
  /\ lower \in [Mapped -> Byte]
  /\ resp \in [addr : Nat, read : BOOLEAN, content : UNION {[0 .. n - 1 -> Byte] : n \in 0 .. BlockSize}]
  /\ time \in Nat
  /\ status \in {"running", "exit"}

-----------------------------------------------------------------------------
(* The memory the caller sees through this level.                          *)

Holding(a) == {w \in Ways : cache.set[SetIndex(a)][w].valid
                            /\ cache.set[SetIndex(a)][w].tag = Tag(a)}

View == [a \in Mapped |->
           LET held == Holding(a)
           IN  IF held = {} THEN lower[a]
               ELSE cache.set[SetIndex(a)][Min(held)].blk[BlockOffset(a)]]

Flat == INSTANCE FlatMemory WITH mem <- View

\* Refinement: whatever it caches and evicts, the level is a flat memory to
\* its caller (HandleRequest as a whole).
FlatSpec == Flat!Spec

\* Write-through keeps the level below up to date: whatever the level holds, an
\* eviction has nothing to write back and a reader of the level below misses no
\* store (cache.cpp:58-65, 112-119).
LowerIsCurrent == WriteThrough => View = lower

\* The lines of set over a level below that holds low: a block is in one way of
\* its set at most, only mapped blocks are held, a clean line is a copy of the
\* bytes below, and with write-through every line is clean.
Coherent(set, low) ==
  /\ \A s \in Sets : \A v, w \in Ways :
       set[s][v].valid /\ set[s][w].valid /\ set[s][v].tag = set[s][w].tag => v = w
  /\ \A s \in Sets : \A w \in Ways : set[s][w].valid =>
       \A k \in Offsets : KickAddr(set[s][w].tag, s) + k \in Mapped
  /\ \A s \in Sets : \A w \in Ways : set[s][w].valid /\ ~ set[s][w].dirty =>
       \A k \in Offsets : set[s][w].blk[k] = low[KickAddr(set[s][w].tag, s) + k]
  /\ \A s \in Sets : \A w \in Ways : set[s][w].valid /\ WriteThrough => ~ set[s][w].dirty

\* No block is held twice and no clean line is stale: what dirty and tag say of
\* a line is enough for an eviction to lose nothing (cache.cpp:99-144 writes back
\* dirty victims only, ReplaceDecision takes the first way that matches).
LinesAreCoherent == Coherent(cache.set, lower)

=============================================================================
