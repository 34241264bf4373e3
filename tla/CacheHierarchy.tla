--------------------------- MODULE CacheHierarchy ---------------------------
(***************************************************************************)
(* The storage of the simulator: l1 over l2 over llc over memory, wired by *)
(* SetLower in main.  The levels share one thread, so a request at l1 and  *)
(* every request it causes below are one step.                             *)
(***************************************************************************)
EXTENDS Integers

CONSTANTS
  BlockSize,                           \* 64 at every level
  L1Sets, L1Ways, L1Latency,           \* config1, l1l
  L2Sets, L2Ways, L2Latency,           \* config2, l2l
  LLCSets, LLCWays, LLCLatency,        \* config3, llcl
  MemoryLatency,                       \* ml
  AgeMax,                              \* INT_MAX of visited_t
  Mapped,                              \* addresses of the allocated pages
  Byte,                                \* values a byte takes
  Accesses,                            \* pairs <<addr, bytes>> asked of l1
  MaxAccesses                          \* bound: the int counters stay below it

\* Memory::HandleRequest; load_byte and store_byte end the process on an
\* address without a page.
MemoryRequest(m, rq) ==
  LET span == rq.addr .. rq.addr + rq.bytes - 1
  IN  [st      |-> [byte |-> [a \in Mapped |->
                               IF ~ rq.read /\ a \in span THEN rq.content[a - rq.addr]
                               ELSE m.byte[a]],
                    access_time |-> m.access_time + MemoryLatency],
       content |-> IF rq.read /\ span \subseteq Mapped
                   THEN [i \in 0 .. rq.bytes - 1 |-> m.byte[rq.addr + i]] ELSE rq.content,
       hit     |-> 1,
       time    |-> MemoryLatency,
       exit    |-> ~ (span \subseteq Mapped)]

\* main sets write_through = 0 and write_allocate = 1 at every level and wires
\* each to the one below with SetLower.
LLC == INSTANCE CacheLevel WITH SetNum <- LLCSets, Assoc <- LLCWays, Latency <- LLCLatency,
         WriteThrough <- FALSE, WriteAllocate <- TRUE, Lower <- MemoryRequest
LLCRequest(st, rq) == LLC!HandleRequest(st, rq)

L2 == INSTANCE CacheLevel WITH SetNum <- L2Sets, Assoc <- L2Ways, Latency <- L2Latency,
        WriteThrough <- FALSE, WriteAllocate <- TRUE, Lower <- LLCRequest
L2Request(st, rq) == L2!HandleRequest(st, rq)

L1 == INSTANCE CacheLevel WITH SetNum <- L1Sets, Assoc <- L1Ways, Latency <- L1Latency,
        WriteThrough <- FALSE, WriteAllocate <- TRUE, Lower <- L2Request
L1Request(st, rq) == L1!HandleRequest(st, rq)

ASSUME HierarchyAssumption ==
  /\ L1!Parameters /\ L2!Parameters /\ LLC!Parameters
  /\ Mapped \subseteq Nat
  /\ \A a \in Mapped : \A k \in L1!Offsets : L1!BlockAddr(a) + k \in Mapped
  /\ Byte # {}
  /\ Accesses \subseteq Nat \X (Nat \ {0})
  /\ \A x \in Accesses : L1!BlockOffset(x[1]) + x[2] <= BlockSize
  /\ MemoryLatency \in Nat

VARIABLES
  l1, l2, llc,     \* the three caches: set, access_counter, miss_num, access_time
  memory,          \* Memory: the byte of every mapped address, and its access_time
  resp,            \* what l1 answered last: [addr, read, content]
  cache_cnt,       \* requests the pipeline has made
  cachehit_cnt,    \* how many of them hit in l1
  cache_cycle_cnt, \* their total time
  status           \* "running", or "exit" once the process has ended

counters == <<cache_cnt, cachehit_cnt, cache_cycle_cnt>>
vars == <<l1, l2, llc, memory, resp, counters, status>>

-----------------------------------------------------------------------------
Storage == [c |-> l1, low |-> [c |-> l2, low |-> [c |-> llc, low |-> memory]]]

EmptyCache(sets, ways, blk) ==
  [set |-> [s \in sets |-> [w \in ways |-> L1!EmptyLine(blk)]],
   access_counter |-> 0, miss_num |-> 0, access_time |-> 0]

\* SetConfig and SetStats in main; the new char[] blocks are uninitialized.
Init ==
  /\ \E junk \in [L1!Offsets -> Byte] :
       /\ l1 = EmptyCache(L1!Sets, L1!Ways, junk)
       /\ l2 = EmptyCache(L2!Sets, L2!Ways, junk)
       /\ llc = EmptyCache(LLC!Sets, LLC!Ways, junk)
  /\ \E byte \in [Mapped -> Byte] : memory = [byte |-> byte, access_time |-> 0]
  /\ resp = [addr |-> 0, read |-> TRUE, content |-> <<>>]
  /\ cache_cnt = 0 /\ cachehit_cnt = 0 /\ cache_cycle_cnt = 0
  /\ status = "running"

\* A call of l1.HandleRequest and what every caller of it adds up afterwards.
Request(rq) ==
  \E r \in {L1Request(Storage, rq)} :
      /\ status = "running"
      /\ cache_cnt < MaxAccesses
      /\ IF r.exit
         THEN status' = "exit" /\ UNCHANGED <<l1, l2, llc, memory, resp, counters>>
         ELSE /\ l1' = r.st.c
              /\ l2' = r.st.low.c
              /\ llc' = r.st.low.low.c
              /\ memory' = r.st.low.low.low
              /\ resp' = [addr |-> rq.addr, read |-> rq.read, content |-> r.content]
              /\ cache_cnt' = cache_cnt + 1
              /\ cachehit_cnt' = cachehit_cnt + r.hit
              /\ cache_cycle_cnt' = cache_cycle_cnt + r.time
              /\ UNCHANGED status

Read(a, n) == Request([addr |-> a, bytes |-> n, read |-> TRUE, content |-> <<>>])

Write(a, n) ==
  \E content \in [0 .. n - 1 -> Byte] :
    Request([addr |-> a, bytes |-> n, read |-> FALSE, content |-> content])

Next == \E access \in Accesses : Read(access[1], access[2]) \/ Write(access[1], access[2])

Spec == Init /\ [][Next]_vars

\* Every variable keeps its type; a response has as many bytes as were asked for.
TypeOK ==
  /\ l1 \in L1!Level
  /\ l2 \in L2!Level
  /\ llc \in LLC!Level
  /\ memory \in [byte : [Mapped -> Byte], access_time : Nat]
  /\ resp \in [addr : Nat, read : BOOLEAN,
               content : UNION {[0 .. n - 1 -> Byte] : n \in 0 .. BlockSize}]
  /\ cache_cnt \in Nat /\ cachehit_cnt \in Nat /\ cache_cycle_cnt \in Nat
  /\ status \in {"running", "exit"}

-----------------------------------------------------------------------------
(* What a program sees from each level down.                               *)

LLCView == [a \in Mapped |->
  LET held == LLC!ReplaceDecision(llc.set[LLC!SetIndex(a)], LLC!Tag(a))
  IN  IF held = {} THEN memory.byte[a]
      ELSE llc.set[LLC!SetIndex(a)][LLC!Min(held)].blk[LLC!BlockOffset(a)]]

L2View == [a \in Mapped |->
  LET held == L2!ReplaceDecision(l2.set[L2!SetIndex(a)], L2!Tag(a))
  IN  IF held = {} THEN LLCView[a]
      ELSE l2.set[L2!SetIndex(a)][L2!Min(held)].blk[L2!BlockOffset(a)]]

L1View == [a \in Mapped |->
  LET held == L1!ReplaceDecision(l1.set[L1!SetIndex(a)], L1!Tag(a))
  IN  IF held = {} THEN L2View[a]
      ELSE l1.set[L1!SetIndex(a)][L1!Min(held)].blk[L1!BlockOffset(a)]]

Flat == INSTANCE FlatMemory WITH mem <- L1View

\* Refinement: three levels of write-back caches answer as one flat memory,
\* whichever lines they fetch, evict and write back on the way
\* (cache.cpp:7-164 at every level, memory below).
FlatSpec == Flat!Spec

\* No line is stale while it is clean: a valid clean line holds what the level
\* below would answer for its block, although the levels evict independently
\* and a block may have left a lower level while an upper one still holds it.
CleanLinesAgree ==
  /\ \A s \in L1!Sets, w \in L1!Ways :
       LET line == l1.set[s][w] IN line.valid /\ ~ line.dirty =>
         \A k \in L1!Offsets : line.blk[k] = L2View[L1!KickAddr(line.tag, s) + k]
  /\ \A s \in L2!Sets, w \in L2!Ways :
       LET line == l2.set[s][w] IN line.valid /\ ~ line.dirty =>
         \A k \in L2!Offsets : line.blk[k] = LLCView[L2!KickAddr(line.tag, s) + k]
  /\ \A s \in LLC!Sets, w \in LLC!Ways :
       LET line == llc.set[s][w] IN line.valid /\ ~ line.dirty =>
         \A k \in LLC!Offsets : line.blk[k] = memory.byte[LLC!KickAddr(line.tag, s) + k]

\* The statistics agree with each other on every request: the time charged to
\* the pipeline is the time every level booked for its own accesses, and what
\* main prints for l1 (cache_cnt, cachehit_cnt) is what l1 counted.
StatisticsStep ==
  /\ cache_cycle_cnt' - cache_cycle_cnt =
       (l1'.access_time - l1.access_time) + (l2'.access_time - l2.access_time)
       + (llc'.access_time - llc.access_time) + (memory'.access_time - memory.access_time)
  /\ cache_cnt' - cache_cnt = l1'.access_counter - l1.access_counter
  /\ (cache_cnt' - cachehit_cnt') - (cache_cnt - cachehit_cnt) = l1'.miss_num - l1.miss_num
  /\ l1'.miss_num - l1.miss_num <= l2'.access_counter - l2.access_counter
  /\ l2'.miss_num - l2.miss_num <= llc'.access_counter - llc.access_counter
StatisticsAgree == [][StatisticsStep]_vars

\* readme.txt:7 of the -m option: memory.txt shows all of memory as the program
\* left it.  dump_memory reads memory only, so the claim is that memory is up
\* to date with the caches above it.
DumpIsCurrent == \A a \in Mapped : memory.byte[a] = L1View[a]

=============================================================================
