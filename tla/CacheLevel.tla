----------------------------- MODULE CacheLevel -----------------------------
(***************************************************************************)
(* One level of the cache (class Cache, cache.h and cache.cpp) as pure     *)
(* operators.  A request is a record                                       *)
(*    [addr, bytes, read, content]                                         *)
(* and every storage level, this one and the one below it, answers it with *)
(*    [st |-> its state afterwards, content, hit, time, exit]              *)
(* where exit says that the process ended inside the call.                 *)
(***************************************************************************)
EXTENDS Integers, FiniteSetsExt

CONSTANTS
  BlockSize,      \* config_.block_size, in bytes
  SetNum,         \* config_.set_num
  Assoc,          \* config_.associativity
  WriteThrough,   \* config_.write_through
  WriteAllocate,  \* config_.write_allocate
  Latency,        \* latency_.bus_latency + latency_.hit_latency
  AgeMax,         \* INT_MAX of the int visited_t
  Byte,           \* the values a byte takes
  Lower(_, _)     \* Lower(low, rq) is lower_->HandleRequest in state low

Parameters ==
  /\ BlockSize \in Nat \ {0}
  /\ SetNum \in Nat \ {0}
  /\ Assoc \in Nat \ {0}
  /\ WriteThrough \in BOOLEAN
  /\ WriteAllocate \in BOOLEAN
  /\ Latency \in Nat
  /\ AgeMax \in Nat \ {0}

Offsets == 0 .. BlockSize - 1
Sets    == 0 .. SetNum - 1
Ways    == 0 .. Assoc - 1
Age     == -AgeMax - 1 .. AgeMax

-----------------------------------------------------------------------------
(* The address arithmetic of HandleRequest, with shifts and masks written  *)
(* as division and remainder.                                              *)

BlockOffset(addr) == addr % BlockSize
SetIndex(addr)    == (addr \div BlockSize) % SetNum
Tag(addr)         == (addr \div BlockSize) \div SetNum
BlockAddr(addr)   == addr - BlockOffset(addr)
KickAddr(tag, s)  == (tag * SetNum + s) * BlockSize

\* The bytes blk[o .. o+n-1], and blk with those bytes replaced by content.
Slice(blk, o, n) == [i \in 0 .. n - 1 |-> blk[o + i]]
PatchFirstByte(blk, o, n, content) ==                               \* faulty
  [k \in Offsets |-> IF k = o THEN content[0] ELSE blk[k]]
Patch(blk, o, n, content) ==
  [k \in Offsets |-> IF k \in o .. o + n - 1 THEN content[k - o] ELSE blk[k]]

-----------------------------------------------------------------------------
(* Lines.  visited_t++ is done on an int: past INT_MAX the build wraps.    *)

Line == [valid : BOOLEAN, dirty : BOOLEAN, tag : Nat, visited_t : Age,
         blk : [Offsets -> Byte]]

\* A level together with the statistics it keeps (stats_).
Level == [set : [Sets -> [Ways -> Line]],
          access_counter : Nat, miss_num : Nat, access_time : Nat]

EmptyLine(blk) ==
  [valid |-> FALSE, dirty |-> FALSE, tag |-> 0, visited_t |-> 0, blk |-> blk]

\* Faulty variants, here and below, are definitions no other definition uses:
\* each is a mistake that the properties must notice when it takes the place of
\* the definition after it.
NextAgeUnbounded(t) == t + 1

NextAge(t) == IF t = AgeMax THEN -AgeMax - 1 ELSE t + 1

AgeAllButLast(set) ==                                               \* faulty
  [s \in Sets |-> [w \in Ways |->
     IF set[s][w].valid /\ w < Assoc - 1 THEN [set[s][w] EXCEPT !.visited_t = NextAge(@)]
                                         ELSE set[s][w]]]

AgeAll(set) ==
  [s \in Sets |-> [w \in Ways |->
     IF set[s][w].valid THEN [set[s][w] EXCEPT !.visited_t = NextAge(@)]
                        ELSE set[s][w]]]

\* The ways of a set that hold the tag; the code takes the first one.
ReplaceDecision(ways, tag) == {w \in Ways : ways[w].valid /\ ways[w].tag = tag}

\* The first invalid way, else the first of the ways of greatest age.
ReplaceAlgorithm(ways) ==
  LET invalid == {w \in Ways : ~ ways[w].valid}
      oldest  == {w \in Ways : \A v \in Ways : ways[v].visited_t <= ways[w].visited_t}
  IN  Min(IF invalid # {} THEN invalid ELSE oldest)

-----------------------------------------------------------------------------
(* HandleRequest.  st = [c |-> this level, low |-> the level below].        *)

CountTimeOfHits(c, set, hit) ==                                     \* faulty
  [set |-> set, access_counter |-> c.access_counter + 1,
   miss_num |-> c.miss_num + (1 - hit), access_time |-> c.access_time + hit * Latency]

Count(c, set, hit) ==
  [set            |-> set,
   access_counter |-> c.access_counter + 1,
   miss_num       |-> c.miss_num + (1 - hit),
   access_time    |-> c.access_time + Latency]

Answer(c, low, content, hit, time, exit) ==
  [st |-> [c |-> c, low |-> low], content |-> content,
   hit |-> hit, time |-> time, exit |-> exit]

ReadBlock(addr) ==
  [addr |-> BlockAddr(addr), bytes |-> BlockSize, read |-> TRUE, content |-> <<>>]
WriteBlockAsRead(addr, blk) ==                                      \* faulty
  [addr |-> addr, bytes |-> BlockSize, read |-> TRUE, content |-> blk]
WriteBlock(addr, blk) ==
  [addr |-> addr, bytes |-> BlockSize, read |-> FALSE, content |-> blk]

HitLeaving(c, set, low, rq, w, dirty, age) ==
  LET s    == SetIndex(rq.addr)
      line == [set[s][w] EXCEPT !.dirty = dirty, !.visited_t = age]
  IN  Answer(Count(c, [set EXCEPT ![s][w] = line], 1), low,
             Slice(line.blk, BlockOffset(rq.addr), rq.bytes), 1, Latency, FALSE)
ReadHitCleans(c, set, low, rq, w) ==                                \* faulty
  HitLeaving(c, set, low, rq, w, FALSE, 0)
ReadHitKeepsAge(c, set, low, rq, w) ==                              \* faulty
  LET line == set[SetIndex(rq.addr)][w]
  IN  HitLeaving(c, set, low, rq, w, line.dirty, line.visited_t)

ReadHit(c, set, low, rq, w) ==
  LET s    == SetIndex(rq.addr)
      line == [set[s][w] EXCEPT !.visited_t = 0]
  IN  Answer(Count(c, [set EXCEPT ![s][w] = line], 1), low,
             Slice(line.blk, BlockOffset(rq.addr), rq.bytes), 1, Latency, FALSE)

WriteHitHere(c, set, low, rq, w) ==                    \* faulty
  LET s    == SetIndex(rq.addr)
      line == [set[s][w] EXCEPT !.visited_t = 0, !.dirty = ~ WriteThrough,
                 !.blk = Patch(@, BlockOffset(rq.addr), rq.bytes, rq.content)]
  IN  Answer(Count(c, [set EXCEPT ![s][w] = line], 1), low, rq.content, 1, Latency, FALSE)

WriteHit(c, set, low, rq, w) ==
  LET s    == SetIndex(rq.addr)
      line == [set[s][w] EXCEPT
                 !.visited_t = 0,
                 !.dirty = ~ WriteThrough,
                 !.blk = Patch(@, BlockOffset(rq.addr), rq.bytes, rq.content)]
      c1   == Count(c, [set EXCEPT ![s][w] = line], 1)
  IN  IF WriteThrough
      THEN LET down == Lower(low, rq)
           IN  Answer(c1, down.st, rq.content, 1, Latency + down.time, down.exit)
      ELSE Answer(c1, low, rq.content, 1, Latency, FALSE)

\* A write that misses without write-allocate goes down and fills nothing.
WriteAround(c, set, low, rq) ==
  LET down == Lower(low, rq)
  IN  Answer(Count(c, set, 0), down.st, rq.content, 0, Latency + down.time, down.exit)

\* The block is fetched, then the dirty victim is written back, then the block
\* takes its way; with write-through an allocating write goes down once more.
Fill(c, set, low, rq, w) ==
  LET s      == SetIndex(rq.addr)
      o      == BlockOffset(rq.addr)
      victim == set[s][w]
      idle(l) == [st |-> l, time |-> 0, exit |-> FALSE]
      fetch  == Lower(low, ReadBlock(rq.addr))
      kick   == IF ~ WriteThrough /\ victim.valid /\ victim.dirty
                THEN Lower(fetch.st, WriteBlock(KickAddr(victim.tag, s), victim.blk))
                ELSE idle(fetch.st)
      down   == IF ~ rq.read /\ WriteThrough THEN Lower(kick.st, rq) ELSE idle(kick.st)
      blk    == IF rq.read THEN fetch.content
                ELSE Patch(fetch.content, o, rq.bytes, rq.content)
      line   == [valid |-> TRUE, dirty |-> ~ rq.read /\ ~ WriteThrough,
                 tag |-> Tag(rq.addr), visited_t |-> 0, blk |-> blk]
  IN  IF fetch.exit
      THEN Answer(c, low, rq.content, 0, 0, TRUE)
      ELSE Answer(Count(c, [set EXCEPT ![s][w] = line], 0), down.st,
                  Slice(blk, o, rq.bytes), 0,
                  Latency + fetch.time + kick.time + down.time,
                  kick.exit \/ down.exit)

HandleRequest(st, rq) ==
  LET c     == st.c
      set   == AgeAll(c.set)
      ways  == set[SetIndex(rq.addr)]
      match == ReplaceDecision(ways, Tag(rq.addr))
  IN  CASE match # {} /\ rq.read   -> ReadHit(c, set, st.low, rq, Min(match))
        [] match # {} /\ ~ rq.read -> WriteHit(c, set, st.low, rq, Min(match))
        [] match = {} /\ ~ rq.read /\ ~ WriteAllocate
                                   -> WriteAround(c, set, st.low, rq)
        [] OTHER -> Fill(c, set, st.low, rq, ReplaceAlgorithm(ways))

=============================================================================
