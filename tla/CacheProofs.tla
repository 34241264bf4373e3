---------------------------- MODULE CacheProofs ----------------------------
(***************************************************************************)
(* What holds of a cache level over a flat memory for every block size,    *)
(* number of sets and ways, write policy, latency and set of mapped        *)
(* addresses.  What one request does is proved in LevelProofs, over any    *)
(* level below that keeps its promise; here the flat memory keeps it.      *)
(* The second half is about replacement, as long as no age overflows.      *)
(***************************************************************************)
EXTENDS CacheLRU, TLAPS

\* The states of the level below, and the memory it shows: its bytes.
LowerOK(low) == low \in [Mapped -> Byte]
LowerMem(low) == low

OneLevel == INSTANCE LevelProofs WITH Lower <- LowerHandle

\* The lemmas of LevelProofs speak of the same operators.
LEMMA SameLevel ==
  /\ Offsets = OneLevel!Offsets /\ Sets = OneLevel!Sets /\ Ways = OneLevel!Ways
  /\ Level = OneLevel!Level
  /\ \A a : BlockOffset(a) = OneLevel!BlockOffset(a) /\ BlockAddr(a) = OneLevel!BlockAddr(a)
  /\ \A set, low : Coherent(set, low) <=> OneLevel!Coherent(set, low)
  /\ View = OneLevel!ViewOf(cache.set, lower) /\ View' = OneLevel!ViewOf(cache'.set, lower')
<1>1. /\ Offsets = OneLevel!Offsets /\ Sets = OneLevel!Sets /\ Ways = OneLevel!Ways
      /\ \A a : BlockOffset(a) = OneLevel!BlockOffset(a) /\ BlockAddr(a) = OneLevel!BlockAddr(a)
      /\ \A a : SetIndex(a) = OneLevel!SetIndex(a) /\ Tag(a) = OneLevel!Tag(a)
      /\ \A t, s : KickAddr(t, s) = OneLevel!KickAddr(t, s)
  BY DEF Offsets, Sets, Ways, BlockOffset, BlockAddr, SetIndex, Tag, KickAddr,
         OneLevel!Offsets, OneLevel!Sets, OneLevel!Ways, OneLevel!BlockOffset, OneLevel!BlockAddr,
         OneLevel!SetIndex, OneLevel!Tag, OneLevel!KickAddr
<1>2. Level = OneLevel!Level
  BY <1>1 DEF Level, Line, Age, OneLevel!Level, OneLevel!Line, OneLevel!Age
<1>3. \A set, low : Coherent(set, low) <=> OneLevel!Coherent(set, low)
  BY Zenon DEF Coherent, OneLevel!Coherent, Offsets, Sets, Ways, KickAddr,
         OneLevel!Offsets, OneLevel!Sets, OneLevel!Ways, OneLevel!KickAddr
<1>4. View = OneLevel!ViewOf(cache.set, lower) /\ View' = OneLevel!ViewOf(cache'.set, lower')
  BY Zenon DEF View, Holding, Min, BlockOffset, SetIndex, Tag, Ways, OneLevel!ViewOf,
         OneLevel!Min, OneLevel!BlockOffset, OneLevel!SetIndex, OneLevel!Tag, OneLevel!Ways
<1> QED BY <1>1, <1>2, <1>3, <1>4

\* So does the request.
LEMMA SameRequest ==
  ASSUME NEW st, NEW rq
  PROVE  HandleRequest(st, rq) = OneLevel!HandleRequest(st, rq)
BY Zenon DEF HandleRequest, AgeAll, NextAge, ReplaceDecision, ReplaceAlgorithm, Min,
  Fill, WriteAround, WriteHit, ReadHit, Answer, Count, ReadBlock, WriteBlock, Slice, Patch,
  SetIndex, Tag, BlockOffset, BlockAddr, KickAddr, Offsets, Sets, Ways,
  OneLevel!HandleRequest, OneLevel!AgeAll, OneLevel!NextAge, OneLevel!ReplaceDecision,
  OneLevel!ReplaceAlgorithm, OneLevel!Min, OneLevel!Fill, OneLevel!WriteAround, OneLevel!WriteHit,
  OneLevel!ReadHit, OneLevel!Answer, OneLevel!Count, OneLevel!ReadBlock, OneLevel!WriteBlock,
  OneLevel!Slice, OneLevel!Patch, OneLevel!SetIndex, OneLevel!Tag, OneLevel!BlockOffset,
  OneLevel!BlockAddr, OneLevel!KickAddr, OneLevel!Offsets, OneLevel!Sets, OneLevel!Ways

\* The constants are as the lemmas need them.
LEMMA SettingOK == OneLevel!Setting
<1>1. OneLevel!Parameters
  BY LevelAssumption DEF Parameters, OneLevel!Parameters
<1> QED BY <1>1, CacheAssumption, SameLevel DEF OneLevel!Setting

\* The flat memory below answers as one.
LEMMA FlatBelow == OneLevel!LowerPromise
<1>1. ASSUME NEW low, LowerOK(low)
      PROVE  /\ LowerMem(low) \in [Mapped -> Byte]
             /\ \A rq : OneLevel!RequestOK(rq) =>
                  /\ LowerHandle(low, rq).exit = (rq.addr \notin Mapped)
                  /\ rq.addr \in Mapped =>
                       /\ LowerOK(LowerHandle(low, rq).st)
                       /\ LowerMem(LowerHandle(low, rq).st) = OneLevel!After(LowerMem(low), rq)
                       /\ LowerHandle(low, rq).content = OneLevel!Given(LowerMem(low), rq)
                       /\ LowerHandle(low, rq).time \in Nat
  <2>1. low \in [Mapped -> Byte]
    BY <1>1 DEF LowerOK
  <2>2. ASSUME NEW rq, OneLevel!RequestOK(rq), rq.addr \notin Mapped
        PROVE  LowerHandle(low, rq).exit = TRUE
    BY <2>2 DEF LowerHandle
  <2>3. ASSUME NEW rq, OneLevel!RequestOK(rq), rq.addr \in Mapped
        PROVE  /\ LowerHandle(low, rq).exit = FALSE
               /\ LowerHandle(low, rq).st \in [Mapped -> Byte]
               /\ LowerHandle(low, rq).st = OneLevel!After(low, rq)
               /\ LowerHandle(low, rq).content = OneLevel!Given(low, rq)
               /\ LowerHandle(low, rq).time \in Nat
    <3>1. /\ LowerHandle(low, rq).exit = FALSE /\ LowerHandle(low, rq).time = LowerLatency
          /\ LowerHandle(low, rq).st = OneLevel!After(low, rq)
          /\ LowerHandle(low, rq).content = OneLevel!Given(low, rq)
      BY <2>3 DEF LowerHandle, OneLevel!After, OneLevel!Given, OneLevel!Patched, OneLevel!Bytes
    <3>2. OneLevel!After(low, rq) \in [Mapped -> Byte]
      BY <2>1, <2>3, SettingOK, OneLevel!PatchedType DEF OneLevel!After, OneLevel!RequestOK
    <3> QED BY <3>1, <3>2, CacheAssumption
  <2> QED BY <2>1, <2>2, <2>3 DEF LowerOK, LowerMem
<1> QED BY <1>1 DEF OneLevel!LowerPromise

-----------------------------------------------------------------------------
\* The inductive invariant.  TypeOK alone is not inductive about the answers: a
\* block held twice, or a stale clean line, would let a request lose a byte.
IInv == TypeOK /\ Coherent(cache.set, lower)

\* SetConfig leaves every line invalid, whatever bytes its block has.
LEMMA InitIInv == Init => IInv
<1> SUFFICES ASSUME Init PROVE IInv
  OBVIOUS
<1>1. PICK junk \in [Offsets -> Byte] :
        cache = [set            |-> [s \in Sets |-> [w \in Ways |-> EmptyLine(junk)]],
                 access_counter |-> 0, miss_num |-> 0, access_time |-> 0]
  BY DEF Init
<1>2. EmptyLine(junk) \in Line /\ ~ EmptyLine(junk).valid
  BY LevelAssumption DEF EmptyLine, Line, Age, Parameters
<1>3. cache \in Level
  BY <1>1, <1>2 DEF Level
<1>4. Coherent(cache.set, lower)
  BY <1>1, <1>2 DEF Coherent
<1>5. resp.content \in UNION {[0 .. n - 1 -> Byte] : n \in 0 .. BlockSize}
  BY SettingOK, OneLevel!NoContent DEF Init
<1> QED BY <1>3, <1>4, <1>5 DEF IInv, TypeOK, Init

\* The cache over the level below, as HandleRequest takes them.
Storage == [c |-> cache, low |-> lower]

\* In a state of the invariant the promise of the level holds, and it is about
\* what the caller sees.
LEMMA StorageOK ==
  ASSUME IInv
  PROVE  OneLevel!StorageOK(Storage) /\ OneLevel!StorageMem(Storage) = View
<1>1. Storage.c = cache /\ Storage.low = lower
  BY DEF Storage
<1> QED
  BY <1>1, SameLevel DEF IInv, TypeOK, LowerOK, LowerMem, OneLevel!StorageOK, OneLevel!StorageMem

\* One call of HandleRequest from a state of the invariant.
LEMMA RequestStep ==
  ASSUME IInv, NEW rq, OneLevel!RequestOK(rq), Request(rq)
  PROVE  /\ IInv'
         /\ status = "running"
         /\ IF rq.addr \notin Mapped
            THEN status' = "exit" /\ UNCHANGED <<cache, lower, resp>>
            ELSE /\ status' = status
                 /\ resp' = [addr |-> rq.addr, read |-> rq.read,
                             content |-> OneLevel!Given(View, rq)]
                 /\ View' = OneLevel!After(View, rq)
<1> DEFINE r == HandleRequest(Storage, rq)
<1>1. /\ View \in [Mapped -> Byte]
      /\ r.exit = (rq.addr \notin Mapped)
      /\ rq.addr \in Mapped =>
           /\ OneLevel!StorageOK(r.st) /\ OneLevel!StorageMem(r.st) = OneLevel!After(View, rq)
           /\ r.content = OneLevel!Given(View, rq) /\ r.time \in Nat
  BY StorageOK, SettingOK, FlatBelow, SameRequest, OneLevel!Promise
<1>2. /\ status = "running"
      /\ IF r.exit
         THEN status' = "exit" /\ UNCHANGED <<cache, lower, resp, time>>
         ELSE /\ cache' = r.st.c
              /\ lower' = r.st.low
              /\ resp' = [addr |-> rq.addr, read |-> rq.read, content |-> r.content]
              /\ time' = time + r.time
              /\ UNCHANGED status
  BY DEF Request, Storage
<1> HIDE DEF r
<1>3. CASE rq.addr \notin Mapped
  <2>1. status' = "exit" /\ UNCHANGED <<cache, lower, resp, time>>
    BY <1>1, <1>2, <1>3
  <2>2. IInv'
    BY <2>1 DEF IInv, TypeOK
  <2> QED BY <1>2, <1>3, <2>1, <2>2
<1>4. CASE rq.addr \in Mapped
  <2>1. /\ cache' = r.st.c /\ lower' = r.st.low /\ time' = time + r.time /\ status' = status
        /\ resp' = [addr |-> rq.addr, read |-> rq.read, content |-> OneLevel!Given(View, rq)]
    BY <1>1, <1>2, <1>4
  <2>2. /\ cache' \in Level /\ lower' \in [Mapped -> Byte] /\ Coherent(cache'.set, lower')
        /\ OneLevel!ViewOf(cache'.set, lower') = OneLevel!After(View, rq)
    BY <1>1, <1>4, <2>1, SameLevel DEF LowerOK, LowerMem, OneLevel!StorageOK, OneLevel!StorageMem
  <2>3. OneLevel!Given(View, rq) \in UNION {[0 .. n - 1 -> Byte] : n \in 0 .. BlockSize}
    BY <1>1, <1>4, SettingOK, OneLevel!GivenType
  <2>4. resp' \in [addr : Nat, read : BOOLEAN,
                   content : UNION {[0 .. n - 1 -> Byte] : n \in 0 .. BlockSize}]
    BY <2>1, <2>3 DEF OneLevel!RequestOK
  <2>5. time' \in Nat
    BY <1>1, <1>4, <2>1 DEF IInv, TypeOK
  <2>6. IInv'
    BY <2>1, <2>2, <2>4, <2>5 DEF IInv, TypeOK
  <2>7. View' = OneLevel!After(View, rq)
    BY <2>2, SameLevel
  <2> QED BY <1>2, <1>4, <2>1, <2>6, <2>7
<1> QED BY <1>3, <1>4

\* The accesses the specification makes stay inside their blocks.
LEMMA AccessOK ==
  ASSUME NEW access \in Accesses
  PROVE  /\ OneLevel!RequestOK([addr |-> access[1], bytes |-> access[2], read |-> TRUE,
                              content |-> << >>])
         /\ \A content \in [0 .. access[2] - 1 -> Byte] :
              OneLevel!RequestOK([addr |-> access[1], bytes |-> access[2], read |-> FALSE,
                                  content |-> content])
BY CacheAssumption, SameLevel DEF OneLevel!RequestOK

\* Every step preserves the invariant.
LEMMA NextIInv == IInv /\ [Next]_vars => IInv'
<1> SUFFICES ASSUME IInv, [Next]_vars PROVE IInv'
  OBVIOUS
<1>1. CASE UNCHANGED vars
  BY <1>1 DEF IInv, TypeOK, vars
<1>2. ASSUME NEW access \in Accesses, Read(access[1], access[2]) PROVE IInv'
  BY <1>2, AccessOK, RequestStep DEF Read
<1>3. ASSUME NEW access \in Accesses, Write(access[1], access[2]) PROVE IInv'
  BY <1>3, AccessOK, RequestStep DEF Write
<1> QED BY <1>1, <1>2, <1>3 DEF Next

\* The invariant holds in every state of the level.
THEOREM Inductive == Spec => []IInv
BY InitIInv, NextIInv, PTL DEF Spec

\* Type correctness: no request leaves an ill-formed line, whatever the victim and
\* whatever its age, and an answer never has more bytes than a block.
THEOREM TypeCorrect == Spec => []TypeOK
<1>1. IInv => TypeOK
  BY DEF IInv
<1> QED BY <1>1, Inductive, PTL

\* No block is held twice, no clean line is stale, no unmapped block is held and
\* write-through keeps every line clean (HandleRequest as a whole).
THEOREM Coherence == Spec => []LinesAreCoherent
<1>1. IInv => LinesAreCoherent
  BY DEF IInv, LinesAreCoherent
<1> QED BY <1>1, Inductive, PTL

\* With write-through the level below is up to date (cache.cpp:58-65, 112-119).
THEOREM WrittenThrough == Spec => []LowerIsCurrent
<1>1. IInv => LowerIsCurrent
  <2> SUFFICES ASSUME IInv, WriteThrough PROVE View = lower
    BY DEF LowerIsCurrent
  <2>1. /\ cache.set \in OneLevel!SetType /\ lower \in [Mapped -> Byte]
        /\ OneLevel!Coherent(cache.set, lower)
    BY SameLevel DEF IInv, TypeOK, OneLevel!Level, OneLevel!SetType
  <2>2. OneLevel!Sees(cache.set, lower, lower)
    BY <2>1, SettingOK, OneLevel!CleanLinesShowBelow
  <2>3. OneLevel!Sees(cache.set, lower, View)
    BY <2>1, SameLevel, SettingOK, OneLevel!ViewIsSeen
  <2> QED BY <2>2, <2>3, SettingOK, OneLevel!SeesOneMemory
<1> QED BY <1>1, Inductive, PTL

\* The initial view is a memory of arbitrary bytes.
LEMMA InitFlat == Init => Flat!Init
<1> SUFFICES ASSUME Init PROVE Flat!Init
  OBVIOUS
<1>1. IInv
  BY InitIInv
<1>2. View \in [Mapped -> Byte]
  BY <1>1, StorageOK, SettingOK, FlatBelow, OneLevel!Promise
<1> QED BY <1>2 DEF Init, Flat!Init, Flat!NoResponse

\* Every step of the level is a step of the flat memory, or a stutter.
LEMMA NextFlat == IInv /\ [Next]_vars => [Flat!Next]_(Flat!vars)
<1> SUFFICES ASSUME IInv, [Next]_vars PROVE [Flat!Next]_(Flat!vars)
  OBVIOUS
<1>0. View = OneLevel!ViewOf(cache.set, lower) /\ View' = OneLevel!ViewOf(cache'.set, lower')
  BY SameLevel
<1>4. ASSUME NEW a \in Nat, NEW n \in Nat \ {0}, BlockOffset(a) + n <= BlockSize
      PROVE  a \in Mapped <=> a .. a + n - 1 \subseteq Mapped
  BY <1>4, SameLevel, SettingOK, OneLevel!MappedSpan
<1>1. CASE UNCHANGED vars
  <2>1. View' = View
    BY <1>0, <1>1 DEF vars
  <2> QED BY <1>1, <2>1 DEF vars, Flat!vars
<1>2. ASSUME NEW access \in Accesses, Read(access[1], access[2]) PROVE Flat!Next
  <2> DEFINE a == access[1]
             n == access[2]
             rq == [addr |-> a, bytes |-> n, read |-> TRUE, content |-> << >>]
  <2>1. OneLevel!RequestOK(rq) /\ Request(rq)
    BY <1>2, AccessOK DEF Read
  <2>2. a \in Nat /\ n \in Nat \ {0} /\ BlockOffset(a) + n <= BlockSize
    BY CacheAssumption
  <2>3. CASE a \notin Mapped
    <3>1. Flat!Exit(a, n)
      <4>1. status = "running" /\ status' = "exit" /\ UNCHANGED <<cache, lower, resp>>
        BY <2>1, <2>3, RequestStep
      <4>2. View' = View
        BY <4>1, <1>0
      <4>3. ~ (a .. a + n - 1 \subseteq Mapped)
        BY <1>4, <2>2, <2>3
      <4> QED BY <2>3, <4>1, <4>2, <4>3 DEF Flat!Exit, Flat!Span
    <3> QED BY <3>1 DEF Flat!Next
  <2>4. CASE a \in Mapped
    <3>1. Flat!Read(a, n)
      <4>1. /\ status = "running" /\ status' = status
            /\ resp' = [addr |-> a, read |-> TRUE, content |-> OneLevel!Given(View, rq)]
            /\ View' = OneLevel!After(View, rq)
        BY <2>1, <2>4, <1>0, RequestStep
      <4>2. /\ OneLevel!Given(View, rq) = [i \in 0 .. n - 1 |-> View[a + i]]
            /\ OneLevel!After(View, rq) = View
        BY DEF OneLevel!Given, OneLevel!After, OneLevel!Bytes
      <4>3. a .. a + n - 1 \subseteq Mapped
        BY <1>4, <2>2, <2>4
      <4> QED BY <4>1, <4>2, <4>3 DEF Flat!Read, Flat!Span
    <3> QED BY <3>1 DEF Flat!Next
  <2> QED BY <2>3, <2>4
<1>3. ASSUME NEW access \in Accesses, Write(access[1], access[2]) PROVE Flat!Next
  <2> DEFINE a == access[1]
             n == access[2]
  <2>0. PICK content \in [0 .. n - 1 -> Byte] :
          Request([addr |-> a, bytes |-> n, read |-> FALSE, content |-> content])
    BY <1>3 DEF Write
  <2> DEFINE rq == [addr |-> a, bytes |-> n, read |-> FALSE, content |-> content]
  <2>1. OneLevel!RequestOK(rq) /\ Request(rq)
    BY <2>0, AccessOK
  <2>2. a \in Nat /\ n \in Nat \ {0} /\ BlockOffset(a) + n <= BlockSize
    BY CacheAssumption
  <2>3. CASE a \notin Mapped
    <3>1. Flat!Exit(a, n)
      <4>1. status = "running" /\ status' = "exit" /\ UNCHANGED <<cache, lower, resp>>
        BY <2>1, <2>3, RequestStep
      <4>2. View' = View
        BY <4>1, <1>0
      <4>3. ~ (a .. a + n - 1 \subseteq Mapped)
        BY <1>4, <2>2, <2>3
      <4> QED BY <2>3, <4>1, <4>2, <4>3 DEF Flat!Exit, Flat!Span
    <3> QED BY <3>1 DEF Flat!Next
  <2>4. CASE a \in Mapped
    <3>1. Flat!Write(a, n, content)
      <4>1. /\ status = "running" /\ status' = status
            /\ resp' = [addr |-> a, read |-> FALSE, content |-> OneLevel!Given(View, rq)]
            /\ View' = OneLevel!After(View, rq)
        BY <2>1, <2>4, <1>0, RequestStep
      <4>2. /\ OneLevel!Given(View, rq) = content
            /\ OneLevel!After(View, rq) = OneLevel!Patched(View, a, n, content)
        BY DEF OneLevel!Given, OneLevel!After
      <4>3. a .. a + n - 1 \subseteq Mapped
        BY <1>4, <2>2, <2>4
      <4> QED BY <4>1, <4>2, <4>3 DEF Flat!Write, Flat!Span, OneLevel!Patched
    <3> QED BY <3>1 DEF Flat!Next
  <2> QED BY <2>3, <2>4
<1> QED BY <1>1, <1>2, <1>3 DEF Next

\* A cache level implements a flat memory: its caller cannot tell that blocks are
\* fetched, aged, evicted and written back (HandleRequest as a whole).
THEOREM Refinement == Spec => FlatSpec
<1> QED BY InitFlat, NextFlat, Inductive, PTL DEF Spec, FlatSpec, Flat!Spec

-----------------------------------------------------------------------------
(* Replacement is least recently used.  Ages are compared within a set but   *)
(* advanced by every request of the level.  The invariant is that they are   *)
(* distinct within a set and no greater than the number of requests; then    *)
(* ageing keeps every order, and a line whose age is cleared comes before    *)
(* all others.                                                               *)

\* Ages count the requests since a line was used, so none exceeds their number.
AgesCount ==
  \A s \in Sets : \A w \in Taken(cache.set[s]) :
    cache.set[s][w].visited_t \in 0 .. cache.access_counter

\* The bound the theorems are about: with more requests an age can wrap, and the
\* order of ages is no order of recency any more (cache.cpp:27).
NoOverflow == MaxAccesses <= AgeMax

\* The inductive invariant: ages order the lines of a set, and no age has wrapped.
LRUInv == IInv /\ AgesCount /\ NoTies

-----------------------------------------------------------------------------
(* One set: ageing it, and giving one of its ways to a tag. *)

Untied(ways) ==
  \A v, w \in Taken(ways) : v # w => ways[v].visited_t # ways[w].visited_t
Unique(ways) ==
  \A v, w \in Taken(ways) : ways[v].tag = ways[w].tag => v = w

\* The order of recency, of one pair.
LEMMA LaterMeans ==
  ASSUME NEW ways, NEW t, NEW u
  PROVE  <<t, u>> \in Later(ways) <=>
           \E v, w \in Taken(ways) : /\ ways[v].tag = t /\ ways[w].tag = u
                                     /\ ways[v].visited_t < ways[w].visited_t
<1>1. ASSUME <<t, u>> \in Later(ways)
      PROVE  \E v, w \in Taken(ways) : /\ ways[v].tag = t /\ ways[w].tag = u
                                       /\ ways[v].visited_t < ways[w].visited_t
  <2>1. PICK x \in Taken(ways) \X Taken(ways) :
          /\ ways[x[1]].visited_t < ways[x[2]].visited_t
          /\ <<t, u>> = <<ways[x[1]].tag, ways[x[2]].tag>>
    BY <1>1 DEF Later
  <2> WITNESS x[1] \in Taken(ways), x[2] \in Taken(ways)
  <2> QED BY <2>1
<1>2. ASSUME NEW v \in Taken(ways), NEW w \in Taken(ways), ways[v].tag = t, ways[w].tag = u,
             ways[v].visited_t < ways[w].visited_t
      PROVE  <<t, u>> \in Later(ways)
  <2> DEFINE x == <<v, w>>
  <2>1. /\ x \in Taken(ways) \X Taken(ways) /\ ways[x[1]].visited_t < ways[x[2]].visited_t
        /\ <<t, u>> = <<ways[x[1]].tag, ways[x[2]].tag>>
    BY <1>2
  <2> HIDE DEF x
  <2> QED BY <2>1 DEF Later
<1> QED BY <1>1, <1>2

\* Only tags that are held are in the order.
LEMMA LaterOfHeld ==
  ASSUME NEW ways
  PROVE  /\ Later(ways) \subseteq Held(ways) \X Held(ways)
         /\ \A p \in Later(ways) : p = <<p[1], p[2]>>
BY DEF Later, Held

\* Lines that are older by the same amount are ordered as before.
LEMMA SameOrder ==
  ASSUME NEW ways, NEW aged,
         Taken(aged) = Taken(ways),
         \A w \in Taken(ways) : aged[w].tag = ways[w].tag,
         \A v, w \in Taken(ways) : aged[v].visited_t < aged[w].visited_t
                                    <=> ways[v].visited_t < ways[w].visited_t
  PROVE  Held(aged) = Held(ways) /\ Later(aged) = Later(ways)
<1>1. Held(aged) = Held(ways)
  BY DEF Held
<1>2. ASSUME NEW t, NEW u PROVE <<t, u>> \in Later(aged) <=> <<t, u>> \in Later(ways)
  BY <1>2, LaterMeans
<1>3. ASSUME NEW p, p \in Later(aged) PROVE p \in Later(ways)
  BY <1>2, <1>3, LaterOfHeld
<1>4. ASSUME NEW p, p \in Later(ways) PROVE p \in Later(aged)
  BY <1>2, <1>4, LaterOfHeld
<1> QED BY <1>1, <1>3, <1>4

\* Min of a set of ways is one of them.
LEMMA LeastOf ==
  ASSUME NEW S \in SUBSET Nat, S # {}
  PROVE  Min(S) \in S
BY OneLevel!SmallestExists DEF Min

\* A way has an age no other exceeds.
LEMMA OldestExists ==
  ASSUME NEW ways \in [Ways -> Line]
  PROVE  \E w \in Ways : \A v \in Ways : ways[v].visited_t <= ways[w].visited_t
<1> DEFINE youth == {AgeMax - ways[w].visited_t : w \in Ways}
<1>1. AgeMax \in Nat /\ Assoc \in Nat \ {0}
  BY LevelAssumption DEF Parameters
<1>2. \A w \in Ways : ways[w].visited_t \in Int /\ AgeMax - ways[w].visited_t \in Nat
  BY <1>1 DEF Line, Age
<1>3. youth \in SUBSET Nat /\ youth # {}
  BY <1>1, <1>2 DEF Ways
<1>4. PICK x \in youth : \A y \in youth : x <= y
  BY <1>3, OneLevel!SmallestExists
<1>5. PICK w \in Ways : x = AgeMax - ways[w].visited_t
  BY <1>4
<1>6. \A v \in Ways : AgeMax - ways[w].visited_t <= AgeMax - ways[v].visited_t
  BY <1>4, <1>5
<1> QED BY <1>1, <1>2, <1>6

\* ReplaceAlgorithm takes a free way, or the one of greatest age
\* (cache.cpp:186-215).
LEMMA Victim ==
  ASSUME NEW ways \in [Ways -> Line]
  PROVE  LET w == ReplaceAlgorithm(ways)
         IN  /\ w \in Ways
             /\ Taken(ways) # Ways => w \notin Taken(ways)
             /\ Taken(ways) = Ways => \A v \in Ways : ways[v].visited_t <= ways[w].visited_t
<1> DEFINE invalid == {w \in Ways : ~ ways[w].valid}
           oldest  == {w \in Ways : \A v \in Ways : ways[v].visited_t <= ways[w].visited_t}
           S       == IF invalid # {} THEN invalid ELSE oldest
<1>1. S \in SUBSET Nat /\ S # {}
  BY OldestExists, LevelAssumption DEF Ways, Parameters
<1>2. Min(S) \in S
  BY <1>1, LeastOf
<1>3. ReplaceAlgorithm(ways) = Min(S)
  BY DEF ReplaceAlgorithm
<1>4. Taken(ways) = Ways <=> invalid = {}
  BY DEF Taken
<1> QED BY <1>2, <1>3, <1>4 DEF Taken

\* What stays when tag is used in the way w: the lines of all other ways.
LEMMA StaysMeans ==
  ASSUME NEW ways \in [Ways -> Line], Untied(ways), Unique(ways), NEW tag, NEW w,
         IF tag \in Held(ways) THEN w \in Taken(ways) /\ ways[w].tag = tag
         ELSE w = ReplaceAlgorithm(ways)
  PROVE  Stays(ways, tag) = {ways[v].tag : v \in Taken(ways) \ {w}}
<1> DEFINE others == {ways[v].tag : v \in Taken(ways) \ {w}}
<1>1. CASE tag \in Held(ways)
  <2>1. Stays(ways, tag) = Held(ways) \ {tag}
    BY <1>1 DEF Stays
  <2> QED BY <1>1, <2>1 DEF Held, Unique
<1>2. CASE tag \notin Held(ways) /\ Taken(ways) # Ways
  <2>1. Stays(ways, tag) = Held(ways) /\ w \notin Taken(ways)
    BY <1>2, Victim DEF Stays
  <2> QED BY <2>1 DEF Held
<1>3. CASE tag \notin Held(ways) /\ Taken(ways) = Ways
  <2>1. Stays(ways, tag) = {t \in Held(ways) : \E u \in Held(ways) : <<t, u>> \in Later(ways)}
    BY <1>3 DEF Stays
  <2>2. /\ w \in Taken(ways)
        /\ \A v \in Taken(ways) : ways[v].visited_t <= ways[w].visited_t
    BY <1>3, Victim
  <2>3. \A v \in Taken(ways) : ways[v].visited_t \in Int
    BY LevelAssumption DEF Taken, Line, Age, Parameters
  <2>4. ASSUME NEW v \in Taken(ways), v # w
        PROVE  ways[v].tag \in Stays(ways, tag)
    <3>1. ways[v].visited_t < ways[w].visited_t
      BY <2>2, <2>3, <2>4 DEF Untied
    <3>2. <<ways[v].tag, ways[w].tag>> \in Later(ways)
      BY <2>2, <3>1, LaterMeans
    <3> QED BY <2>1, <2>2, <3>2 DEF Held
  <2>5. ASSUME NEW t \in Stays(ways, tag)
        PROVE  t \in others
    <3>1. PICK u : <<t, u>> \in Later(ways)
      BY <2>1
    <3>2. PICK v \in Taken(ways), x \in Taken(ways) :
            ways[v].tag = t /\ ways[v].visited_t < ways[x].visited_t
      BY <3>1, LaterMeans
    <3>3. v # w
      BY <2>2, <2>3, <3>2
    <3> QED BY <3>2, <3>3
  <2> QED BY <2>4, <2>5
<1> QED BY <1>1, <1>2, <1>3

\* What RecencyStep says of the set in which tag is used.
UsedFirst(now, then, tag) ==
  LET stays == Stays(now, tag)
  IN  /\ Held(then) = {tag} \cup stays
      /\ Later(then) = ({tag} \X stays) \cup (Later(now) \cap (stays \X stays))

\* A way that is given to tag with a cleared age puts it before all that stays.
LEMMA UsedOrder ==
  ASSUME NEW ways \in [Ways -> Line], Untied(ways), Unique(ways), NEW tag, NEW w \in Ways,
         IF tag \in Held(ways) THEN w \in Taken(ways) /\ ways[w].tag = tag
         ELSE w = ReplaceAlgorithm(ways),
         \A v \in Taken(ways) : ways[v].visited_t \in Nat \ {0},
         NEW line, line.valid, line.tag = tag, line.visited_t = 0
  PROVE  LET then == [ways EXCEPT ![w] = line]
         IN  /\ Untied(then) /\ UsedFirst(ways, then, tag)
             /\ Taken(then) = Taken(ways) \cup {w}
<1> DEFINE then   == [ways EXCEPT ![w] = line]
           stays  == Stays(ways, tag)
           others == Taken(ways) \ {w}
<1>1. stays = {ways[v].tag : v \in others}
  BY StaysMeans
<1>2. /\ then[w] = line /\ Taken(then) = others \cup {w}
      /\ \A v \in others : then[v] = ways[v]
  BY DEF Taken
<1>3. \A v \in others : ways[v].tag # tag
  BY DEF Held, Unique
<1>4. \A v \in others : then[v].visited_t \in Nat \ {0}
  BY <1>2
<1> HIDE DEF then, stays
<1>5. Untied(then)
  BY <1>2, <1>4 DEF Untied
<1>6. Held(then) = {tag} \cup stays
  BY <1>1, <1>2 DEF Held
<1>7. ASSUME NEW t, NEW u
      PROVE  <<t, u>> \in Later(then) <=>
               <<t, u>> \in ({tag} \X stays) \cup (Later(ways) \cap (stays \X stays))
  <2>1. ASSUME NEW v \in Taken(then), NEW x \in Taken(then), then[v].tag = t, then[x].tag = u,
               then[v].visited_t < then[x].visited_t
        PROVE  <<t, u>> \in ({tag} \X stays) \cup (Later(ways) \cap (stays \X stays))
    <3>1. x \in others
      BY <1>2, <1>4, <2>1
    <3>2. CASE v = w
      BY <1>1, <1>2, <2>1, <3>1, <3>2
    <3>3. CASE v # w
      <4>1. v \in others /\ <<t, u>> \in Later(ways)
        BY <1>2, <2>1, <3>1, <3>3, LaterMeans
      <4> QED BY <1>1, <1>2, <2>1, <3>1, <4>1
    <3> QED BY <3>2, <3>3
  <2>2. ASSUME t = tag, u \in stays PROVE <<t, u>> \in Later(then)
    <3>1. PICK x \in others : ways[x].tag = u
      BY <1>1, <2>2
    <3>2. then[w].visited_t < then[x].visited_t /\ then[w].tag = t /\ then[x].tag = u
      BY <1>2, <1>4, <2>2, <3>1
    <3> QED BY <1>2, <3>1, <3>2, LaterMeans
  <2>3. ASSUME <<t, u>> \in Later(ways), t \in stays, u \in stays PROVE <<t, u>> \in Later(then)
    <3>1. PICK v \in Taken(ways), x \in Taken(ways) :
            ways[v].tag = t /\ ways[x].tag = u /\ ways[v].visited_t < ways[x].visited_t
      BY <2>3, LaterMeans
    <3>2. v \in others /\ x \in others
      BY <1>1, <2>3, <3>1 DEF Unique
    <3> QED BY <1>2, <3>1, <3>2, LaterMeans
  <2> QED BY <2>1, <2>2, <2>3, LaterMeans
<1>8. Later(then) = ({tag} \X stays) \cup (Later(ways) \cap (stays \X stays))
  BY <1>7, LaterOfHeld
<1> QED BY <1>2, <1>5, <1>6, <1>8 DEF then, stays, UsedFirst

-----------------------------------------------------------------------------
(* A request, and the invariant. *)

\* Ageing keeps the lines, and makes every age one greater that is not the last one.
LEMMA AgedType ==
  ASSUME NEW set \in [Sets -> [Ways -> Line]]
  PROVE  /\ AgeAll(set) \in [Sets -> [Ways -> Line]]
         /\ \A s \in Sets : \A w \in Ways :
              /\ AgeAll(set)[s][w].valid = set[s][w].valid
              /\ AgeAll(set)[s][w].tag = set[s][w].tag
              /\ set[s][w].valid /\ set[s][w].visited_t < AgeMax =>
                   AgeAll(set)[s][w].visited_t = set[s][w].visited_t + 1
<1>1. AgeMax \in Nat /\ \A t \in Age : NextAge(t) \in Age /\ (t < AgeMax => NextAge(t) = t + 1)
  BY LevelAssumption DEF Age, NextAge, Parameters
<1>2. ASSUME NEW line \in Line
      PROVE  LET aged == [line EXCEPT !.visited_t = NextAge(@)]
             IN  /\ aged \in Line /\ aged.valid = line.valid /\ aged.tag = line.tag
                 /\ line.visited_t < AgeMax => aged.visited_t = line.visited_t + 1
  BY <1>1, <1>2 DEF Line
<1> QED BY <1>2 DEF AgeAll

\* The lines with one of them replaced.
Replaced(set, s, w, line) == [set EXCEPT ![s][w] = line]

\* The level an answer leaves, and what it has counted.
LEMMA AnswerKeeps ==
  \A c, low, content, hit, time_, exit :
    Answer(c, low, content, hit, time_, exit).st.c = c
BY DEF Answer

LEMMA CountKeeps ==
  \A c, set, hit : Count(c, set, hit).set = set
                   /\ Count(c, set, hit).access_counter = c.access_counter + 1
BY DEF Count

\* A hit clears the age of the line it finds and keeps its tag.
LEMMA HitAnswer ==
  ASSUME NEW c, NEW set, NEW low, NEW rq, NEW w,
         set[SetIndex(rq.addr)][w] \in Line, set[SetIndex(rq.addr)][w].valid
  PROVE  \A r \in {ReadHit(c, set, low, rq, w), WriteHit(c, set, low, rq, w)} :
           \E line : /\ line.valid /\ line.tag = set[SetIndex(rq.addr)][w].tag
                     /\ line.visited_t = 0
                     /\ r.st.c = Count(c, Replaced(set, SetIndex(rq.addr), w, line), 1)
<1> DEFINE old   == set[SetIndex(rq.addr)][w]
           blk   == Patch(old.blk, BlockOffset(rq.addr), rq.bytes, rq.content)
           read  == [old EXCEPT !.visited_t = 0]
           write == [old EXCEPT !.visited_t = 0, !.dirty = ~ WriteThrough, !.blk = blk]
           down  == LowerHandle(low, rq)
           Counts(line) == Count(c, Replaced(set, SetIndex(rq.addr), w, line), 1)
<1>1. read.valid /\ read.tag = old.tag /\ read.visited_t = 0
  BY DEF Line
<1>2. write.valid /\ write.tag = old.tag /\ write.visited_t = 0
  <2> HIDE DEF blk
  <2> QED BY DEF Line
<1>3. ReadHit(c, set, low, rq, w)
        = Answer(Counts(read), low, Slice(read.blk, BlockOffset(rq.addr), rq.bytes), 1, Latency, FALSE)
  BY Zenon DEF ReadHit, Replaced
<1>4. WriteHit(c, set, low, rq, w)
        = IF WriteThrough
          THEN Answer(Counts(write), down.st, rq.content, 1, Latency + down.time, down.exit)
          ELSE Answer(Counts(write), low, rq.content, 1, Latency, FALSE)
  BY Zenon DEF WriteHit, Replaced
<1> HIDE DEF old, blk, read, write, down, Counts
<1>5. ReadHit(c, set, low, rq, w).st.c = Counts(read)
  BY <1>3 DEF Answer
<1>6. WriteHit(c, set, low, rq, w).st.c = Counts(write)
  <2>1. CASE WriteThrough
    BY <1>4, <2>1, AnswerKeeps
  <2>2. CASE ~ WriteThrough
    BY <1>4, <2>2 DEF Answer
  <2> QED BY <2>1, <2>2
<1> QED BY <1>1, <1>2, <1>5, <1>6 DEF old, Counts

\* A block that is fetched takes its way unless the process has ended.
LEMMA FillAnswer ==
  ASSUME NEW c, NEW set, NEW low, NEW rq, NEW w, ~ Fill(c, set, low, rq, w).exit
  PROVE  \E line : /\ line.valid /\ line.tag = Tag(rq.addr) /\ line.visited_t = 0
                   /\ Fill(c, set, low, rq, w).st.c
                        = Count(c, Replaced(set, SetIndex(rq.addr), w, line), 0)
<1> DEFINE s      == SetIndex(rq.addr)
           victim == set[s][w]
           idle(l) == [st |-> l, time |-> 0, exit |-> FALSE]
           fetch  == LowerHandle(low, ReadBlock(rq.addr))
           kick   == IF ~ WriteThrough /\ victim.valid /\ victim.dirty
                     THEN LowerHandle(fetch.st, WriteBlock(KickAddr(victim.tag, s), victim.blk))
                     ELSE idle(fetch.st)
           down   == IF ~ rq.read /\ WriteThrough THEN LowerHandle(kick.st, rq) ELSE idle(kick.st)
           blk    == IF rq.read THEN fetch.content
                     ELSE Patch(fetch.content, BlockOffset(rq.addr), rq.bytes, rq.content)
           line   == [valid |-> TRUE, dirty |-> ~ rq.read /\ ~ WriteThrough,
                      tag |-> Tag(rq.addr), visited_t |-> 0, blk |-> blk]
           filled == Count(c, Replaced(set, s, w, line), 0)
<1>1. Fill(c, set, low, rq, w)
        = IF fetch.exit THEN Answer(c, low, rq.content, 0, 0, TRUE)
          ELSE Answer(filled, down.st, Slice(blk, BlockOffset(rq.addr), rq.bytes), 0,
                      Latency + fetch.time + kick.time + down.time, kick.exit \/ down.exit)
  BY Zenon DEF Fill, Replaced
<1>2. line.valid /\ line.tag = Tag(rq.addr) /\ line.visited_t = 0
  OBVIOUS
<1> HIDE DEF fetch, kick, down, blk, filled
<1>3. ~ fetch.exit
  BY <1>1 DEF Answer
<1>4. Fill(c, set, low, rq, w).st.c = filled
  BY <1>1, <1>3, AnswerKeeps
<1> QED BY <1>2, <1>4 DEF filled

\* What a request does to the lines: all are aged, and unless it is a write that
\* misses and does not allocate, one way of its set is given to its tag.
LEMMA RequestLines ==
  ASSUME TypeOK, NEW rq, OneLevel!RequestOK(rq),
         ~ HandleRequest(Storage, rq).exit, cache' = HandleRequest(Storage, rq).st.c
  PROVE  LET set  == AgeAll(cache.set)
             ways == set[SetIndex(rq.addr)]
             tag  == Tag(rq.addr)
             uses == tag \in Held(ways) \/ rq.read \/ WriteAllocate
         IN  /\ cache'.access_counter = cache.access_counter + 1
             /\ ~ uses => cache'.set = set
             /\ uses => \E w \in Ways : \E line :
                  /\ line.valid /\ line.tag = tag /\ line.visited_t = 0
                  /\ IF tag \in Held(ways) THEN w \in Taken(ways) /\ ways[w].tag = tag
                     ELSE w = ReplaceAlgorithm(ways)
                  /\ cache'.set = Replaced(set, SetIndex(rq.addr), w, line)
<1> DEFINE set   == AgeAll(cache.set)
           i     == SetIndex(rq.addr)
           ways  == set[i]
           tag   == Tag(rq.addr)
           match == ReplaceDecision(ways, tag)
           r     == HandleRequest(Storage, rq)
           uses  == tag \in Held(ways) \/ rq.read \/ WriteAllocate
<1>1. /\ rq.read \in BOOLEAN /\ ~ r.exit /\ cache' = r.st.c
      /\ r = CASE match # {} /\ rq.read   -> ReadHit(cache, set, lower, rq, Min(match))
               [] match # {} /\ ~ rq.read -> WriteHit(cache, set, lower, rq, Min(match))
               [] match = {} /\ ~ rq.read /\ ~ WriteAllocate
                                          -> WriteAround(cache, set, lower, rq)
               [] OTHER -> Fill(cache, set, lower, rq, ReplaceAlgorithm(ways))
  BY DEF Storage, HandleRequest, OneLevel!RequestOK
<1>2. set \in [Sets -> [Ways -> Line]] /\ i \in Sets /\ ways \in [Ways -> Line]
  <2>1. cache.set \in [Sets -> [Ways -> Line]]
    BY DEF TypeOK, Level
  <2>2. i \in Sets
    BY SameLevel, SettingOK, OneLevel!AddressType
       DEF OneLevel!RequestOK, SetIndex, OneLevel!SetIndex
  <2> QED BY <2>1, <2>2, AgedType
<1>3. tag \in Held(ways) <=> match # {}
  BY DEF Held, Taken, ReplaceDecision
<1>4. match # {} => Min(match) \in Taken(ways) /\ ways[Min(match)].tag = tag
  <2>1. match \in SUBSET Nat
    BY DEF ReplaceDecision, Ways
  <2>2. match # {} => Min(match) \in match
    BY <2>1, LeastOf
  <2> QED BY <2>2 DEF ReplaceDecision, Taken
<1> SUFFICES /\ cache'.access_counter = cache.access_counter + 1
             /\ ~ uses => cache'.set = set
             /\ uses => \E w \in Ways : \E line :
                  /\ line.valid /\ line.tag = tag /\ line.visited_t = 0
                  /\ IF tag \in Held(ways) THEN w \in Taken(ways) /\ ways[w].tag = tag
                     ELSE w = ReplaceAlgorithm(ways)
                  /\ cache'.set = Replaced(set, i, w, line)
  OBVIOUS
<1> HIDE DEF set, i, ways, tag, match, r
<1>5. ASSUME NEW w \in Taken(ways), ways[w].tag = tag, match # {}, NEW line, line.valid,
             line.tag = tag, line.visited_t = 0,
             cache' = Count(cache, Replaced(set, i, w, line), 1)
      PROVE  /\ cache'.access_counter = cache.access_counter + 1
             /\ uses /\ tag \in Held(ways) /\ w \in Ways
             /\ cache'.set = Replaced(set, i, w, line)
  BY <1>3, <1>5, CountKeeps DEF Taken
<1>6. CASE match # {}
  <2> DEFINE w == Min(match)
  <2>1. r \in {ReadHit(cache, set, lower, rq, w), WriteHit(cache, set, lower, rq, w)}
    BY <1>1, <1>6
  <2>2. w \in Taken(ways) /\ ways[w].tag = tag /\ ways[w] \in Line /\ ways[w].valid
    BY <1>2, <1>4, <1>6 DEF Taken
  <2> HIDE DEF w
  <2>3. PICK line : /\ line.valid /\ line.tag = tag /\ line.visited_t = 0
                    /\ cache' = Count(cache, Replaced(set, i, w, line), 1)
    BY <1>1, <2>1, <2>2, HitAnswer DEF ways, i
  <2> QED BY <1>5, <1>6, <2>2, <2>3
<1>8. CASE match = {} /\ ~ rq.read /\ ~ WriteAllocate
  <2>1. r = WriteAround(cache, set, lower, rq)
    BY <1>1, <1>8
  <2>2. cache' = Count(cache, set, 0)
    BY <1>1, <2>1, AnswerKeeps DEF WriteAround
  <2> QED BY <1>3, <1>8, <2>2, CountKeeps
<1>9. CASE match = {} /\ (rq.read \/ WriteAllocate)
  <2> DEFINE w == ReplaceAlgorithm(ways)
  <2>1. r = Fill(cache, set, lower, rq, w)
    BY <1>1, <1>9
  <2>2. PICK line : /\ line.valid /\ line.tag = tag /\ line.visited_t = 0
                    /\ cache' = Count(cache, Replaced(set, i, w, line), 0)
    BY <1>1, <2>1, FillAnswer DEF tag, i
  <2>3. w \in Ways
    BY <1>2, Victim
  <2> QED BY <1>3, <1>9, <2>2, <2>3, CountKeeps
<1> QED BY <1>1, <1>6, <1>8, <1>9

\* Before any age is at its maximum, ageing the level keeps the order of each set.
LEMMA AgedOrder ==
  ASSUME LRUInv, cache.access_counter < AgeMax, NEW s \in Sets
  PROVE  LET now  == cache.set[s]
             aged == AgeAll(cache.set)[s]
         IN  /\ aged \in [Ways -> Line] /\ Untied(aged) /\ Unique(aged)
             /\ Taken(aged) = Taken(now)
             /\ Held(aged) = Held(now) /\ Later(aged) = Later(now)
             /\ \A tag : Stays(aged, tag) = Stays(now, tag)
             /\ \A w \in Taken(aged) : aged[w].visited_t \in 1 .. cache.access_counter + 1
<1> DEFINE now  == cache.set[s]
           aged == AgeAll(cache.set)[s]
<1>1. /\ cache.set \in [Sets -> [Ways -> Line]] /\ now \in [Ways -> Line]
      /\ cache.access_counter \in Nat /\ AgeMax \in Nat
  BY LevelAssumption DEF LRUInv, IInv, TypeOK, Level, Parameters
<1>2. /\ aged \in [Ways -> Line]
      /\ \A w \in Ways : /\ aged[w].valid = now[w].valid /\ aged[w].tag = now[w].tag
                         /\ now[w].valid /\ now[w].visited_t < AgeMax =>
                              aged[w].visited_t = now[w].visited_t + 1
  BY <1>1, AgedType
<1>3. Unique(now) /\ Untied(now)
  BY DEF LRUInv, IInv, Coherent, NoTies, Unique, Untied, Taken
<1>4. \A w \in Taken(now) : now[w].visited_t \in 0 .. cache.access_counter
  BY DEF LRUInv, AgesCount
<1> HIDE DEF now, aged
<1>5. Taken(aged) = Taken(now) /\ Taken(now) \subseteq Ways
  BY <1>2 DEF Taken
<1>6. \A w \in Taken(now) : /\ now[w].visited_t \in Nat /\ now[w].visited_t < AgeMax /\ now[w].valid
                            /\ now[w].visited_t + 1 \in 1 .. cache.access_counter + 1
  BY <1>1, <1>4 DEF Taken
<1>7. \A w \in Taken(now) : /\ aged[w].visited_t = now[w].visited_t + 1
                            /\ aged[w].visited_t \in 1 .. cache.access_counter + 1
  BY <1>2, <1>5, <1>6
<1>8. \A v, w \in Taken(now) : aged[v].visited_t < aged[w].visited_t
                                <=> now[v].visited_t < now[w].visited_t
  BY <1>6, <1>7
<1>9. Held(aged) = Held(now) /\ Later(aged) = Later(now)
  BY <1>2, <1>5, <1>8, SameOrder
<1>10. \A tag : Stays(aged, tag) = Stays(now, tag)
  BY <1>5, <1>9 DEF Stays
<1>11. Untied(aged) /\ Unique(aged)
  BY <1>2, <1>3, <1>5, <1>6, <1>7 DEF Untied, Unique
<1> QED BY <1>2, <1>5, <1>7, <1>9, <1>10, <1>11 DEF now, aged

\* A request keeps the order of recency and the invariant about the ages.
LEMMA RequestRecency ==
  ASSUME LRUInv, NoOverflow, NEW rq, OneLevel!RequestOK(rq), Request(rq)
  PROVE  AgesCount' /\ NoTies' /\ RecencyStep
<1> DEFINE r     == HandleRequest(Storage, rq)
           aged  == AgeAll(cache.set)
           i     == SetIndex(rq.addr)
           tag   == Tag(rq.addr)
           count == cache.access_counter
           uses  == tag \in Held(aged[i]) \/ rq.read \/ WriteAllocate
<1>1. /\ cache.access_counter < MaxAccesses
      /\ IF r.exit THEN UNCHANGED cache
         ELSE /\ cache' = r.st.c
              /\ resp' = [addr |-> rq.addr, read |-> rq.read, content |-> r.content]
  BY DEF Request, Storage
<1>2. CASE r.exit
  BY <1>1, <1>2 DEF LRUInv, AgesCount, NoTies, RecencyStep
<1>3. CASE ~ r.exit
  <2>1. count \in Nat /\ count < AgeMax
    BY <1>1, LevelAssumption, CacheAssumption
       DEF LRUInv, IInv, TypeOK, Level, NoOverflow, Parameters
  <2>2. /\ resp'.addr = rq.addr /\ resp'.read = rq.read
        /\ cache'.access_counter = count + 1
        /\ ~ uses => cache'.set = aged
        /\ uses => \E w \in Ways : \E line :
             /\ line.valid /\ line.tag = tag /\ line.visited_t = 0
             /\ IF tag \in Held(aged[i]) THEN w \in Taken(aged[i]) /\ aged[i][w].tag = tag
                ELSE w = ReplaceAlgorithm(aged[i])
             /\ cache'.set = Replaced(aged, i, w, line)
    BY <1>1, <1>3, RequestLines DEF LRUInv, IInv
  <2>3. i \in Sets
    BY SameLevel, SettingOK, OneLevel!AddressType
       DEF OneLevel!RequestOK, SetIndex, OneLevel!SetIndex
  <2>4. ASSUME NEW s \in Sets
        PROVE  /\ aged[s] \in [Ways -> Line] /\ Untied(aged[s]) /\ Unique(aged[s])
               /\ Held(aged[s]) = Held(cache.set[s]) /\ Later(aged[s]) = Later(cache.set[s])
               /\ Stays(aged[s], tag) = Stays(cache.set[s], tag)
               /\ \A w \in Taken(aged[s]) : aged[s][w].visited_t \in 1 .. count + 1
    BY <2>1, AgedOrder
  <2>5. aged \in [Sets -> [Ways -> Line]]
    BY AgedType DEF LRUInv, IInv, TypeOK, Level
  <2> HIDE DEF aged, i, tag, count
  <2>6. ASSUME NEW s \in Sets, ~ (uses /\ s = i)
        PROVE  cache'.set[s] = aged[s]
    BY <2>2, <2>5, <2>6 DEF Replaced
  <2>7. ASSUME uses
        PROVE  /\ Untied(cache'.set[i]) /\ UsedFirst(cache.set[i], cache'.set[i], tag)
               /\ \A v \in Taken(cache'.set[i]) : cache'.set[i][v].visited_t \in 0 .. count + 1
    <3> DEFINE ways == aged[i]
    <3>1. PICK w \in Ways : \E line :
             /\ line.valid /\ line.tag = tag /\ line.visited_t = 0
             /\ IF tag \in Held(ways) THEN w \in Taken(ways) /\ ways[w].tag = tag
                ELSE w = ReplaceAlgorithm(ways)
             /\ cache'.set = Replaced(aged, i, w, line)
      BY <2>2, <2>7
    <3>2. PICK line :
             /\ line.valid /\ line.tag = tag /\ line.visited_t = 0
             /\ IF tag \in Held(ways) THEN w \in Taken(ways) /\ ways[w].tag = tag
                ELSE w = ReplaceAlgorithm(ways)
             /\ cache'.set = Replaced(aged, i, w, line)
      BY <3>1
    <3> DEFINE then == cache'.set[i]
    <3>3. then = [ways EXCEPT ![w] = line]
      BY <2>3, <2>5, <3>2 DEF Replaced
    <3>4. /\ ways \in [Ways -> Line] /\ Untied(ways) /\ Unique(ways)
          /\ \A v \in Taken(ways) : ways[v].visited_t \in Nat \ {0}
          /\ \A v \in Taken(ways) : ways[v].visited_t \in 0 .. count + 1
      BY <2>1, <2>3, <2>4
    <3>5. UsedFirst(cache.set[i], then, tag) <=> UsedFirst(ways, then, tag)
      BY <2>3, <2>4 DEF UsedFirst
    <3> HIDE DEF ways, then
    <3>6. /\ Untied(then) /\ Taken(then) = Taken(ways) \cup {w}
          /\ UsedFirst(ways, then, tag)
      <4> DEFINE used == [ways EXCEPT ![w] = line]
      <4>1. w \in Ways /\ line.valid /\ line.tag = tag /\ line.visited_t = 0
        BY <3>2
      <4>2. IF tag \in Held(ways) THEN w \in Taken(ways) /\ ways[w].tag = tag
            ELSE w = ReplaceAlgorithm(ways)
        BY <3>2
      <4>3. /\ Untied(used) /\ Taken(used) = Taken(ways) \cup {w}
            /\ UsedFirst(ways, used, tag)
        BY ONLY UsedOrder, <3>4, <4>1, <4>2
      <4> QED BY <3>3, <4>3
    <3>7. \A v \in Taken(then) : then[v].visited_t \in 0 .. count + 1
      <4>1. then[w].visited_t = 0 /\ \A v \in Ways \ {w} : then[v] = ways[v]
        BY <3>2, <3>3, <3>4
      <4>2. \A v \in Taken(then) : v = w \/ (v \in Taken(ways) /\ v \in Ways \ {w})
        BY <3>6 DEF Taken
      <4> QED BY <2>1, <3>4, <4>1, <4>2
    <3> QED BY <3>5, <3>6, <3>7 DEF then
  <2> HIDE DEF uses
  <2>8. ASSUME NEW s \in Sets
        PROVE  /\ Untied(cache'.set[s])
               /\ \A w \in Taken(cache'.set[s]) : cache'.set[s][w].visited_t \in 0 .. count + 1
               /\ IF uses /\ s = i THEN UsedFirst(cache.set[s], cache'.set[s], tag)
                  ELSE Held(cache'.set[s]) = Held(cache.set[s])
                       /\ Later(cache'.set[s]) = Later(cache.set[s])
    <3>1. CASE uses /\ s = i
      BY <2>7, <3>1
    <3>2. CASE ~ (uses /\ s = i)
      BY <2>1, <2>4, <2>6, <3>2
    <3> QED BY <3>1, <3>2
  <2>9. AgesCount' /\ NoTies'
    BY <2>2, <2>8 DEF AgesCount, NoTies, Untied
  <2>10. RecencyStep
    <3>1. uses <=> tag \in Held(cache.set[i]) \/ resp'.read \/ WriteAllocate
      BY <2>2, <2>3, <2>4 DEF uses
    <3>2. tag = Tag(resp'.addr) /\ i = SetIndex(resp'.addr)
      BY <2>2 DEF tag, i
    <3> QED BY <2>8, <3>1, <3>2 DEF RecencyStep, UsedFirst
  <2> QED BY <2>9, <2>10
<1> QED BY <1>2, <1>3

-----------------------------------------------------------------------------
(* The theorems. *)

\* At the start no line is valid.
LEMMA InitLRU == Init => LRUInv
<1> SUFFICES ASSUME Init PROVE LRUInv
  OBVIOUS
<1>1. PICK junk \in [Offsets -> Byte] :
        cache = [set            |-> [s \in Sets |-> [w \in Ways |-> EmptyLine(junk)]],
                 access_counter |-> 0, miss_num |-> 0, access_time |-> 0]
  BY DEF Init
<1>2. \A s \in Sets : Taken(cache.set[s]) = {}
  BY <1>1 DEF Taken, EmptyLine
<1> QED BY <1>2, InitIInv DEF LRUInv, AgesCount, NoTies

\* Every step keeps the invariant and moves at most one block, to the front.
LEMMA NextLRU ==
  ASSUME NoOverflow, LRUInv, [Next]_vars
  PROVE  LRUInv' /\ [RecencyStep]_vars
<1>1. IInv'
  BY NextIInv DEF LRUInv
<1>2. CASE UNCHANGED vars
  BY <1>1, <1>2 DEF vars, LRUInv, AgesCount, NoTies
<1>3. ASSUME NEW access \in Accesses, Read(access[1], access[2])
      PROVE  AgesCount' /\ NoTies' /\ RecencyStep
  BY <1>3, AccessOK, RequestRecency DEF Read
<1>4. ASSUME NEW access \in Accesses, Write(access[1], access[2])
      PROVE  AgesCount' /\ NoTies' /\ RecencyStep
  BY <1>4, AccessOK, RequestRecency DEF Write
<1> QED BY <1>1, <1>2, <1>3, <1>4 DEF Next, LRUInv

\* No two lines of a set have the same age (cache.cpp:20-30).
THEOREM AgesDiffer ==
  ASSUME NoOverflow
  PROVE  Spec => []NoTies
<1>1. LRUInv /\ [Next]_vars => LRUInv'
  BY NextLRU
<1>2. LRUInv => NoTies
  BY DEF LRUInv
<1> QED BY <1>1, <1>2, InitLRU, PTL DEF Spec

\* Every request makes its block the last one used of its set and evicts the least
\* recently used one exactly when the set is full; all else keeps its order
\* (cache.cpp:20-30, 186-217).
THEOREM LeastRecentlyUsed ==
  ASSUME NoOverflow
  PROVE  Spec => EvictsLeastRecentlyUsed
<1>1. LRUInv /\ [Next]_vars => LRUInv' /\ [RecencyStep]_vars
  BY NextLRU
<1> QED BY <1>1, InitLRU, PTL DEF Spec, EvictsLeastRecentlyUsed
=============================================================================
