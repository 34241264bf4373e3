-------------------------- MODULE HierarchyProofs --------------------------
(***************************************************************************)
(* What holds of l1 over l2 over llc over memory for every number of sets  *)
(* and ways of each level, every block size, latency and set of mapped     *)
(* addresses.                                                              *)
(*                                                                         *)
(* LevelProofs is used three times, once for each level.  What a level is  *)
(* to the one above it are the states it is in (StorageOK of its instance) *)
(* and the memory it shows in them (StorageMem): the promise of the memory *)
(* gives that of llc, this gives that of l2, and that the answers of l1.   *)
(***************************************************************************)
EXTENDS CacheHierarchy, TLAPS

MemoryOK(m) == m \in [byte : [Mapped -> Byte], access_time : Nat]
MemoryBytes(m) == m.byte

P3 == INSTANCE LevelProofs WITH SetNum <- LLCSets, Assoc <- LLCWays, Latency <- LLCLatency,
        WriteThrough <- FALSE, WriteAllocate <- TRUE, Lower <- MemoryRequest,
        LowerOK <- MemoryOK, LowerMem <- MemoryBytes
LLCOK(st) == P3!StorageOK(st)
LLCMem(st) == P3!StorageMem(st)

P2 == INSTANCE LevelProofs WITH SetNum <- L2Sets, Assoc <- L2Ways, Latency <- L2Latency,
        WriteThrough <- FALSE, WriteAllocate <- TRUE, Lower <- LLCRequest,
        LowerOK <- LLCOK, LowerMem <- LLCMem
L2OK(st) == P2!StorageOK(st)
L2Mem(st) == P2!StorageMem(st)

P1 == INSTANCE LevelProofs WITH SetNum <- L1Sets, Assoc <- L1Ways, Latency <- L1Latency,
        WriteThrough <- FALSE, WriteAllocate <- TRUE, Lower <- L2Request,
        LowerOK <- L2OK, LowerMem <- L2Mem

-----------------------------------------------------------------------------
(* The lemmas of LevelProofs speak of the same operators as the model.     *)

\* A call of llc.
LEMMA SameLLCRequest ==
  ASSUME NEW st, NEW rq
  PROVE  LLCRequest(st, rq) = P3!HandleRequest(st, rq)
<1>1. LLC!HandleRequest(st, rq) = P3!HandleRequest(st, rq)
  BY Zenon DEF
    P3!HandleRequest, P3!AgeAll, P3!NextAge, P3!ReplaceDecision,
    P3!ReplaceAlgorithm, P3!Min, P3!Fill, P3!WriteAround, P3!WriteHit,
    P3!ReadHit, P3!Answer, P3!Count, P3!ReadBlock, P3!WriteBlock, P3!Slice,
    P3!Patch, P3!SetIndex, P3!Tag, P3!BlockOffset, P3!BlockAddr, P3!KickAddr,
    P3!Offsets, P3!Sets, P3!Ways, LLC!HandleRequest, LLC!AgeAll, LLC!NextAge,
    LLC!ReplaceDecision, LLC!ReplaceAlgorithm, LLC!Min, LLC!Fill,
    LLC!WriteAround, LLC!WriteHit, LLC!ReadHit, LLC!Answer, LLC!Count,
    LLC!ReadBlock, LLC!WriteBlock, LLC!Slice, LLC!Patch, LLC!SetIndex,
    LLC!Tag, LLC!BlockOffset, LLC!BlockAddr, LLC!KickAddr, LLC!Offsets,
    LLC!Sets, LLC!Ways
<1> QED BY <1>1 DEF LLCRequest

\* A call of l2.
LEMMA SameL2Request ==
  ASSUME NEW st, NEW rq
  PROVE  L2Request(st, rq) = P2!HandleRequest(st, rq)
<1>1. L2!HandleRequest(st, rq) = P2!HandleRequest(st, rq)
  BY Zenon DEF
    P2!HandleRequest, P2!AgeAll, P2!NextAge, P2!ReplaceDecision,
    P2!ReplaceAlgorithm, P2!Min, P2!Fill, P2!WriteAround, P2!WriteHit,
    P2!ReadHit, P2!Answer, P2!Count, P2!ReadBlock, P2!WriteBlock, P2!Slice,
    P2!Patch, P2!SetIndex, P2!Tag, P2!BlockOffset, P2!BlockAddr, P2!KickAddr,
    P2!Offsets, P2!Sets, P2!Ways, L2!HandleRequest, L2!AgeAll, L2!NextAge,
    L2!ReplaceDecision, L2!ReplaceAlgorithm, L2!Min, L2!Fill, L2!WriteAround,
    L2!WriteHit, L2!ReadHit, L2!Answer, L2!Count, L2!ReadBlock, L2!WriteBlock,
    L2!Slice, L2!Patch, L2!SetIndex, L2!Tag, L2!BlockOffset, L2!BlockAddr,
    L2!KickAddr, L2!Offsets, L2!Sets, L2!Ways
<1> QED BY <1>1 DEF L2Request

\* A call of l1.
LEMMA SameL1Request ==
  ASSUME NEW st, NEW rq
  PROVE  L1Request(st, rq) = P1!HandleRequest(st, rq)
<1>1. L1!HandleRequest(st, rq) = P1!HandleRequest(st, rq)
  BY Zenon DEF
    P1!HandleRequest, P1!AgeAll, P1!NextAge, P1!ReplaceDecision,
    P1!ReplaceAlgorithm, P1!Min, P1!Fill, P1!WriteAround, P1!WriteHit,
    P1!ReadHit, P1!Answer, P1!Count, P1!ReadBlock, P1!WriteBlock, P1!Slice,
    P1!Patch, P1!SetIndex, P1!Tag, P1!BlockOffset, P1!BlockAddr, P1!KickAddr,
    P1!Offsets, P1!Sets, P1!Ways, L1!HandleRequest, L1!AgeAll, L1!NextAge,
    L1!ReplaceDecision, L1!ReplaceAlgorithm, L1!Min, L1!Fill, L1!WriteAround,
    L1!WriteHit, L1!ReadHit, L1!Answer, L1!Count, L1!ReadBlock, L1!WriteBlock,
    L1!Slice, L1!Patch, L1!SetIndex, L1!Tag, L1!BlockOffset, L1!BlockAddr,
    L1!KickAddr, L1!Offsets, L1!Sets, L1!Ways
<1> QED BY <1>1 DEF L1Request

\* The parts of llc.
LEMMA SameLLC ==
  /\ LLC!Offsets = P3!Offsets /\ LLC!Sets = P3!Sets /\ LLC!Ways = P3!Ways
  /\ LLC!Level = P3!Level
  /\ \A t, s : LLC!KickAddr(t, s) = P3!KickAddr(t, s)
<1>1. LLC!Offsets = P3!Offsets /\ LLC!Sets = P3!Sets /\ LLC!Ways = P3!Ways
  BY DEF LLC!Offsets, P3!Offsets, LLC!Sets, P3!Sets, LLC!Ways, P3!Ways
<1> QED
  BY <1>1 DEF LLC!Level, P3!Level, LLC!Line, P3!Line, LLC!Age, P3!Age, LLC!KickAddr, P3!KickAddr

\* The parts of l2.
LEMMA SameL2 ==
  /\ L2!Offsets = P2!Offsets /\ L2!Sets = P2!Sets /\ L2!Ways = P2!Ways
  /\ L2!Level = P2!Level
  /\ \A t, s : L2!KickAddr(t, s) = P2!KickAddr(t, s)
<1>1. L2!Offsets = P2!Offsets /\ L2!Sets = P2!Sets /\ L2!Ways = P2!Ways
  BY DEF L2!Offsets, P2!Offsets, L2!Sets, P2!Sets, L2!Ways, P2!Ways
<1> QED
  BY <1>1 DEF L2!Level, P2!Level, L2!Line, P2!Line, L2!Age, P2!Age, L2!KickAddr, P2!KickAddr

\* The parts of l1.
LEMMA SameL1 ==
  /\ L1!Offsets = P1!Offsets /\ L1!Sets = P1!Sets /\ L1!Ways = P1!Ways
  /\ L1!Level = P1!Level
  /\ \A t, s : L1!KickAddr(t, s) = P1!KickAddr(t, s)
<1>1. L1!Offsets = P1!Offsets /\ L1!Sets = P1!Sets /\ L1!Ways = P1!Ways
  BY DEF L1!Offsets, P1!Offsets, L1!Sets, P1!Sets, L1!Ways, P1!Ways
<1> QED
  BY <1>1 DEF L1!Level, P1!Level, L1!Line, P1!Line, L1!Age, P1!Age, L1!KickAddr, P1!KickAddr

\* All levels have blocks of the same size, so the same requests are inside one.
LEMMA SameRequests ==
  /\ \A rq : P1!RequestOK(rq) <=> P2!RequestOK(rq)
  /\ \A rq : P2!RequestOK(rq) <=> P3!RequestOK(rq)
  /\ \A v, rq : P1!After(v, rq) = P2!After(v, rq) /\ P1!Given(v, rq) = P2!Given(v, rq)
  /\ \A v, rq : P2!After(v, rq) = P3!After(v, rq) /\ P2!Given(v, rq) = P3!Given(v, rq)
BY Zenon DEF P1!RequestOK, P2!RequestOK, P3!RequestOK, P1!BlockOffset, P2!BlockOffset,
  P3!BlockOffset, P1!After, P2!After, P3!After, P1!Given, P2!Given, P3!Given,
  P1!Patched, P2!Patched, P3!Patched, P1!Bytes, P2!Bytes, P3!Bytes

\* The constants are as the lemmas need them.
LEMMA SettingsOK == P1!Setting /\ P2!Setting /\ P3!Setting
<1>1. P1!Parameters /\ P2!Parameters /\ P3!Parameters
  BY HierarchyAssumption DEF L1!Parameters, L2!Parameters, LLC!Parameters,
                             P1!Parameters, P2!Parameters, P3!Parameters
<1>2. P1!Offsets = L1!Offsets /\ P2!Offsets = L1!Offsets /\ P3!Offsets = L1!Offsets
  BY DEF L1!Offsets, P1!Offsets, P2!Offsets, P3!Offsets
<1>3. \A a : P1!BlockAddr(a) = L1!BlockAddr(a) /\ P2!BlockAddr(a) = L1!BlockAddr(a)
             /\ P3!BlockAddr(a) = L1!BlockAddr(a)
  BY DEF L1!BlockAddr, P1!BlockAddr, P2!BlockAddr, P3!BlockAddr,
         L1!BlockOffset, P1!BlockOffset, P2!BlockOffset, P3!BlockOffset
<1>4. Mapped \subseteq Nat /\ \A a \in Mapped : \A k \in L1!Offsets : L1!BlockAddr(a) + k \in Mapped
  BY HierarchyAssumption
<1> QED BY <1>1, <1>2, <1>3, <1>4 DEF P1!Setting, P2!Setting, P3!Setting

-----------------------------------------------------------------------------
(* From level to level. *)

\* Memory answers as a flat memory: a request inside a block touches mapped
\* addresses only or none (Memory::HandleRequest).
LEMMA MemoryPromise == P3!LowerPromise
<1>1. ASSUME NEW m, MemoryOK(m)
      PROVE  /\ MemoryBytes(m) \in [Mapped -> Byte]
             /\ \A rq : P3!RequestOK(rq) =>
                  /\ MemoryRequest(m, rq).exit = (rq.addr \notin Mapped)
                  /\ rq.addr \in Mapped =>
                       /\ MemoryOK(MemoryRequest(m, rq).st)
                       /\ MemoryBytes(MemoryRequest(m, rq).st) = P3!After(MemoryBytes(m), rq)
                       /\ MemoryRequest(m, rq).content = P3!Given(MemoryBytes(m), rq)
                       /\ MemoryRequest(m, rq).time \in Nat
  <2>1. m.byte \in [Mapped -> Byte] /\ m.access_time \in Nat
    BY <1>1 DEF MemoryOK
  <2>2. ASSUME NEW rq, P3!RequestOK(rq)
        PROVE  /\ MemoryRequest(m, rq).exit = (rq.addr \notin Mapped)
               /\ rq.addr \in Mapped =>
                    /\ MemoryOK(MemoryRequest(m, rq).st)
                    /\ MemoryRequest(m, rq).st.byte = P3!After(m.byte, rq)
                    /\ MemoryRequest(m, rq).content = P3!Given(m.byte, rq)
                    /\ MemoryRequest(m, rq).time \in Nat
    <3> DEFINE span == rq.addr .. rq.addr + rq.bytes - 1
               byte == [a \in Mapped |-> IF ~ rq.read /\ a \in span THEN rq.content[a - rq.addr]
                                         ELSE m.byte[a]]
               given == IF rq.read /\ span \subseteq Mapped
                        THEN [i \in 0 .. rq.bytes - 1 |-> m.byte[rq.addr + i]] ELSE rq.content
               r == MemoryRequest(m, rq)
    <3>1. /\ r.st = [byte |-> byte, access_time |-> m.access_time + MemoryLatency]
          /\ r.content = given /\ r.time = MemoryLatency /\ r.exit = ~ (span \subseteq Mapped)
      BY DEF MemoryRequest
    <3>2. rq.addr \in Mapped <=> span \subseteq Mapped
      <4>1. rq.addr \in Nat /\ rq.bytes \in Nat \ {0} /\ rq.addr \in span
        BY <2>2 DEF P3!RequestOK
      <4>2. rq.addr \in Mapped => span \subseteq Mapped
        BY <2>2, SettingsOK, P3!MappedSpan DEF P3!RequestOK
      <4> QED BY <4>1, <4>2
    <3>3. byte = P3!After(m.byte, rq)
      <4>1. CASE rq.read
        BY <2>1, <4>1 DEF P3!After
      <4>2. CASE ~ rq.read
        BY <4>2 DEF P3!After, P3!Patched
      <4> QED BY <4>1, <4>2
    <3>4. span \subseteq Mapped => given = P3!Given(m.byte, rq)
      BY DEF P3!Given, P3!Bytes
    <3>5. P3!After(m.byte, rq) \in [Mapped -> Byte]
      BY <2>1, <2>2, SettingsOK, P3!PatchedType DEF P3!After, P3!RequestOK
    <3> HIDE DEF r, byte, given, span
    <3>6. r.exit = (rq.addr \notin Mapped)
      BY <3>1, <3>2
    <3>7. MemoryOK(r.st) /\ r.st.byte = byte
      BY <2>1, <3>1, <3>3, <3>5, HierarchyAssumption DEF MemoryOK
    <3>8. r.time \in Nat /\ (rq.addr \in Mapped => r.content = P3!Given(m.byte, rq))
      BY <3>1, <3>2, <3>4, HierarchyAssumption
    <3> QED BY <3>3, <3>6, <3>7, <3>8 DEF r
  <2> QED BY <2>1, <2>2 DEF MemoryBytes
<1> QED BY <1>1 DEF P3!LowerPromise

\* llc over memory is a flat memory to l2.
LEMMA LLCPromise == P2!LowerPromise
<1>1. ASSUME NEW st, LLCOK(st)
      PROVE  /\ LLCMem(st) \in [Mapped -> Byte]
             /\ \A rq : P3!RequestOK(rq) =>
                  /\ P3!HandleRequest(st, rq).exit = (rq.addr \notin Mapped)
                  /\ rq.addr \in Mapped =>
                       /\ LLCOK(P3!HandleRequest(st, rq).st)
                       /\ LLCMem(P3!HandleRequest(st, rq).st) = P3!After(LLCMem(st), rq)
                       /\ P3!HandleRequest(st, rq).content = P3!Given(LLCMem(st), rq)
                       /\ P3!HandleRequest(st, rq).time \in Nat
  BY <1>1, SettingsOK, MemoryPromise, P3!Promise DEF LLCOK, LLCMem
<1> QED BY <1>1, SameLLCRequest, SameRequests DEF P2!LowerPromise

\* l2 over llc is a flat memory to l1.
LEMMA L2Promise == P1!LowerPromise
<1>1. ASSUME NEW st, L2OK(st)
      PROVE  /\ L2Mem(st) \in [Mapped -> Byte]
             /\ \A rq : P2!RequestOK(rq) =>
                  /\ P2!HandleRequest(st, rq).exit = (rq.addr \notin Mapped)
                  /\ rq.addr \in Mapped =>
                       /\ L2OK(P2!HandleRequest(st, rq).st)
                       /\ L2Mem(P2!HandleRequest(st, rq).st) = P2!After(L2Mem(st), rq)
                       /\ P2!HandleRequest(st, rq).content = P2!Given(L2Mem(st), rq)
                       /\ P2!HandleRequest(st, rq).time \in Nat
  BY <1>1, SettingsOK, LLCPromise, P2!Promise DEF L2OK, L2Mem
<1> QED BY <1>1, SameL2Request, SameRequests DEF P1!LowerPromise

\* What the program sees is what the storages show.
LEMMA SameViews ==
  /\ LLCView = P3!ViewOf(llc.set, memory.byte)
  /\ L2View = P2!ViewOf(l2.set, LLCView)
  /\ L1View = P1!ViewOf(l1.set, L2View)
  /\ LLCView' = P3!ViewOf(llc'.set, memory'.byte)
  /\ L2View' = P2!ViewOf(l2'.set, LLCView')
  /\ L1View' = P1!ViewOf(l1'.set, L2View')
<1>1. LLCView = P3!ViewOf(llc.set, memory.byte) /\ LLCView' = P3!ViewOf(llc'.set, memory'.byte)
  BY Zenon DEF LLCView, LLC!ReplaceDecision, LLC!Min, LLC!SetIndex, LLC!Tag, LLC!BlockOffset,
    LLC!Ways, P3!ViewOf, P3!Min, P3!SetIndex, P3!Tag, P3!BlockOffset, P3!Ways
<1>2. L2View = P2!ViewOf(l2.set, LLCView) /\ L2View' = P2!ViewOf(l2'.set, LLCView')
  BY Zenon DEF L2View, L2!ReplaceDecision, L2!Min, L2!SetIndex, L2!Tag, L2!BlockOffset,
    L2!Ways, P2!ViewOf, P2!Min, P2!SetIndex, P2!Tag, P2!BlockOffset, P2!Ways
<1>3. L1View = P1!ViewOf(l1.set, L2View) /\ L1View' = P1!ViewOf(l1'.set, L2View')
  BY Zenon DEF L1View, L1!ReplaceDecision, L1!Min, L1!SetIndex, L1!Tag, L1!BlockOffset,
    L1!Ways, P1!ViewOf, P1!Min, P1!SetIndex, P1!Tag, P1!BlockOffset, P1!Ways
<1> QED BY <1>1, <1>2, <1>3

\* The offset of an address, as the assumptions on accesses say it.
LEMMA SameOffset == \A a : L1!BlockOffset(a) = P1!BlockOffset(a)
BY DEF L1!BlockOffset, P1!BlockOffset

-----------------------------------------------------------------------------
\* The inductive invariant: the types, and the lines of every level coherent with
\* what the level below shows.  A level whose clean lines agree with memory only
\* would not do: what it fetches comes from the level below.
CoherentLevels ==
  /\ P1!Coherent(l1.set, L2View)
  /\ P2!Coherent(l2.set, LLCView)
  /\ P3!Coherent(llc.set, memory.byte)
IInv == TypeOK /\ CoherentLevels

\* In a state of the invariant the storages are ones the promise of l1 is about.
LEMMA StorageOK ==
  ASSUME IInv
  PROVE  P1!StorageOK(Storage) /\ P1!StorageMem(Storage) = L1View
<1>1. /\ Storage.c = l1 /\ Storage.low.c = l2 /\ Storage.low.low.c = llc
      /\ Storage.low.low.low = memory
  BY DEF Storage
<1>2. l1 \in P1!Level /\ l2 \in P2!Level /\ llc \in P3!Level /\ MemoryOK(memory)
  BY SameL1, SameL2, SameLLC DEF IInv, TypeOK, MemoryOK
<1>3. LLCOK(Storage.low.low) /\ LLCMem(Storage.low.low) = LLCView
  BY <1>1, <1>2, SameViews DEF IInv, CoherentLevels, LLCOK, LLCMem, P3!StorageOK, P3!StorageMem,
                               MemoryBytes
<1>4. L2OK(Storage.low) /\ L2Mem(Storage.low) = L2View
  BY <1>1, <1>2, <1>3, SameViews DEF IInv, CoherentLevels, L2OK, L2Mem, P2!StorageOK,
                                     P2!StorageMem
<1> QED
  BY <1>1, <1>2, <1>4, SameViews DEF IInv, CoherentLevels, P1!StorageOK, P1!StorageMem

\* SetConfig leaves every line of every level invalid.
LEMMA InitIInv == Init => IInv
<1> SUFFICES ASSUME Init PROVE IInv
  OBVIOUS
<1>1. PICK junk \in [L1!Offsets -> Byte] :
        /\ l1 = EmptyCache(L1!Sets, L1!Ways, junk)
        /\ l2 = EmptyCache(L2!Sets, L2!Ways, junk)
        /\ llc = EmptyCache(LLC!Sets, LLC!Ways, junk)
  BY DEF Init
<1>2. AgeMax \in Nat
  BY HierarchyAssumption DEF L1!Parameters
<1>3. /\ L1!EmptyLine(junk) \in L1!Line /\ L1!EmptyLine(junk) \in L2!Line
      /\ L1!EmptyLine(junk) \in LLC!Line /\ ~ L1!EmptyLine(junk).valid
  BY <1>2 DEF L1!EmptyLine, L1!Line, L2!Line, LLC!Line, L1!Age, L2!Age, LLC!Age,
              L1!Offsets, L2!Offsets, LLC!Offsets
<1> DEFINE line == L1!EmptyLine(junk)
<1> HIDE DEF line
<1>4. l1 \in L1!Level /\ \A s \in L1!Sets : \A w \in L1!Ways : ~ l1.set[s][w].valid
  BY <1>1, <1>3 DEF EmptyCache, L1!Level
<1>5. l2 \in L2!Level /\ \A s \in L2!Sets : \A w \in L2!Ways : ~ l2.set[s][w].valid
  BY <1>1, <1>3 DEF EmptyCache, L2!Level
<1>6. llc \in LLC!Level /\ \A s \in LLC!Sets : \A w \in LLC!Ways : ~ llc.set[s][w].valid
  BY <1>1, <1>3 DEF EmptyCache, LLC!Level
<1>7. CoherentLevels
  <2>1. P1!Coherent(l1.set, L2View)
    BY <1>4, SameL1, SettingsOK, P1!EmptyIsCoherent
  <2>2. P2!Coherent(l2.set, LLCView)
    BY <1>5, SameL2, SettingsOK, P2!EmptyIsCoherent
  <2>3. P3!Coherent(llc.set, memory.byte)
    BY <1>6, SameLLC, SettingsOK, P3!EmptyIsCoherent
  <2> QED BY <2>1, <2>2, <2>3 DEF CoherentLevels
<1>8. resp.content \in UNION {[0 .. n - 1 -> Byte] : n \in 0 .. BlockSize}
  BY SettingsOK, P1!NoContent DEF Init
<1>9. memory \in [byte : [Mapped -> Byte], access_time : Nat]
  BY DEF Init
<1> QED BY <1>4, <1>5, <1>6, <1>7, <1>8, <1>9 DEF IInv, TypeOK, Init

\* One request of the pipeline from a state of the invariant.
LEMMA RequestStep ==
  ASSUME IInv, NEW rq, P1!RequestOK(rq), Request(rq)
  PROVE  /\ IInv'
         /\ status = "running"
         /\ IF rq.addr \notin Mapped
            THEN status' = "exit" /\ UNCHANGED <<l1, l2, llc, memory, resp>>
            ELSE /\ status' = status
                 /\ resp' = [addr |-> rq.addr, read |-> rq.read, content |-> P1!Given(L1View, rq)]
                 /\ L1View' = P1!After(L1View, rq)
<1> DEFINE r == L1Request(Storage, rq)
<1>1. /\ L1View \in [Mapped -> Byte]
      /\ r.exit = (rq.addr \notin Mapped)
      /\ rq.addr \in Mapped =>
           /\ P1!StorageOK(r.st) /\ P1!StorageMem(r.st) = P1!After(L1View, rq)
           /\ r.content = P1!Given(L1View, rq) /\ r.time \in Nat
  BY StorageOK, SettingsOK, L2Promise, SameL1Request, P1!Promise
<1>2. r.hit \in {0, 1}
  BY SameL1Request, P1!HitOrMiss
<1>3. /\ status = "running"
      /\ IF r.exit
         THEN status' = "exit" /\ UNCHANGED <<l1, l2, llc, memory, resp, counters>>
         ELSE /\ l1' = r.st.c
              /\ l2' = r.st.low.c
              /\ llc' = r.st.low.low.c
              /\ memory' = r.st.low.low.low
              /\ resp' = [addr |-> rq.addr, read |-> rq.read, content |-> r.content]
              /\ cache_cnt' = cache_cnt + 1
              /\ cachehit_cnt' = cachehit_cnt + r.hit
              /\ cache_cycle_cnt' = cache_cycle_cnt + r.time
              /\ UNCHANGED status
  BY DEF Request
<1> HIDE DEF r
<1>4. CASE rq.addr \notin Mapped
  <2>1. status' = "exit" /\ UNCHANGED <<l1, l2, llc, memory, resp, counters>>
    BY <1>1, <1>3, <1>4
  <2>2. L2View' = L2View /\ LLCView' = LLCView
    BY <2>1, SameViews
  <2>3. IInv'
    BY <2>1, <2>2 DEF IInv, TypeOK, CoherentLevels, counters
  <2> QED BY <1>3, <1>4, <2>1, <2>3
<1>5. CASE rq.addr \in Mapped
  <2>1. /\ l1' = r.st.c /\ l2' = r.st.low.c /\ llc' = r.st.low.low.c
        /\ memory' = r.st.low.low.low
        /\ cache_cnt' = cache_cnt + 1 /\ cachehit_cnt' = cachehit_cnt + r.hit
        /\ cache_cycle_cnt' = cache_cycle_cnt + r.time /\ status' = status
        /\ resp' = [addr |-> rq.addr, read |-> rq.read, content |-> P1!Given(L1View, rq)]
    BY <1>1, <1>3, <1>5
  <2>2. /\ llc' \in LLC!Level /\ memory' \in [byte : [Mapped -> Byte], access_time : Nat]
        /\ P3!Coherent(llc'.set, memory'.byte) /\ LLCMem(r.st.low.low) = LLCView'
    <3>1. LLCOK(r.st.low.low)
      BY <1>1, <1>5 DEF P1!StorageOK, L2OK, P2!StorageOK
    <3> QED BY <2>1, <3>1, SameLLC, SameViews DEF LLCOK, LLCMem, MemoryOK, MemoryBytes,
                                                  P3!StorageOK, P3!StorageMem
  <2>3. /\ l2' \in L2!Level /\ P2!Coherent(l2'.set, LLCView')
        /\ L2Mem(r.st.low) = L2View'
    <3>1. L2OK(r.st.low)
      BY <1>1, <1>5 DEF P1!StorageOK
    <3> QED BY <2>1, <2>2, <3>1, SameL2, SameViews DEF L2OK, L2Mem, P2!StorageOK, P2!StorageMem
  <2>4. /\ l1' \in L1!Level /\ P1!Coherent(l1'.set, L2View')
        /\ P1!StorageMem(r.st) = L1View'
    BY <1>1, <1>5, <2>1, <2>3, SameL1, SameViews DEF P1!StorageOK, P1!StorageMem
  <2>5. P1!Given(L1View, rq) \in UNION {[0 .. n - 1 -> Byte] : n \in 0 .. BlockSize}
    BY <1>1, <1>5, SettingsOK, P1!GivenType
  <2>6. resp' \in [addr : Nat, read : BOOLEAN,
                   content : UNION {[0 .. n - 1 -> Byte] : n \in 0 .. BlockSize}]
    BY <2>1, <2>5 DEF P1!RequestOK
  <2>7. cache_cnt' \in Nat /\ cachehit_cnt' \in Nat /\ cache_cycle_cnt' \in Nat
    <3>1. r.time \in Nat /\ r.hit \in Nat
      BY <1>1, <1>2, <1>5
    <3>2. cache_cnt \in Nat /\ cachehit_cnt \in Nat /\ cache_cycle_cnt \in Nat
      BY DEF IInv, TypeOK
    <3>3. PICK t, h : t = r.time /\ h = r.hit
      OBVIOUS
    <3> QED BY <2>1, <3>1, <3>2, <3>3
  <2>8. IInv'
    BY <2>1, <2>2, <2>3, <2>4, <2>6, <2>7 DEF IInv, TypeOK, CoherentLevels
  <2> QED BY <1>1, <1>3, <1>5, <2>1, <2>4, <2>8
<1> QED BY <1>4, <1>5

\* The accesses the specification makes stay inside their blocks.
LEMMA AccessOK ==
  ASSUME NEW access \in Accesses
  PROVE  /\ P1!RequestOK([addr |-> access[1], bytes |-> access[2], read |-> TRUE,
                        content |-> << >>])
         /\ \A content \in [0 .. access[2] - 1 -> Byte] :
              P1!RequestOK([addr |-> access[1], bytes |-> access[2], read |-> FALSE,
                            content |-> content])
BY HierarchyAssumption, SameOffset DEF P1!RequestOK

\* Every step preserves the invariant.
LEMMA NextIInv == IInv /\ [Next]_vars => IInv'
<1> SUFFICES ASSUME IInv, [Next]_vars PROVE IInv'
  OBVIOUS
<1>1. CASE UNCHANGED vars
  <2>1. L2View' = L2View /\ LLCView' = LLCView
    BY <1>1, SameViews DEF vars
  <2> QED BY <1>1, <2>1 DEF IInv, TypeOK, CoherentLevels, vars, counters
<1>2. ASSUME NEW access \in Accesses, Read(access[1], access[2]) PROVE IInv'
  BY <1>2, AccessOK, RequestStep DEF Read
<1>3. ASSUME NEW access \in Accesses, Write(access[1], access[2]) PROVE IInv'
  BY <1>3, AccessOK, RequestStep DEF Write
<1> QED BY <1>1, <1>2, <1>3 DEF Next

\* The invariant holds in every state of the hierarchy.
THEOREM Inductive == Spec => []IInv
BY InitIInv, NextIInv, PTL DEF Spec

\* Type correctness: no request leaves an ill-formed line at any level, whatever the
\* victims and their ages, and an answer never has more bytes than a block.
THEOREM TypeCorrect == Spec => []TypeOK
<1>1. IInv => TypeOK
  BY DEF IInv
<1> QED BY <1>1, Inductive, PTL

\* No clean line is stale at any level, although the levels evict independently
\* (HandleRequest at every level).
THEOREM CleanLines == Spec => []CleanLinesAgree
<1>1. IInv => CleanLinesAgree
  <2> SUFFICES ASSUME IInv PROVE CleanLinesAgree
    OBVIOUS
  <2>1. \A s \in L1!Sets, w \in L1!Ways :
          LET line == l1.set[s][w] IN line.valid /\ ~ line.dirty =>
            \A k \in L1!Offsets : line.blk[k] = L2View[L1!KickAddr(line.tag, s) + k]
    BY SameL1 DEF IInv, CoherentLevels, P1!Coherent
  <2>2. \A s \in L2!Sets, w \in L2!Ways :
          LET line == l2.set[s][w] IN line.valid /\ ~ line.dirty =>
            \A k \in L2!Offsets : line.blk[k] = LLCView[L2!KickAddr(line.tag, s) + k]
    BY SameL2 DEF IInv, CoherentLevels, P2!Coherent
  <2>3. \A s \in LLC!Sets, w \in LLC!Ways :
          LET line == llc.set[s][w] IN line.valid /\ ~ line.dirty =>
            \A k \in LLC!Offsets : line.blk[k] = memory.byte[LLC!KickAddr(line.tag, s) + k]
    BY SameLLC DEF IInv, CoherentLevels, P3!Coherent
  <2> QED BY <2>1, <2>2, <2>3 DEF CleanLinesAgree
<1> QED BY <1>1, Inductive, PTL

-----------------------------------------------------------------------------
(* The books.  The time a request is charged is what it adds to the        *)
(* access_time of the level and of everything below it.                    *)

Booked(c) == c.access_counter \in Int /\ c.miss_num \in Int /\ c.access_time \in Int

LLCBooked(st) == Booked(st.c) /\ st.low.access_time \in Int
L2Booked(st)  == Booked(st.c) /\ LLCBooked(st.low)
L1Booked(st)  == Booked(st.c) /\ L2Booked(st.low)

LLCTime(st) == st.c.access_time + st.low.access_time
L2Time(st)  == st.c.access_time + LLCTime(st.low)
L1Time(st)  == st.c.access_time + L2Time(st.low)

\* Memory books every request.
LEMMA MemoryBooks ==
  ASSUME NEW m, m.access_time \in Int, NEW rq, NEW r, r = MemoryRequest(m, rq)
  PROVE  r.time \in Int /\ r.st.access_time \in Int /\ r.st.access_time = m.access_time + r.time
BY HierarchyAssumption DEF MemoryRequest

\* llc counts a request once and books its time, with memory's.
LEMMA LLCBooks ==
  ASSUME NEW st, LLCBooked(st), NEW rq, rq.read \in BOOLEAN,
         NEW r, r = LLCRequest(st, rq), ~ r.exit
  PROVE  /\ LLCBooked(r.st) /\ r.time \in Int /\ LLCTime(r.st) = LLCTime(st) + r.time
         /\ r.st.c.access_counter = st.c.access_counter + 1
<1>1. LLCLatency \in Int
  BY HierarchyAssumption DEF LLC!Parameters
<1>2. /\ r.st.c.access_counter = st.c.access_counter + 1
      /\ r.st.c.miss_num = st.c.miss_num + (1 - r.hit)
      /\ r.st.c.access_time = st.c.access_time + LLCLatency
      /\ \/ r.hit = 1 /\ r.st.low = st.low /\ r.time = LLCLatency
         \/ \E fetch, kick :
              LET d1 == MemoryRequest(st.low, fetch)
                  d2 == MemoryRequest(d1.st, kick)
              IN  /\ r.hit = 0 /\ fetch.read \in BOOLEAN /\ kick.read \in BOOLEAN /\ ~ d1.exit
                  /\ \/ r.st.low = d1.st /\ r.time = LLCLatency + d1.time + 0 + 0
                     \/ /\ ~ d2.exit /\ r.st.low = d2.st
                        /\ r.time = LLCLatency + d1.time + d2.time + 0
  <2>1. r = P3!HandleRequest(st, rq)
    BY SameLLCRequest
  <2> QED BY <2>1, P3!Bookkeeping
<1>3. CASE r.hit = 1 /\ r.st.low = st.low /\ r.time = LLCLatency
  BY <1>1, <1>2, <1>3 DEF LLCBooked, Booked, LLCTime
<1>4. ASSUME NEW fetch, NEW kick, NEW d1, NEW d2,
             d1 = MemoryRequest(st.low, fetch), d2 = MemoryRequest(d1.st, kick), r.hit = 0,
             \/ r.st.low = d1.st /\ r.time = LLCLatency + d1.time + 0 + 0
             \/ r.st.low = d2.st /\ r.time = LLCLatency + d1.time + d2.time + 0
      PROVE  LLCBooked(r.st) /\ r.time \in Int /\ LLCTime(r.st) = LLCTime(st) + r.time
  <2>1. /\ d1.time \in Int /\ d1.st.access_time \in Int
        /\ d1.st.access_time = st.low.access_time + d1.time
    BY <1>4, MemoryBooks DEF LLCBooked
  <2>2. /\ d2.time \in Int /\ d2.st.access_time \in Int
        /\ d2.st.access_time = d1.st.access_time + d2.time
    BY <1>4, <2>1, MemoryBooks
  <2> QED BY <1>1, <1>2, <1>4, <2>1, <2>2 DEF LLCBooked, Booked, LLCTime
<1> QED BY <1>2, <1>3, <1>4

\* l2 as well, with everything below it; and what misses in l2 goes down.
LEMMA L2Books ==
  ASSUME NEW st, L2Booked(st), NEW rq, rq.read \in BOOLEAN,
         NEW r, r = L2Request(st, rq), ~ r.exit
  PROVE  /\ L2Booked(r.st) /\ r.time \in Int /\ L2Time(r.st) = L2Time(st) + r.time
         /\ r.st.c.access_counter = st.c.access_counter + 1
         /\ r.hit \in {0, 1} /\ r.st.c.miss_num = st.c.miss_num + (1 - r.hit)
         /\ r.st.c.miss_num - st.c.miss_num
              <= r.st.low.c.access_counter - st.low.c.access_counter
<1>1. L2Latency \in Int
  BY HierarchyAssumption DEF L2!Parameters
<1>2. /\ r.st.c.access_counter = st.c.access_counter + 1
      /\ r.st.c.miss_num = st.c.miss_num + (1 - r.hit)
      /\ r.st.c.access_time = st.c.access_time + L2Latency
      /\ \/ r.hit = 1 /\ r.st.low = st.low /\ r.time = L2Latency
         \/ \E fetch, kick :
              LET d1 == LLCRequest(st.low, fetch)
                  d2 == LLCRequest(d1.st, kick)
              IN  /\ r.hit = 0 /\ fetch.read \in BOOLEAN /\ kick.read \in BOOLEAN /\ ~ d1.exit
                  /\ \/ r.st.low = d1.st /\ r.time = L2Latency + d1.time + 0 + 0
                     \/ /\ ~ d2.exit /\ r.st.low = d2.st
                        /\ r.time = L2Latency + d1.time + d2.time + 0
  <2>1. r = P2!HandleRequest(st, rq)
    BY SameL2Request
  <2> QED BY <2>1, P2!Bookkeeping
<1>3. CASE r.hit = 1 /\ r.st.low = st.low /\ r.time = L2Latency
  BY <1>1, <1>2, <1>3 DEF L2Booked, LLCBooked, Booked, L2Time, LLCTime
<1>4. ASSUME NEW fetch, NEW kick, NEW d1, NEW d2, fetch.read \in BOOLEAN, kick.read \in BOOLEAN,
             d1 = LLCRequest(st.low, fetch), d2 = LLCRequest(d1.st, kick),
             r.hit = 0, ~ d1.exit,
             \/ r.st.low = d1.st /\ r.time = L2Latency + d1.time + 0 + 0
             \/ ~ d2.exit /\ r.st.low = d2.st /\ r.time = L2Latency + d1.time + d2.time + 0
      PROVE  /\ L2Booked(r.st) /\ r.time \in Int /\ L2Time(r.st) = L2Time(st) + r.time
             /\ r.st.c.miss_num - st.c.miss_num
                  <= r.st.low.c.access_counter - st.low.c.access_counter
  <2>1. /\ LLCBooked(d1.st) /\ d1.time \in Int /\ LLCTime(d1.st) = LLCTime(st.low) + d1.time
        /\ d1.st.c.access_counter = st.low.c.access_counter + 1
    <3>1. fetch.read \in BOOLEAN /\ LLCBooked(st.low)
      BY <1>4 DEF L2Booked
    <3> QED BY <1>4, <3>1, LLCBooks
  <2>2. CASE r.st.low = d1.st /\ r.time = L2Latency + d1.time + 0 + 0
    BY <1>1, <1>2, <1>4, <2>1, <2>2 DEF L2Booked, LLCBooked, Booked, L2Time, LLCTime
  <2>3. CASE ~ d2.exit /\ r.st.low = d2.st /\ r.time = L2Latency + d1.time + d2.time + 0
    <3>1. /\ LLCBooked(d2.st) /\ d2.time \in Int /\ LLCTime(d2.st) = LLCTime(d1.st) + d2.time
          /\ d2.st.c.access_counter = d1.st.c.access_counter + 1
      <4>1. kick.read \in BOOLEAN
        BY <1>4
      <4> QED BY <1>4, <2>1, <2>3, <4>1, LLCBooks
    <3> QED BY <1>1, <1>2, <1>4, <2>1, <2>3, <3>1 DEF L2Booked, LLCBooked, Booked, L2Time, LLCTime
  <2> QED BY <1>4, <2>2, <2>3
<1> QED BY <1>2, <1>3, <1>4

\* l1 as well, with everything below it; and what misses in l1 goes down.
LEMMA L1Books ==
  ASSUME NEW st, L1Booked(st), NEW rq, rq.read \in BOOLEAN,
         NEW r, r = L1Request(st, rq), ~ r.exit
  PROVE  /\ L1Booked(r.st) /\ r.time \in Int /\ L1Time(r.st) = L1Time(st) + r.time
         /\ r.st.c.access_counter = st.c.access_counter + 1
         /\ r.hit \in {0, 1} /\ r.st.c.miss_num = st.c.miss_num + (1 - r.hit)
         /\ r.st.c.miss_num - st.c.miss_num
              <= r.st.low.c.access_counter - st.low.c.access_counter
         /\ r.st.low.c.miss_num - st.low.c.miss_num
              <= r.st.low.low.c.access_counter - st.low.low.c.access_counter
<1>1. L1Latency \in Int
  BY HierarchyAssumption DEF L1!Parameters
<1>2. /\ r.st.c.access_counter = st.c.access_counter + 1
      /\ r.st.c.miss_num = st.c.miss_num + (1 - r.hit)
      /\ r.st.c.access_time = st.c.access_time + L1Latency
      /\ \/ r.hit = 1 /\ r.st.low = st.low /\ r.time = L1Latency
         \/ \E fetch, kick :
              LET d1 == L2Request(st.low, fetch)
                  d2 == L2Request(d1.st, kick)
              IN  /\ r.hit = 0 /\ fetch.read \in BOOLEAN /\ kick.read \in BOOLEAN /\ ~ d1.exit
                  /\ \/ r.st.low = d1.st /\ r.time = L1Latency + d1.time + 0 + 0
                     \/ /\ ~ d2.exit /\ r.st.low = d2.st
                        /\ r.time = L1Latency + d1.time + d2.time + 0
  <2>1. r = P1!HandleRequest(st, rq)
    BY SameL1Request
  <2> QED BY <2>1, P1!Bookkeeping
<1>3. CASE r.hit = 1 /\ r.st.low = st.low /\ r.time = L1Latency
  BY <1>1, <1>2, <1>3 DEF L1Booked, L2Booked, LLCBooked, Booked,
      L1Time, L2Time, LLCTime
<1>4. ASSUME NEW fetch, NEW kick, NEW d1, NEW d2, fetch.read \in BOOLEAN, kick.read \in BOOLEAN,
             d1 = L2Request(st.low, fetch), d2 = L2Request(d1.st, kick),
             r.hit = 0, ~ d1.exit,
             \/ r.st.low = d1.st /\ r.time = L1Latency + d1.time + 0 + 0
             \/ ~ d2.exit /\ r.st.low = d2.st /\ r.time = L1Latency + d1.time + d2.time + 0
      PROVE  /\ L1Booked(r.st) /\ r.time \in Int /\ L1Time(r.st) = L1Time(st) + r.time
             /\ r.st.c.miss_num - st.c.miss_num
                  <= r.st.low.c.access_counter - st.low.c.access_counter
             /\ r.st.low.c.miss_num - st.low.c.miss_num
                  <= r.st.low.low.c.access_counter - st.low.low.c.access_counter
  <2>1. /\ L2Booked(d1.st) /\ d1.time \in Int /\ L2Time(d1.st) = L2Time(st.low) + d1.time
        /\ d1.st.c.access_counter = st.low.c.access_counter + 1
        /\ d1.st.c.miss_num - st.low.c.miss_num
             <= d1.st.low.c.access_counter - st.low.low.c.access_counter
    <3>1. fetch.read \in BOOLEAN /\ L2Booked(st.low)
      BY <1>4 DEF L1Booked
    <3> QED BY <1>4, <3>1, L2Books
  <2>2. CASE r.st.low = d1.st /\ r.time = L1Latency + d1.time + 0 + 0
    BY <1>1, <1>2, <1>4, <2>1, <2>2 DEF L1Booked, L2Booked, LLCBooked, Booked,
      L1Time, L2Time, LLCTime
  <2>3. CASE ~ d2.exit /\ r.st.low = d2.st /\ r.time = L1Latency + d1.time + d2.time + 0
    <3>1. /\ L2Booked(d2.st) /\ d2.time \in Int /\ L2Time(d2.st) = L2Time(d1.st) + d2.time
          /\ d2.st.c.access_counter = d1.st.c.access_counter + 1
          /\ d2.st.c.miss_num - d1.st.c.miss_num
               <= d2.st.low.c.access_counter - d1.st.low.c.access_counter
      <4>1. kick.read \in BOOLEAN
        BY <1>4
      <4> QED BY <1>4, <2>1, <2>3, <4>1, L2Books, SMTT(30)
    <3>2. L1Booked(r.st) /\ r.time \in Int /\ L2Time(st.low) \in Int
      BY <1>1, <1>2, <2>1, <2>3, <3>1 DEF L1Booked, L2Booked, LLCBooked, Booked, L2Time, LLCTime
    <3>3. L1Time(r.st) = L1Time(st) + r.time
      BY <1>1, <1>2, <2>1, <2>3, <3>1, <3>2 DEF L1Booked, Booked, L1Time
    <3>4. /\ r.st.c.miss_num - st.c.miss_num
               <= r.st.low.c.access_counter - st.low.c.access_counter
          /\ r.st.low.c.miss_num - st.low.c.miss_num
               <= r.st.low.low.c.access_counter - st.low.low.c.access_counter
      BY <1>2, <1>4, <2>1, <2>3, <3>1 DEF L1Booked, L2Booked, LLCBooked, Booked
    <3> QED BY <3>2, <3>3, <3>4
  <2> QED BY <1>4, <2>2, <2>3
<1> QED BY <1>2, <1>3, <1>4

\* What four sums grow by, if together they grow by d.
LEMMA SumOfDifferences ==
  ASSUME NEW a \in Int, NEW b \in Int, NEW c \in Int, NEW m \in Int, NEW d \in Int,
         NEW a2 \in Int, NEW b2 \in Int, NEW c2 \in Int, NEW m2 \in Int,
         a2 + (b2 + (c2 + m2)) = a + (b + (c + m)) + d
  PROVE  d = (a2 - a) + (b2 - b) + (c2 - c) + (m2 - m)
OBVIOUS

\* Every request keeps the books.
LEMMA RequestBooks ==
  ASSUME IInv, NEW rq, P1!RequestOK(rq), Request(rq)
  PROVE  StatisticsStep
<1> DEFINE r == L1Request(Storage, rq)
<1>1. IF r.exit
      THEN UNCHANGED <<l1, l2, llc, memory, counters>>
      ELSE /\ l1' = r.st.c
           /\ l2' = r.st.low.c
           /\ llc' = r.st.low.low.c
           /\ memory' = r.st.low.low.low
           /\ cache_cnt' = cache_cnt + 1
           /\ cachehit_cnt' = cachehit_cnt + r.hit
           /\ cache_cycle_cnt' = cache_cycle_cnt + r.time
  BY DEF Request
<1>2. /\ cache_cnt \in Int /\ cachehit_cnt \in Int /\ cache_cycle_cnt \in Int
      /\ Booked(l1) /\ Booked(l2) /\ Booked(llc) /\ memory.access_time \in Int
  BY DEF IInv, TypeOK, Booked, L1!Level, L2!Level, LLC!Level
<1>3. /\ Storage.c = l1 /\ Storage.low.c = l2 /\ Storage.low.low.c = llc
      /\ Storage.low.low.low = memory
  BY DEF Storage
<1>4. CASE r.exit
  BY <1>1, <1>2, <1>4 DEF StatisticsStep, Booked, counters
<1>5. CASE ~ r.exit
  <2>1. L1Booked(Storage) /\ rq.read \in BOOLEAN
    BY <1>2, <1>3 DEF L1Booked, L2Booked, LLCBooked, P1!RequestOK
  <2>2. /\ L1Booked(r.st) /\ r.time \in Int /\ L1Time(r.st) = L1Time(Storage) + r.time
        /\ r.st.c.access_counter = l1.access_counter + 1
        /\ r.hit \in {0, 1} /\ r.st.c.miss_num = l1.miss_num + (1 - r.hit)
        /\ r.st.c.miss_num - l1.miss_num <= r.st.low.c.access_counter - l2.access_counter
        /\ r.st.low.c.miss_num - l2.miss_num
             <= r.st.low.low.c.access_counter - llc.access_counter
    BY <1>3, <1>5, <2>1, L1Books
  <2> HIDE DEF r
  <2>3. /\ l1' = r.st.c /\ l2' = r.st.low.c /\ llc' = r.st.low.low.c
        /\ memory' = r.st.low.low.low
        /\ cache_cnt' = cache_cnt + 1 /\ cachehit_cnt' = cachehit_cnt + r.hit
        /\ cache_cycle_cnt' = cache_cycle_cnt + r.time
    BY <1>1, <1>5
  <2>4. /\ l1'.access_time \in Int /\ l1'.miss_num \in Int /\ l1'.access_counter \in Int
        /\ l2'.access_time \in Int /\ llc'.access_time \in Int /\ memory'.access_time \in Int
    BY <2>2, <2>3 DEF L1Booked, L2Booked, LLCBooked, Booked
  <2>5. l1'.access_time + (l2'.access_time + (llc'.access_time + memory'.access_time))
          = l1.access_time + (l2.access_time + (llc.access_time + memory.access_time)) + r.time
    BY <1>3, <2>2, <2>3 DEF L1Time, L2Time, LLCTime
  <2>6. /\ l1.access_time \in Int /\ l1.miss_num \in Int /\ l1.access_counter \in Int
        /\ l2.access_time \in Int /\ llc.access_time \in Int /\ memory.access_time \in Int
        /\ cache_cnt \in Int /\ cachehit_cnt \in Int /\ cache_cycle_cnt \in Int
    BY <1>2 DEF Booked
  <2>7. cache_cycle_cnt' - cache_cycle_cnt =
          (l1'.access_time - l1.access_time) + (l2'.access_time - l2.access_time)
          + (llc'.access_time - llc.access_time) + (memory'.access_time - memory.access_time)
    <3>1. cache_cycle_cnt' - cache_cycle_cnt = r.time
      BY <2>2, <2>3, <2>6
    <3> QED BY <2>2, <2>4, <2>5, <2>6, <3>1, SumOfDifferences
  <2>8. /\ cache_cnt' - cache_cnt = l1'.access_counter - l1.access_counter
        /\ (cache_cnt' - cachehit_cnt') - (cache_cnt - cachehit_cnt) = l1'.miss_num - l1.miss_num
    <3>1. /\ l1'.access_counter = l1.access_counter + 1
          /\ l1'.miss_num = l1.miss_num + (1 - r.hit) /\ r.hit \in Int
      BY <2>2, <2>3
    <3>2. cache_cnt' = cache_cnt + 1 /\ cachehit_cnt' = cachehit_cnt + r.hit
      BY <2>3
    <3> QED BY <2>6, <3>1, <3>2
  <2>9. /\ l1'.miss_num - l1.miss_num <= l2'.access_counter - l2.access_counter
        /\ l2'.miss_num - l2.miss_num <= llc'.access_counter - llc.access_counter
    BY <2>2, <2>3
  <2> QED BY <2>7, <2>8, <2>9 DEF StatisticsStep
<1> QED BY <1>4, <1>5

\* The statistics agree on every request: the time charged to the pipeline is what
\* the levels booked, hits and misses of l1 are its accesses, and every miss of a
\* level is an access of the one below (cache.cpp:28-36, 84-88, 155-161).
THEOREM Statistics == Spec => StatisticsAgree
<1>1. IInv /\ [Next]_vars => [StatisticsStep]_vars
  <2> SUFFICES ASSUME IInv, [Next]_vars PROVE [StatisticsStep]_vars
    OBVIOUS
  <2>1. CASE UNCHANGED vars
    BY <2>1
  <2>2. ASSUME NEW access \in Accesses, Read(access[1], access[2]) PROVE StatisticsStep
    BY <2>2, AccessOK, RequestBooks DEF Read
  <2>3. ASSUME NEW access \in Accesses, Write(access[1], access[2]) PROVE StatisticsStep
    BY <2>3, AccessOK, RequestBooks DEF Write
  <2> QED BY <2>1, <2>2, <2>3 DEF Next
<1> QED BY <1>1, Inductive, PTL DEF Spec, StatisticsAgree

-----------------------------------------------------------------------------
\* The initial view is a memory of arbitrary bytes.
LEMMA InitFlat == Init => Flat!Init
<1> SUFFICES ASSUME Init PROVE Flat!Init
  OBVIOUS
<1>1. IInv
  BY InitIInv
<1>2. L1View \in [Mapped -> Byte]
  BY <1>1, StorageOK, SettingsOK, L2Promise, P1!Promise
<1> QED BY <1>2 DEF Init, Flat!Init, Flat!NoResponse

\* Every step of the hierarchy is a step of the flat memory, or a stutter.
LEMMA NextFlat == IInv /\ [Next]_vars => [Flat!Next]_(Flat!vars)
<1> SUFFICES ASSUME IInv, [Next]_vars PROVE [Flat!Next]_(Flat!vars)
  OBVIOUS
<1>0. UNCHANGED <<l1, l2, llc, memory>> => L1View' = L1View
  BY SameViews
<1>4. ASSUME NEW a \in Nat, NEW n \in Nat \ {0}, P1!BlockOffset(a) + n <= BlockSize
      PROVE  a \in Mapped <=> a .. a + n - 1 \subseteq Mapped
  BY <1>4, SettingsOK, P1!MappedSpan DEF P1!RequestOK
<1>1. CASE UNCHANGED vars
  <2>1. L1View' = L1View
    BY <1>0, <1>1 DEF vars
  <2> QED BY <1>1, <2>1 DEF vars, Flat!vars
<1>2. ASSUME NEW access \in Accesses, Read(access[1], access[2]) PROVE Flat!Next
  <2> DEFINE a == access[1]
             n == access[2]
             rq == [addr |-> a, bytes |-> n, read |-> TRUE, content |-> << >>]
  <2>1. P1!RequestOK(rq) /\ Request(rq)
    BY <1>2, AccessOK DEF Read
  <2>2. a \in Nat /\ n \in Nat \ {0} /\ P1!BlockOffset(a) + n <= BlockSize
    BY HierarchyAssumption, SameOffset
  <2>3. CASE a \notin Mapped
    <3>1. Flat!Exit(a, n)
      <4>1. status = "running" /\ status' = "exit" /\ UNCHANGED <<l1, l2, llc, memory, resp>>
        BY <2>1, <2>3, RequestStep
      <4>2. L1View' = L1View
        BY <4>1, <1>0
      <4>3. ~ (a .. a + n - 1 \subseteq Mapped)
        BY <1>4, <2>2, <2>3
      <4> QED BY <2>3, <4>1, <4>2, <4>3 DEF Flat!Exit, Flat!Span
    <3> QED BY <3>1 DEF Flat!Next
  <2>4. CASE a \in Mapped
    <3>1. Flat!Read(a, n)
      <4>1. /\ status = "running" /\ status' = status
            /\ resp' = [addr |-> a, read |-> TRUE, content |-> P1!Given(L1View, rq)]
            /\ L1View' = P1!After(L1View, rq)
        BY <2>1, <2>4, <1>0, RequestStep
      <4>2. /\ P1!Given(L1View, rq) = [i \in 0 .. n - 1 |-> L1View[a + i]]
            /\ P1!After(L1View, rq) = L1View
        BY DEF P1!Given, P1!After, P1!Bytes
      <4>3. a .. a + n - 1 \subseteq Mapped
        BY <1>4, <2>2, <2>4
      <4> QED BY <4>1, <4>2, <4>3 DEF Flat!Read, Flat!Span
    <3> QED BY <3>1 DEF Flat!Next
  <2> QED BY <2>3, <2>4
<1>3. ASSUME NEW access \in Accesses, Write(access[1], access[2]) PROVE Flat!Next
  <2> DEFINE a == access[1]
             n == access[2]
  <2>0. PICK content \in [0 .. n - 1 -> Byte] :
          Request([addr |-> a, bytes |-> n, read |-> FALSE, content |-> content])
    BY <1>3 DEF Write
  <2> DEFINE rq == [addr |-> a, bytes |-> n, read |-> FALSE, content |-> content]
  <2>1. P1!RequestOK(rq) /\ Request(rq)
    BY <2>0, AccessOK
  <2>2. a \in Nat /\ n \in Nat \ {0} /\ P1!BlockOffset(a) + n <= BlockSize
    BY HierarchyAssumption, SameOffset
  <2>3. CASE a \notin Mapped
    <3>1. Flat!Exit(a, n)
      <4>1. status = "running" /\ status' = "exit" /\ UNCHANGED <<l1, l2, llc, memory, resp>>
        BY <2>1, <2>3, RequestStep
      <4>2. L1View' = L1View
        BY <4>1, <1>0
      <4>3. ~ (a .. a + n - 1 \subseteq Mapped)
        BY <1>4, <2>2, <2>3
      <4> QED BY <2>3, <4>1, <4>2, <4>3 DEF Flat!Exit, Flat!Span
    <3> QED BY <3>1 DEF Flat!Next
  <2>4. CASE a \in Mapped
    <3>1. Flat!Write(a, n, content)
      <4>1. /\ status = "running" /\ status' = status
            /\ resp' = [addr |-> a, read |-> FALSE, content |-> P1!Given(L1View, rq)]
            /\ L1View' = P1!After(L1View, rq)
        BY <2>1, <2>4, <1>0, RequestStep
      <4>2. /\ P1!Given(L1View, rq) = content
            /\ P1!After(L1View, rq) = P1!Patched(L1View, a, n, content)
        BY DEF P1!Given, P1!After
      <4>3. a .. a + n - 1 \subseteq Mapped
        BY <1>4, <2>2, <2>4
      <4> QED BY <4>1, <4>2, <4>3 DEF Flat!Write, Flat!Span, P1!Patched
    <3> QED BY <3>1 DEF Flat!Next
  <2> QED BY <2>3, <2>4
<1> QED BY <1>1, <1>2, <1>3 DEF Next

\* Three levels of caches over memory implement a flat memory: the pipeline cannot
\* tell which blocks they hold, evict and write back (HandleRequest at every level).
THEOREM Refinement == Spec => FlatSpec
<1> QED BY InitFlat, NextFlat, Inductive, PTL DEF Spec, FlatSpec, Flat!Spec
=============================================================================
