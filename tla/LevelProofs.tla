---------------------------- MODULE LevelProofs ----------------------------
(***************************************************************************)
(* What one level of the cache does for every block size, number of sets   *)
(* and ways, write policy and latency, over whatever is below it: if that  *)
(* answers as a flat memory, so does the level.  The level below is known  *)
(* by its promise only, so the theorem of one level is the promise the     *)
(* next one needs.                                                         *)
(*                                                                         *)
(* The proof follows the code.  A request is at most three moves on the    *)
(* lines: forget a victim (Kick), insert a fetched block clean (Insert)    *)
(* and write into the line that holds the address (WriteLine).  Each move  *)
(* keeps the lines Coherent and changes the memory v that the caller       *)
(* Sees through them in the way a flat memory would change.                *)
(***************************************************************************)
EXTENDS CacheLevel, Sequences, TLAPS, WellFoundedInduction

CONSTANTS
  Mapped,        \* the addresses memory has pages for
  LowerOK(_),    \* the states the level below is in
  LowerMem(_)    \* the memory it shows in one of them

Setting ==
  /\ Parameters
  /\ Mapped \subseteq Nat
  /\ \A a \in Mapped : \A k \in Offsets : BlockAddr(a) + k \in Mapped

\* The lines of set over a level below that holds low: a block is in one way of
\* its set at most, only mapped blocks are held, a clean line is a copy of the
\* bytes below, and with write-through every line is clean.
Coherent(set, low) ==
  /\ \A s \in Sets : \A v, w \in Ways :
       set[s][v].valid /\ set[s][w].valid /\ set[s][v].tag = set[s][w].tag => v = w
  /\ \A s \in Sets : \A w \in Ways : set[s][w].valid =>
       \A k \in Offsets : KickAddr(set[s][w].tag, s) + k \in Mapped
  /\ \A s \in Sets : \A w \in Ways : set[s][w].valid /\ ~ set[s][w].dirty =>
       \A k \in Offsets : set[s][w].blk[k] = low[KickAddr(set[s][w].tag, s) + k]
  /\ \A s \in Sets : \A w \in Ways : set[s][w].valid /\ WriteThrough => ~ set[s][w].dirty

-----------------------------------------------------------------------------
(* Arithmetic. *)

\* What the parameters of the level are.
LEMMA LevelOK ==
  ASSUME Setting
  PROVE
  /\ BlockSize \in Nat \ {0} /\ SetNum \in Nat \ {0} /\ Assoc \in Nat \ {0}
  /\ WriteThrough \in BOOLEAN /\ WriteAllocate \in BOOLEAN
  /\ Latency \in Nat /\ AgeMax \in Nat \ {0}
BY DEF Setting, Parameters

\* Addresses are numbers, and blocks are mapped as a whole.
LEMMA MappedOK ==
  ASSUME Setting
  PROVE  /\ Mapped \subseteq Nat
         /\ \A a \in Mapped : \A k \in Offsets : BlockAddr(a) + k \in Mapped
BY DEF Setting

\* A nonempty set of naturals has a least member.
LEMMA SmallestExists ==
  ASSUME NEW S \in SUBSET Nat, S # {}
  PROVE  \E x \in S : \A y \in S : x <= y
<1>1. IsWellFoundedOn(OpToRel(<, Nat), Nat)
  BY NatLessThanWellFounded
<1>2. PICK x \in S : \A y \in S : ~ (<<y, x>> \in OpToRel(<, Nat))
  BY <1>1, WFMin
<1>3. \A y \in S : ~ (y < x)
  <2>1. SUFFICES ASSUME NEW y \in S, y < x PROVE FALSE
    OBVIOUS
  <2>2. <<y, x>> \in OpToRel(<, Nat)
    BY <2>1 DEF OpToRel
  <2> QED BY <2>2, <1>2
<1> QED BY <1>3

\* Quotient and remainder put the dividend together again.
LEMMA DivMod ==
  ASSUME NEW a \in Nat, NEW b \in Nat \ {0}
  PROVE  /\ a \div b \in Nat
         /\ a % b \in 0 .. b - 1
         /\ a = b * (a \div b) + (a % b)
OBVIOUS

\* They are the only pair that does.
LEMMA DivModUnique ==
  ASSUME NEW q \in Nat, NEW b \in Nat \ {0}, NEW r \in 0 .. b - 1
  PROVE  (q * b + r) \div b = q /\ (q * b + r) % b = r
OBVIOUS

\* An address is its block's address, which its tag and set give, plus an offset.
LEMMA AddressType ==
  ASSUME Setting, NEW a \in Nat
  PROVE  /\ BlockOffset(a) \in Offsets /\ SetIndex(a) \in Sets /\ Tag(a) \in Nat
         /\ BlockAddr(a) \in Nat /\ a = BlockAddr(a) + BlockOffset(a)
         /\ BlockAddr(a) = KickAddr(Tag(a), SetIndex(a))
<1> DEFINE q == a \div BlockSize
<1>1. BlockSize \in Nat \ {0} /\ SetNum \in Nat \ {0}
  BY LevelOK
<1>2. q \in Nat /\ a % BlockSize \in 0 .. BlockSize - 1 /\ a = BlockSize * q + (a % BlockSize)
  BY <1>1, DivMod
<1>3. q \div SetNum \in Nat /\ q % SetNum \in 0 .. SetNum - 1 /\ q = SetNum * (q \div SetNum) + (q % SetNum)
  BY <1>1, <1>2, DivMod
<1>4. a - (a % BlockSize) = q * BlockSize
  BY <1>1, <1>2
<1>5. (q \div SetNum) * SetNum + (q % SetNum) = q
  BY <1>1, <1>3
<1>6. q * BlockSize \in Nat
  BY <1>1, <1>2
<1> QED
  BY <1>1, <1>2, <1>3, <1>4, <1>5, <1>6 DEF BlockOffset, SetIndex, Tag, BlockAddr, KickAddr, Offsets, Sets

\* kick_addr is the inverse of the split into tag, set and offset
\* (cache.cpp:43-46 against 101-104).
LEMMA KickAddrParts ==
  ASSUME Setting, NEW t \in Nat, NEW s \in Sets, NEW k \in Offsets
  PROVE  /\ KickAddr(t, s) \in Nat
         /\ BlockOffset(KickAddr(t, s) + k) = k
         /\ SetIndex(KickAddr(t, s) + k) = s
         /\ Tag(KickAddr(t, s) + k) = t
<1> DEFINE q == t * SetNum + s
<1>1. BlockSize \in Nat \ {0} /\ SetNum \in Nat \ {0}
  BY LevelOK
<1>2. q \in Nat
  BY <1>1 DEF Sets
<1>3. (q * BlockSize + k) \div BlockSize = q /\ (q * BlockSize + k) % BlockSize = k
  BY <1>1, <1>2, DivModUnique DEF Offsets
<1>4. q \div SetNum = t /\ q % SetNum = s
  BY <1>1, DivModUnique DEF Sets
<1>5. q * BlockSize \in Nat
  BY <1>1, <1>2
<1> QED
  BY <1>3, <1>4, <1>5 DEF BlockOffset, SetIndex, Tag, KickAddr

\* Two addresses are of one block when their tag and set agree.
LEMMA SameBlock ==
  ASSUME Setting, NEW a \in Nat, NEW b \in Nat
  PROVE  (SetIndex(a) = SetIndex(b) /\ Tag(a) = Tag(b)) <=> BlockAddr(a) = BlockAddr(b)
<1>1. ASSUME BlockAddr(a) = BlockAddr(b) PROVE SetIndex(a) = SetIndex(b) /\ Tag(a) = Tag(b)
  <2>1. 0 \in Offsets
    BY LevelOK DEF Offsets
  <2> QED BY <1>1, <2>1, AddressType, KickAddrParts
<1> QED BY <1>1, AddressType

\* A request that does not cross its block touches that block only.
LEMMA SpanInBlock ==
  ASSUME Setting, NEW a \in Nat, NEW n \in Nat \ {0}, BlockOffset(a) + n <= BlockSize,
         NEW b \in Nat
  PROVE  b \in a .. a + n - 1 <=>
           /\ BlockAddr(b) = BlockAddr(a)
           /\ BlockOffset(b) \in BlockOffset(a) .. BlockOffset(a) + n - 1
<1>1. ASSUME b \in a .. a + n - 1
      PROVE  BlockAddr(b) = BlockAddr(a) /\ BlockOffset(b) = BlockOffset(a) + (b - a)
  <2> DEFINE k == BlockOffset(a) + (b - a)
  <2>1. BlockSize \in Nat /\ BlockOffset(a) \in Nat
    BY LevelOK, AddressType DEF Offsets
  <2>2. k \in Offsets
    BY <1>1, <2>1 DEF Offsets
  <2>3. b = KickAddr(Tag(a), SetIndex(a)) + k
    BY <1>1, <2>1, AddressType
  <2>4. BlockOffset(b) = k
    BY <2>2, <2>3, AddressType, KickAddrParts
  <2>5. BlockAddr(b) = BlockAddr(a)
    BY <2>1, <2>4, <1>1 DEF BlockAddr
  <2> QED BY <2>4, <2>5
<1>2. BlockOffset(a) \in Nat /\ BlockOffset(b) \in Nat /\ BlockAddr(a) \in Nat /\ BlockAddr(b) \in Nat
  BY AddressType DEF Offsets
<1>3. a = BlockAddr(a) + BlockOffset(a) /\ b = BlockAddr(b) + BlockOffset(b)
  BY AddressType
<1> QED BY <1>1, <1>2, <1>3

-----------------------------------------------------------------------------
(* Lines, and the memory a caller sees through them. *)

\* The type of cache.set.
SetType == [Sets -> [Ways -> Line]]

\* Way w of set s holds the block of address a.
Holds(set, s, w, a) == s = SetIndex(a) /\ set[s][w].valid /\ set[s][w].tag = Tag(a)

\* v is the memory seen through set over low.
Sees(set, low, v) ==
  /\ v \in [Mapped -> Byte]
  /\ \A a \in Mapped :
       /\ \A s \in Sets : \A w \in Ways : Holds(set, s, w, a) => v[a] = set[s][w].blk[BlockOffset(a)]
       /\ (\A s \in Sets : \A w \in Ways : ~ Holds(set, s, w, a)) => v[a] = low[a]

\* The lines differ in their ages at most.
SameContents(set, set2) ==
  \A s \in Sets : \A w \in Ways :
    /\ set2[s][w].valid = set[s][w].valid
    /\ set2[s][w].dirty = set[s][w].dirty
    /\ set2[s][w].tag = set[s][w].tag
    /\ set2[s][w].blk = set[s][w].blk

\* The lines differ at way w of set s at most.
SameElsewhere(set, set2, s, w) ==
  \A s2 \in Sets : \A w2 \in Ways : s2 # s \/ w2 # w => set2[s2][w2] = set[s2][w2]

\* Ages are invisible to the caller.
LEMMA Ageing ==
  ASSUME NEW set, NEW set2, NEW low, NEW v, SameContents(set, set2),
         Coherent(set, low), Sees(set, low, v)
  PROVE  Coherent(set2, low) /\ Sees(set2, low, v)
<1>1. Coherent(set2, low)
  BY DEF SameContents, Coherent
<1>2. Sees(set2, low, v)
  BY DEF SameContents, Sees, Holds
<1> QED BY <1>1, <1>2

\* Writing a victim back and forgetting it.
LEMMA Kick ==
  ASSUME Setting, NEW set \in SetType, NEW set2 \in SetType, NEW low \in [Mapped -> Byte],
         NEW low2 \in [Mapped -> Byte], NEW v,
         NEW s \in Sets, NEW w \in Ways,
         SameElsewhere(set, set2, s, w), ~ set2[s][w].valid,
         Coherent(set, low), Sees(set, low, v),
         \/ low2 = low /\ ~ (set[s][w].valid /\ set[s][w].dirty)
         \/ /\ set[s][w].valid
            /\ \A k \in Offsets : low2[KickAddr(set[s][w].tag, s) + k] = set[s][w].blk[k]
            /\ \A a \in Mapped : BlockAddr(a) # KickAddr(set[s][w].tag, s) => low2[a] = low[a]
  PROVE  Coherent(set2, low2) /\ Sees(set2, low2, v)
<1>1. \A s2 \in Sets : \A w2 \in Ways : set2[s2][w2].valid =>
        /\ set[s2][w2] = set2[s2][w2] /\ (s2 # s \/ w2 # w)
        /\ set[s2][w2].tag \in Nat
  BY DEF SameElsewhere, SetType, Line
<1>2. \A s2 \in Sets : \A w2 \in Ways : set2[s2][w2].valid =>
        \A k \in Offsets : low2[KickAddr(set2[s2][w2].tag, s2) + k]
                           = low[KickAddr(set2[s2][w2].tag, s2) + k]
  <2> SUFFICES ASSUME NEW s2 \in Sets, NEW w2 \in Ways, set2[s2][w2].valid, NEW k \in Offsets,
                      set[s][w].valid, low2 # low
               PROVE  LET b == KickAddr(set2[s2][w2].tag, s2) + k IN low2[b] = low[b]
    BY DEF Coherent
  <2> DEFINE b == KickAddr(set2[s2][w2].tag, s2) + k
  <2>1. b \in Mapped /\ b \in Nat
    BY <1>1, MappedOK DEF Coherent
  <2>2. set[s][w].tag \in Nat
    BY DEF SetType, Line
  <2>3. s2 # s \/ set2[s2][w2].tag # set[s][w].tag
    BY <1>1 DEF Coherent
  <2>4. SetIndex(b) = s2 /\ Tag(b) = set2[s2][w2].tag
    BY <1>1, KickAddrParts
  <2>5. BlockAddr(b) # KickAddr(set[s][w].tag, s)
    <3>1. 0 \in Offsets BY LevelOK DEF Offsets
    <3>2. SetIndex(KickAddr(set[s][w].tag, s)) = s /\ Tag(KickAddr(set[s][w].tag, s)) = set[s][w].tag
         /\ BlockOffset(KickAddr(set[s][w].tag, s)) = 0 /\ KickAddr(set[s][w].tag, s) \in Nat
      BY <3>1, <2>2, KickAddrParts
    <3>3. BlockAddr(KickAddr(set[s][w].tag, s)) = KickAddr(set[s][w].tag, s)
      BY <3>2 DEF BlockAddr
    <3> QED BY <3>2, <3>3, <2>1, <2>3, <2>4, SameBlock
  <2> QED BY <2>1, <2>5
<1>3. Coherent(set2, low2)
  BY <1>1, <1>2 DEF Coherent
<1>4. ASSUME NEW a \in Mapped
      PROVE  /\ \A s2 \in Sets : \A w2 \in Ways :
                  Holds(set2, s2, w2, a) => v[a] = set2[s2][w2].blk[BlockOffset(a)]
             /\ (\A s2 \in Sets : \A w2 \in Ways : ~ Holds(set2, s2, w2, a)) => v[a] = low2[a]
  <2>1. \A s2 \in Sets : \A w2 \in Ways :
           Holds(set2, s2, w2, a) => v[a] = set2[s2][w2].blk[BlockOffset(a)]
    BY <1>1 DEF Holds, Sees
  <2>2. ASSUME \A s2 \in Sets : \A w2 \in Ways : ~ Holds(set2, s2, w2, a)
        PROVE  v[a] = low2[a]
    <3>0. a \in Nat
      BY MappedOK
    <3>1. CASE Holds(set, s, w, a)
      <4>1. v[a] = set[s][w].blk[BlockOffset(a)]
        BY <3>1 DEF Sees
      <4>2. a = KickAddr(set[s][w].tag, s) + BlockOffset(a) /\ BlockOffset(a) \in Offsets
        BY <3>0, <3>1, AddressType DEF Holds
      <4>3. CASE low2 = low /\ ~ set[s][w].dirty
        BY <4>1, <4>2, <4>3, <3>1 DEF Coherent, Holds
      <4> QED BY <4>1, <4>2, <4>3, <3>1 DEF Holds
    <3>2. CASE ~ Holds(set, s, w, a)
      <4>1. \A s2 \in Sets : \A w2 \in Ways : ~ Holds(set, s2, w2, a)
        BY <3>2, <2>2 DEF Holds, SameElsewhere
      <4>2. v[a] = low[a]
        BY <4>1 DEF Sees
      <4>3. BlockAddr(a) # KickAddr(set[s][w].tag, s) \/ ~ set[s][w].valid
        <5> SUFFICES ASSUME set[s][w].valid, BlockAddr(a) = KickAddr(set[s][w].tag, s)
                     PROVE  FALSE
          OBVIOUS
        <5>1. set[s][w].tag \in Nat /\ BlockOffset(a) \in Offsets
          BY <3>0, AddressType DEF SetType, Line
        <5>2. a = KickAddr(set[s][w].tag, s) + BlockOffset(a)
          BY <3>0, AddressType
        <5>3. SetIndex(a) = s /\ Tag(a) = set[s][w].tag
          BY <5>1, <5>2, KickAddrParts
        <5> QED BY <5>3, <3>2 DEF Holds
      <4> QED BY <4>2, <4>3
    <3> QED BY <3>1, <3>2
  <2> QED BY <2>1, <2>2
<1> QED BY <1>3, <1>4 DEF Sees

\* Putting the block of an address nobody holds into an invalid way.
LEMMA Insert ==
  ASSUME Setting, NEW set \in SetType, NEW set2 \in SetType, NEW low \in [Mapped -> Byte], NEW v,
         NEW a \in Mapped, NEW w \in Ways,
         SameElsewhere(set, set2, SetIndex(a), w), ~ set[SetIndex(a)][w].valid,
         \A w2 \in Ways : ~ Holds(set, SetIndex(a), w2, a),
         Holds(set2, SetIndex(a), w, a), ~ set2[SetIndex(a)][w].dirty,
         \A k \in Offsets : set2[SetIndex(a)][w].blk[k] = low[BlockAddr(a) + k],
         Coherent(set, low), Sees(set, low, v)
  PROVE  Coherent(set2, low) /\ Sees(set2, low, v)
<1> DEFINE s == SetIndex(a)
<1>1. a \in Nat /\ s \in Sets /\ KickAddr(set2[s][w].tag, s) = BlockAddr(a)
  BY MappedOK, AddressType DEF Holds
<1>2. \A s2 \in Sets : \A w2 \in Ways :
        (s2 = s /\ w2 = w) \/ set2[s2][w2] = set[s2][w2]
  BY DEF SameElsewhere
<1>3. \A s2 \in Sets : \A v2, w2 \in Ways :
        set2[s2][v2].valid /\ set2[s2][w2].valid /\ set2[s2][v2].tag = set2[s2][w2].tag => v2 = w2
  BY <1>2 DEF Coherent, Holds
<1>4. \A s2 \in Sets : \A w2 \in Ways : set2[s2][w2].valid =>
        \A k \in Offsets : KickAddr(set2[s2][w2].tag, s2) + k \in Mapped
  BY <1>1, <1>2, MappedOK DEF Coherent
<1>5. \A s2 \in Sets : \A w2 \in Ways : set2[s2][w2].valid /\ ~ set2[s2][w2].dirty =>
        \A k \in Offsets : set2[s2][w2].blk[k] = low[KickAddr(set2[s2][w2].tag, s2) + k]
  BY <1>1, <1>2 DEF Coherent
<1>6. Coherent(set2, low)
  BY <1>2, <1>3, <1>4, <1>5 DEF Coherent
<1>7. ASSUME NEW b \in Mapped
      PROVE  /\ \A s2 \in Sets : \A w2 \in Ways :
                  Holds(set2, s2, w2, b) => v[b] = set2[s2][w2].blk[BlockOffset(b)]
             /\ (\A s2 \in Sets : \A w2 \in Ways : ~ Holds(set2, s2, w2, b)) => v[b] = low[b]
  <2>1. b \in Nat /\ BlockOffset(b) \in Offsets /\ b = BlockAddr(b) + BlockOffset(b)
    BY MappedOK, AddressType
  <2>2. CASE Holds(set2, s, w, b)
    <3>1. BlockAddr(b) = BlockAddr(a)
      BY <1>1, <2>1, <2>2, SameBlock DEF Holds
    <3>2. \A s2 \in Sets : \A w2 \in Ways : ~ Holds(set, s2, w2, b)
      BY <2>2 DEF Holds
    <3>3. v[b] = low[b]
      BY <3>2 DEF Sees
    <3>4. v[b] = set2[s][w].blk[BlockOffset(b)]
      BY <2>1, <3>1, <3>3
    <3>5. \A s2 \in Sets : \A w2 \in Ways : Holds(set2, s2, w2, b) => s2 = s /\ w2 = w
      BY <2>2, <1>6 DEF Holds, Coherent
    <3> QED BY <2>2, <3>4, <3>5, <1>1
  <2>3. CASE ~ Holds(set2, s, w, b)
    BY <1>1, <1>2, <2>3 DEF Sees, Holds
  <2> QED BY <2>2, <2>3
<1> QED BY <1>6, <1>7 DEF Sees

\* The memory v after the bytes content are written at a.
Patched(v, a, n, content) ==
  [b \in Mapped |-> IF b \in a .. a + n - 1 THEN content[b - a] ELSE v[b]]

\* Writing into the line that holds the address, and below it or not.
LEMMA WriteLine ==
  ASSUME Setting, NEW set \in SetType, NEW set2 \in SetType, NEW low \in [Mapped -> Byte],
         NEW low2 \in [Mapped -> Byte], NEW v,
         NEW a \in Mapped, NEW n \in Nat \ {0}, NEW content \in [0 .. n - 1 -> Byte], NEW w \in Ways,
         BlockOffset(a) + n <= BlockSize,
         SameElsewhere(set, set2, SetIndex(a), w),
         Holds(set, SetIndex(a), w, a), Holds(set2, SetIndex(a), w, a),
         set2[SetIndex(a)][w].blk = Patch(set[SetIndex(a)][w].blk, BlockOffset(a), n, content),
         \/ ~ WriteThrough /\ set2[SetIndex(a)][w].dirty /\ low2 = low
         \/ ~ set[SetIndex(a)][w].dirty /\ ~ set2[SetIndex(a)][w].dirty /\ low2 = Patched(low, a, n, content),
         Coherent(set, low), Sees(set, low, v)
  PROVE  Coherent(set2, low2) /\ Sees(set2, low2, Patched(v, a, n, content))
<1> DEFINE s == SetIndex(a)
           o == BlockOffset(a)
           v2 == Patched(v, a, n, content)
<1>1. /\ a \in Nat /\ s \in Sets /\ o \in Offsets /\ Tag(a) \in Nat
      /\ KickAddr(Tag(a), s) = BlockAddr(a)
  BY MappedOK, AddressType
<1>2. \A s2 \in Sets : \A w2 \in Ways :
        (s2 = s /\ w2 = w) \/ set2[s2][w2] = set[s2][w2]
  BY DEF SameElsewhere
<1>3. set2[s][w].valid /\ set[s][w].valid /\ set2[s][w].tag = Tag(a) /\ set[s][w].tag = Tag(a)
  BY DEF Holds
<1>4. \A b \in Nat : b \in a .. a + n - 1 <=> BlockAddr(b) = BlockAddr(a) /\ BlockOffset(b) \in o .. o + n - 1
  BY <1>1, SpanInBlock
<1>5. \A s2 \in Sets : \A v3, w2 \in Ways :
        set2[s2][v3].valid /\ set2[s2][w2].valid /\ set2[s2][v3].tag = set2[s2][w2].tag => v3 = w2
  BY <1>2, <1>3, <1>1 DEF Coherent
<1>6. \A s2 \in Sets : \A w2 \in Ways : set2[s2][w2].valid =>
        \A k \in Offsets : KickAddr(set2[s2][w2].tag, s2) + k \in Mapped
  BY <1>1, <1>2, <1>3 DEF Coherent
<1>7. ASSUME NEW b \in Mapped, ~ Holds(set, s, w, b)
      PROVE  low2[b] = low[b] /\ v2[b] = v[b]
  <2>1. b \in Nat /\ BlockAddr(b) # BlockAddr(a)
    BY <1>1, <1>3, <1>7, SameBlock, MappedOK DEF Holds
  <2> QED BY <2>1, <1>4 DEF Patched
<1>8. ASSUME NEW b \in Mapped, Holds(set, s, w, b)
      PROVE  /\ BlockOffset(b) \in Offsets /\ b = BlockAddr(a) + BlockOffset(b)
             /\ v2[b] = set2[s][w].blk[BlockOffset(b)]
             /\ ~ set2[s][w].dirty => low2[b] = v2[b]
  <2>1. b \in Nat /\ BlockAddr(b) = BlockAddr(a)
    BY <1>1, <1>8, SameBlock, MappedOK DEF Holds
  <2>2. BlockOffset(b) \in Offsets /\ b = BlockAddr(a) + BlockOffset(b)
    BY <2>1, AddressType
  <2>3. a = BlockAddr(a) + o /\ BlockAddr(a) \in Int
    BY <1>1, AddressType
  <2>4. BlockOffset(b) - o = b - a
    BY <2>2, <2>3, <1>1 DEF Offsets
  <2>5. v[b] = set[s][w].blk[BlockOffset(b)]
    BY <1>8, <1>1 DEF Sees
  <2>6. v2[b] = set2[s][w].blk[BlockOffset(b)]
    BY <2>1, <2>2, <2>4, <2>5, <1>4 DEF Patched, Patch
  <2>7. ASSUME ~ set2[s][w].dirty PROVE low2[b] = v2[b]
    <3>1. low2 = Patched(low, a, n, content) /\ ~ set[s][w].dirty
      BY <2>7
    <3>2. low[b] = v[b]
      BY <3>1, <2>2, <2>5, <1>1, <1>3 DEF Coherent
    <3> QED BY <3>1, <3>2 DEF Patched
  <2> QED BY <2>2, <2>6, <2>7
<1>9. ASSUME NEW s2 \in Sets, NEW w2 \in Ways, set2[s2][w2].valid, ~ set2[s2][w2].dirty,
             NEW k \in Offsets
      PROVE  set2[s2][w2].blk[k] = low2[KickAddr(set2[s2][w2].tag, s2) + k]
  <2> DEFINE b == KickAddr(set2[s2][w2].tag, s2) + k
  <2>1. b \in Mapped /\ set2[s2][w2].tag \in Nat
    BY <1>6, <1>9 DEF SetType, Line
  <2>2. SetIndex(b) = s2 /\ Tag(b) = set2[s2][w2].tag /\ BlockOffset(b) = k
    BY <2>1, KickAddrParts
  <2>3. CASE s2 = s /\ w2 = w
    <3>1. Holds(set, s, w, b)
      BY <2>2, <2>3, <1>3 DEF Holds
    <3> QED BY <1>8, <2>1, <2>2, <2>3, <1>9, <3>1
  <2>4. CASE ~ (s2 = s /\ w2 = w)
    <3>1. set2[s2][w2] = set[s2][w2]
      BY <1>2, <2>4
    <3>2. ~ Holds(set, s, w, b)
      BY <3>1, <2>2, <2>4, <1>1, <1>9 DEF Holds, Coherent
    <3> QED BY <1>7, <1>9, <2>1, <3>1, <3>2 DEF Coherent
  <2> QED BY <2>3, <2>4
<1>10. \A s2 \in Sets : \A w2 \in Ways : set2[s2][w2].valid /\ WriteThrough => ~ set2[s2][w2].dirty
  BY <1>1, <1>2 DEF Coherent
<1>11. Coherent(set2, low2)
  BY <1>5, <1>6, <1>9, <1>10 DEF Coherent
<1>12. v2 \in [Mapped -> Byte]
  <2>1. \A b \in Mapped : b \in Int
    BY MappedOK
  <2> QED BY <2>1, <1>1 DEF Patched, Sees
<1>13. ASSUME NEW b \in Mapped
       PROVE  /\ \A s2 \in Sets : \A w2 \in Ways :
                   Holds(set2, s2, w2, b) => v2[b] = set2[s2][w2].blk[BlockOffset(b)]
              /\ (\A s2 \in Sets : \A w2 \in Ways : ~ Holds(set2, s2, w2, b)) => v2[b] = low2[b]
  <2>1. CASE Holds(set, s, w, b)
    <3>1. Holds(set2, s, w, b)
      BY <2>1, <1>3 DEF Holds
    <3>2. \A s2 \in Sets : \A w2 \in Ways : Holds(set2, s2, w2, b) => s2 = s /\ w2 = w
      BY <3>1, <1>11 DEF Holds, Coherent
    <3> QED BY <3>1, <3>2, <1>8, <2>1, <1>1
  <2>2. CASE ~ Holds(set, s, w, b)
    <3>1. \A s2 \in Sets : \A w2 \in Ways : Holds(set2, s2, w2, b) <=> Holds(set, s2, w2, b)
      BY <1>2, <1>3 DEF Holds
    <3>2. \A s2 \in Sets : \A w2 \in Ways : Holds(set2, s2, w2, b) => set2[s2][w2] = set[s2][w2]
      BY <1>2, <2>2, <3>1
    <3> QED BY <3>1, <3>2, <1>7, <2>2 DEF Sees
  <2> QED BY <2>1, <2>2
<1> QED BY <1>11, <1>12, <1>13 DEF Sees

\* Writing below, at an address nobody holds.
LEMMA WriteBelow ==
  ASSUME Setting, NEW set \in SetType, NEW low \in [Mapped -> Byte], NEW v,
         NEW a \in Mapped, NEW n \in Nat \ {0}, NEW content \in [0 .. n - 1 -> Byte],
         BlockOffset(a) + n <= BlockSize,
         \A w \in Ways : ~ Holds(set, SetIndex(a), w, a),
         Coherent(set, low), Sees(set, low, v)
  PROVE  /\ Coherent(set, Patched(low, a, n, content))
         /\ Sees(set, Patched(low, a, n, content), Patched(v, a, n, content))
<1> DEFINE low2 == Patched(low, a, n, content)
           v2 == Patched(v, a, n, content)
<1>1. a \in Nat
  BY MappedOK
<1>2. \A b \in Nat : b \in a .. a + n - 1 => BlockAddr(b) = BlockAddr(a)
  BY <1>1, SpanInBlock
<1>3. ASSUME NEW b \in Mapped, NEW s \in Sets, NEW w \in Ways, Holds(set, s, w, b)
      PROVE  low2[b] = low[b] /\ v2[b] = v[b]
  <2>1. b \in Nat /\ BlockAddr(b) # BlockAddr(a)
    BY <1>1, <1>3, SameBlock, MappedOK DEF Holds
  <2> QED BY <2>1, <1>2 DEF Patched
<1>4. ASSUME NEW s \in Sets, NEW w \in Ways, set[s][w].valid, ~ set[s][w].dirty, NEW k \in Offsets
      PROVE  set[s][w].blk[k] = low2[KickAddr(set[s][w].tag, s) + k]
  <2> DEFINE b == KickAddr(set[s][w].tag, s) + k
  <2>1. b \in Mapped /\ set[s][w].tag \in Nat
    BY <1>4 DEF SetType, Line, Coherent
  <2>2. Holds(set, s, w, b)
    BY <2>1, <1>4, KickAddrParts DEF Holds
  <2> QED BY <2>1, <2>2, <1>3, <1>4 DEF Coherent
<1>5. Coherent(set, low2)
  BY <1>4 DEF Coherent
<1>6. v2 \in [Mapped -> Byte]
  <2>1. v \in [Mapped -> Byte]
    BY DEF Sees
  <2>2. ASSUME NEW b \in Mapped
        PROVE  (IF b \in a .. a + n - 1 THEN content[b - a] ELSE v[b]) \in Byte
    <3>1. CASE b \in a .. a + n - 1
      <4>1. b - a \in 0 .. n - 1
        BY <1>1, <3>1
      <4> QED BY <4>1, <3>1
    <3>2. CASE b \notin a .. a + n - 1
      BY <2>1, <3>2
    <3> QED BY <3>1, <3>2
  <2> QED BY <2>2 DEF Patched
<1>7. ASSUME NEW b \in Mapped, NEW s \in Sets, NEW w \in Ways, Holds(set, s, w, b)
      PROVE  v2[b] = set[s][w].blk[BlockOffset(b)]
  BY <1>3, <1>7 DEF Sees
<1>8. ASSUME NEW b \in Mapped, \A s \in Sets : \A w \in Ways : ~ Holds(set, s, w, b)
      PROVE  v2[b] = low2[b]
  <2>1. v[b] = low[b]
    BY <1>8 DEF Sees
  <2> QED BY <2>1 DEF Patched
<1> HIDE DEF low2, v2
<1>9. Sees(set, low2, v2)
  BY <1>6, <1>7, <1>8 DEF Sees
<1> QED BY <1>5, <1>9 DEF low2, v2

-----------------------------------------------------------------------------
(* The choice of a way, and the level below. *)

\* Min of the community modules is a member of its set.
LEMMA MinIsMember ==
  ASSUME NEW S \in SUBSET Nat, S # {}
  PROVE  Min(S) \in S
BY SmallestExists DEF Min

\* ReplaceAlgorithm returns a way whatever the ages are.
LEMMA VictimIsAWay ==
  ASSUME Setting, NEW ways \in [Ways -> Line]
  PROVE  ReplaceAlgorithm(ways) \in Ways
<1> DEFINE invalid == {w \in Ways : ~ ways[w].valid}
           oldest  == {w \in Ways : \A v \in Ways : ways[v].visited_t <= ways[w].visited_t}
           youth   == {AgeMax - ways[w].visited_t : w \in Ways}
<1>1. \A w \in Ways : ways[w].visited_t \in Int /\ AgeMax - ways[w].visited_t \in Nat
  BY LevelOK DEF Line, Age
<1>2. 0 \in Ways /\ Ways \subseteq Nat /\ AgeMax \in Nat
  BY LevelOK DEF Ways
<1>3. youth \in SUBSET Nat /\ youth # {}
  BY <1>1, <1>2
<1>4. PICK x \in youth : \A y \in youth : x <= y
  BY <1>3, SmallestExists
<1>5. PICK w \in Ways : x = AgeMax - ways[w].visited_t
  BY <1>4
<1>6. \A v \in Ways : AgeMax - ways[w].visited_t <= AgeMax - ways[v].visited_t
  BY <1>4, <1>5
<1>7. w \in oldest
  BY <1>1, <1>2, <1>5, <1>6
<1>8. Min(IF invalid # {} THEN invalid ELSE oldest) \in Ways
  <2>1. CASE invalid # {}
    BY <2>1, <1>2, MinIsMember
  <2>2. CASE invalid = {}
    BY <2>2, <1>2, <1>7, MinIsMember
  <2> QED BY <2>1, <2>2
<1> QED BY <1>8 DEF ReplaceAlgorithm

\* Ageing keeps the type of the lines and their contents.
LEMMA AgedLines ==
  ASSUME Setting, NEW set \in SetType
  PROVE  AgeAll(set) \in SetType /\ SameContents(set, AgeAll(set))
<1>1. \A t \in Age : NextAge(t) \in Age
  BY LevelOK DEF Age, NextAge
<1>2. ASSUME NEW s \in Sets, NEW w \in Ways
      PROVE  /\ AgeAll(set)[s][w] \in Line
             /\ AgeAll(set)[s][w].valid = set[s][w].valid
             /\ AgeAll(set)[s][w].dirty = set[s][w].dirty
             /\ AgeAll(set)[s][w].tag = set[s][w].tag
             /\ AgeAll(set)[s][w].blk = set[s][w].blk
  <2> DEFINE l == set[s][w]
             aged == [l EXCEPT !.visited_t = NextAge(@)]
  <2>1. l \in Line
    BY DEF SetType
  <2>2. AgeAll(set)[s][w] = IF l.valid THEN aged ELSE l
    BY DEF AgeAll
  <2>3. /\ aged \in Line /\ aged.valid = l.valid /\ aged.dirty = l.dirty
        /\ aged.tag = l.tag /\ aged.blk = l.blk
    BY <1>1, <2>1 DEF Line
  <2> HIDE DEF l, aged
  <2>4. /\ AgeAll(set)[s][w] \in Line
        /\ AgeAll(set)[s][w].valid = l.valid
        /\ AgeAll(set)[s][w].dirty = l.dirty
        /\ AgeAll(set)[s][w].tag = l.tag
        /\ AgeAll(set)[s][w].blk = l.blk
    BY <2>1, <2>2, <2>3
  <2> QED BY <2>4 DEF l
<1>3. AgeAll(set) \in SetType
  BY <1>2 DEF AgeAll, SetType
<1> QED BY <1>2, <1>3 DEF SameContents

\* A block is mapped as a whole.
LEMMA MappedBlock ==
  ASSUME Setting, NEW a \in Nat
  PROVE  /\ a \in Mapped <=> BlockAddr(a) \in Mapped
         /\ a \in Mapped => \A k \in Offsets : BlockAddr(a) + k \in Mapped
<1>0. 0 \in Offsets
  BY LevelOK DEF Offsets
<1>1. /\ BlockOffset(a) \in Offsets /\ a = BlockAddr(a) + BlockOffset(a)
      /\ BlockAddr(a) \in Nat /\ BlockAddr(a) = KickAddr(Tag(a), SetIndex(a))
      /\ Tag(a) \in Nat /\ SetIndex(a) \in Sets
  BY AddressType
<1>2. BlockOffset(BlockAddr(a)) = 0
  <2>1. KickAddr(Tag(a), SetIndex(a)) + 0 = BlockAddr(a)
    BY <1>1
  <2> QED BY <1>0, <1>1, <2>1, KickAddrParts
<1>3. BlockAddr(BlockAddr(a)) = BlockAddr(a)
  BY <1>1, <1>2 DEF BlockAddr
<1>4. a \in Mapped => \A k \in Offsets : BlockAddr(a) + k \in Mapped
  BY MappedOK
<1>5. BlockAddr(a) \in Mapped => \A k \in Offsets : BlockAddr(a) + k \in Mapped
  BY <1>3, MappedOK
<1>6. BlockAddr(a) = BlockAddr(a) + 0
  BY <1>1
<1> QED BY <1>0, <1>1, <1>4, <1>5, <1>6

\* So is what a request touches.
LEMMA MappedSpan ==
  ASSUME Setting, NEW a \in Mapped, NEW n \in Nat \ {0}, BlockOffset(a) + n <= BlockSize
  PROVE  a .. a + n - 1 \subseteq Mapped
<1>1. a \in Nat
  BY MappedOK
<1>2. \A b \in a .. a + n - 1 : b \in Nat /\ BlockAddr(b) = BlockAddr(a)
  BY <1>1, SpanInBlock
<1> QED BY <1>1, <1>2, MappedBlock

\* The n bytes of v from a on.
Bytes(v, a, n) == [i \in 0 .. n - 1 |-> v[a + i]]

\* What the caller reads out of the line that holds the address.
LEMMA ReadLine ==
  ASSUME Setting, NEW set \in SetType, NEW low, NEW v, Sees(set, low, v),
         NEW a \in Mapped, NEW n \in Nat \ {0}, BlockOffset(a) + n <= BlockSize,
         NEW w \in Ways, Holds(set, SetIndex(a), w, a)
  PROVE  Slice(set[SetIndex(a)][w].blk, BlockOffset(a), n) = Bytes(v, a, n)
<1>1. a \in Nat /\ BlockOffset(a) \in Nat /\ SetIndex(a) \in Sets
  BY MappedOK, AddressType DEF Offsets
<1>2. ASSUME NEW i \in 0 .. n - 1
      PROVE  v[a + i] = set[SetIndex(a)][w].blk[BlockOffset(a) + i]
  <2>1. a + i \in a .. a + n - 1 /\ a + i \in Nat
    BY <1>1
  <2>2. a + i \in Mapped
    BY <2>1, MappedSpan
  <2>3. BlockAddr(a + i) = BlockAddr(a)
    BY <2>1, <1>1, SpanInBlock
  <2>4. SetIndex(a + i) = SetIndex(a) /\ Tag(a + i) = Tag(a)
    BY <2>1, <2>3, <1>1, SameBlock
  <2>5. BlockOffset(a + i) = BlockOffset(a) + i
    <3>1. a + i = BlockAddr(a + i) + BlockOffset(a + i) /\ a = BlockAddr(a) + BlockOffset(a)
          /\ BlockOffset(a + i) \in Int /\ BlockAddr(a) \in Int
      BY <2>1, <1>1, AddressType DEF Offsets
    <3> QED BY <3>1, <2>3, <1>1
  <2>6. Holds(set, SetIndex(a), w, a + i)
    BY <2>4 DEF Holds
  <2> QED BY <1>1, <2>2, <2>5, <2>6 DEF Sees
<1> QED BY <1>2 DEF Slice, Bytes


-----------------------------------------------------------------------------
(* Requests, and what a storage promises. *)

\* A request the pipeline may make: it stays inside one block.
RequestOK(rq) ==
  /\ rq.addr \in Nat /\ rq.bytes \in Nat \ {0} /\ rq.read \in BOOLEAN
  /\ BlockOffset(rq.addr) + rq.bytes <= BlockSize
  /\ ~ rq.read => rq.content \in [0 .. rq.bytes - 1 -> Byte]

\* The memory after the request, and what the caller is given.
After(v, rq) == IF rq.read THEN v ELSE Patched(v, rq.addr, rq.bytes, rq.content)
Given(v, rq) == IF rq.read THEN Bytes(v, rq.addr, rq.bytes) ELSE rq.content

\* The level below ends the process on an address without a page, and answers
\* any other as a flat memory does.
LowerPromise ==
  \A low : LowerOK(low) =>
    /\ LowerMem(low) \in [Mapped -> Byte]
    /\ \A rq : RequestOK(rq) =>
         /\ Lower(low, rq).exit = (rq.addr \notin Mapped)
         /\ rq.addr \in Mapped =>
              /\ LowerOK(Lower(low, rq).st)
              /\ LowerMem(Lower(low, rq).st) = After(LowerMem(low), rq)
              /\ Lower(low, rq).content = Given(LowerMem(low), rq)
              /\ Lower(low, rq).time \in Nat

\* A block begins at its own address.
LEMMA BlockStart ==
  ASSUME Setting, NEW a \in Nat
  PROVE  /\ BlockAddr(a) \in Nat /\ BlockOffset(BlockAddr(a)) = 0
         /\ BlockAddr(BlockAddr(a)) = BlockAddr(a)
<1>1. 0 \in Offsets
  BY LevelOK DEF Offsets
<1>2. /\ BlockAddr(a) \in Nat /\ BlockAddr(a) = KickAddr(Tag(a), SetIndex(a))
      /\ Tag(a) \in Nat /\ SetIndex(a) \in Sets
  BY AddressType
<1>3. KickAddr(Tag(a), SetIndex(a)) + 0 = BlockAddr(a)
  BY <1>2
<1>4. BlockOffset(BlockAddr(a)) = 0
  BY <1>1, <1>2, <1>3, KickAddrParts
<1> QED BY <1>2, <1>4 DEF BlockAddr

\* The fetch of a block and its writing back stay inside it.
LEMMA BlockRequests ==
  ASSUME Setting, NEW a \in Nat
  PROVE  /\ RequestOK(ReadBlock(a))
         /\ \A blk \in [Offsets -> Byte] : BlockAddr(a) = a => RequestOK(WriteBlock(a, blk))
<1>1. BlockSize \in Nat \ {0}
  BY LevelOK
<1> QED BY <1>1, BlockStart DEF RequestOK, ReadBlock, WriteBlock, Offsets

\* The level below answers the fetch of a block.
LEMMA LowerRead ==
  ASSUME Setting, LowerPromise, NEW low, LowerOK(low), NEW a \in Nat, NEW r,
         r = Lower(low, ReadBlock(a))
  PROVE  /\ r.exit = (a \notin Mapped)
         /\ a \in Mapped =>
              /\ LowerOK(r.st) /\ LowerMem(r.st) = LowerMem(low) /\ r.time \in Nat
              /\ r.content = Bytes(LowerMem(low), BlockAddr(a), BlockSize)
<1> DEFINE rq == ReadBlock(a)
<1>1. rq.addr = BlockAddr(a) /\ rq.bytes = BlockSize /\ rq.read
  BY DEF ReadBlock
<1>2. RequestOK(rq) /\ (a \in Mapped <=> BlockAddr(a) \in Mapped)
  BY BlockRequests, MappedBlock
<1> HIDE DEF rq
<1>3. /\ r.exit = (rq.addr \notin Mapped)
      /\ rq.addr \in Mapped =>
           /\ LowerOK(r.st) /\ LowerMem(r.st) = After(LowerMem(low), rq)
           /\ r.content = Given(LowerMem(low), rq) /\ r.time \in Nat
  BY <1>2 DEF LowerPromise, rq
<1>4. After(LowerMem(low), rq) = LowerMem(low)
  BY <1>1 DEF After
<1>5. Given(LowerMem(low), rq) = Bytes(LowerMem(low), BlockAddr(a), BlockSize)
  BY <1>1 DEF Given
<1> QED BY <1>1, <1>2, <1>3, <1>4, <1>5

\* The level below takes a write of mapped bytes.
LEMMA LowerWrite ==
  ASSUME Setting, LowerPromise, NEW low, LowerOK(low), NEW rq, RequestOK(rq), ~ rq.read,
         rq.addr \in Mapped, NEW r, r = Lower(low, rq)
  PROVE  /\ r.exit = FALSE /\ LowerOK(r.st) /\ r.time \in Nat
         /\ LowerMem(r.st) = Patched(LowerMem(low), rq.addr, rq.bytes, rq.content)
BY DEF LowerPromise, After

-----------------------------------------------------------------------------
(* The paths of HandleRequest. *)

\* The answer r to rq when the caller saw the memory v before.
Correct(r, v, rq) ==
  /\ r.st.c \in Level /\ LowerOK(r.st.low) /\ r.time \in Nat
  /\ Coherent(r.st.c.set, LowerMem(r.st.low))
  /\ Sees(r.st.c.set, LowerMem(r.st.low), After(v, rq))
  /\ r.content = Given(v, rq)

\* An answer is correct when its parts are.
LEMMA AnswerCorrect ==
  ASSUME NEW r, NEW c, NEW low, NEW v, NEW rq, NEW content, NEW hit, NEW cost,
         r = Answer(c, low, content, hit, cost, FALSE),
         c \in Level, LowerOK(low), cost \in Nat,
         Coherent(c.set, LowerMem(low)), Sees(c.set, LowerMem(low), After(v, rq)),
         content = Given(v, rq)
  PROVE  Correct(r, v, rq) /\ r.exit = FALSE
<1>1. r.st.c = c /\ r.st.low = low /\ r.content = content /\ r.time = cost /\ r.exit = FALSE
  BY DEF Answer
<1> QED BY <1>1 DEF Correct

\* Counting a request keeps the type of the level.
LEMMA CountType ==
  ASSUME Setting, NEW c \in Level, NEW set \in SetType, NEW hit \in {0, 1}
  PROVE  Count(c, set, hit) \in Level /\ Count(c, set, hit).set = set
BY LevelOK DEF Count, Level, SetType

\* Replacing one line changes no other.
LEMMA PutLine ==
  ASSUME NEW set \in SetType, NEW s \in Sets, NEW w \in Ways, NEW line \in Line
  PROVE  LET set2 == [set EXCEPT ![s][w] = line]
         IN  set2 \in SetType /\ set2[s][w] = line /\ SameElsewhere(set, set2, s, w)
<1> DEFINE set2 == [set EXCEPT ![s][w] = line]
<1>1. set2 \in SetType /\ set2[s][w] = line
  BY DEF SetType
<1>2. SameElsewhere(set, set2, s, w)
  BY DEF SetType, SameElsewhere
<1> QED BY <1>1, <1>2

\* What is patched into a block is read back from it.
LEMMA PatchType ==
  ASSUME Setting, NEW blk \in [Offsets -> Byte], NEW o \in Nat, NEW n \in Nat \ {0},
         NEW content \in [0 .. n - 1 -> Byte], o + n <= BlockSize
  PROVE  /\ Patch(blk, o, n, content) \in [Offsets -> Byte]
         /\ Slice(Patch(blk, o, n, content), o, n) = content
<1>1. \A k \in Offsets : k \in o .. o + n - 1 => k - o \in 0 .. n - 1
  BY LevelOK DEF Offsets
<1>2. Patch(blk, o, n, content) \in [Offsets -> Byte]
  BY <1>1 DEF Patch
<1>3. ASSUME NEW i \in 0 .. n - 1
      PROVE  Patch(blk, o, n, content)[o + i] = content[i]
  <2>1. o + i \in Offsets /\ o + i \in o .. o + n - 1 /\ o + i - o = i
    BY LevelOK DEF Offsets
  <2> QED BY <2>1 DEF Patch
<1> QED BY <1>2, <1>3 DEF Slice

\* A patched memory is a memory.
LEMMA PatchedType ==
  ASSUME Setting, NEW v \in [Mapped -> Byte], NEW a \in Nat, NEW n \in Nat \ {0},
         NEW content \in [0 .. n - 1 -> Byte]
  PROVE  Patched(v, a, n, content) \in [Mapped -> Byte]
<1>1. \A b \in Mapped : b \in Nat
  BY MappedOK
<1> QED BY <1>1 DEF Patched

\* A read hit changes nothing the caller sees (cache.cpp:51-57, 84-88).
LEMMA ReadHitCorrect ==
  ASSUME Setting, LowerPromise, NEW c \in Level, NEW set \in SetType, NEW low, NEW v, LowerOK(low),
         Coherent(set, LowerMem(low)), Sees(set, LowerMem(low), v),
         NEW rq, RequestOK(rq), rq.read, rq.addr \in Mapped,
         NEW w \in Ways, Holds(set, SetIndex(rq.addr), w, rq.addr)
  PROVE  Correct(ReadHit(c, set, low, rq, w), v, rq) /\ ReadHit(c, set, low, rq, w).exit = FALSE
<1> DEFINE s    == SetIndex(rq.addr)
           line == [set[s][w] EXCEPT !.visited_t = 0]
           set2 == [set EXCEPT ![s][w] = line]
<1>1. s \in Sets /\ rq.addr \in Nat
  BY AddressType DEF RequestOK
<1>2. set[s][w] \in Line /\ 0 \in Age
  BY <1>1, LevelOK DEF SetType, Age
<1>3. /\ line \in Line /\ line.valid = set[s][w].valid /\ line.dirty = set[s][w].dirty
      /\ line.tag = set[s][w].tag /\ line.blk = set[s][w].blk
  BY <1>2 DEF Line
<1> HIDE DEF line
<1>4. set2 \in SetType /\ set2[s][w] = line /\ SameElsewhere(set, set2, s, w)
  BY <1>1, <1>3, PutLine
<1>5. ReadHit(c, set, low, rq, w)
        = Answer(Count(c, set2, 1), low, Slice(line.blk, BlockOffset(rq.addr), rq.bytes),
                 1, Latency, FALSE)
  BY DEF ReadHit, line
<1> HIDE DEF set2
<1>6. SameContents(set, set2)
  BY <1>3, <1>4 DEF SameContents, SameElsewhere
<1>7. Coherent(set2, LowerMem(low)) /\ Sees(set2, LowerMem(low), v)
  BY <1>6, Ageing
<1>8. Slice(line.blk, BlockOffset(rq.addr), rq.bytes) = Given(v, rq)
  BY <1>3, ReadLine DEF Given, RequestOK
<1>9. Count(c, set2, 1) \in Level /\ Count(c, set2, 1).set = set2
  BY <1>4, CountType
<1>10. Latency \in Nat /\ After(v, rq) = v
  BY LevelOK DEF After
<1> QED BY <1>5, <1>7, <1>8, <1>9, <1>10, AnswerCorrect

\* A write hit, through or back (cache.cpp:58-75, 84-88).
LEMMA WriteHitCorrect ==
  ASSUME Setting, LowerPromise, NEW c \in Level, NEW set \in SetType, NEW low, NEW v, LowerOK(low),
         Coherent(set, LowerMem(low)), Sees(set, LowerMem(low), v),
         NEW rq, RequestOK(rq), ~ rq.read, rq.addr \in Mapped,
         NEW w \in Ways, Holds(set, SetIndex(rq.addr), w, rq.addr)
  PROVE  /\ Correct(WriteHit(c, set, low, rq, w), v, rq)
         /\ WriteHit(c, set, low, rq, w).exit = FALSE
<1> DEFINE s    == SetIndex(rq.addr)
           o    == BlockOffset(rq.addr)
           line == [set[s][w] EXCEPT !.visited_t = 0, !.dirty = ~ WriteThrough,
                                     !.blk = Patch(@, o, rq.bytes, rq.content)]
           set2 == [set EXCEPT ![s][w] = line]
           down == Lower(low, rq)
           low2 == IF WriteThrough THEN down.st ELSE low
           cost == IF WriteThrough THEN Latency + down.time ELSE Latency
<1>0. /\ down.exit = FALSE /\ LowerOK(down.st) /\ down.time \in Nat
      /\ LowerMem(down.st) = Patched(LowerMem(low), rq.addr, rq.bytes, rq.content)
  BY LowerWrite
<1>1. s \in Sets /\ rq.addr \in Nat /\ o \in Nat
  BY AddressType DEF RequestOK, Offsets
<1>2. set[s][w] \in Line /\ 0 \in Age /\ set[s][w].blk \in [Offsets -> Byte] /\ WriteThrough \in BOOLEAN
  BY <1>1, LevelOK DEF SetType, Age, Line
<1>3. Patch(set[s][w].blk, o, rq.bytes, rq.content) \in [Offsets -> Byte]
  BY <1>1, <1>2, PatchType DEF RequestOK
<1>4. /\ line \in Line /\ line.valid = set[s][w].valid /\ line.dirty = ~ WriteThrough
      /\ line.tag = set[s][w].tag
      /\ line.blk = Patch(set[s][w].blk, o, rq.bytes, rq.content)
  BY <1>2, <1>3 DEF Line
<1>5. WriteHit(c, set, low, rq, w)
        = Answer(Count(c, set2, 1), low2, rq.content, 1, cost, FALSE)
  <2>1. CASE WriteThrough
    <3>1. WriteHit(c, set, low, rq, w)
            = Answer(Count(c, set2, 1), down.st, rq.content, 1, Latency + down.time, down.exit)
      BY <2>1 DEF WriteHit
    <3>2. low2 = down.st /\ cost = Latency + down.time
      BY <2>1
    <3> HIDE DEF down, low2, cost, set2
    <3> QED BY <1>0, <3>1, <3>2
  <2>2. CASE ~ WriteThrough
    BY <2>2 DEF WriteHit
  <2> QED BY <2>1, <2>2
<1> HIDE DEF line, down
<1>6. set2 \in SetType /\ set2[s][w] = line /\ SameElsewhere(set, set2, s, w)
  BY <1>1, <1>4, PutLine
<1> HIDE DEF set2
<1>7. Holds(set2, s, w, rq.addr)
  BY <1>4, <1>6 DEF Holds
<1>8. /\ LowerOK(low2) /\ LowerMem(low) \in [Mapped -> Byte] /\ LowerMem(low2) \in [Mapped -> Byte]
      /\ LowerMem(low2) = IF WriteThrough THEN Patched(LowerMem(low), rq.addr, rq.bytes, rq.content)
                          ELSE LowerMem(low)
  <2>1. LowerOK(low2)
    BY <1>0
  <2> QED BY <1>0, <2>1 DEF LowerPromise
<1>9. \/ ~ WriteThrough /\ set2[s][w].dirty /\ LowerMem(low2) = LowerMem(low)
      \/ ~ set[s][w].dirty /\ ~ set2[s][w].dirty
         /\ LowerMem(low2) = Patched(LowerMem(low), rq.addr, rq.bytes, rq.content)
  <2> HIDE DEF low2
  <2> QED BY <1>1, <1>2, <1>4, <1>6, <1>8 DEF Coherent, Holds
<1>10. /\ Coherent(set2, LowerMem(low2))
       /\ Sees(set2, LowerMem(low2), Patched(v, rq.addr, rq.bytes, rq.content))
  <2>1. /\ rq.bytes \in Nat \ {0} /\ o + rq.bytes <= BlockSize
        /\ rq.content \in [0 .. rq.bytes - 1 -> Byte]
    BY DEF RequestOK
  <2>2. set2[s][w].blk = Patch(set[s][w].blk, o, rq.bytes, rq.content)
    BY <1>4, <1>6
  <2> HIDE DEF low2
  <2> QED BY <1>6, <1>7, <1>8, <1>9, <2>1, <2>2, WriteLine
<1>11. Count(c, set2, 1) \in Level /\ Count(c, set2, 1).set = set2
  BY <1>6, CountType
<1>12. cost \in Nat
  BY <1>0, LevelOK
<1>13. After(v, rq) = Patched(v, rq.addr, rq.bytes, rq.content) /\ Given(v, rq) = rq.content
  BY DEF After, Given
<1> HIDE DEF low2, cost
<1> QED BY <1>5, <1>8, <1>10, <1>11, <1>12, <1>13, AnswerCorrect

\* A write miss that does not allocate.
LEMMA WriteAroundCorrect ==
  ASSUME Setting, LowerPromise, NEW c \in Level, NEW set \in SetType, NEW low, NEW v, LowerOK(low),
         Coherent(set, LowerMem(low)), Sees(set, LowerMem(low), v),
         NEW rq, RequestOK(rq), ~ rq.read,
         \A w \in Ways : ~ Holds(set, SetIndex(rq.addr), w, rq.addr)
  PROVE  LET r == WriteAround(c, set, low, rq)
         IN  /\ r.exit = (rq.addr \notin Mapped)
             /\ rq.addr \in Mapped => Correct(r, v, rq)
<1> DEFINE down == Lower(low, rq)
<1>0. WriteAround(c, set, low, rq)
        = Answer(Count(c, set, 0), down.st, rq.content, 0, Latency + down.time, down.exit)
  BY DEF WriteAround
<1> HIDE DEF down
<1>1. CASE rq.addr \notin Mapped
  <2>1. down.exit = (rq.addr \notin Mapped)
    BY DEF LowerPromise, down
  <2>2. WriteAround(c, set, low, rq).exit = down.exit
    BY <1>0 DEF Answer
  <2> QED BY <1>1, <2>1, <2>2
<1>2. CASE rq.addr \in Mapped
  <2>1. /\ down.exit = FALSE /\ LowerOK(down.st) /\ down.time \in Nat
        /\ LowerMem(down.st) = Patched(LowerMem(low), rq.addr, rq.bytes, rq.content)
    BY <1>2, LowerWrite DEF down
  <2>2. LowerMem(low) \in [Mapped -> Byte]
    BY DEF LowerPromise
  <2>3. /\ Coherent(set, LowerMem(down.st))
        /\ Sees(set, LowerMem(down.st), Patched(v, rq.addr, rq.bytes, rq.content))
    BY <1>2, <2>1, <2>2, WriteBelow DEF RequestOK
  <2>4. Count(c, set, 0) \in Level /\ Count(c, set, 0).set = set
    BY CountType
  <2>5. Latency + down.time \in Nat
    BY <2>1, LevelOK
  <2>6. After(v, rq) = Patched(v, rq.addr, rq.bytes, rq.content) /\ Given(v, rq) = rq.content
    BY DEF After, Given
  <2>7. WriteAround(c, set, low, rq)
          = Answer(Count(c, set, 0), down.st, rq.content, 0, Latency + down.time, FALSE)
    BY <1>0, <2>1
  <2> QED BY <1>2, <2>1, <2>3, <2>4, <2>5, <2>6, <2>7, AnswerCorrect
<1> QED BY <1>1, <1>2

\* Writing a whole block back changes that block below and nothing else.
LEMMA PatchedBlock ==
  ASSUME Setting, NEW low \in [Mapped -> Byte], NEW b \in Mapped, NEW blk \in [Offsets -> Byte],
         BlockAddr(b) = b
  PROVE  LET low2 == Patched(low, b, BlockSize, blk)
         IN  /\ low2 \in [Mapped -> Byte]
             /\ \A k \in Offsets : low2[b + k] = blk[k]
             /\ \A a \in Mapped : BlockAddr(a) # b => low2[a] = low[a]
<1> DEFINE low2 == Patched(low, b, BlockSize, blk)
<1>1. b \in Nat /\ BlockSize \in Nat \ {0} /\ BlockOffset(b) = 0
  <2>1. b \in Nat
    BY MappedOK
  <2>2. BlockOffset(b) \in Int /\ b = BlockAddr(b) + BlockOffset(b)
    BY <2>1, AddressType DEF Offsets
  <2> QED BY <2>1, <2>2, LevelOK
<1>2. blk \in [0 .. BlockSize - 1 -> Byte]
  BY DEF Offsets
<1>3. low2 \in [Mapped -> Byte]
  BY <1>1, <1>2, PatchedType
<1>4. ASSUME NEW k \in Offsets PROVE low2[b + k] = blk[k]
  <2>1. b + k \in Mapped
    BY <1>1, MappedBlock
  <2>2. b + k \in b .. b + BlockSize - 1 /\ (b + k) - b = k
    BY <1>1 DEF Offsets
  <2> QED BY <2>1, <2>2 DEF Patched
<1>5. ASSUME NEW a \in Mapped, BlockAddr(a) # b PROVE low2[a] = low[a]
  <2>1. a \in Nat /\ BlockOffset(b) + BlockSize <= BlockSize
    BY <1>1, MappedOK
  <2>2. a \notin b .. b + BlockSize - 1
    BY <1>1, <1>5, <2>1, SpanInBlock
  <2> QED BY <2>2 DEF Patched
<1> QED BY <1>3, <1>4, <1>5

\* A miss that allocates, in three moves: forget the victim, insert the block
\* clean, write into it.
LEMMA FillCorrect ==
  ASSUME Setting, LowerPromise, NEW c \in Level, NEW set \in SetType, NEW low, NEW v, LowerOK(low),
         Coherent(set, LowerMem(low)), Sees(set, LowerMem(low), v),
         NEW rq, RequestOK(rq),
         NEW w \in Ways,
         \A w2 \in Ways : ~ Holds(set, SetIndex(rq.addr), w2, rq.addr)
  PROVE  LET r == Fill(c, set, low, rq, w)
         IN  /\ r.exit = (rq.addr \notin Mapped)
             /\ rq.addr \in Mapped => Correct(r, v, rq)
<1> DEFINE a       == rq.addr
           s       == SetIndex(a)
           o       == BlockOffset(a)
           victim  == set[s][w]
           kicked  == ~ WriteThrough /\ victim.valid /\ victim.dirty
           home    == KickAddr(victim.tag, s)
           idle(l) == [st |-> l, time |-> 0, exit |-> FALSE]
           fetch   == Lower(low, ReadBlock(a))
           kick    == IF kicked THEN Lower(fetch.st, WriteBlock(home, victim.blk))
                      ELSE idle(fetch.st)
           down    == IF ~ rq.read /\ WriteThrough THEN Lower(kick.st, rq) ELSE idle(kick.st)
           mem     == LowerMem(low)
           fetched == [i \in Offsets |-> mem[BlockAddr(a) + i]]
           mem1    == IF kicked THEN Patched(mem, home, BlockSize, victim.blk) ELSE mem
           mem2    == IF ~ rq.read /\ WriteThrough
                      THEN Patched(mem1, a, rq.bytes, rq.content) ELSE mem1
           blk     == IF rq.read THEN fetched ELSE Patch(fetched, o, rq.bytes, rq.content)
           line    == [valid |-> TRUE, dirty |-> ~ rq.read /\ ~ WriteThrough,
                       tag |-> Tag(a), visited_t |-> 0, blk |-> blk]
           cost    == Latency + fetch.time + kick.time + down.time
<1>1. a \in Nat /\ s \in Sets /\ o \in Offsets /\ o \in Nat /\ Tag(a) \in Nat /\ BlockAddr(a) \in Nat
  BY AddressType DEF RequestOK, Offsets
<1>2. victim \in Line /\ victim.tag \in Nat /\ victim.blk \in [Offsets -> Byte]
  BY <1>1 DEF SetType, Line
<1>0. /\ rq.bytes \in Nat \ {0} /\ o + rq.bytes <= BlockSize
      /\ ~ rq.read => rq.content \in [0 .. rq.bytes - 1 -> Byte]
  BY DEF RequestOK
<1>5. mem \in [Mapped -> Byte]
  BY DEF LowerPromise
<1>3. CASE a \notin Mapped
  <2>1. fetch.exit = TRUE
    BY <1>1, <1>3, LowerRead
  <2> QED BY <1>3, <2>1 DEF Fill, Answer
<1>4. CASE a \in Mapped
  <2> DEFINE dead  == [victim EXCEPT !.valid = FALSE]
             clean == [valid |-> TRUE, dirty |-> FALSE, tag |-> Tag(a), visited_t |-> 0,
                       blk |-> fetched]
             set1  == [set EXCEPT ![s][w] = dead]
             set2  == [set EXCEPT ![s][w] = clean]
             set3  == [set EXCEPT ![s][w] = line]
  <2>1. fetched \in [Offsets -> Byte]
    <3>1. \A i \in Offsets : BlockAddr(a) + i \in Mapped
      BY <1>1, <1>4, MappedBlock
    <3> QED BY <1>5, <3>1
  <2>2. blk \in [Offsets -> Byte]
    BY <1>1, <2>1, PatchType DEF RequestOK
  <2>3. 0 \in Age /\ WriteThrough \in BOOLEAN /\ rq.read \in BOOLEAN
    BY LevelOK DEF Age, RequestOK
  <2>4. /\ line \in Line /\ line.valid /\ line.tag = Tag(a) /\ line.blk = blk
        /\ line.dirty = (~ rq.read /\ ~ WriteThrough)
    BY <1>1, <2>2, <2>3 DEF Line
  <2>5. /\ clean \in Line /\ clean.valid /\ clean.tag = Tag(a) /\ clean.blk = fetched
        /\ clean.dirty = FALSE
    BY <1>1, <2>1, <2>2, <2>3 DEF Line
  <2>6. dead \in Line /\ ~ dead.valid
    BY <1>2 DEF Line
  <2>7. ASSUME rq.read PROVE line = clean
    <3>1. blk = fetched /\ (~ rq.read /\ ~ WriteThrough) = FALSE
      BY <2>7
    <3> QED BY <3>1
  <2> HIDE DEF dead, clean, line
  <2>8. /\ set1 \in SetType /\ set1[s][w] = dead /\ SameElsewhere(set, set1, s, w)
        /\ set2 \in SetType /\ set2[s][w] = clean /\ SameElsewhere(set, set2, s, w)
        /\ set3 \in SetType /\ set3[s][w] = line /\ SameElsewhere(set, set3, s, w)
    <3>1. set1 \in SetType /\ set1[s][w] = dead /\ SameElsewhere(set, set1, s, w)
      BY <1>1, <2>6, PutLine
    <3>2. set2 \in SetType /\ set2[s][w] = clean /\ SameElsewhere(set, set2, s, w)
      BY <1>1, <2>5, PutLine
    <3>3. set3 \in SetType /\ set3[s][w] = line /\ SameElsewhere(set, set3, s, w)
      BY <1>1, <2>4, PutLine
    <3> QED BY <3>1, <3>2, <3>3
  <2>9. rq.read => set3 = set2
    BY <2>7
  <2>10. SameElsewhere(set1, set2, s, w) /\ SameElsewhere(set2, set3, s, w)
    BY <2>8 DEF SameElsewhere
  <2>12. victim.valid => home \in Mapped /\ BlockAddr(home) = home
    <3>1. 0 \in Offsets
      BY LevelOK DEF Offsets
    <3>2. home \in Nat /\ home + 0 = home /\ BlockOffset(home) = 0
      BY <1>1, <1>2, <3>1, KickAddrParts
    <3> QED BY <1>1, <3>1, <3>2 DEF Coherent, BlockAddr
  <2>21. /\ fetch.exit = FALSE /\ LowerOK(fetch.st) /\ LowerMem(fetch.st) = mem
         /\ fetch.time \in Nat /\ fetch.content = fetched
    <3>1. fetch = Lower(low, ReadBlock(a))
      OBVIOUS
    <3> HIDE DEF fetch
    <3>2. /\ fetch.exit = FALSE /\ LowerOK(fetch.st) /\ LowerMem(fetch.st) = LowerMem(low)
          /\ fetch.time \in Nat
          /\ fetch.content = Bytes(LowerMem(low), BlockAddr(a), BlockSize)
      <4> HIDE DEF mem, fetched, mem1, mem2, blk, a
      <4> QED BY <1>1, <1>4, <3>1, LowerRead
    <3>3. Bytes(LowerMem(low), BlockAddr(a), BlockSize) = fetched
      BY DEF Bytes, Offsets
    <3> QED BY <3>2, <3>3
  <2>22. /\ kick.exit = FALSE /\ LowerOK(kick.st) /\ LowerMem(kick.st) = mem1
         /\ kick.time \in Nat
    <3>1. CASE kicked
      <4> DEFINE wb == WriteBlock(home, victim.blk)
      <4>1. ~ wb.read /\ wb.addr = home /\ wb.bytes = BlockSize /\ wb.content = victim.blk
        BY DEF WriteBlock
      <4>2. home \in Mapped /\ home \in Nat /\ BlockAddr(home) = home
        BY <2>12, <3>1, MappedOK
      <4>3. RequestOK(wb)
        BY <1>2, <4>2, BlockRequests
      <4>4. kick = Lower(fetch.st, wb)
        BY <3>1
      <4>5. mem1 = Patched(mem, home, BlockSize, victim.blk)
        BY <3>1
      <4> HIDE DEF wb, kick, fetch, mem1
      <4>6. /\ kick.exit = FALSE /\ LowerOK(kick.st) /\ kick.time \in Nat
            /\ LowerMem(kick.st) = Patched(LowerMem(fetch.st), wb.addr, wb.bytes, wb.content)
        <5> HIDE DEF fetched
        <5>1. LowerOK(fetch.st)
          BY <2>21
        <5> QED BY <4>1, <4>2, <4>3, <4>4, <5>1, LowerWrite
      <4> QED BY <2>21, <4>1, <4>5, <4>6
    <3>2. CASE ~ kicked
      <4>1. kick = idle(fetch.st) /\ mem1 = mem
        BY <3>2
      <4> HIDE DEF kick, fetch, mem1
      <4> QED BY <2>21, <4>1
    <3> QED BY <3>1, <3>2
  <2> HIDE DEF kick
  <2>23. /\ down.exit = FALSE /\ LowerOK(down.st) /\ LowerMem(down.st) = mem2
         /\ down.time \in Nat
    <3>1. CASE ~ rq.read /\ WriteThrough
      <4>1. down = Lower(kick.st, rq) /\ mem2 = Patched(mem1, a, rq.bytes, rq.content)
        BY <3>1
      <4> HIDE DEF down, mem1, mem2
      <4> QED BY <1>4, <2>22, <3>1, <4>1, LowerWrite
    <3>2. CASE ~ (~ rq.read /\ WriteThrough)
      <4>1. down = idle(kick.st) /\ mem2 = mem1
        BY <3>2
      <4> HIDE DEF down, mem1, mem2
      <4> QED BY <2>22, <4>1
    <3> QED BY <3>1, <3>2
  <2> HIDE DEF down
  <2>11. Fill(c, set, low, rq, w)
           = Answer(Count(c, set3, 0), down.st, Slice(blk, o, rq.bytes), 0, cost, FALSE)
    <3> DEFINE blk0  == IF rq.read THEN fetch.content
                        ELSE Patch(fetch.content, o, rq.bytes, rq.content)
               line0 == [valid |-> TRUE, dirty |-> ~ rq.read /\ ~ WriteThrough,
                         tag |-> Tag(a), visited_t |-> 0, blk |-> blk0]
    <3>1. Fill(c, set, low, rq, w)
            = IF fetch.exit THEN Answer(c, low, rq.content, 0, 0, TRUE)
              ELSE Answer(Count(c, [set EXCEPT ![s][w] = line0], 0), down.st,
                          Slice(blk0, o, rq.bytes), 0, cost, kick.exit \/ down.exit)
      BY DEF Fill, kick, down
    <3>2. blk0 = blk
      BY <2>21
    <3>3. line0 = line
      BY <3>2 DEF line
    <3>4. (kick.exit \/ down.exit) = FALSE
      BY <2>22, <2>23
    <3> HIDE DEF fetch, blk0, line0, blk, cost
    <3> QED BY <2>21, <3>1, <3>2, <3>3, <3>4
  <2>19. cost \in Nat
    BY <2>21, <2>22, <2>23, LevelOK
  <2> HIDE DEF fetch
  <2> HIDE DEF set1, set2, set3
  <2>13. /\ mem1 \in [Mapped -> Byte]
         /\ \/ mem1 = mem /\ ~ (victim.valid /\ victim.dirty)
            \/ /\ victim.valid
               /\ \A k \in Offsets : mem1[home + k] = victim.blk[k]
               /\ \A b \in Mapped : BlockAddr(b) # home => mem1[b] = mem[b]
    <3>1. CASE kicked
      <4> DEFINE back == Patched(mem, home, BlockSize, victim.blk)
      <4>1. home \in Mapped /\ BlockAddr(home) = home
        BY <2>12, <3>1
      <4>2. /\ back \in [Mapped -> Byte]
            /\ \A k \in Offsets : back[home + k] = victim.blk[k]
            /\ \A b \in Mapped : BlockAddr(b) # home => back[b] = mem[b]
        BY <1>2, <1>5, <4>1, PatchedBlock
      <4>3. mem1 = back
        BY <3>1
      <4> HIDE DEF back, mem1
      <4> QED BY <3>1, <4>2, <4>3
    <3>2. CASE ~ kicked
      BY <1>1, <1>5, <2>3, <3>2 DEF Coherent
    <3> QED BY <3>1, <3>2
  <2> HIDE DEF mem1
  <2>14. Coherent(set1, mem1) /\ Sees(set1, mem1, v)
    BY <1>1, <1>5, <2>6, <2>8, <2>13, Kick
  <2>15. \A k \in Offsets : fetched[k] = mem1[BlockAddr(a) + k]
    <3> SUFFICES ASSUME NEW k \in Offsets, mem1 # mem PROVE mem[BlockAddr(a) + k] = mem1[BlockAddr(a) + k]
      OBVIOUS
    <3>1. BlockAddr(a) + k \in Mapped /\ BlockAddr(BlockAddr(a) + k) = BlockAddr(a)
      <4>1. BlockAddr(a) + k \in Mapped /\ BlockAddr(a) + k \in Nat
        BY <1>4, MappedOK
      <4>2. BlockAddr(a) = KickAddr(Tag(a), s)
        BY <1>1, AddressType
      <4>3. BlockOffset(BlockAddr(a) + k) = k
        BY <1>1, <4>2, KickAddrParts
      <4> QED BY <1>1, <4>1, <4>3 DEF BlockAddr, Offsets
    <3>2. BlockAddr(a) # home
      <4>1. ~ Holds(set, s, w, a)
        OBVIOUS
      <4>2. 0 \in Offsets
        BY LevelOK DEF Offsets
      <4>3. home \in Nat /\ BlockAddr(a) = KickAddr(Tag(a), s)
        BY <1>1, <1>2, <4>2, AddressType, KickAddrParts
      <4>5. BlockAddr(a) = KickAddr(Tag(a), s) + 0 /\ home = KickAddr(victim.tag, s) + 0
        BY <1>1, <4>3
      <4>4. Tag(BlockAddr(a)) = Tag(a) /\ Tag(home) = victim.tag
        BY <1>1, <1>2, <4>2, <4>5, KickAddrParts
      <4> QED BY <2>13, <4>1, <4>4 DEF Holds
    <3> QED BY <2>13, <3>1, <3>2
  <2>16. Coherent(set2, mem1) /\ Sees(set2, mem1, v)
    <3>0. Holds(set2, s, w, a)
      BY <2>5, <2>8 DEF Holds
    <3>1. \A w2 \in Ways : ~ Holds(set1, s, w2, a)
      <4>1. SUFFICES ASSUME NEW w2 \in Ways, set1[s][w2].valid, set1[s][w2].tag = Tag(a)
                     PROVE  FALSE
        BY DEF Holds
      <4>2. w2 # w
        BY <2>6, <2>8, <4>1
      <4>3. set1[s][w2] = set[s][w2]
        BY <1>1, <2>8, <4>2 DEF SameElsewhere
      <4> QED BY <4>1, <4>3 DEF Holds
    <3>2. \A k \in Offsets : set2[s][w].blk[k] = mem1[BlockAddr(a) + k]
      BY <2>5, <2>8, <2>15
    <3>3. ~ set1[s][w].valid /\ ~ set2[s][w].dirty
      BY <2>5, <2>6, <2>8
    <3>4. set1 \in SetType /\ set2 \in SetType /\ mem1 \in [Mapped -> Byte]
      BY <2>8, <2>13
    <3> QED BY <1>4, <2>10, <2>14, <3>0, <3>1, <3>2, <3>3, <3>4, Insert
  <2>17. /\ Coherent(set3, mem2) /\ Sees(set3, mem2, After(v, rq))
         /\ mem2 \in [Mapped -> Byte]
         /\ Slice(blk, o, rq.bytes) = Given(v, rq)
    <3>1. CASE rq.read
      <4>1. Holds(set2, s, w, a)
        BY <2>5, <2>8 DEF Holds
      <4>2. Slice(fetched, o, rq.bytes) = Bytes(v, a, rq.bytes)
        <5>1. Slice(set2[s][w].blk, o, rq.bytes) = Bytes(v, a, rq.bytes)
          BY <1>0, <1>4, <2>8, <2>16, <4>1, ReadLine
        <5> QED BY <2>5, <2>8, <5>1
      <4> QED BY <2>9, <2>13, <2>16, <3>1, <4>2 DEF After, Given
    <3>2. CASE ~ rq.read
      <4>1. Holds(set2, s, w, a) /\ Holds(set3, s, w, a)
        BY <2>4, <2>5, <2>8 DEF Holds
      <4>2. mem2 \in [Mapped -> Byte]
        BY <1>1, <2>13, <3>2, PatchedType DEF RequestOK
      <4>3. set3[s][w].blk = Patch(set2[s][w].blk, o, rq.bytes, rq.content)
        BY <2>4, <2>5, <2>8, <3>2
      <4>4. \/ ~ WriteThrough /\ set3[s][w].dirty /\ mem2 = mem1
            \/ ~ set2[s][w].dirty /\ ~ set3[s][w].dirty /\ mem2 = Patched(mem1, a, rq.bytes, rq.content)
        BY <2>3, <2>4, <2>5, <2>8, <3>2
      <4>5. Coherent(set3, mem2) /\ Sees(set3, mem2, Patched(v, a, rq.bytes, rq.content))
        <5>1. rq.content \in [0 .. rq.bytes - 1 -> Byte]
          BY <1>0, <3>2
        <5> HIDE DEF mem2
        <5> QED BY <1>0, <1>4, <2>8, <2>10, <2>13, <2>16, <4>1, <4>2, <4>3, <4>4, <5>1, WriteLine
      <4>6. Slice(blk, o, rq.bytes) = rq.content
        <5>1. blk = Patch(fetched, o, rq.bytes, rq.content)
          BY <3>2
        <5> HIDE DEF fetched, blk
        <5> QED BY <1>0, <1>1, <2>1, <3>2, <5>1, PatchType
      <4> QED BY <3>2, <4>2, <4>5, <4>6 DEF After, Given
    <3> QED BY <3>1, <3>2
  <2>18. Count(c, set3, 0) \in Level /\ Count(c, set3, 0).set = set3
    BY <2>8, CountType
  <2> HIDE DEF mem2, cost, blk
  <2>20. /\ Correct(Fill(c, set, low, rq, w), v, rq)
         /\ Fill(c, set, low, rq, w).exit = FALSE
    BY <2>11, <2>17, <2>18, <2>19, <2>23, AnswerCorrect
  <2> QED BY <1>4, <2>20
<1> QED BY <1>3, <1>4

\* Every request ends the process or is answered as a flat memory answers it.
LEMMA HandleRequestCorrect ==
  ASSUME Setting, LowerPromise, NEW st, st.c \in Level, LowerOK(st.low), NEW v,
         Coherent(st.c.set, LowerMem(st.low)), Sees(st.c.set, LowerMem(st.low), v),
         NEW rq, RequestOK(rq)
  PROVE  LET r == HandleRequest(st, rq)
         IN  /\ r.exit = (rq.addr \notin Mapped)
             /\ rq.addr \in Mapped => Correct(r, v, rq)
<1> DEFINE c     == st.c
           low   == st.low
           set   == AgeAll(c.set)
           a     == rq.addr
           s     == SetIndex(a)
           ways  == set[s]
           match == ReplaceDecision(ways, Tag(a))
           r     == HandleRequest(st, rq)
<1>1. a \in Nat /\ s \in Sets /\ Tag(a) \in Nat /\ rq.read \in BOOLEAN
  BY AddressType DEF RequestOK
<1>2. c.set \in SetType
  BY DEF Level, SetType
<1>3. set \in SetType /\ Coherent(set, LowerMem(low)) /\ Sees(set, LowerMem(low), v)
  BY <1>2, AgedLines, Ageing
<1>4. ways \in [Ways -> Line] /\ match \subseteq Ways /\ Ways \subseteq Nat
  BY <1>1, <1>3 DEF SetType, ReplaceDecision, Ways
<1>5. \A w \in Ways : w \in match <=> Holds(set, s, w, a)
  BY DEF Holds, ReplaceDecision
<1>6. r = CASE match # {} /\ rq.read   -> ReadHit(c, set, low, rq, Min(match))
            [] match # {} /\ ~ rq.read -> WriteHit(c, set, low, rq, Min(match))
            [] match = {} /\ ~ rq.read /\ ~ WriteAllocate
                                       -> WriteAround(c, set, low, rq)
            [] OTHER -> Fill(c, set, low, rq, ReplaceAlgorithm(ways))
  BY DEF HandleRequest
<1>9. c \in Level /\ LowerOK(low)
  OBVIOUS
<1> HIDE DEF c, low, set, ways, match, r
<1>7. ASSUME match # {}
      PROVE  r.exit = (a \notin Mapped) /\ (a \in Mapped => Correct(r, v, rq))
  <2> DEFINE w == Min(match)
  <2>1. w \in Ways /\ Holds(set, s, w, a)
    BY <1>4, <1>5, <1>7, MinIsMember
  <2>2. a \in Mapped
    <3>1. BlockOffset(a) \in Offsets /\ a = KickAddr(Tag(a), s) + BlockOffset(a)
      BY <1>1, AddressType
    <3> QED BY <1>1, <1>3, <2>1, <3>1 DEF Coherent, Holds
  <2> HIDE DEF w
  <2>3. CASE rq.read
    <3>1. r = ReadHit(c, set, low, rq, w)
      BY <1>6, <1>7, <2>3 DEF w
    <3> QED BY <1>3, <1>9, <2>1, <2>2, <2>3, <3>1, ReadHitCorrect
  <2>4. CASE ~ rq.read
    <3>1. r = WriteHit(c, set, low, rq, w)
      BY <1>6, <1>7, <2>4 DEF w
    <3> QED BY <1>3, <1>9, <2>1, <2>2, <2>4, <3>1, WriteHitCorrect
  <2> QED BY <1>1, <2>3, <2>4
<1>8. ASSUME match = {}
      PROVE  r.exit = (a \notin Mapped) /\ (a \in Mapped => Correct(r, v, rq))
  <2>1. \A w \in Ways : ~ Holds(set, s, w, a)
    BY <1>5, <1>8
  <2>2. CASE ~ rq.read /\ ~ WriteAllocate
    <3>1. r = WriteAround(c, set, low, rq)
      BY <1>6, <1>8, <2>2
    <3> QED BY <1>3, <1>9, <2>1, <2>2, <3>1, WriteAroundCorrect
  <2>3. CASE ~ (~ rq.read /\ ~ WriteAllocate)
    <3>1. r = Fill(c, set, low, rq, ReplaceAlgorithm(ways))
      BY <1>6, <1>8, <2>3
    <3>2. ReplaceAlgorithm(ways) \in Ways
      BY <1>4, VictimIsAWay
    <3> QED BY <1>3, <1>9, <2>1, <3>1, <3>2, FillCorrect
  <2> QED BY <2>2, <2>3
<1> QED BY <1>7, <1>8 DEF r

\* View as an operator of the lines and the level below.
ViewOf(set, low) ==
  [a \in Mapped |->
     LET held == {w \in Ways : set[SetIndex(a)][w].valid /\ set[SetIndex(a)][w].tag = Tag(a)}
     IN  IF held = {} THEN low[a]
         ELSE set[SetIndex(a)][Min(held)].blk[BlockOffset(a)]]

\* The view is the memory seen through coherent lines.
LEMMA ViewIsSeen ==
  ASSUME Setting, NEW set \in SetType, NEW low \in [Mapped -> Byte], Coherent(set, low)
  PROVE  Sees(set, low, ViewOf(set, low))
<1> DEFINE v == ViewOf(set, low)
<1>1. ASSUME NEW a \in Mapped
      PROVE  /\ v[a] \in Byte
             /\ \A s \in Sets : \A w \in Ways : Holds(set, s, w, a) => v[a] = set[s][w].blk[BlockOffset(a)]
             /\ (\A s \in Sets : \A w \in Ways : ~ Holds(set, s, w, a)) => v[a] = low[a]
  <2> DEFINE s    == SetIndex(a)
             held == {w \in Ways : set[s][w].valid /\ set[s][w].tag = Tag(a)}
  <2>1. s \in Sets /\ BlockOffset(a) \in Offsets
    BY MappedOK, AddressType
  <2>2. v[a] = IF held = {} THEN low[a] ELSE set[s][Min(held)].blk[BlockOffset(a)]
    BY DEF ViewOf
  <2>3. \A s2 \in Sets : \A w \in Ways : Holds(set, s2, w, a) <=> s2 = s /\ w \in held
    BY DEF Holds
  <2>4. CASE held = {}
    BY <2>1, <2>2, <2>3, <2>4
  <2>5. CASE held # {}
    <3>1. held \in SUBSET Nat
      BY LevelOK DEF Ways
    <3>2. Min(held) \in held
      BY <3>1, <2>5, MinIsMember
    <3>3. \A w \in held : w = Min(held)
      BY <2>1, <3>2 DEF Coherent
    <3>4. set[s][Min(held)].blk[BlockOffset(a)] \in Byte
      BY <2>1, <3>2 DEF SetType, Line
    <3> HIDE DEF held, v
    <3>5. v[a] = set[s][Min(held)].blk[BlockOffset(a)]
      BY <2>2, <2>5
    <3>6. \A s2 \in Sets : \A w \in Ways : Holds(set, s2, w, a) => s2 = s /\ w = Min(held)
      BY <2>3, <3>3
    <3>7. Min(held) \in Ways /\ Holds(set, s, Min(held), a)
      BY <2>1, <2>3, <3>2 DEF held
    <3> QED BY <2>1, <3>4, <3>5, <3>6, <3>7
  <2> QED BY <2>4, <2>5
<1>2. v \in [Mapped -> Byte]
  BY <1>1 DEF ViewOf
<1> QED BY <1>1, <1>2 DEF Sees

\* Clean lines show the memory below.
LEMMA CleanLinesShowBelow ==
  ASSUME Setting, WriteThrough, NEW set \in SetType, NEW low \in [Mapped -> Byte],
         Coherent(set, low)
  PROVE  Sees(set, low, low)
<1> SUFFICES ASSUME NEW a \in Mapped, NEW s \in Sets, NEW w \in Ways, Holds(set, s, w, a)
             PROVE  low[a] = set[s][w].blk[BlockOffset(a)]
  BY DEF Sees
<1>1. BlockOffset(a) \in Offsets /\ a = KickAddr(Tag(a), s) + BlockOffset(a)
  BY MappedOK, AddressType DEF Holds
<1> QED BY <1>1 DEF Coherent, Holds

\* Lines show one memory only.
LEMMA SeesOneMemory ==
  ASSUME Setting, NEW set, NEW low, NEW v, NEW v2, Sees(set, low, v), Sees(set, low, v2)
  PROVE  v = v2
<1>1. ASSUME NEW a \in Mapped PROVE v[a] = v2[a]
  BY DEF Sees
<1> QED BY <1>1 DEF Sees

-----------------------------------------------------------------------------
(* The promise of the level. *)

\* The states of this level and all below it, and the memory they show.
StorageOK(st) ==
  /\ st.c \in Level /\ LowerOK(st.low)
  /\ Coherent(st.c.set, LowerMem(st.low))
StorageMem(st) == ViewOf(st.c.set, LowerMem(st.low))

\* A level over one that keeps the promise keeps it as well.
LEMMA Promise ==
  ASSUME Setting, LowerPromise, NEW st, StorageOK(st)
  PROVE  /\ StorageMem(st) \in [Mapped -> Byte]
         /\ \A rq : RequestOK(rq) =>
              /\ HandleRequest(st, rq).exit = (rq.addr \notin Mapped)
              /\ rq.addr \in Mapped =>
                   /\ StorageOK(HandleRequest(st, rq).st)
                   /\ StorageMem(HandleRequest(st, rq).st) = After(StorageMem(st), rq)
                   /\ HandleRequest(st, rq).content = Given(StorageMem(st), rq)
                   /\ HandleRequest(st, rq).time \in Nat
<1> DEFINE v == StorageMem(st)
<1>1. /\ st.c \in Level /\ LowerOK(st.low) /\ Coherent(st.c.set, LowerMem(st.low))
      /\ LowerMem(st.low) \in [Mapped -> Byte] /\ st.c.set \in SetType
  BY DEF StorageOK, LowerPromise, Level, SetType
<1>2. Sees(st.c.set, LowerMem(st.low), v)
  BY <1>1, ViewIsSeen DEF StorageMem
<1>3. v \in [Mapped -> Byte]
  BY <1>2 DEF Sees
<1> HIDE DEF v
<1>4. ASSUME NEW rq, RequestOK(rq)
      PROVE  /\ HandleRequest(st, rq).exit = (rq.addr \notin Mapped)
             /\ rq.addr \in Mapped =>
                  /\ StorageOK(HandleRequest(st, rq).st)
                  /\ StorageMem(HandleRequest(st, rq).st) = After(v, rq)
                  /\ HandleRequest(st, rq).content = Given(v, rq)
                  /\ HandleRequest(st, rq).time \in Nat
  <2> DEFINE r == HandleRequest(st, rq)
  <2>1. r.exit = (rq.addr \notin Mapped) /\ (rq.addr \in Mapped => Correct(r, v, rq))
    BY <1>1, <1>2, <1>4, HandleRequestCorrect
  <2> HIDE DEF r
  <2>2. ASSUME rq.addr \in Mapped
        PROVE  /\ StorageOK(r.st) /\ StorageMem(r.st) = After(v, rq)
               /\ r.content = Given(v, rq) /\ r.time \in Nat
    <3>1. /\ r.st.c \in Level /\ LowerOK(r.st.low) /\ r.time \in Nat
          /\ Coherent(r.st.c.set, LowerMem(r.st.low))
          /\ Sees(r.st.c.set, LowerMem(r.st.low), After(v, rq))
          /\ r.content = Given(v, rq)
      BY <2>1, <2>2 DEF Correct
    <3>2. r.st.c.set \in SetType /\ LowerMem(r.st.low) \in [Mapped -> Byte]
      BY <3>1 DEF LowerPromise, Level, SetType
    <3>3. Sees(r.st.c.set, LowerMem(r.st.low), StorageMem(r.st))
      BY <3>1, <3>2, ViewIsSeen DEF StorageMem
    <3>4. StorageMem(r.st) = After(v, rq)
      BY <3>1, <3>3, SeesOneMemory
    <3> QED BY <3>1, <3>4 DEF StorageOK
  <2> QED BY <2>1, <2>2 DEF r
<1> QED BY <1>3, <1>4 DEF v

\* A request hits or misses.
LEMMA HitOrMiss ==
  ASSUME NEW st, NEW rq, RequestOK(rq)
  PROVE  HandleRequest(st, rq).hit \in {0, 1}
BY DEF RequestOK, HandleRequest, ReadHit, WriteHit, WriteAround, Fill, Answer

\* The books of a write-back level: a request counts once, and its time is that of
\* the level and of what it asks for below, nothing on a hit, a fetch on a miss and
\* a write after it if the victim was dirty.
LEMMA Bookkeeping ==
  ASSUME ~ WriteThrough, WriteAllocate, NEW st, NEW rq, rq.read \in BOOLEAN,
         NEW r, r = HandleRequest(st, rq), ~ r.exit
  PROVE  /\ r.st.c.access_counter = st.c.access_counter + 1
         /\ r.st.c.miss_num = st.c.miss_num + (1 - r.hit)
         /\ r.st.c.access_time = st.c.access_time + Latency
         /\ \/ r.hit = 1 /\ r.st.low = st.low /\ r.time = Latency
            \/ \E fetch, kick :
                 LET d1 == Lower(st.low, fetch)
                     d2 == Lower(d1.st, kick)
                 IN  /\ r.hit = 0 /\ fetch.read \in BOOLEAN /\ kick.read \in BOOLEAN /\ ~ d1.exit
                     /\ \/ r.st.low = d1.st /\ r.time = Latency + d1.time + 0 + 0
                        \/ ~ d2.exit /\ r.st.low = d2.st /\ r.time = Latency + d1.time + d2.time + 0
<1> DEFINE set   == AgeAll(st.c.set)
           ways  == set[SetIndex(rq.addr)]
           match == ReplaceDecision(ways, Tag(rq.addr))
<1>1. \/ r = ReadHit(st.c, set, st.low, rq, Min(match))
      \/ r = WriteHit(st.c, set, st.low, rq, Min(match))
      \/ r = Fill(st.c, set, st.low, rq, ReplaceAlgorithm(ways))
  BY DEF HandleRequest
<1> HIDE DEF set, ways, match
<1>2. CASE r = ReadHit(st.c, set, st.low, rq, Min(match))
  <2>1. PICK set1, content : r = Answer(Count(st.c, set1, 1), st.low, content, 1, Latency, FALSE)
    BY <1>2 DEF ReadHit
  <2> QED BY <2>1 DEF Answer, Count
<1>3. CASE r = WriteHit(st.c, set, st.low, rq, Min(match))
  <2>1. PICK set1, content : r = Answer(Count(st.c, set1, 1), st.low, content, 1, Latency, FALSE)
    BY <1>3 DEF WriteHit
  <2> QED BY <2>1 DEF Answer, Count
<1>4. CASE r = Fill(st.c, set, st.low, rq, ReplaceAlgorithm(ways))
  <2> DEFINE s       == SetIndex(rq.addr)
             victim  == set[s][ReplaceAlgorithm(ways)]
             fetch   == ReadBlock(rq.addr)
             kick    == WriteBlock(KickAddr(victim.tag, s), victim.blk)
             idle(l) == [st |-> l, time |-> 0, exit |-> FALSE]
             d1      == Lower(st.low, fetch)
             d2      == IF victim.valid /\ victim.dirty THEN Lower(d1.st, kick) ELSE idle(d1.st)
             d3      == idle(d2.st)
  <2>1. ~ d1.exit
    <3> SUFFICES ASSUME d1.exit PROVE FALSE
      OBVIOUS
    <3>1. r = Answer(st.c, st.low, rq.content, 0, 0, TRUE)
      BY <1>4 DEF Fill
    <3> QED BY <3>1 DEF Answer
  <2>2. PICK set1, content :
          r = Answer(Count(st.c, set1, 0), d3.st, content, 0,
                     Latency + d1.time + d2.time + d3.time, d2.exit \/ d3.exit)
    <3> DEFINE k2 == IF ~ WriteThrough /\ victim.valid /\ victim.dirty
                     THEN Lower(d1.st, kick) ELSE idle(d1.st)
               k3 == IF ~ rq.read /\ WriteThrough THEN Lower(k2.st, rq) ELSE idle(k2.st)
    <3>1. k2 = d2 /\ k3 = d3
      OBVIOUS
    <3>2. \E set1, content :
            r = Answer(Count(st.c, set1, 0), k3.st, content, 0,
                       Latency + d1.time + k2.time + k3.time, k2.exit \/ k3.exit)
      BY <1>4, <2>1, Zenon DEF Fill
    <3> HIDE DEF k2, k3, d2, d3
    <3> QED BY <3>1, <3>2, Zenon
  <2>3. fetch.read \in BOOLEAN /\ kick.read \in BOOLEAN
    BY DEF ReadBlock, WriteBlock
  <2>4. d3.st = d2.st /\ d3.time = 0 /\ ~ d3.exit
    OBVIOUS
  <2>5. \/ d2 = Lower(d1.st, kick)
        \/ d2.st = d1.st /\ d2.time = 0
    OBVIOUS
  <2> HIDE DEF d1, d2, d3, fetch, kick
  <2>6. /\ r.hit = 0 /\ r.st.low = d2.st /\ r.time = Latency + d1.time + d2.time + 0
        /\ ~ d2.exit
        /\ r.st.c.access_counter = st.c.access_counter + 1
        /\ r.st.c.miss_num = st.c.miss_num + (1 - r.hit)
        /\ r.st.c.access_time = st.c.access_time + Latency
    <3> DEFINE cost == Latency + d1.time + d2.time + d3.time
    <3> HIDE DEF cost
    <3>1. ~ d2.exit
      <4> SUFFICES ASSUME d2.exit PROVE FALSE
        OBVIOUS
      <4>1. (d2.exit \/ d3.exit) = TRUE
        OBVIOUS
      <4>2. r = Answer(Count(st.c, set1, 0), d3.st, content, 0, cost, TRUE)
        BY <2>2, <4>1 DEF cost
      <4> QED BY <4>2 DEF Answer
    <3>2. (d2.exit \/ d3.exit) = FALSE
      BY <2>4, <3>1
    <3>3. r = Answer(Count(st.c, set1, 0), d3.st, content, 0, cost, FALSE)
      BY <2>2, <3>2 DEF cost
    <3>4. r.hit = 0 /\ r.st.low = d3.st /\ r.time = cost /\ r.st.c = Count(st.c, set1, 0)
      BY <3>3 DEF Answer
    <3> QED BY <2>4, <3>1, <3>4 DEF Count, cost
  <2> QED BY <2>1, <2>3, <2>5, <2>6 DEF d1
<1> QED BY <1>1, <1>2, <1>3, <1>4

\* What the caller is given are the bytes it asked for, at most a block of them.
LEMMA GivenType ==
  ASSUME Setting, NEW v \in [Mapped -> Byte], NEW rq, RequestOK(rq), rq.addr \in Mapped
  PROVE  Given(v, rq) \in UNION {[0 .. n - 1 -> Byte] : n \in 0 .. BlockSize}
<1>1. Given(v, rq) \in [0 .. rq.bytes - 1 -> Byte]
  <2>1. CASE rq.read
    <3>1. \A i \in 0 .. rq.bytes - 1 : rq.addr + i \in Mapped
      <4>1. rq.addr .. rq.addr + rq.bytes - 1 \subseteq Mapped
        BY MappedSpan DEF RequestOK
      <4> QED BY <4>1 DEF RequestOK
    <3>2. Bytes(v, rq.addr, rq.bytes) \in [0 .. rq.bytes - 1 -> Byte]
      BY <3>1 DEF Bytes
    <3> QED BY <2>1, <3>2 DEF Given
  <2>2. CASE ~ rq.read
    BY <2>2 DEF Given, RequestOK
  <2> QED BY <2>1, <2>2
<1>2. rq.bytes \in 0 .. BlockSize
  <2>1. rq.addr \in Nat /\ rq.bytes \in Nat /\ BlockOffset(rq.addr) + rq.bytes <= BlockSize
    BY DEF RequestOK
  <2>2. BlockOffset(rq.addr) \in Offsets
    BY <2>1, AddressType
  <2>3. BlockOffset(rq.addr) \in Nat /\ BlockSize \in Nat
    BY <2>2, LevelOK DEF Offsets
  <2> QED BY <2>1, <2>3
<1> QED BY <1>1, <1>2

\* The answer to nothing asked.
LEMMA NoContent ==
  ASSUME Setting
  PROVE  << >> \in UNION {[0 .. n - 1 -> Byte] : n \in 0 .. BlockSize}
<1>1. << >> \in [0 .. 0 - 1 -> Byte]
  <2>1. << >> \in Seq(Byte) /\ Len(<< >>) = 0
    OBVIOUS
  <2>2. << >> \in [1 .. 0 -> Byte]
    BY <2>1
  <2>3. 1 .. 0 = 0 .. 0 - 1
    OBVIOUS
  <2> QED BY <2>2, <2>3
<1>2. 0 \in 0 .. BlockSize
  BY LevelOK
<1> QED BY <1>1, <1>2

\* Invalid lines are coherent over any level below.
LEMMA EmptyIsCoherent ==
  ASSUME Setting, NEW set, NEW low, \A s \in Sets : \A w \in Ways : ~ set[s][w].valid
  PROVE  Coherent(set, low)
BY DEF Coherent
=============================================================================
