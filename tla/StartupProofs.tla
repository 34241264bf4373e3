--------------------------- MODULE StartupProofs ---------------------------
(***************************************************************************)
(* What holds of the startup for every command line, file and console      *)
(* input, every size of directories, tables and pages, and every place and *)
(* size of the stack.                                                      *)
(***************************************************************************)
EXTENDS StartupProperties, SequenceTheorems, FiniteSetTheorems, TLAPS

-----------------------------------------------------------------------------
(* Arithmetic of addresses. *)

\* Quotient and remainder put the dividend together again.
LEMMA DivMod ==
  ASSUME NEW a \in Nat, NEW b \in Nat \ {0}
  PROVE  /\ a \div b \in Nat
         /\ a % b \in 0 .. b - 1
         /\ a = b * (a \div b) + (a % b)
OBVIOUS

LEMMA Multiple ==
  ASSUME NEW a \in Nat, NEW b \in Nat \ {0}, a % b = 0
  PROVE  \E q \in Nat : a = b * q
<1>1. a \div b \in Nat /\ a = b * (a \div b)
  BY DivMod
<1> WITNESS a \div b \in Nat
<1> QED BY <1>1

\* They are the only pair that does.
LEMMA DivModUnique ==
  ASSUME NEW q \in Nat, NEW b \in Nat \ {0}, NEW r \in 0 .. b - 1
  PROVE  (q * b + r) \div b = q /\ (q * b + r) % b = r
OBVIOUS

\* So equal dividends have equal quotients and remainders.
LEMMA SameQuotient ==
  ASSUME NEW q \in Nat, NEW b \in Nat \ {0}, NEW r \in 0 .. b - 1,
         NEW q2 \in Nat, NEW r2 \in 0 .. b - 1, q * b + r = q2 * b + r2
  PROVE  q = q2 /\ r = r2
<1>1. (q * b + r) \div b = q /\ (q * b + r) % b = r
  BY DivModUnique
<1>2. (q2 * b + r2) \div b = q2 /\ (q2 * b + r2) % b = r2
  BY DivModUnique
<1> QED BY <1>1, <1>2

\* Products of the sizes.
LEMMA SizesOK ==
  /\ DirSize \in Nat \ {0} /\ TabSize \in Nat \ {0} /\ PageSize \in Nat \ {0}
  /\ TabSize * PageSize \in Nat \ {0} /\ AddrMod \in Nat \ {0}
  /\ AddrMod = DirSize * (TabSize * PageSize)
<1>1. DirSize \in Nat \ {0} /\ TabSize \in Nat \ {0} /\ PageSize \in Nat \ {0}
  BY PageTableAssumption
<1>2. \A m, n \in Nat \ {0} : m * n \in Nat \ {0}
  OBVIOUS
<1>3. TabSize * PageSize \in Nat \ {0}
  BY <1>1, <1>2
<1>4. AddrMod = DirSize * (TabSize * PageSize)
  BY <1>1 DEF AddrMod
<1> QED BY <1>1, <1>2, <1>3, <1>4

\* A sum that is below a multiple.
LEMMA Below ==
  ASSUME NEW q \in Nat, NEW b \in Nat \ {0}, NEW r \in 0 .. b - 1, NEW n \in Nat
  PROVE  /\ q < n => q * b + r \in 0 .. n * b - 1
         /\ q * b + r < n * b => q < n
<1>1. CASE q < n
  <2>1. (n - q) * b >= b
    BY <1>1
  <2>2. (n - q) * b = n * b - q * b
    OBVIOUS
  <2>3. q * b \in Nat /\ n * b \in Nat
    OBVIOUS
  <2> QED BY <1>1, <2>1, <2>2, <2>3
<1>2. CASE ~ (q < n)
  <2>1. (q - n) * b >= 0 /\ (q - n) * b = q * b - n * b
    BY <1>2
  <2>2. q * b \in Nat /\ n * b \in Nat
    OBVIOUS
  <2> QED BY <1>2, <2>1, <2>2
<1> QED BY <1>1, <1>2

\* An address by its parts.
Address == 0 .. AddrMod - 1
At(i, j, k) == (i * TabSize + j) * PageSize + k

LEMMA PartsOfAt ==
  ASSUME NEW i \in Dir, NEW j \in Tab, NEW k \in Off
  PROVE  /\ At(i, j, k) \in Address
         /\ PDE(At(i, j, k)) = i /\ PTE(At(i, j, k)) = j /\ OFF(At(i, j, k)) = k
<1> DEFINE q == i * TabSize + j
           r == j * PageSize + k
<1>1. /\ i \in Nat /\ i < DirSize /\ j \in 0 .. TabSize - 1 /\ k \in 0 .. PageSize - 1
      /\ i \in 0 .. DirSize - 1
  BY SizesOK DEF Dir, Tab, Off
<1>2. q \in Nat /\ q \div TabSize = i /\ q % TabSize = j
  <2>1. q \in Nat
    BY <1>1, SizesOK
  <2>2. i \in Nat /\ TabSize \in Nat \ {0} /\ j \in 0 .. TabSize - 1
    BY <1>1, SizesOK
  <2> QED BY ONLY <2>1, <2>2, DivModUnique
<1>3. At(i, j, k) \div PageSize = q /\ At(i, j, k) % PageSize = k
  BY <1>1, <1>2, SizesOK, DivModUnique DEF At
<1>4. r \in 0 .. TabSize * PageSize - 1
  BY <1>1, SizesOK, Below
<1>5. At(i, j, k) = i * (TabSize * PageSize) + r
  <2>1. q * PageSize = i * (TabSize * PageSize) + j * PageSize
    BY <1>1, SizesOK
  <2> QED BY <1>1, <2>1, SizesOK DEF At
<1> HIDE DEF q, r
<1>6. At(i, j, k) \div (TabSize * PageSize) = i
  <2> DEFINE b == TabSize * PageSize
  <2>1. i \in Nat /\ b \in Nat \ {0} /\ r \in 0 .. b - 1 /\ At(i, j, k) = i * b + r
    BY <1>1, <1>4, <1>5, SizesOK
  <2> HIDE DEF b
  <2>2. At(i, j, k) \div b = i
    BY <2>1, DivModUnique
  <2> QED BY <2>2 DEF b
<1>7. At(i, j, k) \in 0 .. DirSize * (TabSize * PageSize) - 1
  BY <1>1, <1>4, <1>5, SizesOK, Below
<1>8. i % DirSize = i
  BY <1>1, SizesOK
<1> QED BY <1>2, <1>3, <1>6, <1>7, <1>8, SizesOK DEF PDE, PTE, OFF, Address

LEMMA AtOfParts ==
  ASSUME NEW a \in Address
  PROVE  /\ PDE(a) \in Dir /\ PTE(a) \in Tab /\ OFF(a) \in Off
         /\ a = At(PDE(a), PTE(a), OFF(a))
         /\ Page(a) \in Nat /\ Page(a) = PDE(a) * TabSize + PTE(a)
<1> DEFINE q == a \div PageSize
           i == q \div TabSize
           j == q % TabSize
           k == a % PageSize
<1>1. a \in Nat /\ a < AddrMod
  BY SizesOK DEF Address
<1>2. q \in Nat /\ k \in 0 .. PageSize - 1 /\ a = PageSize * q + k
  BY <1>1, SizesOK, DivMod
<1>3. i \in Nat /\ j \in 0 .. TabSize - 1 /\ q = TabSize * i + j
  BY <1>2, SizesOK, DivMod
<1> HIDE DEF q, i, j, k
<1>4. q = i * TabSize + j /\ a = At(i, j, k)
  BY <1>2, <1>3, SizesOK DEF At
<1>5. i < DirSize
  <2>1. j * PageSize + k \in 0 .. TabSize * PageSize - 1
    BY <1>2, <1>3, SizesOK, Below
  <2>2. a = i * (TabSize * PageSize) + (j * PageSize + k)
    <3>1. (i * TabSize + j) * PageSize = i * (TabSize * PageSize) + j * PageSize
      BY <1>3, SizesOK
    <3> QED BY <1>2, <1>3, <1>4, <3>1, SizesOK DEF At
  <2> QED BY <1>1, <1>3, <2>1, <2>2, SizesOK, Below
<1>6. i \in Dir /\ j \in Tab /\ k \in Off
  BY <1>2, <1>3, <1>5, SizesOK DEF Dir, Tab, Off
<1>7. PDE(a) = i /\ PTE(a) = j /\ OFF(a) = k
  BY <1>4, <1>6, PartsOfAt
<1> QED BY <1>2, <1>4, <1>6, <1>7 DEF Page, q

\* Addresses are of one page when directory and table index agree.
LEMMA SamePage ==
  ASSUME NEW a \in Address, NEW b \in Address
  PROVE  /\ Page(a) = Page(b) <=> PDE(a) = PDE(b) /\ PTE(a) = PTE(b)
         /\ a = b <=> Page(a) = Page(b) /\ OFF(a) = OFF(b)
<1>1. /\ Page(a) = PDE(a) * TabSize + PTE(a) /\ PDE(a) \in Nat /\ PTE(a) \in 0 .. TabSize - 1
      /\ Page(b) = PDE(b) * TabSize + PTE(b) /\ PDE(b) \in Nat /\ PTE(b) \in 0 .. TabSize - 1
  BY AtOfParts, SizesOK DEF Dir, Tab
<1>2. Page(a) = Page(b) => PDE(a) = PDE(b) /\ PTE(a) = PTE(b)
  <2>1. PICK i, j, i2, j2, t : /\ i = PDE(a) /\ j = PTE(a) /\ i2 = PDE(b) /\ j2 = PTE(b)
                                  /\ t = TabSize
    OBVIOUS
  <2>2. ASSUME i * t + j = i2 * t + j2 PROVE i = i2 /\ j = j2
    <3>1. /\ i \in Nat /\ i2 \in Nat /\ t \in Nat \ {0}
          /\ j \in 0 .. t - 1 /\ j2 \in 0 .. t - 1
      BY <1>1, <2>1, SizesOK
    <3> QED BY ONLY <2>2, <3>1, SameQuotient
  <2> QED BY <1>1, <2>1, <2>2
<1>3. Page(a) = Page(b) /\ OFF(a) = OFF(b) => a = b
  BY <1>2, AtOfParts
<1> QED BY <1>1, <1>2, <1>3

-----------------------------------------------------------------------------
(* class Memory: what alloc and store_byte do to addresses. *)

Memories == DirectoriesOf(Cell)

\* A null entry is no table and no page.
LEMMA EntriesOK ==
  /\ NoEntry \notin TablesOf(Cell) /\ NoEntry \notin [Off -> Cell]
  /\ EmptyTab \in TablesOf(Cell) /\ EmptyPage \in [Off -> Cell] /\ NoPages \in Memories
  /\ \A k \in Off : EmptyPage[k] = 0
BY StartupAssumption DEF EmptyTab, EmptyPage, NoPages, TablesOf, Cell, Memories, DirectoriesOf

\* A directory that has the page of an address has it in its table.
LEMMA PageOf ==
  ASSUME NEW m \in Memories, NEW a \in Address
  PROVE  /\ m[PDE(a)] # NoEntry => m[PDE(a)] \in TablesOf(Cell)
         /\ isValidAddr(m, a) => /\ m[PDE(a)][PTE(a)] \in [Off -> Cell]
                                 /\ load_byte(m, a) \in Cell
BY AtOfParts DEF Memories, DirectoriesOf, TablesOf, isValidAddr, load_byte

\* At the start there is no page.
LEMMA NoPagesEmpty ==
  ASSUME NEW a \in Address
  PROVE  ~ isValidAddr(NoPages, a)
BY AtOfParts DEF NoPages, isValidAddr

\* alloc adds a page of zeros where there is none, and disturbs nothing else.
LEMMA AllocCorrect ==
  ASSUME NEW m \in Memories, NEW a \in Address
  PROVE  /\ alloc(m, a) \in Memories
         /\ \A b \in Address :
              /\ isValidAddr(alloc(m, a), b) <=> isValidAddr(m, b) \/ Page(b) = Page(a)
              /\ isValidAddr(m, b) => load_byte(alloc(m, a), b) = load_byte(m, b)
              /\ ~ isValidAddr(m, b) /\ Page(b) = Page(a) => load_byte(alloc(m, a), b) = 0
<1>1. PDE(a) \in Dir /\ PTE(a) \in Tab
  BY AtOfParts
<1>2. CASE isValidAddr(m, a)
  <2>1. alloc(m, a) = m
    BY <1>2 DEF alloc
  <2>2. \A b \in Address : Page(b) = Page(a) => isValidAddr(m, b)
    BY <1>2, SamePage DEF isValidAddr
  <2> QED BY <2>1, <2>2
<1>3. CASE ~ isValidAddr(m, a)
  <2> DEFINE table == IF m[PDE(a)] = NoEntry THEN EmptyTab ELSE m[PDE(a)]
             newtab == [table EXCEPT ![PTE(a)] = EmptyPage]
             new    == [m EXCEPT ![PDE(a)] = newtab]
  <2>1. alloc(m, a) = new
    BY <1>3 DEF alloc
  <2>2. table \in TablesOf(Cell) /\ table[PTE(a)] = NoEntry
    BY <1>1, <1>3, EntriesOK, PageOf DEF isValidAddr, EmptyTab
  <2>3. \A j \in Tab : m[PDE(a)] = NoEntry => table[j] = NoEntry
    BY DEF EmptyTab
  <2>4. m[PDE(a)] # NoEntry => table = m[PDE(a)]
    OBVIOUS
  <2> HIDE DEF table
  <2>5. /\ newtab \in TablesOf(Cell) /\ newtab # NoEntry
        /\ newtab[PTE(a)] = EmptyPage /\ \A j \in Tab : j # PTE(a) => newtab[j] = table[j]
    BY <1>1, <2>2, EntriesOK DEF TablesOf
  <2> HIDE DEF newtab
  <2>6. /\ new \in Memories /\ new[PDE(a)] = newtab
        /\ \A i \in Dir : i # PDE(a) => new[i] = m[i]
    BY <1>1, <2>5 DEF Memories, DirectoriesOf
  <2> HIDE DEF new
  <2>7. ASSUME NEW b \in Address
        PROVE  /\ isValidAddr(new, b) <=> isValidAddr(m, b) \/ Page(b) = Page(a)
               /\ isValidAddr(m, b) => load_byte(new, b) = load_byte(m, b)
               /\ ~ isValidAddr(m, b) /\ Page(b) = Page(a) => load_byte(new, b) = 0
    <3>1. PDE(b) \in Dir /\ PTE(b) \in Tab /\ OFF(b) \in Off
      BY AtOfParts
    <3>2. CASE PDE(b) # PDE(a)
      <4>1. new[PDE(b)] = m[PDE(b)] /\ Page(b) # Page(a)
        BY <2>6, <3>1, <3>2, SamePage
      <4> QED BY <4>1 DEF isValidAddr, load_byte
    <3>3. CASE PDE(b) = PDE(a) /\ PTE(b) # PTE(a)
      <4>1. new[PDE(b)][PTE(b)] = table[PTE(b)] /\ new[PDE(b)] # NoEntry /\ Page(b) # Page(a)
        BY <2>5, <2>6, <3>1, <3>3, SamePage
      <4>2. m[PDE(b)] = NoEntry => table[PTE(b)] = NoEntry
        BY <2>3, <3>1, <3>3
      <4>3. m[PDE(b)] # NoEntry => table = m[PDE(b)]
        BY <2>4, <3>3
      <4> QED BY <4>1, <4>2, <4>3 DEF isValidAddr, load_byte
    <3>4. CASE PDE(b) = PDE(a) /\ PTE(b) = PTE(a)
      <4>1. new[PDE(b)][PTE(b)] = EmptyPage /\ new[PDE(b)] # NoEntry /\ Page(b) = Page(a)
        BY <2>5, <2>6, <3>4, SamePage
      <4>2. ~ isValidAddr(m, b)
        BY <1>3, <3>4 DEF isValidAddr
      <4> QED BY <3>1, <4>1, <4>2, EntriesOK DEF isValidAddr, load_byte
    <3> QED BY <3>2, <3>3, <3>4
  <2> QED BY <2>1, <2>6, <2>7
<1> QED BY <1>2, <1>3

\* store_byte changes one byte.
LEMMA StoreCorrect ==
  ASSUME NEW m \in Memories, NEW a \in Address, isValidAddr(m, a), NEW val \in Cell
  PROVE  /\ store_byte(m, a, val) \in Memories
         /\ \A b \in Address :
              /\ isValidAddr(store_byte(m, a, val), b) <=> isValidAddr(m, b)
              /\ load_byte(store_byte(m, a, val), b) = IF b = a THEN val ELSE load_byte(m, b)
<1> DEFINE table  == m[PDE(a)]
           page   == table[PTE(a)]
           newpg  == [page EXCEPT ![OFF(a)] = val]
           newtab == [table EXCEPT ![PTE(a)] = newpg]
           new    == [m EXCEPT ![PDE(a)] = newtab]
<1>1. PDE(a) \in Dir /\ PTE(a) \in Tab /\ OFF(a) \in Off
  BY AtOfParts
<1>2. table \in TablesOf(Cell) /\ page \in [Off -> Cell] /\ table # NoEntry /\ page # NoEntry
  BY PageOf DEF isValidAddr
<1>3. store_byte(m, a, val) = new
  BY <1>1, <1>2 DEF store_byte
<1> HIDE DEF table, page
<1>4. /\ newpg \in [Off -> Cell] /\ newpg # NoEntry
      /\ newpg[OFF(a)] = val /\ \A k \in Off : k # OFF(a) => newpg[k] = page[k]
  BY <1>1, <1>2, EntriesOK
<1> HIDE DEF newpg
<1>5. /\ newtab \in TablesOf(Cell) /\ newtab # NoEntry
      /\ newtab[PTE(a)] = newpg /\ \A j \in Tab : j # PTE(a) => newtab[j] = table[j]
  BY <1>1, <1>2, <1>4, EntriesOK DEF TablesOf
<1> HIDE DEF newtab
<1>6. /\ new \in Memories /\ new[PDE(a)] = newtab
      /\ \A i \in Dir : i # PDE(a) => new[i] = m[i]
  BY <1>1, <1>5 DEF Memories, DirectoriesOf
<1> HIDE DEF new
<1>7. ASSUME NEW b \in Address
      PROVE  /\ isValidAddr(new, b) <=> isValidAddr(m, b)
             /\ load_byte(new, b) = IF b = a THEN val ELSE load_byte(m, b)
  <2>1. PDE(b) \in Dir /\ PTE(b) \in Tab /\ OFF(b) \in Off
    BY AtOfParts
  <2>2. CASE PDE(b) # PDE(a)
    BY <1>6, <2>1, <2>2 DEF isValidAddr, load_byte
  <2>3. CASE PDE(b) = PDE(a) /\ PTE(b) # PTE(a)
    BY <1>2, <1>5, <1>6, <2>1, <2>3 DEF isValidAddr, load_byte, table
  <2>4. CASE PDE(b) = PDE(a) /\ PTE(b) = PTE(a)
    <3>1. a = b <=> OFF(a) = OFF(b)
      BY <2>4, SamePage
    <3>2. new[PDE(b)] # NoEntry /\ new[PDE(b)][PTE(b)] = newpg /\ newpg # NoEntry
      BY <1>4, <1>5, <1>6, <2>4
    <3>3. m[PDE(b)] # NoEntry /\ m[PDE(b)][PTE(b)] = page /\ page # NoEntry
      BY <1>2, <2>4 DEF table, page
    <3> QED BY <1>4, <2>1, <3>1, <3>2, <3>3 DEF isValidAddr, load_byte
  <2> QED BY <2>2, <2>3, <2>4
<1> QED BY <1>3, <1>6, <1>7

-----------------------------------------------------------------------------
(* The reader: what is read has its type, wherever the file ends. *)

AnySeq(s) == \E S : s \in Seq(S)

SectionNames == {"name_string_offset", "type", "flags", "address", "offset", "size",
                 "index", "name", "data"}
SegmentNames == {"type", "flags", "offset", "virtual_address", "file_size", "memory_size",
                 "index", "sections", "data"}

SectionOK(sec) ==
  /\ DOMAIN sec = SectionNames /\ sec.size \in Nat
  /\ sec.data = NULL \/ sec.data \in [1 .. sec.size -> Cell]
SegmentOK(sg) ==
  /\ sg.virtual_address \in Nat /\ sg.file_size \in Nat /\ sg.memory_size \in Nat
  /\ sg.data = NULL \/ sg.data \in [1 .. sg.file_size -> Cell]

HeaderNames == {"magic", "class", "encoding", "entry", "segments_offset", "sections_offset",
                "segment_entry_size", "segments_num", "section_entry_size", "sections_num",
                "section_name_str_index"}

ReaderOK ==
  /\ bytes \in Seq(Nat) /\ fail \in BOOLEAN
  /\ at # "failed" => header \in [HeaderNames -> Nat]
  /\ AnySeq(sections) /\ \A i \in DOMAIN sections : SectionOK(sections[i])
  /\ AnySeq(segments) /\ \A i \in DOMAIN segments : SegmentOK(segments[i])

\* Appending to a sequence of anything.
LEMMA AppendAny ==
  ASSUME NEW s, AnySeq(s), NEW e
  PROVE  /\ AnySeq(Append(s, e)) /\ Len(s) \in Nat /\ DOMAIN s = 1 .. Len(s)
         /\ Len(Append(s, e)) = Len(s) + 1 /\ DOMAIN Append(s, e) = 1 .. Len(s) + 1
         /\ Append(s, e)[Len(s) + 1] = e /\ \A i \in DOMAIN s : Append(s, e)[i] = s[i]
<1>1. PICK S : s \in Seq(S)
  BY DEF AnySeq
<1>2. s \in Seq(S \cup {e}) /\ e \in S \cup {e}
  BY <1>1
<1>3. Append(s, e) \in Seq(S \cup {e})
  BY <1>2
<1>4. Len(Append(s, e)) = Len(s) + 1 /\ DOMAIN Append(s, e) = 1 .. Len(s) + 1
  BY <1>2
<1>5. Append(s, e)[Len(s) + 1] = e /\ \A i \in 1 .. Len(s) : Append(s, e)[i] = s[i]
  BY <1>2
<1> QED BY <1>1, <1>3, <1>4, <1>5 DEF AnySeq

\* Replacing an element of one.
LEMMA ExceptAny ==
  ASSUME NEW s, AnySeq(s), NEW k, NEW e
  PROVE  /\ AnySeq([s EXCEPT ![k] = e]) /\ Len([s EXCEPT ![k] = e]) = Len(s)
         /\ DOMAIN [s EXCEPT ![k] = e] = DOMAIN s
         /\ \A i \in DOMAIN s : [s EXCEPT ![k] = e][i] = IF i = k THEN e ELSE s[i]
<1>1. PICK S : s \in Seq(S)
  BY DEF AnySeq
<1>2. s \in Seq(S \cup {e}) /\ e \in S \cup {e} /\ DOMAIN s = 1 .. Len(s)
  BY <1>1
<1>3. CASE k \in 1 .. Len(s)
  BY <1>2, <1>3, ExceptSeq DEF AnySeq
<1>4. CASE k \notin 1 .. Len(s)
  <2>1. [s EXCEPT ![k] = e] = s
    BY <1>2, <1>4
  <2> QED BY <1>2, <1>4, <2>1
<1> QED BY <1>3, <1>4

\* The names of the fields, in the order they have in the file: n different ones.
NamesOK(fields, n) ==
  /\ DOMAIN fields = 1 .. n /\ Len(fields) = n
  /\ \A i, j \in 1 .. n : fields[i] = fields[j] => i = j

LEMMA FieldsOK ==
  /\ ToSet(HeaderFields) = HeaderNames
  /\ ToSet(SectionFields) \cup {"index", "name", "data"} = SectionNames
  /\ ToSet(SegmentFields(ELFCLASS64)) \cup {"index", "sections", "data"} = SegmentNames
  /\ NamesOK(HeaderFields, 11) /\ NamesOK(SectionFields, 6)
  /\ \A class : NamesOK(SegmentFields(class), 6)
<1>1. ToSet(HeaderFields) = HeaderNames
  BY DEF HeaderFields, ToSet, HeaderNames
<1>2. ToSet(SectionFields) \cup {"index", "name", "data"} = SectionNames
  BY DEF SectionFields, ToSet, SectionNames
<1>3. ToSet(SegmentFields(ELFCLASS64)) \cup {"index", "sections", "data"} = SegmentNames
  BY DEF SegmentFields, ToSet, SegmentNames
<1>4. NamesOK(HeaderFields, 11)
  BY DEF HeaderFields, NamesOK
<1>5. NamesOK(SectionFields, 6)
  BY DEF SectionFields, NamesOK
<1>6. ASSUME NEW class PROVE NamesOK(SegmentFields(class), 6)
  <2>1. CASE class = ELFCLASS64
    BY <2>1 DEF SegmentFields, NamesOK
  <2>2. CASE class # ELFCLASS64
    BY <2>2 DEF SegmentFields, NamesOK
  <2> QED BY <2>1, <2>2
<1> QED BY <1>1, <1>2, <1>3, <1>4, <1>5, <1>6

LEMMA MinMax ==
  ASSUME NEW a \in Int, NEW b \in Int
  PROVE  /\ Min({a, b}) = IF a <= b THEN a ELSE b
         /\ Max({a, b}) = IF a <= b THEN b ELSE a
BY DEF Min, Max

\* What is available lies in the file.
LEMMA AvailableOK ==
  ASSUME bytes \in Seq(Nat), NEW lost, NEW q \in Nat, NEW n \in Nat
  PROVE  /\ Available(lost, q, n) \in 0 .. n
         /\ \A k \in 1 .. Available(lost, q, n) : q + k \in 1 .. Len(bytes) /\ bytes[q + k] \in Nat
<1>1. Len(bytes) \in Nat /\ DOMAIN bytes = 1 .. Len(bytes)
  OBVIOUS
<1>2. Min({n, Len(bytes) - q}) = IF n <= Len(bytes) - q THEN n ELSE Len(bytes) - q
  BY <1>1, MinMax
<1>3. Min({n, Len(bytes) - q}) \in Int
  BY <1>1, <1>2
<1>4. Max({0, Min({n, Len(bytes) - q})})
        = IF 0 <= Min({n, Len(bytes) - q}) THEN Min({n, Len(bytes) - q}) ELSE 0
  <2> DEFINE m == Min({n, Len(bytes) - q})
  <2>1. m \in Int /\ 0 \in Int
    BY <1>3
  <2> HIDE DEF m
  <2>2. Max({0, m}) = IF 0 <= m THEN m ELSE 0
    BY <2>1, MinMax
  <2> QED BY <2>2 DEF m
<1>5. /\ Available(lost, q, n) \in 0 .. n
      /\ Available(lost, q, n) # 0 => Available(lost, q, n) <= Len(bytes) - q
  BY <1>1, <1>2, <1>4 DEF Available
<1> QED BY <1>1, <1>5

\* Converting a field gives a number.
LEMMA ConvertOK ==
  ASSUME NEW encoding, NEW x \in Nat
  PROVE  Convert(encoding, x) \in Nat
<1>1. Half \in Nat \ {0}
  BY StartupAssumption
<1>2. x % Half \in Nat /\ x \div Half \in Nat
  BY <1>1, DivMod
<1> QED BY <1>1, <1>2 DEF Convert, Swap

\* A field that is read is a number, one that is not stays as it was.
LEMMA StructureOK ==
  ASSUME bytes \in Seq(Nat), NEW lost, NEW q \in Nat, NEW fields, NEW len \in Nat,
         NamesOK(fields, len), NEW encoding, NEW old
  PROVE  /\ DOMAIN Structure(lost, q, fields, encoding, old) = DOMAIN old
         /\ \A f \in DOMAIN old :
              \/ Structure(lost, q, fields, encoding, old)[f] = old[f]
              \/ Structure(lost, q, fields, encoding, old)[f] \in Nat /\ f \in ToSet(fields)
<1> DEFINE S == Structure(lost, q, fields, encoding, old)
           n == Available(lost, q, Len(fields))
<1>1. /\ DOMAIN fields = 1 .. Len(fields) /\ Len(fields) \in Nat
      /\ \A i, j \in 1 .. Len(fields) : fields[i] = fields[j] => i = j
  BY DEF NamesOK
<1>2. n \in 0 .. Len(fields) /\ \A k \in 1 .. n : bytes[q + k] \in Nat
  BY <1>1, AvailableOK
<1>3. ASSUME NEW f \in DOMAIN old, NEW k \in 1 .. n, fields[k] = f
      PROVE  S[f] \in Nat /\ f \in ToSet(fields)
  <2> DEFINE c == CHOOSE i \in DOMAIN fields : fields[i] = f
  <2>1. k \in DOMAIN fields
    BY <1>2, <1>1
  <2>2. c \in DOMAIN fields /\ fields[c] = f
    BY <1>3, <2>1
  <2>3. c = k
    BY <1>1, <1>3, <2>1, <2>2
  <2>4. S[f] = IF f \in ToSet(IdentFields) THEN bytes[q + c] ELSE Convert(encoding, bytes[q + c])
    BY <1>3 DEF Structure
  <2> HIDE DEF c, S, n
  <2>5. S[f] \in Nat
    BY <1>2, <2>3, <2>4, ConvertOK
  <2> QED BY <1>3, <2>1, <2>5 DEF ToSet
<1>4. ASSUME NEW f \in DOMAIN old, ~ \E k \in 1 .. n : fields[k] = f
      PROVE  S[f] = old[f]
  BY <1>4 DEF Structure
<1>5. DOMAIN S = DOMAIN old
  BY DEF Structure
<1> QED BY <1>3, <1>4, <1>5

LEMMA DataOK ==
  ASSUME bytes \in Seq(Nat), NEW lost, NEW q \in Nat, NEW n \in Nat
  PROVE  Data(lost, q, n) \in [1 .. n -> Cell]
<1>1. \A k \in 1 .. Available(lost, q, n) : bytes[q + k] \in Nat
  BY AvailableOK
<1>2. Available(lost, q, n) \in 0 .. n
  BY AvailableOK
<1> QED BY <1>1, <1>2 DEF Data, Cell

\* The header is numbers, as it is created and as it is read.
LEMMA NewHeaderOK ==
  ASSUME NEW class \in Nat, NEW encoding \in Nat
  PROVE  NewHeader(class, encoding) \in [HeaderNames -> Nat]
BY FieldsOK DEF NewHeader, ELFMAG

LEMMA HeaderReadOK ==
  ASSUME bytes \in Seq(Nat), NEW old \in [HeaderNames -> Nat], NEW encoding, NEW lost
  PROVE  Structure(lost, 0, HeaderFields, encoding, old) \in [HeaderNames -> Nat]
<1> DEFINE S == Structure(lost, 0, HeaderFields, encoding, old)
<1>1. DOMAIN S = HeaderNames /\ \A f \in HeaderNames : S[f] = old[f] \/ S[f] \in Nat
  BY FieldsOK, StructureOK
<1>2. S = [f \in HeaderNames |-> S[f]]
  BY <1>1 DEF Structure
<1> QED BY <1>1, <1>2

\* So are the fields of a section and of a segment.
LEMMA SectionReadOK ==
  ASSUME bytes \in Seq(Nat), NEW lost, NEW q \in Nat, NEW encoding
  PROVE  LET sec == Structure(lost, q, SectionFields, encoding, NewSection)
         IN  /\ DOMAIN sec = SectionNames
             /\ sec.size \in Nat /\ sec.offset \in Nat
<1> DEFINE sec == Structure(lost, q, SectionFields, encoding, NewSection)
<1>1. /\ DOMAIN NewSection = SectionNames /\ NewSection.size = 0 /\ NewSection.offset = 0
  BY FieldsOK DEF NewSection, SectionNames
<1>2. /\ DOMAIN sec = DOMAIN NewSection
      /\ \A f \in DOMAIN NewSection : sec[f] = NewSection[f] \/ sec[f] \in Nat
  <2> DEFINE fields == SectionFields
  <2>1. NamesOK(fields, 6) /\ 6 \in Nat
    BY FieldsOK
  <2> HIDE DEF fields
  <2>2. \A f \in DOMAIN NewSection :
          \/ Structure(lost, q, fields, encoding, NewSection)[f] = NewSection[f]
          \/ Structure(lost, q, fields, encoding, NewSection)[f] \in Nat
    BY <2>1, StructureOK
  <2>3. DOMAIN Structure(lost, q, fields, encoding, NewSection) = DOMAIN NewSection
    BY DEF Structure
  <2> QED BY <2>2, <2>3 DEF fields
<1> HIDE DEF sec
<1>3. "size" \in SectionNames /\ "offset" \in SectionNames
  BY DEF SectionNames
<1> QED BY <1>1, <1>2, <1>3 DEF sec

LEMMA SegmentReadOK ==
  ASSUME bytes \in Seq(Nat), NEW lost, NEW q \in Nat, NEW encoding, NEW class
  PROVE  LET sg == Structure(lost, q, SegmentFields(class), encoding, NewSegment)
         IN  /\ DOMAIN sg = SegmentNames
             /\ sg.virtual_address \in Nat /\ sg.file_size \in Nat /\ sg.memory_size \in Nat
             /\ sg.offset \in Nat
<1> DEFINE sg == Structure(lost, q, SegmentFields(class), encoding, NewSegment)
<1>1. /\ DOMAIN NewSegment = SegmentNames
      /\ \A f \in {"virtual_address", "file_size", "memory_size", "offset"} :
           f \in SegmentNames /\ NewSegment[f] = 0
  BY FieldsOK DEF NewSegment, SegmentNames
<1>2. NamesOK(SegmentFields(class), 6)
  BY FieldsOK
<1>3. /\ DOMAIN sg = DOMAIN NewSegment
      /\ \A f \in DOMAIN NewSegment : sg[f] = NewSegment[f] \/ sg[f] \in Nat
  <2> DEFINE fields == SegmentFields(class)
  <2>1. NamesOK(fields, 6) /\ 6 \in Nat
    BY <1>2
  <2> HIDE DEF fields
  <2>2. \A f \in DOMAIN NewSegment :
          \/ Structure(lost, q, fields, encoding, NewSegment)[f] = NewSegment[f]
          \/ Structure(lost, q, fields, encoding, NewSegment)[f] \in Nat
    BY <2>1, StructureOK
  <2>3. DOMAIN Structure(lost, q, fields, encoding, NewSegment) = DOMAIN NewSegment
    BY DEF Structure
  <2> QED BY <2>2, <2>3 DEF fields
<1> HIDE DEF sg
<1>4. \A f \in {"virtual_address", "file_size", "memory_size", "offset"} : sg[f] \in Nat
  BY <1>1, <1>3
<1> QED BY <1>1, <1>3, <1>4 DEF sg

LEMMA LostOK == \A lost, q, n : LostAt(lost, q, n) \in BOOLEAN
BY DEF LostAt

\* Reading a section or a segment adds one of the right type.
LEMMA LoadSectionOK ==
  ASSUME ReaderOK, at # "failed", NEW i \in Nat, LoadSection(i)
  PROVE  /\ AnySeq(sections') /\ \A k \in DOMAIN sections' : SectionOK(sections'[k])
         /\ fail' \in BOOLEAN /\ UNCHANGED <<bytes, header, segments>>
<1> DEFINE q    == header.sections_offset + i * header.section_entry_size
           sec  == Structure(fail, q, SectionFields, header.encoding, NewSection)
           lost == LostAt(fail, q, Len(SectionFields))
           has  == sec.type \notin {SHT_NULL, SHT_NOBITS} /\ Smaller(sec.size)
           data == IF has THEN Data(lost, sec.offset, sec.size) ELSE NULL
           new  == [sec EXCEPT !.index = i, !.data = data]
<1>1. header \in [HeaderNames -> Nat] /\ bytes \in Seq(Nat)
  BY DEF ReaderOK
<1>2. q \in Nat
  <2>1. header.sections_offset \in Nat /\ header.section_entry_size \in Nat
    BY <1>1 DEF HeaderNames
  <2> QED BY <2>1
<1>3. DOMAIN sec = SectionNames /\ sec.size \in Nat /\ sec.offset \in Nat
  BY <1>1, <1>2, SectionReadOK
<1>4. sections' = Append(sections, new) /\ UNCHANGED <<bytes, header, segments>>
  BY Zenon DEF LoadSection
<1>5. fail' \in BOOLEAN
  <2>1. fail' = IF has /\ sec.size # 0 THEN LostAt(lost, sec.offset, sec.size) ELSE lost
    BY Zenon DEF LoadSection
  <2> QED BY <2>1, LostOK
<1> HIDE DEF sec, q, lost, has
<1>6. data = NULL \/ data \in [1 .. sec.size -> Cell]
  BY <1>1, <1>3, DataOK
<1> HIDE DEF data
<1>7. DOMAIN new = SectionNames /\ new.size = sec.size /\ new.data = data
  BY <1>3 DEF SectionNames
<1>8. SectionOK(new)
  BY <1>3, <1>6, <1>7 DEF SectionOK
<1> HIDE DEF new
<1>9. /\ AnySeq(sections) /\ \A k \in DOMAIN sections : SectionOK(sections[k])
  BY DEF ReaderOK
<1> QED BY <1>4, <1>5, <1>8, <1>9, AppendAny

LEMMA LoadSegmentOK ==
  ASSUME ReaderOK, at # "failed", NEW i \in Nat, LoadSegment(i)
  PROVE  /\ AnySeq(segments') /\ \A k \in DOMAIN segments' : SegmentOK(segments'[k])
         /\ fail' \in BOOLEAN /\ UNCHANGED <<bytes, header, sections>>
<1> DEFINE q    == header.segments_offset + i * header.segment_entry_size
           sg   == Structure(fail, q, SegmentFields(header.class), header.encoding, NewSegment)
           lost == LostAt(fail, q, Len(SegmentFields(header.class)))
           has  == sg.type # PT_NULL /\ sg.file_size # 0 /\ ~ Greater(sg.file_size)
           data == IF has THEN Data(lost, sg.offset, sg.file_size) ELSE NULL
           secs == SelectSeq([j \in DOMAIN sections |-> j - 1],
                             LAMBDA j : Within(sections[j + 1], sg))
           new  == [sg EXCEPT !.index = i, !.data = data, !.sections = secs]
<1>1. header \in [HeaderNames -> Nat] /\ bytes \in Seq(Nat)
  BY DEF ReaderOK
<1>2. q \in Nat
  <2>1. header.segments_offset \in Nat /\ header.segment_entry_size \in Nat
    BY <1>1 DEF HeaderNames
  <2> QED BY <2>1
<1>3. /\ DOMAIN sg = SegmentNames
      /\ sg.virtual_address \in Nat /\ sg.file_size \in Nat /\ sg.memory_size \in Nat
      /\ sg.offset \in Nat
  BY <1>1, <1>2, SegmentReadOK
<1>4. segments' = Append(segments, new) /\ UNCHANGED <<bytes, header, sections>>
  BY Zenon DEF LoadSegment
<1>5. fail' \in BOOLEAN
  <2>1. fail' = IF has THEN LostAt(lost, sg.offset, sg.file_size) ELSE lost
    BY Zenon DEF LoadSegment
  <2> QED BY <2>1, LostOK
<1> HIDE DEF sg, q, lost, has, secs
<1>6. data = NULL \/ data \in [1 .. sg.file_size -> Cell]
  BY <1>1, <1>3, DataOK
<1> HIDE DEF data
<1>7. /\ new.file_size = sg.file_size /\ new.data = data
      /\ new.virtual_address = sg.virtual_address /\ new.memory_size = sg.memory_size
  BY <1>3 DEF SegmentNames
<1>8. SegmentOK(new)
  BY <1>3, <1>6, <1>7 DEF SegmentOK
<1> HIDE DEF new
<1>9. /\ AnySeq(segments) /\ \A k \in DOMAIN segments : SegmentOK(segments[k])
  BY DEF ReaderOK
<1> QED BY <1>4, <1>5, <1>8, <1>9, AppendAny

\* Naming a section changes nothing else of it.
LEMMA NameSectionOK ==
  ASSUME ReaderOK, NEW i \in Nat, NameSection(i)
  PROVE  /\ AnySeq(sections') /\ \A k \in DOMAIN sections' : SectionOK(sections'[k])
         /\ UNCHANGED <<bytes, fail, header, segments>>
<1> DEFINE nm  == get_string(header.section_name_str_index, sections[i + 1].name_string_offset)
           new == [sections[i + 1] EXCEPT !.name = nm]
<1>1. /\ AnySeq(sections) /\ \A k \in DOMAIN sections : SectionOK(sections[k])
  BY DEF ReaderOK
<1>2. /\ sections' = IF nm = NULL THEN sections ELSE [sections EXCEPT ![i + 1].name = nm]
      /\ UNCHANGED <<bytes, fail, header, segments>>
  BY Zenon DEF NameSection
<1> HIDE DEF nm
<1>3. i + 1 \in DOMAIN sections => SectionOK(new)
  BY <1>1 DEF SectionOK, SectionNames
<1>4. [sections EXCEPT ![i + 1].name = nm] = [sections EXCEPT ![i + 1] = new]
  OBVIOUS
<1> HIDE DEF new
<1> QED BY <1>1, <1>2, <1>3, <1>4, ExceptAny

-----------------------------------------------------------------------------
(* Types.  The loops of the loader and of the stack stay in the address    *)
(* space, and the loader copies no more than the reader has read.          *)

Places == Ends \cup {"args", "ident", "header", "sections", "names", "segments", "load",
                     "map", "copy", "stack", "print", "start", "cycle", "prompt"}

Control ==
  /\ run \in DOMAIN Scenarios
  /\ at \in Places /\ next \in Nat /\ p \in Address
  /\ at = "args" => next > 0
  /\ at \in {"map", "copy"} => next < Len(segments)
  /\ at = "copy" => seg_start <= p
  /\ at = "stack" => p \in StackStart - StackSize .. StackStart /\ p % PageSize = 0

OptionsOK ==
  /\ singleStep \in BOOLEAN /\ verbose \in BOOLEAN /\ dumpMem \in BOOLEAN
  /\ branch_strat \in {"AT", "NT", "BTFNT"}

MemoryOK == memory \in Memories /\ cycle \in 0 .. MaxCycles

TypeInv == ReaderOK /\ Control /\ OptionsOK /\ MemoryOK

LEMMA TypeInvIsEnough == TypeInv => TypeOK
<1> SUFFICES ASSUME TypeInv PROVE TypeOK
  OBVIOUS
<1>1. ASSUME NEW data, NEW n \in Nat, data \in [1 .. n -> Cell]
      PROVE  Len(data) = n
  BY <1>1, IsASeq, LenProperties
<1>2. \A i \in DOMAIN sections : sections[i].data = NULL \/ Len(sections[i].data) = sections[i].size
  BY <1>1 DEF TypeInv, ReaderOK, SectionOK
<1>3. \A i \in DOMAIN segments :
        segments[i].data = NULL \/ Len(segments[i].data) = segments[i].file_size
  BY <1>1 DEF TypeInv, ReaderOK, SegmentOK
<1> QED
  BY <1>2, <1>3 DEF TypeInv, Control, OptionsOK, MemoryOK, TypeOK, Places, Memories, Address

\* Addresses wrap around.
LEMMA Uint32OK ==
  ASSUME NEW x \in Nat
  PROVE  Uint32(x) \in Address /\ (x < AddrMod => Uint32(x) = x)
         /\ (AddrMod <= x /\ x < 2 * AddrMod => Uint32(x) = x - AddrMod)
<1>1. AddrMod \in Nat \ {0}
  BY SizesOK
<1> QED BY <1>1 DEF Uint32, Address

\* The segment the loader is at, and where it ends.
LEMMA SegmentAt ==
  ASSUME ReaderOK, next \in Nat, next < Len(segments)
  PROVE  /\ SegmentOK(seg) /\ seg_start \in Address /\ map_end \in Address /\ data_end \in Address
         /\ \A a \in Address : seg_start <= a /\ a < data_end =>
              a - seg_start + 1 \in 1 .. seg.file_size
<1>1. next + 1 \in DOMAIN segments
  BY AppendAny DEF ReaderOK
<1>2. SegmentOK(seg)
  BY <1>1 DEF ReaderOK, seg
<1>3. AddrMod \in Nat \ {0}
  BY SizesOK
<1> DEFINE size == Uint32(seg.file_size)
<1>4. seg_start \in Address /\ size \in Address /\ Uint32(seg.memory_size) \in Address
  BY <1>2, Uint32OK DEF SegmentOK, seg_start
<1>5. map_end \in Address /\ data_end = Uint32(seg_start + size) /\ data_end \in Address
  <2>1. \A x, y \in Address : x + y \in Nat
    BY <1>3 DEF Address
  <2>2. /\ map_end = Uint32(seg_start + Uint32(seg.memory_size))
        /\ data_end = Uint32(seg_start + size)
    BY DEF map_end, data_end
  <2> HIDE DEF size
  <2>3. seg_start + Uint32(seg.memory_size) \in Nat /\ seg_start + size \in Nat
    BY <1>4, <2>1
  <2> QED BY <2>2, <2>3, Uint32OK
<1>6. size <= seg.file_size
  <2>1. seg.file_size \in Nat
    BY <1>2 DEF SegmentOK
  <2>2. PICK x : x = seg.file_size
    OBVIOUS
  <2>3. x % AddrMod <= x
    BY ONLY <1>3, <2>1, <2>2
  <2> QED BY <2>2, <2>3 DEF Uint32
<1> HIDE DEF size
<1>7. ASSUME NEW a \in Address, seg_start <= a, a < data_end
      PROVE  a - seg_start + 1 \in 1 .. seg.file_size
  <2>1. seg_start + size \in Nat /\ seg_start + size < 2 * AddrMod
    BY <1>3, <1>4 DEF Address
  <2>2. seg_start + size < AddrMod
    BY <1>3, <1>4, <1>5, <1>7, <2>1, Uint32OK DEF Address
  <2>3. data_end = seg_start + size
    BY <1>5, <2>1, <2>2, Uint32OK
  <2> QED BY <1>2, <1>3, <1>4, <1>6, <1>7, <2>3 DEF Address, SegmentOK
<1> QED BY <1>2, <1>4, <1>5, <1>7

\* The stack is whole pages.
LEMMA StackStep ==
  ASSUME p \in StackStart - StackSize .. StackStart, p % PageSize = 0, p > StackStart - StackSize
  PROVE  p - PageSize \in StackStart - StackSize .. StackStart /\ (p - PageSize) % PageSize = 0
<1> DEFINE low == StackStart - StackSize
<1>1. /\ PageSize \in Nat \ {0} /\ StackStart \in Nat /\ StackSize \in Nat /\ low \in Nat
      /\ StackStart % PageSize = 0 /\ StackSize % PageSize = 0
  BY SizesOK, StartupAssumption
<1>2. PICK u \in Nat : p = PageSize * u
  <2>1. p \in Nat
    BY <1>1
  <2> QED BY <1>1, <2>1, Multiple
<1>3. PICK v \in Nat : StackStart = PageSize * v
  BY <1>1, Multiple
<1>4. PICK w \in Nat : StackSize = PageSize * w
  BY <1>1, Multiple
<1>5. low = PageSize * (v - w)
  BY <1>1, <1>3, <1>4
<1>6. u >= v - w + 1
  <2>1. SUFFICES ASSUME u <= v - w PROVE FALSE
    BY <1>2, <1>3, <1>4
  <2>2. PageSize * (v - w - u) >= 0
    BY <1>1, <2>1
  <2> QED BY <1>1, <1>2, <1>5, <2>2
<1>7. PageSize * (u - 1 - (v - w)) >= 0
  BY <1>1, <1>6
<1>8. p - PageSize = PageSize * (u - 1)
  BY <1>1, <1>2
<1>9. p - PageSize >= low
  BY <1>1, <1>5, <1>7, <1>8
<1>10. u - 1 \in Nat
  BY <1>1, <1>8, <1>9
<1>11. ((u - 1) * PageSize + 0) % PageSize = 0
  BY <1>1, <1>10, DivModUnique
<1> QED BY <1>1, <1>8, <1>9, <1>11

\* At the start.
LEMMA InitTypeInv == Init => TypeInv
<1> SUFFICES ASSUME Init PROVE TypeInv
  OBVIOUS
<1>0. /\ ReaderInit /\ run \in DOMAIN Scenarios /\ at = "args" /\ next = 1 /\ p = 0
      /\ memory = NoPages /\ cycle = 0
  BY Zenon DEF Init
<1>a. /\ bytes = <<>> /\ fail = FALSE /\ segments = <<>>
      /\ header = NewHeader(ELFCLASS32, ELFDATA2LSB)
  BY <1>0, Zenon DEF ReaderInit
<1>b. <<>> \in Seq(Nat) /\ DOMAIN <<>> = {} /\ AnySeq(<<>>)
  BY DEF AnySeq
<1>1. bytes \in Seq(Nat) /\ fail \in BOOLEAN
  BY <1>a, <1>b
<1>2. header \in [HeaderNames -> Nat]
  BY <1>a, NewHeaderOK DEF ELFCLASS32, ELFDATA2LSB
<1>3. AnySeq(segments) /\ \A i \in DOMAIN segments : SegmentOK(segments[i])
  BY <1>a, <1>b
<1>4. AnySeq(sections) /\ \A i \in DOMAIN sections : SectionOK(sections[i])
  <2> DEFINE nulls == NewSection
             names == [NewSection EXCEPT !.type = SHT_STRTAB, !.index = 1, !.size = 3,
                         !.name_string_offset = 1, !.name = <<1>>, !.data = <<0, 1, 0>>]
  <2>1. sections = <<nulls, names>>
    BY <1>0, Zenon DEF ReaderInit
  <2>2. DOMAIN NewSection = SectionNames /\ NewSection.size = 0 /\ NewSection.data = NULL
    BY FieldsOK DEF NewSection, SectionNames
  <2>3. SectionOK(nulls)
    BY <2>2 DEF SectionOK
  <2>4. DOMAIN names = SectionNames /\ names.size = 3 /\ names.data = <<0, 1, 0>>
    BY <2>2 DEF SectionNames
  <2>5. SectionOK(names)
    BY <2>4 DEF SectionOK, Cell
  <2> HIDE DEF nulls, names
  <2>6. <<nulls, names>> \in Seq({nulls, names})
    OBVIOUS
  <2>7. AnySeq(<<nulls, names>>)
    BY <2>6 DEF AnySeq
  <2>8. /\ DOMAIN <<nulls, names>> = 1 .. 2
        /\ <<nulls, names>>[1] = nulls /\ <<nulls, names>>[2] = names
    OBVIOUS
  <2>9. \A i \in DOMAIN <<nulls, names>> : SectionOK(<<nulls, names>>[i])
    BY <2>3, <2>5, <2>8
  <2> QED BY <2>1, <2>7, <2>9
<1>5. Control
  BY <1>0, SizesOK DEF Control, Places, Address
<1>6. OptionsOK
  BY DEF Init, OptionsOK
<1>7. MemoryOK
  BY <1>0, EntriesOK, StartupAssumption DEF MemoryOK
<1> QED BY <1>1, <1>2, <1>3, <1>4, <1>5, <1>6, <1>7 DEF TypeInv, ReaderOK

\* main's arguments: one or two are taken.
LEMMA ParseArgTypes ==
  ASSUME TypeInv, ParseArg
  PROVE  TypeInv'
<1>1. at = "args" /\ at' = at /\ UNCHANGED <<run, p, reader, machine>>
  BY DEF ParseArg
<1>2. next' \in Nat /\ next' > 0
  BY DEF ParseArg, FileArg, StrategyArg, FlagArg, Taken, TypeInv, Control
<1>3. OptionsOK'
  <2>1. CASE FileArg
    BY <2>1 DEF FileArg, TypeInv, OptionsOK
  <2>2. CASE StrategyArg
    BY <2>2 DEF StrategyArg, Strategy, TypeInv, OptionsOK
  <2>3. CASE FlagArg
    BY <2>3 DEF FlagArg, TypeInv, OptionsOK
  <2> QED BY <2>1, <2>2, <2>3 DEF ParseArg
<1>4. ReaderOK'
  BY <1>1 DEF TypeInv, ReaderOK, reader
<1>5. Control'
  BY <1>1, <1>2 DEF TypeInv, Control
<1>6. MemoryOK'
  BY <1>1 DEF TypeInv, MemoryOK, machine
<1> QED BY <1>3, <1>4, <1>5, <1>6 DEF TypeInv

\* A place the process goes to with nothing counted yet.
LEMMA GotoControl ==
  ASSUME Control, NEW where \in Places \ {"args", "map", "copy", "stack"}, Goto(where), run' = run
  PROVE  Control'
BY SizesOK DEF Control, Goto, Address

\* The reader's steps.
LEMMA ReaderTypes ==
  ASSUME TypeInv,
         OpenFile \/ ReadIdent \/ ReadHeader \/ ReadSection \/ ReadName \/ ReadSegment
  PROVE  TypeInv'
<1>1. UNCHANGED <<run, options, machine>>
  BY DEF OpenFile, ReadIdent, ReadHeader, ReadSection, ReadName, ReadSegment, Beside
<1>2. OptionsOK' /\ MemoryOK'
  BY <1>1 DEF TypeInv, OptionsOK, MemoryOK, options, machine
<1>3. Control /\ ReaderOK /\ run' = run
  BY <1>1 DEF TypeInv
<1> SUFFICES Control' /\ ReaderOK'
  BY <1>2 DEF TypeInv
<1>4. CASE OpenFile
  <2>1. CASE file \in DOMAIN scenario.disk
    <3>1. /\ at = "args" /\ Goto("ident") /\ bytes' = scenario.disk[file] /\ fail' = FALSE
          /\ UNCHANGED <<header, sections, segments>>
      BY <1>4, <2>1 DEF OpenFile, Open
    <3>2. bytes' \in Seq(Nat)
      BY <1>3, <2>1, <3>1, ScenarioAssumption DEF Control, scenario
    <3>3. ReaderOK'
      BY <1>3, <3>1, <3>2 DEF ReaderOK
    <3> QED BY <1>3, <3>1, <3>3, GotoControl DEF Places
  <2>2. CASE file \notin DOMAIN scenario.disk
    <3>1. at' = "failed" /\ UNCHANGED reader /\ Goto("failed")
      BY <1>4, <2>2 DEF OpenFile, Goto
    <3> QED BY <1>3, <3>1, GotoControl DEF ReaderOK, reader, Places, Ends
  <2> QED BY <2>1, <2>2
<1>5. CASE ReadIdent
  <2> DEFINE where == IF IdentOk THEN "header" ELSE "failed"
  <2>1. /\ at = "ident" /\ Goto(where) /\ at' = where
        /\ sections' = <<>> /\ segments' = <<>> /\ bytes' = bytes
        /\ fail' = LostAt(fail, 0, Len(IdentFields))
        /\ header' = IF IdentOk THEN NewHeader(bytes[2], bytes[3]) ELSE NULL
    BY <1>5 DEF ReadIdent, LoadIdent, Goto
  <2>2. IdentOk => header' \in [HeaderNames -> Nat]
    <3> SUFFICES ASSUME IdentOk PROVE NewHeader(bytes[2], bytes[3]) \in [HeaderNames -> Nat]
      BY <2>1
    <3>1. Available(fail, 0, 3) >= 3
      BY <1>3, AvailableOK DEF IdentOk, LostAt, IdentFields, ReaderOK
    <3>2. bytes[0 + 2] \in Nat /\ bytes[0 + 3] \in Nat
      BY <1>3, <3>1, AvailableOK DEF ReaderOK
    <3>3. bytes[2] \in Nat /\ bytes[3] \in Nat
      BY <3>2
    <3> QED BY <3>3, NewHeaderOK
  <2>3. AnySeq(<<>>) /\ DOMAIN <<>> = {}
    BY DEF AnySeq
  <2>4. ReaderOK'
    BY <1>3, <2>1, <2>2, <2>3, LostOK DEF ReaderOK
  <2> QED BY <1>3, <2>1, <2>4, GotoControl DEF Places, Ends
<1>6. CASE ReadHeader
  <2> DEFINE where == IF HeaderOk THEN "sections" ELSE "failed"
  <2>1. /\ at = "header" /\ Goto(where) /\ UNCHANGED <<bytes, sections, segments>>
        /\ header' = Structure(fail, 0, HeaderFields, header.encoding, header)
        /\ fail' = ~ HeaderOk
    BY <1>6 DEF ReadHeader, LoadHeader
  <2>2. ReaderOK'
    BY <1>3, <2>1, HeaderReadOK DEF ReaderOK
  <2> QED BY <1>3, <2>1, <2>2, GotoControl DEF Places, Ends
<1>7. CASE ReadSection
  <2>1. at = "sections" /\ next \in Nat
    BY <1>3, <1>7 DEF ReadSection, Control
  <2>2. CASE next < header.sections_num
    <3>1. LoadSection(next) /\ Again
      BY <1>7, <2>2 DEF ReadSection
    <3>2. ReaderOK'
      BY <1>3, <2>1, <3>1, LoadSectionOK DEF ReaderOK, Again
    <3> QED BY <1>3, <2>1, <3>1, <3>2, SizesOK DEF Control, Again, Address
  <2>3. CASE ~ (next < header.sections_num)
    <3> DEFINE where == IF header.section_name_str_index # 0 THEN "names" ELSE "segments"
    <3>1. UNCHANGED reader /\ Goto(where) /\ at' = where
      BY <1>7, <2>3 DEF ReadSection, Goto
    <3> QED BY <1>3, <2>1, <3>1, GotoControl DEF ReaderOK, reader, Places
  <2> QED BY <2>2, <2>3
<1>8. CASE ReadName
  <2>1. at = "names" /\ next \in Nat
    BY <1>3, <1>8 DEF ReadName, Control
  <2>2. CASE next < header.sections_num
    <3>1. NameSection(next) /\ Again
      BY <1>8, <2>2 DEF ReadName
    <3>2. ReaderOK'
      BY <1>3, <2>1, <3>1, NameSectionOK DEF ReaderOK, Again
    <3> QED BY <1>3, <2>1, <3>1, <3>2, SizesOK DEF Control, Again, Address
  <2>3. CASE ~ (next < header.sections_num)
    <3>1. UNCHANGED reader /\ Goto("segments") /\ at' = "segments"
      BY <1>8, <2>3 DEF ReadName, Goto
    <3> QED BY <1>3, <2>1, <3>1, GotoControl DEF ReaderOK, reader, Places
  <2> QED BY <2>2, <2>3
<1>9. CASE ReadSegment
  <2>1. at = "segments" /\ next \in Nat
    BY <1>3, <1>9 DEF ReadSegment, Control
  <2>2. CASE next < header.segments_num
    <3>1. LoadSegment(next) /\ Again
      BY <1>9, <2>2 DEF ReadSegment
    <3>2. ReaderOK'
      BY <1>3, <2>1, <3>1, LoadSegmentOK DEF ReaderOK, Again
    <3> QED BY <1>3, <2>1, <3>1, <3>2, SizesOK DEF Control, Again, Address
  <2>3. CASE ~ (next < header.segments_num)
    <3>1. UNCHANGED reader /\ Goto("load") /\ at' = "load"
      BY <1>9, <2>3 DEF ReadSegment, Goto
    <3> QED BY <1>3, <2>1, <3>1, GotoControl DEF ReaderOK, reader, Places
  <2> QED BY <2>2, <2>3
<1> QED BY <1>4, <1>5, <1>6, <1>7, <1>8, <1>9

\* The loader's and the stack's.
LEMMA LoaderTypes ==
  ASSUME TypeInv, LoadNext \/ MapPage \/ CopyByte \/ MapStack
  PROVE  TypeInv'
<1>1. UNCHANGED <<run, options, reader, cycle>>
  BY DEF LoadNext, MapPage, CopyByte, MapStack, Beside, machine
<1>2. /\ Control /\ ReaderOK /\ MemoryOK /\ OptionsOK /\ run' = run /\ cycle' = cycle
      /\ bytes' = bytes /\ fail' = fail /\ header' = header
      /\ sections' = sections /\ segments' = segments
  BY <1>1 DEF TypeInv, reader
<1>3. OptionsOK'
  BY <1>1, <1>2 DEF OptionsOK, options
<1>4. at # "failed" => header \in [HeaderNames -> Nat]
  BY <1>2 DEF ReaderOK
<1>5. at # "failed" => ReaderOK'
  BY <1>2, <1>4 DEF ReaderOK
<1>6. at \in {"load", "map", "copy", "stack"}
  BY DEF LoadNext, MapPage, CopyByte, MapStack
<1> SUFFICES Control' /\ MemoryOK'
  BY <1>3, <1>5, <1>6 DEF TypeInv
<1>7. AddrMod \in Nat \ {0} /\ PageSize \in Nat \ {0} /\ next \in Nat /\ p \in Address
  BY <1>2, SizesOK DEF Control
<1>8. Len(segments) \in Nat
  BY <1>2, AppendAny DEF ReaderOK
<1>9. \A a \in Address : alloc(memory, a) \in Memories
  BY <1>2, AllocCorrect DEF MemoryOK
<1>10. run \in DOMAIN Scenarios /\ memory \in Memories /\ cycle \in 0 .. MaxCycles
  BY <1>2 DEF Control, MemoryOK
<1>12. CASE LoadNext
  <2>1. memory' = memory
    BY <1>12 DEF LoadNext, Beside, machine
  <2>2. CASE next < Len(segments)
    <3>1. at' = "map" /\ p' = seg_start /\ next' = next
      BY <1>12, <2>2 DEF LoadNext
    <3>2. seg_start \in Address
      BY <1>2, <1>7, <2>2, SegmentAt
    <3> QED BY <1>2, <1>7, <1>10, <2>1, <2>2, <3>1, <3>2 DEF Control, MemoryOK, Places
  <2>3. CASE ~ (next < Len(segments))
    <3>1. at' = "stack" /\ p' = StackStart /\ next' = 0
      BY <1>12, <2>3 DEF LoadNext
    <3>2. /\ StackStart \in Address /\ StackStart \in StackStart - StackSize .. StackStart
          /\ StackStart % PageSize = 0
      BY <1>7, StartupAssumption DEF Address
    <3> QED BY <1>2, <1>10, <2>1, <3>1, <3>2 DEF Control, MemoryOK, Places
  <2> QED BY <2>2, <2>3
<1>13. CASE MapPage
  <2>1. at = "map" /\ next' = next /\ next < Len(segments)
    BY <1>2, <1>13 DEF MapPage, Control
  <2>2. seg_start \in Address
    BY <1>2, <1>7, <2>1, SegmentAt
  <2>3. CASE p < map_end
    <3>1. at' = at /\ p' = NextPage(p) /\ memory' = alloc(memory, p)
      BY <1>13, <2>3 DEF MapPage
    <3>2. p + PageSize \in Nat
      BY <1>7 DEF Address
    <3>3. p' \in Address
      BY <3>1, <3>2, Uint32OK DEF NextPage
    <3> QED BY <1>2, <1>7, <1>9, <1>10, <2>1, <3>1, <3>3 DEF Control, MemoryOK, Places
  <2>4. CASE ~ (p < map_end)
    <3>1. at' = "copy" /\ p' = seg_start /\ memory' = memory
      BY <1>13, <2>4 DEF MapPage
    <3>2. seg_start' = seg_start
      BY <1>2, <2>1 DEF seg_start, seg
    <3>3. seg_start <= seg_start
      BY <2>2 DEF Address
    <3> QED BY <1>2, <1>7, <1>10, <2>1, <2>2, <3>1, <3>2, <3>3 DEF Control, MemoryOK, Places
  <2> QED BY <2>3, <2>4
<1>14. CASE CopyByte
  <2>1. at = "copy" /\ next < Len(segments) /\ seg_start <= p
    BY <1>2, <1>14 DEF CopyByte, Control
  <2>2. /\ SegmentOK(seg) /\ seg_start \in Address /\ data_end \in Address
        /\ \A a \in Address : seg_start <= a /\ a < data_end =>
             a - seg_start + 1 \in 1 .. seg.file_size
    BY <1>2, <1>7, <2>1, SegmentAt
  <2>3. CASE p >= data_end
    <3>1. at' = "load" /\ next' = next + 1 /\ p' = 0 /\ memory' = memory
      BY <1>7, <2>2, <1>14, <2>3 DEF CopyByte, Address
    <3> QED BY <1>2, <1>7, <1>10, <3>1 DEF Control, MemoryOK, Places, Address
  <2>4. CASE p < data_end /\ seg.data = NULL
    <3>1. Goto("crash") /\ memory' = memory
      BY <1>7, <2>2, <1>14, <2>4 DEF CopyByte, Address
    <3> QED BY <1>2, <1>10, <3>1, GotoControl DEF MemoryOK, Places, Ends
  <2>5. CASE p < data_end /\ seg.data # NULL /\ ~ isValidAddr(memory, p)
    <3>1. Goto("exit") /\ memory' = memory
      BY <1>7, <2>2, <1>14, <2>5 DEF CopyByte, Address
    <3> QED BY <1>2, <1>10, <3>1, GotoControl DEF MemoryOK, Places, Ends
  <2>6. CASE p < data_end /\ seg.data # NULL /\ isValidAddr(memory, p)
    <3> DEFINE val == seg.data[p - seg_start + 1]
    <3>1. /\ at' = at /\ next' = next /\ p' = p + 1
          /\ memory' = store_byte(memory, p, val)
      BY <1>7, <2>2, <1>14, <2>6 DEF CopyByte, Address
    <3>2. val \in Cell
      BY <1>7, <2>1, <2>2, <2>6 DEF SegmentOK
    <3>3. memory' \in Memories
      BY <1>7, <1>10, <2>6, <3>1, <3>2, StoreCorrect
    <3>4. p' \in Address /\ seg_start <= p'
      BY <1>7, <2>1, <2>2, <2>6, <3>1 DEF Address
    <3>5. seg_start' = seg_start
      BY <1>2, <3>1 DEF seg_start, seg
    <3> QED BY <1>2, <1>7, <1>10, <2>1, <3>1, <3>3, <3>4, <3>5 DEF Control, MemoryOK, Places
  <2>7. p >= data_end \/ p < data_end
    BY <1>7, <2>2 DEF Address
  <2> QED BY <2>3, <2>4, <2>5, <2>6, <2>7
<1>15. CASE MapStack
  <2>1. at = "stack" /\ p \in StackStart - StackSize .. StackStart /\ p % PageSize = 0
    BY <1>2, <1>15 DEF MapStack, Control
  <2>2. CASE p > StackStart - StackSize
    <3>1. at' = at /\ next' = next /\ p' = p - PageSize /\ memory' = alloc(memory, p)
      BY <1>15, <2>2 DEF MapStack
    <3>2. p' \in StackStart - StackSize .. StackStart /\ p' % PageSize = 0
      BY <2>1, <2>2, <3>1, StackStep
    <3>3. p' \in Address
      BY <1>7, <3>2, StartupAssumption DEF Address
    <3> QED BY <1>2, <1>7, <1>9, <1>10, <2>1, <3>1, <3>2, <3>3 DEF Control, MemoryOK, Places
  <2>3. CASE ~ (p > StackStart - StackSize)
    <3> DEFINE where == IF verbose THEN "print" ELSE "start"
    <3>1. Goto(where) /\ memory' = memory
      BY <1>15, <2>3 DEF MapStack
    <3> QED BY <1>2, <1>10, <3>1, GotoControl DEF MemoryOK, Places
  <2> QED BY <2>2, <2>3
<1> QED BY <1>12, <1>13, <1>14, <1>15

\* What follows the loader.
LEMMA RestTypes ==
  ASSUME TypeInv, PrintInfo \/ Start \/ Cycle \/ Finish \/ ReadCommand
  PROVE  TypeInv'
<1>1. UNCHANGED <<run, options, reader>> /\ at \in {"print", "start", "cycle", "prompt"}
  BY DEF PrintInfo, Start, Cycle, Finish, ReadCommand
<1>2. Control /\ ReaderOK /\ MemoryOK /\ OptionsOK /\ run' = run
  BY <1>1 DEF TypeInv
<1>3. OptionsOK'
  BY <1>1, <1>2 DEF OptionsOK, options
<1>4. ReaderOK'
  BY <1>1, <1>2 DEF ReaderOK, reader
<1>5. Control'
  <2>1. \A where : DumpMemory(where) => Goto(where) \/ Goto("crash")
    BY DEF DumpMemory
  <2>2. \/ Goto("start") \/ Goto("cycle") \/ Goto("prompt") \/ Goto("done") \/ Goto("exit")
        \/ Goto("crash")
    BY <2>1 DEF PrintInfo, Start, Cycle, Finish, ReadCommand
  <2> QED BY <1>2, <2>2, GotoControl DEF Places, Ends
<1>6. MemoryOK'
  <2>1. CASE Cycle
    <3>1. cycle' \in 0 .. MaxCycles
      BY <1>2, <2>1, StartupAssumption DEF Cycle, MemoryOK
    <3>2. CASE memory' = memory
      BY <1>2, <3>1, <3>2 DEF MemoryOK
    <3>3. CASE \E a \in Evicted : isValidAddr(memory, a) /\ memory' = store_byte(memory, a, 1)
      <4>1. PICK a \in Evicted : isValidAddr(memory, a) /\ memory' = store_byte(memory, a, 1)
        BY <3>3
      <4>2. a \in Address /\ 1 \in Cell
        BY <4>1, StartupAssumption DEF Address, Cell
      <4>3. memory' \in Memories
        BY <1>2, <4>1, <4>2, StoreCorrect DEF MemoryOK
      <4> QED BY <3>1, <4>3 DEF MemoryOK
    <3> QED BY <2>1, <3>2, <3>3 DEF Cycle
  <2>2. CASE PrintInfo \/ Start \/ Finish \/ ReadCommand
    BY <1>2, <2>2 DEF PrintInfo, Start, Finish, ReadCommand, machine, MemoryOK
  <2> QED BY <2>1, <2>2
<1> QED BY <1>3, <1>4, <1>5, <1>6 DEF TypeInv

LEMMA NextTypeInv == TypeInv /\ [Next]_vars => TypeInv'
<1> SUFFICES ASSUME TypeInv, [Next]_vars PROVE TypeInv'
  OBVIOUS
<1>1. CASE Next
  BY <1>1, ParseArgTypes, ReaderTypes, LoaderTypes, RestTypes DEF Next
<1>2. CASE UNCHANGED vars
  <2>1. /\ UNCHANGED <<run, at, next, p, memory, cycle>> /\ UNCHANGED options /\ UNCHANGED reader
    BY <1>2 DEF vars, machine
  <2>2. Control' /\ MemoryOK'
    BY <2>1 DEF TypeInv, Control, MemoryOK, reader, seg_start, seg
  <2>3. OptionsOK' /\ ReaderOK'
    BY <2>1 DEF TypeInv, OptionsOK, ReaderOK, options, reader
  <2> QED BY <2>2, <2>3 DEF TypeInv
<1> QED BY <1>1, <1>2

\* The loops of main, the loader and the reader stay in their bounds, what the
\* reader allocates is as large as the headers it read say, and memory is pages of
\* bytes, for every file, however damaged (Read_Elf.cpp:52-66, elfio.hpp:112-146).
THEOREM TypeCorrect == Spec => []TypeOK
<1>1. Spec => []TypeInv
  BY InitTypeInv, NextTypeInv, PTL DEF Spec
<1> QED BY <1>1, TypeInvIsEnough, PTL

-----------------------------------------------------------------------------
(* The command line.  After n arguments the options are those the first n  *)
(* give, and main is never at the value of a -b.                           *)

argv == scenario.argv
Own(av, n) == {k \in 1 .. n : ~ IsValue(av, k)}
Has(av, n, letters) == \E k \in Own(av, n) : av[k].dash /\ av[k].letter \in letters

Agree(n) ==
  /\ file = Latest(argv, {k \in Own(argv, n) : ~ argv[k].dash}, "")
  /\ singleStep \in BOOLEAN /\ verbose \in BOOLEAN /\ dumpMem \in BOOLEAN
  /\ singleStep <=> Has(argv, n, {"s"})
  /\ verbose <=> Has(argv, n, {"s", "v"})
  /\ dumpMem <=> Has(argv, n, {"m"})
  /\ branch_strat = Strategy(Latest(argv, (1 .. n) \ Own(argv, n), "AT"))

ArgsInv ==
  /\ run \in DOMAIN Scenarios
  /\ at = "args" =>
       /\ next \in 1 .. Len(argv) + 1 /\ Agree(next - 1)
       /\ next <= Len(argv) => ~ IsValue(argv, next)
  /\ at # "args" => Agree(Len(argv))

\* An argument is a value exactly when the one in front of it is a -b that is none.
LEMMA ValueStep ==
  ASSUME NEW av, NEW k \in Nat \ {0}
  PROVE  /\ ~ IsValue(av, 1)
         /\ IsValue(av, k + 1) <=> IsB(av[k]) /\ ~ IsValue(av, k)
<1> DEFINE B(n) == {j \in 1 .. n - 1 : \A i \in j .. n - 1 : IsB(av[i])}
<1>1. \A n : IsValue(av, n) <=> Cardinality(B(n)) % 2 = 1
  BY DEF IsValue
<1>2. B(1) = {} /\ Cardinality({}) = 0
  BY FS_EmptySet
<1>3. B(k) \subseteq 1 .. k - 1 /\ k \notin B(k)
  OBVIOUS
<1>4. IsFiniteSet(B(k)) /\ Cardinality(B(k)) \in Nat
  <2>1. IsFiniteSet(1 .. k - 1)
    BY FS_Interval
  <2> QED BY <1>3, <2>1, FS_Subset, FS_CardinalityType
<1>5. CASE ~ IsB(av[k])
  <2>1. B(k + 1) = {}
    BY <1>5
  <2> HIDE DEF B
  <2>2. ~ (0 % 2 = 1)
    OBVIOUS
  <2> QED BY <1>1, <1>2, <1>5, <2>1, <2>2
<1>6. CASE IsB(av[k])
  <2>1. B(k + 1) = B(k) \cup {k}
    <3>1. \A j \in 1 .. k : (\A i \in j .. k : IsB(av[i])) <=> (\A i \in j .. k - 1 : IsB(av[i]))
      BY <1>6
    <3>2. (k + 1) - 1 = k /\ \A i \in k .. k - 1 : FALSE
      OBVIOUS
    <3> QED BY <1>6, <3>1, <3>2
  <2> HIDE DEF B
  <2>2. Cardinality(B(k) \cup {k}) = Cardinality(B(k)) + 1
    BY <1>3, <1>4, FS_AddElement
  <2>3. (Cardinality(B(k)) + 1) % 2 = 1 <=> ~ (Cardinality(B(k)) % 2 = 1)
    BY <1>4
  <2>4. ~ (0 % 2 = 1)
    OBVIOUS
  <2> QED BY <1>1, <1>2, <1>6, <2>1, <2>2, <2>3, <2>4
<1> QED BY <1>5, <1>6

\* The latest of some is the one that comes last.
LEMMA LatestAdd ==
  ASSUME NEW av, NEW k \in Nat, NEW S \in SUBSET (1 .. k - 1), NEW otherwise
  PROVE  Latest(av, S \cup {k}, otherwise) = av[k].text
<1>1. \A y \in S \cup {k} : y \in Int /\ y <= k
  OBVIOUS
<1>2. \A x \in S \cup {k} : (\A y \in S \cup {k} : x >= y) <=> x = k
  BY <1>1
<1>3. Max(S \cup {k}) = k
  BY <1>2 DEF Max
<1> QED BY <1>3 DEF Latest

\* One more argument that counts for itself.
LEMMA OneMore ==
  ASSUME NEW av, NEW k \in Nat \ {0}, ~ IsValue(av, k)
  PROVE  /\ Own(av, k) = Own(av, k - 1) \cup {k} /\ (1 .. k) \ Own(av, k) = (1 .. k - 1) \ Own(av, k - 1)
         /\ \A letters : Has(av, k, letters) <=>
              Has(av, k - 1, letters) \/ (av[k].dash /\ av[k].letter \in letters)
         /\ av[k].dash =>
              {j \in Own(av, k) : ~ av[j].dash} = {j \in Own(av, k - 1) : ~ av[j].dash}
         /\ ~ av[k].dash => Latest(av, {j \in Own(av, k) : ~ av[j].dash}, "") = av[k].text
<1>1. Own(av, k) = Own(av, k - 1) \cup {k} /\ Own(av, k - 1) \subseteq 1 .. k - 1
  BY DEF Own
<1>2. (1 .. k) \ Own(av, k) = (1 .. k - 1) \ Own(av, k - 1)
  BY <1>1 DEF Own
<1>3. \A letters : Has(av, k, letters) <=>
        Has(av, k - 1, letters) \/ (av[k].dash /\ av[k].letter \in letters)
  BY <1>1 DEF Has
<1>4. ASSUME av[k].dash
      PROVE  {j \in Own(av, k) : ~ av[j].dash} = {j \in Own(av, k - 1) : ~ av[j].dash}
  BY <1>1, <1>4
<1>5. ASSUME ~ av[k].dash
      PROVE  Latest(av, {j \in Own(av, k) : ~ av[j].dash}, "") = av[k].text
  <2> DEFINE S == {j \in Own(av, k - 1) : ~ av[j].dash}
  <2>1. {j \in Own(av, k) : ~ av[j].dash} = S \cup {k} /\ S \in SUBSET (1 .. k - 1)
    BY <1>1, <1>5
  <2> HIDE DEF S
  <2>2. Latest(av, S \cup {k}, "") = av[k].text
    BY <2>1, LatestAdd
  <2> QED BY <2>1, <2>2, Zenon
<1> QED BY <1>1, <1>2, <1>3, <1>4, <1>5

\* One more argument that is a value.
LEMMA OneValue ==
  ASSUME NEW av, NEW k \in Nat \ {0}, IsValue(av, k)
  PROVE  /\ Own(av, k) = Own(av, k - 1)
         /\ Latest(av, (1 .. k) \ Own(av, k), "AT") = av[k].text
<1>1. Own(av, k) = Own(av, k - 1) /\ Own(av, k - 1) \subseteq 1 .. k - 1
  BY DEF Own
<1> DEFINE S == (1 .. k - 1) \ Own(av, k - 1)
<1>2. (1 .. k) \ Own(av, k) = S \cup {k} /\ S \in SUBSET (1 .. k - 1)
  BY <1>1
<1> HIDE DEF S
<1>3. Latest(av, S \cup {k}, "AT") = av[k].text
  BY <1>2, LatestAdd
<1> QED BY <1>1, <1>2, <1>3, Zenon

LEMMA ArgvOK ==
  ASSUME run \in DOMAIN Scenarios
  PROVE  Len(argv) \in Nat /\ DOMAIN argv = 1 .. Len(argv)
BY ScenarioAssumption DEF argv, scenario

LEMMA ArgsKept ==
  ASSUME ArgsInv, at = "args", next <= Len(argv), ParseArg
  PROVE  ArgsInv'
<1> PICK k : k = next
  OBVIOUS
<1>1. run' = run /\ at' = at /\ argv' = argv
  BY DEF ParseArg, argv, scenario
<1>2. k \in Nat \ {0} /\ ~ IsValue(argv, k) /\ Agree(k - 1) /\ Len(argv) \in Nat
      /\ run \in DOMAIN Scenarios
  BY ArgvOK DEF ArgsInv
<1>3. /\ Own(argv, k) = Own(argv, k - 1) \cup {k} /\ (1 .. k) \ Own(argv, k) = (1 .. k - 1) \ Own(argv, k - 1)
      /\ \A letters : Has(argv, k, letters) <=>
           Has(argv, k - 1, letters) \/ (argv[k].dash /\ argv[k].letter \in letters)
      /\ argv[k].dash =>
           {j \in Own(argv, k) : ~ argv[j].dash} = {j \in Own(argv, k - 1) : ~ argv[j].dash}
      /\ ~ argv[k].dash => Latest(argv, {j \in Own(argv, k) : ~ argv[j].dash}, "") = argv[k].text
  BY <1>2, OneMore
<1>4. IsValue(argv, k + 1) <=> IsB(argv[k])
  BY <1>2, ValueStep
<1>5. /\ file = Latest(argv, {j \in Own(argv, k - 1) : ~ argv[j].dash}, "")
      /\ singleStep \in BOOLEAN /\ verbose \in BOOLEAN /\ dumpMem \in BOOLEAN
      /\ singleStep <=> Has(argv, k - 1, {"s"})
      /\ verbose <=> Has(argv, k - 1, {"s", "v"})
      /\ dumpMem <=> Has(argv, k - 1, {"m"})
      /\ branch_strat = Strategy(Latest(argv, (1 .. k - 1) \ Own(argv, k - 1), "AT"))
  BY <1>2 DEF Agree
<1>6. arg = argv[k]
  BY DEF arg, argv
<1> DEFINE own == Own(argv, k)
           has(letters) == Has(argv, k - 1, letters) \/ (arg.dash /\ arg.letter \in letters)
<1>7. CASE FileArg
  <2>1. /\ ~ arg.dash /\ file' = arg.text /\ next' = k + 1
        /\ UNCHANGED <<singleStep, verbose, dumpMem, branch_strat>>
    BY <1>7 DEF FileArg
  <2>2. \A letters : Has(argv, k, letters) <=> Has(argv, k - 1, letters)
    BY <1>3, <1>6, <2>1
  <2>3. Agree(k)'
    BY <1>1, <1>3, <1>5, <1>6, <2>1, <2>2 DEF Agree
  <2>4. ~ IsValue(argv, k + 1)
    BY <1>4, <1>6, <2>1 DEF IsB
  <2> QED BY <1>1, <1>2, <2>1, <2>3, <2>4 DEF ArgsInv
<1>8. CASE FlagArg
  <2>1. /\ arg.dash /\ arg.letter # "b" /\ next' = k + 1
        /\ singleStep' = (singleStep \/ arg.letter = "s")
        /\ verbose' = (verbose \/ arg.letter \in {"s", "v"})
        /\ dumpMem' = (dumpMem \/ arg.letter = "m")
        /\ UNCHANGED <<file, branch_strat>>
    BY <1>8 DEF FlagArg
  <2>2. \A letters : Has(argv, k, letters) <=> Has(argv, k - 1, letters) \/ arg.letter \in letters
    BY <1>3, <1>6, <2>1
  <2>3. /\ singleStep' \in BOOLEAN /\ verbose' \in BOOLEAN /\ dumpMem' \in BOOLEAN
        /\ singleStep' <=> Has(argv, k, {"s"})
        /\ verbose' <=> Has(argv, k, {"s", "v"})
        /\ dumpMem' <=> Has(argv, k, {"m"})
    BY <1>5, <2>1, <2>2
  <2>4. Agree(k)'
    BY <1>1, <1>3, <1>5, <1>6, <2>1, <2>3 DEF Agree
  <2>5. ~ IsValue(argv, k + 1)
    BY <1>4, <1>6, <2>1 DEF IsB
  <2> QED BY <1>1, <1>2, <2>1, <2>4, <2>5 DEF ArgsInv
<1>9. CASE StrategyArg
  <2>1. /\ arg.dash /\ arg.letter = "b" /\ next' = k + Taken
        /\ branch_strat' = IF HasNext THEN Strategy(argv[k + 1].text) ELSE branch_strat
        /\ UNCHANGED <<file, singleStep, verbose, dumpMem>>
    BY <1>9 DEF StrategyArg, argv
  <2>2. \A letters : "b" \notin letters => (Has(argv, k, letters) <=> Has(argv, k - 1, letters))
    BY <1>3, <1>6, <2>1
  <2>3. /\ singleStep' \in BOOLEAN /\ verbose' \in BOOLEAN /\ dumpMem' \in BOOLEAN
        /\ singleStep' <=> Has(argv, k, {"s"})
        /\ verbose' <=> Has(argv, k, {"s", "v"})
        /\ dumpMem' <=> Has(argv, k, {"m"})
    BY <1>5, <2>1, <2>2
  <2>4. file' = Latest(argv, {j \in Own(argv, k) : ~ argv[j].dash}, "")
    BY <1>3, <1>5, <1>6, <2>1
  <2>5. IsValue(argv, k + 1)
    BY <1>4, <1>6, <2>1 DEF IsB
  <2>6. CASE k < Len(argv)
    <3>1. next' = k + 2 /\ branch_strat' = Strategy(argv[k + 1].text)
      BY <2>1, <2>6 DEF HasNext, Taken, argv
    <3>2. (k + 1) - 1 = k /\ k + 1 \in Nat \ {0}
      BY <1>2
    <3>3. /\ Own(argv, k + 1) = Own(argv, k)
          /\ Latest(argv, (1 .. k + 1) \ Own(argv, k + 1), "AT") = argv[k + 1].text
      BY <2>5, <3>2, OneValue
    <3>4. \A letters : Has(argv, k + 1, letters) <=> Has(argv, k, letters)
      BY <3>3 DEF Has
    <3>5. /\ singleStep' \in BOOLEAN /\ verbose' \in BOOLEAN /\ dumpMem' \in BOOLEAN
          /\ singleStep' <=> Has(argv, k + 1, {"s"})
          /\ verbose' <=> Has(argv, k + 1, {"s", "v"})
          /\ dumpMem' <=> Has(argv, k + 1, {"m"})
      BY <2>3, <3>3 DEF Has
    <3>6. Agree(k + 1)'
      BY <1>1, <2>4, <3>1, <3>3, <3>5 DEF Agree
    <3>7. ~ IsValue(argv, (k + 1) + 1)
      BY <2>5, <3>2, ValueStep
    <3>8. (k + 1) + 1 = k + 2 /\ next' - 1 = k + 1 /\ next' \in 1 .. Len(argv) + 1
      BY <1>2, <2>6, <3>1
    <3> QED BY <1>1, <1>2, <3>1, <3>6, <3>7, <3>8 DEF ArgsInv
  <2>7. CASE ~ (k < Len(argv))
    <3>1. next' = k + 1 /\ branch_strat' = branch_strat
      BY <2>1, <2>7 DEF HasNext, Taken, argv
    <3>2. Agree(k)'
      BY <1>1, <1>3, <1>5, <2>3, <2>4, <3>1 DEF Agree
    <3>3. next' - 1 = k /\ next' \in 1 .. Len(argv) + 1 /\ ~ (next' <= Len(argv))
      BY <1>2, <2>7, <3>1
    <3> QED BY <1>1, <1>2, <3>2, <3>3 DEF ArgsInv
  <2> QED BY <2>6, <2>7
<1> QED BY <1>7, <1>8, <1>9 DEF ParseArg

\* The file is opened when there is no argument left, and nothing changes the options then.
LEMMA ArgsInvariant == Spec => []ArgsInv
<1>1. Init => ArgsInv
  <2> SUFFICES ASSUME Init PROVE ArgsInv
    OBVIOUS
  <2>1. run \in DOMAIN Scenarios /\ at = "args" /\ next = 1
    BY Zenon DEF Init
  <2>0. /\ file = "" /\ branch_strat = "AT"
        /\ singleStep = FALSE /\ verbose = FALSE /\ dumpMem = FALSE
    BY Zenon DEF Init
  <2>2. Len(argv) \in Nat
    BY <2>1, ArgvOK
  <2>3. Own(argv, 0) = {} /\ (1 .. 0) \ Own(argv, 0) = {}
    BY DEF Own
  <2>4. Agree(0)
    BY <2>0, <2>3 DEF Agree, Has, Latest, Strategy
  <2>5. Agree(next - 1) /\ ~ IsValue(argv, next)
    <3>1. next - 1 = 0
      BY <2>1
    <3> QED BY <2>1, <2>4, <3>1, ValueStep
  <2> QED BY <2>1, <2>2, <2>5 DEF ArgsInv
<1>2. ASSUME ArgsInv, [Next]_vars PROVE ArgsInv'
  <2>1. CASE ParseArg
    <3>1. at = "args" /\ next <= Len(argv)
      BY <2>1 DEF ParseArg, argv
    <3> QED BY <1>2, <2>1, <3>1, ArgsKept
  <2>2. CASE OpenFile
    <3>1. /\ at = "args" /\ next > Len(argv) /\ at' # "args" /\ UNCHANGED <<run, options>>
      BY <2>2 DEF OpenFile, Goto, Beside, argv
    <3>2. next - 1 = Len(argv)
      BY <1>2, <3>1, ArgvOK DEF ArgsInv
    <3> QED BY <1>2, <3>1, <3>2 DEF ArgsInv, Agree, options, argv, scenario
  <2>3. CASE UNCHANGED vars
    BY <1>2, <2>3 DEF ArgsInv, Agree, vars, options, argv, scenario
  <2>4. CASE \/ ReadIdent \/ ReadHeader \/ ReadSection \/ ReadName \/ ReadSegment
             \/ LoadNext \/ MapPage \/ CopyByte \/ MapStack \/ PrintInfo \/ Start
             \/ Cycle \/ Finish \/ ReadCommand
    <3>1. UNCHANGED <<run, options>> /\ at # "args"
      BY <2>4 DEF ReadIdent, ReadHeader, ReadSection, ReadName, ReadSegment, LoadNext, MapPage,
                  CopyByte, MapStack, PrintInfo, Start, Cycle, Finish, ReadCommand, Beside
    <3>2. at' # "args"
      BY <2>4 DEF ReadIdent, ReadHeader, ReadSection, ReadName, ReadSegment, LoadNext, MapPage,
                  CopyByte, MapStack, PrintInfo, Start, Cycle, Finish, ReadCommand, Goto, Again,
                  DumpMemory
    <3> QED BY <1>2, <3>1, <3>2 DEF ArgsInv, Agree, options, argv, scenario
  <2> QED BY <1>2, <2>1, <2>2, <2>3, <2>4 DEF Next
<1> QED BY <1>1, <1>2, PTL DEF Spec

\* Whatever the arguments and however many, every one counts for what it is unless it
\* is the value of a -b, and of several the last one counts (simulation.cpp:105-143).
THEOREM OptionsCorrect == Spec => []OptionsAsGiven
<1>1. ASSUME ArgsInv PROVE OptionsAsGiven
  <2> SUFFICES ASSUME at # "args" PROVE OptionsAsGiven
    BY DEF OptionsAsGiven, Ends
  <2>1. Agree(Len(argv)) /\ DOMAIN argv = 1 .. Len(argv)
    BY <1>1, ArgvOK DEF ArgsInv
  <2> DEFINE own == {k \in DOMAIN argv : ~ IsValue(argv, k)}
  <2>2. own = Own(argv, Len(argv))
    BY <2>1 DEF Own
  <2>3. \A letters : Has(argv, Len(argv), letters)
           <=> \E k \in own : argv[k].dash /\ argv[k].letter \in letters
    BY <2>2 DEF Has
  <2>4. \A text : Strategy(text) = IF text \in {"NT", "BTFNT"} THEN text ELSE "AT"
    BY DEF Strategy
  <2> QED BY <2>1, <2>2, <2>3, <2>4 DEF OptionsAsGiven, Agree, argv
<1> QED BY <1>1, ArgsInvariant, PTL

=============================================================================
