---------------------------- MODULE LoaderProofs ----------------------------
(***************************************************************************)
(* What the reader and the loader make of a file, for every file, whole or *)
(* not, and every size of pages, tables and directories.                   *)
(*                                                                         *)
(* The reference is what the linker says of the file (ElfFile).  First the *)
(* lemmas: which cells a file has, and what one read of the reader makes   *)
(* of them.  By these the invariant ReadOf follows the reader through the  *)
(* header, the sections, their names and the segments.  LoadOf then        *)
(* follows the loader: the pages it has mapped and the bytes in them, as   *)
(* the image of the segments it has dealt with.                            *)
(***************************************************************************)
EXTENDS StartupProofs, WellFoundedInduction

-----------------------------------------------------------------------------
(* The file a description stands for, cell by cell. *)

\* Reading a number in the byte order of the file undoes writing it.
LEMMA DigitsOK ==
  ASSUME NEW d, NEW x \in Nat
  PROVE  Digits(d, x) \in Nat /\ (x \in Field => Convert(d.encoding, Digits(d, x)) = x)
<1> DEFINE a == x \div Half
           b == x % Half
<1>1. /\ Half \in Nat \ {0} /\ a \in Nat /\ b \in 0 .. Half - 1 /\ x = Half * a + b
  BY StartupAssumption, DivMod
<1>2. Digits(d, x) = IF d.encoding = 1 THEN x ELSE Half * b + a
  BY DEF Digits
<1>0. Half * b \in Nat
  BY <1>1
<1>3. ASSUME x \in Field PROVE Swap(Half * b + a) = x
  <2>1. a < Half
    <3>1. SUFFICES ASSUME a >= Half PROVE FALSE
      BY <1>1
    <3>2. Half * (a - Half) >= 0
      BY <1>1, <3>1
    <3> QED BY <1>1, <1>3, <3>2 DEF Field
  <2> HIDE DEF a, b
  <2>2. (b * Half + a) \div Half = b /\ (b * Half + a) % Half = a
    BY <1>1, <2>1, DivModUnique
  <2>3. Half * b + a = b * Half + a /\ a * Half + b = x
    BY <1>1
  <2> QED BY <2>2, <2>3 DEF Swap
<1> HIDE DEF a, b
<1> QED BY <1>0, <1>1, <1>2, <1>3 DEF Convert, ELFDATA2LSB

\* Field j of header i is where the headers in front of it end.
LEMMA Sixths ==
  ASSUME NEW i \in Nat, NEW j \in 1 .. 6
  PROVE  (6 * i + j - 1) \div 6 = i /\ (6 * i + j - 1) % 6 = j - 1
OBVIOUS

\* How long the parts of a file are.
LEMMA SizesOfFile ==
  ASSUME NEW d, Describes(d)
  PROVE  /\ Len(d.segments) \in Nat /\ Len(d.sections) \in Nat
         /\ DOMAIN d.segments = 1 .. Len(d.segments) /\ DOMAIN d.sections = 1 .. Len(d.sections)
         /\ BlobAt(d) \in Nat /\ BlobAt(d) = 11 + 6 * Len(d.segments)
         /\ SectionsAt(d) \in Nat /\ SectionsAt(d) >= BlobAt(d)
         /\ DOMAIN Whole(d) = 1 .. Len(Whole(d))
         /\ Len(Whole(d)) = SectionsAt(d) + 6 * Len(d.sections)
         /\ Len(Whole(d)) \in Nat /\ Len(Whole(d)) \in Field
         /\ d.size \in Nat /\ d.size <= Len(Whole(d))
<1>1. d.blob \in Seq(Nat) /\ d.segments \in Seq(SegmentHeaders) /\ d.sections \in Seq(SectionHeaders)
  BY Zenon DEF Describes
<1>2. Len(Whole(d)) \in Field /\ d.size \in 0 .. Len(Whole(d))
  BY Zenon DEF Describes
<1>3. /\ Len(d.segments) \in Nat /\ Len(d.sections) \in Nat /\ Len(d.blob) \in Nat
      /\ DOMAIN d.segments = 1 .. Len(d.segments) /\ DOMAIN d.sections = 1 .. Len(d.sections)
  BY <1>1, LenProperties, Zenon
<1>4. /\ BlobAt(d) \in Nat /\ BlobAt(d) = 11 + 6 * Len(d.segments)
      /\ SectionsAt(d) \in Nat /\ SectionsAt(d) >= BlobAt(d)
  <2> DEFINE m == Len(d.segments)
             b == Len(d.blob)
  <2>1. BlobAt(d) = 11 + 6 * m /\ SectionsAt(d) = BlobAt(d) + b
    BY Zenon DEF BlobAt, SectionsAt
  <2> HIDE DEF m, b
  <2>2. m \in Nat /\ b \in Nat
    BY <1>3 DEF m, b
  <2>3. 11 + 6 * m \in Nat /\ 11 + 6 * m + b \in Nat /\ 11 + 6 * m + b >= 11 + 6 * m
    BY ONLY <2>2
  <2> QED BY <2>1, <2>3, Zenon DEF m
<1> DEFINE n == SectionsAt(d) + 6 * Len(d.sections)
<1>5. n \in Nat
  BY <1>3, <1>4
<1>6. DOMAIN Whole(d) = 1 .. n /\ Len(Whole(d)) = n
  <2>1. Whole(d) = [k \in 1 .. n |-> CellAt(d, k)]
    BY Zenon DEF Whole
  <2> HIDE DEF n
  <2> QED BY <1>5, <2>1
<1>7. d.size \in Nat /\ d.size <= Len(Whole(d))
  BY <1>2, <1>5, <1>6
<1> QED BY <1>2, <1>3, <1>4, <1>5, <1>6, <1>7

\* What is in the cells of its header.
LEMMA FileHeader ==
  ASSUME NEW d, Describes(d)
  PROVE  /\ Whole(d)[1] = d.magic /\ Whole(d)[2] = d.class /\ Whole(d)[3] = d.encoding
         /\ \A k \in 1 .. 8 :
              Whole(d)[3 + k] = Digits(d, <<d.entry, 11, SectionsAt(d), 6, Len(d.segments),
                                            6, Len(d.sections), d.names>>[k])
<1> DEFINE m == BlobAt(d)
           q == SectionsAt(d)
           n == Len(Whole(d))
<1>1. m \in Nat /\ m >= 11 /\ q \in Nat /\ q >= m /\ n \in Nat /\ n >= q
  <2>1. Len(d.segments) \in Nat /\ Len(d.sections) \in Nat /\ m = 11 + 6 * Len(d.segments)
        /\ q \in Nat /\ q >= m /\ n = q + 6 * Len(d.sections)
    BY SizesOfFile
  <2> HIDE DEF m, q, n
  <2> QED BY ONLY <2>1
<1>2. \A k \in 1 .. n : Whole(d)[k] = CellAt(d, k)
  BY SizesOfFile, Zenon DEF Whole
<1> HIDE DEF m, q, n
<1>3. ASSUME NEW k \in 1 .. 3
      PROVE  Whole(d)[k] = <<d.magic, d.class, d.encoding>>[k]
  <2>1. k \in 1 .. n /\ k \notin 4 .. 11 /\ k \notin 12 .. m /\ k \notin m + 1 .. q /\ ~ (k > q)
    BY ONLY <1>1, <1>3
  <2> QED BY <1>2, <2>1, Zenon DEF CellAt, m, q
<1>4. ASSUME NEW k \in 1 .. 8
      PROVE  Whole(d)[3 + k] = Digits(d, <<d.entry, 11, q, 6, Len(d.segments),
                                            6, Len(d.sections), d.names>>[k])
  <2>1. 3 + k \in 1 .. n /\ 3 + k \in 4 .. 11 /\ 3 + k \notin 1 .. 3
        /\ 3 + k \notin 12 .. m /\ 3 + k \notin m + 1 .. q /\ ~ (3 + k > q) /\ (3 + k) - 3 = k
    BY ONLY <1>1, <1>4
  <2> QED BY <1>2, <2>1, Zenon DEF CellAt, m, q
<1>5. 1 \in 1 .. 3 /\ 2 \in 1 .. 3 /\ 3 \in 1 .. 3
  OBVIOUS
<1>6. Whole(d)[1] = d.magic /\ Whole(d)[2] = d.class /\ Whole(d)[3] = d.encoding
  <2>1. /\ <<d.magic, d.class, d.encoding>>[1] = d.magic
        /\ <<d.magic, d.class, d.encoding>>[2] = d.class
        /\ <<d.magic, d.class, d.encoding>>[3] = d.encoding
    OBVIOUS
  <2> QED BY <1>3, <1>5, <2>1, Zenon
<1> QED BY <1>4, <1>6, Zenon DEF q

\* And where the headers of segments and sections are.
LEMMA FileSegment ==
  ASSUME NEW d, Describes(d), NEW i \in 0 .. Len(d.segments) - 1, NEW j \in 1 .. 6
  PROVE  /\ (11 + i * 6) + j \in 1 .. Len(Whole(d))
         /\ Whole(d)[(11 + i * 6) + j] = Digits(d, d.segments[i + 1][SegmentOrder(d.class)[j]])
<1> DEFINE m == BlobAt(d)
           q == SectionsAt(d)
           n == Len(Whole(d))
           k == (11 + i * 6) + j
<1>1. /\ i \in Nat /\ j \in 1 .. 6 /\ m \in Nat /\ q \in Nat /\ q >= m /\ n \in Nat /\ n >= q
      /\ k \in 12 .. m /\ k - 11 = 6 * i + j
  <2>1. Len(d.segments) \in Nat /\ Len(d.sections) \in Nat /\ m = 11 + 6 * Len(d.segments)
        /\ q \in Nat /\ q >= m /\ n = q + 6 * Len(d.sections)
    BY SizesOfFile
  <2>2. i \in 0 .. Len(d.segments) - 1 /\ j \in 1 .. 6
    OBVIOUS
  <2> HIDE DEF m, q, n
  <2> QED BY ONLY <2>1, <2>2
<1>2. \A x \in 1 .. n : Whole(d)[x] = CellAt(d, x)
  BY SizesOfFile, Zenon DEF Whole
<1> HIDE DEF m, q, n, k
<1>3. k \in 1 .. n /\ k \notin 1 .. 3 /\ k \notin 4 .. 11 /\ k \notin m + 1 .. q /\ ~ (k > q)
  BY ONLY <1>1
<1>4. Whole(d)[k] = HeaderCell(d, SegmentOrder(d.class), d.segments, k - 11)
  BY <1>1, <1>2, <1>3, Zenon DEF CellAt, m, q
<1>5. HeaderCell(d, SegmentOrder(d.class), d.segments, k - 11)
        = Digits(d, d.segments[i + 1][SegmentOrder(d.class)[j]])
  <2>1. ((k - 11) - 1) \div 6 = i /\ ((k - 11) - 1) % 6 = j - 1 /\ (j - 1) + 1 = j
    BY ONLY <1>1, Sixths
  <2> QED BY ONLY <2>1, Zenon DEF HeaderCell
<1> QED BY <1>3, <1>4, <1>5, Zenon DEF k, n

\* Those of the sections are behind the blob.
LEMMA FileSection ==
  ASSUME NEW d, Describes(d), NEW i \in 0 .. Len(d.sections) - 1, NEW j \in 1 .. 6
  PROVE  /\ (SectionsAt(d) + i * 6) + j \in 1 .. Len(Whole(d))
         /\ Whole(d)[(SectionsAt(d) + i * 6) + j] = Digits(d, d.sections[i + 1][SectionOrder[j]])
<1> DEFINE m == BlobAt(d)
           q == SectionsAt(d)
           n == Len(Whole(d))
           k == (q + i * 6) + j
<1>1. /\ i \in Nat /\ j \in 1 .. 6 /\ m \in Nat /\ q \in Nat /\ q >= m /\ m >= 11 /\ n \in Nat
      /\ k \in q + 1 .. n /\ k - q = 6 * i + j
  <2>1. Len(d.segments) \in Nat /\ Len(d.sections) \in Nat /\ m = 11 + 6 * Len(d.segments)
        /\ q \in Nat /\ q >= m /\ n = q + 6 * Len(d.sections)
    BY SizesOfFile
  <2>2. i \in 0 .. Len(d.sections) - 1 /\ j \in 1 .. 6
    OBVIOUS
  <2> HIDE DEF m, q, n
  <2> QED BY ONLY <2>1, <2>2
<1>2. \A x \in 1 .. n : Whole(d)[x] = CellAt(d, x)
  BY SizesOfFile, Zenon DEF Whole
<1> HIDE DEF m, q, n, k
<1>3. k \in 1 .. n /\ k \notin 1 .. 3 /\ k \notin 4 .. 11 /\ k \notin 12 .. m /\ k \notin m + 1 .. q
      /\ k > q
  BY ONLY <1>1
<1>4. Whole(d)[k] = HeaderCell(d, SectionOrder, d.sections, k - q)
  BY <1>1, <1>2, <1>3, Zenon DEF CellAt, m, q
<1>5. HeaderCell(d, SectionOrder, d.sections, k - q)
        = Digits(d, d.sections[i + 1][SectionOrder[j]])
  <2>1. ((k - q) - 1) \div 6 = i /\ ((k - q) - 1) % 6 = j - 1 /\ (j - 1) + 1 = j
    BY ONLY <1>1, Sixths
  <2> QED BY ONLY <2>1, Zenon DEF HeaderCell
<1> QED BY <1>3, <1>4, <1>5, Zenon DEF k, n, q

\* What the reader has open when it has opened a file.
LEMMA FileOpen ==
  ASSUME NEW d, Describes(d)
  PROVE  /\ Len(Written(d)) = d.size
         /\ \A k \in 1 .. d.size : Written(d)[k] = Whole(d)[k]
<1>1. d.size \in Nat /\ Written(d) = SubSeq(Whole(d), 1, d.size)
  BY SizesOfFile DEF Written
<1>2. Written(d) = [k \in 1 .. d.size |-> Whole(d)[k]]
  <2>1. SubSeq(Whole(d), 1, d.size) = [k \in 1 .. (1 + d.size - 1) |-> Whole(d)[k + 1 - 1]]
    BY <1>1
  <2> QED BY <1>1, <2>1
<1> QED BY <1>1, <1>2

-----------------------------------------------------------------------------
(* One read: a header, a field, data and names, from what is there.        *)

\* When a stream is lost, and how much it delivers.
LEMMA LostWhen ==
  ASSUME bytes \in Seq(Nat), NEW lost \in BOOLEAN, NEW q \in Nat, NEW n \in Nat
  PROVE  /\ LostAt(lost, q, n) <=> n > 0 /\ (lost \/ q + n > Len(bytes))
         /\ ~ LostAt(lost, q, n) => Available(lost, q, n) = n
         /\ lost => Available(lost, q, n) = 0
<1>1. Len(bytes) \in Nat
  OBVIOUS
<1>2. Min({n, Len(bytes) - q}) = IF n <= Len(bytes) - q THEN n ELSE Len(bytes) - q
  BY <1>1, MinMax
<1> DEFINE m == Min({n, Len(bytes) - q})
<1>3. m \in Int /\ 0 \in Int
  BY <1>1, <1>2
<1>4. Max({0, m}) = IF 0 <= m THEN m ELSE 0
  <2> HIDE DEF m
  <2> QED BY <1>3, MinMax
<1>5. Available(lost, q, n) = IF lost THEN 0 ELSE Max({0, m})
  BY Zenon DEF Available
<1> DEFINE a == Available(lost, q, n)
           b == Len(bytes)
<1>6. LostAt(lost, q, n) <=> a < n
  BY Zenon DEF LostAt
<1>7. m = IF n <= b - q THEN n ELSE b - q
  BY <1>2
<1>8. a = IF lost THEN 0 ELSE IF 0 <= m THEN m ELSE 0
  BY <1>4, <1>5
<1>9. b \in Nat
  BY <1>1
<1> HIDE DEF m, a, b
<1> QED BY <1>3, <1>6, <1>7, <1>8, <1>9 DEF a, b

\* A field of a header that is there.
LEMMA StructureFull ==
  ASSUME bytes \in Seq(Nat), NEW lost \in BOOLEAN, NEW q \in Nat, NEW fields, NEW len \in Nat,
         NamesOK(fields, len), NEW encoding, NEW old,
         ~ LostAt(lost, q, Len(fields))
  PROVE  \A k \in 1 .. len :
           fields[k] \in DOMAIN old =>
             Structure(lost, q, fields, encoding, old)[fields[k]]
               = IF fields[k] \in ToSet(IdentFields) THEN bytes[q + k]
                 ELSE Convert(encoding, bytes[q + k])
<1> SUFFICES ASSUME NEW k \in 1 .. len, fields[k] \in DOMAIN old
             PROVE  Structure(lost, q, fields, encoding, old)[fields[k]]
                      = IF fields[k] \in ToSet(IdentFields) THEN bytes[q + k]
                        ELSE Convert(encoding, bytes[q + k])
  OBVIOUS
<1>1. Len(fields) = len /\ DOMAIN fields = 1 .. len
      /\ \A i, j \in 1 .. len : fields[i] = fields[j] => i = j
  BY DEF NamesOK
<1>2. Available(lost, q, len) = len
  BY <1>1, LostWhen
<1> DEFINE c == CHOOSE i \in DOMAIN fields : fields[i] = fields[k]
<1>3. c \in 1 .. len /\ fields[c] = fields[k]
  BY <1>1
<1>4. c = k
  BY <1>1, <1>3
<1>5. \E j \in 1 .. Available(lost, q, Len(fields)) : fields[j] = fields[k]
  BY <1>1, <1>2
<1>6. Structure(lost, q, fields, encoding, old)[fields[k]]
        = IF fields[k] \in ToSet(IdentFields) THEN bytes[q + c] ELSE Convert(encoding, bytes[q + c])
  BY <1>5, Zenon DEF Structure
<1> HIDE DEF c
<1> QED BY <1>4, <1>6

\* A field that has been written is read as it was.
LEMMA FieldRead ==
  ASSUME NEW d, Describes(d), bytes \in Seq(Nat), bytes = Written(d), fail \in BOOLEAN,
         NEW q \in Nat, NEW fields, NEW len \in Nat, NamesOK(fields, len),
         ~ LostAt(fail, q, Len(fields)), NEW old
  PROVE  \A j \in 1 .. len :
           /\ bytes[q + j] = Whole(d)[q + j]
           /\ fields[j] \in DOMAIN old /\ fields[j] \notin ToSet(IdentFields) =>
                \A x \in Field :
                  Whole(d)[q + j] = Digits(d, x) =>
                    Structure(fail, q, fields, d.encoding, old)[fields[j]] = x
<1> SUFFICES ASSUME NEW j \in 1 .. len
             PROVE  /\ bytes[q + j] = Whole(d)[q + j]
                    /\ fields[j] \in DOMAIN old /\ fields[j] \notin ToSet(IdentFields) =>
                         \A x \in Field :
                           Whole(d)[q + j] = Digits(d, x) =>
                             Structure(fail, q, fields, d.encoding, old)[fields[j]] = x
  OBVIOUS
<1>1. q + j \in 1 .. d.size
  <2>1. Len(bytes) = d.size /\ d.size \in Nat
    BY FileOpen, SizesOfFile
  <2>2. ~ LostAt(fail, q, len)
    BY Zenon DEF NamesOK
  <2> QED BY <2>1, <2>2, LostWhen
<1>2. bytes[q + j] = Whole(d)[q + j]
  BY <1>1, FileOpen, Zenon
<1> SUFFICES ASSUME NEW x \in Field, Whole(d)[q + j] = Digits(d, x),
                    fields[j] \in DOMAIN old, fields[j] \notin ToSet(IdentFields)
             PROVE  Structure(fail, q, fields, d.encoding, old)[fields[j]] = x
  BY <1>2
<1>3. Structure(fail, q, fields, d.encoding, old)[fields[j]] = Convert(d.encoding, bytes[q + j])
  BY StructureFull
<1>4. x \in Nat
  BY DEF Field
<1> QED BY <1>2, <1>3, <1>4, DigitsOK

\* What a reader that gets all of a header of a segment makes of it.
SegmentAs(sg, s) ==
  /\ sg.type = s.type /\ sg.flags = s.flags /\ sg.offset = s.offset
  /\ sg.virtual_address = s.vaddr /\ sg.file_size = s.filesz /\ sg.memory_size = s.memsz
SectionAs(sec, s) ==
  /\ sec.name_string_offset = s.name /\ sec.type = s.type /\ sec.flags = s.flags
  /\ sec.address = s.addr /\ sec.offset = s.offset /\ sec.size = s.size

\* A segment header that is there is read as the linker wrote it, in either class.
LEMMA SegmentFull ==
  ASSUME NEW d, Describes(d), bytes \in Seq(Nat), bytes = Written(d), fail \in BOOLEAN,
         d.class \in {1, 2},
         NEW i \in 0 .. Len(d.segments) - 1, ~ LostAt(fail, 11 + i * 6, 6)
  PROVE  SegmentAs(Structure(fail, 11 + i * 6, SegmentFields(d.class), d.encoding, NewSegment),
                   d.segments[i + 1])
<1> DEFINE q == 11 + i * 6
           s == d.segments[i + 1]
           fields == SegmentFields(d.class)
           order == SegmentOrder(d.class)
           sg == Structure(fail, q, fields, d.encoding, NewSegment)
<1>1. q \in Nat /\ i + 1 \in 1 .. Len(d.segments) /\ Len(d.segments) \in Nat
  <2>1. Len(d.segments) \in Nat
    BY SizesOfFile
  <2>2. PICK n : n = Len(d.segments)
    OBVIOUS
  <2> QED BY ONLY <2>1, <2>2, i \in 0 .. Len(d.segments) - 1
<1>2. s \in SegmentHeaders
  <2>1. d.segments \in Seq(SegmentHeaders)
    BY Zenon DEF Describes
  <2> QED BY <1>1, <2>1
<1>3. NamesOK(fields, 6) /\ Len(fields) = 6
  <2>1. NamesOK(fields, 6)
    BY FieldsOK
  <2> QED BY <2>1, Zenon DEF NamesOK
<1>4. \A j \in 1 .. 6 : fields[j] \in DOMAIN NewSegment /\ fields[j] \notin ToSet(IdentFields)
  <2>1. DOMAIN NewSegment = SegmentNames
    BY FieldsOK DEF NewSegment
  <2>2. ToSet(IdentFields) = {"magic", "class", "encoding"}
    BY DEF ToSet, IdentFields
  <2>3. \A j \in 1 .. 6 : fields[j] \in {"type", "flags", "offset", "virtual_address", "file_size", "memory_size"}
    BY DEF SegmentFields, ELFCLASS64
  <2> HIDE DEF fields
  <2> QED BY <2>1, <2>2, <2>3 DEF SegmentNames
<1>5. \A j \in 1 .. 6 : s[order[j]] \in Field
  <2>1. \A j \in 1 .. 6 : order[j] \in {"type", "flags", "offset", "vaddr", "filesz", "memsz"}
    BY DEF SegmentOrder
  <2> HIDE DEF order, s
  <2> QED BY <1>2, <2>1 DEF SegmentHeaders
<1>6. ASSUME NEW j \in 1 .. 6 PROVE sg[fields[j]] = s[order[j]]
  <2>1. Whole(d)[q + j] = Digits(d, s[order[j]])
    BY FileSegment, Zenon
  <2>2. NamesOK(fields, 6) /\ ~ LostAt(fail, q, Len(fields))
    BY <1>3
  <2> HIDE DEF q, fields, s
  <2>3. \A k \in 1 .. 6 :
          fields[k] \in DOMAIN NewSegment /\ fields[k] \notin ToSet(IdentFields) =>
            \A x \in Field :
              Whole(d)[q + k] = Digits(d, x) =>
                Structure(fail, q, fields, d.encoding, NewSegment)[fields[k]] = x
    BY <1>1, <2>2, FieldRead
  <2> QED BY <1>4, <1>5, <2>1, <2>3, Zenon
<1>7. 1 \in 1 .. 6 /\ 2 \in 1 .. 6 /\ 3 \in 1 .. 6 /\ 4 \in 1 .. 6 /\ 5 \in 1 .. 6 /\ 6 \in 1 .. 6
  OBVIOUS
<1> HIDE DEF sg, s
<1>8. CASE d.class = 1
  <2>1. /\ fields = <<"type", "offset", "virtual_address", "file_size", "memory_size", "flags">>
        /\ order = <<"type", "offset", "vaddr", "filesz", "memsz", "flags">>
    BY <1>8 DEF SegmentFields, SegmentOrder, ELFCLASS64
  <2>2. /\ fields[1] = "type" /\ fields[2] = "offset" /\ fields[3] = "virtual_address"
        /\ fields[4] = "file_size" /\ fields[5] = "memory_size" /\ fields[6] = "flags"
        /\ order[1] = "type" /\ order[2] = "offset" /\ order[3] = "vaddr"
        /\ order[4] = "filesz" /\ order[5] = "memsz" /\ order[6] = "flags"
    BY <2>1
  <2> HIDE DEF fields, order
  <2>3. SegmentAs(sg, s)
    BY <1>6, <1>7, <2>2, Zenon DEF SegmentAs
  <2> QED BY <2>3 DEF sg, s, fields
<1>9. CASE d.class = 2
  <2>1. /\ fields = <<"type", "flags", "offset", "virtual_address", "file_size", "memory_size">>
        /\ order = <<"type", "flags", "offset", "vaddr", "filesz", "memsz">>
    BY <1>9 DEF SegmentFields, SegmentOrder, ELFCLASS64
  <2>2. /\ fields[1] = "type" /\ fields[2] = "flags" /\ fields[3] = "offset"
        /\ fields[4] = "virtual_address" /\ fields[5] = "file_size" /\ fields[6] = "memory_size"
        /\ order[1] = "type" /\ order[2] = "flags" /\ order[3] = "offset"
        /\ order[4] = "vaddr" /\ order[5] = "filesz" /\ order[6] = "memsz"
    BY <2>1
  <2> HIDE DEF fields, order
  <2>3. SegmentAs(sg, s)
    BY <1>6, <1>7, <2>2, Zenon DEF SegmentAs
  <2> QED BY <2>3 DEF sg, s, fields
<1> QED BY <1>8, <1>9

\* So is a section header,
LEMMA SectionFull ==
  ASSUME NEW d, Describes(d), bytes \in Seq(Nat), bytes = Written(d), fail \in BOOLEAN,
         NEW i \in 0 .. Len(d.sections) - 1, ~ LostAt(fail, SectionsAt(d) + i * 6, 6)
  PROVE  SectionAs(Structure(fail, SectionsAt(d) + i * 6, SectionFields, d.encoding, NewSection),
                   d.sections[i + 1])
<1> DEFINE q == SectionsAt(d) + i * 6
           s == d.sections[i + 1]
           sec == Structure(fail, q, SectionFields, d.encoding, NewSection)
<1>1. q \in Nat /\ i + 1 \in 1 .. Len(d.sections) /\ Len(d.sections) \in Nat
  BY SizesOfFile
<1>2. s \in SectionHeaders
  <2>1. d.sections \in Seq(SectionHeaders)
    BY Zenon DEF Describes
  <2> QED BY <1>1, <2>1
<1>3. NamesOK(SectionFields, 6) /\ Len(SectionFields) = 6
  <2>1. NamesOK(SectionFields, 6)
    BY FieldsOK
  <2> QED BY <2>1, Zenon DEF NamesOK
<1>4. \A j \in 1 .. 6 : SectionFields[j] \in DOMAIN NewSection /\ SectionFields[j] \notin ToSet(IdentFields)
  <2>1. DOMAIN NewSection = SectionNames
    BY FieldsOK DEF NewSection
  <2>2. ToSet(IdentFields) = {"magic", "class", "encoding"}
    BY DEF ToSet, IdentFields
  <2>3. \A j \in 1 .. 6 :
          SectionFields[j] \in {"name_string_offset", "type", "flags", "address", "offset", "size"}
    BY DEF SectionFields
  <2> QED BY <2>1, <2>2, <2>3 DEF SectionNames
<1>5. \A j \in 1 .. 6 : s[SectionOrder[j]] \in Field
  <2>1. \A j \in 1 .. 6 : SectionOrder[j] \in {"name", "type", "flags", "addr", "offset", "size"}
    BY DEF SectionOrder
  <2> HIDE DEF s
  <2> QED BY <1>2, <2>1 DEF SectionHeaders
<1>6. ASSUME NEW j \in 1 .. 6 PROVE sec[SectionFields[j]] = s[SectionOrder[j]]
  <2>1. Whole(d)[q + j] = Digits(d, s[SectionOrder[j]])
    BY FileSection, Zenon
  <2>2. NamesOK(SectionFields, 6) /\ ~ LostAt(fail, q, Len(SectionFields))
    BY <1>3
  <2> HIDE DEF q, s
  <2>3. \A k \in 1 .. 6 :
          SectionFields[k] \in DOMAIN NewSection /\ SectionFields[k] \notin ToSet(IdentFields) =>
            \A x \in Field :
              Whole(d)[q + k] = Digits(d, x) =>
                Structure(fail, q, SectionFields, d.encoding, NewSection)[SectionFields[k]] = x
    BY <1>1, <2>2, FieldRead
  <2> QED BY <1>4, <1>5, <2>1, <2>3, Zenon
<1>7. 1 \in 1 .. 6 /\ 2 \in 1 .. 6 /\ 3 \in 1 .. 6 /\ 4 \in 1 .. 6 /\ 5 \in 1 .. 6 /\ 6 \in 1 .. 6
  OBVIOUS
<1> HIDE DEF sec, s
<1>8. /\ SectionFields[1] = "name_string_offset" /\ SectionFields[2] = "type"
      /\ SectionFields[3] = "flags" /\ SectionFields[4] = "address"
      /\ SectionFields[5] = "offset" /\ SectionFields[6] = "size"
      /\ SectionOrder[1] = "name" /\ SectionOrder[2] = "type" /\ SectionOrder[3] = "flags"
      /\ SectionOrder[4] = "addr" /\ SectionOrder[5] = "offset" /\ SectionOrder[6] = "size"
  BY DEF SectionFields, SectionOrder
<1>9. SectionAs(sec, s)
  BY <1>6, <1>7, <1>8, Zenon DEF SectionAs
<1> QED BY <1>9 DEF sec, s

\* The ELF header, once it is read.
HeaderAs(h, d) ==
  /\ h.class = d.class /\ h.encoding = d.encoding /\ h.entry = d.entry
  /\ h.segments_offset = 11 /\ h.segment_entry_size = 6 /\ h.segments_num = Len(d.segments)
  /\ h.sections_offset = SectionsAt(d) /\ h.section_entry_size = 6 /\ h.sections_num = Len(d.sections)
  /\ h.section_name_str_index = d.names

\* and the header of the file.
LEMMA HeaderFull ==
  ASSUME NEW d, Describes(d), bytes \in Seq(Nat), bytes = Written(d), fail \in BOOLEAN,
         ~ LostAt(fail, 0, 11), NEW old, DOMAIN old = HeaderNames
  PROVE  HeaderAs(Structure(fail, 0, HeaderFields, d.encoding, old), d)
<1> DEFINE h == Structure(fail, 0, HeaderFields, d.encoding, old)
           x == <<d.entry, 11, SectionsAt(d), 6, Len(d.segments), 6, Len(d.sections), d.names>>
<1>1. NamesOK(HeaderFields, 11) /\ Len(HeaderFields) = 11
  <2>1. NamesOK(HeaderFields, 11)
    BY FieldsOK
  <2> QED BY <2>1, Zenon DEF NamesOK
<1>2. \A k \in 1 .. 8 : x[k] \in Field
  <2>1. d.entry \in Field /\ d.names \in Field
    BY Zenon DEF Describes
  <2>2. Len(Whole(d)) \in Field
    BY SizesOfFile
  <2> DEFINE m == Len(d.segments)
             n == Len(d.sections)
             q == SectionsAt(d)
             l == Len(Whole(d))
  <2>3. m \in Nat /\ n \in Nat /\ q \in Nat /\ q >= 11 + 6 * m /\ l = q + 6 * n /\ l \in Nat
    BY SizesOfFile
  <2> HIDE DEF m, n, q, l
  <2>4. \A y \in Nat : y <= l => y \in Field
    <3>1. l \in Field
      BY <2>2 DEF l
    <3>2. PICK top \in Int : Field = 0 .. top
      BY StartupAssumption DEF Field
    <3> QED BY ONLY <2>3, <3>1, <3>2
  <2>5. 11 <= l /\ 6 <= l /\ q <= l /\ m <= l /\ n <= l
    BY ONLY <2>3
  <2>6. 11 \in Field /\ 6 \in Field /\ q \in Field /\ m \in Field /\ n \in Field
    BY <2>3, <2>4, <2>5
  <2>7. x = <<d.entry, 11, q, 6, m, 6, n, d.names>>
    BY Zenon DEF q, m, n
  <2> HIDE DEF x
  <2> QED BY <2>1, <2>6, <2>7
<1>3. \A k \in 1 .. 8 : Whole(d)[0 + (3 + k)] = Digits(d, x[k])
  <2>1. \A k \in 1 .. 8 : Whole(d)[3 + k] = Digits(d, x[k])
    BY FileHeader, Zenon
  <2>2. \A k \in 1 .. 8 : 0 + (3 + k) = 3 + k
    OBVIOUS
  <2> QED BY <2>1, <2>2, Zenon
<1>4. ToSet(IdentFields) = {"magic", "class", "encoding"}
  BY DEF ToSet, IdentFields
<1>5. \A k \in 1 .. 11 :
        /\ bytes[0 + k] = Whole(d)[0 + k]
        /\ HeaderFields[k] \in DOMAIN old /\ HeaderFields[k] \notin ToSet(IdentFields) =>
             \A y \in Field : Whole(d)[0 + k] = Digits(d, y) => h[HeaderFields[k]] = y
  <2>1. NamesOK(HeaderFields, 11) /\ ~ LostAt(fail, 0, Len(HeaderFields)) /\ 0 \in Nat /\ 11 \in Nat
    BY <1>1
  <2> QED BY <2>1, FieldRead
<1>6. /\ HeaderFields[1] = "magic" /\ HeaderFields[2] = "class" /\ HeaderFields[3] = "encoding"
      /\ HeaderFields[4] = "entry" /\ HeaderFields[5] = "segments_offset"
      /\ HeaderFields[6] = "sections_offset" /\ HeaderFields[7] = "segment_entry_size"
      /\ HeaderFields[8] = "segments_num" /\ HeaderFields[9] = "section_entry_size"
      /\ HeaderFields[10] = "sections_num" /\ HeaderFields[11] = "section_name_str_index"
  BY DEF HeaderFields
<1>7. \A k \in 1 .. 8 : 3 + k \in 1 .. 11
  OBVIOUS
<1>8. \A k \in 1 .. 8 :
        HeaderFields[3 + k] \in DOMAIN old /\ HeaderFields[3 + k] \notin ToSet(IdentFields) =>
          h[HeaderFields[3 + k]] = x[k]
  <2> HIDE DEF x, h
  <2> QED BY <1>2, <1>3, <1>5, <1>7, Zenon
<1>9. /\ h.entry = x[1] /\ h.segments_offset = x[2] /\ h.sections_offset = x[3]
      /\ h.segment_entry_size = x[4] /\ h.segments_num = x[5] /\ h.section_entry_size = x[6]
      /\ h.sections_num = x[7] /\ h.section_name_str_index = x[8]
  <2>1. \A k \in 1 .. 8 : HeaderFields[3 + k] \in HeaderNames \ {"magic", "class", "encoding"}
    BY DEF HeaderFields, HeaderNames
  <2>2. \A k \in 1 .. 8 : h[HeaderFields[3 + k]] = x[k]
    <3> HIDE DEF x, h
    <3> QED BY <1>4, <1>8, <2>1
  <2>3. /\ HeaderFields[3 + 1] = "entry" /\ HeaderFields[3 + 2] = "segments_offset"
        /\ HeaderFields[3 + 3] = "sections_offset" /\ HeaderFields[3 + 4] = "segment_entry_size"
        /\ HeaderFields[3 + 5] = "segments_num" /\ HeaderFields[3 + 6] = "section_entry_size"
        /\ HeaderFields[3 + 7] = "sections_num" /\ HeaderFields[3 + 8] = "section_name_str_index"
    BY <1>6
  <2>4. \A k \in {1, 2, 3, 4, 5, 6, 7, 8} : k \in 1 .. 8
    OBVIOUS
  <2> HIDE DEF x, h
  <2> QED BY <2>2, <2>3, <2>4, Zenon
<1>10. h.class = d.class /\ h.encoding = d.encoding
  <2>1. /\ NamesOK(HeaderFields, 11) /\ ~ LostAt(fail, 0, Len(HeaderFields)) /\ 0 \in Nat /\ 11 \in Nat
        /\ bytes \in Seq(Nat) /\ fail \in BOOLEAN
    BY <1>1
  <2>2. \A k \in 1 .. 11 :
          HeaderFields[k] \in DOMAIN old =>
            h[HeaderFields[k]] = IF HeaderFields[k] \in ToSet(IdentFields) THEN bytes[0 + k]
                                 ELSE Convert(d.encoding, bytes[0 + k])
    BY ONLY <2>1, StructureFull
  <2>3. /\ "class" \in DOMAIN old /\ "encoding" \in DOMAIN old
        /\ "class" \in ToSet(IdentFields) /\ "encoding" \in ToSet(IdentFields)
    BY <1>4 DEF HeaderNames
  <2>4. 2 \in 1 .. 11 /\ 3 \in 1 .. 11 /\ 0 + 2 = 2 /\ 0 + 3 = 3
    OBVIOUS
  <2>5. Whole(d)[2] = d.class /\ Whole(d)[3] = d.encoding
    BY FileHeader
  <2> HIDE DEF h
  <2>6. h.class = bytes[0 + 2] /\ h.encoding = bytes[0 + 3]
    BY <1>6, <2>2, <2>3, <2>4, Zenon
  <2> QED BY <1>5, <2>4, <2>5, <2>6, Zenon
<1>11. /\ x[1] = d.entry /\ x[2] = 11 /\ x[3] = SectionsAt(d) /\ x[4] = 6
       /\ x[5] = Len(d.segments) /\ x[6] = 6 /\ x[7] = Len(d.sections) /\ x[8] = d.names
  OBVIOUS
<1> HIDE DEF x, h
<1>12. HeaderAs(h, d)
  BY <1>9, <1>10, <1>11, Zenon DEF HeaderAs
<1> QED BY <1>12 DEF h

\* Bytes of a file, as far as a stream delivers them.
Cells(d, q, n) == [k \in 1 .. n |-> Whole(d)[q + k]]

\* Data is what the file has at its place, or was never read.
LEMMA DataRead ==
  ASSUME NEW d, Describes(d), bytes \in Seq(Nat), bytes = Written(d), NEW lost \in BOOLEAN,
         NEW q \in Nat, NEW n \in Nat
  PROVE  /\ \A k \in 1 .. n : \/ Data(lost, q, n)[k] = JUNK
                              \/ /\ ~ lost /\ q + k <= d.size
                                 /\ Data(lost, q, n)[k] = Whole(d)[q + k]
         /\ ~ lost /\ q + n <= d.size => /\ ~ LostAt(lost, q, n)
                                         /\ Data(lost, q, n) = Cells(d, q, n)
<1>1. Len(bytes) = d.size /\ d.size \in Nat /\ \A k \in 1 .. d.size : bytes[k] = Whole(d)[k]
  BY FileOpen, SizesOfFile, Zenon
<1>2. Data(lost, q, n) = [k \in 1 .. n |-> IF k <= Available(lost, q, n) THEN bytes[q + k] ELSE JUNK]
  BY Zenon DEF Data
<1>3. /\ Available(lost, q, n) \in 0 .. n
      /\ \A k \in 1 .. Available(lost, q, n) : q + k \in 1 .. Len(bytes)
  BY AvailableOK
<1>4. lost => Available(lost, q, n) = 0
  BY LostWhen
<1> DEFINE a == Available(lost, q, n)
<1>5. ASSUME NEW k \in 1 .. n, k <= a
      PROVE  ~ lost /\ q + k <= d.size /\ Data(lost, q, n)[k] = Whole(d)[q + k]
  <2>1. k \in 1 .. a
    BY <1>3, <1>5
  <2>2. q + k \in 1 .. d.size
    BY <1>1, <1>3, <2>1
  <2>3. Data(lost, q, n)[k] = bytes[q + k]
    BY <1>2, <1>5, Zenon
  <2>4. ~ lost
    BY <1>4, <2>1
  <2> QED BY <1>1, <2>2, <2>3, <2>4
<1>6. ASSUME NEW k \in 1 .. n, ~ (k <= a) PROVE Data(lost, q, n)[k] = JUNK
  BY <1>2, <1>6, Zenon
<1>7. ASSUME ~ lost, q + n <= d.size
      PROVE  ~ LostAt(lost, q, n) /\ Data(lost, q, n) = Cells(d, q, n)
  <2>1. ~ LostAt(lost, q, n)
    BY <1>1, <1>7, LostWhen
  <2>2. a = n
    BY <2>1, LostWhen
  <2>3. \A k \in 1 .. n : k <= a
    BY <2>2
  <2> HIDE DEF a
  <2>4. \A k \in 1 .. n : Data(lost, q, n)[k] = Whole(d)[q + k]
    BY <1>5, <2>3
  <2>5. Data(lost, q, n) = [k \in 1 .. n |-> Data(lost, q, n)[k]]
    BY <1>2
  <2> QED BY <2>1, <2>4, <2>5, Zenon DEF Cells
<1> QED BY <1>5, <1>6, <1>7

\* A section as it is read from an intact file.
SectionRead(sec, s, d) ==
  /\ SectionAs(sec, s)
  /\ sec.data = IF s.type \in {0, 8} THEN NULL ELSE Cells(d, s.offset, s.size)

\* Loading a section of an intact file gives the section the linker wrote.
LEMMA LoadSectionAs ==
  ASSUME NEW d, Describes(d), Intact(d), bytes \in Seq(Nat), bytes = Written(d), fail = FALSE,
         HeaderAs(header, d), NEW i \in 0 .. Len(d.sections) - 1, LoadSection(i)
  PROVE  /\ fail' = FALSE
         /\ \E new : /\ sections' = Append(sections, new)
                     /\ SectionRead(new, d.sections[i + 1], d) /\ new.name = <<>>
<1> DEFINE q    == header.sections_offset + i * header.section_entry_size
           s    == d.sections[i + 1]
           sec  == Structure(fail, q, SectionFields, header.encoding, NewSection)
           lost == LostAt(fail, q, Len(SectionFields))
           has  == sec.type \notin {SHT_NULL, SHT_NOBITS} /\ Smaller(sec.size)
           data == IF has THEN Data(lost, sec.offset, sec.size) ELSE NULL
           new  == [sec EXCEPT !.index = i, !.data = data]
<1>1. /\ sections' = Append(sections, new)
      /\ fail' = IF has /\ sec.size # 0 THEN LostAt(lost, sec.offset, sec.size) ELSE lost
  BY Zenon DEF LoadSection
<1>2. i + 1 \in DOMAIN d.sections /\ SectionsAt(d) + i * 6 \in Nat
  <2>1. /\ i \in 0 .. Len(d.sections) - 1 /\ Len(d.sections) \in Nat /\ SectionsAt(d) \in Nat
        /\ DOMAIN d.sections = 1 .. Len(d.sections)
    BY SizesOfFile
  <2> QED BY ONLY <2>1
<1>3. fail \in BOOLEAN
  OBVIOUS
<1>4. q = SectionsAt(d) + i * 6 /\ header.encoding = d.encoding /\ Len(SectionFields) = 6
  BY FieldsOK, Zenon DEF HeaderAs, NamesOK
<1>5. LostAt(fail, SectionsAt(d) + i * 6, 6) = FALSE
  <2> PICK x : x = SectionsAt(d) + i * 6
    OBVIOUS
  <2>1. x + 6 <= Len(bytes) /\ x \in Nat /\ 6 \in Nat /\ Len(bytes) \in Nat
    <3> DEFINE n == Len(d.sections)
               e == SectionsAt(d)
               l == Len(bytes)
    <3>1. l = e + 6 * n /\ e \in Nat /\ n \in Nat /\ l \in Nat
      BY SizesOfFile, FileOpen DEF Intact
    <3>2. i \in 0 .. n - 1 /\ x = e + i * 6
      OBVIOUS
    <3> HIDE DEF n, e, l
    <3>3. x + 6 <= l /\ x \in Nat
      BY ONLY <3>1, <3>2
    <3> QED BY <3>1, <3>3 DEF l
  <2>2. LostAt(fail, x, 6) <=> 6 > 0 /\ (fail \/ x + 6 > Len(bytes))
    BY <1>3, <2>1, LostWhen
  <2>3. ~ LostAt(fail, x, 6) /\ LostAt(fail, x, 6) \in BOOLEAN
    BY <2>1, <2>2, LostOK
  <2> QED BY <2>3
<1>6. lost = FALSE
  BY <1>4, <1>5, Zenon
<1>7. SectionAs(sec, s)
  <2>1. SectionAs(Structure(fail, SectionsAt(d) + i * 6, SectionFields, d.encoding, NewSection), s)
    BY <1>3, <1>5, SectionFull, Zenon
  <2> QED BY <1>4, <2>1, Zenon
<1>8. sec.type = s.type /\ sec.offset = s.offset /\ sec.size = s.size
  BY <1>7, Zenon DEF SectionAs
<1>9. s.offset \in Nat /\ s.size \in Nat
  <2>1. d.sections \in Seq(SectionHeaders)
    BY Zenon DEF Describes
  <2>2. s \in SectionHeaders
    BY <1>2, <2>1
  <2> HIDE DEF s
  <2> QED BY <2>2 DEF SectionHeaders, Field
<1>10. has <=> s.type \notin {0, 8}
  <2>1. s.type \notin {0, 8} => s.size < d.size
    BY <1>2, Zenon DEF Intact
  <2>2. Len(bytes) = d.size
    BY FileOpen
  <2> HIDE DEF sec
  <2> QED BY <1>8, <2>1, <2>2 DEF Smaller, SHT_NULL, SHT_NOBITS
<1>11. s.type \notin {0, 8} =>
         Data(lost, sec.offset, sec.size) = Cells(d, s.offset, s.size) /\ ~ LostAt(lost, s.offset, s.size)
  <2>1. s.type \notin {0, 8} => s.offset + s.size <= d.size
    BY <1>2, Zenon DEF Intact
  <2>2. FALSE \in BOOLEAN
    OBVIOUS
  <2>3. s.type \notin {0, 8} =>
          Data(FALSE, s.offset, s.size) = Cells(d, s.offset, s.size) /\ ~ LostAt(FALSE, s.offset, s.size)
    BY <1>9, <2>1, <2>2, DataRead
  <2> QED BY <1>6, <1>8, <2>3, Zenon
<1>12. DOMAIN sec = SectionNames
  BY FieldsOK DEF Structure, NewSection
<1>13. sec.name = <<>>
  <2>1. /\ "name" \in DOMAIN NewSection /\ NewSection.name = <<>>
    BY DEF NewSection, ToSet, SectionFields
  <2>2. \A k \in 1 .. Available(fail, q, Len(SectionFields)) : SectionFields[k] # "name"
    <3>1. Available(fail, q, Len(SectionFields)) = 6
      <4>1. Available(fail, SectionsAt(d) + i * 6, 6) = 6
        BY <1>2, <1>3, <1>5, LostWhen
      <4> QED BY <1>4, <4>1, Zenon
    <3>2. \A k \in 1 .. 6 : SectionFields[k] # "name"
      BY DEF SectionFields
    <3> QED BY <3>1, <3>2, Zenon
  <2> QED BY <2>1, <2>2, Zenon DEF Structure
<1> HIDE DEF sec, lost, has, s
<1>14. data = IF s.type \in {0, 8} THEN NULL ELSE Cells(d, s.offset, s.size)
  BY <1>10, <1>11, Zenon
<1> HIDE DEF data
<1>15. /\ new.name = <<>> /\ new.data = data /\ new.name_string_offset = sec.name_string_offset
       /\ new.type = sec.type /\ new.flags = sec.flags /\ new.address = sec.address
       /\ new.offset = sec.offset /\ new.size = sec.size
  BY <1>12, <1>13 DEF SectionNames
<1> HIDE DEF new
<1>16. SectionRead(new, s, d)
  BY <1>7, <1>14, <1>15, Zenon DEF SectionRead, SectionAs
<1>17. fail' = FALSE
  <2>1. LostAt(lost, s.offset, s.size) \in BOOLEAN
    BY LostOK
  <2>2. s.type \notin {0, 8} => LostAt(lost, s.offset, s.size) = FALSE
    BY <1>11, <2>1, Zenon
  <2> QED BY <1>1, <1>6, <1>8, <1>10, <2>2, Zenon
<1> QED BY <1>1, <1>15, <1>16, <1>17, Zenon DEF s

\* A segment as it is read from any file, and from an intact one.
SegmentRead(sg, s, d) ==
  /\ sg.data # NULL =>
       \A k \in 1 .. sg.file_size :
         \/ sg.data[k] = JUNK
         \/ SegmentAs(sg, s) /\ s.offset + k <= d.size /\ sg.data[k] = Whole(d)[s.offset + k]
  /\ Intact(d) =>
       /\ SegmentAs(sg, s)
       /\ sg.data = IF s.type = 0 \/ s.filesz = 0 THEN NULL ELSE Cells(d, s.offset, s.filesz)

\* Loading a segment gives the one the linker wrote, of any file as far as it is there.
LEMMA LoadSegmentAs ==
  ASSUME NEW d, Describes(d), IsElf(d), bytes \in Seq(Nat), bytes = Written(d), fail \in BOOLEAN,
         HeaderAs(header, d), Intact(d) => fail = FALSE,
         NEW i \in 0 .. Len(d.segments) - 1, LoadSegment(i)
  PROVE  /\ Intact(d) => fail' = FALSE
         /\ \E new : segments' = Append(segments, new) /\ SegmentRead(new, d.segments[i + 1], d)
<1> DEFINE q    == header.segments_offset + i * header.segment_entry_size
           r    == 11 + i * 6
           s    == d.segments[i + 1]
           fields == SegmentFields(header.class)
           sg   == Structure(fail, q, fields, header.encoding, NewSegment)
           lost == LostAt(fail, q, Len(fields))
           has  == sg.type # PT_NULL /\ sg.file_size # 0 /\ ~ Greater(sg.file_size)
           data == IF has THEN Data(lost, sg.offset, sg.file_size) ELSE NULL
           secs == SelectSeq([j \in DOMAIN sections |-> j - 1],
                             LAMBDA j : Within(sections[j + 1], sg))
           new  == [sg EXCEPT !.index = i, !.data = data, !.sections = secs]
<1>1. /\ segments' = Append(segments, new)
      /\ fail' = IF has THEN LostAt(lost, sg.offset, sg.file_size) ELSE lost
  BY Zenon DEF LoadSegment
<1>2. i + 1 \in DOMAIN d.segments /\ r \in Nat
  <2>1. /\ i \in 0 .. Len(d.segments) - 1 /\ Len(d.segments) \in Nat
        /\ DOMAIN d.segments = 1 .. Len(d.segments)
    BY SizesOfFile
  <2> QED BY ONLY <2>1
<1>3. d.class \in {1, 2}
  BY DEF IsElf
<1>4. /\ q = r /\ header.encoding = d.encoding /\ fields = SegmentFields(d.class)
      /\ Len(fields) = 6 /\ lost \in BOOLEAN /\ Len(SegmentFields(d.class)) = 6
  BY FieldsOK, LostOK, Zenon DEF HeaderAs, NamesOK
<1>5. lost <=> LostAt(fail, r, 6)
  BY <1>4, Zenon
<1>6. ~ lost => SegmentAs(sg, s)
  <2>1. ~ LostAt(fail, r, 6) => SegmentAs(Structure(fail, r, SegmentFields(d.class), d.encoding, NewSegment), s)
    BY <1>3, SegmentFull, Zenon
  <2> QED BY <1>4, <1>5, <2>1, Zenon
<1>7. /\ DOMAIN sg = SegmentNames
      /\ sg.virtual_address \in Nat /\ sg.file_size \in Nat /\ sg.memory_size \in Nat
      /\ sg.offset \in Nat
  <2> HIDE DEF q, sg
  <2>1. q \in Nat
    BY <1>2, <1>4
  <2> QED BY <2>1, SegmentReadOK DEF sg
<1>8. \A k \in 1 .. sg.file_size :
        \/ Data(lost, sg.offset, sg.file_size)[k] = JUNK
        \/ /\ ~ lost /\ sg.offset + k <= d.size
           /\ Data(lost, sg.offset, sg.file_size)[k] = Whole(d)[sg.offset + k]
  <2> HIDE DEF sg, lost
  <2>1. lost \in BOOLEAN
    BY <1>4
  <2> QED BY <1>7, <2>1, DataRead
<1>9. Intact(d) => lost = FALSE
  <2> SUFFICES ASSUME Intact(d) PROVE lost = FALSE
    OBVIOUS
  <2>1. r + 6 <= Len(bytes)
    <3>1. /\ d.size = SectionsAt(d) + 6 * Len(d.sections) /\ SectionsAt(d) \in Nat
          /\ Len(d.sections) \in Nat /\ Len(bytes) = d.size /\ Len(d.segments) \in Nat
          /\ SectionsAt(d) >= 11 + 6 * Len(d.segments) /\ i \in 0 .. Len(d.segments) - 1
      BY SizesOfFile, FileOpen DEF Intact
    <3> QED BY ONLY <3>1
  <2>2. fail = FALSE
    OBVIOUS
  <2>3. FALSE \in BOOLEAN /\ 6 \in Nat
    OBVIOUS
  <2> HIDE DEF r
  <2>4. fail \in BOOLEAN => ~ LostAt(fail, r, 6)
    BY <1>2, <2>1, <2>2, <2>3, LostWhen
  <2>5. ~ lost
    BY <1>5, <2>4, Zenon
  <2> QED BY <1>4, <2>5, Zenon
<1>10. Intact(d) => /\ has <=> s.type # 0 /\ s.filesz # 0
                    /\ has => /\ Data(lost, sg.offset, sg.file_size) = Cells(d, s.offset, s.filesz)
                              /\ LostAt(lost, sg.offset, sg.file_size) = FALSE
  <2> SUFFICES ASSUME Intact(d)
               PROVE  /\ has <=> s.type # 0 /\ s.filesz # 0
                      /\ has => /\ Data(lost, sg.offset, sg.file_size) = Cells(d, s.offset, s.filesz)
                                /\ LostAt(lost, sg.offset, sg.file_size) = FALSE
    BY Zenon
  <2>1. sg.type = s.type /\ sg.offset = s.offset /\ sg.file_size = s.filesz /\ lost = FALSE
    BY <1>6, <1>9, Zenon DEF SegmentAs
  <2>2. s.type # 0 => s.offset + s.filesz <= d.size
    BY <1>2, Zenon DEF Intact
  <2>3. Len(bytes) = d.size /\ d.size \in Nat
    BY FileOpen, SizesOfFile
  <2>4. s.offset \in Nat /\ s.filesz \in Nat
    BY <1>7, <2>1, Zenon
  <2> HIDE DEF sg, lost, s
  <2>5. s.type # 0 => ~ (s.filesz > Len(bytes))
    BY <2>2, <2>3, <2>4
  <2>6. has <=> s.type # 0 /\ s.filesz # 0
    BY <2>1, <2>5, Zenon DEF Greater, PT_NULL
  <2>7. FALSE \in BOOLEAN
    OBVIOUS
  <2>8. s.type # 0 =>
          Data(FALSE, s.offset, s.filesz) = Cells(d, s.offset, s.filesz) /\ ~ LostAt(FALSE, s.offset, s.filesz)
    BY <2>2, <2>4, <2>7, DataRead
  <2>9. LostAt(FALSE, s.offset, s.filesz) \in BOOLEAN
    BY LostOK
  <2> QED BY <2>1, <2>6, <2>8, <2>9, Zenon
<1> HIDE DEF sg, lost, has, s, secs
<1>11. data = IF has THEN Data(lost, sg.offset, sg.file_size) ELSE NULL
  BY Zenon
<1> HIDE DEF data
<1>12. /\ new.type = sg.type /\ new.flags = sg.flags /\ new.offset = sg.offset
       /\ new.virtual_address = sg.virtual_address /\ new.file_size = sg.file_size
       /\ new.memory_size = sg.memory_size /\ new.data = data
  BY <1>7 DEF SegmentNames
<1> HIDE DEF new
<1>13. ~ lost => SegmentAs(new, s)
  BY <1>6, <1>12, Zenon DEF SegmentAs
<1>14. new.data # NULL =>
         \A k \in 1 .. new.file_size :
           \/ new.data[k] = JUNK
           \/ SegmentAs(new, s) /\ s.offset + k <= d.size /\ new.data[k] = Whole(d)[s.offset + k]
  <2>1. ~ lost => sg.offset = s.offset
    BY <1>6, Zenon DEF SegmentAs
  <2> QED BY <1>8, <1>11, <1>12, <1>13, <2>1, Zenon
<1>15. Intact(d) => new.data = IF s.type = 0 \/ s.filesz = 0 THEN NULL ELSE Cells(d, s.offset, s.filesz)
  BY <1>10, <1>11, <1>12, Zenon
<1>16. SegmentRead(new, s, d)
  BY <1>9, <1>13, <1>14, <1>15, Zenon DEF SegmentRead
<1>17. Intact(d) => fail' = FALSE
  BY <1>1, <1>9, <1>10, Zenon
<1> QED BY <1>1, <1>16, <1>17, Zenon DEF s

\* A set of numbers has a least element, and Min gives it.
LEMMA MinOK ==
  ASSUME NEW S \in SUBSET Nat, S # {}
  PROVE  Min(S) \in S /\ \A x \in S : Min(S) <= x
<1> DEFINE R == OpToRel(<, Nat)
<1>1. \E x \in S : \A y \in S : ~ (<<y, x>> \in R)
  <2>1. IsWellFoundedOn(R, Nat) /\ S \subseteq Nat
    BY NatLessThanWellFounded
  <2> HIDE DEF R
  <2> QED BY <2>1, WFMin
<1>2. \A x, y \in Nat : <<y, x>> \in R <=> y < x
  BY DEF OpToRel
<1> HIDE DEF R
<1>3. \E x \in S : \A y \in S : x <= y
  <2>1. PICK x \in S : \A y \in S : ~ (<<y, x>> \in R)
    BY <1>1
  <2>2. x \in Nat /\ \A y \in S : y \in Nat
    OBVIOUS
  <2>3. \A y \in S : ~ (y < x)
    BY <1>2, <2>1, <2>2
  <2>4. \A y \in Nat : ~ (y < x) => x <= y
    BY <2>2
  <2> QED BY <2>2, <2>3, <2>4
<1> QED BY <1>3 DEF Min

\* An element no greater than any is the least.
LEMMA MinIs ==
  ASSUME NEW S \in SUBSET Nat, NEW x \in S, \A y \in S : x <= y
  PROVE  Min(S) = x
<1>1. Min(S) \in S /\ \A y \in S : Min(S) <= y
  BY MinOK
<1>2. Min(S) \in Nat /\ x \in Nat /\ Min(S) <= x /\ x <= Min(S)
  BY <1>1
<1> QED BY ONLY <1>2

\* A set of numbers up to a bound has a greatest.
LEMMA MaxOK ==
  ASSUME NEW n \in Nat, NEW S \in SUBSET (0 .. n), S # {}
  PROVE  Max(S) \in S /\ \A x \in S : Max(S) >= x
<1> DEFINE T == {n - x : x \in S}
<1>0. \A x \in S : x \in 0 .. n
  OBVIOUS
<1>1. T \in SUBSET Nat /\ T # {}
  <2>1. \A x \in 0 .. n : n - x \in Nat
    OBVIOUS
  <2> QED BY <1>0, <2>1
<1>2. Min(T) \in T /\ \A t \in T : Min(T) <= t
  <2> HIDE DEF T
  <2> QED BY <1>1, MinOK
<1>3. PICK m \in S : Min(T) = n - m
  BY <1>2
<1>4. \A x \in S : n - m <= n - x
  BY <1>2, <1>3
<1>5. \A x \in S : m >= x
  BY <1>0, <1>4
<1> QED BY <1>5 DEF Max

\* The last place before a zero of data, from a to b.
ZerosIn(data, a, b) == {k \in a .. b : data[k] = 0}
EndIn(data, a, b)   == IF ZerosIn(data, a, b) = {} THEN b ELSE Min(ZerosIn(data, a, b)) - 1

\* The string at x of bytes of a file is the one at this place of the file.
LEMMA SameString ==
  ASSUME NEW d, NEW off \in Nat, NEW x \in Nat, NEW size \in Nat, x < size
  PROVE  /\ EndIn(Cells(d, off, size), x + 1, size) \in Nat
         /\ x <= EndIn(Cells(d, off, size), x + 1, size)
         /\ EndIn(Cells(d, off, size), x + 1, size) <= size
         /\ SubSeq(Cells(d, off, size), x + 1, EndIn(Cells(d, off, size), x + 1, size))
              = SubSeq(Whole(d), off + x + 1, EndIn(Whole(d), off + x + 1, off + size))
<1> DEFINE data  == Cells(d, off, size)
           W     == Whole(d)
<1>0. data = [k \in 1 .. size |-> W[off + k]]
  BY Zenon DEF Cells
<1> HIDE DEF data, W
<1> DEFINE ends  == {k \in x + 1 .. size : data[k] = 0}
           zeros == {z \in off + x + 1 .. off + size : W[z] = 0}
           e     == IF ends = {} THEN size ELSE Min(ends) - 1
           f     == IF zeros = {} THEN off + size ELSE Min(zeros) - 1
<1>1. \A k \in 1 .. size : data[k] = W[off + k]
  BY <1>0
<1>2. \A k \in ends : off + k \in zeros
  BY <1>1
<1>3. \A z \in zeros : z - off \in ends /\ off + (z - off) = z
  <2> SUFFICES ASSUME NEW z \in zeros PROVE z - off \in ends /\ off + (z - off) = z
    OBVIOUS
  <2>1. z - off \in x + 1 .. size /\ z - off \in 1 .. size /\ off + (z - off) = z
    OBVIOUS
  <2>2. data[z - off] = W[z]
    BY <1>1, <2>1
  <2> QED BY <2>1, <2>2
<1>4. ends = {} <=> zeros = {}
  BY <1>2, <1>3
<1>5. \A k \in ends : k \in Nat /\ x < k /\ k <= size
  OBVIOUS
<1>6. \A z \in zeros : z \in Nat
  OBVIOUS
<1> HIDE DEF ends, zeros
<1>7. ends # {} => /\ Min(ends) \in ends /\ Min(zeros) = off + Min(ends)
  <2> SUFFICES ASSUME ends # {} PROVE Min(ends) \in ends /\ Min(zeros) = off + Min(ends)
    OBVIOUS
  <2>1. ends \in SUBSET Nat /\ zeros \in SUBSET Nat
    BY <1>5, <1>6
  <2>2. Min(ends) \in ends /\ \A k \in ends : Min(ends) <= k
    BY <2>1, MinOK
  <2> DEFINE m == Min(ends)
  <2>3. off + m \in zeros
    BY <1>2, <2>2
  <2>4. \A z \in zeros : off + m <= z
    <3> SUFFICES ASSUME NEW z \in zeros PROVE off + m <= z
      OBVIOUS
    <3>1. m <= z - off /\ m \in Nat /\ z \in Nat /\ off \in Nat
      BY <1>3, <1>5, <1>6, <2>2
    <3> HIDE DEF m
    <3> QED BY ONLY <3>1
  <2> HIDE DEF m
  <2>5. Min(zeros) = off + m
    BY <2>1, <2>3, <2>4, MinIs
  <2> QED BY <2>2, <2>5 DEF m
<1>8. e \in Nat /\ x <= e /\ e <= size /\ f = off + e
  <2>1. CASE ends = {}
    BY <1>4, <2>1
  <2>2. CASE ends # {}
    <3> DEFINE m == Min(ends)
    <3>1. m \in Nat /\ x < m /\ m <= size /\ e = m - 1 /\ f = (off + m) - 1
      BY <1>4, <1>5, <1>7, <2>2
    <3> HIDE DEF m, e, f
    <3> QED BY <3>1
  <2> QED BY <2>1, <2>2
<1> HIDE DEF e, f
<1>9. SubSeq(data, x + 1, e) = SubSeq(W, off + x + 1, f)
  <2>1. SubSeq(data, x + 1, e) = [j \in 1 .. (1 + e - (x + 1)) |-> data[(x + 1) + j - 1]]
    BY <1>8
  <2>2. SubSeq(W, off + x + 1, f) = [j \in 1 .. (1 + f - (off + x + 1)) |-> W[(off + x + 1) + j - 1]]
    BY <1>8
  <2>3. 1 + e - (x + 1) = e - x /\ 1 + f - (off + x + 1) = e - x
    BY <1>8
  <2>4. \A j \in 1 .. e - x : data[(x + 1) + j - 1] = W[(off + x + 1) + j - 1]
    <3> SUFFICES ASSUME NEW j \in 1 .. e - x PROVE data[(x + 1) + j - 1] = W[(off + x + 1) + j - 1]
      OBVIOUS
    <3>1. x + j \in 1 .. size /\ (x + 1) + j - 1 = x + j /\ (off + x + 1) + j - 1 = off + (x + j)
      BY <1>8
    <3>2. data[x + j] = W[off + (x + j)]
      BY <1>1, <3>1
    <3> QED BY <3>1, <3>2, Zenon
  <2> QED BY <2>1, <2>2, <2>3, <2>4
<1>10. EndIn(data, x + 1, size) = e
  BY Zenon DEF EndIn, ZerosIn, e, ends
<1>11. EndIn(W, off + x + 1, off + size) = f
  BY Zenon DEF EndIn, ZerosIn, f, zeros
<1> QED BY <1>8, <1>9, <1>10, <1>11, Zenon DEF data, W

\* Cells of an intact file are a sequence of numbers, and not NULL.
LEMMA CellsOK ==
  ASSUME NEW d, Describes(d), bytes \in Seq(Nat), bytes = Written(d), d.size = Len(Whole(d)),
         NEW q \in Nat, NEW n \in Nat, q + n <= d.size
  PROVE  /\ \A k \in 1 .. n : Whole(d)[q + k] \in Nat
         /\ Cells(d, q, n) # NULL
<1>1. Len(bytes) = d.size /\ d.size \in Nat /\ \A k \in 1 .. d.size : bytes[k] = Whole(d)[k]
  BY FileOpen, SizesOfFile, Zenon
<1>2. \A k \in 1 .. n : q + k \in 1 .. d.size
  BY <1>1
<1>3. \A k \in 1 .. d.size : bytes[k] \in Nat
  BY <1>1
<1>4. \A k \in 1 .. n : Whole(d)[q + k] \in Nat
  BY <1>1, <1>2, <1>3, Zenon
<1>5. Cells(d, q, n) \in Seq(Cell)
  <2>1. Cells(d, q, n) = [k \in 1 .. n |-> Whole(d)[q + k]]
    BY Zenon DEF Cells
  <2>2. \A k \in 1 .. n : Whole(d)[q + k] \in Cell
    BY <1>4 DEF Cell
  <2>3. Cells(d, q, n) \in [1 .. n -> Cell]
    BY <2>1, <2>2, Zenon
  <2> QED BY <2>3
<1> QED BY <1>4, <1>5, StartupAssumption

\* A section of an intact file gets the name it has, or none if it has none.
LEMMA NameRead ==
  ASSUME NEW d, Describes(d), Intact(d), bytes \in Seq(Nat), bytes = Written(d),
         HeaderAs(header, d), d.names # 0,
         Len(sections) = Len(d.sections),
         \A k \in 1 .. Len(d.sections) : SectionRead(sections[k], d.sections[k], d),
         NEW i \in 0 .. Len(d.sections) - 1
  PROVE  LET nm == get_string(header.section_name_str_index, sections[i + 1].name_string_offset)
         IN  IF nm = NULL THEN NameOf(d, i + 1) = <<>> ELSE nm = NameOf(d, i + 1)
<1> DEFINE n    == d.names
           x    == d.sections[i + 1].name
           sec  == sections[n + 1]
           strs == d.sections[n + 1]
           nm   == get_string(n, x)
           off  == strs.offset
           size == strs.size
<1>1. /\ n \in Nat /\ Len(d.sections) \in Nat /\ i + 1 \in 1 .. Len(d.sections)
      /\ d.sections \in Seq(SectionHeaders)
  <2>1. d.names \in Field
    BY Zenon DEF Describes
  <2>2. d.sections \in Seq(SectionHeaders)
    BY Zenon DEF Describes
  <2> QED BY <2>1, <2>2 DEF Field
<1>2. header.section_name_str_index = n /\ sections[i + 1].name_string_offset = x
  BY <1>1, Zenon DEF HeaderAs, SectionRead, SectionAs
<1>3. x \in Nat
  <2>1. d.sections[i + 1] \in SectionHeaders
    BY <1>1
  <2> QED BY <2>1 DEF SectionHeaders, Field
<1> SUFFICES IF nm = NULL THEN NameOf(d, i + 1) = <<>> ELSE nm = NameOf(d, i + 1)
  BY <1>2, Zenon
<1>4. CASE n >= Len(d.sections)
  <2>1. ~ HasSection(n)
    BY <1>1, <1>4 DEF HasSection
  <2>2. nm = NULL
    BY <2>1, Zenon DEF get_string
  <2>3. NameOf(d, i + 1) = <<>>
    BY <1>4, Zenon DEF NameOf
  <2> QED BY <2>2, <2>3
<1>5. CASE ~ (n >= Len(d.sections))
  <2>1. n + 1 \in 1 .. Len(d.sections) /\ HasSection(n) /\ n + 1 \in DOMAIN d.sections
    BY <1>1, <1>5 DEF HasSection
  <2>2. strs \in SectionHeaders
    BY <1>1, <2>1
  <2>3. off \in Nat /\ size \in Nat
    BY <2>2 DEF SectionHeaders, Field
  <2>4. /\ sec.size = size
        /\ sec.data = IF strs.type \in {0, 8} THEN NULL ELSE Cells(d, off, size)
    BY <2>1, Zenon DEF SectionRead, SectionAs
  <2>5. strs.type \notin {0, 8} => off + size <= d.size /\ size < d.size /\ d.size = Len(Whole(d))
    BY <2>1, Zenon DEF Intact
  <2>6. off + x + 1 > off + size <=> x >= size
    <3> HIDE DEF off, x, size, n, strs
    <3> QED BY ONLY <1>3, <2>3
  <2> DEFINE zeros == {z \in off + x + 1 .. off + size : Whole(d)[z] = 0}
  <2>7. NameOf(d, i + 1)
          = IF strs.type \in {0, 8} \/ x >= size THEN <<>>
            ELSE SubSeq(Whole(d), off + x + 1, IF zeros = {} THEN off + size ELSE Min(zeros) - 1)
    BY <1>5, <2>6, Zenon DEF NameOf
  <2> DEFINE ends == {k \in x + 1 .. size : sec.data[k] = 0}
             e    == IF ends = {} THEN size ELSE Min(ends) - 1
  <2>8. nm = IF x >= size \/ sec.data = NULL THEN NULL ELSE SubSeq(sec.data, x + 1, e)
    BY <2>1, <2>4, Zenon DEF get_string
  <2> HIDE DEF nm, sec, strs, n, x
  <2>9. CASE strs.type \in {0, 8} \/ x >= size
    BY <2>4, <2>7, <2>8, <2>9, Zenon
  <2>10. CASE ~ (strs.type \in {0, 8} \/ x >= size)
    <3>1. sec.data = Cells(d, off, size) /\ x < size
      BY <1>3, <2>3, <2>4, <2>10
    <3>2. sec.data # NULL /\ \A k \in 1 .. size : Whole(d)[off + k] \in Nat
      BY <2>3, <2>5, <2>10, <3>1, CellsOK
    <3>3. sec.data = [k \in 1 .. size |-> Whole(d)[off + k]]
      BY <3>1, Zenon DEF Cells
    <3>4. /\ e \in Nat /\ x <= e /\ e <= size
          /\ SubSeq(sec.data, x + 1, e)
               = SubSeq(Whole(d), off + x + 1, IF zeros = {} THEN off + size ELSE Min(zeros) - 1)
      <4>1. off \in Nat /\ size \in Nat /\ x \in Nat /\ x < size
        BY <1>3, <2>3, <3>1
      <4> HIDE DEF off, size
      <4>2. /\ EndIn(Cells(d, off, size), x + 1, size) \in Nat
            /\ x <= EndIn(Cells(d, off, size), x + 1, size)
            /\ EndIn(Cells(d, off, size), x + 1, size) <= size
            /\ SubSeq(Cells(d, off, size), x + 1, EndIn(Cells(d, off, size), x + 1, size))
                 = SubSeq(Whole(d), off + x + 1, EndIn(Whole(d), off + x + 1, off + size))
        BY <4>1, SameString, Zenon
      <4>3. EndIn(Cells(d, off, size), x + 1, size) = e
        BY <3>1, Zenon DEF EndIn, ZerosIn
      <4>4. EndIn(Whole(d), off + x + 1, off + size)
              = IF zeros = {} THEN off + size ELSE Min(zeros) - 1
        BY Zenon DEF EndIn, ZerosIn
      <4> HIDE DEF e, zeros
      <4> QED BY <3>1, <4>2, <4>3, <4>4, Zenon
    <3>5. nm # NULL
      <4> HIDE DEF e
      <4>1. nm = SubSeq(sec.data, x + 1, e)
        BY <2>8, <2>10, <3>2, Zenon
      <4>2. \A k \in x + 1 .. e : sec.data[k] \in Cell
        <5>1. \A k \in x + 1 .. e : k \in 1 .. size
          BY <1>3, <2>3, <3>4
        <5> QED BY <3>2, <3>3, <5>1 DEF Cell
      <4>3. x + 1 \in Int /\ e \in Int
        BY <1>3, <3>4
      <4>4. nm \in Seq(Cell)
        BY <4>1, <4>2, <4>3, SubSeqProperties
      <4> QED BY <4>4, StartupAssumption
    <3> QED BY <2>7, <2>8, <2>10, <3>2, <3>4, <3>5, Zenon
  <2> QED BY <2>9, <2>10
<1> QED BY <1>4, <1>5

-----------------------------------------------------------------------------
(* What the reader has of a file, however much of it is missing.           *)

Reading == {"sections", "names", "segments"}
Behind  == {"load", "map", "copy", "stack", "print", "start", "cycle", "prompt", "exit", "crash", "done"}

\* It has n sections, and of an intact file as the linker wrote them, k with a name.
SectionsRead(d, n, k) ==
  /\ Len(sections) = n
  /\ Intact(d) => \A j \in 1 .. n : /\ SectionRead(sections[j], d.sections[j], d)
                                    /\ sections[j].name = IF j <= k THEN NameOf(d, j) ELSE <<>>
SegmentsRead(d, n) ==
  /\ Len(segments) = n
  /\ \A j \in 1 .. n : SegmentRead(segments[j], d.segments[j], d)

ReadOf(d) ==
  /\ bytes = Written(d)
  /\ at = "ident" => fail = FALSE
  /\ at = "header" =>
       /\ fail = FALSE /\ d.magic = 127 /\ d.class \in {1, 2} /\ header.encoding = d.encoding
       /\ sections = <<>> /\ segments = <<>>
  /\ at \in Reading \cup Behind => IsElf(d) /\ HeaderAs(header, d)
  /\ at \in Reading /\ Intact(d) => fail = FALSE
  /\ at = "sections" =>
       segments = <<>> /\ next <= Len(d.sections) /\ SectionsRead(d, next, 0)
  /\ at = "names" =>
       /\ segments = <<>> /\ next <= Len(d.sections) /\ d.names # 0
       /\ SectionsRead(d, Len(d.sections), next)
  /\ at = "segments" =>
       /\ SectionsRead(d, Len(d.sections), Len(d.sections))
       /\ next <= Len(d.segments) /\ SegmentsRead(d, next)
  /\ at \in Behind =>
       /\ SectionsRead(d, Len(d.sections), Len(d.sections))
       /\ SegmentsRead(d, Len(d.segments))

\* The signature is right or the file is not one.
LEMMA IdentStep ==
  ASSUME TypeInv, NEW d, Describes(d), ReadOf(d), ReadIdent
  PROVE  IF at' = "failed" THEN ~ IsElf(d) ELSE ReadOf(d)'
<1>1. /\ at = "ident" /\ at' = (IF IdentOk THEN "header" ELSE "failed")
      /\ sections' = <<>> /\ segments' = <<>> /\ bytes' = bytes
      /\ fail' = LostAt(fail, 0, Len(IdentFields))
      /\ header' = IF IdentOk THEN NewHeader(bytes[2], bytes[3]) ELSE NULL
  BY Zenon DEF ReadIdent, LoadIdent, Goto
<1>2. bytes = Written(d) /\ fail = FALSE /\ bytes \in Seq(Nat)
  BY <1>1, Zenon DEF ReadOf, TypeInv, ReaderOK
<1>3. Len(bytes) = d.size /\ d.size \in Nat /\ \A k \in 1 .. d.size : bytes[k] = Whole(d)[k]
  BY <1>2, FileOpen, SizesOfFile, Zenon
<1>4. Whole(d)[1] = d.magic /\ Whole(d)[2] = d.class /\ Whole(d)[3] = d.encoding
  BY FileHeader
<1>5. Len(IdentFields) = 3
  BY DEF IdentFields
<1>6. LostAt(fail, 0, 3) <=> d.size < 3
  <2>1. fail \in BOOLEAN /\ 0 \in Nat /\ 3 \in Nat
    BY <1>2
  <2>2. LostAt(fail, 0, 3) <=> 3 > 0 /\ (fail \/ 0 + 3 > Len(bytes))
    BY <1>2, <2>1, LostWhen
  <2> QED BY <1>2, <1>3, <2>2
<1>7. CASE IdentOk
  <2>1. ~ LostAt(fail, 0, Len(IdentFields)) /\ bytes[1] = ELFMAG /\ bytes[2] \in {ELFCLASS32, ELFCLASS64}
    BY <1>7, Zenon DEF IdentOk
  <2>2. ~ LostAt(fail, 0, 3)
    BY <1>5, <2>1, Zenon
  <2>3. 1 \in 1 .. d.size /\ 2 \in 1 .. d.size /\ 3 \in 1 .. d.size
    BY <1>3, <1>6, <2>2
  <2>4. d.magic = bytes[1] /\ d.class = bytes[2] /\ d.encoding = bytes[3]
    BY <1>3, <1>4, <2>3, Zenon
  <2>5. header'.encoding = d.encoding
    <3>1. NewHeader(bytes[2], bytes[3]).encoding = bytes[3]
      BY FieldsOK DEF NewHeader, HeaderNames
    <3> QED BY <1>1, <1>7, <2>4, <3>1, Zenon
  <2>6. fail' = FALSE
    BY <1>1, <2>1, LostOK
  <2>7. d.magic = 127 /\ d.class \in {1, 2}
    BY <2>1, <2>4 DEF ELFMAG, ELFCLASS32, ELFCLASS64
  <2> QED BY <1>1, <1>2, <1>7, <2>5, <2>6, <2>7 DEF ReadOf, Reading, Behind
<1>8. CASE ~ IdentOk
  <2>1. \/ LostAt(fail, 0, Len(IdentFields)) \/ bytes[1] # ELFMAG
        \/ bytes[2] \notin {ELFCLASS32, ELFCLASS64}
    BY <1>8, Zenon DEF IdentOk
  <2>2. CASE LostAt(fail, 0, Len(IdentFields))
    <3>1. d.size < 3
      BY <1>5, <1>6, <2>2, Zenon
    <3>2. ~ (d.size >= 11)
      BY <1>3, <3>1
    <3> QED BY <1>1, <1>8, <3>2, Zenon DEF IsElf
  <2>3. CASE ~ LostAt(fail, 0, Len(IdentFields))
    <3>1. ~ LostAt(fail, 0, 3)
      BY <1>5, <2>3, Zenon
    <3>2. 1 \in 1 .. d.size /\ 2 \in 1 .. d.size
      BY <1>3, <1>6, <3>1
    <3>3. d.magic = bytes[1] /\ d.class = bytes[2]
      BY <1>3, <1>4, <3>2, Zenon
    <3>4. d.magic # 127 \/ d.class \notin {1, 2}
      BY <2>1, <2>3, <3>3 DEF ELFMAG, ELFCLASS32, ELFCLASS64
    <3> QED BY <1>1, <1>8, <3>4, Zenon DEF IsElf
  <2> QED BY <2>2, <2>3
<1> QED BY <1>7, <1>8

\* The header is there or the file is not one.
LEMMA HeaderStep ==
  ASSUME TypeInv, NEW d, Describes(d), ReadOf(d), ReadHeader
  PROVE  IF at' = "failed" THEN ~ IsElf(d) ELSE ReadOf(d)'
<1>1. /\ at = "header" /\ at' = (IF HeaderOk THEN "sections" ELSE "failed") /\ next' = 0
      /\ sections' = sections /\ segments' = segments /\ bytes' = bytes
      /\ fail' = ~ HeaderOk
      /\ header' = Structure(fail, 0, HeaderFields, header.encoding, header)
  BY Zenon DEF ReadHeader, LoadHeader, Goto
<1>2. /\ bytes = Written(d) /\ fail = FALSE /\ bytes \in Seq(Nat)
      /\ d.magic = 127 /\ d.class \in {1, 2} /\ header.encoding = d.encoding
      /\ sections = <<>> /\ segments = <<>>
  BY <1>1, Zenon DEF ReadOf, TypeInv, ReaderOK
<1>3. Len(bytes) = d.size /\ d.size \in Nat
  BY <1>2, FileOpen, SizesOfFile, Zenon
<1>4. header \in [HeaderNames -> Nat]
  BY <1>1 DEF TypeInv, ReaderOK
<1>5. Len(HeaderFields) = 11
  BY FieldsOK, Zenon DEF NamesOK
<1>6. LostAt(fail, 0, 11) <=> d.size < 11
  <2>1. fail \in BOOLEAN /\ 0 \in Nat /\ 11 \in Nat
    BY <1>2
  <2>2. LostAt(fail, 0, 11) <=> 11 > 0 /\ (fail \/ 0 + 11 > Len(bytes))
    BY <1>2, <2>1, LostWhen
  <2> QED BY <1>2, <1>3, <2>2
<1>7. HeaderOk <=> ~ LostAt(fail, 0, 11)
  BY <1>5, Zenon DEF HeaderOk
<1>8. CASE HeaderOk
  <2>1. IsElf(d)
    BY <1>2, <1>3, <1>6, <1>7, <1>8 DEF IsElf
  <2>2. fail' = FALSE
    BY <1>1, <1>8
  <2>3. HeaderAs(header', d)
    <3>1. DOMAIN header = HeaderNames
      BY <1>4
    <3>2. fail \in BOOLEAN
      BY <1>2
    <3>3. HeaderAs(Structure(fail, 0, HeaderFields, d.encoding, header), d)
      BY <1>2, <1>7, <1>8, <3>1, <3>2, HeaderFull
    <3> QED BY <1>1, <1>2, <3>3, Zenon
  <2>4. HeaderAs(header, d)'
    BY <2>3, Zenon DEF HeaderAs
  <2>5. SectionsRead(d, next, 0)' /\ next' <= Len(d.sections)
    <3>1. Len(d.sections) \in Nat
      BY SizesOfFile
    <3> QED BY <1>1, <1>2, <3>1 DEF SectionsRead
  <2> QED BY <1>1, <1>2, <1>8, <2>1, <2>2, <2>4, <2>5 DEF ReadOf, Reading, Behind
<1>9. CASE ~ HeaderOk
  <2>1. ~ (d.size >= 11)
    BY <1>3, <1>6, <1>7, <1>9
  <2> QED BY <1>1, <1>9, <2>1, Zenon DEF IsElf
<1> QED BY <1>8, <1>9

\* A section more.
LEMMA SectionStep ==
  ASSUME TypeInv, NEW d, Describes(d), ReadOf(d), ReadSection
  PROVE  ReadOf(d)'
<1> DEFINE n == Len(d.sections)
<1>1. at = "sections" /\ next \in Nat /\ n \in Nat /\ Len(d.segments) \in Nat
  BY SizesOfFile DEF TypeInv, Control, ReadSection
<1>2. /\ bytes = Written(d) /\ bytes \in Seq(Nat) /\ IsElf(d) /\ HeaderAs(header, d)
      /\ Intact(d) => fail = FALSE
      /\ segments = <<>> /\ next <= n /\ SectionsRead(d, next, 0) /\ AnySeq(sections)
  BY <1>1, Zenon DEF ReadOf, Reading, TypeInv, ReaderOK
<1>3. header.sections_num = n /\ header.section_name_str_index = d.names
  BY <1>2, Zenon DEF HeaderAs
<1>4. /\ Len(sections) = next
      /\ Intact(d) => \A j \in 1 .. next :
                        SectionRead(sections[j], d.sections[j], d) /\ sections[j].name = <<>>
  <2>1. \A j \in 1 .. next : ~ (j <= 0)
    BY <1>1
  <2> QED BY <1>2, <2>1, Zenon DEF SectionsRead
<1>5. CASE next < n
  <2>1. /\ LoadSection(next) /\ at' = at /\ next' = next + 1
    BY <1>3, <1>5, Zenon DEF ReadSection, Again
  <2>2. PICK new : sections' = Append(sections, new)
    BY <2>1, Zenon DEF LoadSection
  <2>3. /\ Len(sections') = next + 1 /\ sections'[next + 1] = new
        /\ \A j \in 1 .. next : sections'[j] = sections[j]
    BY <1>2, <1>4, <2>2, AppendAny
  <2>4. UNCHANGED <<bytes, header, segments>>
    BY <2>1, Zenon DEF LoadSection
  <2>5. ASSUME Intact(d)
        PROVE  /\ fail' = FALSE
               /\ SectionRead(sections'[next + 1], d.sections[next + 1], d)
               /\ sections'[next + 1].name = <<>>
    <3>1. next \in 0 .. n - 1
      BY <1>1, <1>5
    <3>2. fail = FALSE
      BY <1>2, <2>5, Zenon
    <3> HIDE DEF n
    <3>3. /\ fail' = FALSE
          /\ \E e : sections' = Append(sections, e) /\ SectionRead(e, d.sections[next + 1], d) /\ e.name = <<>>
      BY <1>2, <2>1, <2>5, <3>1, <3>2, LoadSectionAs, Zenon DEF n
    <3>4. PICK e : sections' = Append(sections, e) /\ SectionRead(e, d.sections[next + 1], d) /\ e.name = <<>>
      BY <3>3
    <3>5. sections'[next + 1] = e
      BY <1>2, <1>4, <3>4, AppendAny
    <3> QED BY <3>3, <3>4, <3>5, Zenon
  <2>6. Intact(d) => \A j \in 1 .. next + 1 :
                        SectionRead(sections'[j], d.sections[j], d) /\ sections'[j].name = <<>>
    <3> SUFFICES ASSUME Intact(d), NEW j \in 1 .. next + 1
                 PROVE  SectionRead(sections'[j], d.sections[j], d) /\ sections'[j].name = <<>>
      BY Zenon
    <3>1. j = next + 1 \/ j \in 1 .. next
      BY <1>1
    <3> QED BY <1>4, <2>3, <2>5, <3>1, Zenon
  <2>7. SectionsRead(d, next, 0)'
    <3>1. \A j \in 1 .. next + 1 : ~ (j <= 0)
      BY <1>1
    <3> QED BY <2>1, <2>3, <2>6, <3>1, Zenon DEF SectionsRead
  <2>8. next' <= n
    BY <1>1, <1>5, <2>1
  <2>9. HeaderAs(header, d)'
    BY <1>2, <2>4, Zenon DEF HeaderAs
  <2> HIDE DEF n
  <2>10. at' = "sections"
    BY <1>1, <2>1
  <2> QED BY <1>2, <2>4, <2>5, <2>7, <2>8, <2>9, <2>10 DEF ReadOf, Reading, Behind, n
<1>6. CASE ~ (next < n)
  <2>1. /\ UNCHANGED reader /\ next' = 0
        /\ at' = IF d.names # 0 THEN "names" ELSE "segments"
    BY <1>3, <1>6, Zenon DEF ReadSection, Goto
  <2>2. next = n
    BY <1>1, <1>2, <1>6
  <2>3. /\ UNCHANGED <<bytes, fail, header, sections, segments>>
    BY <2>1 DEF reader
  <2>4. SectionsRead(d, n, 0)
    BY <1>2, <2>2, Zenon
  <2>5. SectionsRead(d, n, 0)'
    BY <2>3, <2>4, Zenon DEF SectionsRead
  <2>6. d.names = 0 => SectionsRead(d, n, n)'
    <3> SUFFICES ASSUME d.names = 0 PROVE SectionsRead(d, n, n)'
      OBVIOUS
    <3>1. \A j \in 1 .. n : NameOf(d, j) = <<>>
      BY Zenon DEF NameOf
    <3> QED BY <2>5, <3>1, Zenon DEF SectionsRead
  <2>7. SegmentsRead(d, 0)'
    BY <1>2, <2>3 DEF SegmentsRead
  <2>8. HeaderAs(header, d)'
    BY <1>2, <2>3, Zenon DEF HeaderAs
  <2>9. 0 <= n /\ 0 <= Len(d.segments)
    BY <1>1
  <2>10. bytes' = Written(d) /\ IsElf(d) /\ (Intact(d) => fail' = FALSE) /\ segments' = <<>>
    BY <1>2, <2>3, Zenon
  <2> HIDE DEF n
  <2>11. CASE d.names # 0
    <3>1. at' = "names" /\ next' = 0
      BY <2>1, <2>11
    <3>2. SectionsRead(d, n, next)'
      BY <2>5, <3>1, Zenon DEF SectionsRead
    <3> QED BY <2>8, <2>9, <2>10, <2>11, <3>1, <3>2 DEF ReadOf, Reading, Behind, n
  <2>12. CASE d.names = 0
    <3>1. at' = "segments" /\ next' = 0
      BY <2>1, <2>12
    <3>2. SegmentsRead(d, next)'
      BY <2>7, <3>1, Zenon DEF SegmentsRead
    <3> QED BY <2>6, <2>8, <2>9, <2>10, <2>12, <3>1, <3>2 DEF ReadOf, Reading, Behind, n
  <2> QED BY <2>11, <2>12
<1> QED BY <1>5, <1>6

\* A name more.
LEMMA NameStep ==
  ASSUME TypeInv, NEW d, Describes(d), ReadOf(d), ReadName
  PROVE  ReadOf(d)'
<1> DEFINE n == Len(d.sections)
<1>1. at = "names" /\ next \in Nat /\ n \in Nat /\ Len(d.segments) \in Nat
  BY SizesOfFile DEF TypeInv, Control, ReadName
<1>2. /\ bytes = Written(d) /\ bytes \in Seq(Nat) /\ IsElf(d) /\ HeaderAs(header, d)
      /\ Intact(d) => fail = FALSE
      /\ segments = <<>> /\ next <= n /\ SectionsRead(d, n, next) /\ AnySeq(sections)
      /\ d.names # 0 /\ DOMAIN sections = 1 .. Len(sections)
      /\ \A k \in DOMAIN sections : SectionOK(sections[k])
  <2>1. AnySeq(sections) /\ \A k \in DOMAIN sections : SectionOK(sections[k])
    BY DEF TypeInv, ReaderOK
  <2>2. DOMAIN sections = 1 .. Len(sections)
    BY <2>1, AppendAny
  <2> QED BY <1>1, <2>1, <2>2, Zenon DEF ReadOf, Reading, TypeInv, ReaderOK
<1>3. header.sections_num = n
  BY <1>2, Zenon DEF HeaderAs
<1>4. /\ Len(sections) = n
      /\ Intact(d) => \A j \in 1 .. n :
                        /\ SectionRead(sections[j], d.sections[j], d)
                        /\ sections[j].name = IF j <= next THEN NameOf(d, j) ELSE <<>>
  BY <1>2, Zenon DEF SectionsRead
<1>5. CASE next < n
  <2> DEFINE nm  == get_string(header.section_name_str_index, sections[next + 1].name_string_offset)
             new == [sections[next + 1] EXCEPT !.name = nm]
  <2>1. NameSection(next) /\ at' = at /\ next' = next + 1
    BY <1>3, <1>5, Zenon DEF ReadName, Again
  <2>2. /\ sections' = IF nm = NULL THEN sections ELSE [sections EXCEPT ![next + 1].name = nm]
        /\ UNCHANGED <<bytes, fail, header, segments>>
    BY <2>1, Zenon DEF NameSection
  <2>3. next + 1 \in 1 .. n /\ next \in 0 .. n - 1
    BY <1>1, <1>5
  <2>4. [sections EXCEPT ![next + 1].name = nm] = [sections EXCEPT ![next + 1] = new]
    OBVIOUS
  <2>5. /\ Len(sections') = n
        /\ \A j \in 1 .. n : sections'[j] = IF nm # NULL /\ j = next + 1 THEN new ELSE sections[j]
    <3>1. DOMAIN sections = 1 .. n
      BY <1>2, <1>4
    <3>2. AnySeq(sections) /\ Len(sections) = n
      BY <1>2, <1>4
    <3> HIDE DEF nm, new, n
    <3>3. CASE nm = NULL
      BY <2>2, <3>2, <3>3, Zenon
    <3>4. CASE nm # NULL
      <4>1. sections' = [sections EXCEPT ![next + 1] = new]
        BY <2>2, <2>4, <3>4, Zenon
      <4>2. /\ Len(sections') = n
            /\ \A j \in 1 .. n : sections'[j] = IF j = next + 1 THEN new ELSE sections[j]
        BY ONLY <3>1, <3>2, <4>1, ExceptAny
      <4> QED BY <3>4, <4>2, Zenon
    <3> QED BY <3>3, <3>4
  <2>6. ASSUME Intact(d)
        PROVE  \A j \in 1 .. n : /\ SectionRead(sections'[j], d.sections[j], d)
                                 /\ sections'[j].name = IF j <= next + 1 THEN NameOf(d, j) ELSE <<>>
    <3>1. IF nm = NULL THEN NameOf(d, next + 1) = <<>> ELSE nm = NameOf(d, next + 1)
      <4>1. \A k \in 1 .. Len(d.sections) : SectionRead(sections[k], d.sections[k], d)
        BY <1>4, <2>6, Zenon
      <4>2. next \in 0 .. Len(d.sections) - 1 /\ Len(sections) = Len(d.sections)
        BY <1>4, <2>3, Zenon
      <4> QED BY <1>2, <2>6, <4>1, <4>2, NameRead, Zenon
    <3>2. /\ new.name = nm /\ new.data = sections[next + 1].data
          /\ new.name_string_offset = sections[next + 1].name_string_offset
          /\ new.type = sections[next + 1].type /\ new.flags = sections[next + 1].flags
          /\ new.address = sections[next + 1].address /\ new.offset = sections[next + 1].offset
          /\ new.size = sections[next + 1].size
      <4>1. DOMAIN sections[next + 1] = SectionNames
        BY <1>2, <1>4, <2>3 DEF SectionOK
      <4> DEFINE sec == sections[next + 1]
      <4> HIDE DEF nm, sec
      <4> QED BY <4>1 DEF SectionNames, sec
    <3> HIDE DEF nm, new
    <3> SUFFICES ASSUME NEW j \in 1 .. n
                 PROVE  /\ SectionRead(sections'[j], d.sections[j], d)
                        /\ sections'[j].name = IF j <= next + 1 THEN NameOf(d, j) ELSE <<>>
      OBVIOUS
    <3>3. /\ SectionRead(sections[j], d.sections[j], d)
          /\ sections[j].name = IF j <= next THEN NameOf(d, j) ELSE <<>>
      BY <1>4, <2>6, Zenon
    <3>4. CASE j = next + 1
      <4>1. ~ (j <= next) /\ j <= next + 1
        BY <1>1, <3>4
      <4>2. CASE nm = NULL
        BY <2>5, <3>1, <3>3, <3>4, <4>1, <4>2, Zenon
      <4>3. CASE nm # NULL
        <5>1. sections'[j] = new
          BY <2>5, <3>4, <4>3, Zenon
        <5>2. SectionRead(new, d.sections[j], d)
          BY <3>2, <3>3, <3>4, Zenon DEF SectionRead, SectionAs
        <5> QED BY <3>1, <3>2, <3>4, <4>1, <4>3, <5>1, <5>2, Zenon
      <4> QED BY <4>2, <4>3
    <3>5. CASE j # next + 1
      <4>1. j <= next <=> j <= next + 1
        BY <1>1, <3>5
      <4> QED BY <2>5, <3>3, <3>5, <4>1, Zenon
    <3> QED BY <3>4, <3>5
  <2>7. SectionsRead(d, n, next)'
    BY <2>1, <2>5, <2>6, Zenon DEF SectionsRead
  <2>8. HeaderAs(header, d)'
    BY <1>2, <2>2, Zenon DEF HeaderAs
  <2>9. next' <= n
    BY <1>1, <1>5, <2>1
  <2>10. at' = "names" /\ bytes' = Written(d) /\ (Intact(d) => fail' = FALSE) /\ segments' = <<>>
    BY <1>1, <1>2, <2>1, <2>2, Zenon
  <2> HIDE DEF n, nm, new
  <2> QED BY <1>2, <2>7, <2>8, <2>9, <2>10 DEF ReadOf, Reading, Behind, n
<1>6. CASE ~ (next < n)
  <2>1. UNCHANGED reader /\ next' = 0 /\ at' = "segments"
    BY <1>3, <1>6, Zenon DEF ReadName, Goto
  <2>2. next = n
    BY <1>1, <1>2, <1>6
  <2>3. UNCHANGED <<bytes, fail, header, sections, segments>>
    BY <2>1 DEF reader
  <2>4. SectionsRead(d, n, n)'
    BY <1>2, <2>2, <2>3, Zenon DEF SectionsRead
  <2>5. SegmentsRead(d, 0)'
    BY <1>2, <2>3 DEF SegmentsRead
  <2>6. SegmentsRead(d, next)'
    BY <2>1, <2>5, Zenon DEF SegmentsRead
  <2>7. HeaderAs(header, d)'
    BY <1>2, <2>3, Zenon DEF HeaderAs
  <2>8. 0 <= Len(d.segments)
    BY <1>1
  <2>9. bytes' = Written(d) /\ IsElf(d) /\ (Intact(d) => fail' = FALSE)
    BY <1>2, <2>3, Zenon
  <2> HIDE DEF n
  <2> QED BY <2>1, <2>4, <2>6, <2>7, <2>8, <2>9 DEF ReadOf, Reading, Behind, n
<1> QED BY <1>5, <1>6

\* A segment more.
LEMMA SegmentStep ==
  ASSUME TypeInv, NEW d, Describes(d), ReadOf(d), ReadSegment
  PROVE  ReadOf(d)'
<1> DEFINE n == Len(d.sections)
           m == Len(d.segments)
<1>1. at = "segments" /\ next \in Nat /\ n \in Nat /\ m \in Nat
  BY SizesOfFile DEF TypeInv, Control, ReadSegment
<1>2. /\ bytes = Written(d) /\ bytes \in Seq(Nat) /\ fail \in BOOLEAN /\ IsElf(d) /\ HeaderAs(header, d)
      /\ Intact(d) => fail = FALSE
      /\ SectionsRead(d, n, n) /\ next <= m /\ SegmentsRead(d, next) /\ AnySeq(segments)
  BY <1>1, Zenon DEF ReadOf, Reading, TypeInv, ReaderOK
<1>3. header.segments_num = m
  BY <1>2, Zenon DEF HeaderAs
<1>4. Len(segments) = next /\ \A j \in 1 .. next : SegmentRead(segments[j], d.segments[j], d)
  BY <1>2, Zenon DEF SegmentsRead
<1>5. CASE next < m
  <2>1. LoadSegment(next) /\ at' = at /\ next' = next + 1
    BY <1>3, <1>5, Zenon DEF ReadSegment, Again
  <2>2. next \in 0 .. m - 1
    BY <1>1, <1>5
  <2> HIDE DEF n, m
  <2>3. /\ Intact(d) => fail' = FALSE
        /\ \E e : segments' = Append(segments, e) /\ SegmentRead(e, d.segments[next + 1], d)
    BY <1>2, <2>1, <2>2, LoadSegmentAs, Zenon DEF m
  <2>4. PICK e : segments' = Append(segments, e) /\ SegmentRead(e, d.segments[next + 1], d)
    BY <2>3
  <2>5. /\ Len(segments') = next + 1 /\ segments'[next + 1] = e
        /\ \A j \in 1 .. next : segments'[j] = segments[j]
    BY <1>2, <1>4, <2>4, AppendAny
  <2>6. \A j \in 1 .. next + 1 : SegmentRead(segments'[j], d.segments[j], d)
    <3> SUFFICES ASSUME NEW j \in 1 .. next + 1
                 PROVE  SegmentRead(segments'[j], d.segments[j], d)
      BY Zenon
    <3>1. j = next + 1 \/ j \in 1 .. next
      BY <1>1
    <3> QED BY <1>4, <2>4, <2>5, <3>1, Zenon
  <2>7. SegmentsRead(d, next)'
    BY <2>1, <2>5, <2>6, Zenon DEF SegmentsRead
  <2>8. UNCHANGED <<bytes, header, sections>>
    BY <2>1, Zenon DEF LoadSegment
  <2>9. HeaderAs(header, d)' /\ SectionsRead(d, n, n)'
    BY <1>2, <2>8, Zenon DEF HeaderAs, SectionsRead
  <2>10. next' <= m
    BY <1>1, <1>5, <2>1
  <2>11. at' = "segments"
    BY <1>1, <2>1
  <2> QED BY <1>2, <2>3, <2>7, <2>8, <2>9, <2>10, <2>11 DEF ReadOf, Reading, Behind, n, m
<1>6. CASE ~ (next < m)
  <2>1. UNCHANGED reader /\ at' = "load"
    BY <1>3, <1>6, Zenon DEF ReadSegment, Goto
  <2>2. next = m
    BY <1>1, <1>2, <1>6
  <2>3. UNCHANGED <<bytes, fail, header, sections, segments>>
    BY <2>1 DEF reader
  <2>4. SectionsRead(d, n, n)' /\ SegmentsRead(d, m)'
    BY <1>2, <2>2, <2>3, Zenon DEF SectionsRead, SegmentsRead
  <2>5. HeaderAs(header, d)'
    BY <1>2, <2>3, Zenon DEF HeaderAs
  <2> HIDE DEF n, m
  <2> QED BY <1>2, <2>1, <2>3, <2>4, <2>5 DEF ReadOf, Reading, Behind, n, m
<1> QED BY <1>5, <1>6

\* The reader has what there is of the file, or the process has failed over it.
Found == file \in DOMAIN scenario.elf
ReadInv ==
  /\ at \notin {"args", "failed"} => Found /\ ReadOf(linked)
  /\ at = "failed" => ~ Found \/ ~ IsElf(linked)

\* A file that is there is what its description stands for.
LEMMA LinkedOK ==
  ASSUME TypeInv
  PROVE  /\ DOMAIN scenario.elf = DOMAIN scenario.disk
         /\ Found => Describes(linked) /\ scenario.disk[file] = Written(linked)
BY FileAssumption DEF TypeInv, Control, Found, linked, scenario

\* Behind the reader nothing changes what it has read.
Onwards == \/ LoadNext \/ MapPage \/ CopyByte \/ MapStack \/ PrintInfo \/ Start
           \/ Cycle \/ Finish \/ ReadCommand

\* They lead to each other.
LEMMA OnwardsFrame ==
  ASSUME TypeInv, Onwards
  PROVE  /\ at \in Behind /\ at' \in Behind /\ UNCHANGED <<run, options, reader>>
<1>1. UNCHANGED <<run, options, reader>>
  BY DEF Onwards, LoadNext, MapPage, CopyByte, MapStack, PrintInfo, Start, Cycle, Finish, ReadCommand,
         Beside
<1>2. at \in Behind
  BY DEF Onwards, LoadNext, MapPage, CopyByte, MapStack, PrintInfo, Start, Cycle, Finish, ReadCommand,
         Behind
<1>3. at' \in Behind
  <2>1. \A where \in Behind : Goto(where) => at' \in Behind
    BY DEF Goto
  <2>2. \A where \in Behind : DumpMemory(where) => at' \in Behind
    BY DEF DumpMemory, Goto, Behind
  <2>3. CASE LoadNext \/ MapPage \/ CopyByte
    <3>1. CopyByte => p >= data_end \/ p < data_end
      <4> SUFFICES ASSUME CopyByte PROVE p >= data_end \/ p < data_end
        OBVIOUS
      <4>1. ReaderOK /\ next \in Nat /\ next < Len(segments) /\ p \in Address
        BY DEF CopyByte, TypeInv, Control
      <4>2. data_end \in Address
        BY <4>1, SegmentAt
      <4> QED BY <4>1, <4>2, SizesOK DEF Address
    <3> QED BY <2>3, <3>1 DEF LoadNext, MapPage, CopyByte, Goto, Behind
  <2>4. CASE MapStack \/ Start \/ Cycle
    BY <2>4 DEF MapStack, Start, Cycle, Goto, Behind
  <2>5. CASE PrintInfo \/ Finish \/ ReadCommand
    BY <2>2, <2>5 DEF PrintInfo, Finish, ReadCommand, Goto, Behind
  <2> QED BY <2>3, <2>4, <2>5 DEF Onwards
<1> QED BY <1>1, <1>2, <1>3

\* No step loses what is read.
LEMMA ReadInvNext == TypeInv /\ ReadInv /\ [Next]_vars => ReadInv'
<1> SUFFICES ASSUME TypeInv, ReadInv, [Next]_vars PROVE ReadInv'
  OBVIOUS
<1> PICK d : d = linked
  OBVIOUS
<1>1. Found => Describes(d) /\ scenario.disk[file] = Written(d)
  BY LinkedOK
<1>2. run' = run /\ file' = file => (Found' <=> Found) /\ linked' = d
  BY DEF Found, linked, scenario
<1>3. ASSUME UNCHANGED <<run, options>>, at \notin {"args", "failed"},
             IF at' = "failed" THEN ~ IsElf(d) ELSE at' # "args" /\ ReadOf(d)'
      PROVE  ReadInv'
  <2>1. run' = run /\ file' = file
    BY <1>3 DEF options
  <2>2. Found' /\ linked' = d
    BY <1>2, <1>3, <2>1 DEF ReadInv
  <2>3. ReadOf(d)' => ReadOf(linked)'
    BY <2>2, ZenonT(60) DEF ReadOf, HeaderAs, SectionsRead, SegmentsRead
  <2> QED BY <1>3, <2>2, <2>3, Zenon DEF ReadInv
<1>4. CASE ParseArg
  BY <1>4 DEF ParseArg, ReadInv
<1>5. CASE OpenFile
  <2>1. at = "args" /\ UNCHANGED <<run, options>> /\ run' = run /\ file' = file
    BY <1>5 DEF OpenFile, Beside, options
  <2>2. CASE file \in DOMAIN scenario.disk
    <3>1. bytes' = scenario.disk[file] /\ fail' = FALSE /\ at' = "ident"
      BY <1>5, <2>2, Zenon DEF OpenFile, Open, Goto
    <3>2. Found /\ Found' /\ linked' = d /\ bytes' = Written(d)
      BY <1>1, <1>2, <2>1, <2>2, <3>1, LinkedOK DEF Found
    <3>3. ReadOf(linked)'
      BY <3>1, <3>2 DEF ReadOf, Reading, Behind
    <3> QED BY <3>1, <3>2, <3>3 DEF ReadInv
  <2>3. CASE file \notin DOMAIN scenario.disk
    <3>1. at' = "failed"
      BY <1>5, <2>3, Zenon DEF OpenFile, Goto
    <3>2. ~ Found'
      BY <1>2, <2>1, <2>3, LinkedOK DEF Found
    <3> QED BY <3>1, <3>2 DEF ReadInv
  <2> QED BY <2>2, <2>3
<1>6. CASE ReadIdent \/ ReadHeader \/ ReadSection \/ ReadName \/ ReadSegment
  <2>1. at \notin {"args", "failed"} /\ UNCHANGED <<run, options>>
    BY <1>6 DEF ReadIdent, ReadHeader, ReadSection, ReadName, ReadSegment, Beside
  <2>2. Describes(d) /\ ReadOf(d)
    BY <1>1, <2>1 DEF ReadInv
  <2>3. at' # "args"
    BY <1>6 DEF ReadIdent, ReadHeader, ReadSection, ReadName, ReadSegment, Goto, Again
  <2>4. CASE ReadIdent
    BY <1>3, <2>1, <2>2, <2>3, <2>4, IdentStep
  <2>5. CASE ReadHeader
    BY <1>3, <2>1, <2>2, <2>3, <2>5, HeaderStep
  <2>6. CASE ReadSection \/ ReadName \/ ReadSegment
    <3>1. at' # "failed"
      BY <2>6 DEF ReadSection, ReadName, ReadSegment, Goto, Again
    <3>2. ReadOf(d)'
      BY <2>2, <2>6, SectionStep, NameStep, SegmentStep
    <3> QED BY <1>3, <2>1, <2>3, <3>1, <3>2
  <2> QED BY <1>6, <2>4, <2>5, <2>6
<1>7. CASE Onwards
  <2>1. at \in Behind /\ at' \in Behind /\ UNCHANGED <<run, options, reader>>
    BY <1>7, OnwardsFrame
  <2>2. at \notin {"args", "failed"} /\ at' \notin {"args", "failed"} /\ UNCHANGED <<run, options>>
    BY <2>1 DEF Behind
  <2>3. ReadOf(d)
    BY <2>2 DEF ReadInv
  <2>4. UNCHANGED <<bytes, fail, header, sections, segments>>
    BY <2>1 DEF reader
  <2>5. ReadOf(d)'
    <3>1. HeaderAs(header, d)' <=> HeaderAs(header, d)
      BY <2>4, Zenon DEF HeaderAs
    <3>2. /\ SectionsRead(d, Len(d.sections), Len(d.sections))'
               <=> SectionsRead(d, Len(d.sections), Len(d.sections))
          /\ SegmentsRead(d, Len(d.segments))' <=> SegmentsRead(d, Len(d.segments))
      BY <2>4, Zenon DEF SectionsRead, SegmentsRead
    <3> QED BY <2>1, <2>3, <2>4, <3>1, <3>2 DEF ReadOf, Reading, Behind
  <2> QED BY <1>3, <2>2, <2>5
<1>8. CASE UNCHANGED vars
  <2>1. UNCHANGED <<run, at, next, options>> /\ UNCHANGED reader
    BY <1>8 DEF vars
  <2>2. UNCHANGED <<run, at, next, file, bytes, fail, header, sections, segments>>
    BY <2>1 DEF options, reader
  <2>3. (Found' <=> Found) /\ linked' = linked
    BY <2>2 DEF Found, linked, scenario
  <2>4. ReadOf(d)' <=> ReadOf(d)
    BY <2>2, ZenonT(60) DEF ReadOf, HeaderAs, SectionsRead, SegmentsRead
  <2>5. ReadOf(d)' => ReadOf(linked)'
    BY <2>3, ZenonT(60) DEF ReadOf, HeaderAs, SectionsRead, SegmentsRead
  <2> QED BY <2>2, <2>3, <2>4, <2>5 DEF ReadInv
<1> QED BY <1>4, <1>5, <1>6, <1>7, <1>8 DEF Next, Onwards

\* So at any time the reader has what there is.
LEMMA ReadInvariant == Spec => [](TypeInv /\ ReadInv)
<1>1. Init => TypeInv /\ ReadInv
  BY InitTypeInv DEF Init, ReadInv
<1> QED BY <1>1, NextTypeInv, ReadInvNext, PTL DEF Spec

-----------------------------------------------------------------------------
(* The listing of -v. *)

ListingInv == listing # NULL => at \in Behind /\ listing = Listing

\* The listing is only of what is read, and what is read stays.
LEMMA ListingInvNext == TypeInv /\ ListingInv /\ [Next]_vars => ListingInv'
<1> SUFFICES ASSUME TypeInv, ListingInv, [Next]_vars PROVE ListingInv'
  OBVIOUS
<1>1. UNCHANGED reader => Listing' = Listing
  BY Zenon DEF reader, Listing
<1>2. CASE \/ ParseArg \/ OpenFile \/ ReadIdent \/ ReadHeader \/ ReadSection \/ ReadName
           \/ ReadSegment
  <2>1. listing' = listing /\ at \notin Behind
    BY <1>2 DEF ParseArg, OpenFile, ReadIdent, ReadHeader, ReadSection, ReadName, ReadSegment,
                Beside, Behind
  <2> QED BY <2>1 DEF ListingInv
<1>3. CASE Onwards
  <2>1. at' \in Behind /\ UNCHANGED reader
    BY <1>3, OnwardsFrame
  <2>2. listing' = listing \/ listing' = Listing
    BY <1>3 DEF Onwards, LoadNext, MapPage, CopyByte, MapStack, PrintInfo, Start, Cycle, Finish,
                ReadCommand, Beside
  <2> QED BY <1>1, <2>1, <2>2 DEF ListingInv
<1>4. CASE UNCHANGED vars
  <2>1. UNCHANGED reader /\ UNCHANGED <<listing, at>>
    BY <1>4 DEF vars
  <2> QED BY <1>1, <2>1 DEF ListingInv
<1> QED BY <1>2, <1>3, <1>4 DEF Next, Onwards

\* A listing of what the linker wrote.
ListsAs(list, d) ==
  /\ list.class = IF d.class = 1 THEN "ELF32" ELSE "ELF64"
  /\ list.encoding = IF d.encoding = 1 THEN "little" ELSE "big"
  /\ list.sections = [k \in DOMAIN d.sections |-> <<NameOf(d, k), d.sections[k].size>>]
  /\ list.segments = [i \in DOMAIN d.segments |->
                        LET s == d.segments[i] IN <<s.flags, s.vaddr, s.filesz, s.memsz>>]

\* The listing of a file that is read is one.
LEMMA ListingOfFile ==
  ASSUME NEW d, Describes(d), Intact(d), IsElf(d), HeaderAs(header, d),
         AnySeq(sections), AnySeq(segments),
         SectionsRead(d, Len(d.sections), Len(d.sections)), SegmentsRead(d, Len(d.segments))
  PROVE  ListsAs(Listing, d)
<1>1. /\ Listing.class = IF header.class = ELFCLASS32 THEN "ELF32" ELSE "ELF64"
      /\ Listing.encoding = IF header.encoding = ELFDATA2LSB THEN "little" ELSE "big"
      /\ Listing.sections = [i \in DOMAIN sections |-> <<sections[i].name, sections[i].size>>]
      /\ Listing.segments = [i \in DOMAIN segments |->
                   <<segments[i].flags, segments[i].virtual_address,
                     segments[i].file_size, segments[i].memory_size>>]
  BY DEF Listing
<1>2. header.class = d.class /\ header.encoding = d.encoding
  BY Zenon DEF HeaderAs
<1>3. /\ DOMAIN sections = DOMAIN d.sections /\ DOMAIN segments = DOMAIN d.segments
      /\ DOMAIN d.sections = 1 .. Len(d.sections) /\ DOMAIN d.segments = 1 .. Len(d.segments)
  <2>1. Len(sections) = Len(d.sections) /\ Len(segments) = Len(d.segments)
    BY Zenon DEF SectionsRead, SegmentsRead
  <2>2. DOMAIN sections = 1 .. Len(sections) /\ DOMAIN segments = 1 .. Len(segments)
    BY AppendAny
  <2>3. DOMAIN d.sections = 1 .. Len(d.sections) /\ DOMAIN d.segments = 1 .. Len(d.segments)
    BY SizesOfFile
  <2> QED BY <2>1, <2>2, <2>3, Zenon
<1>4. \A k \in DOMAIN d.sections : sections[k].name = NameOf(d, k) /\ sections[k].size = d.sections[k].size
  <2> SUFFICES ASSUME NEW k \in 1 .. Len(d.sections)
               PROVE  sections[k].name = NameOf(d, k) /\ sections[k].size = d.sections[k].size
    BY <1>3, Zenon
  <2>1. k <= Len(d.sections)
    OBVIOUS
  <2> QED BY <2>1, Zenon DEF SectionsRead, SectionRead, SectionAs
<1>5. \A i \in DOMAIN d.segments :
        /\ segments[i].flags = d.segments[i].flags /\ segments[i].virtual_address = d.segments[i].vaddr
        /\ segments[i].file_size = d.segments[i].filesz /\ segments[i].memory_size = d.segments[i].memsz
  BY <1>3, Zenon DEF SegmentsRead, SegmentRead, SegmentAs
<1>6. Listing.sections = [k \in DOMAIN d.sections |-> <<NameOf(d, k), d.sections[k].size>>]
  BY <1>1, <1>3, <1>4, Zenon
<1>7. Listing.segments = [i \in DOMAIN d.segments |->
              LET s == d.segments[i] IN <<s.flags, s.vaddr, s.filesz, s.memsz>>]
  BY <1>1, <1>3, <1>5, Zenon
<1> QED BY <1>1, <1>2, <1>6, <1>7 DEF ELFCLASS32, ELFDATA2LSB, ListsAs

\* What -v lists of an intact file is what the linker wrote, every name of a section
\* among it, for every file of either class and encoding (Read_Elf.cpp:6-50,
\* elfio.hpp:405-417).
THEOREM ListingCorrect == Spec => []ListingIsTheFile
<1>1. TypeInv /\ ReadInv /\ ListingInv => ListingIsTheFile
  <2> SUFFICES ASSUME TypeInv, ReadInv, ListingInv, listing # NULL, Intact(linked)
               PROVE  ListsAs(listing, linked)
    BY Zenon DEF ListingIsTheFile, ListsAs
  <2> PICK d : d = linked
    OBVIOUS
  <2>1. at \in Behind /\ listing = Listing
    BY DEF ListingInv
  <2>2. Found /\ ReadOf(d)
    BY <2>1 DEF ReadInv, Behind
  <2>3. Describes(d) /\ Intact(d)
    BY <2>2, LinkedOK
  <2>4. /\ IsElf(d) /\ HeaderAs(header, d)
        /\ SectionsRead(d, Len(d.sections), Len(d.sections)) /\ SegmentsRead(d, Len(d.segments))
    BY <2>1, <2>2, Zenon DEF ReadOf
  <2>5. AnySeq(sections) /\ AnySeq(segments)
    BY DEF TypeInv, ReaderOK
  <2>6. ListsAs(Listing, d)
    BY <2>3, <2>4, <2>5, ListingOfFile
  <2> QED BY <2>1, <2>6, Zenon
<1>2. Init => ListingInv
  BY DEF Init, ListingInv
<1> QED BY <1>1, <1>2, ListingInvNext, ReadInvariant, PTL DEF Spec

-----------------------------------------------------------------------------
(* Memory before the first cycle. *)

\* The stack pointer is set when the simulation starts, and memory filled before.
StartInv ==
  /\ at \notin Behind => memory = NoPages
  /\ at \notin {"cycle", "prompt", "exit", "crash", "done"} => sp = 0 /\ cycle = 0
  /\ at \in {"cycle", "prompt", "done"} => sp = StackStart
  /\ sp = 0 => cycle = 0
  /\ at = "print" => verbose

\* The stack pointer is not the zero that stands for no start.
LEMMA StackStartOK == StackStart \in Address /\ StackStart # 0
BY SizesOK, StartupAssumption DEF Address

\* No step starts too early or writes too early.
LEMMA StartInvNext == TypeInv /\ StartInv /\ [Next]_vars => StartInv'
<1> SUFFICES ASSUME TypeInv, StartInv, [Next]_vars PROVE StartInv'
  OBVIOUS
<1>0. cycle \in Nat
  BY StartupAssumption DEF TypeInv, MemoryOK
<1>1. CASE ParseArg
  BY <1>1 DEF ParseArg, machine, StartInv, Behind
<1>2. CASE OpenFile \/ ReadIdent \/ ReadHeader \/ ReadSection \/ ReadName \/ ReadSegment
  <2>1. at \in {"args", "ident", "header"} \cup Reading /\ UNCHANGED <<verbose, machine>>
    BY <1>2 DEF OpenFile, ReadIdent, ReadHeader, ReadSection, ReadName, ReadSegment, Reading, Beside,
                options
  <2>2. at' \in {"ident", "header", "failed", "load"} \cup Reading
    BY <1>2 DEF OpenFile, ReadIdent, ReadHeader, ReadSection, ReadName, ReadSegment, Reading, Goto,
                Again
  <2> QED BY <2>1, <2>2 DEF StartInv, Behind, Reading, machine
<1>3. CASE Onwards
  <2>1. at \in Behind /\ at' \in Behind /\ UNCHANGED options
    BY <1>3, OnwardsFrame
  <2>2. verbose' = verbose
    BY <2>1 DEF options
  <2>3. CASE LoadNext
    BY <2>1, <2>2, <2>3 DEF LoadNext, Beside, machine, StartInv, Behind
  <2>4. CASE MapPage
    BY <2>1, <2>2, <2>4 DEF MapPage, StartInv, Behind
  <2>5. CASE CopyByte
    <3>1. at = "copy" /\ sp' = sp /\ cycle' = cycle
      BY <2>5 DEF CopyByte
    <3>2. at' \in {"copy", "load", "exit", "crash"}
      <4>1. p >= data_end \/ p < data_end
        <5>1. ReaderOK /\ next \in Nat /\ next < Len(segments) /\ p \in Address
          BY <3>1 DEF TypeInv, Control
        <5>2. data_end \in Address
          BY <5>1, SegmentAt
        <5> QED BY <5>1, <5>2, SizesOK DEF Address
      <4> QED BY <2>5, <4>1 DEF CopyByte, Goto
    <3> QED BY <2>1, <2>2, <3>1, <3>2 DEF StartInv
  <2>6. CASE MapStack
    BY <2>1, <2>2, <2>6 DEF MapStack, Goto, StartInv, Behind
  <2>7. CASE PrintInfo
    BY <2>1, <2>2, <2>7 DEF PrintInfo, DumpMemory, Goto, machine, StartInv, Behind
  <2>8. CASE Start
    BY <2>1, <2>2, <2>8, StackStartOK DEF Start, Goto, StartInv, Behind
  <2>9. CASE Cycle
    <3>1. sp # 0 /\ sp = StackStart
      BY <2>9, StackStartOK DEF Cycle, StartInv
    <3> QED BY <2>1, <2>2, <2>9, <3>1 DEF Cycle, Goto, StartInv, Behind
  <2>10. CASE Finish \/ ReadCommand
    <3>1. sp # 0 /\ sp = StackStart /\ UNCHANGED machine
      BY <2>10, StackStartOK DEF Finish, ReadCommand, StartInv
    <3>2. at' \in {"done", "exit", "crash", "cycle", "prompt"}
      BY <2>10 DEF Finish, ReadCommand, DumpMemory, Goto
    <3> QED BY <2>1, <2>2, <3>1, <3>2 DEF StartInv, machine
  <2> QED BY <1>3, <2>3, <2>4, <2>5, <2>6, <2>7, <2>8, <2>9, <2>10 DEF Onwards
<1>4. CASE UNCHANGED vars
  BY <1>4 DEF vars, options, machine, StartInv
<1> QED BY <1>1, <1>2, <1>3, <1>4 DEF Next, Onwards

\* So memory is empty before the loader.
LEMMA StartInvariant == Spec => [](TypeInv /\ ReadInv /\ StartInv)
<1>1. Init => StartInv
  BY DEF Init, StartInv, Behind
<1> QED BY <1>1, StartInvNext, ReadInvariant, PTL DEF Spec

\* A byte that is from the file, or allocated and never read.
FromFile(d, a, v) ==
  \/ v = 0
  \/ v = JUNK /\ ~ Intact(d)
  \/ \E i \in Covering(d, a) :
       /\ d.segments[i].offset + a - From(d.segments[i]) < d.size
       /\ v = ByteOf(d, i, a)
Honest(d) ==
  cycle = 0 => \A a \in Address : isValidAddr(memory, a) => FromFile(d, a, load_byte(memory, a))

\* What the segments of a description say.
LEMMA HeadersOK ==
  ASSUME NEW d, Describes(d), NEW i \in 1 .. Len(d.segments)
  PROVE  /\ i \in DOMAIN d.segments
         /\ d.segments[i].type \in Nat /\ d.segments[i].offset \in Nat /\ d.segments[i].vaddr \in Nat
         /\ d.segments[i].filesz \in Nat /\ d.segments[i].memsz \in Nat
         /\ From(d.segments[i]) \in Address
<1>1. d.segments \in Seq(SegmentHeaders)
  BY Zenon DEF Describes
<1>2. d.segments[i] \in SegmentHeaders /\ i \in DOMAIN d.segments
  BY <1>1
<1> DEFINE s == d.segments[i]
<1> HIDE DEF s
<1>3. s \in SegmentHeaders
  BY <1>2 DEF s
<1>4. s.type \in Nat /\ s.offset \in Nat /\ s.vaddr \in Nat /\ s.filesz \in Nat /\ s.memsz \in Nat
  BY <1>3 DEF SegmentHeaders, Field
<1>5. From(s) \in Address
  BY <1>4, Uint32OK DEF From, Uint32
<1> QED BY <1>2, <1>4, <1>5 DEF s

\* The byte the loader copies is the byte the linker placed there, if it was read.
LEMMA CopiedByte ==
  ASSUME TypeInv, NEW d, Describes(d), SegmentsRead(d, Len(d.segments)), next < Len(segments),
         seg_start <= p, p < data_end, seg.data # NULL
  PROVE  LET v == seg.data[p - seg_start + 1]
         IN  v \in Cell /\ FromFile(d, p, v)
<1> DEFINE i == next + 1
           s == d.segments[i]
           k == p - seg_start + 1
           v == seg.data[k]
<1>1. ReaderOK /\ next \in Nat /\ p \in Address
  BY DEF TypeInv, Control
<1>2. i \in 1 .. Len(d.segments) /\ i \in DOMAIN d.segments /\ i \in DOMAIN segments
  <2>1. Len(d.segments) = Len(segments) /\ DOMAIN segments = 1 .. Len(segments) /\ Len(segments) \in Nat
    BY <1>1, AppendAny DEF SegmentsRead, ReaderOK
  <2>2. DOMAIN d.segments = 1 .. Len(d.segments)
    BY SizesOfFile
  <2> QED BY <1>1, <2>1, <2>2
<1>3. SegmentRead(seg, s, d)
  BY <1>2, Zenon DEF SegmentsRead, seg
<1>4. k \in 1 .. seg.file_size /\ SegmentOK(seg) /\ seg_start \in Address
  BY <1>1, SegmentAt
<1>5. v \in Cell
  BY <1>4 DEF SegmentOK
<1>6. s.offset \in Nat /\ s.filesz \in Nat /\ s.vaddr \in Nat
  BY <1>2, HeadersOK
<1>7. SegmentAs(seg, s) /\ s.offset + k <= d.size /\ v = Whole(d)[s.offset + k] => FromFile(d, p, v)
  <2> SUFFICES ASSUME SegmentAs(seg, s), s.offset + k <= d.size, v = Whole(d)[s.offset + k]
               PROVE  FromFile(d, p, v)
    OBVIOUS
  <2>1. From(s) = seg_start /\ seg.file_size = s.filesz
    BY Zenon DEF From, seg_start, Uint32, SegmentAs
  <2>2. /\ s.offset + p - From(s) < d.size
        /\ s.offset + p - From(s) + 1 = s.offset + k
        /\ p \in From(s) .. From(s) + s.filesz - 1
    <3>1. d.size \in Nat /\ seg_start \in Nat /\ p \in Nat /\ k \in 1 .. s.filesz
      BY <1>1, <1>4, <2>1, SizesOfFile, SizesOK DEF Address
    <3>2. k = p - seg_start + 1
      OBVIOUS
    <3> HIDE DEF s, k
    <3>3. PICK from, start : from = From(s) /\ start = seg_start
      OBVIOUS
    <3> QED BY ONLY <1>6, <2>1, <3>1, <3>2, <3>3, s.offset + k <= d.size
  <2>3. i \in Covering(d, p)
    BY <1>2, <2>2, Zenon DEF Covering
  <2>4. v = ByteOf(d, i, p)
    BY <2>2, Zenon DEF ByteOf
  <2> HIDE DEF v, i
  <2> QED BY <2>2, <2>3, <2>4, Zenon DEF FromFile, i
<1>8. CASE Intact(d)
  <2>1. SegmentAs(seg, s) /\ seg.data = Cells(d, s.offset, s.filesz) /\ s.type # 0
    BY <1>3, <1>8, Zenon DEF SegmentRead
  <2>2. s.offset + s.filesz <= d.size
    BY <1>2, <1>8, <2>1, Zenon DEF Intact
  <2>3. seg.file_size = s.filesz
    BY <2>1, Zenon DEF SegmentAs
  <2>4. k \in 1 .. s.filesz
    BY <1>4, <2>3, Zenon
  <2>5. v = Whole(d)[s.offset + k]
    BY <2>1, <2>4, Zenon DEF Cells
  <2>6. s.offset + k <= d.size
    <3>1. d.size \in Nat
      BY SizesOfFile
    <3> HIDE DEF s, k
    <3> QED BY ONLY <1>6, <2>2, <2>4, <3>1
  <2> QED BY <1>5, <1>7, <2>1, <2>5, <2>6, Zenon
<1>9. CASE ~ Intact(d)
  <2>1. \/ v = JUNK
        \/ SegmentAs(seg, s) /\ s.offset + k <= d.size /\ v = Whole(d)[s.offset + k]
    BY <1>3, <1>4, Zenon DEF SegmentRead
  <2>2. v = JUNK => FromFile(d, p, v)
    BY <1>9, Zenon DEF FromFile
  <2> QED BY <1>5, <1>7, <2>1, <2>2, Zenon
<1> QED BY <1>8, <1>9

HonestInv == at \in Behind => Honest(linked)

\* Allocating and copying keep memory honest.
LEMMA HonestAlloc ==
  ASSUME memory \in Memories, NEW d, Honest(d), NEW q \in Address, memory' = alloc(memory, q),
         cycle' = cycle
  PROVE  Honest(d)'
<1> SUFFICES ASSUME cycle = 0, NEW a \in Address, isValidAddr(memory', a)
             PROVE  FromFile(d, a, load_byte(memory', a))
  BY Zenon DEF Honest
<1>1. CASE isValidAddr(memory, a)
  <2>1. load_byte(memory', a) = load_byte(memory, a)
    BY <1>1, AllocCorrect
  <2> QED BY <1>1, <2>1, Zenon DEF Honest
<1>2. CASE ~ isValidAddr(memory, a)
  <2>1. load_byte(memory', a) = 0
    BY <1>2, AllocCorrect
  <2> QED BY <2>1, Zenon DEF FromFile
<1> QED BY <1>1, <1>2

\* So does storing a byte of the file.
LEMMA HonestStore ==
  ASSUME memory \in Memories, NEW d, Honest(d), NEW q \in Address, isValidAddr(memory, q),
         NEW v \in Cell, FromFile(d, q, v), memory' = store_byte(memory, q, v), cycle' = cycle
  PROVE  Honest(d)'
<1> SUFFICES ASSUME cycle = 0, NEW a \in Address, isValidAddr(memory', a)
             PROVE  FromFile(d, a, load_byte(memory', a))
  BY Zenon DEF Honest
<1>1. /\ isValidAddr(memory, a)
      /\ load_byte(memory', a) = IF a = q THEN v ELSE load_byte(memory, a)
  BY StoreCorrect
<1>2. FromFile(d, a, load_byte(memory, a))
  BY <1>1, Zenon DEF Honest
<1> QED BY <1>1, <1>2, Zenon

\* No step before the first cycle puts anything else into memory.
LEMMA HonestNext == TypeInv /\ ReadInv /\ StartInv /\ HonestInv /\ [Next]_vars => HonestInv'
<1> SUFFICES ASSUME TypeInv, ReadInv, StartInv, HonestInv, [Next]_vars, at' \in Behind
             PROVE  Honest(linked)'
  BY DEF HonestInv
<1> PICK d : d = linked
  OBVIOUS
<1>1. run' = run /\ file' = file => linked' = d
  BY DEF linked, scenario
<1>2. linked' = d /\ Honest(d)' => Honest(linked)'
  BY Zenon DEF Honest, FromFile
<1>3. memory \in Memories /\ cycle \in Nat
  BY StartupAssumption DEF TypeInv, MemoryOK
<1>4. CASE ParseArg \/ OpenFile \/ ReadIdent \/ ReadHeader \/ ReadSection \/ ReadName
  <2>1. at' \notin Behind
    BY <1>4 DEF ParseArg, OpenFile, ReadIdent, ReadHeader, ReadSection, ReadName, Goto, Again, Behind
  <2> QED BY <2>1
<1>5. CASE ReadSegment
  <2>1. run' = run /\ file' = file /\ memory' = memory /\ at = "segments"
    BY <1>5 DEF ReadSegment, Beside, machine, options
  <2>2. memory' = NoPages
    BY <2>1 DEF StartInv, Behind
  <2>3. Honest(d)'
    <3>1. \A a \in Address : ~ isValidAddr(memory', a)
      BY <2>2, NoPagesEmpty
    <3> QED BY <3>1, Zenon DEF Honest
  <2> QED BY <1>1, <1>2, <2>1, <2>3
<1>6. CASE Onwards
  <2>1. at \in Behind /\ UNCHANGED <<run, options, reader>>
    BY <1>6, OnwardsFrame
  <2>2. Honest(d)
    BY <2>1 DEF HonestInv
  <2>3. linked' = d
    BY <1>1, <2>1 DEF options
  <2> SUFFICES Honest(d)'
    BY <1>2, <2>3
  <2>4. ASSUME memory' = memory, cycle' = cycle PROVE Honest(d)'
    BY <2>2, <2>4, Zenon DEF Honest
  <2>5. CASE LoadNext \/ PrintInfo \/ Start \/ Finish \/ ReadCommand
    <3>1. memory' = memory /\ cycle' = cycle
      BY <2>5 DEF LoadNext, PrintInfo, Start, Finish, ReadCommand, Beside, machine
    <3> QED BY <2>4, <3>1
  <2>6. CASE MapPage \/ MapStack
    <3>1. cycle' = cycle /\ p \in Address /\ (memory' = memory \/ memory' = alloc(memory, p))
      BY <2>6 DEF MapPage, MapStack, TypeInv, Control
    <3> QED BY <1>3, <2>2, <2>4, <3>1, HonestAlloc
  <2>7. CASE CopyByte
    <3> DEFINE v == seg.data[p - seg_start + 1]
    <3>1. /\ at = "copy" /\ cycle' = cycle /\ p \in Address /\ next \in Nat /\ next < Len(segments)
          /\ seg_start <= p /\ ReaderOK
      BY <2>7 DEF CopyByte, TypeInv, Control
    <3>2. p >= data_end \/ p < data_end
      <4>1. data_end \in Address
        BY <3>1, SegmentAt
      <4> QED BY <3>1, <4>1, SizesOK DEF Address
    <3>3. \/ memory' = memory
          \/ /\ p < data_end /\ seg.data # NULL /\ isValidAddr(memory, p)
             /\ memory' = store_byte(memory, p, v)
      BY <2>7, <3>2 DEF CopyByte
    <3>4. CASE memory' = memory
      BY <2>4, <3>1, <3>4
    <3>5. CASE /\ p < data_end /\ seg.data # NULL /\ isValidAddr(memory, p)
               /\ memory' = store_byte(memory, p, v)
      <4>1. Found /\ ReadOf(d)
        BY <2>1 DEF ReadInv, Behind
      <4>2. Describes(d) /\ SegmentsRead(d, Len(d.segments))
        BY <2>1, <4>1, LinkedOK DEF ReadOf
      <4>3. v \in Cell /\ FromFile(d, p, v)
        BY <3>1, <3>5, <4>2, CopiedByte
      <4> HIDE DEF v
      <4> QED BY <1>3, <2>2, <3>1, <3>5, <4>3, HonestStore
    <3> QED BY <3>3, <3>4, <3>5
  <2>8. CASE Cycle
    <3>1. cycle' # 0
      BY <1>3, <2>8 DEF Cycle
    <3> QED BY <3>1, Zenon DEF Honest
  <2> QED BY <1>6, <2>5, <2>6, <2>7, <2>8 DEF Onwards
<1>7. CASE UNCHANGED vars
  <2>1. UNCHANGED <<run, at, options, machine>>
    BY <1>7 DEF vars
  <2>2. UNCHANGED <<run, at, file, memory, cycle>>
    BY <2>1 DEF options, machine
  <2>3. Honest(d)
    BY <2>2 DEF HonestInv
  <2>4. Honest(d)'
    BY <2>2, <2>3, Zenon DEF Honest
  <2> QED BY <1>1, <1>2, <2>2, <2>4
<1> QED BY <1>4, <1>5, <1>6, <1>7 DEF Next, Onwards

\* What memory holds when the simulation starts is in the file at the place the
\* headers name, or is zero, or was allocated for a file that is not whole: for
\* every file FileAssumption describes, however much of it is missing
\* (segment_impl::load, Read_Elf.cpp:52-66).
THEOREM NothingIsInvented == Spec => []NothingInvented
<1>1. Init => HonestInv
  BY DEF Init, HonestInv, Behind
<1>2. StartInv /\ HonestInv => NothingInvented
  <2> SUFFICES ASSUME StartInv, HonestInv, Fresh,
                      NEW a \in {a \in 0 .. AddrMod - 1 : isValidAddr(memory, a)}
               PROVE  FromFile(linked, a, load_byte(memory, a))
    BY Zenon DEF NothingInvented, FromFile
  <2>1. cycle = 0 /\ at \in Behind
    BY DEF Fresh, Loaded, Started, StartInv, Behind
  <2>2. a \in Address /\ isValidAddr(memory, a)
    BY DEF Address
  <2> QED BY <2>1, <2>2, Zenon DEF HonestInv, Honest
<1> QED BY <1>1, <1>2, HonestNext, StartInvariant, PTL DEF Spec

-----------------------------------------------------------------------------
(* Pages of ranges of addresses. *)

\* The page of an address and where it is in it.
LEMMA PageParts ==
  ASSUME NEW a \in Nat
  PROVE  /\ Page(a) \in Nat /\ a % PageSize \in 0 .. PageSize - 1
         /\ a = Page(a) * PageSize + (a % PageSize)
<1>1. PageSize \in Nat \ {0}
  BY SizesOK
<1>2. /\ a \div PageSize \in Nat /\ a % PageSize \in 0 .. PageSize - 1
      /\ a = PageSize * (a \div PageSize) + (a % PageSize)
  BY <1>1, DivMod
<1>3. PageSize * (a \div PageSize) = (a \div PageSize) * PageSize
  BY <1>1, <1>2
<1> QED BY <1>2, <1>3 DEF Page

\* They are the only ones.
LEMMA PageIs ==
  ASSUME NEW q \in Nat, NEW r \in 0 .. PageSize - 1
  PROVE  Page(q * PageSize + r) = q /\ (q * PageSize + r) % PageSize = r
BY SizesOK, DivModUnique DEF Page

\* j pages further on.
LEMMA PageStep ==
  ASSUME NEW a \in Nat, NEW j \in Nat
  PROVE  Page(a + j * PageSize) = Page(a) + j /\ (a + j * PageSize) % PageSize = a % PageSize
<1> DEFINE q == Page(a)
           r == a % PageSize
<1>1. q \in Nat /\ r \in 0 .. PageSize - 1 /\ a = q * PageSize + r /\ PageSize \in Nat \ {0}
  BY PageParts, SizesOK
<1> HIDE DEF q, r
<1>2. a + j * PageSize = (q + j) * PageSize + r /\ q + j \in Nat
  BY <1>1
<1>3. Page((q + j) * PageSize + r) = q + j /\ ((q + j) * PageSize + r) % PageSize = r
  BY <1>1, <1>2, PageIs
<1> QED BY <1>2, <1>3 DEF q, r

\* Pages are in the order of their addresses.
LEMMA PageMono ==
  ASSUME NEW a \in Nat, NEW b \in Nat, a <= b
  PROVE  Page(a) <= Page(b)
<1> DEFINE q == Page(a)
           r == a % PageSize
           u == Page(b)
           v == b % PageSize
<1>1. /\ q \in Nat /\ r \in 0 .. PageSize - 1 /\ a = q * PageSize + r /\ PageSize \in Nat \ {0}
      /\ u \in Nat /\ v \in 0 .. PageSize - 1 /\ b = u * PageSize + v
  BY PageParts, SizesOK
<1> HIDE DEF q, r, u, v
<1>2. SUFFICES ASSUME q >= u + 1 PROVE FALSE
  BY <1>1 DEF q, u
<1>3. (q - u - 1) * PageSize >= 0
  BY <1>1, <1>2
<1>4. q * PageSize >= u * PageSize + PageSize
  BY <1>1, <1>3
<1> QED BY <1>1, <1>4

\* The pages of an interval are an interval.
LEMMA IntervalPages ==
  ASSUME NEW a \in Nat, NEW b \in Nat, a <= b
  PROVE  {Page(x) : x \in a .. b} = Page(a) .. Page(b)
<1> DEFINE q == Page(a)
           u == Page(b)
<1>1. /\ q \in Nat /\ a % PageSize \in 0 .. PageSize - 1 /\ a = q * PageSize + (a % PageSize)
      /\ u \in Nat /\ b % PageSize \in 0 .. PageSize - 1 /\ b = u * PageSize + (b % PageSize)
      /\ PageSize \in Nat \ {0}
  BY PageParts, SizesOK
<1>2. ASSUME NEW x \in a .. b PROVE Page(x) \in q .. u
  <2>1. Page(x) \in Nat /\ q <= Page(x) /\ Page(x) <= u
    BY PageParts, PageMono
  <2> HIDE DEF q, u
  <2> QED BY <1>1, <2>1
<1>3. ASSUME NEW y \in q .. u PROVE \E x \in a .. b : Page(x) = y
  <2>1. CASE y = q
    <3>1. a \in a .. b /\ Page(a) = y
      BY <2>1
    <3> QED BY <3>1
  <2>2. CASE y # q
    <3> HIDE DEF q, u
    <3>1. y \in Nat /\ q \in Nat /\ u \in Nat /\ (y - q - 1) * PageSize >= 0 /\ (u - y) * PageSize >= 0 /\ 0 \in 0 .. PageSize - 1
      BY <1>1, <1>3, <2>2
    <3>2. y * PageSize >= q * PageSize + PageSize /\ y * PageSize <= u * PageSize
      BY <1>1, <3>1
    <3>3. y * PageSize \in Nat /\ q * PageSize \in Nat /\ u * PageSize \in Nat
      BY <1>1, <3>1
    <3>4. y * PageSize \in a .. b
      BY ONLY a \in Nat, b \in Nat, <1>1, <3>2, <3>3
    <3>5. y * PageSize + 0 = y * PageSize /\ Page(y * PageSize + 0) = y
      BY <3>1, <3>3, PageIs
    <3> QED BY <3>4, <3>5
  <2> QED BY <2>1, <2>2
<1> HIDE DEF q, u
<1>4. {Page(x) : x \in a .. b} = q .. u
  BY <1>2, <1>3
<1> QED BY <1>4 DEF q, u

\* The loop over the pages of a segment: as many as its size needs, from the first.
LEMMA PagesOfLoop ==
  ASSUME NEW s, From(s) \in Nat, s.memsz \in Nat, NEW j \in Nat,
         s.memsz <= j * PageSize, j > 0 => (j - 1) * PageSize < s.memsz
  PROVE  Pages(s) = Page(From(s)) .. Page(From(s)) + j - 1
<1> DEFINE a == From(s)
           n == s.memsz
           q == Page(a)
           r == a % PageSize
           b == a + n - 1
           t == n - 1 - (j - 1) * PageSize
<1>1. /\ q \in Nat /\ r \in 0 .. PageSize - 1 /\ a = q * PageSize + r /\ PageSize \in Nat \ {0}
      /\ a \in Nat /\ n \in Nat
  BY PageParts, SizesOK
<1>2. Upto(s) = b
  BY Zenon DEF Upto
<1>3. Pages(s) = {Page(x) : x \in a .. b} \ Missed(s)
  BY <1>2, Zenon DEF Pages
<1>4. Missed(s) = IF n > 0 /\ r > b % PageSize THEN {Page(b)} ELSE {}
  BY <1>2, Zenon DEF Missed
<1>5. n <= j * PageSize /\ (j > 0 => (j - 1) * PageSize < n)
  OBVIOUS
<1> HIDE DEF a, n, q, r
<1>6. CASE j = 0
  <2>1. n = 0
    BY <1>1, <1>5, <1>6
  <2>2. a .. b = {}
    BY <1>1, <2>1
  <2>3. q .. q + j - 1 = {}
    BY <1>1, <1>6
  <2>4. {Page(x) : x \in a .. b} = {}
    BY <2>2
  <2> HIDE DEF b
  <2>5. Pages(s) = q .. q + j - 1
    BY <1>3, <2>3, <2>4
  <2> QED BY <2>5, Zenon DEF q, a
<1>7. CASE j > 0
  <2>0. (j - 1) * PageSize \in Nat /\ j * PageSize = (j - 1) * PageSize + PageSize
    BY <1>1, <1>7
  <2>1. n > 0 /\ t \in 0 .. PageSize - 1 /\ b \in Nat /\ a <= b
    BY <1>1, <1>5, <1>7, <2>0
  <2>2. b = (q + j - 1) * PageSize + (r + t) /\ q + j - 1 \in Nat
    <3>1. (q + j - 1) * PageSize = q * PageSize + (j - 1) * PageSize
      BY <1>1, <1>7
    <3> QED BY <1>1, <1>7, <2>0, <3>1
  <2>3. {Page(x) : x \in a .. b} = q .. Page(b)
    <3> HIDE DEF b
    <3>1. {Page(x) : x \in a .. b} = Page(a) .. Page(b)
      BY <1>1, <2>1, IntervalPages
    <3> QED BY <3>1, Zenon DEF q
  <2> HIDE DEF b, t
  <2>4. CASE r + t < PageSize
    <3>1. r + t \in 0 .. PageSize - 1
      BY <1>1, <2>1, <2>4
    <3>2. Page(b) = q + j - 1 /\ b % PageSize = r + t
      BY <2>2, <3>1, PageIs
    <3>3. ~ (r > b % PageSize)
      BY <1>1, <2>1, <3>2
    <3>4. Missed(s) = {}
      BY <1>4, <3>3, Zenon
    <3>5. Pages(s) = q .. q + j - 1
      BY <1>3, <2>3, <3>2, <3>4
    <3> QED BY <3>5, Zenon DEF q, a
  <2>5. CASE ~ (r + t < PageSize)
    <3>1. r + t - PageSize \in 0 .. PageSize - 1 /\ r + t - PageSize < r /\ q + j \in Nat
      BY <1>1, <2>1, <2>5
    <3>2. b = (q + j) * PageSize + (r + t - PageSize)
      <4>1. (q + j) * PageSize = (q + j - 1) * PageSize + PageSize
        BY <1>1, <1>7
      <4>2. (q + j - 1) * PageSize \in Nat /\ (q + j) * PageSize \in Nat
        BY <1>1, <1>7, <2>2
      <4> QED BY <1>1, <2>1, <2>2, <4>1, <4>2
    <3>3. Page(b) = q + j /\ b % PageSize = r + t - PageSize
      BY <3>1, <3>2, PageIs
    <3>4. r > b % PageSize
      BY <1>1, <2>1, <3>1, <3>3
    <3>5. Missed(s) = {q + j}
      BY <1>4, <2>1, <3>3, <3>4, Zenon
    <3>6. Pages(s) = (q .. q + j) \ {q + j}
      BY <1>3, <2>3, <3>3, <3>5, Zenon
    <3>7. (q .. q + j) \ {q + j} = q .. q + j - 1
      BY <1>1
    <3> QED BY <3>6, <3>7, Zenon DEF q, a
  <2> QED BY <2>4, <2>5
<1> QED BY <1>6, <1>7

\* The stack is the pages from the one above its lowest.
LEMMA StackPagesAre ==
  /\ StackPages = Page(StackStart - StackSize) + 1 .. Page(StackStart)
  /\ StackStart - StackSize \in Nat
<1> DEFINE low == StackStart - StackSize
<1>1. low \in Nat /\ PageSize \in Nat \ {0} /\ StackStart \in Nat /\ low + PageSize <= StackStart
  BY SizesOK, StartupAssumption
<1>2. StackPages = {Page(x) : x \in low + PageSize .. StackStart}
  BY DEF StackPages
<1> HIDE DEF low
<1>3. Page(low + 1 * PageSize) = Page(low) + 1
  BY <1>1, PageStep
<1>4. low + 1 * PageSize = low + PageSize /\ low + PageSize \in Nat
  BY <1>1
<1>5. StackPages = Page(low) + 1 .. Page(StackStart)
  BY <1>1, <1>2, <1>3, <1>4, IntervalPages
<1> QED BY <1>1, <1>5 DEF low

-----------------------------------------------------------------------------
(* What the loader has made of memory, segment by segment.                 *)

\* The pages, and the byte of an address, the first n segments make.
PagesTo(d, n) == UNION {Pages(d.segments[i]) : i \in 1 .. n}
CoverTo(d, n, a) == {i \in Covering(d, a) : i <= n}
ImageTo(d, n, a) == IF CoverTo(d, n, a) = {} THEN 0 ELSE ByteOf(d, Max(CoverTo(d, n, a)), a)

\* The first n segments can be loaded.
NoStop(d, n) == \A i \in 1 .. n : i \notin Stops(d)

\* Memory has the pages S, and in them n segments and of the next one what is done.
MemoryIs(d, S, n, done) ==
  \A a \in Address :
    /\ isValidAddr(memory, a) <=> Page(a) \in S
    /\ isValidAddr(memory, a) =>
         load_byte(memory, a) = IF a \in done THEN ByteOf(d, n + 1, a) ELSE ImageTo(d, n, a)

\* In the loop over the pages of segment s, and in the one over its bytes.
Mapped(d, s) ==
  \E j \in Nat :
    /\ p = From(s) + j * PageSize /\ (j > 0 => (j - 1) * PageSize < s.memsz)
    /\ MemoryIs(d, PagesTo(d, next) \cup (Page(From(s)) .. Page(From(s)) + j - 1), next, {})
Copied(d, s) ==
  /\ p <= From(s) + s.filesz /\ (From(s) < p => ~ NoData(s))
  /\ MemoryIs(d, PagesTo(d, next + 1), next, From(s) .. p - 1)
  /\ \A a \in From(s) .. p - 1 : Page(a) \in PagesTo(d, next + 1)

\* The loop over the pages of the stack, and what the simulation starts from.
StackTo(d, m) == MemoryIs(d, PagesTo(d, m) \cup (Page(p) + 1 .. Page(StackStart)), m, {})
Image0(d, m)  == cycle = 0 => MemoryIs(d, PagesTo(d, m) \cup StackPages, m, {})

\* The process has ended over segment n.
EndedOver(d, n) == NoStop(d, n - 1) /\ n \in Stops(d) /\ (NoData(d.segments[n]) <=> at = "crash")
Ended(d) ==
  \/ \E n \in 1 .. Len(d.segments) : EndedOver(d, n)
  \/ at = "crash" /\ verbose /\ ~ scenario.writable

LoadOf(d) ==
  /\ at = "load" =>
       /\ next <= Len(d.segments) /\ NoStop(d, next) /\ MemoryIs(d, PagesTo(d, next), next, {})
  /\ at = "map" => NoStop(d, next) /\ Mapped(d, d.segments[next + 1])
  /\ at = "copy" => NoStop(d, next) /\ Copied(d, d.segments[next + 1])
  /\ at = "stack" => NoStop(d, Len(d.segments)) /\ StackTo(d, Len(d.segments))
  /\ Loaded => NoStop(d, Len(d.segments)) /\ Image0(d, Len(d.segments))
  /\ at \in {"exit", "crash"} /\ ~ Started => Ended(d)

LoadInv == at \in Behind /\ Intact(linked) /\ Fits(linked) => LoadOf(linked)

\* An address that segment i covers is on one of its pages or of those before.
LEMMA Covered ==
  ASSUME NEW d, Describes(d), NEW n \in Nat, n <= Len(d.segments), NoStop(d, n), NEW a \in Address,
         NEW i \in CoverTo(d, n, a)
  PROVE  Page(a) \in PagesTo(d, n)
<1> DEFINE s == d.segments[i]
           k == a - From(s)
<1>1. i \in Covering(d, a) /\ i <= n
  BY Zenon DEF CoverTo
<1>2. i \in DOMAIN d.segments /\ a \in From(s) .. From(s) + s.filesz - 1
  BY <1>1, Zenon DEF Covering
<1>3. i \in 1 .. Len(d.segments) /\ Len(d.segments) \in Nat
  BY <1>2, SizesOfFile
<1>4. From(s) \in Nat /\ s.filesz \in Nat /\ a \in Nat
  BY <1>3, HeadersOK, SizesOK DEF Address
<1>5. k \in 0 .. s.filesz - 1 /\ From(s) + k = a
  <2> HIDE DEF s
  <2> QED BY ONLY <1>2, <1>4 DEF k
<1>6. i \in 1 .. n
  <2>1. i \in Nat /\ i >= 1
    BY <1>3
  <2> QED BY ONLY <1>1, <2>1, n \in Nat
<1>7. i \notin Stops(d)
  BY <1>6, Zenon DEF NoStop
<1>8. ~ NoPage(d, i)
  BY <1>2, <1>7, Zenon DEF Stops
<1>9. Page(From(s) + k) \in UNION {Pages(d.segments[j]) : j \in 1 .. i}
  BY <1>5, <1>8, Zenon DEF NoPage
<1>10. PICK j \in 1 .. i : Page(a) \in Pages(d.segments[j])
  BY <1>5, <1>9, Zenon
<1>11. j \in 1 .. n
  BY <1>6, <1>10
<1> QED BY <1>10, <1>11, Zenon DEF PagesTo

\* One segment more.
LEMMA PagesMore ==
  ASSUME NEW d, NEW n \in Nat
  PROVE  PagesTo(d, n + 1) = PagesTo(d, n) \cup Pages(d.segments[n + 1]) /\ PagesTo(d, 0) = {}
<1>1. 1 .. n + 1 = (1 .. n) \cup {n + 1} /\ 1 .. 0 = {}
  OBVIOUS
<1>2. PagesTo(d, n + 1) = UNION {Pages(d.segments[i]) : i \in (1 .. n) \cup {n + 1}}
  BY <1>1, Zenon DEF PagesTo
<1>3. PagesTo(d, 0) = UNION {Pages(d.segments[i]) : i \in {}}
  BY <1>1, Zenon DEF PagesTo
<1> QED BY <1>2, <1>3 DEF PagesTo

\* Its bytes hide those of the segments before it.
LEMMA ImageMore ==
  ASSUME NEW d, Describes(d), NEW n \in Nat, n + 1 <= Len(d.segments), NEW a
  PROVE  LET s == d.segments[n + 1]
         IN  ImageTo(d, n + 1, a) = IF a \in From(s) .. From(s) + s.filesz - 1
                                    THEN ByteOf(d, n + 1, a) ELSE ImageTo(d, n, a)
<1> DEFINE s == d.segments[n + 1]
           C == CoverTo(d, n + 1, a)
<1>1. DOMAIN d.segments = 1 .. Len(d.segments) /\ Len(d.segments) \in Nat
  BY SizesOfFile
<1>2. n + 1 \in DOMAIN d.segments
  BY <1>1
<1>3. Covering(d, a) \subseteq 1 .. Len(d.segments)
  BY <1>1, Zenon DEF Covering
<1>4. n + 1 \in Covering(d, a) <=> a \in From(s) .. From(s) + s.filesz - 1
  BY <1>2, Zenon DEF Covering
<1>5. C \subseteq 0 .. n + 1
  BY <1>1, <1>3 DEF CoverTo
<1>6. CASE a \in From(s) .. From(s) + s.filesz - 1
  <2>1. n + 1 \in C
    BY <1>4, <1>6 DEF CoverTo
  <2> HIDE DEF C
  <2>2. n + 1 \in Nat /\ C \in SUBSET (0 .. n + 1) /\ C # {}
    BY <1>5, <2>1
  <2>3. Max(C) \in C /\ \A x \in C : Max(C) >= x
    BY <2>2, MaxOK
  <2>4. Max(C) \in 0 .. n + 1 /\ Max(C) >= n + 1
    BY <2>1, <2>2, <2>3
  <2>5. Max(C) = n + 1
    BY <2>4
  <2>6. ImageTo(d, n + 1, a) = ByteOf(d, n + 1, a)
    BY <2>2, <2>5, Zenon DEF ImageTo, C
  <2> QED BY <1>6, <2>6, Zenon
<1>7. CASE a \notin From(s) .. From(s) + s.filesz - 1
  <2>1. C = CoverTo(d, n, a)
    BY <1>1, <1>3, <1>4, <1>7 DEF CoverTo
  <2>2. ImageTo(d, n + 1, a) = ImageTo(d, n, a)
    BY <2>1, Zenon DEF ImageTo
  <2> QED BY <1>7, <2>2, Zenon
<1> QED BY <1>6, <1>7

\* All of them, and none.
LEMMA ImageAll ==
  ASSUME NEW d, Describes(d), NEW a
  PROVE  ImageTo(d, Len(d.segments), a) = Image(d, a)
<1>1. DOMAIN d.segments = 1 .. Len(d.segments) /\ Len(d.segments) \in Nat
  BY SizesOfFile
<1>2. Covering(d, a) \subseteq 1 .. Len(d.segments)
  BY <1>1, Zenon DEF Covering
<1>3. CoverTo(d, Len(d.segments), a) = Covering(d, a)
  <2> DEFINE m == Len(d.segments)
             C == Covering(d, a)
  <2>1. \A i \in C : i \in 1 .. m
    BY <1>2
  <2>2. \A i \in 1 .. m : i <= m
    BY <1>1
  <2>3. {i \in C : i <= m} = C
    <3> HIDE DEF m, C
    <3> QED BY <2>1, <2>2, Zenon
  <2> QED BY <2>3, Zenon DEF CoverTo
<1> QED BY <1>3, Zenon DEF ImageTo, Image

\* Allocating a page adds it, and its bytes are zeros: no segment so far covers any.
LEMMA AllocIs ==
  ASSUME memory \in Memories, NEW d, Describes(d), NEW n \in Nat, n <= Len(d.segments), NoStop(d, n),
         NEW S, PagesTo(d, n) \subseteq S, MemoryIs(d, S, n, {}), NEW q \in Address,
         memory' = alloc(memory, q), NEW T, T = S \cup {Page(q)}
  PROVE  MemoryIs(d, T, n, {})'
<1> SUFFICES ASSUME NEW a \in Address
             PROVE  /\ isValidAddr(memory', a) <=> Page(a) \in T
                    /\ isValidAddr(memory', a) => load_byte(memory', a) = ImageTo(d, n, a)
  BY Zenon DEF MemoryIs
<1>1. /\ isValidAddr(memory, a) <=> Page(a) \in S
      /\ isValidAddr(memory, a) => load_byte(memory, a) = ImageTo(d, n, a)
  BY Zenon DEF MemoryIs
<1>2. /\ isValidAddr(memory', a) <=> isValidAddr(memory, a) \/ Page(a) = Page(q)
      /\ isValidAddr(memory, a) => load_byte(memory', a) = load_byte(memory, a)
      /\ ~ isValidAddr(memory, a) /\ Page(a) = Page(q) => load_byte(memory', a) = 0
  BY AllocCorrect
<1>3. Page(a) \notin S => ImageTo(d, n, a) = 0
  <2> SUFFICES ASSUME Page(a) \notin S PROVE CoverTo(d, n, a) = {}
    BY Zenon DEF ImageTo
  <2> SUFFICES ASSUME NEW i \in CoverTo(d, n, a) PROVE FALSE
    OBVIOUS
  <2>1. Page(a) \in PagesTo(d, n)
    BY Covered
  <2> QED BY <2>1
<1>4. Page(a) \in T <=> Page(a) \in S \/ Page(a) = Page(q)
  OBVIOUS
<1> QED BY <1>1, <1>2, <1>3, <1>4, Zenon

\* Copying a byte of the next segment.
LEMMA StoreIs ==
  ASSUME memory \in Memories, NEW d, NEW n, NEW S, NEW done, MemoryIs(d, S, n, done),
         NEW q \in Address, isValidAddr(memory, q), NEW v \in Cell, v = ByteOf(d, n + 1, q),
         memory' = store_byte(memory, q, v), NEW more, more = done \cup {q}
  PROVE  MemoryIs(d, S, n, more)'
<1> SUFFICES ASSUME NEW a \in Address
             PROVE  /\ isValidAddr(memory', a) <=> Page(a) \in S
                    /\ isValidAddr(memory', a) =>
                         load_byte(memory', a) =
                           IF a \in more THEN ByteOf(d, n + 1, a) ELSE ImageTo(d, n, a)
  BY Zenon DEF MemoryIs
<1>1. /\ isValidAddr(memory, a) <=> Page(a) \in S
      /\ isValidAddr(memory, a) =>
           load_byte(memory, a) = IF a \in done THEN ByteOf(d, n + 1, a) ELSE ImageTo(d, n, a)
  BY Zenon DEF MemoryIs
<1>2. /\ isValidAddr(memory', a) <=> isValidAddr(memory, a)
      /\ load_byte(memory', a) = IF a = q THEN v ELSE load_byte(memory, a)
  BY StoreCorrect
<1>3. a \in more <=> a \in done \/ a = q
  OBVIOUS
<1>4. CASE a = q
  BY <1>1, <1>2, <1>3, <1>4, Zenon
<1>5. CASE a # q
  BY <1>1, <1>2, <1>3, <1>5, Zenon
<1> QED BY <1>4, <1>5

-----------------------------------------------------------------------------
(* The steps of the loader.                                                *)

\* A description of an intact file whose segments the reader has.
Linked(d) ==
  Describes(d) /\ Intact(d) /\ Fits(d) /\ bytes = Written(d) /\ SegmentsRead(d, Len(d.segments))

\* The segment the loader is at is the one the linker wrote, and nothing wraps around.
LEMMA SegmentIs ==
  ASSUME TypeInv, NEW d, Linked(d), next < Len(segments), NEW s, s = d.segments[next + 1]
  PROVE  /\ next \in Nat /\ next + 1 \in 1 .. Len(d.segments) /\ next + 1 <= Len(d.segments)
         /\ From(s) \in Nat /\ s.memsz \in Nat /\ s.filesz \in Nat
         /\ seg_start = From(s) /\ map_end = From(s) + s.memsz /\ data_end = From(s) + s.filesz
         /\ From(s) + s.memsz <= AddrMod - PageSize /\ From(s) + s.filesz <= AddrMod - PageSize
         /\ (seg.data = NULL <=> s.type = 0 \/ s.filesz = 0)
         /\ (seg.data # NULL => seg.data = Cells(d, s.offset, s.filesz))
<1> USE DEF Linked
<1>1. ReaderOK /\ next \in Nat
  BY DEF TypeInv, Control
<1>2. next + 1 \in 1 .. Len(d.segments) /\ next + 1 <= Len(d.segments)
      /\ next + 1 \in DOMAIN d.segments
  <2>1. Len(d.segments) = Len(segments) /\ Len(segments) \in Nat
    BY <1>1, AppendAny DEF SegmentsRead, ReaderOK
  <2>2. DOMAIN d.segments = 1 .. Len(d.segments)
    BY SizesOfFile
  <2> QED BY <1>1, <2>1, <2>2
<1>3. SegmentAs(seg, s) /\ seg.data = IF s.type = 0 \/ s.filesz = 0 THEN NULL ELSE Cells(d, s.offset, s.filesz)
  <2>1. SegmentRead(seg, s, d)
    BY <1>2, Zenon DEF SegmentsRead, seg
  <2> QED BY <2>1, Zenon DEF SegmentRead
<1>4. s.memsz \in Nat /\ s.filesz \in Nat /\ s.offset \in Nat /\ From(s) \in Address
  BY <1>2, HeadersOK
<1>5. From(s) + Max({s.memsz, s.filesz}) <= AddrMod - PageSize
  BY <1>2, Zenon DEF Fits
<1>6. /\ seg_start = From(s) /\ map_end = Uint32(From(s) + Uint32(s.memsz))
      /\ data_end = Uint32(From(s) + Uint32(s.filesz))
  BY <1>3, Zenon DEF seg_start, map_end, data_end, From, Uint32, SegmentAs
<1>7. seg.data = NULL <=> s.type = 0 \/ s.filesz = 0
  <2>1. SUFFICES ASSUME s.type # 0, s.filesz # 0 PROVE Cells(d, s.offset, s.filesz) # NULL
    BY <1>3, Zenon
  <2>2. s.offset + s.filesz <= d.size
    BY <1>2, <2>1, Zenon DEF Intact
  <2>3. d.size = Len(Whole(d)) /\ bytes \in Seq(Nat)
    BY <1>1, Zenon DEF Intact, ReaderOK
  <2> QED BY <1>4, <2>2, <2>3, CellsOK
<1> DEFINE a == From(s)
           m == s.memsz
           f == s.filesz
           w == AddrMod
<1>8. /\ a \in Nat /\ m \in Nat /\ f \in Nat /\ w \in Nat /\ PageSize \in Nat \ {0}
      /\ a + Max({m, f}) <= w - PageSize
  <2>1. From(s) \in Nat
    BY <1>4, SizesOK DEF Address
  <2> QED BY <1>4, <1>5, <2>1, SizesOK
<1> HIDE DEF a, m, f, w
<1>9. a + m <= w - PageSize /\ a + f <= w - PageSize
  <2>1. m \in Int /\ f \in Int
    BY <1>8
  <2>2. Max({m, f}) = IF m <= f THEN f ELSE m
    BY ONLY <2>1, MinMax
  <2> QED BY <1>8, <2>2
<1>10. m < w /\ f < w /\ a + m < w /\ a + f < w /\ a + m \in Nat /\ a + f \in Nat
  BY <1>8, <1>9
<1>11. Uint32(m) = m /\ Uint32(f) = f /\ Uint32(a + m) = a + m /\ Uint32(a + f) = a + f
  BY <1>8, <1>10, Uint32OK DEF w
<1> QED BY <1>1, <1>2, <1>3, <1>6, <1>7, <1>8, <1>9, <1>11, Zenon DEF a, m, f, w

\* The places of the loader, where nothing else of LoadOf speaks.
LEMMA AtPlace ==
  ASSUME NEW d, sp' = 0,
         \/ /\ at' = "load" /\ (next <= Len(d.segments))' /\ NoStop(d, next)'
            /\ MemoryIs(d, PagesTo(d, next), next, {})'
         \/ at' = "map" /\ NoStop(d, next)' /\ Mapped(d, d.segments[next + 1])'
         \/ at' = "copy" /\ NoStop(d, next)' /\ Copied(d, d.segments[next + 1])'
         \/ at' = "stack" /\ NoStop(d, Len(d.segments)) /\ StackTo(d, Len(d.segments))'
  PROVE  LoadOf(d)'
BY DEF LoadOf, Loaded, Started

\* Empty memory is what no segment makes.
LEMMA NoneLoaded ==
  ASSUME NEW d, memory' = NoPages, next' = 0
  PROVE  NoStop(d, next)' /\ MemoryIs(d, PagesTo(d, next), next, {})'
<1>1. PagesTo(d, 0) = {} /\ 0 \in Nat
  BY PagesMore
<1>2. \A a \in Address : ~ isValidAddr(memory', a)
  BY NoPagesEmpty
<1>3. NoStop(d, 0)
  BY DEF NoStop
<1> QED BY <1>1, <1>2, <1>3 DEF MemoryIs

\* From one segment to the next, or to the stack.
LEMMA LoadNextStep ==
  ASSUME TypeInv, NEW d, Linked(d), LoadOf(d), sp = 0, LoadNext
  PROVE  LoadOf(d)'
<1>1. /\ at = "load" /\ UNCHANGED <<memory, sp>> /\ next \in Nat /\ ReaderOK
      /\ \/ next < Len(segments) /\ at' = "map" /\ p' = seg_start /\ next' = next
         \/ ~ (next < Len(segments)) /\ at' = "stack" /\ p' = StackStart
  BY DEF LoadNext, Beside, machine, TypeInv, Control
<1>2. next <= Len(d.segments) /\ NoStop(d, next) /\ MemoryIs(d, PagesTo(d, next), next, {})
  BY <1>1, Zenon DEF LoadOf
<1>3. Len(d.segments) = Len(segments) /\ Len(segments) \in Nat
  BY <1>1, AppendAny DEF Linked, SegmentsRead, ReaderOK
<1>4. CASE next < Len(segments) /\ at' = "map" /\ p' = seg_start /\ next' = next
  <2> DEFINE s == d.segments[next + 1]
             q == Page(From(s))
  <2>1. seg_start = From(s) /\ From(s) \in Nat
    BY <1>4, SegmentIs
  <2>2. q \in Nat /\ PageSize \in Nat
    BY <2>1, PageParts, SizesOK
  <2> HIDE DEF s, q
  <2>3. q .. q + 0 - 1 = {} /\ From(s) + 0 * PageSize = From(s) /\ ~ (0 > 0) /\ 0 \in Nat
    BY <2>1, <2>2
  <2>4. MemoryIs(d, PagesTo(d, next) \cup (q .. q + 0 - 1), next, {})'
    <3>1. PagesTo(d, next) \cup (q .. q + 0 - 1) = PagesTo(d, next)
      BY <2>3
    <3>2. MemoryIs(d, PagesTo(d, next) \cup (q .. q + 0 - 1), next, {})
      BY <1>2, <3>1, Zenon
    <3> QED BY <1>1, <1>4, <3>2, Zenon DEF MemoryIs, s, q
  <2>5. Mapped(d, s)'
    BY <1>4, <2>1, <2>3, <2>4, Zenon DEF Mapped, s, q
  <2> QED BY <1>1, <1>2, <1>4, <2>5, AtPlace DEF s
<1>5. CASE ~ (next < Len(segments)) /\ at' = "stack" /\ p' = StackStart
  <2>1. next = Len(d.segments)
    BY <1>1, <1>2, <1>3, <1>5
  <2>2. Page(StackStart) + 1 .. Page(StackStart) = {}
    <3>1. Page(StackStart) \in Nat
      BY StackPagesAre, StackStartOK, PageParts, SizesOK DEF Address
    <3> QED BY <3>1
  <2>3. PagesTo(d, Len(d.segments)) \cup (Page(StackStart) + 1 .. Page(StackStart)) = PagesTo(d, next)
    BY <2>1, <2>2
  <2>4. MemoryIs(d, PagesTo(d, Len(d.segments)) \cup (Page(StackStart) + 1 .. Page(StackStart)),
                 Len(d.segments), {})
    BY <1>2, <2>1, <2>3, Zenon
  <2>5. StackTo(d, Len(d.segments))'
    BY <1>1, <1>5, <2>4, Zenon DEF StackTo, MemoryIs
  <2> QED BY <1>1, <1>2, <1>5, <2>1, <2>5, AtPlace
<1> QED BY <1>1, <1>4, <1>5

\* A page of the segment, or all of them are there.
LEMMA MapPageStep ==
  ASSUME TypeInv, NEW d, Linked(d), LoadOf(d), sp = 0, MapPage
  PROVE  LoadOf(d)'
<1> PICK k : k = next
  OBVIOUS
<1> DEFINE s == d.segments[k + 1]
           a == From(s)
           q == Page(a)
           n == s.memsz
<1>1. /\ at = "map" /\ sp' = sp /\ p \in Address /\ next < Len(segments)
      /\ memory \in Memories
      /\ \/ p < map_end /\ at' = at /\ p' = NextPage(p) /\ memory' = alloc(memory, p)
         \/ ~ (p < map_end) /\ at' = "copy" /\ p' = seg_start /\ memory' = memory
      /\ next' = k
  BY DEF MapPage, TypeInv, Control, MemoryOK
<1>2. NoStop(d, k) /\ Mapped(d, s)
  BY <1>1, Zenon DEF LoadOf
<1>3. /\ k \in Nat /\ k <= Len(d.segments) /\ a \in Nat /\ n \in Nat
      /\ seg_start = a /\ map_end = a + n /\ a + n <= AddrMod - PageSize
  <2>1. next \in Nat /\ next + 1 \in 1 .. Len(d.segments)
    BY <1>1, SegmentIs
  <2>2. Len(d.segments) \in Nat
    BY SizesOfFile DEF Linked
  <2>3. k <= Len(d.segments)
    BY <2>1, <2>2
  <2> QED BY <1>1, <2>1, <2>3, SegmentIs
<1>4. PICK j \in Nat : /\ p = a + j * PageSize /\ (j > 0 => (j - 1) * PageSize < n)
                       /\ MemoryIs(d, PagesTo(d, k) \cup (q .. q + j - 1), k, {})
  BY <1>2, Zenon DEF Mapped
<1>5. q \in Nat /\ PageSize \in Nat \ {0} /\ AddrMod \in Nat
  BY <1>3, PageParts, SizesOK
<1>6. CASE p < map_end /\ at' = at /\ p' = NextPage(p) /\ memory' = alloc(memory, p)
  <2>1. Page(p) = q + j
    BY <1>3, <1>4, PageStep
  <2> HIDE DEF a, q, n
  <2> PICK i \in Nat : i = j + 1
    OBVIOUS
  <2>2. PagesTo(d, k) \cup (q .. q + i - 1)
          = (PagesTo(d, k) \cup (q .. q + j - 1)) \cup {Page(p)}
    <3>1. q .. q + i - 1 = (q .. q + j - 1) \cup {q + j}
      BY <1>5
    <3> QED BY <2>1, <3>1
  <2>3. MemoryIs(d, PagesTo(d, k) \cup (q .. q + i - 1), k, {})'
    <3> PICK S : S = PagesTo(d, k) \cup (q .. q + j - 1)
      OBVIOUS
    <3> PICK T : T = PagesTo(d, k) \cup (q .. q + i - 1)
      OBVIOUS
    <3> PICK r : r = p
      OBVIOUS
    <3>1. Describes(d)
      BY DEF Linked
    <3>2. T = S \cup {Page(r)} /\ r \in Address /\ memory' = alloc(memory, r)
      BY <1>1, <1>6, <2>2
    <3>3. k \in Nat /\ k <= Len(d.segments) /\ NoStop(d, k)
      BY <1>2, <1>3
    <3>4. PagesTo(d, k) \subseteq S /\ MemoryIs(d, S, k, {})
      BY <1>4
    <3>5. MemoryIs(d, T, k, {})'
      BY ONLY <1>1, <3>1, <3>2, <3>3, <3>4, AllocIs
    <3> QED BY <3>5
  <2>4. p' = a + i * PageSize
    <3>1. p + PageSize < AddrMod /\ p + PageSize \in Nat
      <4>1. p \in Nat /\ p < a + n
        BY <1>1, <1>3, <1>6, SizesOK DEF Address
      <4> QED BY <1>3, <1>5, <4>1
    <3>2. p' = p + PageSize
      BY <1>6, <3>1, Uint32OK DEF NextPage
    <3>3. i * PageSize = j * PageSize + PageSize /\ j * PageSize \in Nat
      BY <1>5
    <3> QED BY <1>3, <1>4, <1>5, <3>2, <3>3
  <2>5. (i - 1) * PageSize < n
    <3>1. j * PageSize < n
      <4>1. j * PageSize \in Nat
        BY <1>5
      <4> QED BY <1>3, <1>4, <1>6, <4>1
    <3>2. i - 1 = j
      OBVIOUS
    <3> QED BY <3>1, <3>2
  <2>6. MemoryIs(d, PagesTo(d, next) \cup (q .. q + i - 1), next, {})'
    BY <1>1, <2>3, Zenon DEF MemoryIs
  <2>7. Mapped(d, s)'
    BY <2>4, <2>5, <2>6, Zenon DEF Mapped, s, a, q, n
  <2> QED BY <1>1, <1>2, <1>6, <2>7, AtPlace DEF s
<1>7. CASE ~ (p < map_end) /\ at' = "copy" /\ p' = seg_start /\ memory' = memory
  <2>1. n <= j * PageSize
    <3> HIDE DEF a, n
    <3>1. j * PageSize \in Nat
      BY <1>5
    <3> QED BY <1>3, <1>4, <1>7, <3>1
  <2>2. Pages(s) = q .. q + j - 1
    BY <1>3, <1>4, <2>1, PagesOfLoop
  <2>3. PagesTo(d, k + 1) = PagesTo(d, k) \cup (q .. q + j - 1)
    <3>1. k \in Nat
      BY <1>3
    <3>2. PagesTo(d, k + 1) = PagesTo(d, k) \cup Pages(d.segments[k + 1])
      BY ONLY <3>1, PagesMore
    <3> QED BY <2>2, <3>2
  <2>4. a .. a - 1 = {} /\ a <= a + s.filesz /\ ~ (a < a)
    <3>1. s.filesz \in Nat
      BY <1>1, SegmentIs
    <3> HIDE DEF a, s
    <3> QED BY <1>3, <3>1
  <2>5. MemoryIs(d, PagesTo(d, k + 1), k, a .. a - 1)
    BY <1>4, <2>3, <2>4, Zenon
  <2>6. Copied(d, s)'
    <3>1. p' = a
      BY <1>3, <1>7
    <3>2. MemoryIs(d, PagesTo(d, k + 1), k, a .. p - 1)'
      BY <1>1, <1>7, <2>5, <3>1, Zenon DEF MemoryIs, s, a
    <3>3. \A b \in a .. a - 1 : Page(b) \in PagesTo(d, k + 1)
      BY <2>4
    <3> QED BY <1>1, <2>4, <3>1, <3>2, <3>3, Zenon DEF Copied, s, a
  <2> QED BY <1>1, <1>2, <1>7, <2>6, AtPlace DEF s
<1> QED BY <1>1, <1>6, <1>7

\* A byte of the segment, its end, or the end of the process over it.
LEMMA CopyByteStep ==
  ASSUME TypeInv, NEW d, Linked(d), LoadOf(d), sp = 0, CopyByte
  PROVE  LoadOf(d)'
<1> PICK k : k = next
  OBVIOUS
<1> DEFINE s == d.segments[k + 1]
           a == From(s)
           f == s.filesz
<1>1. /\ at = "copy" /\ sp' = sp /\ p \in Address /\ p \in Nat /\ next < Len(segments)
      /\ memory \in Memories /\ ReaderOK /\ a <= p
  <2>1. seg_start <= p /\ next < Len(segments) /\ at = "copy"
    BY DEF CopyByte, TypeInv, Control
  <2>2. seg_start = a
    BY <2>1, SegmentIs
  <2> QED BY <2>1, <2>2, SizesOK DEF CopyByte, TypeInv, Control, MemoryOK, Address
<1>2. NoStop(d, k) /\ Copied(d, s)
  BY <1>1, Zenon DEF LoadOf
<1>3. /\ k \in Nat /\ k + 1 \in 1 .. Len(d.segments) /\ k + 1 \in DOMAIN d.segments
      /\ a \in Nat /\ f \in Nat /\ seg_start = a /\ data_end = a + f
      /\ (seg.data = NULL <=> s.type = 0 \/ f = 0)
      /\ (seg.data # NULL => seg.data = Cells(d, s.offset, f))
      /\ Describes(d) /\ Len(d.segments) \in Nat
  <2>1. Describes(d)
    BY DEF Linked
  <2>2. DOMAIN d.segments = 1 .. Len(d.segments) /\ Len(d.segments) \in Nat
    BY <2>1, SizesOfFile
  <2> QED BY <1>1, <2>1, <2>2, SegmentIs
<1>4. /\ p <= a + f /\ (a < p => ~ NoData(s))
      /\ MemoryIs(d, PagesTo(d, k + 1), k, a .. p - 1)
      /\ \A b \in a .. p - 1 : Page(b) \in PagesTo(d, k + 1)
  BY <1>2, Zenon DEF Copied
<1>5. NoStop(d, k + 1) <=> k + 1 \notin Stops(d)
  <2>1. 1 .. k + 1 = (1 .. k) \cup {k + 1}
    BY <1>3
  <2> QED BY <1>2, <2>1, Zenon DEF NoStop
<1>6. k + 1 \in Stops(d) <=> NoData(s) \/ NoPage(d, k + 1)
  BY <1>3, Zenon DEF Stops
<1>7. p >= data_end \/ p < data_end
  <2> HIDE DEF a, f
  <2> QED BY <1>1, <1>3
<1>8. CASE p >= data_end
  <2>1. at' = "load" /\ next' = k + 1 /\ memory' = memory
    <3>1. ~ (p < data_end)
      <4> HIDE DEF a, f
      <4> QED BY <1>1, <1>3, <1>8
    <3> QED BY <1>8, <3>1 DEF CopyByte
  <2>2. p = a + f
    <3> HIDE DEF a, f
    <3> QED BY <1>1, <1>3, <1>4, <1>8
  <2>3. ~ NoData(s)
    <3>1. CASE f > 0
      <4>1. a < p
        <5> HIDE DEF a, f
        <5> QED BY <1>3, <2>2, <3>1
      <4> QED BY <1>4, <4>1
    <3>2. CASE ~ (f > 0)
      BY <3>2, Zenon DEF NoData
    <3> QED BY <3>1, <3>2
  <2>4. ~ NoPage(d, k + 1)
    <3> SUFFICES ASSUME NEW i \in 0 .. f - 1 PROVE Page(a + i) \in UNION {Pages(d.segments[j]) : j \in 1 .. k + 1}
      BY Zenon DEF NoPage
    <3>1. a + i \in a .. p - 1
      <4> HIDE DEF a, f
      <4> QED BY <1>3, <2>2
    <3> QED BY <1>4, <3>1, Zenon DEF PagesTo
  <2>5. NoStop(d, k + 1)
    BY <1>5, <1>6, <2>3, <2>4
  <2>6. MemoryIs(d, PagesTo(d, k + 1), k + 1, {})
    <3>0. MemoryIs(d, PagesTo(d, k + 1), k, a .. a + f - 1)
      <4>1. a .. p - 1 = a .. a + f - 1
        <5> HIDE DEF a, f
        <5> QED BY <1>1, <1>3, <2>2
      <4> HIDE DEF a, f
      <4> QED BY <1>4, <4>1
    <3>1. ASSUME NEW b
          PROVE  (IF b \in a .. a + f - 1 THEN ByteOf(d, k + 1, b) ELSE ImageTo(d, k, b)) = ImageTo(d, k + 1, b)
      <4>1. k + 1 <= Len(d.segments)
        BY <1>3
      <4>2. ImageTo(d, k + 1, b) = IF b \in a .. a + f - 1 THEN ByteOf(d, k + 1, b) ELSE ImageTo(d, k, b)
        <5>1. k \in Nat /\ Describes(d)
          BY <1>3
        <5>2. PICK k0 : k0 = k
          OBVIOUS
        <5>3. LET t == d.segments[k0 + 1]
              IN  ImageTo(d, k0 + 1, b) = IF b \in From(t) .. From(t) + t.filesz - 1
                                          THEN ByteOf(d, k0 + 1, b) ELSE ImageTo(d, k0, b)
          BY ONLY <4>1, <5>1, <5>2, ImageMore
        <5> QED BY <5>2, <5>3
      <4> QED BY <4>2, Zenon
    <3> QED BY <3>0, <3>1, Zenon DEF MemoryIs
  <2>7. k + 1 <= Len(d.segments)
    BY <1>3
  <2>8. MemoryIs(d, PagesTo(d, next), next, {})' /\ (next <= Len(d.segments))' /\ NoStop(d, next)'
    BY <2>1, <2>5, <2>6, <2>7, Zenon DEF MemoryIs
  <2> QED BY <1>1, <2>1, <2>8, AtPlace
<1>9. CASE p < data_end /\ seg.data = NULL
  <2>1. at' = "crash"
    <3>1. ~ (p >= data_end)
      <4> HIDE DEF a, f
      <4> QED BY <1>1, <1>3, <1>9
    <3> QED BY <1>9, <3>1 DEF CopyByte, Goto
  <2>2. f > 0
    <3> HIDE DEF a, f
    <3> QED BY <1>1, <1>3, <1>9
  <2>3. NoData(s)
    <3>1. f # 0
      BY <1>3, <2>2
    <3> QED BY <1>3, <1>9, <2>2, <3>1, Zenon DEF NoData
  <2>5. EndedOver(d, k + 1)'
    <3> PICK n : n = k + 1
      OBVIOUS
    <3>1. NoStop(d, n - 1) /\ n \in Stops(d) /\ NoData(d.segments[n]) /\ at' = "crash"
      <4>1. n - 1 = k
        BY <1>3
      <4>2. k + 1 \in Stops(d) /\ NoData(s) /\ at' = "crash"
        BY <1>6, <2>1, <2>3
      <4> QED BY <1>2, <4>1, <4>2
    <3>2. EndedOver(d, n)'
      BY <3>1, Zenon DEF EndedOver
    <3> QED BY <3>2
  <2> QED BY <1>1, <1>3, <2>1, <2>5 DEF LoadOf, Loaded, Started, Ended
<1>10. CASE p < data_end /\ seg.data # NULL /\ ~ isValidAddr(memory, p)
  <2>1. at' = "exit"
    <3>1. ~ (p >= data_end)
      <4> HIDE DEF a, f
      <4> QED BY <1>1, <1>3, <1>10
    <3> QED BY <1>10, <3>1 DEF CopyByte, Goto
  <2>2. ~ NoData(s)
    BY <1>3, <1>10, Zenon DEF NoData
  <2>3. Page(p) \notin PagesTo(d, k + 1)
    BY <1>1, <1>4, <1>10, Zenon DEF MemoryIs
  <2>4. p - a \in 0 .. f - 1 /\ a + (p - a) = p
    <3> HIDE DEF a, f
    <3> QED BY <1>1, <1>3, <1>10
  <2>5. NoPage(d, k + 1)
    BY <2>3, <2>4, Zenon DEF NoPage, PagesTo
  <2>7. EndedOver(d, k + 1)'
    <3> PICK n : n = k + 1
      OBVIOUS
    <3>1. NoStop(d, n - 1) /\ n \in Stops(d) /\ ~ NoData(d.segments[n]) /\ at' # "crash"
      <4>1. n - 1 = k
        BY <1>3
      <4>2. k + 1 \in Stops(d) /\ ~ NoData(s) /\ at' # "crash"
        BY <1>6, <2>1, <2>2, <2>5
      <4> QED BY <1>2, <4>1, <4>2
    <3>2. EndedOver(d, n)'
      BY <3>1, Zenon DEF EndedOver
    <3> QED BY <3>2
  <2> QED BY <1>1, <1>3, <2>1, <2>7 DEF LoadOf, Loaded, Started, Ended
<1>11. CASE p < data_end /\ seg.data # NULL /\ isValidAddr(memory, p)
  <2> PICK r : r = p
    OBVIOUS
  <2> DEFINE v == seg.data[r - seg_start + 1]
  <2>1. at' = "copy" /\ next' = k /\ p' = r + 1 /\ memory' = store_byte(memory, r, v)
    <3>1. ~ (p >= data_end)
      <4> HIDE DEF a, f
      <4> QED BY <1>1, <1>3, <1>11
    <3> QED BY <1>1, <1>11, <3>1 DEF CopyByte
  <2>2. r - a + 1 \in 1 .. f /\ r \in Nat /\ a <= r
    <3> HIDE DEF a, f
    <3> QED BY <1>1, <1>3, <1>11
  <2>3. s.offset \in Nat
    BY <1>3, HeadersOK
  <2>4. v = ByteOf(d, k + 1, r)
    <3>1. v = Whole(d)[s.offset + (r - a + 1)]
      BY <1>3, <1>11, <2>2, Zenon DEF Cells
    <3>2. s.offset + (r - a + 1) = s.offset + r - a + 1
      <4> HIDE DEF a, s
      <4> QED BY <1>3, <2>2, <2>3
    <3> QED BY <3>1, <3>2, Zenon DEF ByteOf
  <2>5. v \in Cell
    <3>1. next \in Nat /\ next < Len(segments) /\ ReaderOK
      BY <1>1 DEF TypeInv, Control
    <3>2. SegmentOK(seg) /\ r - seg_start + 1 \in 1 .. seg.file_size
      BY <1>1, <1>3, <1>11, <2>2, <3>1, SegmentAt
    <3> QED BY <1>11, <3>2 DEF SegmentOK
  <2>6. a .. r + 1 - 1 = (a .. r - 1) \cup {r}
    <3> HIDE DEF a
    <3> QED BY <1>3, <2>2
  <2>7. MemoryIs(d, PagesTo(d, k + 1), k, a .. r + 1 - 1)'
    <3> PICK S : S = PagesTo(d, k + 1)
      OBVIOUS
    <3> PICK done : done = a .. r - 1
      OBVIOUS
    <3> PICK more : more = a .. r + 1 - 1
      OBVIOUS
    <3> PICK w : w = v
      OBVIOUS
    <3>1. /\ MemoryIs(d, S, k, done) /\ r \in Address /\ isValidAddr(memory, r) /\ w \in Cell
          /\ w = ByteOf(d, k + 1, r) /\ memory' = store_byte(memory, r, w) /\ more = done \cup {r}
      BY <1>1, <1>4, <1>11, <2>1, <2>4, <2>5, <2>6
    <3>2. MemoryIs(d, S, k, more)'
      BY ONLY <1>1, <3>1, StoreIs
    <3> QED BY <3>2
  <2> HIDE DEF v
  <2>8. Page(r) \in PagesTo(d, k + 1)
    BY <1>1, <1>4, <1>11, Zenon DEF MemoryIs
  <2>9. \A b \in a .. r + 1 - 1 : Page(b) \in PagesTo(d, k + 1)
    BY <1>4, <2>6, <2>8
  <2>10. ~ NoData(s)
    BY <1>3, <1>11, Zenon DEF NoData
  <2>11. r + 1 <= a + f
    <3> HIDE DEF a, f
    <3> QED BY <1>3, <2>2
  <2>12. Copied(d, s)'
    <3> HIDE DEF a, f
    <3> PICK more : more = a .. r + 1 - 1
      OBVIOUS
    <3>1. more = a .. p' - 1 /\ p' <= a + f /\ next' + 1 = k + 1 /\ next' = k
      BY <1>3, <2>1, <2>2, <2>11
    <3>2. \A b \in more : Page(b) \in PagesTo(d, k + 1)
      BY <2>9
    <3>3. MemoryIs(d, PagesTo(d, k + 1), k, more)'
      BY <2>7
    <3>4. MemoryIs(d, PagesTo(d, next + 1), next, a .. p - 1)'
      BY <3>1, <3>3, Zenon DEF MemoryIs
    <3>5. \A b \in a .. p' - 1 : Page(b) \in PagesTo(d, next' + 1)
      BY <3>1, <3>2, Zenon
    <3> QED BY <2>10, <3>1, <3>4, <3>5, Zenon DEF Copied, a, f
  <2> QED BY <1>1, <1>2, <2>1, <2>12, AtPlace
<1> QED BY <1>7, <1>8, <1>9, <1>10, <1>11

\* A page of the stack, or it is there.
LEMMA MapStackStep ==
  ASSUME TypeInv, NEW d, Linked(d), LoadOf(d), sp = 0, cycle = 0, MapStack
  PROVE  LoadOf(d)'
<1> DEFINE m   == Len(d.segments)
           low == StackStart - StackSize
           top == Page(StackStart)
<1>1. /\ at = "stack" /\ sp' = sp /\ cycle' = cycle /\ p \in low .. StackStart /\ p % PageSize = 0
      /\ memory \in Memories /\ p \in Address
      /\ \/ /\ p > low /\ at' = at /\ p' = p - PageSize /\ memory' = alloc(memory, p)
         \/ /\ ~ (p > low) /\ at' \in {"print", "start"} /\ memory' = memory
  BY DEF MapStack, Goto, TypeInv, Control, MemoryOK
<1>2. NoStop(d, m) /\ MemoryIs(d, PagesTo(d, m) \cup (Page(p) + 1 .. top), m, {})
  BY <1>1, Zenon DEF LoadOf, StackTo
<1>3. /\ StackPages = Page(low) + 1 .. top /\ low \in Nat /\ StackStart \in Nat /\ PageSize \in Nat \ {0}
      /\ Describes(d) /\ m \in Nat
  <2>1. Describes(d)
    BY DEF Linked
  <2> QED BY <2>1, StackPagesAre, StartupAssumption, SizesOK, SizesOfFile
<1> HIDE DEF m, low
<1>4. p \in Nat /\ p <= StackStart /\ Page(p) \in Nat /\ top \in Nat /\ Page(p) <= top
  <2>1. p \in Nat /\ p <= StackStart
    BY <1>1, <1>3
  <2> QED BY <1>3, <2>1, PageParts, PageMono
<1> HIDE DEF top
<1>5. CASE p > low /\ at' = at /\ p' = p - PageSize /\ memory' = alloc(memory, p)
  <2> PICK u : u = Page(p)
    OBVIOUS
  <2>1. p' \in Nat /\ p = p' + 1 * PageSize
    <3>1. p - PageSize \in low .. StackStart
      BY <1>1, <1>5, StackStep DEF low
    <3> QED BY <1>3, <1>4, <1>5, <3>1
  <2>2. Page(p') + 1 = u
    BY <2>1, PageStep
  <2>3. u .. top = (u + 1 .. top) \cup {u}
    BY <1>4
  <2>4. MemoryIs(d, PagesTo(d, m) \cup (u .. top), m, {})'
    <3> PICK S : S = PagesTo(d, m) \cup (u + 1 .. top)
      OBVIOUS
    <3> PICK T : T = PagesTo(d, m) \cup (u .. top)
      OBVIOUS
    <3> PICK r : r = p
      OBVIOUS
    <3> PICK n : n = m
      OBVIOUS
    <3>1. /\ r \in Address /\ memory' = alloc(memory, r) /\ T = S \cup {Page(r)}
          /\ n \in Nat /\ n <= Len(d.segments) /\ NoStop(d, n) /\ PagesTo(d, n) \subseteq S
          /\ MemoryIs(d, S, n, {})
      BY <1>1, <1>2, <1>3, <1>5, <2>3 DEF m
    <3>2. MemoryIs(d, T, n, {})'
      BY ONLY <1>1, <1>3, <3>1, AllocIs
    <3> QED BY <3>2
  <2>5. StackTo(d, m)'
    BY <2>2, <2>4, Zenon DEF StackTo, top, MemoryIs
  <2> QED BY <1>1, <1>2, <1>5, <2>5, AtPlace DEF m
<1>6. CASE ~ (p > low) /\ at' \in {"print", "start"} /\ memory' = memory
  <2>1. p = low
    BY <1>1, <1>3, <1>4, <1>6
  <2>2. MemoryIs(d, PagesTo(d, m) \cup StackPages, m, {})
    BY <1>2, <1>3, <2>1
  <2>3. Image0(d, m)'
    BY <1>6, <2>2, Zenon DEF Image0, MemoryIs
  <2> QED BY <1>1, <1>2, <1>6, <2>3 DEF LoadOf, Started, m
<1> QED BY <1>1, <1>5, <1>6

\* The steps from a place where the program is loaded.
LEMMA AtLoaded ==
  ASSUME NEW d, NoStop(d, Len(d.segments)), Image0(d, Len(d.segments))',
         sp' # 0 /\ at' \notin {"load", "map", "copy", "stack"}
  PROVE  LoadOf(d)'
BY DEF LoadOf, Started

\* From there only the cycles write to memory.
LEMMA RunStep ==
  ASSUME TypeInv, StartInv, NEW d, LoadOf(d), PrintInfo \/ Start \/ Cycle \/ Finish \/ ReadCommand
  PROVE  LoadOf(d)'
<1> DEFINE m == Len(d.segments)
<1>1. Loaded
  <2>1. at \in {"print", "start", "cycle", "prompt"}
    BY DEF PrintInfo, Start, Cycle, Finish, ReadCommand
  <2>2. at \in {"cycle", "prompt"} => sp # 0
    BY StackStartOK DEF StartInv
  <2> QED BY <2>1, <2>2 DEF Loaded, Started
<1>2. NoStop(d, m) /\ Image0(d, m)
  BY <1>1, Zenon DEF LoadOf
<1>3. ASSUME memory' = memory, cycle' = cycle PROVE Image0(d, m)'
  BY <1>2, <1>3, Zenon DEF Image0, MemoryIs
<1>4. CASE PrintInfo
  <2>1. /\ memory' = memory /\ cycle' = cycle /\ sp' = sp /\ sp = 0 /\ verbose /\ UNCHANGED <<run, options>>
        /\ (at' = "start" \/ (at' = "crash" /\ ~ scenario.writable))
    BY <1>4 DEF PrintInfo, DumpMemory, Goto, machine, StartInv
  <2>2. at' = "crash" => Ended(d)'
    BY <2>1 DEF Ended, scenario, options
  <2> QED BY <1>2, <1>3, <2>1, <2>2 DEF LoadOf, Loaded, Started
<1>5. CASE Start
  <2>1. memory' = memory /\ cycle' = cycle /\ sp' # 0 /\ at' = "cycle"
    BY <1>5, StackStartOK DEF Start, Goto
  <2> QED BY <1>2, <1>3, <2>1, AtLoaded
<1>6. CASE Cycle
  <2>1. sp' # 0 /\ at' \in {"cycle", "prompt"} /\ cycle' # 0
    <3>1. cycle \in Nat
      BY StartupAssumption DEF TypeInv, MemoryOK
    <3> QED BY <1>6, <3>1, StackStartOK DEF Cycle, Goto, StartInv
  <2>2. Image0(d, m)'
    BY <2>1, Zenon DEF Image0
  <2> QED BY <1>2, <2>1, <2>2, AtLoaded
<1>7. CASE Finish \/ ReadCommand
  <2>1. memory' = memory /\ cycle' = cycle /\ sp' = sp /\ sp # 0
    BY <1>7, StackStartOK DEF Finish, ReadCommand, machine, StartInv
  <2>2. at' \in {"done", "exit", "crash", "cycle", "prompt"}
    BY <1>7 DEF Finish, ReadCommand, DumpMemory, Goto
  <2> QED BY <1>2, <1>3, <2>1, <2>2, AtLoaded
<1> QED BY <1>4, <1>5, <1>6, <1>7

\* No step leaves LoadOf.
LEMMA LoadInvNext == TypeInv /\ ReadInv /\ StartInv /\ LoadInv /\ [Next]_vars => LoadInv'
<1> SUFFICES ASSUME TypeInv, ReadInv, StartInv, LoadInv, [Next]_vars, at' \in Behind,
                    Intact(linked'), Fits(linked')
             PROVE  LoadOf(linked)'
  BY Zenon DEF LoadInv, Intact, Fits
<1> PICK d : d = linked
  OBVIOUS
<1>1. run' = run /\ file' = file => linked' = d
  BY DEF linked, scenario
<1>2. linked' = d /\ LoadOf(d)' => LoadOf(linked)'
  BY Zenon DEF LoadOf, Mapped, Copied, StackTo, Image0, Ended, EndedOver, MemoryIs
<1>3. CASE ParseArg \/ OpenFile \/ ReadIdent \/ ReadHeader \/ ReadSection \/ ReadName
  <2>1. at' \notin Behind
    BY <1>3 DEF ParseArg, OpenFile, ReadIdent, ReadHeader, ReadSection, ReadName, Goto, Again, Behind
  <2> QED BY <2>1
<1>4. CASE ReadSegment
  <2>1. /\ run' = run /\ file' = file /\ memory' = memory /\ sp' = sp /\ at = "segments" /\ at' # "segments"
        /\ at' = "load" /\ next' = 0
    BY <1>4 DEF ReadSegment, Beside, machine, options, Goto, Again, Behind
  <2>2. memory' = NoPages /\ sp' = 0
    BY <2>1 DEF StartInv, Behind
  <2>3. NoStop(d, next)' /\ MemoryIs(d, PagesTo(d, next), next, {})'
    BY <2>1, <2>2, NoneLoaded
  <2>4. (next <= Len(d.segments))'
    <3>1. Found
      BY <2>1 DEF ReadInv
    <3>2. Len(d.segments) \in Nat
      BY <3>1, LinkedOK, SizesOfFile
    <3> QED BY <2>1, <3>2
  <2> QED BY <1>1, <1>2, <2>1, <2>2, <2>3, <2>4, AtPlace
<1>5. CASE Onwards
  <2>1. at \in Behind /\ UNCHANGED <<run, options, reader>>
    BY <1>5, OnwardsFrame
  <2>2. linked' = d
    BY <1>1, <2>1 DEF options
  <2>3. Intact(d) /\ Fits(d) /\ LoadOf(d)
    BY <2>1, <2>2 DEF LoadInv
  <2>4. Linked(d)
    <3>1. Found /\ ReadOf(d)
      BY <2>1 DEF ReadInv, Behind
    <3> QED BY <2>1, <2>3, <3>1, LinkedOK DEF ReadOf, Linked
  <2>5. at \in {"load", "map", "copy", "stack"} => sp = 0 /\ cycle = 0
    BY DEF StartInv
  <2>6. CASE LoadNext
    BY <1>2, <2>2, <2>3, <2>4, <2>5, <2>6, LoadNextStep DEF LoadNext
  <2>7. CASE MapPage
    BY <1>2, <2>2, <2>3, <2>4, <2>5, <2>7, MapPageStep DEF MapPage
  <2>8. CASE CopyByte
    BY <1>2, <2>2, <2>3, <2>4, <2>5, <2>8, CopyByteStep DEF CopyByte
  <2>9. CASE MapStack
    BY <1>2, <2>2, <2>3, <2>4, <2>5, <2>9, MapStackStep DEF MapStack
  <2>10. CASE PrintInfo \/ Start \/ Cycle \/ Finish \/ ReadCommand
    BY <1>2, <2>2, <2>3, <2>10, RunStep
  <2> QED BY <1>5, <2>6, <2>7, <2>8, <2>9, <2>10 DEF Onwards
<1>6. CASE UNCHANGED vars
  <2>1. UNCHANGED <<run, at, next, p, options, machine>>
    BY <1>6 DEF vars
  <2>2. UNCHANGED <<run, at, next, p, file, verbose, memory, cycle, sp>>
    BY <2>1 DEF options, machine
  <2>3. Intact(d) /\ Fits(d) /\ at \in Behind
    BY <1>1, <2>2
  <2>4. LoadOf(d)
    BY <2>3 DEF LoadInv
  <2>5. LoadOf(d)'
    BY <2>2, <2>4, Zenon
       DEF LoadOf, Loaded, Started, Mapped, Copied, StackTo, Image0, Ended, EndedOver, MemoryIs, scenario
  <2> QED BY <1>1, <1>2, <2>2, <2>5
<1> QED BY <1>3, <1>4, <1>5, <1>6 DEF Next, Onwards

\* So it holds at any time, of every intact file that fits.
LEMMA LoadInvariant == Spec => [](TypeInv /\ ReadInv /\ StartInv /\ LoadInv)
<1>1. Init => LoadInv
  BY DEF Init, LoadInv, Behind
<1> QED BY <1>1, LoadInvNext, StartInvariant, PTL DEF Spec

\* Whatever an intact file asks for within the address space, memory holds its
\* segments, the later over the earlier, zeros behind them and an empty stack, and
\* nothing else, when the simulation starts (Read_Elf.cpp:52-66, simulation.cpp:211-217).
THEOREM LoadedCorrect == Spec => []LoadedAsLinked
<1>1. ReadInv /\ StartInv /\ LoadInv /\ TypeInv => LoadedAsLinked
  <2> SUFFICES ASSUME ReadInv, StartInv, LoadInv, TypeInv, Fresh, Intact(linked), Fits(linked),
                      NEW a \in 0 .. AddrMod - 1
               PROVE  /\ isValidAddr(memory, a) <=>
                           Page(a) \in StackPages \cup
                             UNION {Pages(linked.segments[i]) : i \in DOMAIN linked.segments}
                      /\ isValidAddr(memory, a) => load_byte(memory, a) = Image(linked, a)
    BY Zenon DEF LoadedAsLinked
  <2> PICK d : d = linked
    OBVIOUS
  <2> DEFINE m == Len(d.segments)
  <2>1. at \in Behind /\ cycle = 0 /\ Loaded
    BY DEF Fresh, Loaded, Started, StartInv, Behind
  <2>2. LoadOf(d)
    BY <2>1 DEF LoadInv
  <2>3. MemoryIs(d, PagesTo(d, m) \cup StackPages, m, {})
    BY <2>1, <2>2, Zenon DEF LoadOf, Image0
  <2>4. Describes(d)
    BY <2>1, LinkedOK DEF ReadInv, Behind
  <2>5. ImageTo(d, m, a) = Image(d, a)
    BY <2>4, ImageAll
  <2>6. PagesTo(d, m) = UNION {Pages(d.segments[i]) : i \in DOMAIN d.segments}
    BY <2>4, SizesOfFile, Zenon DEF PagesTo
  <2>7. /\ isValidAddr(memory, a) <=> Page(a) \in PagesTo(d, m) \cup StackPages
        /\ isValidAddr(memory, a) => load_byte(memory, a) = ImageTo(d, m, a)
    BY <2>3, Zenon DEF MemoryIs, Address
  <2> HIDE DEF m
  <2>8. isValidAddr(memory, a) <=>
          Page(a) \in StackPages \cup UNION {Pages(d.segments[i]) : i \in DOMAIN d.segments}
    BY <2>6, <2>7
  <2> QED BY <2>5, <2>7, <2>8, Zenon
<1> QED BY <1>1, LoadInvariant, PTL

\* The process fails over a file that is not there or is none, ends in the loader
\* over the first segment that cannot be loaded, in the way its defect makes it, and
\* otherwise starts the simulation (simulation.cpp:144-148, Read_Elf.cpp:58-64).
THEOREM StartsCorrect == Spec => []StartsExactlyWhen
<1>1. ReadInv /\ StartInv /\ LoadInv /\ TypeInv => StartsExactlyWhen
  <2> SUFFICES ASSUME ReadInv, StartInv, LoadInv, TypeInv, at \in Ends \cup {"print", "start"}
               PROVE  StartsExactlyWhen
    BY DEF StartsExactlyWhen
  <2> PICK d : d = linked
    OBVIOUS
  <2> DEFINE first == Min(Stops(d))
  <2>1. at = "failed" <=> at \in Ends /\ ~ Started /\ (~ Found \/ ~ IsElf(d))
    <3>1. at = "failed" => ~ Started /\ (~ Found \/ ~ IsElf(d))
      BY DEF StartInv, ReadInv, Started
    <3>2. at # "failed" => Found /\ ReadOf(d) /\ at \in Behind
      BY DEF ReadInv, Behind, Ends
    <3>3. ReadOf(d) /\ at \in Behind => IsElf(d)
      BY DEF ReadOf
    <3> QED BY <3>1, <3>2, <3>3 DEF Ends
  <2>2. ASSUME Found, IsElf(d), Intact(d), Fits(d)
        PROVE  /\ Loaded => Stops(d) = {}
               /\ at = "exit" /\ ~ Started => Stops(d) # {} /\ ~ NoData(d.segments[first])
               /\ at = "crash" /\ ~ Started =>
                    \/ Stops(d) # {} /\ NoData(d.segments[first])
                    \/ verbose /\ ~ scenario.writable
    <3>1. at \in Behind
      BY <2>1, <2>2 DEF Ends, Behind
    <3>2. LoadOf(d)
      BY <2>2, <3>1 DEF LoadInv
    <3>3. Describes(d)
      BY <2>2, LinkedOK
    <3>4. Stops(d) \subseteq 1 .. Len(d.segments) /\ Len(d.segments) \in Nat
      BY <3>3, SizesOfFile DEF Stops
    <3>5. Loaded => Stops(d) = {}
      BY <3>2, <3>4 DEF LoadOf, NoStop
    <3>6. ASSUME NEW n \in 1 .. Len(d.segments), EndedOver(d, n) PROVE first = n /\ Stops(d) # {}
      <4>1. n \in Stops(d) /\ NoStop(d, n - 1)
        BY <3>6 DEF EndedOver
      <4>2. \A i \in Stops(d) : n <= i
        <5> SUFFICES ASSUME NEW i \in Stops(d), i < n PROVE FALSE
          BY <3>4
        <5>1. i \in 1 .. n - 1
          BY <3>4
        <5> QED BY <4>1, <5>1 DEF NoStop
      <4>3. Stops(d) \in SUBSET Nat
        BY <3>4
      <4> QED BY <4>1, <4>2, <4>3, MinIs
    <3>7. at \in {"exit", "crash"} /\ ~ Started => Ended(d)
      BY <3>2, Zenon DEF LoadOf
    <3>8. at \in {"exit", "crash"} /\ ~ Started =>
            \/ Stops(d) # {} /\ (NoData(d.segments[first]) <=> at = "crash")
            \/ at = "crash" /\ verbose /\ ~ scenario.writable
      <4> HIDE DEF first
      <4> QED BY <3>6, <3>7, Zenon DEF Ended, EndedOver
    <3> HIDE DEF first
    <3> QED BY <3>5, <3>8
  <2> QED BY <2>1, <2>2, Zenon DEF StartsExactlyWhen, Found
<1> QED BY <1>1, LoadInvariant, PTL
=============================================================================
