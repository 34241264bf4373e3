------------------------------ MODULE ElfFile ------------------------------
(***************************************************************************)
(* The reference the startup is compared with: what a linker says of a     *)
(* program, the file it writes, and the memory the program expects.  A     *)
(* description is [magic, class, encoding, entry, names, sections,         *)
(* segments, blob, size]: names is the index of the section of names, blob *)
(* the bytes between the segment headers and the section headers, and size *)
(* how much of the file is left.                                           *)
(***************************************************************************)
EXTENDS Startup

SegmentOrder(class) ==
  IF class = 1 THEN <<"type", "offset", "vaddr", "filesz", "memsz", "flags">>
  ELSE <<"type", "flags", "offset", "vaddr", "filesz", "memsz">>
SectionOrder == <<"name", "type", "flags", "addr", "offset", "size">>

BlobAt(d) == 11 + 6 * Len(d.segments)

\* A number in the byte order of the file.
Digits(d, x) == IF d.encoding = 1 THEN x ELSE Half * (x % Half) + x \div Half

\* Cell k of headers of six fields, one behind the other.
HeaderCell(d, order, xs, k) == Digits(d, xs[((k - 1) \div 6) + 1][order[((k - 1) % 6) + 1]])

\* Cell k of the file: its header, the segments, the blob and the sections, one
\* behind the other.
SectionsAt(d) == BlobAt(d) + Len(d.blob)
CellAt(d, k) ==
  CASE k \in 1 .. 3  -> <<d.magic, d.class, d.encoding>>[k]
    [] k \in 4 .. 11 -> Digits(d, <<d.entry, 11, SectionsAt(d), 6, Len(d.segments), 6,
                                   Len(d.sections), d.names>>[k - 3])
    [] k \in 12 .. BlobAt(d) -> HeaderCell(d, SegmentOrder(d.class), d.segments, k - 11)
    [] k \in BlobAt(d) + 1 .. SectionsAt(d) -> d.blob[k - BlobAt(d)]
    [] k > SectionsAt(d) -> HeaderCell(d, SectionOrder, d.sections, k - SectionsAt(d))

\* All of it, and what is left of it.
Whole(d) == [k \in 1 .. SectionsAt(d) + 6 * Len(d.sections) |-> CellAt(d, k)]
Written(d) == SubSeq(Whole(d), 1, d.size)

\* What a linker can say: a field has two digits.
Field == 0 .. Half * Half - 1
SegmentHeaders == [type : Field, flags : Field, offset : Field, vaddr : Field, filesz : Field, memsz : Field]
SectionHeaders == [name : Field, type : Field, flags : Field, addr : Field, offset : Field, size : Field]
Describes(d) ==
  /\ d.magic \in Nat /\ d.class \in Nat /\ d.encoding \in Nat
  /\ d.entry \in Field /\ d.names \in Field /\ d.blob \in Seq(Nat)
  /\ d.segments \in Seq(SegmentHeaders) /\ d.sections \in Seq(SectionHeaders)
  /\ Len(Whole(d)) \in Field /\ d.size \in 0 .. Len(Whole(d))

ASSUME FileAssumption ==
  \A r \in DOMAIN Scenarios :
    /\ DOMAIN Scenarios[r].elf = DOMAIN Scenarios[r].disk
    /\ \A f \in DOMAIN Scenarios[r].elf :
         /\ Describes(Scenarios[r].elf[f])
         /\ Scenarios[r].disk[f] = Written(Scenarios[r].elf[f])

-----------------------------------------------------------------------------

IsElf(d) == d.size >= 11 /\ d.magic = 127 /\ d.class \in {1, 2}

\* Nothing the headers speak of is missing.
Intact(d) ==
  /\ IsElf(d) /\ d.size = Len(Whole(d))
  /\ \A k \in DOMAIN d.sections :
       LET s == d.sections[k]
       IN  s.type \notin {0, 8} => s.offset + s.size <= d.size /\ s.size < d.size
  /\ \A i \in DOMAIN d.segments :
       LET s == d.segments[i] IN s.type # 0 => s.offset + s.filesz <= d.size

From(s)  == s.vaddr % AddrMod
Upto(s)  == From(s) + s.memsz - 1
\* Segments end below the last page of the address space.
Fits(d) == \A i \in DOMAIN d.segments :
             From(d.segments[i]) + Max({d.segments[i].memsz, d.segments[i].filesz}) <= AddrMod - PageSize

\* The pages a segment lies in; the loader misses the last one when the segment
\* ends at a smaller offset into it than it starts at in the first.
Page(a) == a \div PageSize
Missed(s) == IF s.memsz > 0 /\ From(s) % PageSize > Upto(s) % PageSize THEN {Page(Upto(s))} ELSE {}
Pages(s) == {Page(a) : a \in From(s) .. Upto(s)} \ Missed(s)
StackPages == {Page(a) : a \in StackStart - StackSize + PageSize .. StackStart}

\* The segments whose file bytes cover an address, and the byte there.
Covering(d, a) == {i \in DOMAIN d.segments :
                     a \in From(d.segments[i]) .. From(d.segments[i]) + d.segments[i].filesz - 1}
ByteOf(d, i, a) == Whole(d)[d.segments[i].offset + a - From(d.segments[i]) + 1]
Image(d, a) == IF Covering(d, a) = {} THEN 0 ELSE ByteOf(d, Max(Covering(d, a)), a)

\* A segment that has file bytes and no type, or none of whose pages so far
\* takes one of its bytes, ends the process.
NoData(s) == s.filesz > 0 /\ s.type = 0
NoPage(d, i) ==
  \E k \in 0 .. d.segments[i].filesz - 1 :
    Page(From(d.segments[i]) + k) \notin UNION {Pages(d.segments[j]) : j \in 1 .. i}
Stops(d) == {i \in DOMAIN d.segments : NoData(d.segments[i]) \/ NoPage(d, i)}

\* The name a section has: up to the zero behind it, or the end of the names.
NameOf(d, k) ==
  LET strs  == d.sections[d.names + 1]
      first == strs.offset + d.sections[k].name + 1
      last  == strs.offset + strs.size
      zeros == {z \in first .. last : Whole(d)[z] = 0}
  IN  IF d.names = 0 \/ d.names >= Len(d.sections) THEN <<>>
      ELSE IF strs.type \in {0, 8} \/ first > last THEN <<>>
      ELSE SubSeq(Whole(d), first, IF zeros = {} THEN last ELSE Min(zeros) - 1)
=============================================================================
