----------------------------- MODULE ElfReader -----------------------------
(***************************************************************************)
(* What elfio::load makes of a file.  A file is a sequence of cells, each  *)
(* a field of a header or a byte of data.  Every read of the reader seeks  *)
(* first, so of the position of the stream nothing remains, and of its     *)
(* state the flag a read past the end leaves, after which nothing is read. *)
(***************************************************************************)
EXTENDS Integers, SequencesExt

CONSTANTS
  Half,        \* a field of several bytes is modelled as two digits to this base
  NULL, JUNK   \* no pointer; a byte that was allocated and never written

VARIABLES
  bytes,       \* the cells of the file that is open
  fail,        \* failbit of the stream
  header,      \* the ELF header with what the convertor needs, or NULL
  sections, segments

reader == <<bytes, fail, header, sections, segments>>

ELFMAG == 127
ELFCLASS32 == 1
ELFCLASS64 == 2
ELFDATA2LSB == 1
SHT_NULL == 0
SHT_STRTAB == 3
SHT_NOBITS == 8
PT_NULL == 0

IdentFields  == <<"magic", "class", "encoding">>
HeaderFields == <<"magic", "class", "encoding", "entry", "segments_offset", "sections_offset",
                  "segment_entry_size", "segments_num", "section_entry_size", "sections_num",
                  "section_name_str_index">>
SectionFields == <<"name_string_offset", "type", "flags", "address", "offset", "size">>
SegmentFieldsSame(class) == \* faulty: the order of the 64-bit class for both
  <<"type", "flags", "offset", "virtual_address", "file_size", "memory_size">>
SegmentFields(class) ==
  IF class = ELFCLASS64
  THEN <<"type", "flags", "offset", "virtual_address", "file_size", "memory_size">>
  ELSE <<"type", "offset", "virtual_address", "file_size", "memory_size", "flags">>

\* A big-endian field as the little-endian host reads it, and back.
Swap(x) == (x % Half) * Half + x \div Half
Convert(encoding, x) == IF encoding # ELFDATA2LSB THEN Swap(x) ELSE x

\* seekg and read: how many of n cells at p a stream delivers that may be lost
\* already, and whether it is lost afterwards.
Available(lost, p, n) == IF lost THEN 0 ELSE Max({0, Min({n, Len(bytes) - p})})
LostAt(lost, p, n)    == Available(lost, p, n) < n

\* A header read into old: each field converted, what is not read as it was.
Structure(lost, p, fields, encoding, old) ==
  [f \in DOMAIN old |->
     IF ~ \E k \in 1 .. Available(lost, p, Len(fields)) : fields[k] = f THEN old[f]
     ELSE LET cell == bytes[p + CHOOSE k \in DOMAIN fields : fields[k] = f]
          IN  IF f \in ToSet(IdentFields) THEN cell ELSE Convert(encoding, cell)]

DataAsRead(lost, p, n) == SubSeq(bytes, p + 1, p + Available(lost, p, n)) \* faulty: only what was read
\* new char[n] with what could be read into it.
Data(lost, p, n) ==
  [k \in 1 .. n |-> IF k <= Available(lost, p, n) THEN bytes[p + k] ELSE JUNK]

-----------------------------------------------------------------------------

NewHeader(class, encoding) ==
  [f \in ToSet(HeaderFields) |->
     CASE f = "magic" -> ELFMAG
       [] f = "class" -> class
       [] f = "encoding" -> encoding
       [] f = "section_name_str_index" -> 1
       [] OTHER -> 0]

NewSection ==
  [f \in ToSet(SectionFields) \cup {"index", "name", "data"} |->
     CASE f = "name" -> <<>> [] f = "data" -> NULL [] OTHER -> 0]
NewSegment ==
  [f \in ToSet(SegmentFields(ELFCLASS64)) \cup {"index", "sections", "data"} |->
     CASE f = "sections" -> <<>> [] f = "data" -> NULL [] OTHER -> 0]

\* The constructor creates an empty 32-bit file of a null section and one for
\* the names, which holds its own.
ReaderInit ==
  /\ bytes = <<>> /\ fail = FALSE
  /\ header = NewHeader(ELFCLASS32, ELFDATA2LSB)
  /\ sections = <<NewSection,
                  [NewSection EXCEPT !.type = SHT_STRTAB, !.index = 1, !.size = 3,
                                     !.name_string_offset = 1, !.name = <<1>>, !.data = <<0, 1, 0>>]>>
  /\ segments = <<>>

Open(file) == bytes' = file /\ fail' = FALSE /\ UNCHANGED <<header, sections, segments>>

IdentOkAnyClass == ~ LostAt(fail, 0, Len(IdentFields)) /\ bytes[1] = ELFMAG \* faulty
IdentOk ==
  /\ ~ LostAt(fail, 0, Len(IdentFields))
  /\ bytes[1] = ELFMAG /\ bytes[2] \in {ELFCLASS32, ELFCLASS64}

\* clean(), then the signature, the convertor and an empty header.
LoadIdent ==
  /\ sections' = <<>> /\ segments' = <<>>
  /\ header' = IF IdentOk THEN NewHeader(bytes[2], bytes[3]) ELSE NULL
  /\ fail' = LostAt(fail, 0, Len(IdentFields))
  /\ UNCHANGED bytes

HeaderOk == ~ LostAt(fail, 0, Len(HeaderFields))
LoadHeader ==
  /\ header' = Structure(fail, 0, HeaderFields, header.encoding, header)
  /\ fail' = ~ HeaderOk
  /\ UNCHANGED <<bytes, sections, segments>>

\* A lost stream has no size: tellg gives -1, the largest size_t.
Smaller(size) == fail \/ size < Len(bytes)
Greater(size) == ~ fail /\ size > Len(bytes)

\* section_impl::load of section i, which becomes the last one.
LoadSection(i) ==
  LET p    == header.sections_offset + i * header.section_entry_size
      sec  == Structure(fail, p, SectionFields, header.encoding, NewSection)
      lost == LostAt(fail, p, Len(SectionFields))
      has  == sec.type \notin {SHT_NULL, SHT_NOBITS} /\ Smaller(sec.size)
  IN  /\ sections' = Append(sections, [sec EXCEPT
           !.index = i,
           !.data = IF has THEN Data(lost, sec.offset, sec.size) ELSE NULL])
      /\ fail' = IF has /\ sec.size # 0 THEN LostAt(lost, sec.offset, sec.size) ELSE lost
      /\ UNCHANGED <<bytes, header, segments>>

HasSection(i) == i < Len(sections)

\* A string of section i ends at its first zero; one that was never read can end
\* anywhere, and stands here as it is.
get_string(i, index) ==
  LET sec  == sections[i + 1]
      ends == {k \in index + 1 .. sec.size : sec.data[k] = 0}
  IN  IF ~ HasSection(i) \/ index >= sec.size \/ sec.data = NULL THEN NULL
      ELSE SubSeq(sec.data, index + 1, IF ends = {} THEN sec.size ELSE Min(ends) - 1)

\* Section i gets its name; p stays as it is where there is none.
NameSection(i) ==
  LET p == get_string(header.section_name_str_index, sections[i + 1].name_string_offset)
  IN  /\ sections' = IF p = NULL THEN sections ELSE [sections EXCEPT ![i + 1].name = p]
      /\ UNCHANGED <<bytes, fail, header, segments>>

SHF_ALLOC(flags) == (flags \div 2) % 2 = 1
is_sect_in_seg(sect_begin, sect_size, seg_begin, seg_end) ==
  /\ seg_begin <= sect_begin
  /\ sect_begin + sect_size <= seg_end
  /\ sect_begin < seg_end

Within(sec, seg) ==
  IF SHF_ALLOC(sec.flags)
  THEN is_sect_in_seg(sec.address, sec.size, seg.virtual_address, seg.virtual_address + seg.memory_size)
  ELSE is_sect_in_seg(sec.offset, sec.size, seg.offset, seg.offset + seg.file_size)

\* segment_impl::load of segment i and the sections that lie within it.
LoadSegment(i) ==
  LET p    == header.segments_offset + i * header.segment_entry_size
      seg  == Structure(fail, p, SegmentFields(header.class), header.encoding, NewSegment)
      lost == LostAt(fail, p, Len(SegmentFields(header.class)))
      has  == seg.type # PT_NULL /\ seg.file_size # 0 /\ ~ Greater(seg.file_size)
  IN  /\ segments' = Append(segments, [seg EXCEPT
           !.index = i,
           !.data = IF has THEN Data(lost, seg.offset, seg.file_size) ELSE NULL,
           !.sections = SelectSeq([j \in DOMAIN sections |-> j - 1],
                                  LAMBDA j : Within(sections[j + 1], seg))])
      /\ fail' = IF has THEN LostAt(lost, seg.offset, seg.file_size) ELSE lost
      /\ UNCHANGED <<bytes, header, sections>>
=============================================================================
