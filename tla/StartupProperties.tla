------------------------- MODULE StartupProperties -------------------------
(***************************************************************************)
(* What a run makes of a program and of the command line, compared with    *)
(* what the linker wrote and the user asked for.                           *)
(***************************************************************************)
EXTENDS ElfFile

linked  == scenario.elf[file]
Started == sp # 0
Loaded  == Started \/ at \in {"print", "start"}
Fresh   == Loaded /\ cycle = 0   \* no cycle has written to memory yet

TypeOK ==
  /\ at \in Ends \cup {"args", "ident", "header", "sections", "names", "segments", "load",
                       "map", "copy", "stack", "print", "start", "cycle", "prompt"}
  /\ next \in Nat /\ p \in 0 .. AddrMod - 1
  /\ singleStep \in BOOLEAN /\ verbose \in BOOLEAN /\ dumpMem \in BOOLEAN
  /\ branch_strat \in {"AT", "NT", "BTFNT"}
  /\ at \in {"map", "copy"} => next < Len(segments)
  /\ \A i \in DOMAIN sections : sections[i].data = NULL \/ Len(sections[i].data) = sections[i].size
  /\ \A i \in DOMAIN segments :
       segments[i].data = NULL \/ Len(segments[i].data) = segments[i].file_size
  /\ memory \in DirectoriesOf(Cell)
  /\ cycle \in 0 .. MaxCycles

\* Whatever the order of the arguments, an argument counts for what it is unless
\* the one in front of it is a -b that is not itself an argument of a -b; of
\* several files and strategies the last one counts (simulation.cpp:105-143).
IsB(arg_) == arg_.dash /\ arg_.letter = "b"
\* The b's in front of k, without a gap, are odd in number.
IsValue(argv, k) ==
  LET before == {j \in 1 .. k - 1 : \A i \in j .. k - 1 : IsB(argv[i])}
  IN  Cardinality(before) % 2 = 1
Latest(argv, S, otherwise) == IF S = {} THEN otherwise ELSE argv[Max(S)].text
OptionsAsGiven ==
  at \in {"ident", "cycle"} \cup Ends =>
    LET argv         == scenario.argv
        own          == {k \in DOMAIN argv : ~ IsValue(argv, k)}
        has(letters) == \E k \in own : argv[k].dash /\ argv[k].letter \in letters
    IN  /\ file = Latest(argv, {k \in own : ~ argv[k].dash}, "")
        /\ singleStep = has({"s"}) /\ verbose = has({"s", "v"}) /\ dumpMem = has({"m"})
        /\ LET strategy == Latest(argv, DOMAIN argv \ own, "AT")
           IN  branch_strat = IF strategy \in {"NT", "BTFNT"} THEN strategy ELSE "AT"

\* When an intact file has been loaded, memory has the pages the segments and
\* the stack need but for the stragglers of unaligned segments and the lowest
\* page of the stack, and in them what the linker placed there: the bytes of the
\* last segment that has some, and zeros (Read_Elf.cpp:52-66, simulation.cpp:211-217).
LoadedAsLinked ==
  Fresh /\ Intact(linked) /\ Fits(linked) =>
    \A a \in 0 .. AddrMod - 1 :
      /\ isValidAddr(memory, a) <=>
           Page(a) \in StackPages \cup UNION {Pages(linked.segments[i]) : i \in DOMAIN linked.segments}
      /\ isValidAddr(memory, a) => load_byte(memory, a) = Image(linked, a)

\* Of a file that is not intact nothing appears in memory that is not in the
\* file at this place, except bytes the reader allocated and never read.
NothingInvented ==
  Fresh =>
    \A a \in {a \in 0 .. AddrMod - 1 : isValidAddr(memory, a)} :
      \/ load_byte(memory, a) = 0
      \/ load_byte(memory, a) = JUNK /\ ~ Intact(linked)
      \/ \E i \in Covering(linked, a) :
           /\ linked.segments[i].offset + a - From(linked.segments[i]) < linked.size
           /\ load_byte(memory, a) = ByteOf(linked, i, a)

\* The process fails over a file that is not there or is no ELF file with its
\* header, and over no other.  An intact one whose segments end below the last page
\* is simulated exactly when every segment with bytes has a type and pages for
\* them; otherwise the process ends the way the first defect makes it
\* (simulation.cpp:144-148, elfio.hpp:112-146, Read_Elf.cpp:58-64).
StartsExactlyWhen ==
  at \in Ends \cup {"print", "start"} =>
  LET found == file \in DOMAIN scenario.elf
      first == Min(Stops(linked))
  IN  /\ at = "failed" <=> at \in Ends /\ ~ Started /\ (~ found \/ ~ IsElf(linked))
      /\ found /\ IsElf(linked) /\ Intact(linked) /\ Fits(linked) =>
           /\ Loaded => Stops(linked) = {}
           /\ at = "exit" /\ ~ Started =>
                Stops(linked) # {} /\ ~ NoData(linked.segments[first])
           /\ at = "crash" /\ ~ Started =>
                \/ Stops(linked) # {} /\ NoData(linked.segments[first])
                \/ verbose /\ ~ scenario.writable

\* The listing of -v shows the file, with the names of its sections, whatever
\* its class and encoding (Read_Elf.cpp:6-50, elfio.hpp:405-417).
ListingIsTheFile ==
  listing # NULL /\ Intact(linked) =>
    /\ listing.class = IF linked.class = 1 THEN "ELF32" ELSE "ELF64"
    /\ listing.encoding = IF linked.encoding = 1 THEN "little" ELSE "big"
    /\ listing.sections =
         [k \in DOMAIN linked.sections |-> <<NameOf(linked, k), linked.sections[k].size>>]
    /\ listing.segments =
         [i \in DOMAIN linked.segments |->
            LET s == linked.segments[i] IN <<s.flags, s.vaddr, s.filesz, s.memsz>>]

\* The simulator comes to its first cycle or to an end for every file, however
\* much of it is missing, unless a segment ends in the last page of the address
\* space, where the loop over its pages never ends (Read_Elf.cpp:58).
ComesToAStart ==
  (at = "ident" /\ Fits(linked)) ~> (Started \/ at \in Ends)

\* Where the console still has a g to read, what stands in front of it is dealt
\* with and a cycle runs, unless a dump ends the process (simulation.cpp:305-316).
GoIsAnswered ==
  at = "prompt" /\ "g" \in ToSet(input) ~> at \in {"cycle", "crash"}

\* The comment at Read_Elf.cpp:45: a segment is as large as its memory size, with
\* zeros behind its bytes.
TailIsZero ==
  Fresh /\ Intact(linked) /\ Fits(linked) =>
    \A i \in DOMAIN linked.segments :
      LET s == linked.segments[i]
      IN  \A a \in From(s) + s.filesz .. Upto(s) :
            Covering(linked, a) = {} => isValidAddr(memory, a) /\ load_byte(memory, a) = 0
=============================================================================
