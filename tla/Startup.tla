------------------------------ MODULE Startup ------------------------------
(***************************************************************************)
(* A run of the simulator around its pipeline: main reads its arguments,   *)
(* the ELF reader the program, the loader copies the segments into pages,  *)
(* the stack is mapped, and simulate runs cycles, asking the console       *)
(* between them when it single-steps.  What a cycle does is Pipeline's.    *)
(***************************************************************************)
EXTENDS ElfReader, PageTable

CONSTANTS
  StackStart, StackSize,
  Scenarios,   \* by name: [argv, disk, stdin, writable, elf]: arguments, files by name, console input,
               \* whether memory.txt can be opened, and what the files were written from
  Evicted,     \* addresses a cycle may write back to
  MaxCycles    \* bound on cycle

VARIABLES
  run,         \* the name of the scenario
  at,          \* where the process is; "failed", "exit", "crash" and "done" are its ends
  next,        \* the index of the loop it is in, or the section or segment
  p,           \* the address of the loop it is in
  file, singleStep, verbose, dumpMem, branch_strat,
  memory,
  listing,     \* what printElfInfo has printed, or NULL
  dump,        \* the lines of memory.txt, or NULL
  entry, sp,   \* the first program counter and the stack pointer
  cycle, input \* cycles run, and what stdin still holds

options == <<file, singleStep, verbose, dumpMem, branch_strat>>
machine == <<memory, entry, sp, cycle>>
vars == <<run, at, next, p, options, reader, listing, dump, machine, input>>

\* What a byte of memory holds: a cell of the file, or one that was never read.
Cell == Nat \cup {JUNK}

ASSUME StartupAssumption ==
  /\ StackStart \in 0 .. AddrMod - PageSize /\ StackStart % PageSize = 0
  /\ StackSize \in PageSize .. StackStart /\ StackSize % PageSize = 0
  /\ Half \in Nat \ {0} /\ MaxCycles \in Nat /\ Evicted \subseteq 0 .. AddrMod - 1
  /\ NoEntry \notin TablesOf(Cell) \cup [Off -> Cell] /\ NULL \notin Seq(Cell)

ASSUME ScenarioAssumption ==
  \A r \in DOMAIN Scenarios :
    /\ Scenarios[r].argv \in Seq([dash : BOOLEAN, letter : STRING, text : STRING])
    /\ \A f \in DOMAIN Scenarios[r].disk : Scenarios[r].disk[f] \in Seq(Nat)

scenario  == Scenarios[run]
Uint32(x) == x % AddrMod
Ends == {"failed", "exit", "crash", "done"}
Goto(where) == at' = where /\ next' = 0 /\ p' = 0
Again == at' = at /\ next' = next + 1 /\ p' = 0

Init ==
  /\ run \in DOMAIN Scenarios /\ input = scenario.stdin
  /\ at = "args" /\ next = 1 /\ p = 0
  /\ file = "" /\ branch_strat = "AT"
  /\ singleStep = FALSE /\ verbose = FALSE /\ dumpMem = FALSE
  /\ ReaderInit
  /\ memory = NoPages /\ entry = 0 /\ sp = 0 /\ cycle = 0
  /\ listing = NULL /\ dump = NULL

-----------------------------------------------------------------------------
(* main, up to the reader.  An argument is [dash, letter, text]: whether   *)
(* it starts with a dash, the letter behind that, and all of it.           *)

arg == scenario.argv[next]
Strategy(text) == IF text \in {"BTFNT", "NT"} THEN text ELSE "AT"
HasNext == next < Len(scenario.argv)

FileArg ==
  /\ ~ arg.dash
  /\ file' = arg.text /\ next' = next + 1
  /\ UNCHANGED <<singleStep, verbose, dumpMem, branch_strat>>

TakenOne == 1 \* faulty: the value of a -b is read again as an argument
Taken    == IF HasNext THEN 2 ELSE 1

\* -b takes the argument behind it, whatever that is.
StrategyArg ==
  /\ arg.dash /\ arg.letter = "b"
  /\ branch_strat' = IF HasNext THEN Strategy(scenario.argv[next + 1].text) ELSE branch_strat
  /\ next' = next + Taken
  /\ UNCHANGED <<file, singleStep, verbose, dumpMem>>

FlagArg ==
  /\ arg.dash /\ arg.letter # "b"
  /\ singleStep' = (singleStep \/ arg.letter = "s")
  /\ verbose' = (verbose \/ arg.letter \in {"s", "v"})
  /\ dumpMem' = (dumpMem \/ arg.letter = "m")
  /\ next' = next + 1
  /\ UNCHANGED <<file, branch_strat>>

ParseArg ==
  /\ at = "args" /\ next <= Len(scenario.argv)
  /\ FileArg \/ StrategyArg \/ FlagArg
  /\ UNCHANGED <<run, at, p, reader, listing, dump, machine, input>>

Beside == UNCHANGED <<run, options, listing, dump, machine, input>>

OpenFile ==
  /\ at = "args" /\ next > Len(scenario.argv)
  /\ IF file \in DOMAIN scenario.disk
     THEN Open(scenario.disk[file]) /\ Goto("ident")
     ELSE UNCHANGED reader /\ Goto("failed")
  /\ Beside

ReadIdent ==
  /\ at = "ident" /\ LoadIdent
  /\ Goto(IF IdentOk THEN "header" ELSE "failed")
  /\ Beside

ReadHeader ==
  /\ at = "header" /\ LoadHeader
  /\ Goto(IF HeaderOk THEN "sections" ELSE "failed")
  /\ Beside

ReadSection ==
  /\ at = "sections"
  /\ IF next < header.sections_num THEN LoadSection(next) /\ Again
     ELSE UNCHANGED reader
          /\ Goto(IF header.section_name_str_index # 0 THEN "names" ELSE "segments")
  /\ Beside

ReadName ==
  /\ at = "names"
  /\ IF next < header.sections_num THEN NameSection(next) /\ Again
     ELSE UNCHANGED reader /\ Goto("segments")
  /\ Beside

\* The reader has nothing to say about what it could not read.
ReadSegment ==
  /\ at = "segments"
  /\ IF next < header.segments_num THEN LoadSegment(next) /\ Again
     ELSE UNCHANGED reader /\ Goto("load")
  /\ Beside

-----------------------------------------------------------------------------
(* loader: for every segment the loop that maps its pages and the one that *)
(* copies its data, on 32-bit addresses.                                   *)

seg       == segments[next + 1]
seg_start == Uint32(seg.virtual_address)
map_end   == Uint32(seg_start + Uint32(seg.memory_size))
data_end  == Uint32(seg_start + Uint32(seg.file_size))

LoadNext ==
  /\ at = "load"
  /\ IF next < Len(segments) THEN at' = "map" /\ p' = seg_start /\ next' = next
     ELSE at' = "stack" /\ p' = StackStart /\ next' = 0
  /\ UNCHANGED reader /\ Beside

NextPageIfNew(addr) == IF isValidAddr(memory, addr) THEN addr ELSE Uint32(addr + PageSize) \* faulty
NextPage(addr) == Uint32(addr + PageSize)

MapPage ==
  /\ at = "map" /\ next' = next
  /\ IF p < map_end
     THEN at' = at /\ p' = NextPage(p) /\ memory' = alloc(memory, p)
     ELSE at' = "copy" /\ p' = seg_start /\ memory' = memory
  /\ UNCHANGED <<run, options, reader, listing, dump, entry, sp, cycle, input>>

CopyByte ==
  /\ at = "copy"
  /\ CASE p >= data_end ->
            at' = "load" /\ next' = next + 1 /\ p' = 0 /\ memory' = memory
       [] p < data_end /\ seg.data = NULL -> Goto("crash") /\ memory' = memory
       [] p < data_end /\ seg.data # NULL /\ ~ isValidAddr(memory, p) ->
            Goto("exit") /\ memory' = memory
       [] OTHER ->
            /\ at' = at /\ next' = next /\ p' = p + 1
            /\ memory' = store_byte(memory, p, seg.data[p - seg_start + 1])
  /\ UNCHANGED <<run, options, reader, listing, dump, entry, sp, cycle, input>>

-----------------------------------------------------------------------------
(* main, behind the loader.                                                *)

MapStack ==
  /\ at = "stack"
  /\ IF p > StackStart - StackSize
     THEN at' = at /\ next' = next /\ p' = p - PageSize /\ memory' = alloc(memory, p)
     ELSE Goto(IF verbose THEN "print" ELSE "start") /\ memory' = memory
  /\ UNCHANGED <<run, options, reader, listing, dump, entry, sp, cycle, input>>

\* What printElfInfo says of the file.
Listing ==
  [class    |-> IF header.class = ELFCLASS32 THEN "ELF32" ELSE "ELF64",
   encoding |-> IF header.encoding = ELFDATA2LSB THEN "little" ELSE "big",
   sections |-> [i \in DOMAIN sections |-> <<sections[i].name, sections[i].size>>],
   segments |-> [i \in DOMAIN segments |->
                   <<segments[i].flags, segments[i].virtual_address,
                     segments[i].file_size, segments[i].memory_size>>]]

\* fopen gives NULL when memory.txt cannot be written, and fprintf takes it.
DumpMemory(goes_on) ==
  IF scenario.writable THEN dump' = dump_memory(memory) /\ Goto(goes_on)
  ELSE dump' = dump /\ Goto("crash")

PrintInfo ==
  /\ at = "print"
  /\ listing' = Listing /\ DumpMemory("start")
  /\ UNCHANGED <<run, options, reader, machine, input>>

Start ==
  /\ at = "start" /\ Goto("cycle")
  /\ entry' = header.entry /\ sp' = StackStart
  /\ UNCHANGED <<run, options, reader, listing, dump, memory, cycle, input>>

\* A cycle in which nothing ends the process; a cache may write a line back.
Cycle ==
  /\ at = "cycle" /\ cycle < MaxCycles
  /\ cycle' = cycle + 1
  /\ \/ memory' = memory
     \/ \E a \in Evicted : isValidAddr(memory, a) /\ memory' = store_byte(memory, a, 1)
  /\ Goto(IF singleStep THEN "prompt" ELSE "cycle")
  /\ UNCHANGED <<run, options, reader, listing, dump, entry, sp, input>>

\* The program calls its end, or does what the simulator exits on.
Finish ==
  /\ at = "cycle"
  /\ \/ dumpMem /\ DumpMemory("done")
     \/ ~ dumpMem /\ Goto("done") /\ dump' = dump
     \/ Goto("exit") /\ dump' = dump
     \/ DumpMemory("exit")   \* load_byte dumps what it exits on
  /\ UNCHANGED <<run, options, reader, listing, machine, input>>

GoesCapital(c) == c = "G" \* faulty
Goes(c) == c = "g"

\* One character of the console.  At the end of the input getchar gives EOF
\* again and again, which changes nothing and ends nothing.
ReadCommand ==
  /\ at = "prompt" /\ input # <<>>
  /\ input' = Tail(input)
  /\ CASE Goes(Head(input)) -> Goto("cycle") /\ dump' = dump
       [] Head(input) = "m" -> DumpMemory("prompt")
       [] OTHER             -> Goto("prompt") /\ dump' = dump
  /\ UNCHANGED <<run, options, reader, listing, machine>>

Next ==
  \/ ParseArg \/ OpenFile
  \/ ReadIdent \/ ReadHeader \/ ReadSection \/ ReadName \/ ReadSegment
  \/ LoadNext \/ MapPage \/ CopyByte
  \/ MapStack \/ PrintInfo \/ Start
  \/ Cycle \/ Finish \/ ReadCommand

Spec == Init /\ [][Next]_vars

\* One thread that never waits but for the console.
FairSpec == Spec /\ WF_vars(Next)
=============================================================================
