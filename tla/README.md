# RISCV-64I-Simulator: verification project

TLA+ models, TLC runs and TLAPS proofs for the RISC-V simulator in this
repository: a five-stage pipeline (`src/simulation.cpp`, `src/Simulation.h`) over
three levels of cache (`src/cache.cpp`, `src/cache.h`, `src/storage.h`) and a paged
memory, started by an ELF loader (`src/Read_Elf.cpp`) on top of ELFIO (`src/elfio/`).

## 1. The system

The simulator is one process with one thread. What makes it hard is not
concurrency of its own but the concurrency it simulates: five instructions in
flight, hazards that overlap in one cycle, results forwarded between stages, and
three caches that evict independently. Long sequences of legal requests have to
meet in one set of one cache before a mistake shows. Around that stand two pieces
of plain but intricate data handling: the decoder with the arithmetic, and the way
from a file on disk to bytes in pages.

| Component | State it keeps | Operations | Interacts with |
|---|---|---|---|
| Cache level (`class Cache`) | lines (tag, dirty, valid, visited_t, blk), `stats_` | `SetConfig`, `HandleRequest` | the level above calls it, it calls `lower_->HandleRequest` |
| Hierarchy (`l1`, `l2`, `llc`, `memory` in `main`) | the four storages | wiring with `SetLower`, latencies | IF, MEM and `syscall` call `l1` |
| Memory (`class Memory`) | two-level page table, `stats_` | `alloc`, `load_byte`, `store_byte`, `isValidAddr`, `HandleRequest`, `dump_memory` | `llc`, the loader, IF and MEM (`isValidAddr`) |
| Pipeline (`class SIM`) | registers, F/D/E/M/W registers with `cur` and `upd`, `e_*`, `m_*`, `d_*`, counters | `WB`, `MEM`, `EX`, `ID`, `IF`, the end of the loop of `simulate` | `l1`, `syscall` |
| Decoder and ALU (`ID`, `EX`, `MEM`) | none of their own | decode, compute, widths of accesses | pipeline registers |
| System calls and statistics (`syscall`) | output, counters | print string, char, int; exit with a report | `l1`, process exit |
| Command line and configuration (`main`) | options, cache configuration, first registers | parse `argv`, wire, load, start | everything |
| ELF loader (`Read_Elf.cpp`) | none | copy segments into pages, list the file | ELFIO, `Memory` |
| Console (`-s`, `-v`) | none | print, read commands between cycles | stdin, `dump_memory` |
| ELFIO | header, sections, segments, stream | `load`, accessors | the loader |
| Sample programs | inputs | | |

What makes each correct:

* a cache level: its caller cannot tell it from a flat memory; a line says enough
  about itself (`dirty`, `tag`) for its eviction to lose nothing; it evicts the least
  recently used line; with write-through the level below is always current;
* the hierarchy: the same for three levels together, and statistics that agree;
* the pipeline: it executes the instructions of the program in order, once each,
  with the values a machine without a pipeline would use; nothing on a wrong
  path takes effect; counters explain the cycles; it makes progress;
* decoder and ALU: every instruction does what the RISC-V manual says of it;
* memory and loader: the pages hold what the linker placed there, and nothing else;
* command line, reader, console: an argument counts for what it is whatever stands
  around it; a file that is broken never leads to invented memory, and always to a
  start or to an end; a `g` is answered.

`PROJECT.json` lists the hazards, each at its line, with the properties that
would catch it.

## 2. Modules

| Module | Models | Abstract counterpart |
|---|---|---|
| `CacheLevel` | `Cache::HandleRequest` and its helpers as pure operators, parameterised by configuration and by `Lower`, the request operator of the level below | |
| `Cache` | one level over a storage that is a flat memory; one action per call | `FlatMemory` |
| `CacheLRU` | the replacement policy as an order of recency per set | (action property) |
| `CacheHierarchy` | `l1` over `l2` over `llc` over `memory` with the counters of the stages; instantiates `CacheLevel` three times | `FlatMemory` |
| `FlatMemory` | what a storage promises | |
| `Instructions` | instruction records, address space, prediction, system calls | |
| `Pipeline` | `SIM`: the five stages and the tick, one action per call | `SequentialMachine` |
| `SequentialMachine` | one instruction after another | |
| `PipelineRefinement` | refinement mapping and invariants of the pipeline | |
| `Decoder` | the bit fields and immediates of ID and IF | |
| `Datapath` | one instruction through IF, ID, EX, MEM and WB with its widths | `RiscV` |
| `RiscV` | the manual: encoding and effect of every instruction | |
| `DatapathConformance` | `Datapath` against `RiscV`, with the list of known deviations | |
| `PageTable` | the directory and tables of `class Memory` | |
| `ElfReader` | what ELFIO's constructor and `load` do to a stream that may be too short | |
| `Startup` | `main`, `loader`, the stack, the console and the dumps around a pipeline whose cycles only write to memory | `ElfFile` |
| `ElfFile` | the linker: a description of a program, the file it writes and the memory it expects | |
| `StartupProperties` | `Startup` against `ElfFile` and the command line | |
| `LevelProofs` | what one request does over any level below that keeps its promise | |
| `CacheProofs`, `HierarchyProofs` | theorems about `Cache` and `CacheLRU`, and about `CacheHierarchy` | `LevelProofs` |
| `PipelineProofs`, `SequentialProofs` | theorems about `PipelineRefinement`: its invariants, what the stages hand to each other, and the refinement | `SequentialMachine` |
| `DatapathProofs` | theorems about `DatapathConformance`: every instruction against the manual, at the code's width | `RiscV` |
| `StartupProofs`, `LoaderProofs` | theorems about `StartupProperties`: types and options; reading and loading a file | `ElfFile` |
| `MCCache`, `MCCacheThrough`, `MCCacheLRU`, `MCCacheHierarchy`, `MCPipeline`, `MCDatapath`, `MCStartup` | instances for TLC | |

### Caches

A request is a record `[addr, bytes, read, content]`. `HandleRequest(st, rq)`
takes the state of the level and of what is below it and returns both with the
answer, exactly one case per path of the code: read hit, write hit, write around,
fill. In `Fill` the order of the code is kept: fetch the block, write the dirty victim
back, write through. An address without a page ends the process inside the call
(`exit`), whatever level asked. `visited_t` has the width of an `int` (`AgeMax`) and
wraps. Shifts and masks are written as quotient and remainder. The
uninitialized bytes of a new block are any bytes.

In `Cache` the level below is a flat memory, which is what the refinement
theorem establishes about a level: so the module speaks about every level of
the hierarchy. `CacheHierarchy` is the composition itself.

### Pipeline

`simulate` calls WB, MEM, EX, ID, IF and then decides about stalls and bubbles; the
model takes one step per call, in that order (`stage`). Pipeline registers keep `cur`
and `upd` as in the code, a bubble clears only the instruction and wins over a
stall. `exit()` inside a stage sets `status` and stops. `StallF`, `StallD`,
`BubbleD` and `BubbleE` are the flags the loop sets.

Instructions that take the same path through the stages have one representative:
ADDI and ADD for the computations, LBU for the loads, SB for the stores, BEQ and BNE
for the branches, with JAL, JALR, ECALL, a word that cannot be decoded and the word
of zeros. Data is byte-sized; the caches appear only as the number of requests,
since `CacheHierarchy` shows that they answer as the memory does. A program that
accesses its own code is followed up to that access only (`status = "cut"`).

`SequentialMachine` is the machine the program is written for. The mapping of
`PipelineRefinement` says that an instruction takes effect when EX has executed it:
the sequential registers and memory are those of the simulator with the effects of
the instructions in W, M and just executed in E laid over them; the sequential pc is
the oldest instruction not executed, which is in E, in D, or where the fetch will go.
The number of executed instructions and of executed branches are mapped too
(`inst_cnt`, `correct_predict + mispredict` and what is in flight), so the counters
must be right for the refinement to hold.

### Datapath

`Pipeline` knows that an ADD adds; `Datapath` knows how. A word is the set of the
positions of its one bits, so masks and shifts of the decoder are intersections and
translations, and a wrong mask is a wrong set. Values are numbers of `XLen` bits,
where a byte has `ByteWidth` of them: with bytes of two bits a register has sixteen, a
word eight, a half word four; with bytes of eight bits it is the code's own datapath, which
the proofs are about as well (`DecoderAssumption`). Every conversion of the code (`int32_t`,
`uint64_t`, the address of `HandleRequest` with its 32 bits, `AddrLen`) keeps its
place among them. `Two` and `Joined` are the powers of two and the numbers of given digits, as
recursive functions, so that both can be reasoned about. What memory holds (`Contents`) and the
instructions with their operands (`Tests`) are parameters. Each of IF, ID, EX, MEM, WB is an action on `latch`, the pipeline
register in front of it. Where the C++ code has no defined outcome (MULW with its
overflow, an access across the end of a cache block, a call of `inst_name[-1]`) the
model takes what the build can do, and the comparison leaves those cases aside
(`Undefined`), with the calls that are not for printing, of which the manual says nothing.

`RiscV` is written from the instruction set manual and not from the code: formats,
opcodes, what an assembler accepts (`WellFormed`), and `IsaStep`, the set of states the manual allows after an instruction, empty
when it raises an exception. `ConformsButForTheList` is an equivalence: the
datapath agrees with the manual if and only if the instruction and its operands are
not in `Deviates`. So the list is the complete statement of what this simulator gets
wrong about a single instruction, and each entry names its cause:
SLTU, FENCE and LWU (holes and a missing `break` in ID), SLLW (a missing `break`), MULH
and REM (no case in EX), DIV by zero and by -1, SRLW and SRLIW by nothing, signed loads
without a sign, and accesses whose address is cut to 32 bits or never checked.

### Startup

A scenario is a command line, a disk, the input of the console, and whether
`memory.txt` can be written. `Startup` takes one step per argument, per header, section,
name and segment of the file, per page mapped and per byte copied, per page of the
stack, and then per cycle and per character of the console. The stream of
`ElfReader` is a sequence that may end anywhere: a read behind its end sets the fail
bit and leaves what it was to fill, after which every read does nothing,
as with `std::ifstream`; `JUNK` is a byte the reader has allocated and never filled. Fields are numbers of two
digits, so that the byte order of the file matters. Addresses of the loader wrap at
`AddrMod`, as `uint32_t` does.

`ElfFile` is the other direction: from a description of a program it gives the file a
linker would write in either class and byte order, and the memory image. Nothing in
it is taken from the reader. `LoadedAsLinked` compares all of memory with it.

Faulty variants (marked `\* faulty`) are definitions nothing uses: each is a
plausible mistake in the definition below it, and every property of a passing run
is violated when the one `PROJECT.json` names for it takes its place.

## 3. Runs

| Run | Instance | Shows |
|---|---|---|
| `CacheWriteBack` | 3 mapped blocks of 2 bytes, 1 unmapped, 1 set of 2 ways | a write-back level is a flat memory and its lines are coherent |
| `CacheWriteThrough` | the same with write-through, with and without allocation | a write-through level is a flat memory and the level below is always current |
| `CacheLRU` | 2 sets of 3 ways, 5 blocks, 7 requests, ages up to 7 | no two lines of a set have the same age; every request puts its block first in its set's order of recency and evicts exactly the last one, and only when the set is full |
| `Hierarchy` | 1, 1 and 2 lines, 4 mapped addresses, 1 unmapped | three levels are a flat memory; no clean line is stale; statistics agree |
| `HierarchyDump` | the same as `Hierarchy` | **violated**: a dump misses what the caches hold |
| `Pipeline` | all programs of 4 out of 10 data instructions, of 4 out of 6 control instructions, of 4 out of 8 jumps, illegal words and words of zeros, of 4 out of 5 forward branches; three strategies | sequential behaviour; no redirection is lost; prediction is kept; counters explain the cycles; at most three cycles each; no spurious end |
| `PipelineShadow` | branches before illegal words, NT | **violated**: a word on the wrong path ends the process |
| `PipelineReturn` | a load, a JALR through it | **violated**: the JALR is flushed and never executed |
| `Datapath` | every instruction, operands and immediates at the corners of their widths, every single bit of every immediate, accesses of every width at every offset | each does what the manual says, but for the list |
| `DatapathLoads` | LB, LH, LW | **violated**: they do not extend the sign |
| `Startup` | 344 programs, two of them cut at every place or with a field spoilt, some 800 command lines, 24 console sessions | options, loading, listing, start, console |
| `LoaderTail` | two unaligned segments | **violated**: the last bytes of a segment have no page |

`CyclesAccountedFor` is an interval, not an equation, because a jump in the shadow of
a mispredicted branch is counted in `cnt_j` and `control_cnt` and announced as
"bubble +1" (`simulation.cpp:256`) although it costs no cycle.

The violated runs are the findings of `PROJECT.json`; each quotes the comment or
document the program contradicts. `PipelineShadow` and `PipelineReturn` were also
reproduced with the compiled simulator on hand-written programs.

The sentence of the readme that `HierarchyDump` refutes, that `-m` prints all of memory, is
contradicted a second time by `dump_memory` itself: its inner loop ends at 1024 of the 4096
bytes of a page (`Simulation.h:231`), so the dump has the first quarter of every page and
nothing of the rest, however current memory is. `PageTable` models the dump as the code does it
(`Shown`); no property of a run claims anything of its contents.

### Bounds and why they are enough

* Caches: one set is enough for every property but replacement, because a request
  touches one set and the others only age; three blocks that compete for two ways give
  hits, clean and dirty evictions and refetches in any order. Two bytes
  distinguish old from new and part of a block from the rest; bytes are only
  moved, so they are symmetric. Counters and `visited_t` of invalid lines do not
  decide anything and are left out of the view; `MaxAccesses` keeps below the `int`
  counters and is never reached there. Requests are bounded (`MaxAccesses` = 7) in
  `CacheLRU` only, where ages are part of the state, and no age passes `AgeMax` = 7 there.
  With `AgeMax` below `MaxAccesses` the property fails: an age that overflows makes
  the oldest line the youngest. The code reaches that after some two billion requests.
* With `AgeMax = 1` (`CacheWriteBack`, ..., `Hierarchy`) ages wrap all the time, so what
  these runs show does not depend on which line is evicted.
* The hierarchy has fewer lines below than a real one, so that every
  order of evictions among the levels happens, including a block that has left `llc`
  while `l1` holds it.
* Pipeline: five stages hold five instructions, and a hazard spans at most three
  of them. A program is a nop, a body of four free instructions, twice
  `a7 := 93; ecall` and a filling (nops, words of zeros, or each in turn), ten words in
  all (`CodeSize` = 40), so every combination of four meets in every stage position.
  `MaxCycles` = 26 cuts programs with backward jumps only; the safety properties hold in
  every cycle up to it. `WordMod` = 128 puts code, data, addresses of neither and
  wrap-around in reach; bytes have two values (`ByteMod`), the registers used are four.
  The strategies make a difference to branches only, so a program without one is run
  under one of them (`MCInit`).
* What the passing pipeline run leaves out is what the violated ones show: it has no
  program with a load in front of a JALR through its register (`PipelineReturn`) and
  none with a word that is no instruction behind a mispredicted branch (`PipelineShadow`).
* Datapath: bytes of two bits make all corners of a 16-bit register few enough to
  pair every one with every other (`Corners`), and keep products within TLC's numbers.
  One cache block has 8 bytes, memory 16 addresses out of 32, so accesses cross
  blocks, leave memory at both ends and are cut at `AddrLen` = 5 bits.
* Startup: pages of 4 bytes, 4 tables of 4 pages, 64 addresses. The ten shapes of
  segments lie on and off page boundaries, share pages, overlap the stack, lie above the
  address space, have no type, no bytes or no size; programs have every pair of them in
  both classes, and every single one in both byte orders (and one that is neither) with
  every choice of the section of names. Two more shapes reach the end of the address
  space. Arguments are all sequences of up to two of seven, and of up to four of five.
  Three cycles (`MaxCycles`) are enough for the console to be asked before, between and
  after what it answers.

`CHECK_DEADLOCK FALSE` stands in every configuration, because the system does stop:
`exit()` is the only end it has, and bounded runs stop at their bound.

### Fairness and liveness

`Startup`'s `FairSpec` is `WF_vars(Next)`: there is one thread, and it waits for nothing but
the console, so while a step is enabled one is taken. At the end of the console's
input `getchar` returns EOF for ever and the loop spins without changing anything:
no step is enabled and fairness asks for none. No property speaks of that spin: the repository
does not say what should happen there, and it is listed as a hazard without one. `ComesToAStart` leaves out segments
that end in the last page of the address space, for which the page loop never ends
(`Read_Elf.cpp:58`); `GoIsAnswered` speaks of inputs that still hold a `g`.

About the pipeline the project states a bound instead, which needs no fairness and
can be proved: `KeepsPace`, at most three cycles for every instruction executed. A hazard that
asked for its stall again and again would break it, in programs with loops as well.

## 4. Proofs

### One cache level (`CacheProofs`, `LevelProofs`)

About `Cache`, for every block size, number of sets and ways, write
policy, latency, set of bytes, of mapped addresses and of accesses, and every width of
the age:

* `TypeCorrect`: `Spec => []TypeOK`
* `Coherence`: `Spec => []LinesAreCoherent`
* `WrittenThrough`: `Spec => []LowerIsCurrent`
* `Refinement`: `Spec => FlatSpec`

Assumptions (`LevelAssumption`, `CacheAssumption`): sizes are positive; a block is mapped
as a whole or not at all (pages are multiples of blocks); an access stays within
its block. The last one is what the code needs to be defined at all: beyond the
block it runs past `blk`. The level below answers as a flat memory and ends the
process on an address without a page.

The invariant is `IInv`: the types, and `Coherent`: no block in two ways of its set,
only mapped blocks, clean lines equal to the bytes below, write-through lines clean. It
is needed because `FlatSpec` alone is not inductive: with a block held twice, or a
stale clean line, a request from that state would change the memory the caller sees.

The lemmas about a request are in `LevelProofs`, which knows the level below by a
promise only (`LowerPromise`): in the states it is in (`LowerOK`) it shows a memory
(`LowerMem`), answers from it, changes it as a flat memory does, and ends the process
for an address without a page. A request is at most three moves on the lines, each with
a lemma of its own: `Kick` forgets a victim (after its bytes are below, if it was
dirty), `Insert` adds a fetched block, `WriteLine` writes into the line that holds the
address. `Sees(set, low, v)` says that lines and lower level together show the memory
`v`; every move keeps `Coherent` and changes `v` as the flat memory does.
`HandleRequestCorrect` combines them, and `Promise` restates the result as the promise
for the level above. `CacheProofs` shows that the flat memory of `Cache` keeps the
promise (`FlatBelow`); the invariant and the refinement follow.

What replacement does never enters the proof beyond "the victim is a way": the
theorems hold whatever the ages say, overflow included.

### Replacement (`CacheProofs`)

About `CacheLRU`, for every geometry, policy, set of accesses and number of
requests up to the greatest age (`NoOverflow`: `MaxAccesses <= AgeMax`):

* `AgesDiffer`: `Spec => []NoTies`
* `LeastRecentlyUsed`: `Spec => EvictsLeastRecentlyUsed`

The code has no order of recency, only ages, and ages are advanced by every
request of the level, whichever set it goes to. `Later(ways)` reads an order off the ages
of a set and `RecencyStep` says what a request may do to it, without ages or ways. The
invariant is `LRUInv`: `IInv` of one level (a block is in one way of its set), `NoTies`, and
`AgesCount`: no age exceeds the number of requests. With the last one ageing adds one to the
age of every line and keeps all orders (`AgedOrder`); with the two others the victim is older
than every other line of its set, not just as old as the oldest (`StaysMeans`), and a line
whose age is cleared comes before all others, which are at least 1 after ageing
(`UsedOrder`). `RequestLines` is what the four outcomes of `HandleRequest` have in common.
Without `NoOverflow` they are false: TLC finds the wrong victim with `AgeMax` = 4 and 7
requests, and two lines of one age with `AgeMax` = 1, where ages wrap around to 0. In the code
the condition is that a level gets fewer than 2^31 requests.

### The hierarchy (`HierarchyProofs`)

About `CacheHierarchy`, for every number of sets and ways of each level, every block
size, latency, set of mapped addresses and of accesses:

* `TypeCorrect`: `Spec => []TypeOK`
* `CleanLines`: `Spec => []CleanLinesAgree`
* `Statistics`: `Spec => StatisticsAgree`
* `Refinement`: `Spec => FlatSpec`

The assumptions (`HierarchyAssumption`) are those of one level. `LevelProofs` is used
three times: memory keeps its promise (`MemoryPromise`), so llc does (`LLCPromise`), so
l2 does (`L2Promise`), and the answers of l1 are those of a flat memory. The invariant
`IInv` is `TypeOK` and `CoherentLevels`: the lines of each level are `Coherent` with
what the level below *shows*. Coherence with memory would be false: a clean line of l1
may be newer than memory while l2 holds the block dirty. That it is enough although
levels evict independently is the point of the proof: an eviction changes what a level
holds and not what it shows. The statistics are a second promise, `Bookkeeping`: a
request counts once, and takes the level's own time plus what it asked of the level
below. It is passed up the same way (`MemoryBooks`, `LLCBooks`, `L2Books`, `L1Books`).

### The pipeline (`PipelineProofs`)

About `PipelineRefinement`, for every program, prediction strategy, width of words and
bytes, set of registers, code and data area, initial memory and `MaxCycles`:

* `TypeCorrect`: `Spec => []TypeOK`
* `Redirected`: `Spec => []RedirectIsKept`
* `Predicting`: `Spec => []FollowsPrediction`
* `Accounting`: `Spec => []CyclesAccountedFor`
* `Pace`: `Spec => []KeepsPace`

They need the assumptions of `Instructions` and `Pipeline` only. The invariant has three layers.

`Types` gives every pipeline register its record type, and says what relates its
fields (an instruction that writes has a register to write). It is stronger than
`TypeOK` because EX takes fields ID has left, and MEM those of EX.

`Control` is what makes redirection and prediction inductive. The properties speak of
the moment between two stages; but stages run in the order WB, MEM, EX, ID, IF, each
reading what older stages of the same cycle have already overwritten. So the invariant
says what each stage has left for the rest of the cycle (`AfterEX`, `AfterID`,
`AfterIF`), what is behind a redirection (`NothingBehind`), that the next fetch
continues what D holds (`FetchedBehind`), and D what E was predicted to continue with
(`DecodedBehind`). The one long step is `Tick`, where stalls and bubbles overlap.

`Counting` relates cycles, instructions, mispredictions and bubbles in flight, with the
cycle and the instruction that are half counted taken off (`CyclesDone`, `InstsDone`).
`KeepsPace` is not inductive by itself: what is needed is how far the next instruction
is from EX (`Distance`), and that an instruction which does not jump has another one
behind it (`FullBehind`), which fails with words of zeros: hence `ZeroFree` in both
properties. The proof found the bound of `KeepsPace` one too small in a case TLC's
programs do not contain (the first instruction of all faults in MEM while nothing has
been executed behind it); the property carries that term now.

### The refinement of the pipeline (`SequentialProofs`)

Also about `PipelineRefinement`, with the same constants and no further assumptions:

* `DataFlowInvariant`: `Spec => []DataFlow`
* `PipelineImplements`: `Spec /\ NoLoadIntoJump => SequentialSpec`
* `EndsAsTheProgram`: `Spec /\ ShadowIsCode => []NoSpuriousEnd`

The refinement speaks of the registers and the memory *with what is in flight laid over
them*, so its invariant has to say that what is in flight is right. `DataFlow` says, at
every moment of a cycle: what W and M hold has been done once their stage has run (`AfterWB`,
`HandedToWB`), and x0 stays zero (`ZeroIsZero`); the signals `m` and `e` that ID forwards from and IF is redirected by agree
with what goes down the pipeline (`HandedToWB`, `HandedToMEM`); D and E hold words of the
text and what was decoded from them (`DFromText`, `EFromText`); what ID puts into E has
the operands of the sequential machine unless the cycle is going to repeat it behind a
load (`HandedToEX`), so what EX finds has them without exception (`EOperands`); and what
follows in D is what was predicted (`Continues`). It holds of every program.
`EOperands` is the
correctness of forwarding, and `OperandIsCurrent` the lemma behind it: whichever of e, m
and the register file ID takes an operand from, it is the newest write, except for the one
case the load-use stall is for. TLC checked every conjunct but `Prints` on the programs of the
run `Pipeline` before it was proved.

The refinement then is one lemma per stage. `ExecutionImplements` and `ExitImplements`: EX
takes the step of the sequential machine; `AfterExecution` says where the program goes on,
`ExecutionEffect` what it has read and written, each for all kinds of instruction.
`WBStutters` and `MEMStutters`: an effect that reaches the register file or the memory is
one that was laid over it already. `IDImplements` and `IFImplements`: nothing crosses EX,
and an end is the program's own or not seen by the sequential machine.
`TickKeepsEffects` and `TickKeepsPlace`: the end of the cycle, with all its stalls and
bubbles, loses no instruction and repeats none. `SequentialSpec` is a safety property:
that the pipeline comes to execute anything is `KeepsPace` (`Pace`).

Both conditions are on the text of the program alone, and the code needs them:

* `NoLoadIntoJump`: no load is directly followed by a JALR through the register it loads.
  `TickKeepsPlace` fails without it, in the one cycle that stalls D for the load and clears
  it for the jump; that is what the violated run `PipelineReturn` shows.
* `ShadowIsCode`: there is code behind every instruction, and what follows a branch, a load
  or a store is no illegal instruction. Those are the instructions behind which something
  is decoded that may never be reached, and ID and IF end the process on sight
  (`PipelineShadow`). A page is allocated with zeros, so a program that does not fill
  its last page to the end has code behind every instruction. The condition is
  sufficient, not necessary: it asks this of code that is never reached as well, so the run
  `Pipeline` checks `NoSpuriousEnd` on programs that violate it, too (those filled with
  nops); those of forward branches and loads filled with zeros fulfil it.

### The datapath (`DatapathProofs`)

About `DatapathConformance`, for every set of well-formed instructions with any operands, any
pc, any contents of memory, every prediction strategy, block size and width of an address, and
bytes of 2, 4 or 8 bits:

* `OneTestInvariant`: `Spec => []OneTest`
* `TypeCorrect`: `Spec => []TypeOK`
* `Immediates`: `Spec => []ImmediateIsRecovered`
* `Conformance`: `Spec => []ConformsButForTheList`

The run `Datapath` shows these for operands at the corners of 16 bits; the theorems say them of
64 bits and all 2^64 values of each operand. The assumptions: `DecoderAssumption` (the three
widths; with bytes of one bit the shift of LUI would not fit a register),
`DatapathAssumption` (values have their widths, x0 is zero, blocks are mapped as a whole, the pc
is aligned, since IF ends the process at any other, and no test calls for a string to be printed,
which reads memory) and `ConformanceAssumption` (a test's word is the manual's encoding of its
well-formed instruction).

None of the properties is inductive: at the end there is a result, and nothing before says why it
is that one. The invariant `OneTest` says that the state is determined by the test, the
strategy and the stage: `Path` gives registers, memory, pc and latch at each of the eight places
a test can be in as functions of the test (`Fetched`, `Issued`, `Executed`, `PcAfter`, `Accessed`,
`Left`), up to the bytes a load finds behind its block. One lemma per stage (`Fetches`,
`Decodes`, `Executes`, `Reaches`, `WritesBack`) shows it is kept. What remains is then about
functions, without behaviours:

* *Numbers.* That `Two` and `Joined` are defined and satisfy their recursions (`Recursion`,
  `TwoIs`, `JoinedStep`) is induction, here on sets of numbers through the least element of
  their complement (`Induction`, from `WFMin`), since induction theorems over
  predicates cannot be cited. From it: a number is given by its bits and gives
  them back (`UnsignedOfBits`, `UnsignedFits`, `UnsignedSplit`).
* *Words.* `WordR` to `WordJ` say which bits of an encoded word hold what; `FieldsAre` and `ImmI` to
  `ImmU` what the masks and shifts of ID make of such bits. `DecodeOP` to `DecodeOTHERS` put both
  together: what ID issues for every instruction of the manual, and for SLTU, LWU, SLLW,
  FENCE and MULW something else.
* *Arithmetic.* `ComputedIn` gives EX's results their width. `WordSums`, `WordShiftLeft`,
  `WordShiftRight`, `Divisions`, `UpperValue`, `CountOfSRAIW`, `LoadedSign` and `StoredDigit` are the
  places where code and manual compute in different ways: in words extended before or after the
  operation, by quotients rounded towards zero, with an immediate shifted twice, with a count
  that still has a bit of funct7 in it, and the other way round, where the sign of a load is missing.
* *Comparison.* `PlainConforms` reduces an instruction that only computes to one
  equation between values; `Overwrites` is the reason that nothing shows when the destination is x0.
  One lemma per group (`ConformsOP` to `ConformsSTORE`) then proves the equivalence, in both
  directions: what is not on the list conforms, and what is on it does not.

The proof changed the model. `ImmType` was a CASE whose guards overlapped (one on
funct3, two on the bits behind the shift count), which TLC resolves by order and the semantics of TLA+ leaves open; powers, digits and
tables are functions and records now that can be reasoned about; and the comparison says of which
calls it speaks.

### Startup (`StartupProofs`)

About `StartupProperties`, for every split of an address into directory, table and
page, every stack of whole pages, every command line, file and console input:

* `TypeCorrect`: `Spec => []TypeOK`
* `OptionsCorrect`: `Spec => []OptionsAsGiven`

The assumptions are `PageTableAssumption` (sizes are positive), `StartupAssumption` (the
stack lies in the address space and is made of pages; null is neither a page nor
data) and `ScenarioAssumption` (arguments have the three parts `main` looks at, files are
sequences of numbers). Nothing is assumed of the file: it may be cut anywhere and its
headers may say anything.

`TypeInv` has four parts. `ReaderOK` gives header, sections and segments their types with
the one fact the loader relies on: where a segment has data, it has as many bytes as
its header says. `Control` keeps `next` below the number of segments
in both loops of the loader, `p` at or above `seg_start` in the second one, so `data[p -
seg_start]` is never outside, and `p` at a page boundary within the stack. `MemoryOK`
says memory is a directory of tables of pages. It needs `AllocCorrect` and `StoreCorrect`,
which say of every address what an allocation and a store change, and those that
directory, table and offset determine an address and no two addresses share them
(`PartsOfAt`, `AtOfParts`).

`OptionsAsGiven` says which arguments count without going through them: a -b takes the
one behind it unless it is itself what a -b takes. `ArgsInv` says so of the arguments
read so far, and that `main` never stands at a value; `ValueStep` is the reason: of a row
of -b's every second one is a value.

### Loading (`LoaderProofs`)

About `StartupProperties` too, with the same constants:

* `ListingCorrect`: `Spec => []ListingIsTheFile`
* `NothingIsInvented`: `Spec => []NothingInvented`
* `LoadedCorrect`: `Spec => []LoadedAsLinked`
* `StartsCorrect`: `Spec => []StartsExactlyWhen`

There is one more assumption, `FileAssumption`: every file is `Written` from a description whose
fields have two digits, with any number of sections and segments, and cut anywhere. What the
entries of the two header tables say is free: they may contradict each other and the file.
The tables themselves are where a linker puts them (segments behind the file
header, sections at the end), and their entries have the standard size; of files with other tables
these theorems say nothing, while those of `StartupProofs` hold of them too. The properties speak of `Intact` files, where the headers
refer to nothing that is missing, and `LoadedAsLinked` and the ways a start ends of segments that
`Fits`: for one that ends in the last page the loop over the pages never ends. `NothingInvented`
needs neither. Of a file that is not intact or does not fit, `StartsExactlyWhen` says only that the process fails
over it when it is no ELF file.

The first part is about one read. `FileHeader`, `FileSegment` and `FileSection` say which cells of
the file hold a field; `StructureFull`, `FieldRead` and `DataRead` what a read makes of them, in
either byte order and either order of fields; `LoadSectionAs`, `LoadSegmentAs` and `NameRead` put
them together into what the reader has of a section, a segment and a name. The segment's
lemma holds of cut files as well: each byte of its data is the file's or one nobody read.
`ReadOf` is the invariant these give: at every moment between two reads, the header and the
sections and segments read so far are those of the description, of sections as far as the file is intact.
`ReadInv` adds that the process fails over a file only when it is none. From it follow
`ListingIsTheFile` and, with `StartInv` (memory is empty before the loader and untouched by cycles
before the start) and `HonestInv`, `NothingInvented`.

The second part is about memory. `LoadedAsLinked` says nothing before the start, so the invariant
`LoadOf` says what there is of the image in the middle of each of the loader's three loops.
`MemoryIs(d, S, n, done)` is its measure: memory has exactly the pages `S`, and in them the bytes of
the first `n` segments and those of the next one at the addresses `done`. `Mapped` uses it in the loop
over pages, `Copied` in the loop over bytes, `StackTo` in the loop over the stack, and `Ended` when the
process has ended, where the segment it ended over is in `Stops` and none before it is (`NoStop`). The
points where it could have failed have lemmas of their own: `PagesOfLoop`, that the loop from an
unaligned address maps exactly the pages of the segment but the one in `Missed`; `Covered`, that a byte
copied before has its page, so a page shared with a later segment is not cleared by it; `ImageMore`,
that the later segment's bytes win. `LoadNextStep`, `MapPageStep`, `CopyByteStep`, `MapStackStep` and `RunStep`
are the steps. TLC checked `LoadInv` on the run `Startup` before it was proved.

The proof changed the model in three places: files are defined cell by cell, `Intact` excludes a
section as large as its file, for which the reader takes no data (`elfio_section.hpp:246`), and
`NothingInvented` does not ask for `Fits` any more.

### Only model-checked

* The liveness of the startup (`ComesToAStart`, `GoIsAnswered`): liveness and ENABLED are outside
  what the prover handles.
* What the five violated runs refute.

Every invariant, every action property and every refinement of a passing run is stated by a theorem as
well, some under a condition that is named with it. Where a proof needed induction over data (the arguments of a
-b, the digits of a number) it is by the invariant or by sets of numbers.

## 5. Not modelled, and why

* What ELFIO offers beyond reading headers, sections, names and segments: saving,
  layout, symbols, relocations, notes, dynamic entries, its own dump. Nothing in the
  simulator calls it.
* `Memory::load` and `Memory::store` of several bytes: called by nothing.
* The stubs for bypass, partition and prefetch in `cache.cpp`: they do nothing.
* Stores into the code while it is in the pipeline (`simulation.cpp:358`): a program is
  followed up to such an access; the architecture leaves the outcome open.
* The page between the stack as the loop of `simulation.cpp:211` maps it and the address below which
  line 299 warns of an overflow: `LoadedAsLinked` describes the stack as that loop maps it, so it
  says nothing of the difference, and no document says which of the two is meant.
* The overflow of the `int` counters of the statistics (`simulation.cpp:242`): runs are
  bounded instead.
* The text of the verbose output, and wording and ratios of the report.
* The sample programs: inputs.

## 6. Plan

Done: caches, their replacement and their hierarchy with their proofs, the pipeline with the
proofs of its invariants and its refinement, the datapath with the proof of its comparison with the
manual, memory, loader, reader, command line and console with proofs of types, options, reading
and loading. What is left:

1. The pipeline over the hierarchy: stages that call `L1Request` instead of reading
   memory, for programs that store into their code.
