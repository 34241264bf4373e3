------------------------- MODULE PipelineRefinement -------------------------
(***************************************************************************)
(* The pipeline implements the sequential machine.  An instruction takes   *)
(* effect when EX has executed it: at any moment the sequential state is   *)
(* the register file and memory with the effects of the instructions in W, *)
(* in M and just executed in E laid over them, oldest first.               *)
(***************************************************************************)
EXTENDS Pipeline

Executed == stage \in {"ID", "IF", "Tick"}   \* EX of this cycle has run

\* The effect of an instruction in W and in M, while it has not reached the
\* register file or the memory; repeating one that has changes nothing.
Written(r, w) ==
  IF w.inst # "BUBBLE" /\ w.reg_write /\ w.destReg # REG_ZERO
  THEN [r EXCEPT ![w.destReg] = w.valM] ELSE r

BadM(c) == c.inst # "BUBBLE" /\ (c.mem_read \/ c.mem_write) /\ c.valE \notin Data

Stored(memory, c) ==
  IF c.inst # "BUBBLE" /\ c.mem_write /\ c.valE \in Data
  THEN [memory EXCEPT ![c.valE] = c.valB] ELSE memory

Loaded(r, memory, c) ==
  IF BadM(c) THEN r
  ELSE Written(r, [inst |-> c.inst, reg_write |-> c.reg_write, destReg |-> c.destReg,
                   valM |-> IF c.mem_read THEN memory[c.valE] ELSE c.valE])

ArchMem == Stored(Stored(mem, Mreg.cur), Mreg.upd)
ArchReg == Loaded(Loaded(Written(reg, Wreg.cur), Stored(mem, Mreg.cur), Mreg.cur),
                  ArchMem, Mreg.upd)

\* The next instruction is the oldest one EX has not executed: in E, in D, at
\* the address a jump or a corrected branch sends the fetch to, or at the
\* predicted address; or it is the one whose access is about to fail in MEM.
NotExecutedPC ==
  CASE ~ Executed /\ Ereg.cur.inst # "BUBBLE" -> Ereg.cur.pc
    [] Executed /\ (e.isJ \/ e.Bwrong)       -> e.calcPC
    [] OTHER -> IF Mreg.cur.M_Bwrong THEN Mreg.cur.M_calcPC
                ELSE IF Dreg.cur.inst # ZeroWord THEN Dreg.cur.pc
                ELSE Freg.cur.predPC
RawPC == IF BadM(Mreg.cur) THEN Mreg.cur.pc
         ELSE IF BadM(Mreg.upd) THEN Mreg.upd.pc ELSE NotExecutedPC
ArchPC == NextInstruction(prog, RawPC)

One(b) == IF b THEN 1 ELSE 0
ArchInstructions ==
  cnt.inst_cnt
  + One(stage \in {"WB", "MEM"} /\ Mreg.cur.inst # "BUBBLE" /\ ~ BadM(Mreg.cur))
  + One(Mreg.upd.inst # "BUBBLE" /\ ~ BadM(Mreg.upd))
ArchBranches ==
  cnt.correct_predict + cnt.mispredict + One(Executed /\ e.Bwrong)

\* The process may end before EX reaches the instruction that ends the
\* program: in ID on what it decodes, in IF on where it fetches.  Such an end is
\* the program's own when nothing older is left to execute.
OwnEnd ==
  CASE status = "fetch"   -> ~ Fetchable(prog, ArchPC)
    [] status = "illegal" -> Fetchable(prog, ArchPC) /\ prog[ArchPC].op = "ILLEGAL"
    [] OTHER              -> TRUE

ArchStatus ==
  IF BadM(Mreg.cur) THEN Access(Mreg.cur.valE)
  ELSE IF BadM(Mreg.upd) THEN Access(Mreg.upd.valE)
  ELSE IF OwnEnd THEN status ELSE "running"

Sequential == INSTANCE SequentialMachine WITH
  pc <- ArchPC, reg <- ArchReg, mem <- ArchMem,
  instructions <- ArchInstructions, branches <- ArchBranches, status <- ArchStatus

\* The pipeline executes exactly the instructions of the program, in order and
\* once each, with the registers, memory and output the sequential machine has:
\* no stall, bubble, squash or forward (simulation.cpp:249-297, 856-906) loses,
\* repeats or misinforms one, and no instruction of a wrong path takes effect.
SequentialSpec == Sequential!Spec

\* The process never ends on an instruction the program does not reach: by
\* decoding or fetching down a path that is not taken (simulation.cpp:365-372 and
\* the exits of ID), or ahead of an instruction that ends the program.
NoSpuriousEnd == OwnEnd

-----------------------------------------------------------------------------
(* What holds between the stages and makes the above true.                 *)

TypeOK ==
  /\ prog \in [PCs -> Instruction] /\ branch_strat \in Strategies
  /\ reg \in [Reg -> Word] /\ mem \in [Data -> Byte]
  /\ Freg.cur.predPC \in Word
  /\ \A r \in {Dreg.cur, Dreg.upd} :
       r.pc \in Word /\ r.inst \in Instruction /\ r.PCnottaken \in Word /\ r.take_branch \in BOOLEAN
  /\ \A r \in {Ereg.cur, Ereg.upd} :
       /\ r.pc \in Word /\ r.inst \in Ops \cup {"BUBBLE"} /\ r.destreg \in Reg \cup {-1}
       /\ {r.valA, r.valB, r.offset} \subseteq -WordMod .. WordMod
  /\ \A r \in {Mreg.cur, Mreg.upd} :
       /\ r.valE \in Word /\ r.destReg \in Reg \cup {-1} /\ r.M_calcPC \in Word
       /\ r.reg_write => r.destReg \in Reg
       /\ ~ (r.mem_read /\ r.mem_write)
  /\ \A r \in {Wreg.cur, Wreg.upd} : r.valM \in Word /\ (r.reg_write => r.destReg \in Reg)
  /\ stage \in {"WB", "MEM", "EX", "ID", "IF", "Tick"}
  /\ status \in {"running", "exit", "illegal", "fetch", "fault", "cut"}

\* A redirected fetch is never thrown away: when M or E sends the fetch elsewhere
\* nothing younger is in the stages behind, so no hazard can stall the fetch or
\* flush what it brings in (simulation.cpp:249-291 against 336-346).
RedirectIsKept ==
  /\ Mreg.cur.M_Bwrong => Ereg.cur.inst = "BUBBLE" /\ Dreg.cur.inst = ZeroWord
  /\ Ereg.cur.inst \in Jumps => Dreg.cur.inst = ZeroWord
  /\ stage = "Tick" /\ FetchPC # Freg.cur.predPC => ~ JumpInD /\ ~ LoadUse

\* The instruction behind a branch in E is the one the branch was predicted to
\* continue with; behind anything else it is the next one in memory, words of
\* zeros aside: the address kept for a misprediction is always the other one.
FollowsPrediction ==
  \A x \in {Ereg.cur} :
    ~ Executed /\ x.inst \notin Jumps \cup {"BUBBLE"} /\ Dreg.cur.inst # ZeroWord =>
      LET taken == Wrap(x.pc + x.offset)
          next  == NextInstruction(prog, IF x.take_branch THEN taken ELSE Wrap(x.pc + 4))
      IN  /\ Dreg.cur.pc = next
          /\ x.inst \in Branches =>
               x.PCnottaken = IF x.take_branch THEN Wrap(x.pc + 4) ELSE taken

\* Bubbles now between D and M; those among them will have cost a cycle each.
InFlight == One(Dreg.cur.inst = ZeroWord) + One(Ereg.cur.inst = "BUBBLE")
            + One(Mreg.cur.inst = "BUBBLE")

ZeroFree == \A pc \in PCs : prog[pc] # ZeroWord

\* The statistics explain the cycles: besides the three that fill the pipeline
\* every lost cycle is two for a mispredicted branch, one for a load-use hazard
\* or at most one for a jump found in D (programs without words of zeros).  A jump
\* behind a mispredicted branch costs nothing, although simulation.cpp:258 counts it.
AtLeast == cnt.inst_cnt + 3 + 2 * cnt.mispredict + cnt.loaduse_cnt - InFlight
CyclesAccountedFor ==
  stage = "WB" /\ status = "running" /\ ZeroFree =>
    /\ AtLeast <= cnt.pipeline_cycle_cnt
    /\ cnt.pipeline_cycle_cnt <= AtLeast + cnt.cnt_j

\* The pipeline never stops making progress: an instruction takes one cycle and,
\* if it is a branch or what a branch or a load delays, at most two more, so that
\* no stall or flush can be asked for again and again for the same instruction
\* (simulation.cpp:276-284; programs without words of zeros).  Two cycles fill the
\* pipeline, and one more goes by when the instruction in M is about to fault.
KeepsPace ==
  stage = "WB" /\ status = "running" /\ ZeroFree =>
    cnt.pipeline_cycle_cnt <= 3 * ArchInstructions + 2 + One(BadM(Mreg.cur))
=============================================================================
