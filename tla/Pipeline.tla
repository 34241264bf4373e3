------------------------------ MODULE Pipeline ------------------------------
(***************************************************************************)
(* The five-stage pipeline (class SIM).  simulate() calls the stages of a  *)
(* cycle from the last to the first, then decides which pipeline registers *)
(* stall or become bubbles and moves them on; each call is one action.     *)
(* Data and instructions are read through l1, which behaves as the memory  *)
(* below it (module CacheHierarchy); only its use is counted here.         *)
(***************************************************************************)
EXTENDS Instructions

CONSTANTS
  Programs,     \* the programs to run: functions from PCs to Instruction
  Memories,     \* the initial contents of Data
  Strategies,   \* the values of branch_strat
  MaxCycles     \* bound: the cycles a behaviour is followed for

ASSUME PipelineAssumption ==
  /\ Programs \subseteq [PCs -> Instruction]
  /\ Memories \subseteq [Data -> Byte]
  /\ Strategies \subseteq {"AT", "NT", "BTFNT"}
  /\ MaxCycles \in Nat

VARIABLES
  prog, branch_strat,           \* chosen once
  reg, mem, out,                \* registers, memory, what was printed
  Freg, Dreg, Ereg, Mreg, Wreg, \* pipeline registers [cur, upd]
  e, m,                         \* e_*, m_*: results of EX and MEM in this cycle
  d,                            \* d_reg1, d_reg2
  cnt,                          \* the performance counters
  stage,                        \* what simulate() calls next
  status                        \* "running", or how the process ended

machine == <<reg, mem, out>>
pipe    == <<Freg, Dreg, Ereg, Mreg, Wreg>>
signals == <<e, m, d>>
vars    == <<prog, branch_strat, machine, pipe, signals, cnt, stage, status>>

\* memset(&upd, 0, sizeof(upd)) of each register; E, M and W hold insttype,
\* which for a bubble is 0 as well.
NoF == [predPC |-> 0]
NoD == [pc |-> 0, inst |-> ZeroWord, PCnottaken |-> 0, take_branch |-> FALSE]
NoE == [pc |-> 0, inst |-> "BUBBLE", destreg |-> 0, valA |-> 0, valB |-> 0, offset |-> 0,
        PCnottaken |-> 0, take_branch |-> FALSE]
NoM == [pc |-> 0, inst |-> "BUBBLE", valB |-> 0, valE |-> 0, destReg |-> 0,
        reg_write |-> FALSE, mem_write |-> FALSE, mem_read |-> FALSE,
        M_Bwrong |-> FALSE, M_calcPC |-> 0]
NoW == [pc |-> 0, inst |-> "BUBBLE", valM |-> 0, reg_write |-> FALSE, destReg |-> 0]

Cleared(r) == [cur |-> r, upd |-> r]

NoSignals == [isJ |-> FALSE, Bwrong |-> FALSE, reg_write |-> FALSE, valE |-> 0,
              calcPC |-> WordMod - 1]

Init ==
  /\ prog \in Programs
  /\ branch_strat \in Strategies
  /\ reg = StartReg
  /\ mem \in Memories
  /\ out = << >>
  /\ Freg = [cur |-> [predPC |-> CodeStart], upd |-> NoF]
  /\ Dreg = Cleared(NoD) /\ Ereg = Cleared(NoE) /\ Mreg = Cleared(NoM) /\ Wreg = Cleared(NoW)
  /\ e = [NoSignals EXCEPT !.calcPC = 0]
  /\ m = [reg_write |-> FALSE, valM |-> 0]
  /\ d = [reg1 |-> -1, reg2 |-> -1]
  /\ cnt = [pipeline_cycle_cnt |-> 0, inst_cnt |-> 0, cache_cnt |-> 0,
            correct_predict |-> 0, mispredict |-> 0,
            cnt_j |-> 0, control_cnt |-> 0, loaduse_cnt |-> 0]
  /\ stage = "WB"
  /\ status = "running"

\* exit(): the process is gone, nothing else of the call is visible.
End(why) ==
  /\ status' = why
  /\ UNCHANGED <<prog, branch_strat, machine, pipe, signals, cnt, stage>>

\* The stage is done: simulate() calls the next one.
GoOn(next) ==
  /\ stage' = next
  /\ UNCHANGED <<prog, branch_strat, status>>

Here(s) == stage = s /\ status = "running"

-----------------------------------------------------------------------------
WB ==
  LET w == Wreg.cur
  IN  /\ Here("WB") /\ cnt.pipeline_cycle_cnt < MaxCycles
      /\ reg' = IF w.inst # "BUBBLE" /\ w.reg_write /\ w.destReg # REG_ZERO
                THEN [reg EXCEPT ![w.destReg] = w.valM] ELSE reg
      /\ cnt' = [cnt EXCEPT !.pipeline_cycle_cnt = @ + 1]
      /\ GoOn("MEM")
      /\ UNCHANGED <<mem, out, pipe, signals>>

MEM ==
  LET c    == Mreg.cur
      uses == c.mem_read \/ c.mem_write
      valM == IF c.mem_read THEN mem[c.valE] ELSE c.valE
  IN  /\ Here("MEM")
      /\ \/ /\ c.inst = "BUBBLE"
            /\ m' = [reg_write |-> FALSE, valM |-> 0]
            /\ Wreg' = [Wreg EXCEPT !.upd = NoW]
            /\ GoOn("EX")
            /\ UNCHANGED <<machine, Freg, Dreg, Ereg, Mreg, e, d, cnt>>
         \/ /\ c.inst # "BUBBLE" /\ (uses => c.valE \in Data)
            /\ mem' = IF c.mem_write THEN [mem EXCEPT ![c.valE] = c.valB] ELSE mem
            /\ m' = [reg_write |-> c.reg_write, valM |-> valM]
            /\ Wreg' = [Wreg EXCEPT !.upd = [pc |-> c.pc, inst |-> c.inst, valM |-> valM,
                                             reg_write |-> c.reg_write, destReg |-> c.destReg]]
            /\ cnt' = [cnt EXCEPT !.inst_cnt = @ + 1, !.cache_cnt = @ + (IF uses THEN 1 ELSE 0)]
            /\ GoOn("EX")
            /\ UNCHANGED <<reg, out, Freg, Dreg, Ereg, Mreg, e, d>>
         \/ /\ c.inst # "BUBBLE" /\ uses /\ c.valE \notin Data
            /\ End(Access(c.valE))

-----------------------------------------------------------------------------
(* EX: the switch over insttype, by what an instruction computes.          *)

\* Faulty variants, here and below, are definitions no other definition uses:
\* each is a mistake that the properties must notice when it takes the place of
\* the definition after it.
WholeWord(v) == v
LowByte(v) == v % ByteMod

Result(x) ==
  CASE x.inst \in {"ADDI", "ADD"} -> Wrap(x.valA + x.valB)
    [] x.inst \in Jumps           -> Wrap(x.pc + 4)
    [] x.inst \in {"LBU", "SB"}   -> Wrap(x.valA + x.offset)
    [] x.inst \in Branches        -> IF Taken(x.inst, x.valA, x.valB)
                                     THEN Wrap(x.pc + x.offset) ELSE 0
    [] OTHER                      -> 0

CalculatedPC(x) ==
  IF x.inst = "JAL" THEN Wrap(x.pc + x.valA) ELSE (Wrap(x.valA + x.valB) \div 2) * 2

EX ==
  LET x      == Ereg.cur
      wrong  == x.inst \in Branches /\ x.take_branch # Taken(x.inst, x.valA, x.valB)
      call   == IF x.inst = "ECALL" THEN Syscall(mem, x.valA, x.valB)
                ELSE [print |-> << >>, then |-> "ok"]
      e1     == [isJ       |-> x.inst \in Jumps,
                 Bwrong    |-> wrong,
                 reg_write |-> x.inst \in {"ADDI", "ADD", "LBU"} \cup Jumps,
                 valE      |-> Result(x),
                 calcPC    |-> IF x.inst \in Jumps THEN CalculatedPC(x)
                               ELSE IF wrong THEN x.PCnottaken ELSE WordMod - 1]
      upd    == [pc |-> x.pc, inst |-> x.inst,
                 valB |-> IF x.inst = "SB" THEN LowByte(x.valB) ELSE x.valB,
                 valE |-> e1.valE, destReg |-> x.destreg, reg_write |-> e1.reg_write,
                 mem_write |-> x.inst = "SB", mem_read |-> x.inst = "LBU",
                 M_Bwrong |-> e1.Bwrong, M_calcPC |-> e1.calcPC]
  IN  /\ Here("EX")
      /\ \/ /\ x.inst = "BUBBLE"
            /\ e' = NoSignals
            /\ Mreg' = [Mreg EXCEPT !.upd = NoM]
            /\ GoOn("ID")
            /\ UNCHANGED <<machine, Freg, Dreg, Ereg, Wreg, m, d, cnt>>
         \/ /\ x.inst # "BUBBLE" /\ call.then = "ok"
            /\ e' = e1
            /\ Mreg' = [Mreg EXCEPT !.upd = upd]
            /\ out' = out \o call.print
            /\ cnt' = [cnt EXCEPT
                 !.correct_predict = @ + (IF x.inst \in Branches /\ ~ wrong THEN 1 ELSE 0),
                 !.cache_cnt = @ + (IF x.inst = "ECALL" /\ x.valB = 0 THEN Len(call.print) + 1 ELSE 0)]
            /\ GoOn("ID")
            /\ UNCHANGED <<reg, mem, Freg, Dreg, Ereg, Wreg, m, d>>
         \/ /\ call.then # "ok"
            /\ out' = out \o call.print
            /\ status' = call.then
            /\ UNCHANGED <<prog, branch_strat, reg, mem, pipe, signals, cnt, stage>>

-----------------------------------------------------------------------------
(* ID: reg1, reg2 and dest of the decoder, -1 where an instruction has     *)
(* none, and the values it takes to EX, forwarded when they are younger    *)
(* than the register file: from MEM first, from EX over it.                *)

Reg1(i) == CASE i.op \in {"ADDI", "ADD", "JALR", "LBU", "SB"} \cup Branches -> i.rs1
             [] i.op = "ECALL" -> REG_A0
             [] OTHER -> -1
Reg2(i) == CASE i.op \in {"ADD", "SB"} \cup Branches -> i.rs2
             [] i.op = "ECALL" -> REG_A7
             [] OTHER -> -1
Dest(i) == IF i.op \in {"ADDI", "ADD", "LBU"} \cup Jumps THEN i.rd ELSE -1

OperandOldest(r) ==                                                  \* faulty
  IF m.reg_write /\ Mreg.cur.destReg # REG_ZERO /\ r = Mreg.cur.destReg THEN m.valM
  ELSE IF e.reg_write /\ Ereg.cur.destreg # REG_ZERO /\ r = Ereg.cur.destreg THEN e.valE
  ELSE reg[r]
Operand(r) ==
  IF e.reg_write /\ Ereg.cur.destreg # REG_ZERO /\ r = Ereg.cur.destreg THEN e.valE
  ELSE IF m.reg_write /\ Mreg.cur.destReg # REG_ZERO /\ r = Mreg.cur.destReg THEN m.valM
  ELSE reg[r]

ID ==
  LET i == Dreg.cur.inst
  IN  /\ Here("ID")
      /\ \/ /\ i = ZeroWord
            /\ d' = [reg1 |-> -1, reg2 |-> -1]
            /\ Ereg' = [Ereg EXCEPT !.upd = NoE]
            /\ GoOn("IF")
            /\ UNCHANGED <<machine, Freg, Dreg, Mreg, Wreg, e, m, cnt>>
         \/ /\ i # ZeroWord /\ i.op # "ILLEGAL"
            /\ d' = [reg1 |-> Reg1(i), reg2 |-> Reg2(i)]
            /\ Ereg' = [Ereg EXCEPT !.upd =
                 [pc |-> Dreg.cur.pc, inst |-> i.op, destreg |-> Dest(i),
                  valA   |-> IF Reg1(i) # -1 THEN Operand(Reg1(i)) ELSE i.imm,
                  valB   |-> IF Reg2(i) # -1 THEN Operand(Reg2(i))
                             ELSE IF i.op = "JAL" THEN 0 ELSE i.imm,
                  offset |-> IF i.op \in {"JAL", "LBU", "SB"} \cup Branches THEN i.imm ELSE 0,
                  PCnottaken |-> Dreg.cur.PCnottaken, take_branch |-> Dreg.cur.take_branch]]
            /\ GoOn("IF")
            /\ UNCHANGED <<machine, Freg, Dreg, Mreg, Wreg, e, m, cnt>>
         \/ i.op = "ILLEGAL" /\ End("illegal")

-----------------------------------------------------------------------------
\* The pc of this cycle's fetch: a branch found wrong in the last cycle, now in
\* M, overrules a jump in E, and both overrule the prediction.
FetchPC ==
  IF Mreg.cur.M_Bwrong THEN Mreg.cur.M_calcPC
  ELSE IF e.isJ THEN e.calcPC ELSE Freg.cur.predPC

IF_ ==
  LET pc   == FetchPC
      inst == prog[pc]
      take == Predict(branch_strat, inst)
      there == IF inst.op \in Branches THEN Wrap(pc + inst.imm) ELSE Wrap(pc + 4)
  IN  /\ Here("IF")
      /\ \/ /\ Fetchable(prog, pc)
            /\ Freg' = [Freg EXCEPT !.upd = [predPC |-> IF take THEN there ELSE Wrap(pc + 4)]]
            /\ Dreg' = [Dreg EXCEPT !.upd =
                 [pc |-> pc, inst |-> inst, take_branch |-> take,
                  PCnottaken |-> IF take THEN Wrap(pc + 4) ELSE there]]
            /\ cnt' = [cnt EXCEPT !.cache_cnt = @ + 1]
            /\ GoOn("Tick")
            /\ UNCHANGED <<machine, Ereg, Mreg, Wreg, signals>>
         \/ ~ Fetchable(prog, pc) /\ End("fetch")

-----------------------------------------------------------------------------
\* tick() of a pipeline register: a bubble wins over a stall, and clears the
\* instruction only.
Ticked(r, bubble, stall, nothing) ==
  [cur |-> IF bubble THEN [r.cur EXCEPT !.inst = nothing.inst]
           ELSE IF stall THEN r.cur ELSE r.upd,
   upd |-> nothing]

\* The three hazards the end of simulate()'s loop looks for.
JumpInD   == Dreg.cur.inst.op \in Jumps
WrongInE  == Ereg.cur.inst \in Branches /\ e.Bwrong
DestUse   == Ereg.cur.destreg # REG_ZERO /\ Ereg.cur.destreg \in {d.reg1, d.reg2}  \* faulty
LoadUse   == /\ Ereg.cur.inst = "LBU" /\ Ereg.cur.destreg # REG_ZERO
             /\ Ereg.cur.destreg \in {d.reg1, d.reg2}

\* What they set: Freg.stall, Dreg.stall, Dreg.bubble, Ereg.bubble.
StallFOnControl  == JumpInD \/ WrongInE             \* faulty
BubbleDOnWrong   == WrongInE                        \* faulty
BubbleEOnLoadUse == LoadUse                         \* faulty
StallF  == JumpInD \/ WrongInE \/ LoadUse
StallD  == LoadUse
BubbleD == JumpInD \/ WrongInE
BubbleE == WrongInE \/ LoadUse

Tick ==
  /\ Here("Tick")
  /\ cnt' = [cnt EXCEPT
       !.cnt_j       = @ + (IF JumpInD THEN 1 ELSE 0),
       !.mispredict  = @ + (IF WrongInE THEN 1 ELSE 0),
       !.control_cnt = @ + (IF JumpInD THEN 1 ELSE 0) + (IF WrongInE THEN 1 ELSE 0),
       !.loaduse_cnt = @ + (IF LoadUse THEN 1 ELSE 0)]
  /\ Freg' = [cur |-> IF StallF THEN Freg.cur ELSE Freg.upd, upd |-> NoF]
  /\ Dreg' = Ticked(Dreg, BubbleD, StallD, NoD)
  /\ Ereg' = Ticked(Ereg, BubbleE, FALSE, NoE)
  /\ Mreg' = Ticked(Mreg, FALSE, FALSE, NoM)
  /\ Wreg' = Ticked(Wreg, FALSE, FALSE, NoW)
  /\ reg' = [reg EXCEPT ![REG_ZERO] = 0]
  /\ GoOn("WB")
  /\ UNCHANGED <<mem, out, signals>>

Next == WB \/ MEM \/ EX \/ ID \/ IF_ \/ Tick

Spec == Init /\ [][Next]_vars
=============================================================================
