-------------------------- MODULE SequentialProofs --------------------------
(***************************************************************************)
(* The pipeline implements the sequential machine, and ends where it ends, *)
(* for every program, strategy, width, set of registers and memory.        *)
(*                                                                         *)
(* The first part is what the stages hand to each other.  An invariant     *)
(* that speaks of what EX executes must say what every stage before it has *)
(* prepared, and one that speaks of the operands must say where every      *)
(* older write is: in the register file, in W, in M, or in the signals m   *)
(* and e it is forwarded from.  DataFlow says so at every moment of a      *)
(* cycle; what the stages leave in the registers between them is in        *)
(* PipelineProofs.                                                         *)
(*                                                                         *)
(* By DataFlow what EX executes is the instruction at the sequential pc    *)
(* with the sequential operands, so the step EX is the step of the         *)
(* sequential machine; every other step changes none of what the mapping   *)
(* of PipelineRefinement is made of.  That is the second part.             *)
(***************************************************************************)
EXTENDS PipelineProofs, SequenceTheorems

\* x0 is never written with anything but 0: a write to it is refused in WB.
ZeroIsZero == reg[REG_ZERO] = 0

\* What is in W has been written to the register file once WB has run.
AfterWB == stage # "WB" => Written(reg, Wreg.cur) = reg

\* Once MEM has run, what is in M has had its effect on memory and hands its value
\* to W and, through m, to the forwarding (simulation.cpp:1209-1326).
HandedToWB ==
  stage \notin {"WB", "MEM"} =>
    LET c == Mreg.cur
        w == Wreg.upd
    IN  /\ ~ BadM(c) /\ Stored(mem, c) = mem
        /\ w.inst = c.inst /\ (m.reg_write <=> c.inst # "BUBBLE" /\ c.reg_write)
        /\ c.inst # "BUBBLE" =>
             /\ w.reg_write = c.reg_write /\ w.destReg = c.destReg
             /\ w.valM = (IF c.mem_read THEN mem[c.valE] ELSE c.valE) /\ m.valM = w.valM

\* Once EX has run, what it has put into M agrees with its signals e, from which the
\* operands in ID are forwarded and the fetch is redirected (simulation.cpp:908-1207).
HandedToMEM ==
  Executed =>
    LET c == Mreg.upd
    IN  /\ e.reg_write <=> c.inst # "BUBBLE" /\ c.reg_write
        /\ c.inst # "BUBBLE" =>
             /\ c.valE = e.valE /\ c.destReg = Ereg.cur.destreg
             /\ (c.mem_read <=> c.inst = "LBU") /\ (c.mem_write <=> c.inst = "SB")
             /\ c.inst = "SB" => ~ c.reg_write
        /\ e.Bwrong => c.M_calcPC = e.calcPC

\* The fields of x were decoded from the word of the text at its address.
DecodedFrom(x) ==
  LET i == prog[x.pc]
  IN  /\ x.pc \in PCs /\ i # ZeroWord /\ i.op # "ILLEGAL"
      /\ x.inst = i.op /\ x.destreg = Dest(i)
      /\ i.op \in {"LBU", "SB"} \cup Branches => x.offset = i.imm
      /\ x.take_branch => i.op \in Branches
      /\ i.op \in Branches =>
           x.PCnottaken = IF x.take_branch THEN Wrap(x.pc + 4) ELSE Wrap(x.pc + i.imm)

\* The operands of x are those of the register file r, or immediates.
Operands(x, r) ==
  LET i == prog[x.pc]
  IN  /\ x.valA = IF Reg1(i) # -1 THEN r[Reg1(i)] ELSE i.imm
      /\ x.valB = IF Reg2(i) # -1 THEN r[Reg2(i)] ELSE IF i.op = "JAL" THEN 0 ELSE i.imm

\* What is in D is a word of the text, at the address kept beside it.
DFromText == Dreg.cur.inst # ZeroWord => Dreg.cur.pc \in PCs /\ Dreg.cur.inst = prog[Dreg.cur.pc]

\* What is in E was decoded from the text.
EFromText == Ereg.cur.inst # "BUBBLE" => DecodedFrom(Ereg.cur)

\* What EX is about to execute holds the operands of the sequential machine: the
\* forwarding and the stalls have missed no older write.
EOperands == ~ Executed /\ Ereg.cur.inst # "BUBBLE" => Operands(Ereg.cur, ArchReg)

\* Once ID has run, what it has put into E was decoded from D, with the operands of
\* the sequential machine unless the cycle will repeat it behind a load.
HandedToEX ==
  Decoded /\ Dreg.cur.inst # ZeroWord =>
    /\ Ereg.upd.pc = Dreg.cur.pc /\ DecodedFrom(Ereg.upd)
    /\ d.reg1 = Reg1(Dreg.cur.inst) /\ d.reg2 = Reg2(Dreg.cur.inst)
    /\ ~ LoadUse => Operands(Ereg.upd, ArchReg)

\* Where the fetch goes on behind the instruction in E, as it was predicted.
Predicts(x) == IF x.take_branch THEN Wrap(x.pc + x.offset) ELSE Wrap(x.pc + 4)

\* What was fetched behind the instruction in E is what it predicts; a word of zeros
\* there is in D like a bubble, and the fetch has gone on behind it.
Continues ==
  Ereg.cur.inst \notin Jumps \cup {"BUBBLE"} =>
    LET s == Predicts(Ereg.cur)
    IN  IF Dreg.cur.inst # ZeroWord THEN Dreg.cur.pc = s
        ELSE s \in PCs /\ prog[s] = ZeroWord /\ Freg.cur.predPC = Wrap(s + 4)

\* What a call prints: the bytes of a string, a character or an integer.
Printed == Byte \cup ({"char", "int"} \X Word)

\* Only these are printed.
Prints == out \in Seq(Printed)

\* The inductive invariant: what every stage has left for the others, in the middle
\* of a cycle as well as between two.
DataFlow == /\ ZeroIsZero /\ AfterWB /\ HandedToWB /\ HandedToMEM
            /\ DFromText /\ EFromText /\ EOperands /\ HandedToEX /\ Continues /\ Prints

-----------------------------------------------------------------------------
(* The effects that are on their way.                                      *)

\* A bubble changes neither registers nor memory.
LEMMA BubbleHasNoEffect ==
  ASSUME NEW r, NEW memory, NEW c, c.inst = "BUBBLE"
  PROVE  Loaded(r, memory, c) = r /\ Stored(memory, c) = memory /\ ~ BadM(c) /\ Written(r, c) = r
BY DEF Loaded, Stored, BadM, Written

\* The effect of an instruction in W, and that repeating it changes nothing.
LEMMA WrittenType ==
  ASSUME NEW r \in [Reg -> Word], NEW w \in WType, WFields(w)
  PROVE  Written(r, w) \in [Reg -> Word] /\ Written(Written(r, w), w) = Written(r, w)
<1>1. w.valM \in Word /\ (w.reg_write => w.destReg \in Reg)
  BY DEF WType, WFields
<1> QED BY <1>1 DEF Written

\* The effect of an instruction in M on memory, and that repeating it changes nothing.
LEMMA StoredType ==
  ASSUME NEW memory \in [Data -> Byte], NEW c \in MType, MFields(c)
  PROVE  /\ Stored(memory, c) \in [Data -> Byte]
         /\ Stored(Stored(memory, c), c) = Stored(memory, c)
<1>1. c.mem_write => c.valB \in Byte
  BY DEF MFields
<1> QED BY <1>1 DEF Stored

\* The effect of an instruction in M on the registers.
LEMMA LoadedType ==
  ASSUME NEW r \in [Reg -> Word], NEW memory \in [Data -> Byte], NEW c \in MType, MFields(c)
  PROVE  Loaded(r, memory, c) \in [Reg -> Word]
<1> DEFINE v == IF c.mem_read THEN memory[c.valE] ELSE c.valE
<1>1. CASE BadM(c)
  BY <1>1 DEF Loaded
<1>2. CASE ~ BadM(c) /\ c.inst # "BUBBLE"
  <2>1. v \in Word
    BY <1>2, ConstantsOK DEF BadM, MType
  <2>2. c.reg_write => c.destReg \in Reg
    BY DEF MFields
  <2> QED BY <1>2, <2>1, <2>2 DEF Loaded, Written
<1>3. CASE c.inst = "BUBBLE"
  BY <1>3, BubbleHasNoEffect
<1> QED BY <1>1, <1>2, <1>3

\* The sequential state the pipeline stands for, all but the text.
Arch == <<ArchPC, ArchReg, ArchMem, out, ArchInstructions, ArchBranches, ArchStatus>>

\* WB executes nothing: what it writes was laid over the registers already.
LEMMA WBStutters ==
  ASSUME Types, AfterWB, WB
  PROVE  UNCHANGED Arch
<1>1. /\ stage = "WB" /\ stage' = "MEM" /\ UNCHANGED <<prog, mem, out, pipe, signals, status>>
      /\ cnt' = [cnt EXCEPT !.pipeline_cycle_cnt = @ + 1]
  BY DEF WB, Here, GoOn
<1>2. reg' = Written(reg, Wreg.cur)
  BY DEF WB, Written
<1>3. Written(reg', Wreg.cur) = Written(reg, Wreg.cur)
  BY <1>2, WrittenType DEF Types
<1>4. UNCHANGED <<ArchReg, ArchMem>>
  BY <1>1, <1>3 DEF ArchReg, ArchMem, pipe
<1>5. NotExecutedPC' = NotExecutedPC
  BY <1>1 DEF NotExecutedPC, Executed, pipe, signals
<1>6. ArchPC' = ArchPC
  BY <1>1, <1>5 DEF ArchPC, RawPC, pipe
<1>7. ArchInstructions' = ArchInstructions /\ ArchBranches' = ArchBranches
  BY <1>1 DEF ArchInstructions, ArchBranches, pipe, signals, Types, CType, Executed
<1>8. ArchStatus' = ArchStatus
  BY <1>1, <1>6 DEF ArchStatus, OwnEnd, pipe
<1> QED BY <1>1, <1>4, <1>6, <1>7, <1>8 DEF Arch

\* MEM executes nothing: what it loads, stores and counts was so already.
LEMMA MEMStutters ==
  ASSUME Types, NothingExecuted, MEM
  PROVE  UNCHANGED Arch
<1> DEFINE c == Mreg.cur
           uses == c.mem_read \/ c.mem_write
<1>1. Mreg.upd.inst = "BUBBLE" /\ stage = "MEM" /\ status = "running" /\ UNCHANGED prog
  BY DEF NothingExecuted, MEM, Here, GoOn, End
<1>2. cnt \in CType /\ mem \in [Data -> Byte] /\ c \in MType /\ MFields(c)
  BY DEF Types
<1>3. CASE c.inst = "BUBBLE"
  <2>1. /\ UNCHANGED <<machine, Freg, Dreg, Ereg, Mreg, e, d, cnt, status>> /\ stage' = "EX"
        /\ Wreg' = [Wreg EXCEPT !.upd = NoW]
    BY <1>3 DEF MEM, GoOn
  <2>2. Wreg'.cur = Wreg.cur
    BY <2>1 DEF Types
  <2>3. UNCHANGED <<ArchReg, ArchMem>>
    BY <2>1, <2>2 DEF ArchReg, ArchMem, machine
  <2>4. ArchPC' = ArchPC
    BY <1>1, <2>1 DEF ArchPC, RawPC, NotExecutedPC, Executed
  <2>5. ArchInstructions' = ArchInstructions /\ ArchBranches' = ArchBranches
    BY <1>1, <1>3, <2>1 DEF ArchInstructions, ArchBranches, Executed, One
  <2>6. ArchStatus' = ArchStatus
    BY <1>1, <2>1, <2>4 DEF ArchStatus, OwnEnd
  <2> QED BY <2>1, <2>3, <2>4, <2>5, <2>6 DEF Arch, machine
<1>4. CASE c.inst # "BUBBLE" /\ (uses => c.valE \in Data)
  <2> DEFINE k == IF uses THEN 1 ELSE 0
             c1 == [cnt EXCEPT !.inst_cnt = @ + 1]
  <2>1. /\ UNCHANGED <<reg, out, Freg, Dreg, Ereg, Mreg, e, d, status>> /\ stage' = "EX"
        /\ mem' = Stored(mem, c)
    BY <1>4 DEF MEM, GoOn, Stored
  <2>2. Wreg'.cur = Wreg.cur
    BY <1>4 DEF Types, MEM
  <2>3. Stored(mem', c) = Stored(mem, c)
    BY <1>2, <2>1, StoredType
  <2>4. UNCHANGED <<ArchReg, ArchMem>>
    BY <2>1, <2>2, <2>3 DEF ArchReg, ArchMem
  <2>5. ArchPC' = ArchPC
    BY <1>1, <2>1 DEF ArchPC, RawPC, NotExecutedPC, Executed
  <2>6. cnt' = [c1 EXCEPT !.cache_cnt = @ + k]
    BY <1>4 DEF MEM, Types, CType
  <2>7. /\ c1 \in CType /\ c1.inst_cnt = cnt.inst_cnt + 1
        /\ c1.correct_predict = cnt.correct_predict /\ c1.mispredict = cnt.mispredict
    BY <1>2 DEF CType
  <2> HIDE DEF c1, k
  <2>8. /\ cnt'.inst_cnt = cnt.inst_cnt + 1
        /\ cnt'.correct_predict = cnt.correct_predict /\ cnt'.mispredict = cnt.mispredict
    BY <2>6, <2>7 DEF CType
  <2>9. ~ BadM(c)
    BY <1>4 DEF BadM
  <2>10. ArchInstructions' = ArchInstructions
    BY <1>1, <1>2, <1>4, <2>1, <2>8, <2>9 DEF ArchInstructions, One, CType
  <2>11. ArchBranches' = ArchBranches
    BY <1>1, <2>1, <2>8 DEF ArchBranches, Executed, One
  <2>12. ArchStatus' = ArchStatus
    BY <1>1, <2>1, <2>5 DEF ArchStatus, OwnEnd
  <2> QED BY <2>1, <2>4, <2>5, <2>10, <2>11, <2>12 DEF Arch
<1>5. CASE c.inst # "BUBBLE" /\ uses /\ c.valE \notin Data
  <2>1. /\ UNCHANGED <<machine, pipe, signals, cnt, stage>>
        /\ status' = Access(c.valE)
    BY <1>5 DEF MEM, End
  <2>2. BadM(c)
    BY <1>5 DEF BadM
  <2>3. UNCHANGED <<ArchReg, ArchMem>>
    BY <2>1 DEF ArchReg, ArchMem, machine, pipe
  <2>4. ArchPC' = ArchPC
    BY <1>1, <2>1, <2>2 DEF ArchPC, RawPC, pipe
  <2>5. ArchInstructions' = ArchInstructions /\ ArchBranches' = ArchBranches
    BY <2>1 DEF ArchInstructions, ArchBranches, pipe, signals, Executed
  <2>6. ArchStatus' = ArchStatus
    BY <2>1, <2>2 DEF ArchStatus, pipe
  <2> QED BY <2>1, <2>3, <2>4, <2>5, <2>6 DEF Arch, machine
<1> QED BY <1>3, <1>4, <1>5 DEF MEM

-----------------------------------------------------------------------------
(* What EX makes of an instruction.                                        *)

\* The instruction in E was fetched behind on the wrong path; what a call returns.
Wrong(x) == x.inst \in Branches /\ x.take_branch # Taken(x.inst, x.valA, x.valB)

CallOf(x) == IF x.inst = "ECALL" THEN Syscall(mem, x.valA, x.valB) ELSE [print |-> << >>, then |-> "ok"]

\* What EX prints.
LEMMA CallPrints ==
  ASSUME Types
  PROVE  CallOf(Ereg.cur).print \in Seq(Printed)
<1> DEFINE x == Ereg.cur
           n == StringEnd(mem, x.valA) - x.valA
<1>1. CASE x.inst # "ECALL"
  BY <1>1, EmptySeq DEF CallOf
<1>2. CASE x.inst = "ECALL"
  <2>1. x.valA \in Word /\ mem \in [Data -> Byte] /\ CallOf(x) = Syscall(mem, x.valA, x.valB)
    BY <1>2 DEF Types, EFields, CallOf
  <2>2. CASE x.valB = 0
    <3>1. n \in Nat /\ \A b \in Nat : x.valA <= b /\ b < StringEnd(mem, x.valA) => b \in Data
      BY <2>1, StringEndOK
    <3>2. ASSUME NEW i \in 1 .. n PROVE mem[x.valA + i - 1] \in Byte
      <4>1. x.valA + i - 1 \in Nat /\ x.valA <= x.valA + i - 1 /\ x.valA + i - 1 < x.valA + n
        <5>1. \A a, k \in Nat : \A j \in 1 .. k : a + j - 1 \in Nat /\ a <= a + j - 1 /\ a + j - 1 < a + k
          OBVIOUS
        <5>2. x.valA \in Nat
          BY <2>1, ConstantsOK
        <5> QED BY <3>1, <5>1, <5>2
      <4>2. StringEnd(mem, x.valA) = x.valA + n
        <5>1. \A s, v : v \in Nat /\ s - v \in Nat /\ s \in Nat => s = v + (s - v)
          OBVIOUS
        <5> QED BY <2>1, <3>1, <5>1, StringEndOK, ConstantsOK
      <4>3. x.valA + i - 1 \in Data
        BY <3>1, <4>1, <4>2
      <4> QED BY <2>1, <4>3
    <3>3. StringAt(mem, x.valA) = [i \in 1 .. n |-> mem[x.valA + i - 1]]
      BY DEF StringAt
    <3>4. [i \in 1 .. n |-> mem[x.valA + i - 1]] \in Seq(Printed)
      <4> HIDE DEF n, x
      <4> QED BY <3>1, <3>2 DEF Printed
    <3>5. Syscall(mem, x.valA, x.valB).print = StringAt(mem, x.valA)
      BY <2>2 DEF Syscall
    <3> QED BY <2>1, <3>3, <3>4, <3>5
  <2>3. CASE x.valB \in {1, 2}
    <3>1. PICK kind \in {"char", "int"} : Syscall(mem, x.valA, x.valB).print = << <<kind, x.valA>> >>
      BY <2>3 DEF Syscall
    <3>2. <<kind, x.valA>> \in Printed
      BY <2>1 DEF Printed
    <3> QED BY <2>1, <3>1, <3>2
  <2>4. CASE x.valB \notin {0, 1, 2}
    <3>1. Syscall(mem, x.valA, x.valB).print = << >>
      BY <2>4 DEF Syscall
    <3> QED BY <2>1, <3>1, EmptySeq
  <2> QED BY <2>2, <2>3, <2>4
<1> QED BY <1>1, <1>2

\* What EX makes of an instruction it can execute.
LEMMA EXExecutes ==
  ASSUME Types, EX, Ereg.cur.inst # "BUBBLE", CallOf(Ereg.cur).then = "ok"
  PROVE
  LET x == Ereg.cur
      c == Mreg'.upd
  IN  /\ stage = "EX" /\ stage' = "ID" /\ status = "running" /\ status' = "running"
      /\ UNCHANGED <<prog, reg, mem, Freg, Dreg, Ereg, Wreg, m, d>>
      /\ out' = out \o CallOf(x).print
      /\ Mreg'.cur = Mreg.cur
      /\ c.pc = x.pc /\ c.inst = x.inst /\ c.valE = Result(x) /\ c.destReg = x.destreg
      /\ (c.reg_write <=> x.inst \in Writers) /\ (c.mem_write <=> x.inst = "SB") /\ (c.mem_read <=> x.inst = "LBU")
      /\ x.inst = "SB" => c.valB = LowByte(x.valB)
      /\ c.M_calcPC = e'.calcPC /\ (c.M_Bwrong <=> Wrong(x)) /\ (e'.Bwrong <=> Wrong(x))
      /\ (e'.isJ <=> x.inst \in Jumps) /\ (e'.reg_write <=> x.inst \in Writers) /\ e'.valE = Result(x)
      /\ x.inst \in Jumps => e'.calcPC = CalculatedPC(x)
      /\ Wrong(x) => e'.calcPC = x.PCnottaken
      /\ cnt'.inst_cnt = cnt.inst_cnt /\ cnt'.mispredict = cnt.mispredict
      /\ cnt'.correct_predict = cnt.correct_predict + One(x.inst \in Branches /\ ~ Wrong(x))
<1> DEFINE x == Ereg.cur
           wrong == x.inst \in Branches /\ x.take_branch # Taken(x.inst, x.valA, x.valB)
           call == IF x.inst = "ECALL" THEN Syscall(mem, x.valA, x.valB)
                   ELSE [print |-> << >>, then |-> "ok"]
           calcPC == IF x.inst \in Jumps THEN CalculatedPC(x)
                     ELSE IF wrong THEN x.PCnottaken ELSE WordMod - 1
           e1 == [isJ |-> x.inst \in Jumps, Bwrong |-> wrong,
                  reg_write |-> x.inst \in {"ADDI", "ADD", "LBU"} \cup Jumps,
                  valE |-> Result(x), calcPC |-> calcPC]
           upd == [pc |-> x.pc, inst |-> x.inst,
                   valB |-> IF x.inst = "SB" THEN LowByte(x.valB) ELSE x.valB,
                   valE |-> e1.valE, destReg |-> x.destreg, reg_write |-> e1.reg_write,
                   mem_write |-> x.inst = "SB", mem_read |-> x.inst = "LBU",
                   M_Bwrong |-> e1.Bwrong, M_calcPC |-> e1.calcPC]
           k == IF x.inst \in Branches /\ ~ wrong THEN 1 ELSE 0
           n == IF x.inst = "ECALL" /\ x.valB = 0 THEN Len(call.print) + 1 ELSE 0
           c1 == [cnt EXCEPT !.correct_predict = @ + k]
<1>1. call.then = "ok" /\ call = CallOf(x) /\ (wrong <=> Wrong(x)) /\ k = One(x.inst \in Branches /\ ~ Wrong(x))
  BY DEF CallOf, Wrong, One
<1>2. /\ e' = e1 /\ Mreg' = [Mreg EXCEPT !.upd = upd] /\ out' = out \o call.print
      /\ stage = "EX" /\ stage' = "ID" /\ status = "running" /\ status' = "running"
      /\ UNCHANGED <<prog, reg, mem, Freg, Dreg, Ereg, Wreg, m, d>>
  BY <1>1 DEF EX, GoOn, Here
<1>3. cnt' = [c1 EXCEPT !.cache_cnt = @ + n]
  BY <1>1 DEF EX, Types, CType
<1>4. k \in Nat /\ cnt \in CType
  BY DEF Types
<1>5. /\ cnt'.inst_cnt = cnt.inst_cnt /\ cnt'.mispredict = cnt.mispredict
      /\ cnt'.correct_predict = cnt.correct_predict + k
  <2> HIDE DEF k, n
  <2>1. /\ c1 \in CType /\ c1.inst_cnt = cnt.inst_cnt /\ c1.mispredict = cnt.mispredict
        /\ c1.correct_predict = cnt.correct_predict + k
    BY <1>4 DEF CType
  <2> HIDE DEF c1
  <2> QED BY <1>3, <2>1 DEF CType
<1>6. Mreg'.cur = Mreg.cur /\ Mreg'.upd = upd
  BY <1>2 DEF Types
<1>7. /\ upd.pc = x.pc /\ upd.inst = x.inst /\ upd.valE = Result(x) /\ upd.destReg = x.destreg
      /\ (upd.reg_write <=> x.inst \in Writers) /\ (upd.mem_write <=> x.inst = "SB")
      /\ (upd.mem_read <=> x.inst = "LBU") /\ (x.inst = "SB" => upd.valB = LowByte(x.valB))
      /\ upd.M_calcPC = e1.calcPC /\ (upd.M_Bwrong <=> wrong)
  BY DEF Writers
<1>8. /\ (e1.Bwrong <=> wrong) /\ (e1.isJ <=> x.inst \in Jumps) /\ (e1.reg_write <=> x.inst \in Writers)
      /\ e1.valE = Result(x) /\ (x.inst \in Jumps => e1.calcPC = CalculatedPC(x))
      /\ (wrong => e1.calcPC = x.PCnottaken)
  BY DEF Writers, Branches, Jumps
<1> HIDE DEF upd, e1, wrong, k
<1> QED BY <1>1, <1>2, <1>5, <1>6, <1>7, <1>8

-----------------------------------------------------------------------------
(* One step per stage.                                                     *)

\* A step that changes neither registers nor signals leaves the program where it is.
LEMMA SamePlace ==
  ASSUME UNCHANGED <<prog, reg, mem, pipe, signals, cnt, stage>>
  PROVE  UNCHANGED <<ArchPC, ArchReg, ArchMem, ArchInstructions, ArchBranches>>
<1>1. UNCHANGED <<ArchReg, ArchMem>>
  BY DEF ArchReg, ArchMem, pipe
<1>2. NotExecutedPC' = NotExecutedPC
  BY DEF NotExecutedPC, pipe, signals, Executed
<1>3. ArchPC' = ArchPC
  BY <1>2 DEF ArchPC, RawPC, pipe
<1>4. ArchInstructions' = ArchInstructions /\ ArchBranches' = ArchBranches
  BY DEF ArchInstructions, ArchBranches, pipe, signals, Executed
<1> QED BY <1>1, <1>3, <1>4

\* The end of a cycle, for what has been executed.
LEMMA TickKeepsEffects ==
  ASSUME Types, Control, HandedToWB, AfterWB, ZeroIsZero, Tick
  PROVE  UNCHANGED <<prog, out, ArchReg, ArchMem, ArchInstructions, ArchBranches>>
<1>1. /\ stage = "Tick" /\ stage' = "WB" /\ UNCHANGED <<prog, mem, out, status>>
      /\ Mreg' = Ticked(Mreg, FALSE, FALSE, NoM) /\ Wreg' = Ticked(Wreg, FALSE, FALSE, NoW)
      /\ reg' = [reg EXCEPT ![REG_ZERO] = 0]
  BY DEF Tick, Here, GoOn
<1>2. /\ Mreg'.cur = Mreg.upd /\ Wreg'.cur = Wreg.upd /\ Mreg'.upd.inst = "BUBBLE"
  BY <1>1 DEF Ticked, NoM
<1>3. reg' = reg
  BY <1>1 DEF Types, ZeroIsZero
<1>4. /\ ~ BadM(Mreg.cur) /\ Stored(mem, Mreg.cur) = mem
      /\ Written(reg, Wreg.cur) = reg
  BY <1>1 DEF HandedToWB, AfterWB
<1>5. Written(reg, Wreg.upd) = Loaded(reg, mem, Mreg.cur)
  <2> DEFINE c == Mreg.cur
             w == Wreg.upd
  <2>1. /\ w.inst = c.inst
        /\ c.inst # "BUBBLE" =>
             /\ w.reg_write = c.reg_write /\ w.destReg = c.destReg
             /\ w.valM = (IF c.mem_read THEN mem[c.valE] ELSE c.valE)
    BY <1>1 DEF HandedToWB
  <2>2. CASE c.inst = "BUBBLE"
    BY <2>1, <2>2, BubbleHasNoEffect
  <2>3. CASE c.inst # "BUBBLE"
    BY <1>4, <2>1, <2>3 DEF Loaded, Written
  <2> QED BY <2>2, <2>3
<1>6. ArchMem' = ArchMem
  BY <1>1, <1>2, <1>4, BubbleHasNoEffect DEF ArchMem
<1>7. ArchReg' = ArchReg
  <2>1. ArchReg = Loaded(Loaded(reg, mem, Mreg.cur), ArchMem, Mreg.upd)
    BY <1>4 DEF ArchReg
  <2>2. Stored(mem, Mreg.upd) = ArchMem
    BY <1>4 DEF ArchMem
  <2>3. ArchReg' = Loaded(Loaded(Written(reg, Wreg.upd), ArchMem, Mreg.upd), ArchMem', Mreg'.upd)
    BY <1>1, <1>2, <1>3, <2>2 DEF ArchReg
  <2> QED BY <1>2, <1>5, <1>6, <2>1, <2>3, BubbleHasNoEffect
<1>8. /\ cnt'.inst_cnt = cnt.inst_cnt /\ cnt'.correct_predict = cnt.correct_predict
      /\ cnt'.mispredict = cnt.mispredict + One(WrongInE)
  BY TickCounts DEF Types
<1>9. WrongInE <=> e.Bwrong
  BY <1>1 DEF WrongInE, Control, AfterEX, Executed
<1>10. ArchInstructions' = ArchInstructions
  <2> DEFINE k == One(Mreg.upd.inst # "BUBBLE" /\ ~ BadM(Mreg.upd))
  <2>1. k \in Nat /\ cnt.inst_cnt \in Nat
    BY DEF One, Types, CType
  <2>2. ArchInstructions = cnt.inst_cnt + 0 + k
    BY <1>1 DEF ArchInstructions, One
  <2>3. ArchInstructions' = cnt.inst_cnt + k + 0
    BY <1>1, <1>2, <1>8 DEF ArchInstructions, One
  <2> HIDE DEF k
  <2> QED BY <2>1, <2>2, <2>3
<1>11. ArchBranches' = ArchBranches
  BY <1>1, <1>8, <1>9 DEF ArchBranches, One, Executed, Types, CType
<1> QED BY <1>1, <1>6, <1>7, <1>10, <1>11

\* Behind a word of zeros the fetch goes on at the next word.
LEMMA FetchedZero ==
  ASSUME Control, stage = "Tick", Dreg.upd.inst = ZeroWord
  PROVE  FetchPC \in PCs /\ prog[FetchPC] = ZeroWord /\ Freg.upd.predPC = Wrap(FetchPC + 4)
<1>1. /\ FetchPC \in PCs /\ Dreg.upd.pc = FetchPC /\ Dreg.upd.inst = prog[FetchPC]
      /\ WellFetched(Dreg.upd, Freg.upd)
  BY DEF Control, AfterIF
<1>2. ~ Dreg.upd.take_branch
  BY <1>1 DEF WellFetched, ZeroWord, Branches
<1> QED BY <1>1, <1>2 DEF WellFetched, Predicted

\* A step that moves no register and ends or leaves the process.
LEMMA LeftDataFlow ==
  ASSUME DataFlow, Left, UNCHANGED <<reg, mem>>, Prints'
  PROVE  DataFlow'
<1>1. UNCHANGED <<ArchPC, ArchReg, ArchMem, ArchInstructions, ArchBranches>>
  BY SamePlace DEF Left
<1>2. UNCHANGED <<prog, reg, mem, Freg, Dreg, Ereg, Mreg, Wreg, e, m, d, stage>>
  BY DEF Left, pipe, signals
<1>3. (ZeroIsZero /\ AfterWB /\ DFromText /\ EFromText)'
  BY <1>2 DEF DataFlow, ZeroIsZero, AfterWB, DFromText, EFromText, DecodedFrom
<1>4. HandedToWB' /\ HandedToMEM'
  BY <1>2 DEF DataFlow, HandedToWB, HandedToMEM, Executed
<1>5. EOperands' /\ HandedToEX'
  BY <1>1, <1>2 DEF DataFlow, EOperands, Operands, HandedToEX, Decoded, Executed, LoadUse, DecodedFrom
<1>6. Continues'
  BY <1>2 DEF DataFlow, Continues, Predicts
<1> QED BY <1>3, <1>4, <1>5, <1>6 DEF DataFlow

\* WB keeps the invariant.
LEMMA DataFlowWB ==
  ASSUME Types, DataFlow, WB
  PROVE  DataFlow'
<1>1. /\ stage = "WB" /\ stage' = "MEM" /\ UNCHANGED <<prog, mem, out, Freg, Dreg, Ereg, Mreg, Wreg, e, m, d>>
      /\ reg' = Written(reg, Wreg.cur)
  BY DEF WB, Here, GoOn, Written, pipe, signals
<1>2. Wreg.cur \in WType /\ WFields(Wreg.cur) /\ reg \in [Reg -> Word]
  BY DEF Types
<1>3. ZeroIsZero'
  BY <1>1, <1>2 DEF DataFlow, ZeroIsZero, Written
<1>4. AfterWB'
  BY <1>1, <1>2, WrittenType DEF AfterWB
<1>5. ArchReg' = ArchReg
  BY WBStutters DEF Arch, DataFlow
<1>6. (DFromText /\ EFromText)'
  BY <1>1 DEF DataFlow, DFromText, EFromText, DecodedFrom
<1>7. HandedToWB' /\ HandedToMEM' /\ HandedToEX'
  BY <1>1 DEF HandedToWB, HandedToMEM, HandedToEX, Executed, Decoded
<1>8. EOperands'
  BY <1>1, <1>5 DEF DataFlow, EOperands, Operands, Executed
<1>9. Continues' /\ Prints'
  BY <1>1 DEF DataFlow, Continues, Predicts, Prints
<1> QED BY <1>3, <1>4, <1>6, <1>7, <1>8, <1>9 DEF DataFlow

\* What MEM hands to WB (simulation.cpp:1209-1326).
LEMMA MEMHands ==
  ASSUME Types, MEM, stage' = "EX"
  PROVE  HandedToWB'
<1> DEFINE c == Mreg.cur
           uses == c.mem_read \/ c.mem_write
           valM == IF c.mem_read THEN mem[c.valE] ELSE c.valE
           put == [pc |-> c.pc, inst |-> c.inst, valM |-> valM,
                   reg_write |-> c.reg_write, destReg |-> c.destReg]
<1>1. c \in MType /\ MFields(c) /\ Wreg \in [cur : WType, upd : WType] /\ mem \in [Data -> Byte]
  BY DEF Types
<1>2. CASE c.inst = "BUBBLE"
  <2>1. /\ m' = [reg_write |-> FALSE, valM |-> 0] /\ Wreg' = [Wreg EXCEPT !.upd = NoW]
        /\ UNCHANGED <<mem, Mreg>>
    BY <1>2 DEF MEM, machine
  <2>2. Wreg'.upd.inst = "BUBBLE" /\ ~ m'.reg_write
    BY <1>1, <2>1 DEF NoW
  <2> QED BY <1>2, <2>1, <2>2, BubbleHasNoEffect DEF HandedToWB
<1>3. CASE c.inst # "BUBBLE"
  <2>0. stage = "MEM" /\ ~ (uses /\ c.valE \notin Data)
    BY <1>3 DEF MEM, Here, End
  <2>1. /\ m' = [reg_write |-> c.reg_write, valM |-> valM]
        /\ Wreg' = [Wreg EXCEPT !.upd = put] /\ Mreg' = Mreg
        /\ mem' = Stored(mem, c)
    BY <1>3, <2>0 DEF MEM, Stored
  <2>2. ~ BadM(c) /\ Stored(mem', c) = mem'
    BY <1>1, <2>0, <2>1, StoredType DEF BadM
  <2>3. c.mem_read => mem' = mem
    BY <1>1, <2>1 DEF MFields, Stored
  <2>4. Wreg'.upd = put
    BY <1>1, <2>1
  <2>5. /\ put.inst = c.inst /\ put.reg_write = c.reg_write /\ put.destReg = c.destReg
        /\ put.valM = valM
    OBVIOUS
  <2>6. valM = IF c.mem_read THEN mem'[c.valE] ELSE c.valE
    BY <2>3
  <2>7. m'.reg_write = c.reg_write /\ m'.valM = valM
    BY <2>1
  <2> HIDE DEF put, valM
  <2> QED BY <1>3, <2>1, <2>2, <2>4, <2>5, <2>6, <2>7 DEF HandedToWB
<1> QED BY <1>2, <1>3

\* MEM keeps the invariant.
LEMMA DataFlowMEM ==
  ASSUME Types, NothingExecuted, DataFlow, MEM
  PROVE  DataFlow'
<1>1. stage = "MEM" /\ out' = out
  BY DEF MEM, Here, End, machine
<1>2. CASE stage' # "EX"
  <2>1. Left /\ UNCHANGED <<reg, mem>>
    BY <1>2 DEF MEM, End, GoOn, Left, machine
  <2> QED BY <1>1, <2>1, LeftDataFlow DEF Prints, DataFlow
<1>3. CASE stage' = "EX"
  <2>1. UNCHANGED <<prog, reg, Freg, Dreg, Ereg, Mreg, e, d>> /\ Wreg'.cur = Wreg.cur
    <3>1. stage # stage'
      BY <1>1, <1>3
    <3> QED BY <3>1 DEF MEM, Here, GoOn, End, machine, Types
  <2>2. ArchReg' = ArchReg
    BY MEMStutters DEF Arch
  <2>3. (ZeroIsZero /\ AfterWB)'
    BY <1>1, <1>3, <2>1 DEF DataFlow, ZeroIsZero, AfterWB
  <2>4. (DFromText /\ EFromText)'
    BY <2>1 DEF DataFlow, DFromText, EFromText, DecodedFrom
  <2>5. HandedToMEM' /\ HandedToEX'
    BY <1>3 DEF HandedToMEM, HandedToEX, Executed, Decoded
  <2>6. HandedToWB'
    BY <1>3, MEMHands
  <2>7. EOperands'
    BY <1>1, <2>1, <2>2 DEF DataFlow, EOperands, Operands, Executed
  <2>8. Continues' /\ Prints'
    BY <1>1, <2>1 DEF DataFlow, Continues, Predicts, Prints
  <2> QED BY <2>3, <2>4, <2>5, <2>6, <2>7, <2>8 DEF DataFlow
<1> QED BY <1>2, <1>3

\* What EX hands to MEM and to the forwarding (simulation.cpp:908-1207).
LEMMA EXHands ==
  ASSUME Types, EX, stage' = "ID"
  PROVE  HandedToMEM'
<1>1. CASE Ereg.cur.inst = "BUBBLE"
  <2>1. e' = NoSignals /\ Mreg' = [Mreg EXCEPT !.upd = NoM]
    BY <1>1 DEF EX
  <2>2. Mreg'.upd = NoM
    BY <2>1 DEF Types
  <2> QED BY <2>1, <2>2 DEF HandedToMEM, NoSignals, NoM
<1>2. CASE Ereg.cur.inst # "BUBBLE"
  <2>1. CallOf(Ereg.cur).then = "ok"
    <3>1. stage = "EX" /\ stage' # stage
      BY DEF EX, Here
    <3> QED BY <1>2, <3>1 DEF EX, CallOf
  <2> DEFINE x == Ereg.cur
             c == Mreg'.upd
  <2>2. /\ Ereg' = Ereg /\ c.inst = x.inst /\ c.valE = Result(x) /\ c.destReg = x.destreg
        /\ (c.reg_write <=> x.inst \in Writers) /\ (c.mem_write <=> x.inst = "SB") /\ (c.mem_read <=> x.inst = "LBU")
        /\ c.M_calcPC = e'.calcPC /\ (e'.reg_write <=> x.inst \in Writers) /\ e'.valE = Result(x)
    BY <1>2, <2>1, EXExecutes
  <2>3. x.inst = "SB" => x.inst \notin Writers
    BY DEF Writers, Jumps
  <2> QED BY <1>2, <2>2, <2>3 DEF HandedToMEM
<1> QED BY <1>1, <1>2

\* EX keeps the invariant: what it executes takes effect in the sequential state.
LEMMA DataFlowEX ==
  ASSUME Types, DataFlow, EX
  PROVE  DataFlow'
<1>1. stage = "EX"
  BY DEF EX, Here
<1>2. Prints'
  <2>1. out' = out \/ out' = out \o CallOf(Ereg.cur).print
    BY DEF EX, CallOf, machine
  <2>2. CallOf(Ereg.cur).print \in Seq(Printed) /\ out \in Seq(Printed)
    BY CallPrints DEF DataFlow, Prints
  <2> QED BY <2>1, <2>2, ConcatProperties DEF Prints
<1>3. CASE stage' # "ID"
  <2>1. Left /\ UNCHANGED <<reg, mem>>
    BY <1>3 DEF EX, GoOn, Left
  <2> QED BY <1>2, <2>1, LeftDataFlow
<1>4. CASE stage' = "ID"
  <2>1. UNCHANGED <<prog, reg, mem, Freg, Dreg, Ereg, Wreg, m, d>> /\ Mreg'.cur = Mreg.cur
    <3>1. stage' # stage
      BY <1>1, <1>4
    <3> QED BY <3>1 DEF EX, GoOn, machine, Types
  <2>2. (ZeroIsZero /\ AfterWB)'
    BY <1>1, <1>4, <2>1 DEF DataFlow, ZeroIsZero, AfterWB
  <2>3. (DFromText /\ EFromText)'
    BY <2>1 DEF DataFlow, DFromText, EFromText, DecodedFrom
  <2>4. HandedToMEM'
    BY <1>4, EXHands
  <2>5. HandedToWB'
    BY <1>1, <2>1 DEF DataFlow, HandedToWB
  <2>6. EOperands' /\ HandedToEX'
    BY <1>4 DEF EOperands, HandedToEX, Executed, Decoded
  <2>7. Continues'
    BY <2>1 DEF DataFlow, Continues, Predicts
  <2> QED BY <1>2, <2>2, <2>3, <2>4, <2>5, <2>6, <2>7 DEF DataFlow
<1> QED BY <1>3, <1>4

\* Forwarding is right: what ID takes for a register is what the instructions
\* before leave in it, unless the one in E is a load that has yet to read it
\* (simulation.cpp:850-891).
LEMMA OperandIsCurrent ==
  ASSUME Types, Control, DataFlow, stage = "ID", NEW r \in Reg,
         ~ (Ereg.cur.inst = "LBU" /\ Ereg.cur.destreg # REG_ZERO /\ r = Ereg.cur.destreg)
  PROVE  Operand(r) = ArchReg[r]
<1> DEFINE c == Mreg.cur
           u == Mreg.upd
           r1 == Loaded(reg, mem, c)
           forwardM == m.reg_write /\ c.destReg # REG_ZERO /\ r = c.destReg
           forwardE == e.reg_write /\ Ereg.cur.destreg # REG_ZERO /\ r = Ereg.cur.destreg
<1>1. /\ ~ BadM(c) /\ Stored(mem, c) = mem /\ Written(reg, Wreg.cur) = reg
      /\ m.reg_write <=> c.inst # "BUBBLE" /\ c.reg_write
      /\ c.inst # "BUBBLE" => m.valM = (IF c.mem_read THEN mem[c.valE] ELSE c.valE)
  BY DEF DataFlow, HandedToWB, AfterWB
<1>2. /\ u.inst = Ereg.cur.inst
      /\ e.reg_write <=> u.inst # "BUBBLE" /\ u.reg_write
      /\ u.inst # "BUBBLE" =>
           /\ u.valE = e.valE /\ u.destReg = Ereg.cur.destreg
           /\ (u.mem_read <=> u.inst = "LBU") /\ (u.mem_write <=> u.inst = "SB")
           /\ u.inst = "SB" => ~ u.reg_write
  BY DEF DataFlow, Control, HandedToMEM, AfterEX, Executed
<1>3. ArchReg = Loaded(r1, ArchMem, u)
  BY <1>1 DEF ArchReg
<1>4. r1 \in [Reg -> Word] /\ reg \in [Reg -> Word] /\ c.destReg \in Dest_
  BY LoadedType DEF Types, MType
<1>5. r1[r] = IF forwardM THEN m.valM ELSE reg[r]
  <2>1. CASE c.inst = "BUBBLE"
    BY <1>1, <2>1, BubbleHasNoEffect
  <2>2. CASE c.inst # "BUBBLE"
    BY <1>1, <1>4, <2>2 DEF Loaded, Written
  <2> QED BY <2>1, <2>2
<1> HIDE DEF r1
<1>6. Loaded(r1, ArchMem, u)[r] = IF forwardE THEN e.valE ELSE r1[r]
  <2>1. CASE u.inst = "BUBBLE"
    BY <1>2, <2>1, BubbleHasNoEffect
  <2>2. CASE u.inst # "BUBBLE" /\ BadM(u)
    <3>1. ~ forwardE
      BY <1>2, <2>2 DEF BadM
    <3> QED BY <2>2, <3>1 DEF Loaded
  <2>3. CASE u.inst # "BUBBLE" /\ ~ BadM(u)
    BY <1>2, <1>4, <2>3 DEF Loaded, Written
  <2> QED BY <2>1, <2>2, <2>3
<1> QED BY <1>3, <1>5, <1>6 DEF Operand

\* What ID hands to EX (simulation.cpp:430-906).
LEMMA IDHands ==
  ASSUME Types, Control, DataFlow, ID, stage' = "IF", Dreg.cur.inst # ZeroWord
  PROVE  HandedToEX'
<1> DEFINE i == Dreg.cur.inst
           valA == IF Reg1(i) # -1 THEN Operand(Reg1(i)) ELSE i.imm
           valB == IF Reg2(i) # -1 THEN Operand(Reg2(i)) ELSE IF i.op = "JAL" THEN 0 ELSE i.imm
           offset == IF i.op \in {"JAL", "LBU", "SB"} \cup Branches THEN i.imm ELSE 0
           put == [pc |-> Dreg.cur.pc, inst |-> i.op, destreg |-> Dest(i), valA |-> valA, valB |-> valB,
                   offset |-> offset, PCnottaken |-> Dreg.cur.PCnottaken,
                   take_branch |-> Dreg.cur.take_branch]
<1>1. stage = "ID" /\ i.op # "ILLEGAL"
  BY DEF ID, Here, End
<1>2. /\ UNCHANGED <<prog, machine, Dreg, Mreg, Wreg, e, m>> /\ Ereg' = [Ereg EXCEPT !.upd = put]
      /\ d' = [reg1 |-> Reg1(i), reg2 |-> Reg2(i)]
  BY <1>1 DEF ID, GoOn
<1>3. Ereg'.upd = put /\ Ereg'.cur = Ereg.cur /\ d'.reg1 = Reg1(i) /\ d'.reg2 = Reg2(i)
  BY <1>2 DEF Types
<1>4. Dreg.cur.pc \in PCs /\ i = prog[Dreg.cur.pc] /\ WellFetched(Dreg.cur, Freg.cur)
  BY DEF DataFlow, DFromText, Control, FetchedBehind
<1>5. /\ put.pc = Dreg.cur.pc /\ put.inst = i.op /\ put.destreg = Dest(i) /\ put.offset = offset
      /\ put.take_branch = Dreg.cur.take_branch /\ put.PCnottaken = Dreg.cur.PCnottaken
      /\ put.valA = valA /\ put.valB = valB
  OBVIOUS
<1>6. /\ Dreg.cur.take_branch => i.op \in Branches
      /\ i.op \in Branches =>
           Dreg.cur.PCnottaken = IF Dreg.cur.take_branch THEN Wrap(Dreg.cur.pc + 4)
                                 ELSE Wrap(Dreg.cur.pc + i.imm)
  BY <1>4 DEF WellFetched, Other
<1>7. ArchReg' = ArchReg
  BY <1>1, <1>2, <1>3 DEF ArchReg, ArchMem, machine
<1>8. Reg1(i) \in Reg \cup {-1} /\ Reg2(i) \in Reg \cup {-1}
  BY DecodeType DEF Types, DType
<1>9. ASSUME ~ LoadUse'
      PROVE  /\ Reg1(i) # -1 => Operand(Reg1(i)) = ArchReg[Reg1(i)]
             /\ Reg2(i) # -1 => Operand(Reg2(i)) = ArchReg[Reg2(i)]
  <2>1. ASSUME NEW r \in Reg, r \in {Reg1(i), Reg2(i)}
        PROVE  ~ (Ereg.cur.inst = "LBU" /\ Ereg.cur.destreg # REG_ZERO /\ r = Ereg.cur.destreg)
    BY <1>3, <1>9, <2>1 DEF LoadUse
  <2> QED BY <1>1, <1>8, <2>1, OperandIsCurrent
<1> HIDE DEF put
<1>10. DecodedFrom(Ereg.upd)'
  <2>1. Ereg'.upd.pc = Dreg.cur.pc /\ prog' = prog /\ prog[Dreg.cur.pc] = i
    BY <1>2, <1>3, <1>4, <1>5
  <2> QED BY <1>1, <1>3, <1>4, <1>5, <1>6, <2>1 DEF DecodedFrom
<1>11. ~ LoadUse' => Operands(Ereg.upd, ArchReg)'
  <2>1. Ereg'.upd.pc = Dreg.cur.pc /\ prog' = prog /\ prog[Dreg.cur.pc] = i
    BY <1>2, <1>3, <1>4, <1>5
  <2> QED BY <1>3, <1>5, <1>7, <1>9, <2>1 DEF Operands
<1> QED BY <1>2, <1>3, <1>5, <1>10, <1>11 DEF HandedToEX

\* ID keeps the invariant.
LEMMA DataFlowID ==
  ASSUME Types, Control, DataFlow, ID
  PROVE  DataFlow'
<1>1. stage = "ID" /\ out' = out
  BY DEF ID, Here, End, machine
<1>2. CASE stage' # "IF"
  <2>1. Left /\ UNCHANGED <<reg, mem>>
    BY <1>2 DEF ID, End, GoOn, Left, machine
  <2> QED BY <1>1, <2>1, LeftDataFlow DEF Prints, DataFlow
<1>3. CASE stage' = "IF"
  <2>1. UNCHANGED <<prog, reg, mem, Freg, Dreg, Mreg, Wreg, e, m>> /\ Ereg'.cur = Ereg.cur
    <3>1. stage' # stage
      BY <1>1, <1>3
    <3> QED BY <3>1 DEF ID, GoOn, End, machine, Types
  <2>2. (ZeroIsZero /\ AfterWB)'
    BY <1>1, <1>3, <2>1 DEF DataFlow, ZeroIsZero, AfterWB
  <2>3. (DFromText /\ EFromText)'
    BY <2>1 DEF DataFlow, DFromText, EFromText, DecodedFrom
  <2>4. HandedToWB' /\ HandedToMEM'
    BY <1>1, <2>1 DEF DataFlow, HandedToWB, HandedToMEM, Executed
  <2>5. HandedToEX'
    <3>1. CASE Dreg.cur.inst = ZeroWord
      BY <2>1, <3>1 DEF HandedToEX
    <3> QED BY <1>3, <3>1, IDHands
  <2>6. EOperands'
    BY <1>3 DEF EOperands, Executed
  <2>7. Continues' /\ Prints'
    BY <1>1, <2>1 DEF DataFlow, Continues, Predicts, Prints
  <2> QED BY <2>2, <2>3, <2>4, <2>5, <2>6, <2>7 DEF DataFlow
<1> QED BY <1>2, <1>3

\* IF keeps the invariant.
LEMMA DataFlowIF ==
  ASSUME Types, DataFlow, IF_
  PROVE  DataFlow'
<1>1. stage = "IF" /\ out' = out
  BY DEF IF_, Here, End, machine
<1>2. CASE stage' # "Tick"
  <2>1. Left /\ UNCHANGED <<reg, mem>>
    BY <1>2 DEF IF_, End, GoOn, Left, machine
  <2> QED BY <1>1, <2>1, LeftDataFlow DEF Prints, DataFlow
<1>3. CASE stage' = "Tick"
  <2>1. UNCHANGED <<prog, reg, mem, Ereg, Mreg, Wreg, e, m, d>> /\ Freg'.cur = Freg.cur /\ Dreg'.cur = Dreg.cur
    <3>1. stage' # stage
      BY <1>1, <1>3
    <3> QED BY <3>1 DEF IF_, GoOn, End, machine, signals, Types
  <2>2. (ZeroIsZero /\ AfterWB)'
    BY <1>1, <1>3, <2>1 DEF DataFlow, ZeroIsZero, AfterWB
  <2>3. (DFromText /\ EFromText)'
    BY <2>1 DEF DataFlow, DFromText, EFromText, DecodedFrom
  <2>4. HandedToWB' /\ HandedToMEM'
    BY <1>1, <2>1 DEF DataFlow, HandedToWB, HandedToMEM, Executed
  <2>5. ArchReg' = ArchReg
    BY <2>1 DEF ArchReg, ArchMem
  <2>6. HandedToEX'
    BY <1>1, <2>1, <2>5 DEF DataFlow, HandedToEX, Decoded, LoadUse, DecodedFrom, Operands
  <2>7. EOperands'
    BY <1>3 DEF EOperands, Executed
  <2>8. Continues' /\ Prints'
    BY <1>1, <2>1 DEF DataFlow, Continues, Predicts, Prints
  <2> QED BY <2>2, <2>3, <2>4, <2>6, <2>7, <2>8 DEF DataFlow
<1> QED BY <1>2, <1>3

\* The end of a cycle keeps the invariant: what ID and IF have left goes into E and
\* D, once, unless it is stalled or cleared.
LEMMA DataFlowTick ==
  ASSUME Types, Control, DataFlow, Tick
  PROVE  DataFlow'
<1>1. /\ stage = "Tick" /\ stage' = "WB" /\ UNCHANGED prog
      /\ Freg'.cur = IF StallF THEN Freg.cur ELSE Freg.upd
      /\ BubbleD => Dreg'.cur.inst = ZeroWord
      /\ ~ BubbleD => Dreg'.cur = IF StallD THEN Dreg.cur ELSE Dreg.upd
      /\ BubbleE => Ereg'.cur.inst = "BUBBLE"
      /\ ~ BubbleE => Ereg'.cur = Ereg.upd
  BY TickLeaves
<1>2. out' = out /\ reg' = [reg EXCEPT ![REG_ZERO] = 0]
  BY DEF Tick
<1>3. ZeroIsZero' /\ Prints'
  BY <1>2, ConstantsOK DEF DataFlow, ZeroIsZero, Prints, Types
<1>4. (AfterWB /\ HandedToWB /\ HandedToMEM /\ HandedToEX)'
  BY <1>1 DEF AfterWB, HandedToWB, HandedToMEM, HandedToEX, Executed, Decoded
<1>5. ArchReg' = ArchReg
  BY TickKeepsEffects DEF DataFlow
<1>6. Dreg.upd.pc = FetchPC /\ FetchPC \in PCs /\ Dreg.upd.inst = prog[FetchPC]
  BY <1>1 DEF Control, AfterIF
<1>7. DFromText'
  <2>1. Dreg'.cur.inst # ZeroWord => Dreg'.cur = Dreg.cur \/ Dreg'.cur = Dreg.upd
    BY <1>1
  <2> QED BY <1>1, <1>6, <2>1 DEF DataFlow, DFromText
<1>8. ASSUME Ereg'.cur.inst # "BUBBLE"
      PROVE  /\ ~ LoadUse /\ ~ WrongInE /\ Ereg'.cur = Ereg.upd /\ Dreg.cur.inst # ZeroWord
             /\ Ereg.upd.pc = Dreg.cur.pc /\ DecodedFrom(Ereg.upd) /\ Operands(Ereg.upd, ArchReg)
             /\ Ereg.upd.inst = Dreg.cur.inst.op /\ Ereg.upd.take_branch = Dreg.cur.take_branch
             /\ Dreg.cur.inst.op \in Branches => Ereg.upd.offset = Dreg.cur.inst.imm
  <2>1. ~ BubbleE /\ Ereg'.cur = Ereg.upd
    BY <1>1, <1>8
  <2>2. ~ LoadUse /\ ~ WrongInE
    BY <2>1 DEF BubbleE
  <2>3. Dreg.cur.inst # ZeroWord
    BY <1>1, <1>8, <2>1 DEF Control, AfterID, Decoded, ZeroWord
  <2>4. HandedToEX /\ AfterID /\ Decoded
    BY <1>1 DEF DataFlow, Control, Decoded
  <2> QED BY <2>1, <2>2, <2>3, <2>4 DEF HandedToEX, AfterID
<1>9. EFromText' /\ EOperands'
  <2>1. CASE Ereg'.cur.inst = "BUBBLE"
    BY <2>1 DEF EFromText, EOperands
  <2>2. CASE Ereg'.cur.inst # "BUBBLE"
    <3>1. Ereg'.cur = Ereg.upd /\ DecodedFrom(Ereg.upd) /\ Operands(Ereg.upd, ArchReg)
      BY <1>8, <2>2
    <3> QED BY <1>1, <1>5, <3>1 DEF EFromText, EOperands, DecodedFrom, Operands
  <2> QED BY <2>1, <2>2
<1>10. Continues'
  <2> SUFFICES ASSUME Ereg'.cur.inst \notin Jumps \cup {"BUBBLE"}
      PROVE  LET s == Predicts(Ereg'.cur)
             IN  IF Dreg'.cur.inst # ZeroWord THEN Dreg'.cur.pc = s
                 ELSE s \in PCs /\ prog[s] = ZeroWord /\ Freg'.cur.predPC = Wrap(s + 4)
    BY <1>1 DEF Continues, Predicts
  <2>1. /\ ~ LoadUse /\ ~ WrongInE /\ Ereg'.cur = Ereg.upd /\ Dreg.cur.inst # ZeroWord
        /\ Ereg.upd.pc = Dreg.cur.pc
        /\ Ereg.upd.inst = Dreg.cur.inst.op /\ Ereg.upd.take_branch = Dreg.cur.take_branch
        /\ Dreg.cur.inst.op \in Branches => Ereg.upd.offset = Dreg.cur.inst.imm
    BY <1>8
  <2>2. ~ JumpInD
    BY <2>1 DEF JumpInD
  <2>3. Dreg'.cur = Dreg.upd /\ Freg'.cur = Freg.upd
    BY <1>1, <2>1, <2>2 DEF BubbleD, StallD, StallF
  <2>4. ~ Mreg.cur.M_Bwrong /\ ~ e.isJ /\ WellFetched(Dreg.cur, Freg.cur)
    BY <1>1, <2>1 DEF Control, NothingBehind, AfterEX, FetchedBehind, Executed
  <2>5. FetchPC = Predicted(Dreg.cur) /\ (Dreg.cur.take_branch => Dreg.cur.inst.op \in Branches)
    BY <2>4 DEF FetchPC, WellFetched
  <2>6. FetchPC = Predicts(Ereg'.cur)
    BY <2>1, <2>5 DEF Predicted, Predicts
  <2> QED BY <1>1, <1>6, <2>3, <2>6, FetchedZero
<1> QED BY <1>3, <1>4, <1>7, <1>9, <1>10 DEF DataFlow

\* Every step keeps the invariant.
LEMMA NextDataFlow == Types /\ Control /\ NothingExecuted /\ DataFlow /\ [Next]_vars => DataFlow'
<1> SUFFICES ASSUME Types, Control, NothingExecuted, DataFlow, [Next]_vars PROVE DataFlow'
  OBVIOUS
<1>1. CASE UNCHANGED vars
  <2>1. Left /\ UNCHANGED <<reg, mem, out>>
    BY <1>1 DEF vars, machine, Left
  <2> QED BY <2>1, LeftDataFlow DEF DataFlow, Prints
<1> QED BY <1>1, DataFlowWB, DataFlowMEM, DataFlowEX, DataFlowID, DataFlowIF, DataFlowTick DEF Next

\* The machine starts with nothing handed to any stage.
LEMMA InitDataFlow == Init => DataFlow
<1> SUFFICES ASSUME Init PROVE DataFlow
  OBVIOUS
<1>1. /\ prog \in [PCs -> Instruction] /\ mem \in [Data -> Byte] /\ reg = StartReg /\ out = << >>
      /\ stage = "WB" /\ status = "running"
      /\ Freg.cur.predPC = CodeStart /\ Dreg.cur.inst = ZeroWord /\ Ereg.cur.inst = "BUBBLE"
      /\ Mreg.cur.inst = "BUBBLE" /\ Mreg.upd.inst = "BUBBLE" /\ ~ Mreg.cur.M_Bwrong
      /\ Wreg.cur.inst = "BUBBLE"
  BY ConstantsOK DEF Init, Cleared, NoD, NoE, NoM, NoW
<1>3. ZeroIsZero
  BY <1>1, ConstantsOK DEF ZeroIsZero, StartReg, REG_ZERO, REG_SP
<1>4. Prints
  BY <1>1, EmptySeq DEF Prints
<1> QED BY <1>1, <1>3, <1>4 DEF DataFlow, AfterWB, HandedToWB, HandedToMEM, HandedToEX, EOperands, DFromText,
    EFromText, Continues, Executed, Decoded

\* At every moment of every run, of every program: what EX executes was decoded from
\* the text and has the operands the program gives it; what is forwarded agrees with
\* what goes down the pipeline (simulation.cpp:249-297, 850-891); and what was
\* fetched is what was predicted.
THEOREM DataFlowInvariant == Spec => []DataFlow
<1>1. Init => DataFlow
  BY InitDataFlow
<1>2. Types /\ Control /\ NothingExecuted /\ DataFlow /\ [Next]_vars => DataFlow'
  BY NextDataFlow
<1>3. Counting => NothingExecuted
  BY DEF Counting
<1> QED BY <1>1, <1>2, <1>3, ControlInvariant, CountingInvariant, PTL DEF Spec

-----------------------------------------------------------------------------
(* The refinement and the ends of the process. *)

\* The programs in which no load is directly followed by a JALR through the register
\* it loads.  Such a JALR is both stalled and cleared at once at the end of the cycle,
\* and it or its successor is lost (simulation.cpp:249-297); the run PipelineReturn
\* finds that, so the theorem needs the condition.
NoLoadIntoJump ==
  \A pc \in PCs :
    LET i == prog[pc]
    IN  i.op = "LBU" /\ i.rd # REG_ZERO /\ pc + 4 \in PCs =>
          ~ (prog[pc + 4].op = "JALR" /\ prog[pc + 4].rs1 = i.rd)

\* The sequential state depends on these alone.
LEMMA ArchDepends ==
  ASSUME UNCHANGED <<prog, reg, mem, out, e, Wreg.cur, Mreg, Ereg.cur, Dreg.cur, Freg.cur, status>>,
         Executed' = Executed, (stage \in {"WB", "MEM"})' = (stage \in {"WB", "MEM"}),
         cnt'.inst_cnt = cnt.inst_cnt, cnt'.correct_predict = cnt.correct_predict,
         cnt'.mispredict = cnt.mispredict
  PROVE  UNCHANGED Arch
<1>1. UNCHANGED <<ArchReg, ArchMem>>
  BY DEF ArchReg, ArchMem
<1>2. NotExecutedPC' = NotExecutedPC
  BY DEF NotExecutedPC
<1>3. ArchPC' = ArchPC
  BY <1>2 DEF ArchPC, RawPC
<1>4. ArchInstructions' = ArchInstructions /\ ArchBranches' = ArchBranches
  BY DEF ArchInstructions, ArchBranches
<1>5. ArchStatus' = ArchStatus
  BY <1>3 DEF ArchStatus, OwnEnd
<1> QED BY <1>1, <1>3, <1>4, <1>5 DEF Arch

\* The sequential machine's copies of the operators of Instructions are the
\* pipeline's own.
LEMMA SameOperators ==
  /\ \A x : Sequential!Wrap(x) = Wrap(x)
  /\ \A p, a : Sequential!NextInstruction(p, a) = NextInstruction(p, a)
  /\ \A p, a : Sequential!Fetchable(p, a) = Fetchable(p, a)
  /\ \A a : Sequential!Access(a) = Access(a)
  /\ \A op, a, b : Sequential!Taken(op, a, b) = Taken(op, a, b)
  /\ \A i, v, a : Sequential!Target(i, v, a) = Target(i, v, a)
  /\ \A memory, a, b : Sequential!Syscall(memory, a, b) = Syscall(memory, a, b)
  /\ Sequential!Branches = Branches /\ Sequential!Jumps = Jumps
  /\ Sequential!REG_ZERO = REG_ZERO /\ Sequential!REG_A0 = REG_A0 /\ Sequential!REG_A7 = REG_A7
  /\ Sequential!PCs = PCs /\ Sequential!Instruction = Instruction /\ Sequential!Byte = Byte
  /\ Sequential!StartReg = StartReg
<1>1. \A S : Sequential!Min(S) = Min(S)
  BY DEF Sequential!Min, Min
<1>2. Sequential!ZeroWord = ZeroWord /\ (\A x : Sequential!Wrap(x) = Wrap(x))
  BY DEF Sequential!ZeroWord, ZeroWord, Sequential!Wrap, Wrap
<1>3. \A p, a : Sequential!NextInstruction(p, a) = NextInstruction(p, a)
  BY <1>1, <1>2 DEF Sequential!NextInstruction, NextInstruction
<1>4. Sequential!Code = Code
  BY DEF Sequential!Code, Code
<1>5. \A a : Sequential!Access(a) = Access(a)
  BY <1>4 DEF Sequential!Access, Access
<1>6. \A memory, a : /\ Sequential!StringEnd(memory, a) = StringEnd(memory, a)
  BY <1>1 DEF Sequential!StringEnd, StringEnd
<1>7. \A memory, a : /\ Sequential!StringAt(memory, a) = StringAt(memory, a)
                     /\ Sequential!StringAccess(memory, a) = StringAccess(memory, a)
  BY <1>5, <1>6 DEF Sequential!StringAt, StringAt, Sequential!StringAccess, StringAccess
<1>8. \A memory, a, b : Sequential!Syscall(memory, a, b) = Syscall(memory, a, b)
  BY <1>7 DEF Sequential!Syscall, Syscall
<1>9. \A i, v, a : Sequential!Target(i, v, a) = Target(i, v, a)
  BY <1>2 DEF Sequential!Target, Target
<1>10. Sequential!Branches = Branches /\ Sequential!Jumps = Jumps
  BY DEF Sequential!Branches, Branches, Sequential!Jumps, Jumps
<1>11. /\ Sequential!REG_ZERO = REG_ZERO /\ Sequential!REG_A0 = REG_A0
       /\ Sequential!REG_A7 = REG_A7 /\ Sequential!REG_SP = REG_SP
  BY DEF Sequential!REG_ZERO, REG_ZERO, Sequential!REG_A0, REG_A0, Sequential!REG_A7, REG_A7,
    Sequential!REG_SP, REG_SP
<1>12. /\ \A p, a : Sequential!Fetchable(p, a) = Fetchable(p, a)
       /\ \A op, a, b : Sequential!Taken(op, a, b) = Taken(op, a, b)
  BY DEF Sequential!Fetchable, Fetchable, Sequential!Taken, Taken
<1>13. Sequential!PCs = PCs /\ Sequential!Byte = Byte
  BY <1>4 DEF Sequential!PCs, PCs, Sequential!Byte, Byte
<1>14. Sequential!Ops = Ops
  BY <1>10 DEF Sequential!Ops, Ops
<1>15. Sequential!Instruction = Instruction
  BY <1>2, <1>14 DEF Sequential!Instruction, Instruction
<1>16. Sequential!StartReg = StartReg
  BY <1>11 DEF Sequential!StartReg, StartReg
<1> QED
  BY <1>2, <1>3, <1>5, <1>8, <1>9, <1>10, <1>11, <1>12, <1>13, <1>15, <1>16

\* The machine starts where the sequential one does.
LEMMA InitImplements == Init => Sequential!Init
<1> SUFFICES ASSUME Init PROVE Sequential!Init
  OBVIOUS
<1>1. /\ prog \in [PCs -> Instruction] /\ mem \in [Data -> Byte] /\ reg = StartReg /\ out = << >>
      /\ stage = "WB" /\ status = "running"
      /\ Freg.cur.predPC = CodeStart /\ Dreg.cur.inst = ZeroWord /\ Ereg.cur.inst = "BUBBLE"
      /\ Mreg.cur.inst = "BUBBLE" /\ Mreg.upd.inst = "BUBBLE" /\ ~ Mreg.cur.M_Bwrong
      /\ Wreg.cur.inst = "BUBBLE"
  BY ConstantsOK DEF Init, Cleared, NoD, NoE, NoM, NoW
<1>2. cnt.inst_cnt = 0 /\ cnt.correct_predict = 0 /\ cnt.mispredict = 0
  BY DEF Init
<1>6. ArchMem = mem /\ ArchReg = StartReg
  <2>1. ArchMem = mem
    BY <1>1, BubbleHasNoEffect DEF ArchMem
  <2>2. Written(reg, Wreg.cur) = StartReg
    BY <1>1, BubbleHasNoEffect
  <2>3. Loaded(StartReg, Stored(mem, Mreg.cur), Mreg.cur) = StartReg
    BY <1>1, BubbleHasNoEffect
  <2>4. Loaded(StartReg, ArchMem, Mreg.upd) = StartReg
    BY <1>1, BubbleHasNoEffect
  <2> QED BY <2>1, <2>2, <2>3, <2>4 DEF ArchReg
<1>7. ~ BadM(Mreg.cur) /\ ~ BadM(Mreg.upd)
  BY <1>1 DEF BadM
<1>8. ArchPC = NextInstruction(prog, CodeStart)
  BY <1>1, <1>7 DEF ArchPC, RawPC, NotExecutedPC, Executed
<1>9. ArchInstructions = 0 /\ ArchBranches = 0 /\ ArchStatus = "running"
  BY <1>1, <1>2, <1>7 DEF ArchInstructions, ArchBranches, ArchStatus, OwnEnd, One, Executed
<1> QED BY <1>1, <1>6, <1>8, <1>9, SameOperators DEF Sequential!Init

-----------------------------------------------------------------------------
(* EX executes the next instruction.                                       *)

\* The program's state when EX is called.
LEMMA BeforeEX ==
  ASSUME Types, NothingExecuted, AfterWB, HandedToWB, EFromText, stage = "EX", status = "running"
  PROVE  /\ ArchMem = mem /\ ArchReg = Loaded(reg, mem, Mreg.cur) /\ ArchReg \in [Reg -> Word]
         /\ ArchStatus = "running" /\ ArchInstructions = cnt.inst_cnt
         /\ ArchBranches = cnt.correct_predict + cnt.mispredict
         /\ ~ BadM(Mreg.cur) /\ Mreg.upd.inst = "BUBBLE"
         /\ Ereg.cur.inst # "BUBBLE" => ArchPC = Ereg.cur.pc /\ Fetchable(prog, ArchPC)
<1>1. Mreg.upd.inst = "BUBBLE" /\ ~ BadM(Mreg.cur) /\ Stored(mem, Mreg.cur) = mem /\ Written(reg, Wreg.cur) = reg
  BY DEF NothingExecuted, HandedToWB, AfterWB
<1>2. ~ BadM(Mreg.upd)
  BY <1>1 DEF BadM
<1>3. ArchMem = mem
  BY <1>1, BubbleHasNoEffect DEF ArchMem
<1>4. ArchReg = Loaded(reg, mem, Mreg.cur)
  BY <1>1, <1>3, BubbleHasNoEffect DEF ArchReg
<1>5. ArchReg \in [Reg -> Word]
  BY <1>4, LoadedType DEF Types
<1>6. ArchInstructions = cnt.inst_cnt /\ ArchBranches = cnt.correct_predict + cnt.mispredict
  BY <1>1 DEF ArchInstructions, ArchBranches, One, Executed, Types, CType
<1>7. ArchStatus = "running"
  BY <1>1, <1>2 DEF ArchStatus, OwnEnd
<1>8. ASSUME Ereg.cur.inst # "BUBBLE" PROVE ArchPC = Ereg.cur.pc /\ Fetchable(prog, ArchPC)
  <2>1. Ereg.cur.pc \in PCs /\ prog[Ereg.cur.pc] # ZeroWord
    BY <1>8 DEF EFromText, DecodedFrom
  <2>2. RawPC = Ereg.cur.pc
    BY <1>1, <1>2, <1>8 DEF RawPC, NotExecutedPC, Executed
  <2> QED BY <2>1, <2>2 DEF ArchPC, NextInstruction, Fetchable, Types
<1> QED BY <1>1, <1>3, <1>4, <1>5, <1>6, <1>7, <1>8

\* An instruction follows the one at its address.
LEMMA NextAddress ==
  ASSUME NEW pc \in PCs
  PROVE  Wrap(pc + 4) = pc + 4 /\ pc + 4 \in Word
<1>1. /\ CodeStart \in Nat /\ CodeSize \in Nat /\ CodeStart % 4 = 0 /\ CodeSize % 4 = 0
      /\ CodeStart + CodeSize < WordMod /\ WordMod \in Nat
  BY InstructionsAssumption
<1>2. pc \in CodeStart .. CodeStart + CodeSize - 1 /\ pc % 4 = 0
  BY DEF PCs, Code
<1>3. pc + 4 <= CodeStart + CodeSize
  BY <1>1, <1>2
<1>4. pc + 4 \in 0 .. WordMod - 1
  BY <1>1, <1>2, <1>3
<1>5. (pc + 4) % WordMod = pc + 4
  BY <1>1, <1>4
<1> QED BY <1>4, <1>5 DEF Wrap, Word

\* Passing over a word of zeros does not change which instruction is next.
LEMMA SkipZero ==
  ASSUME prog \in [PCs -> Instruction], NEW pc \in PCs, prog[pc] = ZeroWord
  PROVE  NextInstruction(prog, pc) = NextInstruction(prog, Wrap(pc + 4))
<1> DEFINE last == CodeStart + CodeSize
           S(a) == {q \in PCs : q >= a /\ prog[q] # ZeroWord} \cup {last}
<1>1. /\ CodeStart \in Nat /\ CodeSize \in Nat /\ CodeStart % 4 = 0 /\ CodeSize % 4 = 0
  BY InstructionsAssumption
<1>2. \A q \in PCs : q \in Nat /\ q % 4 = 0 /\ CodeStart <= q /\ q < last
  BY <1>1 DEF PCs, Code
<1>3. pc \in Nat /\ pc % 4 = 0 /\ pc < last /\ Wrap(pc + 4) = pc + 4 /\ last \in Nat /\ last % 4 = 0
  BY <1>1, <1>2, NextAddress
<1>4. \A q \in Nat : q % 4 = 0 /\ q > pc => q >= pc + 4
  BY <1>3
<1>5. S(pc) = S(pc + 4)
  <2>1. ASSUME NEW q \in PCs, prog[q] # ZeroWord PROVE q >= pc <=> q >= pc + 4
    <3>1. q # pc /\ q \in Nat /\ q % 4 = 0
      BY <1>2, <2>1
    <3> QED BY <1>3, <1>4, <3>1
  <2> QED BY <2>1
<1>6. \A a \in Nat : S(a) \in SUBSET Nat /\ last \in S(a)
  BY <1>2, <1>3
<1>7. NextInstruction(prog, pc) = Min(S(pc))
  BY DEF NextInstruction
<1>8. CASE pc + 4 \notin PCs
  <2>1. pc + 4 = last
    <3>1. pc + 4 <= last
      BY <1>3, <1>4
    <3>2. pc + 4 \notin Code
      <4>1. (pc + 4) % 4 = 0
        BY <1>3
      <4> QED BY <1>8, <4>1 DEF PCs
    <3> QED BY <1>1, <1>2, <1>3, <3>1, <3>2 DEF Code
  <2>2. NextInstruction(prog, pc + 4) = last
    BY <1>8, <2>1 DEF NextInstruction
  <2>3. S(pc + 4) = {last}
    BY <1>2, <2>1
  <2>4. Min({last}) = last
    BY <1>3, MinIsLeast
  <2> QED BY <1>3, <1>5, <1>7, <2>2, <2>3, <2>4
<1>9. CASE pc + 4 \in PCs /\ prog[pc + 4] # ZeroWord
  <2>1. NextInstruction(prog, pc + 4) = pc + 4
    BY <1>9 DEF NextInstruction
  <2>2. pc + 4 \in S(pc + 4) /\ S(pc + 4) \in SUBSET Nat /\ \A q \in S(pc + 4) : pc + 4 <= q
    BY <1>2, <1>3, <1>6, <1>9
  <2>3. Min(S(pc + 4)) = pc + 4
    <3> DEFINE M == Min(S(pc + 4))
    <3>1. M \in S(pc + 4) /\ \A q \in S(pc + 4) : M <= q
      BY <2>2, MinIsLeast
    <3>2. M \in Nat /\ pc + 4 <= M /\ M <= pc + 4 /\ pc + 4 \in Nat
      BY <1>3, <2>2, <3>1
    <3> QED BY <3>2
  <2> QED BY <1>3, <1>5, <1>7, <2>1, <2>3
<1>10. CASE pc + 4 \in PCs /\ prog[pc + 4] = ZeroWord
  BY <1>3, <1>5, <1>7, <1>10 DEF NextInstruction
<1> QED BY <1>8, <1>9, <1>10

\* Where the instruction i, with the operands in x, goes on.
Following(x, i) ==
  IF i.op \in Jumps THEN CalculatedPC(x)
  ELSE IF i.op \in Branches /\ Taken(i.op, x.valA, x.valB) THEN Wrap(x.pc + i.imm) ELSE x.pc + 4

\* The program's state when EX has executed an instruction.
LEMMA AfterExecution ==
  ASSUME Types, Control, NothingExecuted, AfterWB, HandedToWB, EFromText, Continues, EX,
         Ereg.cur.inst # "BUBBLE", CallOf(Ereg.cur).then = "ok"
  PROVE
  LET x == Ereg.cur
      c == Mreg'.upd
      i == prog[x.pc]
  IN  /\ ArchMem' = Stored(ArchMem, c) /\ ArchReg' = Loaded(ArchReg, ArchMem', c)
      /\ ArchStatus' = IF BadM(c) THEN Access(c.valE) ELSE "running"
      /\ ArchInstructions' = ArchInstructions + One(~ BadM(c))
      /\ ArchBranches' = ArchBranches + One(x.inst \in Branches)
      /\ ArchPC' = IF BadM(c) THEN ArchPC ELSE NextInstruction(prog, Following(x, i))
<1> DEFINE x == Ereg.cur
           c == Mreg'.upd
           i == prog[x.pc]
<1>1. /\ stage = "EX" /\ stage' = "ID" /\ status = "running" /\ status' = "running"
      /\ UNCHANGED <<prog, reg, mem, Freg, Dreg, Ereg, Wreg, m, d>>
      /\ Mreg'.cur = Mreg.cur
      /\ c.pc = x.pc /\ c.inst = x.inst
      /\ (c.mem_write <=> x.inst = "SB") /\ (c.mem_read <=> x.inst = "LBU")
      /\ c.M_calcPC = e'.calcPC /\ (c.M_Bwrong <=> Wrong(x)) /\ (e'.Bwrong <=> Wrong(x))
      /\ (e'.isJ <=> x.inst \in Jumps)
      /\ x.inst \in Jumps => e'.calcPC = CalculatedPC(x)
      /\ Wrong(x) => e'.calcPC = x.PCnottaken
      /\ cnt'.inst_cnt = cnt.inst_cnt /\ cnt'.mispredict = cnt.mispredict
      /\ cnt'.correct_predict = cnt.correct_predict + One(x.inst \in Branches /\ ~ Wrong(x))
  BY EXExecutes
<1>2. /\ ArchMem = mem /\ ArchReg = Loaded(reg, mem, Mreg.cur)
      /\ ArchStatus = "running" /\ ArchInstructions = cnt.inst_cnt
      /\ ArchBranches = cnt.correct_predict + cnt.mispredict
      /\ ~ BadM(Mreg.cur) /\ ArchPC = x.pc /\ Fetchable(prog, ArchPC)
  BY <1>1, BeforeEX
<1>3. Stored(mem, Mreg.cur) = mem /\ Written(reg, Wreg.cur) = reg
  BY <1>1 DEF HandedToWB, AfterWB
<1>4. DecodedFrom(x)
  BY DEF EFromText
<1>5. ArchMem' = Stored(ArchMem, c) /\ ArchReg' = Loaded(ArchReg, ArchMem', c)
  BY <1>1, <1>2, <1>3 DEF ArchMem, ArchReg
<1>6. ArchStatus' = IF BadM(c) THEN Access(c.valE) ELSE "running"
  BY <1>1, <1>2 DEF ArchStatus, OwnEnd
<1>7. ArchInstructions' = ArchInstructions + One(~ BadM(c))
  BY <1>1, <1>2 DEF ArchInstructions, One, Types, CType
<1>8. ArchBranches' = ArchBranches + One(x.inst \in Branches)
  <2>1. cnt.correct_predict \in Nat /\ cnt.mispredict \in Nat
    BY DEF Types, CType
  <2>2. One(x.inst \in Branches /\ ~ Wrong(x)) + One(Wrong(x)) = One(x.inst \in Branches)
    BY DEF One, Wrong
  <2>3. One(x.inst \in Branches /\ ~ Wrong(x)) \in Nat /\ One(Wrong(x)) \in Nat
    BY DEF One
  <2>4. ArchBranches' = cnt'.correct_predict + cnt'.mispredict + One(Wrong(x))
    BY <1>1 DEF ArchBranches, Executed, One
  <2> QED BY <1>1, <1>2, <2>1, <2>2, <2>3, <2>4
<1>9. ~ Mreg.cur.M_Bwrong
  BY DEF Control, NothingBehind
<1>10. ASSUME ~ BadM(c) PROVE ArchPC' = NextInstruction(prog, Following(x, i))
  <2>1. ArchPC' = NextInstruction(prog, NotExecutedPC')
    BY <1>1, <1>2, <1>10 DEF ArchPC, RawPC
  <2>2. NotExecutedPC' = IF x.inst \in Jumps \/ Wrong(x) THEN e'.calcPC
                         ELSE IF Dreg.cur.inst # ZeroWord THEN Dreg.cur.pc ELSE Freg.cur.predPC
    BY <1>1, <1>9 DEF NotExecutedPC, Executed
  <2>3. x.inst = i.op /\ x.pc \in PCs /\ Wrap(x.pc + 4) = x.pc + 4
    BY <1>4, NextAddress DEF DecodedFrom
  <2>4. CASE x.inst \in Jumps
    BY <1>1, <2>1, <2>2, <2>3, <2>4 DEF Following
  <2>5. CASE Wrong(x)
    <3>1. x.inst \in Branches /\ x.inst \notin Jumps /\ x.take_branch # Taken(x.inst, x.valA, x.valB)
      BY <2>5 DEF Wrong, Branches, Jumps
    <3>2. x.PCnottaken = IF x.take_branch THEN Wrap(x.pc + 4) ELSE Wrap(x.pc + i.imm)
      BY <1>4, <2>3, <3>1 DEF DecodedFrom
    <3>3. x.take_branch \in BOOLEAN /\ Taken(x.inst, x.valA, x.valB) \in BOOLEAN
      BY DEF Types, EType, Taken
    <3> QED BY <1>1, <2>1, <2>2, <2>3, <2>5, <3>1, <3>2, <3>3 DEF Following
  <2>6. CASE x.inst \notin Jumps /\ ~ Wrong(x)
    <3>1. ArchPC' = NextInstruction(prog, IF x.take_branch THEN Wrap(x.pc + x.offset) ELSE Wrap(x.pc + 4))
      <4>1. ArchPC' = NextInstruction(prog, IF Dreg.cur.inst # ZeroWord THEN Dreg.cur.pc ELSE Freg.cur.predPC)
        BY <2>1, <2>2, <2>6
      <4>2. ArchPC' = NextInstruction(prog, Predicts(x))
        BY <2>6, <4>1, SkipZero DEF Continues, Types
      <4> QED BY <4>2 DEF Predicts
    <3>2. CASE x.inst \in Branches
      <4>1. x.take_branch = Taken(x.inst, x.valA, x.valB)
        BY <2>6, <3>2 DEF Wrong
      <4>2. x.offset = i.imm
        BY <1>4, <2>3, <3>2 DEF DecodedFrom
      <4> QED BY <2>3, <2>6, <3>1, <3>2, <4>1, <4>2 DEF Following
    <3>3. CASE x.inst \notin Branches
      <4>1. ~ x.take_branch
        BY <1>4, <2>3, <3>3 DEF DecodedFrom
      <4> QED BY <2>3, <2>6, <3>1, <3>3, <4>1 DEF Following
    <3> QED BY <3>2, <3>3
  <2> QED BY <2>4, <2>5, <2>6
<1>11. ASSUME BadM(c) PROVE ArchPC' = ArchPC
  <2>1. RawPC' = x.pc
    BY <1>1, <1>2, <1>11 DEF RawPC
  <2>2. ArchPC = x.pc /\ x.pc \in PCs /\ prog[x.pc] # ZeroWord
    BY <1>2, <1>4 DEF DecodedFrom
  <2> QED BY <1>1, <2>1, <2>2 DEF ArchPC, NextInstruction
<1> QED BY <1>5, <1>6, <1>7, <1>8, <1>10, <1>11

\* What an instruction in M does to registers and memory.
LEMMA EffectInM ==
  ASSUME NEW r, NEW memory, NEW c, c.inst # "BUBBLE", ~ BadM(c)
  PROVE  /\ ~ c.reg_write => Loaded(r, memory, c) = r
         /\ c.reg_write => Loaded(r, memory, c) =
              IF c.destReg = REG_ZERO THEN r
              ELSE [r EXCEPT ![c.destReg] = IF c.mem_read THEN memory[c.valE] ELSE c.valE]
         /\ ~ c.mem_write => Stored(memory, c) = memory
         /\ c.mem_write => c.valE \in Data /\ Stored(memory, c) = [memory EXCEPT ![c.valE] = c.valB]
         /\ c.mem_read => c.valE \in Data
<1> DEFINE w == [inst |-> c.inst, reg_write |-> c.reg_write, destReg |-> c.destReg,
                 valM |-> IF c.mem_read THEN memory[c.valE] ELSE c.valE]
<1>1. Loaded(r, memory, c) = Written(r, w)
  BY DEF Loaded
<1>2. /\ ~ c.reg_write => Written(r, w) = r
      /\ c.reg_write => Written(r, w) =
           IF c.destReg = REG_ZERO THEN r
           ELSE [r EXCEPT ![c.destReg] = IF c.mem_read THEN memory[c.valE] ELSE c.valE]
  BY DEF Written
<1> QED BY <1>1, <1>2 DEF Stored, BadM

\* The operands ID takes to EX, instruction by instruction.
LEMMA OperandsOf ==
  ASSUME Types, NEW x, NEW r, DecodedFrom(x), Operands(x, r)
  PROVE
  LET i == prog[x.pc]
  IN  /\ i \in [op : Ops, rd : Reg, rs1 : Reg, rs2 : Reg, imm : Signed_]
      /\ x.inst = i.op /\ i.op \in Ops \ {"ILLEGAL"}
      /\ i.op \in {"ADDI", "ADD", "JALR", "LBU", "SB"} \cup Branches => x.valA = r[i.rs1]
      /\ i.op \in {"ADD", "SB"} \cup Branches => x.valB = r[i.rs2]
      /\ i.op \in {"ADDI", "JALR"} => x.valB = i.imm
      /\ i.op = "JAL" => x.valA = i.imm
      /\ i.op = "ECALL" => x.valA = r[REG_A0] /\ x.valB = r[REG_A7]
      /\ i.op \in {"LBU", "SB"} => x.offset = i.imm
      /\ i.op \in Writers => x.destreg = i.rd
<1> DEFINE i == prog[x.pc]
<1>1. i \in Instruction /\ i # ZeroWord /\ i.op # "ILLEGAL"
  BY DEF Types, DecodedFrom
<1>2. i \in [op : Ops, rd : Reg, rs1 : Reg, rs2 : Reg, imm : Signed_]
  BY <1>1 DEF Instruction, Signed_
<1>3. i.rs1 # -1 /\ i.rs2 # -1 /\ REG_A0 # -1 /\ REG_A7 # -1
  BY <1>2, ConstantsOK
<1>4. x.inst = i.op /\ x.destreg = Dest(i) /\ (i.op \in {"LBU", "SB"} => x.offset = i.imm)
  BY DEF DecodedFrom
<1>5. /\ x.valA = IF Reg1(i) # -1 THEN r[Reg1(i)] ELSE i.imm
      /\ x.valB = IF Reg2(i) # -1 THEN r[Reg2(i)] ELSE IF i.op = "JAL" THEN 0 ELSE i.imm
  BY DEF Operands
<1>6. /\ i.op \in {"ADDI", "ADD", "JALR", "LBU", "SB"} \cup Branches => Reg1(i) = i.rs1
      /\ i.op = "ECALL" => Reg1(i) = REG_A0
      /\ i.op = "JAL" => Reg1(i) = -1
  BY DEF Reg1, Branches
<1>7. /\ i.op \in {"ADD", "SB"} \cup Branches => Reg2(i) = i.rs2
      /\ i.op = "ECALL" => Reg2(i) = REG_A7
      /\ i.op \in {"ADDI", "JALR"} => Reg2(i) = -1
  BY DEF Reg2, Branches
<1>8. i.op \in Writers => Dest(i) = i.rd
  BY DEF Dest, Writers
<1>9. i.op \in {"ADDI", "JALR"} => i.op # "JAL"
  OBVIOUS
<1> QED BY <1>1, <1>2, <1>3, <1>4, <1>5, <1>6, <1>7, <1>8, <1>9

\* What EX computes, instruction by instruction.
LEMMA ResultOf ==
  ASSUME NEW x
  PROVE  /\ x.inst \in {"ADDI", "ADD"} => Result(x) = Wrap(x.valA + x.valB)
         /\ x.inst \in Jumps => Result(x) = Wrap(x.pc + 4)
         /\ x.inst \in {"LBU", "SB"} => Result(x) = Wrap(x.valA + x.offset)
         /\ x.inst = "JAL" => CalculatedPC(x) = Wrap(x.pc + x.valA)
         /\ x.inst = "JALR" => CalculatedPC(x) = (Wrap(x.valA + x.valB) \div 2) * 2
<1>1. CASE x.inst \in {"ADDI", "ADD"}
  BY <1>1 DEF Result, Jumps, Branches
<1>2. CASE x.inst \in Jumps
  <2>1. x.inst \notin {"ADDI", "ADD", "LBU", "SB"} \cup Branches
    BY <1>2 DEF Jumps, Branches
  <2>2. Result(x) = Wrap(x.pc + 4)
    BY <1>2, <2>1 DEF Result
  <2>3. /\ x.inst = "JAL" => CalculatedPC(x) = Wrap(x.pc + x.valA)
        /\ x.inst = "JALR" => CalculatedPC(x) = (Wrap(x.valA + x.valB) \div 2) * 2
    BY DEF CalculatedPC
  <2> QED BY <2>1, <2>2, <2>3
<1>3. CASE x.inst \in {"LBU", "SB"}
  <2>1. x.inst \notin {"ADDI", "ADD", "JAL", "JALR"}
    BY <1>3
  <2> QED BY <1>3, <2>1 DEF Result, Jumps, Branches
<1> QED BY <1>1, <1>2, <1>3 DEF Jumps

\* What of the invariant EX needs.
ReadyForEX == /\ Types /\ Control /\ NothingExecuted /\ AfterWB /\ HandedToWB
              /\ EFromText /\ EOperands /\ Continues /\ Prints

\* What the instruction i that EX has executed, now c in M, has read and does.
LEMMA ExecutionEffect ==
  ASSUME ReadyForEX, EX, Ereg.cur.inst # "BUBBLE", CallOf(Ereg.cur).then = "ok"
  PROVE
  LET x == Ereg.cur
      c == Mreg'.upd
      i == prog[x.pc]
  IN  /\ UNCHANGED prog /\ ArchStatus = "running" /\ ArchPC = x.pc /\ Fetchable(prog, ArchPC)
      /\ ArchReg \in [Reg -> Word] /\ ArchPC + 4 = Wrap(ArchPC + 4)
      /\ i.op \in Ops \ {"ILLEGAL"} /\ x.inst = i.op
      /\ i.op \in {"LBU", "SB"} => c.valE = Wrap(ArchReg[i.rs1] + i.imm)
      /\ BadM(c) =>
           /\ i.op \in {"LBU", "SB"} /\ c.valE \notin Data /\ ArchStatus' = Access(c.valE)
           /\ UNCHANGED <<ArchPC, ArchReg, ArchMem, ArchInstructions, ArchBranches>>
      /\ ~ BadM(c) =>
           /\ UNCHANGED ArchStatus /\ ArchPC' = NextInstruction(prog, Following(x, i))
           /\ ArchInstructions' = ArchInstructions + 1
           /\ ArchBranches' = ArchBranches + One(i.op \in Branches)
           /\ ArchReg' = IF i.op \notin Writers \/ i.rd = REG_ZERO THEN ArchReg
                         ELSE [ArchReg EXCEPT ![i.rd] = IF i.op = "LBU" THEN ArchMem'[c.valE] ELSE c.valE]
           /\ i.op # "SB" => ArchMem' = ArchMem
           /\ i.op = "SB" => ArchMem' = [ArchMem EXCEPT ![c.valE] = LowByte(ArchReg[i.rs2])]
           /\ i.op \in {"LBU", "SB"} => c.valE \in Data
           /\ out' = out \o CallOf(x).print
      /\ ~ c.mem_read /\ ~ c.mem_write => i.op \notin {"LBU", "SB"}
      /\ i.op \notin {"LBU", "SB"} => ~ BadM(c)
      /\ i.op \in {"ADDI", "ADD", "JALR"} \cup Branches => x.valA = ArchReg[i.rs1]
      /\ i.op \in {"ADD"} \cup Branches => x.valB = ArchReg[i.rs2]
      /\ i.op \in {"ADDI", "JALR"} => x.valB = i.imm
      /\ i.op = "JAL" => x.valA = i.imm
      /\ i.op = "ECALL" => x.valA = ArchReg[REG_A0] /\ x.valB = ArchReg[REG_A7]
      /\ i.op # "ECALL" => out' = out
      /\ c.valE = Result(x) /\ ArchMem = mem
<1> DEFINE x == Ereg.cur
           c == Mreg'.upd
           i == prog[x.pc]
<1>1. /\ prog' = prog /\ mem' = mem /\ stage = "EX" /\ status = "running" /\ out' = out \o CallOf(x).print
      /\ c.inst = x.inst /\ c.valE = Result(x) /\ c.destReg = x.destreg
      /\ (c.reg_write <=> x.inst \in Writers) /\ (c.mem_write <=> x.inst = "SB") /\ (c.mem_read <=> x.inst = "LBU")
      /\ x.inst = "SB" => c.valB = LowByte(x.valB)
  BY EXExecutes DEF ReadyForEX
<1>2. /\ ArchMem = mem /\ ArchReg \in [Reg -> Word] /\ ArchStatus = "running"
      /\ ArchPC = x.pc /\ Fetchable(prog, ArchPC)
  BY <1>1, BeforeEX DEF ReadyForEX
<1>3. /\ ArchMem' = Stored(ArchMem, c) /\ ArchReg' = Loaded(ArchReg, ArchMem', c)
      /\ ArchStatus' = IF BadM(c) THEN Access(c.valE) ELSE "running"
      /\ ArchInstructions' = ArchInstructions + One(~ BadM(c))
      /\ ArchBranches' = ArchBranches + One(x.inst \in Branches)
      /\ ArchPC' = IF BadM(c) THEN ArchPC ELSE NextInstruction(prog, Following(x, i))
  BY AfterExecution DEF ReadyForEX
<1>4. DecodedFrom(x) /\ Operands(x, ArchReg)
  BY <1>1 DEF ReadyForEX, EFromText, EOperands, Executed
<1>5. /\ i \in [op : Ops, rd : Reg, rs1 : Reg, rs2 : Reg, imm : Signed_]
      /\ x.inst = i.op /\ i.op \in Ops \ {"ILLEGAL"}
      /\ i.op \in {"ADDI", "ADD", "JALR", "LBU", "SB"} \cup Branches => x.valA = ArchReg[i.rs1]
      /\ i.op \in {"ADD", "SB"} \cup Branches => x.valB = ArchReg[i.rs2]
      /\ i.op \in {"ADDI", "JALR"} => x.valB = i.imm
      /\ i.op = "JAL" => x.valA = i.imm
      /\ i.op = "ECALL" => x.valA = ArchReg[REG_A0] /\ x.valB = ArchReg[REG_A7]
      /\ i.op \in {"LBU", "SB"} => x.offset = i.imm
      /\ i.op \in Writers => x.destreg = i.rd
  BY <1>4, OperandsOf DEF ReadyForEX
<1>6. ArchPC + 4 = Wrap(ArchPC + 4)
  BY <1>2, <1>4, NextAddress DEF DecodedFrom
<1>7. i.op \in {"LBU", "SB"} => c.valE = Wrap(ArchReg[i.rs1] + i.imm)
  BY <1>1, <1>5, ResultOf
<1>8. i.op \notin {"LBU", "SB"} => ~ BadM(c)
  BY <1>1, <1>5 DEF BadM
<1>9. i.op # "ECALL" => out' = out
  <2>1. out \in Seq(Printed)
    BY DEF ReadyForEX, Prints
  <2>2. i.op # "ECALL" => CallOf(x).print = << >>
    BY <1>5 DEF CallOf
  <2> QED BY <1>1, <2>1, <2>2, ConcatEmptySeq
<1>10. ASSUME BadM(c)
       PROVE  /\ i.op \in {"LBU", "SB"} /\ c.valE \notin Data /\ ArchStatus' = Access(c.valE)
              /\ UNCHANGED <<ArchPC, ArchReg, ArchMem, ArchInstructions, ArchBranches>>
  <2>1. i.op \in {"LBU", "SB"} /\ c.valE \notin Data
    BY <1>8, <1>10 DEF BadM
  <2>2. x.inst \notin Branches
    BY <1>5, <2>1 DEF Branches
  <2>3. ArchMem' = ArchMem /\ ArchReg' = ArchReg
    BY <1>3, <1>10, <2>1 DEF Stored, Loaded
  <2>4. ArchInstructions \in Nat /\ ArchBranches \in Nat
    BY DEF ArchInstructions, ArchBranches, One, ReadyForEX, Types, CType
  <2> QED BY <1>3, <1>10, <2>1, <2>2, <2>3, <2>4 DEF One
<1>11. ASSUME ~ BadM(c)
       PROVE  /\ ArchReg' = IF i.op \notin Writers \/ i.rd = REG_ZERO THEN ArchReg
                            ELSE [ArchReg EXCEPT ![i.rd] = IF i.op = "LBU" THEN ArchMem'[c.valE] ELSE c.valE]
              /\ i.op # "SB" => ArchMem' = ArchMem
              /\ i.op = "SB" => ArchMem' = [ArchMem EXCEPT ![c.valE] = LowByte(ArchReg[i.rs2])]
              /\ i.op \in {"LBU", "SB"} => c.valE \in Data
  <2>1. c.inst # "BUBBLE"
    BY <1>1
  <2>2. /\ ~ c.reg_write => ArchReg' = ArchReg
        /\ c.reg_write => ArchReg' =
             IF c.destReg = REG_ZERO THEN ArchReg
             ELSE [ArchReg EXCEPT ![c.destReg] = IF c.mem_read THEN ArchMem'[c.valE] ELSE c.valE]
        /\ ~ c.mem_write => ArchMem' = ArchMem
        /\ c.mem_write => c.valE \in Data /\ ArchMem' = [ArchMem EXCEPT ![c.valE] = c.valB]
        /\ c.mem_read => c.valE \in Data
    <3> HIDE DEF c, i, x
    <3>1. /\ ~ c.reg_write => Loaded(ArchReg, ArchMem', c) = ArchReg
          /\ c.reg_write => Loaded(ArchReg, ArchMem', c) =
               IF c.destReg = REG_ZERO THEN ArchReg
               ELSE [ArchReg EXCEPT ![c.destReg] = IF c.mem_read THEN ArchMem'[c.valE] ELSE c.valE]
      BY <1>11, <2>1, EffectInM
    <3>2. /\ ~ c.mem_write => Stored(ArchMem, c) = ArchMem
          /\ c.mem_write => c.valE \in Data /\ Stored(ArchMem, c) = [ArchMem EXCEPT ![c.valE] = c.valB]
          /\ c.mem_read => c.valE \in Data
      BY <1>11, <2>1, EffectInM
    <3> QED BY <1>3, <3>1, <3>2
  <2> HIDE DEF c, i, x
  <2> QED BY <1>1, <1>5, <2>2
<1>12. ~ BadM(c) =>
         /\ UNCHANGED ArchStatus /\ ArchPC' = NextInstruction(prog, Following(x, i))
         /\ ArchInstructions' = ArchInstructions + 1
         /\ ArchBranches' = ArchBranches + One(i.op \in Branches)
  BY <1>2, <1>3, <1>5 DEF One
<1> QED BY <1>1, <1>2, <1>5, <1>6, <1>7, <1>8, <1>9, <1>10, <1>11, <1>12

\* Executing an instruction is the step of the sequential machine that executes it.
LEMMA ExecutionImplements ==
  ASSUME ReadyForEX, EX, Ereg.cur.inst # "BUBBLE", CallOf(Ereg.cur).then = "ok"
  PROVE  Sequential!Next
<1> DEFINE x == Ereg.cur
           c == Mreg'.upd
           i == prog[x.pc]
<1>1. /\ UNCHANGED prog /\ ArchStatus = "running" /\ ArchPC = x.pc /\ Fetchable(prog, ArchPC)
      /\ ArchPC + 4 = Wrap(ArchPC + 4) /\ ArchMem = mem
      /\ i.op \in Ops \ {"ILLEGAL"} /\ x.inst = i.op /\ c.valE = Result(x)
      /\ i.op \in {"LBU", "SB"} => c.valE = Wrap(ArchReg[i.rs1] + i.imm)
      /\ i.op \notin {"LBU", "SB"} => ~ BadM(c)
      /\ i.op # "ECALL" => out' = out
  BY ExecutionEffect
<1>2. /\ i.op \in {"ADDI", "ADD", "JALR"} \cup Branches => x.valA = ArchReg[i.rs1]
      /\ i.op \in {"ADD"} \cup Branches => x.valB = ArchReg[i.rs2]
      /\ i.op \in {"ADDI", "JALR"} => x.valB = i.imm
      /\ i.op = "JAL" => x.valA = i.imm
      /\ i.op = "ECALL" => x.valA = ArchReg[REG_A0] /\ x.valB = ArchReg[REG_A7]
  BY ExecutionEffect
<1>3. BadM(c) =>
        /\ c.valE \notin Data /\ ArchStatus' = Access(c.valE)
        /\ UNCHANGED <<ArchPC, ArchReg, ArchMem, ArchInstructions, ArchBranches>>
  BY ExecutionEffect
<1>4. ~ BadM(c) =>
        /\ UNCHANGED ArchStatus /\ ArchPC' = NextInstruction(prog, Following(x, i))
        /\ ArchInstructions' = ArchInstructions + 1
        /\ ArchBranches' = ArchBranches + One(i.op \in Branches)
        /\ ArchReg' = IF i.op \notin Writers \/ i.rd = REG_ZERO THEN ArchReg
                      ELSE [ArchReg EXCEPT ![i.rd] = IF i.op = "LBU" THEN ArchMem'[c.valE] ELSE c.valE]
        /\ i.op # "SB" => ArchMem' = ArchMem
        /\ i.op = "SB" => ArchMem' = [ArchMem EXCEPT ![c.valE] = LowByte(ArchReg[i.rs2])]
        /\ i.op \in {"LBU", "SB"} => c.valE \in Data
        /\ out' = out \o CallOf(x).print
  BY ExecutionEffect
<1>5. Sequential!Inst = i /\ \A ops : i.op \in ops => Sequential!Running(ops)
  BY <1>1, SameOperators DEF Sequential!Inst, Sequential!Running
<1>6. i.op \notin Jumps \cup Branches => Following(x, i) = ArchPC + 4
  BY <1>1 DEF Following
<1>7. ~ BadM(c) => Sequential!Goto(Following(x, i)) /\ Sequential!Counted
  BY <1>1, <1>4, <1>5, SameOperators DEF Sequential!Goto, Sequential!Counted, One
<1>8. ~ BadM(c) => /\ i.op \notin Writers => ArchReg' = ArchReg
                   /\ i.op \in Writers => Sequential!Put(i.rd, IF i.op = "LBU" THEN ArchMem'[c.valE] ELSE c.valE)
  BY <1>4, SameOperators DEF Sequential!Put
<1> HIDE DEF x, c, i
<1>9. CASE i.op \in {"ADDI", "ADD"}
  <2>1. /\ i.op \in Writers /\ i.op \notin Jumps \cup Branches /\ i.op \notin {"LBU", "SB", "ECALL"}
    BY <1>9 DEF Writers, Jumps, Branches
  <2>2. c.valE = Wrap(ArchReg[i.rs1] + (IF i.op = "ADD" THEN ArchReg[i.rs2] ELSE i.imm))
    BY <1>1, <1>2, <1>9, ResultOf
  <2> QED BY <1>1, <1>4, <1>5, <1>6, <1>7, <1>8, <1>9, <2>1, <2>2, SameOperators
        DEF Sequential!Next, Sequential!Compute
<1>10. CASE i.op \in Branches
  <2>1. i.op \notin Writers /\ i.op \notin Jumps /\ i.op \notin {"LBU", "SB", "ECALL"}
    BY <1>10 DEF Writers, Jumps, Branches
  <2>2. Following(x, i) = IF Taken(i.op, ArchReg[i.rs1], ArchReg[i.rs2]) THEN Wrap(ArchPC + i.imm) ELSE ArchPC + 4
    BY <1>1, <1>2, <1>10, <2>1 DEF Following
  <2> QED BY <1>1, <1>4, <1>5, <1>7, <1>8, <1>10, <2>1, <2>2, SameOperators
        DEF Sequential!Next, Sequential!Branch, Sequential!state
<1>11. CASE i.op \in Jumps
  <2>1. i.op \in Writers /\ i.op \notin {"LBU", "SB", "ECALL"}
    BY <1>11 DEF Writers, Jumps
  <2>2. c.valE = ArchPC + 4
    BY <1>1, <1>11, ResultOf
  <2>3. CASE i.op = "JAL"
    <3>1. CalculatedPC(x) = Target(i, ArchReg[i.rs1], ArchPC)
      BY <1>1, <1>2, <2>3, ResultOf DEF Target
    <3> QED BY <3>1, <1>1, <1>4, <1>5, <1>7, <1>8, <1>11, <2>1, <2>2, SameOperators
          DEF Sequential!Next, Sequential!Jump, Following
  <2>4. CASE i.op = "JALR"
    <3>1. CalculatedPC(x) = Target(i, ArchReg[i.rs1], ArchPC)
      BY <1>1, <1>2, <2>4, ResultOf DEF Target
    <3> QED BY <3>1, <1>1, <1>4, <1>5, <1>7, <1>8, <1>11, <2>1, <2>2, SameOperators
          DEF Sequential!Next, Sequential!Jump, Following
  <2> QED BY <1>11, <2>3, <2>4 DEF Jumps
<1>12. CASE i.op = "LBU"
  <2>1. i.op \in Writers /\ i.op \notin Jumps \cup Branches /\ i.op # "SB"
    BY <1>12 DEF Writers, Jumps, Branches
  <2>2. CASE ~ BadM(c)
    BY <1>1, <1>4, <1>5, <1>6, <1>7, <1>8, <1>12, <2>1, <2>2, SameOperators
       DEF Sequential!Next, Sequential!Load
  <2>3. CASE BadM(c)
    <3>1. Access(c.valE) # "ok"
      BY <1>3, <2>3 DEF Access
    <3> QED BY <1>1, <1>3, <1>5, <1>12, <2>3, <3>1, SameOperators
          DEF Sequential!Next, Sequential!BadAccess, Sequential!Stop
  <2> QED BY <2>2, <2>3
<1>13. CASE i.op = "SB"
  <2>1. i.op \notin Writers /\ i.op \notin Jumps \cup Branches
    BY <1>13 DEF Writers, Jumps, Branches
  <2>2. CASE ~ BadM(c)
    BY <1>1, <1>4, <1>5, <1>6, <1>7, <1>8, <1>13, <2>1, <2>2, SameOperators
       DEF Sequential!Next, Sequential!Store, LowByte
  <2>3. CASE BadM(c)
    <3>1. Access(c.valE) # "ok"
      BY <1>3, <2>3 DEF Access
    <3> QED BY <1>1, <1>3, <1>5, <1>13, <2>3, <3>1, SameOperators
          DEF Sequential!Next, Sequential!BadAccess, Sequential!Stop
  <2> QED BY <2>2, <2>3
<1>14. CASE i.op = "ECALL"
  <2>1. i.op \notin Writers /\ i.op \notin Jumps \cup Branches /\ i.op \notin {"LBU", "SB"}
    BY <1>14 DEF Writers, Jumps, Branches
  <2>2. CallOf(x) = Syscall(ArchMem, ArchReg[REG_A0], ArchReg[REG_A7]) /\ CallOf(x).then = "ok"
    BY <1>1, <1>2, <1>14 DEF CallOf, x
  <2> QED BY <1>1, <1>4, <1>5, <1>6, <1>7, <1>8, <1>14, <2>1, <2>2, SameOperators
        DEF Sequential!Next, Sequential!Ecall
<1> QED BY <1>1, <1>9, <1>10, <1>11, <1>12, <1>13, <1>14 DEF Ops, Branches, Jumps

\* A call that does not return ends the program.
LEMMA ExitImplements ==
  ASSUME ReadyForEX, EX, CallOf(Ereg.cur).then # "ok"
  PROVE  Sequential!Next
<1> DEFINE x == Ereg.cur
           i == prog[x.pc]
           call == Syscall(mem, x.valA, x.valB)
<1>1. x.inst = "ECALL" /\ CallOf(x) = call /\ call.then # "ok"
  BY DEF CallOf
<1>2. /\ out' = out \o call.print /\ status' = call.then /\ stage = "EX" /\ status = "running"
      /\ UNCHANGED <<prog, branch_strat, reg, mem, pipe, signals, cnt, stage>>
  BY <1>1 DEF EX, Here
<1>3. UNCHANGED <<ArchPC, ArchReg, ArchMem, ArchInstructions, ArchBranches>>
  BY <1>2, SamePlace
<1>4. /\ ArchMem = mem /\ ArchStatus = "running" /\ ArchPC = x.pc /\ Fetchable(prog, ArchPC)
      /\ ~ BadM(Mreg.cur) /\ Mreg.upd.inst = "BUBBLE"
  BY <1>1, <1>2, BeforeEX DEF ReadyForEX
<1>5. DecodedFrom(x) /\ Operands(x, ArchReg)
  BY <1>1, <1>2 DEF ReadyForEX, EFromText, EOperands, Executed
<1>6. i.op = "ECALL" /\ x.valA = ArchReg[REG_A0] /\ x.valB = ArchReg[REG_A7]
  <2>1. /\ x.inst = i.op
        /\ i.op = "ECALL" => x.valA = ArchReg[REG_A0] /\ x.valB = ArchReg[REG_A7]
    BY <1>5, OperandsOf DEF ReadyForEX
  <2> QED BY <1>1, <2>1
<1>7. call.then \in {"exit", "fault", "cut"}
  BY <1>1, CallType
<1>8. ArchStatus' = call.then
  <2>1. OwnEnd'
    BY <1>2, <1>7 DEF OwnEnd
  <2>2. ~ BadM(Mreg.cur)' /\ ~ BadM(Mreg.upd)'
    BY <1>2, <1>4 DEF BadM, pipe
  <2> QED BY <1>2, <2>1, <2>2 DEF ArchStatus
<1>9. Sequential!Inst = i /\ Sequential!Running({"ECALL"})
  BY <1>4, <1>6, SameOperators DEF Sequential!Inst, Sequential!Running
<1> HIDE DEF x, i, call
<1>10. call = Syscall(ArchMem, ArchReg[REG_A0], ArchReg[REG_A7])
  BY <1>4, <1>6 DEF call
<1> QED BY <1>1, <1>2, <1>3, <1>8, <1>9, <1>10, SameOperators
      DEF Sequential!Next, Sequential!Exit, Sequential!Stop

\* A bubble in EX executes nothing.
LEMMA BubbleStutters ==
  ASSUME Types, NothingExecuted, EX, Ereg.cur.inst = "BUBBLE"
  PROVE  UNCHANGED Arch
<1>1. /\ stage = "EX" /\ stage' = "ID" /\ e' = NoSignals /\ Mreg' = [Mreg EXCEPT !.upd = NoM]
      /\ UNCHANGED <<prog, machine, Freg, Dreg, Ereg, Wreg, cnt, status>>
  BY DEF EX, Here, GoOn
<1>2. Mreg'.cur = Mreg.cur /\ Mreg'.upd = NoM
  BY <1>1 DEF Types
<1>3. Mreg.upd.inst = "BUBBLE" /\ Mreg'.upd.inst = "BUBBLE"
  BY <1>1, <1>2 DEF NothingExecuted, NoM
<1>4. ~ BadM(Mreg.upd) /\ ~ BadM(Mreg'.upd)
  BY <1>3 DEF BadM
<1>5. ArchMem' = ArchMem
  BY <1>1, <1>2, <1>3, BubbleHasNoEffect DEF ArchMem, machine
<1>6. ArchReg' = ArchReg
  BY <1>1, <1>2, <1>3, BubbleHasNoEffect DEF ArchReg, machine
<1>7. NotExecutedPC' = NotExecutedPC
  BY <1>1, <1>2 DEF NotExecutedPC, Executed, NoSignals
<1>8. ArchPC' = ArchPC
  BY <1>1, <1>2, <1>4, <1>7 DEF ArchPC, RawPC
<1>9. ArchInstructions' = ArchInstructions /\ ArchBranches' = ArchBranches
  BY <1>1, <1>2, <1>3 DEF ArchInstructions, ArchBranches, One, Executed, NoSignals
<1>10. ArchStatus' = ArchStatus
  BY <1>1, <1>2, <1>4, <1>8 DEF ArchStatus, OwnEnd
<1> QED BY <1>1, <1>5, <1>6, <1>8, <1>9, <1>10 DEF Arch, machine

-----------------------------------------------------------------------------
(* The other stages execute none.                                          *)

\* A process that ends in ID or in IF ends as the program does, or where the
\* program goes on.
LEMMA EndImplements ==
  ASSUME NEW why \in {"illegal", "fetch"}, status = "running", End(why)
  PROVE  Sequential!Next \/ UNCHANGED <<prog, Arch>>
<1>1. /\ status' = why /\ UNCHANGED <<prog, reg, mem, out, pipe, signals, cnt, stage>>
  BY DEF End, machine
<1>2. UNCHANGED <<ArchPC, ArchReg, ArchMem, ArchInstructions, ArchBranches>>
  BY <1>1, SamePlace
<1>3. OwnEnd
  BY DEF OwnEnd
<1>4. CASE BadM(Mreg.cur) \/ BadM(Mreg.upd)
  <2>1. ArchStatus' = ArchStatus
    BY <1>1, <1>4 DEF ArchStatus, pipe
  <2> QED BY <1>1, <1>2, <2>1 DEF Arch
<1>5. CASE ~ (BadM(Mreg.cur) \/ BadM(Mreg.upd))
  <2>1. ArchStatus = "running" /\ ArchStatus' = IF OwnEnd' THEN why ELSE "running"
    BY <1>1, <1>3, <1>5 DEF ArchStatus, pipe
  <2>2. CASE ~ OwnEnd'
    BY <1>1, <1>2, <2>1, <2>2 DEF Arch
  <2>3. CASE OwnEnd' /\ why = "fetch"
    <3>1. ~ Fetchable(prog, ArchPC)
      BY <1>1, <1>2, <2>3 DEF OwnEnd
    <3> QED BY <1>1, <1>2, <2>1, <2>3, <3>1, SameOperators
          DEF Sequential!Next, Sequential!FetchFault, Sequential!Stop
  <2>4. CASE OwnEnd' /\ why = "illegal"
    <3>1. Fetchable(prog, ArchPC) /\ prog[ArchPC].op = "ILLEGAL"
      BY <1>1, <1>2, <2>4 DEF OwnEnd
    <3> QED BY <1>1, <1>2, <2>1, <2>4, <3>1, SameOperators
          DEF Sequential!Next, Sequential!Illegal, Sequential!Stop, Sequential!Running, Sequential!Inst
  <2> QED BY <2>2, <2>3, <2>4
<1> QED BY <1>4, <1>5

\* ID moves no instruction across EX.
LEMMA IDImplements ==
  ASSUME Types, ID
  PROVE  Sequential!Next \/ UNCHANGED <<prog, Arch>>
<1>1. CASE Dreg.cur.inst.op = "ILLEGAL" /\ End("illegal")
  BY <1>1, EndImplements DEF ID, Here
<1>2. CASE ~ (Dreg.cur.inst.op = "ILLEGAL" /\ End("illegal"))
  <2>1. /\ stage = "ID" /\ stage' = "IF" /\ UNCHANGED <<prog, machine, Dreg, Freg, Mreg, Wreg, e, cnt, status>>
    BY <1>2 DEF ID, Here, GoOn
  <2>2. Ereg'.cur = Ereg.cur
    BY <1>2 DEF ID, Types
  <2> QED BY <2>1, <2>2, ArchDepends DEF Executed, machine
<1> QED BY <1>1, <1>2

\* IF moves no instruction across EX.
LEMMA IFImplements ==
  ASSUME Types, IF_
  PROVE  Sequential!Next \/ UNCHANGED <<prog, Arch>>
<1>1. CASE ~ Fetchable(prog, FetchPC)
  BY <1>1, EndImplements DEF IF_, Here
<1>2. CASE Fetchable(prog, FetchPC)
  <2>1. /\ stage = "IF" /\ stage' = "Tick" /\ UNCHANGED <<prog, machine, Ereg, Mreg, Wreg, signals, status>>
    BY <1>2 DEF IF_, Here, GoOn
  <2>2. Freg'.cur = Freg.cur /\ Dreg'.cur = Dreg.cur
    BY <1>2 DEF IF_, Types
  <2>3. cnt' = [cnt EXCEPT !.cache_cnt = @ + 1]
    BY <1>2 DEF IF_
  <2>4. cnt'.inst_cnt = cnt.inst_cnt /\ cnt'.correct_predict = cnt.correct_predict /\ cnt'.mispredict = cnt.mispredict
    BY <2>3 DEF Types, CType
  <2> QED BY <2>1, <2>2, <2>4, ArchDepends DEF Executed, machine, signals
<1> QED BY <1>1, <1>2

\* What a jump in D waits for is not a load in E, in the programs considered.
LEMMA NoJumpWaits ==
  ASSUME Types, Control, NoLoadIntoJump, EFromText, DFromText, HandedToEX, stage = "Tick", LoadUse
  PROVE  ~ JumpInD
<1> DEFINE x == Ereg.cur
           i == Dreg.cur.inst
<1> SUFFICES ASSUME i.op \in Jumps PROVE FALSE
  BY DEF JumpInD
<1>1. x.inst = "LBU" /\ x.destreg # REG_ZERO /\ x.destreg \in {d.reg1, d.reg2}
  BY DEF LoadUse
<1>2. i # ZeroWord
  BY DEF ZeroWord, Jumps
<1>3. x.pc \in PCs /\ prog[x.pc].op = "LBU" /\ x.destreg = prog[x.pc].rd /\ ~ x.take_branch
  BY <1>1 DEF EFromText, DecodedFrom, Dest, Branches
<1>4. Dreg.cur.pc = Wrap(x.pc + 4) /\ Dreg.cur.pc \in PCs /\ i = prog[Dreg.cur.pc]
  BY <1>1, <1>2, <1>3 DEF Control, DecodedBehind, Jumps, DFromText
<1>5. Wrap(x.pc + 4) = x.pc + 4
  BY <1>3, NextAddress
<1>6. d.reg1 = Reg1(i) /\ d.reg2 = Reg2(i)
  BY <1>2 DEF HandedToEX, Decoded
<1>7. i.op \in {"JAL", "JALR"} /\ Reg2(i) = -1 /\ Reg1(i) = IF i.op = "JALR" THEN i.rs1 ELSE -1
  BY DEF Jumps, Reg1, Reg2, Branches
<1>8. x.destreg \in Reg /\ x.destreg # -1
  BY <1>1, ConstantsOK DEF Types, EFields, Writers
<1>9. i.op = "JALR" /\ i.rs1 = x.destreg
  BY <1>1, <1>6, <1>7, <1>8
<1> QED BY <1>1, <1>3, <1>4, <1>5, <1>9 DEF NoLoadIntoJump

\* What the fetch brought in is the next instruction, or a word of zeros in
\* front of it.
LEMMA FetchedIsNext ==
  ASSUME Types, Control, stage = "Tick"
  PROVE  NextInstruction(prog, IF Dreg.upd.inst # ZeroWord THEN Dreg.upd.pc ELSE Freg.upd.predPC)
         = NextInstruction(prog, FetchPC)
<1>1. Dreg.upd.pc = FetchPC
  BY DEF Control, AfterIF
<1>2. CASE Dreg.upd.inst = ZeroWord
  BY <1>2, FetchedZero, SkipZero DEF Types
<1> QED BY <1>1, <1>2

\* The end of a cycle, for where the program goes on: no instruction is lost,
\* repeated or taken from a path that is not taken (simulation.cpp:249-297).
LEMMA TickKeepsPlace ==
  ASSUME Types, Control, NoLoadIntoJump, EFromText, DFromText, HandedToEX, HandedToWB, HandedToMEM, Tick
  PROVE  ArchPC' = ArchPC /\ ArchStatus' = ArchStatus
<1>1. /\ stage = "Tick" /\ stage' = "WB" /\ UNCHANGED prog
      /\ Freg'.cur = IF StallF THEN Freg.cur ELSE Freg.upd
      /\ BubbleD => Dreg'.cur.inst = ZeroWord
      /\ ~ BubbleD => Dreg'.cur = IF StallD THEN Dreg.cur ELSE Dreg.upd
      /\ BubbleE => Ereg'.cur.inst = "BUBBLE"
      /\ ~ BubbleE => Ereg'.cur = Ereg.upd
      /\ Mreg'.cur = Mreg.upd /\ Mreg'.upd.inst = "BUBBLE"
  BY TickLeaves
<1>2. status = "running" /\ status' = "running"
  BY DEF Tick, Here, GoOn
<1>3. ~ BadM(Mreg.cur) /\ ~ BadM(Mreg'.upd)
  BY <1>1 DEF HandedToWB, BadM
<1>4. /\ e.isJ <=> Ereg.cur.inst \in Jumps
      /\ e.Bwrong => Ereg.cur.inst \in Branches
      /\ Mreg.upd.M_Bwrong = e.Bwrong
      /\ e.Bwrong => Mreg.upd.M_calcPC = e.calcPC
      /\ WrongInE <=> e.Bwrong
  BY <1>1 DEF Control, AfterEX, HandedToMEM, Executed, WrongInE
<1>5. /\ Ereg.upd.inst = Dreg.cur.inst.op
      /\ Dreg.cur.inst = ZeroWord => d.reg1 = -1 /\ d.reg2 = -1
      /\ Dreg.cur.inst # ZeroWord => Ereg.upd.pc = Dreg.cur.pc
  BY <1>1 DEF Control, AfterID, Decoded
<1>6. /\ Mreg.cur.M_Bwrong => Ereg.cur.inst = "BUBBLE" /\ Dreg.cur.inst = ZeroWord
      /\ Ereg.cur.inst \in Jumps => Dreg.cur.inst = ZeroWord
  BY DEF Control, NothingBehind
<1>7. NotExecutedPC = IF e.isJ \/ e.Bwrong THEN e.calcPC
                      ELSE IF Mreg.cur.M_Bwrong THEN Mreg.cur.M_calcPC
                      ELSE IF Dreg.cur.inst # ZeroWord THEN Dreg.cur.pc ELSE Freg.cur.predPC
  BY <1>1 DEF NotExecutedPC, Executed
<1>8. NotExecutedPC' = IF Ereg'.cur.inst # "BUBBLE" THEN Ereg'.cur.pc
                       ELSE IF e.Bwrong THEN Mreg.upd.M_calcPC
                       ELSE IF Dreg'.cur.inst # ZeroWord THEN Dreg'.cur.pc ELSE Freg'.cur.predPC
  BY <1>1, <1>4 DEF NotExecutedPC, Executed
<1>9. NextInstruction(prog, NotExecutedPC') = NextInstruction(prog, NotExecutedPC)
  <2>1. CASE e.Bwrong
    <3>1. Ereg'.cur.inst = "BUBBLE"
      BY <1>1, <1>4, <2>1 DEF BubbleE
    <3> QED BY <1>4, <1>7, <1>8, <2>1, <3>1
  <2>2. CASE ~ e.Bwrong /\ Dreg.cur.inst # ZeroWord
    <3>1. ~ e.isJ /\ ~ Mreg.cur.M_Bwrong
      BY <1>4, <1>6, <2>2
    <3>2. NotExecutedPC = Dreg.cur.pc
      BY <1>7, <2>2, <3>1
    <3>3. CASE LoadUse
      <4>1. ~ BubbleD /\ BubbleE /\ StallD
        BY <1>1, <1>4, <2>2, <3>3, NoJumpWaits DEF BubbleD, BubbleE, StallD
      <4> QED BY <1>1, <1>8, <2>2, <3>2, <4>1
    <3>4. CASE ~ LoadUse
      <4>1. ~ BubbleE
        BY <1>4, <2>2, <3>4 DEF BubbleE
      <4>2. Dreg.cur.inst.op # "BUBBLE"
        BY <2>2, DecodeType DEF Types, DType
      <4> QED BY <1>1, <1>5, <1>8, <2>2, <3>2, <4>1, <4>2
    <3> QED BY <3>3, <3>4
  <2>3. CASE ~ e.Bwrong /\ Dreg.cur.inst = ZeroWord
    <3>1. NotExecutedPC = FetchPC
      <4>1. e.isJ => ~ Mreg.cur.M_Bwrong
        BY <1>4, <1>6 DEF Jumps
      <4> QED BY <1>7, <2>3, <4>1 DEF FetchPC
    <3>2. ~ JumpInD /\ ~ WrongInE
      BY <1>4, <2>3 DEF JumpInD, ZeroWord, Jumps
    <3>3. ~ LoadUse
      <4>1. Ereg.cur.inst = "LBU" => Ereg.cur.destreg \in Reg /\ Ereg.cur.destreg # -1
        BY ConstantsOK DEF Types, EFields, Writers
      <4> QED BY <1>5, <2>3, <4>1 DEF LoadUse
    <3>4. Dreg'.cur = Dreg.upd /\ Freg'.cur = Freg.upd /\ Ereg'.cur = Ereg.upd
      BY <1>1, <3>2, <3>3 DEF BubbleD, BubbleE, StallD, StallF
    <3>5. Ereg'.cur.inst = "BUBBLE"
      BY <1>5, <2>3, <3>4 DEF ZeroWord
    <3>6. NotExecutedPC' = IF Dreg.upd.inst # ZeroWord THEN Dreg.upd.pc ELSE Freg.upd.predPC
      BY <1>8, <2>3, <3>4, <3>5
    <3> QED BY <1>1, <3>1, <3>6, FetchedIsNext
  <2> QED BY <2>1, <2>2, <2>3
<1>10. ArchPC' = ArchPC
  BY <1>1, <1>3, <1>9 DEF ArchPC, RawPC
<1>11. ArchStatus' = ArchStatus
  BY <1>1, <1>2, <1>3 DEF ArchStatus, OwnEnd
<1> QED BY <1>10, <1>11

\* Every step of the pipeline is one of the sequential machine or leaves it alone.
LEMMA NextImplements ==
  Types /\ Control /\ NothingExecuted /\ DataFlow /\ NoLoadIntoJump /\ [Next]_vars
    => [Sequential!Next]_(Sequential!vars)
<1> SUFFICES ASSUME Types, Control, NothingExecuted, DataFlow, NoLoadIntoJump, [Next]_vars
    PROVE  Sequential!Next \/ UNCHANGED <<prog, Arch>>
  BY DEF Sequential!vars, Sequential!state, Arch
<1>1. CASE UNCHANGED vars
  <2>1. /\ UNCHANGED <<prog, reg, mem, out, pipe, signals, cnt, stage, status>>
    BY <1>1 DEF vars, machine
  <2> QED BY <2>1, ArchDepends DEF Executed, pipe, signals
<1>2. CASE WB
  BY <1>2, WBStutters DEF WB, GoOn, DataFlow
<1>3. CASE MEM
  BY <1>3, MEMStutters DEF MEM, GoOn, End
<1>4. CASE EX
  <2>1. ReadyForEX
    BY DEF ReadyForEX, DataFlow
  <2>2. CASE Ereg.cur.inst = "BUBBLE"
    BY <1>4, <2>2, BubbleStutters DEF EX, GoOn
  <2> QED BY <1>4, <2>1, <2>2, ExecutionImplements, ExitImplements
<1>5. CASE ID
  BY <1>5, IDImplements
<1>6. CASE IF_
  BY <1>6, IFImplements
<1>7. CASE Tick
  BY <1>7, TickKeepsEffects, TickKeepsPlace DEF DataFlow, Arch
<1> QED BY <1>1, <1>2, <1>3, <1>4, <1>5, <1>6, <1>7 DEF Next

\* For every program that obeys NoLoadIntoJump, every memory, strategy and width, the
\* pipeline does what the sequential machine does: it executes the same instructions
\* in the same order with the same effects on registers and memory, prints the same
\* and counts the same instructions and branches (simulation.cpp:224-301).
THEOREM PipelineImplements == Spec /\ NoLoadIntoJump => SequentialSpec
<1>1. Init => Sequential!Init
  BY InitImplements
<1>2. Types /\ Control /\ NothingExecuted /\ DataFlow /\ NoLoadIntoJump /\ [Next]_vars
        => [Sequential!Next]_(Sequential!vars)
  BY NextImplements
<1>3. NoLoadIntoJump /\ [Next]_vars => NoLoadIntoJump'
  BY DEF NoLoadIntoJump, Next, WB, MEM, EX, ID, IF_, Tick, GoOn, End, vars
<1>4. Counting => NothingExecuted
  BY DEF Counting
<1> QED
  BY <1>1, <1>2, <1>3, <1>4, ControlInvariant, CountingInvariant, DataFlowInvariant, PTL
     DEF Spec, SequentialSpec, Sequential!Spec

-----------------------------------------------------------------------------
(* Where the process ends.                                                 *)

\* The addresses the fetch may go on at behind the instruction at pc, before a jump
\* has been executed.
Successors(pc) ==
  {pc + 4} \cup (IF prog[pc].op \in Branches THEN {Wrap(pc + prog[pc].imm)} ELSE {})

\* The instructions behind which one may be decoded, and the one after it fetched,
\* that is never reached: a branch may be predicted wrongly, and the access of a load
\* or a store may end the process in MEM.
Shadowing == Branches \cup {"LBU", "SB"}

\* The programs in which the fetch meets code in the shadow of every instruction: each
\* one has code behind it, and what may be decoded without being reached is no illegal
\* instruction.  Without this the process may end in the shadow of a branch on what
\* it would never have reached (simulation.cpp:346-371, 483); the run PipelineShadow
\* finds that.
ShadowIsCode ==
  \A pc \in PCs : prog[pc] # ZeroWord /\ prog[pc].op # "ILLEGAL" =>
    \A s \in Successors(pc) :
      /\ s \in PCs
      /\ prog[pc].op \in Shadowing =>
           prog[s].op # "ILLEGAL" /\ (prog[s] = ZeroWord => s + 4 \in PCs)

\* What follows the instruction in E is one of its successors.
LEMMA PredictsSuccessor ==
  ASSUME Types, NEW x, DecodedFrom(x), x.inst \notin Jumps
  PROVE  Predicts(x) \in Successors(x.pc)
<1>1. x.pc \in PCs /\ x.inst = prog[x.pc].op /\ Wrap(x.pc + 4) = x.pc + 4
  BY NextAddress DEF DecodedFrom
<1>2. x.take_branch => x.inst \in Branches /\ x.offset = prog[x.pc].imm
  BY DEF DecodedFrom
<1> QED BY <1>1, <1>2 DEF Predicts, Successors

\* Nothing older than D is left to execute, unless the one in E shadows it.
LEMMA NothingOlder ==
  ASSUME Types, Control, DataFlow, stage \in {"ID", "IF"}, Ereg.cur.inst \notin Shadowing
  PROVE  ~ e.Bwrong /\ ~ BadM(Mreg.cur) /\ ~ BadM(Mreg.upd)
<1>1. ~ e.Bwrong /\ Mreg.upd.inst = Ereg.cur.inst
  BY DEF Control, AfterEX, Executed, Shadowing
<1>2. Mreg.upd.inst # "BUBBLE" =>
        (Mreg.upd.mem_read <=> Mreg.upd.inst = "LBU") /\ (Mreg.upd.mem_write <=> Mreg.upd.inst = "SB")
  BY DEF DataFlow, HandedToMEM, Executed
<1>3. ~ BadM(Mreg.cur)
  BY DEF DataFlow, HandedToWB
<1> QED BY <1>1, <1>2, <1>3 DEF BadM, Shadowing

\* ID finds no instruction only where the program goes on.
LEMMA EndsInID ==
  ASSUME Types, Control, DataFlow, ShadowIsCode, stage = "ID", Dreg.cur.inst.op = "ILLEGAL"
  PROVE  Fetchable(prog, ArchPC) /\ prog[ArchPC].op = "ILLEGAL"
<1>1. Dreg.cur.inst # ZeroWord
  BY DEF ZeroWord
<1>2. Dreg.cur.pc \in PCs /\ Dreg.cur.inst = prog[Dreg.cur.pc]
  BY <1>1 DEF DataFlow, DFromText
<1>3. ~ Mreg.cur.M_Bwrong /\ Ereg.cur.inst \notin Jumps /\ ~ e.isJ
  BY <1>1 DEF Control, NothingBehind, AfterEX, Executed
<1>4. Ereg.cur.inst \notin Shadowing
  <2>1. SUFFICES ASSUME Ereg.cur.inst \in Shadowing PROVE FALSE
    OBVIOUS
  <2>2. Ereg.cur.inst # "BUBBLE"
    BY <2>1 DEF Shadowing, Branches
  <2>3. DecodedFrom(Ereg.cur) /\ Dreg.cur.pc = Predicts(Ereg.cur)
    BY <1>1, <1>3, <2>2 DEF DataFlow, EFromText, Continues
  <2>4. /\ Ereg.cur.pc \in PCs /\ prog[Ereg.cur.pc] # ZeroWord /\ prog[Ereg.cur.pc].op # "ILLEGAL"
        /\ Ereg.cur.inst = prog[Ereg.cur.pc].op
    BY <2>3 DEF DecodedFrom
  <2> QED BY <1>2, <1>3, <2>1, <2>3, <2>4, PredictsSuccessor DEF ShadowIsCode
<1>5. RawPC = Dreg.cur.pc
  BY <1>1, <1>3, <1>4, NothingOlder DEF RawPC, NotExecutedPC, Executed
<1> QED BY <1>1, <1>2, <1>5 DEF ArchPC, NextInstruction, Fetchable, Types

\* IF finds no code only where the program goes on.
LEMMA EndsInIF ==
  ASSUME Types, Control, DataFlow, ShadowIsCode, stage = "IF", ~ Fetchable(prog, FetchPC)
  PROVE  ~ Fetchable(prog, ArchPC)
<1>1. FetchPC \notin PCs
  BY DEF Fetchable, Types
<1>2. /\ e.isJ <=> Ereg.cur.inst \in Jumps
      /\ Mreg.cur.M_Bwrong => Ereg.cur.inst = "BUBBLE" /\ Dreg.cur.inst = ZeroWord
      /\ Dreg.cur.inst # ZeroWord => Ereg.cur.inst \notin Jumps
  BY DEF Control, NothingBehind, AfterEX, Executed
<1>3. ASSUME ~ Mreg.cur.M_Bwrong, ~ e.isJ
      PROVE  FetchPC = Freg.cur.predPC /\ Dreg.cur.inst = ZeroWord
  <2>1. FetchPC = Freg.cur.predPC
    BY <1>3 DEF FetchPC
  <2>2. ASSUME Dreg.cur.inst # ZeroWord PROVE FALSE
    <3>1. /\ Dreg.cur.pc \in PCs /\ Dreg.cur.inst = prog[Dreg.cur.pc]
          /\ WellFetched(Dreg.cur, Freg.cur) /\ Ereg.upd.pc = Dreg.cur.pc /\ DecodedFrom(Ereg.upd)
      BY <2>2 DEF DataFlow, DFromText, HandedToEX, Decoded, Control, FetchedBehind
    <3>2. prog[Dreg.cur.pc].op # "ILLEGAL"
      BY <3>1 DEF DecodedFrom
    <3>3. Wrap(Dreg.cur.pc + 4) = Dreg.cur.pc + 4
      BY <3>1, NextAddress
    <3>4. Freg.cur.predPC \in Successors(Dreg.cur.pc)
      BY <3>1, <3>3 DEF WellFetched, Predicted, Successors
    <3> QED BY <1>1, <2>1, <2>2, <3>1, <3>2, <3>4 DEF ShadowIsCode
  <2> QED BY <2>1, <2>2
<1>4. Ereg.cur.inst \notin Shadowing
  <2>1. SUFFICES ASSUME Ereg.cur.inst \in Shadowing PROVE FALSE
    OBVIOUS
  <2>2. Ereg.cur.inst \notin Jumps \cup {"BUBBLE"}
    BY <2>1 DEF Shadowing, Branches, Jumps
  <2>3. FetchPC = Freg.cur.predPC /\ Dreg.cur.inst = ZeroWord
    BY <1>2, <1>3, <2>2
  <2> DEFINE s == Predicts(Ereg.cur)
  <2>4. DecodedFrom(Ereg.cur) /\ s \in PCs /\ prog[s] = ZeroWord /\ Freg.cur.predPC = Wrap(s + 4)
    BY <2>2, <2>3 DEF DataFlow, EFromText, Continues
  <2>5. /\ Ereg.cur.pc \in PCs /\ prog[Ereg.cur.pc] # ZeroWord /\ prog[Ereg.cur.pc].op # "ILLEGAL"
        /\ Ereg.cur.inst = prog[Ereg.cur.pc].op
    BY <2>4 DEF DecodedFrom
  <2>6. s \in Successors(Ereg.cur.pc) /\ Wrap(s + 4) = s + 4
    BY <2>2, <2>4, PredictsSuccessor, NextAddress
  <2> QED BY <1>1, <2>1, <2>3, <2>4, <2>5, <2>6 DEF ShadowIsCode
<1>5. ~ e.Bwrong /\ ~ BadM(Mreg.cur) /\ ~ BadM(Mreg.upd)
  BY <1>4, NothingOlder
<1>6. NotExecutedPC = FetchPC
  <2>1. CASE Mreg.cur.M_Bwrong
    BY <1>2, <1>5, <2>1 DEF NotExecutedPC, FetchPC, Executed, Jumps
  <2>2. CASE ~ Mreg.cur.M_Bwrong /\ e.isJ
    BY <2>2 DEF NotExecutedPC, FetchPC, Executed
  <2>3. CASE ~ Mreg.cur.M_Bwrong /\ ~ e.isJ
    BY <1>3, <1>5, <2>3 DEF NotExecutedPC, Executed
  <2> QED BY <2>1, <2>2, <2>3
<1>7. ArchPC = FetchPC
  BY <1>1, <1>5, <1>6 DEF ArchPC, RawPC, NextInstruction, Fetchable
<1> QED BY <1>7

\* Every step keeps an end the program's own, and makes only such ends.
LEMMA NextOwnEnd ==
  Types /\ Control /\ DataFlow /\ ShadowIsCode /\ OwnEnd /\ [Next]_vars => OwnEnd'
<1> SUFFICES ASSUME Types, Control, DataFlow, ShadowIsCode, OwnEnd, [Next]_vars PROVE OwnEnd'
  OBVIOUS
<1>1. CASE UNCHANGED vars
  <2>1. UNCHANGED <<prog, reg, mem, pipe, signals, cnt, stage, status>>
    BY <1>1 DEF vars, machine
  <2> QED BY <2>1, SamePlace DEF OwnEnd
<1>2. CASE WB \/ Tick
  BY <1>2 DEF WB, Tick, GoOn, Here, OwnEnd
<1>3. CASE MEM
  <2>1. status' \in {"running", "fault", "cut"} \/ status' = "ok"
    BY <1>3 DEF MEM, GoOn, Here, End, Access
  <2> QED BY <2>1 DEF OwnEnd
<1>4. CASE EX
  <2> DEFINE then == CallOf(Ereg.cur).then
  <2>1. status = "running" /\ (status' = status \/ status' = then)
    BY <1>4 DEF EX, CallOf, GoOn, Here
  <2>2. then \in {"ok", "exit", "fault", "cut"}
    BY CallType DEF CallOf
  <2>3. status' \notin {"fetch", "illegal"}
    BY <2>1, <2>2
  <2> QED BY <2>3 DEF OwnEnd
<1>5. CASE ID
  <2>1. CASE status' = status
    BY <1>5, <2>1 DEF ID, Here, OwnEnd
  <2>2. CASE status' # status
    <3>1. End("illegal") /\ Dreg.cur.inst.op = "ILLEGAL" /\ stage = "ID"
      BY <1>5, <2>2 DEF ID, GoOn, Here
    <3>2. UNCHANGED <<prog, reg, mem, pipe, signals, cnt, stage>> /\ status' = "illegal"
      BY <3>1 DEF End, machine
    <3> QED BY <3>1, <3>2, EndsInID, SamePlace DEF OwnEnd
  <2> QED BY <2>1, <2>2
<1>6. CASE IF_
  <2>1. CASE status' = status
    BY <1>6, <2>1 DEF IF_, Here, OwnEnd
  <2>2. CASE status' # status
    <3>1. End("fetch") /\ ~ Fetchable(prog, FetchPC) /\ stage = "IF"
      BY <1>6, <2>2 DEF IF_, GoOn, Here
    <3>2. UNCHANGED <<prog, reg, mem, pipe, signals, cnt, stage>> /\ status' = "fetch"
      BY <3>1 DEF End, machine
    <3> QED BY <3>1, <3>2, EndsInIF, SamePlace DEF OwnEnd, Fetchable
  <2> QED BY <2>1, <2>2
<1> QED BY <1>1, <1>2, <1>3, <1>4, <1>5, <1>6 DEF Next

\* For every program that obeys ShadowIsCode, a process that ends in ID or IF has
\* come to where the program itself ends (simulation.cpp:346-371, 483).
THEOREM EndsAsTheProgram == Spec /\ ShadowIsCode => []NoSpuriousEnd
<1>1. Init => OwnEnd
  BY DEF Init, OwnEnd
<1>2. Types /\ Control /\ DataFlow /\ ShadowIsCode /\ OwnEnd /\ [Next]_vars => OwnEnd'
  BY NextOwnEnd
<1>3. ShadowIsCode /\ [Next]_vars => ShadowIsCode'
  BY DEF ShadowIsCode, Successors, Next, WB, MEM, EX, ID, IF_, Tick, GoOn, End, vars
<1> QED BY <1>1, <1>2, <1>3, ControlInvariant, DataFlowInvariant, PTL DEF Spec, NoSpuriousEnd
=============================================================================
