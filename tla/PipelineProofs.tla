--------------------------- MODULE PipelineProofs ---------------------------
(***************************************************************************)
(* What holds of the pipeline for every program, strategy, width, set of   *)
(* registers and memory: its types, how it redirects and follows the       *)
(* fetch, and how its counters account for its cycles.                     *)
(*                                                                         *)
(* Every action is one call of a stage, so an invariant between two cycles *)
(* needs to say what the stages of the current one have left for the rest  *)
(* of it: what EX has put into M and into its signals (AfterEX), ID into E *)
(* (AfterID), IF into D and F (AfterIF).                                   *)
(***************************************************************************)
EXTENDS PipelineRefinement, TLAPS, WellFoundedInduction

(* Types: TypeOK with every field, and what relates fields of one register. *)

Dest_ == Reg \cup {-1}
Signed_ == -WordMod .. WordMod

FType == [predPC : Word]
DType == [pc : Word, inst : Instruction, PCnottaken : Word, take_branch : BOOLEAN]
EType == [pc : Word, inst : Ops \cup {"BUBBLE"}, destreg : Dest_, valA : Signed_, valB : Signed_,
          offset : Signed_, PCnottaken : Word, take_branch : BOOLEAN]
MType == [pc : Word, inst : Ops \cup {"BUBBLE"}, valB : Signed_, valE : Word, destReg : Dest_,
          reg_write : BOOLEAN, mem_write : BOOLEAN, mem_read : BOOLEAN,
          M_Bwrong : BOOLEAN, M_calcPC : Word]
WType == [pc : Word, inst : Ops \cup {"BUBBLE"}, valM : Word, reg_write : BOOLEAN, destReg : Dest_]
SType == [isJ : BOOLEAN, Bwrong : BOOLEAN, reg_write : BOOLEAN, valE : Word, calcPC : Word]
CType == [pipeline_cycle_cnt : Nat, inst_cnt : Nat, cache_cnt : Nat, correct_predict : Nat,
          mispredict : Nat, cnt_j : Nat, control_cnt : Nat, loaduse_cnt : Nat]

Writers == {"ADDI", "ADD", "LBU"} \cup Jumps

\* An instruction that writes a register has one; one that stores has a byte; a
\* call's argument comes from a register.
EFields(x) ==
  /\ x.inst \in Writers => x.destreg \in Reg
  /\ x.inst = "ECALL" => x.valA \in Word
MFields(c) ==
  /\ c.reg_write => c.destReg \in Reg
  /\ ~ (c.mem_read /\ c.mem_write)
  /\ c.mem_write => c.valB \in Byte
WFields(w) == w.reg_write => w.destReg \in Reg

Types ==
  /\ prog \in [PCs -> Instruction] /\ branch_strat \in Strategies
  /\ reg \in [Reg -> Word] /\ mem \in [Data -> Byte]
  /\ Freg \in [cur : FType, upd : FType]
  /\ Dreg \in [cur : DType, upd : DType]
  /\ Ereg \in [cur : EType, upd : EType] /\ EFields(Ereg.cur) /\ EFields(Ereg.upd)
  /\ Mreg \in [cur : MType, upd : MType] /\ MFields(Mreg.cur) /\ MFields(Mreg.upd)
  /\ Wreg \in [cur : WType, upd : WType] /\ WFields(Wreg.cur) /\ WFields(Wreg.upd)
  /\ e \in SType
  /\ m \in [reg_write : BOOLEAN, valM : Word]
  /\ d \in [reg1 : Dest_, reg2 : Dest_]
  /\ cnt \in CType
  /\ stage \in {"WB", "MEM", "EX", "ID", "IF", "Tick"}
  /\ status \in {"running", "exit", "illegal", "fetch", "fault", "cut"}

\* What the assumptions on the constants say of the sets the types are made of.
LEMMA ConstantsOK ==
  /\ WordMod \in Nat \ {0} /\ ByteMod \in Nat \ {0} /\ Byte \subseteq Word
  /\ Word \subseteq Signed_ /\ Word \subseteq Nat /\ Signed_ \subseteq Int
  /\ 0 \in Word /\ 0 \in Byte /\ WordMod - 1 \in Word /\ CodeStart \in Word
  /\ Reg \subseteq Nat /\ REG_ZERO \in Reg /\ REG_A0 \in Reg /\ REG_A7 \in Reg
  /\ Data \subseteq Word /\ PCs \subseteq Word /\ StackStart \in Word
  /\ Programs \subseteq [PCs -> Instruction] /\ Memories \subseteq [Data -> Byte]
  /\ MaxCycles \in Nat
<1>1. WordMod \in Nat \ {0} /\ ByteMod \in Nat \ {0} /\ ByteMod <= WordMod
  BY InstructionsAssumption
<1>2. Byte \subseteq Word /\ Word \subseteq Signed_ /\ Word \subseteq Nat /\ Signed_ \subseteq Int
  BY <1>1 DEF Word, Byte, Signed_
<1>3. 0 \in Word /\ 0 \in Byte /\ WordMod - 1 \in Word
  BY <1>1 DEF Word, Byte
<1>4. CodeStart \in Word /\ PCs \subseteq Word
  BY <1>1, InstructionsAssumption DEF Word, PCs, Code
<1> QED
  BY <1>1, <1>2, <1>3, <1>4, InstructionsAssumption, PipelineAssumption

\* Wrap gives a word, and so does what EX makes of one with bit 0 cleared.
LEMMA WrapType ==
  ASSUME NEW x \in Int
  PROVE  Wrap(x) \in Word /\ (Wrap(x) \div 2) * 2 \in Word
<1>1. WordMod \in Nat \ {0}
  BY ConstantsOK
<1>2. Wrap(x) \in 0 .. WordMod - 1
  BY <1>1 DEF Wrap
<1> QED BY <1>1, <1>2 DEF Word

\* What the code calls a bubble has its type in every register.
LEMMA NothingTypes ==
  /\ NoF \in FType /\ NoD \in DType /\ NoE \in EType /\ NoM \in MType /\ NoW \in WType
  /\ EFields(NoE) /\ MFields(NoM) /\ WFields(NoW) /\ NoSignals \in SType
  /\ ZeroWord \in Instruction
<1>1. ZeroWord \in Instruction
  BY DEF Instruction
<1>2. 0 \in Dest_ /\ 0 \in Signed_
  BY ConstantsOK DEF Dest_, REG_ZERO
<1> QED
  BY <1>1, <1>2, ConstantsOK DEF NoF, NoD, NoE, NoM, NoW, NoSignals, FType, DType, EType, MType, WType,
    SType, EFields, MFields, WFields, Writers, Jumps

\* Putting a value of the right type into upd changes nothing else.
LEMMA PutUpd ==
  ASSUME NEW T, NEW r \in [cur : T, upd : T], NEW u \in T
  PROVE  /\ [r EXCEPT !.upd = u] \in [cur : T, upd : T]
         /\ [r EXCEPT !.upd = u].cur = r.cur /\ [r EXCEPT !.upd = u].upd = u
OBVIOUS

\* What EX computes, and how a call of the system ends, has its type.
LEMMA ResultType ==
  ASSUME NEW x \in EType
  PROVE  Result(x) \in Word /\ CalculatedPC(x) \in Word /\ LowByte(x.valB) \in Byte
<1>1. x.valA \in Int /\ x.valB \in Int /\ x.offset \in Int /\ x.pc \in Int
  <2>1. x.valA \in Signed_ /\ x.valB \in Signed_ /\ x.offset \in Signed_ /\ x.pc \in Word
    BY DEF EType
  <2> QED BY <2>1, ConstantsOK
<1>2. LowByte(x.valB) \in Byte
  BY <1>1, ConstantsOK DEF LowByte, Byte
<1>3. /\ Wrap(x.valA + x.valB) \in Word /\ Wrap(x.pc + 4) \in Word
      /\ Wrap(x.valA + x.offset) \in Word /\ Wrap(x.pc + x.offset) \in Word
      /\ Wrap(x.pc + x.valA) \in Word /\ (Wrap(x.valA + x.valB) \div 2) * 2 \in Word
  BY <1>1, WrapType
<1>4. Result(x) \in Word
  BY <1>3, ConstantsOK DEF Result
<1>5. CalculatedPC(x) \in Word
  BY <1>3 DEF CalculatedPC
<1> QED BY <1>2, <1>4, <1>5

\* A call returns, ends the process or ends what is modelled of the program.
LEMMA CallType ==
  ASSUME NEW memory, NEW a, NEW b
  PROVE  Syscall(memory, a, b).then \in {"ok", "exit", "fault", "cut"}
BY DEF Syscall, StringAccess, Access

\* A set of naturals has a least element.
LEMMA MinIsLeast ==
  ASSUME NEW S \in SUBSET Nat, NEW n \in S
  PROVE  Min(S) \in S /\ \A y \in S : Min(S) <= y
<1>1. PICK x \in S : \A y \in S : ~ (<<y, x>> \in OpToRel(<, Nat))
  <2>1. IsWellFoundedOn(OpToRel(<, Nat), Nat)
    BY NatLessThanWellFounded
  <2> QED BY <2>1, WFMin
<1>2. \A y \in S : x <= y
  <2>1. SUFFICES ASSUME NEW y \in S, y < x PROVE FALSE
    OBVIOUS
  <2>2. <<y, x>> \in OpToRel(<, Nat)
    BY <2>1 DEF OpToRel
  <2> QED BY <1>1, <2>1, <2>2
<1> QED BY <1>2 DEF Min

\* A string ends somewhere, at the latest where memory does, and up to there
\* every byte of it can be read.
LEMMA StringEndOK ==
  ASSUME NEW memory, NEW a \in Word
  PROVE  /\ StringEnd(memory, a) \in Nat /\ StringEnd(memory, a) - a \in Nat
         /\ \A b \in Nat : a <= b /\ b < StringEnd(memory, a) => b \in Data
<1> DEFINE S == {b \in a .. WordMod : b \notin Data \/ memory[b] = 0}
<1>1. S \in SUBSET Nat /\ WordMod \in S
  BY ConstantsOK DEF Word
<1> HIDE DEF S
<1>2. StringEnd(memory, a) \in S /\ \A y \in S : StringEnd(memory, a) <= y
  BY <1>1, MinIsLeast DEF StringEnd, S
<1>3. StringEnd(memory, a) \in a .. WordMod /\ a \in Nat
  BY <1>2, ConstantsOK DEF S
<1>4. ASSUME NEW b \in Nat, a <= b, b < StringEnd(memory, a) PROVE b \in Data
  <2>1. b \notin S
    BY <1>2, <1>3, <1>4
  <2>2. b \in a .. WordMod
    BY <1>3, <1>4, ConstantsOK
  <2> QED BY <2>1, <2>2 DEF S
<1> QED BY <1>3, <1>4, ConstantsOK

\* The length of what a call prints.
LEMMA StringLength ==
  ASSUME NEW memory, NEW a \in Word
  PROVE  Len(Syscall(memory, a, 0).print) \in Nat
<1> DEFINE n == StringEnd(memory, a) - a
<1>1. n \in Nat
  BY StringEndOK
<1>2. Syscall(memory, a, 0).print = StringAt(memory, a)
  BY DEF Syscall
<1>3. StringAt(memory, a) = [i \in 1 .. n |-> memory[a + i - 1]]
  BY DEF StringAt
<1> HIDE DEF n
<1>4. Len([i \in 1 .. n |-> memory[a + i - 1]]) = n
  BY <1>1
<1> QED BY <1>1, <1>2, <1>3, <1>4

\* A register read with forwarding is a word.
LEMMA OperandType ==
  ASSUME Types, NEW r \in Reg
  PROVE  Operand(r) \in Word
BY DEF Types, Operand, SType

\* The registers the constructor leaves are empty ones of the right types.
LEMMA InitTypes == Init => Types
<1> SUFFICES ASSUME Init PROVE Types
  OBVIOUS
<1>1. prog \in [PCs -> Instruction] /\ mem \in [Data -> Byte] /\ branch_strat \in Strategies
  BY ConstantsOK DEF Init
<1>2. reg \in [Reg -> Word]
  BY ConstantsOK DEF Init, StartReg
<1>3. Freg \in [cur : FType, upd : FType]
  BY ConstantsOK, NothingTypes DEF Init, FType
<1>4. /\ Dreg \in [cur : DType, upd : DType] /\ Ereg \in [cur : EType, upd : EType]
      /\ Mreg \in [cur : MType, upd : MType] /\ Wreg \in [cur : WType, upd : WType]
      /\ EFields(Ereg.cur) /\ EFields(Ereg.upd) /\ MFields(Mreg.cur) /\ MFields(Mreg.upd)
      /\ WFields(Wreg.cur) /\ WFields(Wreg.upd)
  BY NothingTypes DEF Init, Cleared
<1>5. e \in SType
  BY ConstantsOK DEF Init, NoSignals, SType
<1>6. m \in [reg_write : BOOLEAN, valM : Word] /\ d \in [reg1 : Dest_, reg2 : Dest_]
  BY ConstantsOK DEF Init, Dest_
<1>7. cnt \in CType
  BY DEF Init, CType
<1> QED
  BY <1>1, <1>2, <1>3, <1>4, <1>5, <1>6, <1>7 DEF Init, Types

\* WB writes words into registers that exist (simulation.cpp:1328-1345).
LEMMA TypesWB == Types /\ WB => Types'
<1> SUFFICES ASSUME Types, WB PROVE Types'
  OBVIOUS
<1>1. reg' \in [Reg -> Word]
  BY DEF Types, WB, WType
<1>2. cnt' \in CType
  BY DEF Types, WB, CType
<1>3. UNCHANGED <<mem, pipe, signals, prog, branch_strat, status>> /\ stage' = "MEM"
  BY DEF WB, GoOn
<1> QED
  BY <1>1, <1>2, <1>3 DEF Types, pipe, signals

\* MEM passes on words and bytes (simulation.cpp:1230-1327).
LEMMA TypesMEM == Types /\ MEM => Types'
<1> SUFFICES ASSUME Types, MEM PROVE Types'
  OBVIOUS
<1> DEFINE c == Mreg.cur
           uses == c.mem_read \/ c.mem_write
           valM == IF c.mem_read THEN mem[c.valE] ELSE c.valE
           put == [pc |-> c.pc, inst |-> c.inst, valM |-> valM,
                   reg_write |-> c.reg_write, destReg |-> c.destReg]
<1>1. c \in MType /\ MFields(c) /\ Wreg \in [cur : WType, upd : WType]
  BY DEF Types
<1>2. CASE c.inst = "BUBBLE"
  <2>0. m' = [reg_write |-> FALSE, valM |-> 0]
    BY <1>2 DEF MEM
  <2>1. m' \in [reg_write : BOOLEAN, valM : Word]
    BY <2>0, ConstantsOK
  <2>2. Wreg' = [Wreg EXCEPT !.upd = NoW]
    BY <1>2 DEF MEM
  <2>3. Wreg' \in [cur : WType, upd : WType] /\ WFields(Wreg'.cur) /\ WFields(Wreg'.upd)
    BY <1>1, <2>2, NothingTypes, PutUpd DEF Types
  <2>4. UNCHANGED <<machine, Freg, Dreg, Ereg, Mreg, e, d, cnt, prog, branch_strat, status>> /\ stage' = "EX"
    BY <1>2 DEF MEM, GoOn
  <2> QED
    BY <2>1, <2>3, <2>4 DEF Types, machine
<1>3. CASE c.inst # "BUBBLE" /\ (uses => c.valE \in Data)
  <2>1. valM \in Word
    BY <1>1, <1>3, ConstantsOK DEF Types, MType
  <2>2. put \in WType /\ WFields(put)
    BY <1>1, <2>1 DEF MType, MFields, WType, WFields
  <2>3. Wreg' = [Wreg EXCEPT !.upd = put] /\ m' = [reg_write |-> c.reg_write, valM |-> valM]
    BY <1>3 DEF MEM
  <2>4. Wreg' \in [cur : WType, upd : WType] /\ WFields(Wreg'.cur) /\ WFields(Wreg'.upd)
    BY <1>1, <2>2, <2>3, PutUpd DEF Types
  <2>5. m' \in [reg_write : BOOLEAN, valM : Word]
    BY <1>1, <2>1, <2>3 DEF MType
  <2>6. mem' \in [Data -> Byte]
    BY <1>1, <1>3 DEF MEM, Types, MFields
  <2>7. cnt' \in CType
    <3> DEFINE k == IF uses THEN 1 ELSE 0
               c1 == [cnt EXCEPT !.inst_cnt = @ + 1]
    <3>1. cnt' = [c1 EXCEPT !.cache_cnt = @ + k]
      BY <1>3 DEF MEM, Types, CType
    <3>2. c1 \in CType /\ k \in Nat
      BY DEF Types, CType
    <3> HIDE DEF k, c1
    <3> QED BY <3>1, <3>2 DEF CType
  <2>8. UNCHANGED <<reg, Freg, Dreg, Ereg, Mreg, e, d, prog, branch_strat, status>> /\ stage' = "EX"
    BY <1>3 DEF MEM, GoOn
  <2> QED
    BY <2>4, <2>5, <2>6, <2>7, <2>8 DEF Types
<1>4. CASE c.inst # "BUBBLE" /\ uses /\ c.valE \notin Data
  <2>1. status' \in {"fault", "cut"}
    BY <1>4 DEF MEM, End, Access
  <2>2. UNCHANGED <<prog, branch_strat, machine, pipe, signals, cnt, stage>>
    BY <1>4 DEF MEM, End
  <2> QED
    BY <2>1, <2>2 DEF Types, machine, pipe, signals
<1> QED
  BY <1>2, <1>3, <1>4 DEF MEM

\* EX computes words from the operands of the types ID leaves
\* (simulation.cpp:910-1206).
LEMMA TypesEX == Types /\ EX => Types'
<1> SUFFICES ASSUME Types, EX PROVE Types'
  OBVIOUS
<1> DEFINE x == Ereg.cur
           wrong == x.inst \in Branches /\ x.take_branch # Taken(x.inst, x.valA, x.valB)
           call == IF x.inst = "ECALL" THEN Syscall(mem, x.valA, x.valB)
                   ELSE [print |-> << >>, then |-> "ok"]
           calcPC == IF x.inst \in Jumps THEN CalculatedPC(x)
                     ELSE IF wrong THEN x.PCnottaken ELSE WordMod - 1
           e1 == [isJ |-> x.inst \in Jumps, Bwrong |-> wrong,
                  reg_write |-> x.inst \in {"ADDI", "ADD", "LBU"} \cup Jumps,
                  valE |-> Result(x), calcPC |-> calcPC]
           upd == [pc |-> x.pc, inst |-> x.inst,
                   valB |-> IF x.inst = "SB" THEN LowByte(x.valB) ELSE x.valB,
                   valE |-> e1.valE, destReg |-> x.destreg, reg_write |-> e1.reg_write,
                   mem_write |-> x.inst = "SB", mem_read |-> x.inst = "LBU",
                   M_Bwrong |-> e1.Bwrong, M_calcPC |-> e1.calcPC]
<1>1. x \in EType /\ EFields(x) /\ Mreg \in [cur : MType, upd : MType]
  BY DEF Types
<1>2. Result(x) \in Word /\ CalculatedPC(x) \in Word /\ LowByte(x.valB) \in Byte
  BY <1>1, ResultType
<1>3. CASE x.inst = "BUBBLE"
  <2>1. e' = NoSignals /\ Mreg' = [Mreg EXCEPT !.upd = NoM]
    BY <1>3 DEF EX
  <2>2. Mreg' \in [cur : MType, upd : MType] /\ MFields(Mreg'.cur) /\ MFields(Mreg'.upd)
    BY <1>1, <2>1, NothingTypes, PutUpd DEF Types
  <2>3. UNCHANGED <<machine, Freg, Dreg, Ereg, Wreg, m, d, cnt, prog, branch_strat, status>> /\ stage' = "ID"
    BY <1>3 DEF EX, GoOn
  <2> QED
    BY <2>1, <2>2, <2>3, NothingTypes DEF Types, machine
<1>4. CASE x.inst # "BUBBLE" /\ call.then = "ok"
  <2>1. calcPC \in Word
    BY <1>1, <1>2, ConstantsOK DEF EType
  <2>2. e1 \in SType
    BY <1>2, <2>1 DEF SType
  <2>3. upd \in MType
    <3>1. /\ x.pc \in Word /\ x.inst \in Ops \cup {"BUBBLE"} /\ x.destreg \in Dest_
          /\ (IF x.inst = "SB" THEN LowByte(x.valB) ELSE x.valB) \in Signed_
      BY <1>1, <1>2, ConstantsOK DEF EType
    <3>2. e1.valE \in Word /\ e1.reg_write \in BOOLEAN /\ e1.Bwrong \in BOOLEAN /\ e1.calcPC \in Word
      BY <1>2, <2>1
    <3> HIDE DEF e1
    <3> QED BY <3>1, <3>2 DEF MType
  <2>4. MFields(upd)
    BY <1>1, <1>2 DEF EFields, MFields, Writers
  <2>5. e' = e1 /\ Mreg' = [Mreg EXCEPT !.upd = upd]
    BY <1>4 DEF EX
  <2>6. Mreg' \in [cur : MType, upd : MType] /\ MFields(Mreg'.cur) /\ MFields(Mreg'.upd)
    <3> HIDE DEF upd
    <3> QED BY <1>1, <2>3, <2>4, <2>5, PutUpd DEF Types
  <2>7. cnt' \in CType
    <3> DEFINE k == IF x.inst \in Branches /\ ~ wrong THEN 1 ELSE 0
               n == IF x.inst = "ECALL" /\ x.valB = 0 THEN Len(call.print) + 1 ELSE 0
               c1 == [cnt EXCEPT !.correct_predict = @ + k]
    <3>1. cnt' = [c1 EXCEPT !.cache_cnt = @ + n]
      BY <1>4 DEF EX, Types, CType
    <3>2. c1 \in CType /\ k \in Nat
      BY DEF Types, CType
    <3>3. n \in Nat
      <4>1. CASE x.inst = "ECALL" /\ x.valB = 0
        <5>1. x.valA \in Word /\ call = Syscall(mem, x.valA, 0)
          BY <1>1, <4>1 DEF EFields
        <5>2. Len(call.print) \in Nat
          BY <5>1, StringLength
        <5> QED BY <4>1, <5>2
      <4> QED BY <4>1
    <3> HIDE DEF k, n, c1
    <3> QED BY <3>1, <3>2, <3>3 DEF CType
  <2>8. UNCHANGED <<reg, mem, Freg, Dreg, Ereg, Wreg, m, d, prog, branch_strat, status>> /\ stage' = "ID"
    BY <1>4 DEF EX, GoOn
  <2> QED
    BY <2>2, <2>5, <2>6, <2>7, <2>8 DEF Types
<1>5. CASE call.then # "ok"
  <2>1. call.then \in {"ok", "exit", "fault", "cut"}
    BY CallType
  <2>2. status' = call.then
    BY <1>5 DEF EX
  <2>3. UNCHANGED <<prog, branch_strat, reg, mem, pipe, signals, cnt, stage>>
    BY <1>5 DEF EX
  <2> QED
    BY <1>5, <2>1, <2>2, <2>3 DEF Types, pipe, signals
<1> QED
  BY <1>3, <1>4, <1>5 DEF EX

\* What the decoder finds in a word that is no bubble.
LEMMA DecodeType ==
  ASSUME NEW i \in Instruction, i # ZeroWord
  PROVE  /\ i.op \in Ops /\ i.imm \in Signed_ /\ i.op # "BUBBLE"
         /\ Reg1(i) \in Dest_ /\ Reg2(i) \in Dest_ /\ Dest(i) \in Dest_
         /\ Reg1(i) # -1 => Reg1(i) \in Reg
         /\ Reg2(i) # -1 => Reg2(i) \in Reg
         /\ i.op \in Writers => Dest(i) \in Reg
         /\ i.op = "ECALL" => Reg1(i) = REG_A0 /\ REG_A0 # -1
<1>1. i \in [op : Ops, rd : Reg, rs1 : Reg, rs2 : Reg, imm : -WordMod .. WordMod]
  BY DEF Instruction
<1>2. i.op \in Ops /\ i.rd \in Reg /\ i.rs1 \in Reg /\ i.rs2 \in Reg /\ i.imm \in Signed_
  BY <1>1 DEF Signed_
<1>3. REG_A0 \in Reg /\ REG_A7 \in Reg /\ Reg \subseteq Nat /\ Reg \subseteq Dest_ /\ -1 \in Dest_
  BY ConstantsOK DEF Dest_
<1>4. Reg1(i) \in Reg \cup {-1} /\ (i.op = "ECALL" => Reg1(i) = REG_A0)
  BY <1>2, <1>3 DEF Reg1, Branches
<1>5. Reg2(i) \in Reg \cup {-1}
  BY <1>2, <1>3 DEF Reg2
<1>6. Dest(i) \in Reg \cup {-1} /\ (i.op \in Writers => Dest(i) \in Reg)
  BY <1>2 DEF Dest, Writers
<1>7. i.op # "BUBBLE"
  BY <1>2 DEF Ops, Branches, Jumps
<1> QED
  BY <1>2, <1>3, <1>4, <1>5, <1>6, <1>7 DEF Dest_, REG_A0

\* ID leaves operands within a word's distance (simulation.cpp:430-906).
LEMMA TypesID == Types /\ ID => Types'
<1> SUFFICES ASSUME Types, ID PROVE Types'
  OBVIOUS
<1> DEFINE i == Dreg.cur.inst
           valA == IF Reg1(i) # -1 THEN Operand(Reg1(i)) ELSE i.imm
           valB == IF Reg2(i) # -1 THEN Operand(Reg2(i)) ELSE IF i.op = "JAL" THEN 0 ELSE i.imm
           offset == IF i.op \in {"JAL", "LBU", "SB"} \cup Branches THEN i.imm ELSE 0
           put == [pc |-> Dreg.cur.pc, inst |-> i.op, destreg |-> Dest(i), valA |-> valA, valB |-> valB,
                   offset |-> offset, PCnottaken |-> Dreg.cur.PCnottaken,
                   take_branch |-> Dreg.cur.take_branch]
<1>1. /\ i \in Instruction /\ Dreg.cur \in DType /\ Ereg \in [cur : EType, upd : EType]
      /\ EFields(Ereg.cur)
  BY DEF Types, DType
<1>2. CASE i = ZeroWord
  <2>1. d' = [reg1 |-> -1, reg2 |-> -1] /\ Ereg' = [Ereg EXCEPT !.upd = NoE]
    BY <1>2 DEF ID, ZeroWord
  <2>2. Ereg' \in [cur : EType, upd : EType] /\ EFields(Ereg'.cur) /\ EFields(Ereg'.upd)
    BY <1>1, <2>1, NothingTypes, PutUpd
  <2>3. d' \in [reg1 : Dest_, reg2 : Dest_]
    BY <2>1 DEF Dest_
  <2>4. UNCHANGED <<machine, Freg, Dreg, Mreg, Wreg, e, m, cnt, prog, branch_strat, status>> /\ stage' = "IF"
    BY <1>2 DEF ID, GoOn, ZeroWord
  <2> QED
    BY <2>2, <2>3, <2>4 DEF Types, machine
<1>3. CASE i # ZeroWord /\ i.op # "ILLEGAL"
  <2>1. /\ i.op \in Ops /\ i.imm \in Signed_ /\ Dest(i) \in Dest_ /\ Reg1(i) \in Dest_ /\ Reg2(i) \in Dest_
        /\ Reg1(i) # -1 => Reg1(i) \in Reg
        /\ Reg2(i) # -1 => Reg2(i) \in Reg
        /\ i.op \in Writers => Dest(i) \in Reg
        /\ i.op = "ECALL" => Reg1(i) = REG_A0 /\ REG_A0 # -1
    BY <1>1, <1>3, DecodeType
  <2>2. valA \in Signed_ /\ (i.op = "ECALL" => valA \in Word)
    BY <2>1, OperandType, ConstantsOK
  <2>3. valB \in Signed_
    BY <2>1, OperandType, ConstantsOK
  <2>4. offset \in Signed_
    BY <2>1, ConstantsOK
  <2>5. put \in EType
    <3> HIDE DEF valA, valB, offset
    <3> QED BY <1>1, <2>1, <2>2, <2>3, <2>4 DEF EType, DType
  <2>6. EFields(put)
    BY <2>1, <2>2 DEF EFields
  <2>7. d' = [reg1 |-> Reg1(i), reg2 |-> Reg2(i)] /\ Ereg' = [Ereg EXCEPT !.upd = put]
    BY <1>3 DEF ID
  <2>8. Ereg' \in [cur : EType, upd : EType] /\ EFields(Ereg'.cur) /\ EFields(Ereg'.upd)
    <3> HIDE DEF put
    <3> QED BY <1>1, <2>5, <2>6, <2>7, PutUpd
  <2>9. d' \in [reg1 : Dest_, reg2 : Dest_]
    BY <2>1, <2>7
  <2>10. UNCHANGED <<machine, Freg, Dreg, Mreg, Wreg, e, m, cnt, prog, branch_strat, status>> /\ stage' = "IF"
    BY <1>3 DEF ID, GoOn
  <2> QED
    BY <2>8, <2>9, <2>10 DEF Types, machine
<1>4. CASE i.op = "ILLEGAL" /\ End("illegal")
  BY <1>4 DEF Types, End, machine, pipe, signals
<1> QED
  BY <1>2, <1>3, <1>4 DEF ID

\* IF fetches an instruction of the program and predicts a word
\* (simulation.cpp:330-420).
LEMMA TypesIF == Types /\ IF_ => Types'
<1> SUFFICES ASSUME Types, IF_ PROVE Types'
  OBVIOUS
<1> DEFINE pc == FetchPC
           inst == prog[pc]
           take == Predict(branch_strat, inst)
           there == IF inst.op \in Branches THEN Wrap(pc + inst.imm) ELSE Wrap(pc + 4)
           putF == [predPC |-> IF take THEN there ELSE Wrap(pc + 4)]
           putD == [pc |-> pc, inst |-> inst, take_branch |-> take,
                    PCnottaken |-> IF take THEN Wrap(pc + 4) ELSE there]
<1>1. CASE Fetchable(prog, pc)
  <2>1. pc \in Word /\ inst \in Instruction
    BY <1>1, ConstantsOK DEF Types, Fetchable
  <2>2. inst.imm \in Int
    <3>1. CASE inst = ZeroWord
      <4>1. ZeroWord.imm = 0
        BY DEF ZeroWord
      <4> QED BY <3>1, <4>1
    <3>2. CASE inst # ZeroWord
      <4> HIDE DEF inst
      <4>1. inst.imm \in Signed_
        BY <2>1, <3>2, DecodeType
      <4> QED BY <4>1, ConstantsOK
    <3> QED BY <3>1, <3>2
  <2>3. Wrap(pc + 4) \in Word /\ there \in Word /\ take \in BOOLEAN
    BY <2>1, <2>2, WrapType, ConstantsOK DEF Predict
  <2>4. putF \in FType
    BY <2>3 DEF FType
  <2>5. putD \in DType
    BY <2>1, <2>3 DEF DType
  <2>6. /\ Freg' = [Freg EXCEPT !.upd = putF]
        /\ Dreg' = [Dreg EXCEPT !.upd = putD]
        /\ cnt' = [cnt EXCEPT !.cache_cnt = @ + 1]
        /\ UNCHANGED <<machine, Ereg, Mreg, Wreg, signals, prog, branch_strat, status>> /\ stage' = "Tick"
    BY <1>1 DEF IF_, GoOn
  <2> HIDE DEF putF, putD
  <2>7. Freg' \in [cur : FType, upd : FType]
    BY <2>4, <2>6, PutUpd DEF Types
  <2>8. Dreg' \in [cur : DType, upd : DType]
    BY <2>5, <2>6, PutUpd DEF Types
  <2>9. cnt' \in CType
    BY <2>6 DEF Types, CType
  <2> QED
    BY <2>6, <2>7, <2>8, <2>9 DEF Types, machine, signals
<1>2. CASE ~ Fetchable(prog, pc) /\ End("fetch")
  BY <1>2 DEF Types, End, machine, pipe, signals
<1> QED
  BY <1>1, <1>2 DEF IF_

\* tick() of one register.
LEMMA TickedParts ==
  ASSUME NEW r, NEW bubble \in BOOLEAN, NEW stall \in BOOLEAN, NEW nothing
  PROVE  /\ Ticked(r, bubble, stall, nothing).upd = nothing
         /\ bubble => Ticked(r, bubble, stall, nothing).cur = [r.cur EXCEPT !.inst = nothing.inst]
         /\ ~ bubble /\ stall => Ticked(r, bubble, stall, nothing).cur = r.cur
         /\ ~ bubble /\ ~ stall => Ticked(r, bubble, stall, nothing).cur = r.upd
         /\ \A T : /\ nothing \in T /\ r.cur \in T /\ r.upd \in T
                   /\ [r.cur EXCEPT !.inst = nothing.inst] \in T
                   => Ticked(r, bubble, stall, nothing) \in [cur : T, upd : T]
BY DEF Ticked

\* What Tick adds to the counters.
LEMMA TickCounts ==
  ASSUME cnt \in CType, Tick
  PROVE  /\ cnt' \in CType
         /\ cnt'.pipeline_cycle_cnt = cnt.pipeline_cycle_cnt /\ cnt'.inst_cnt = cnt.inst_cnt
         /\ cnt'.correct_predict = cnt.correct_predict
         /\ cnt'.cnt_j = cnt.cnt_j + One(JumpInD)
         /\ cnt'.mispredict = cnt.mispredict + One(WrongInE)
         /\ cnt'.loaduse_cnt = cnt.loaduse_cnt + One(LoadUse)
<1> DEFINE j == One(JumpInD)
           w == One(WrongInE)
           l == One(LoadUse)
           c1 == [cnt EXCEPT !.cnt_j = @ + j]
           c2 == [c1 EXCEPT !.mispredict = @ + w]
           c3 == [c2 EXCEPT !.control_cnt = @ + j + w]
<1>1. j \in Nat /\ w \in Nat /\ l \in Nat
  BY DEF One
<1>2. cnt' = [c3 EXCEPT !.loaduse_cnt = @ + l]
  BY DEF Tick, One, CType
<1> HIDE DEF j, w, l
<1>3. /\ c1 \in CType /\ c1.cnt_j = cnt.cnt_j + j /\ c1.mispredict = cnt.mispredict
      /\ c1.loaduse_cnt = cnt.loaduse_cnt /\ c1.inst_cnt = cnt.inst_cnt
      /\ c1.pipeline_cycle_cnt = cnt.pipeline_cycle_cnt /\ c1.correct_predict = cnt.correct_predict
  BY <1>1 DEF CType
<1> HIDE DEF c1
<1>4. /\ c2 \in CType /\ c2.cnt_j = c1.cnt_j /\ c2.mispredict = c1.mispredict + w
      /\ c2.loaduse_cnt = c1.loaduse_cnt /\ c2.inst_cnt = c1.inst_cnt
      /\ c2.pipeline_cycle_cnt = c1.pipeline_cycle_cnt /\ c2.correct_predict = c1.correct_predict
  BY <1>1, <1>3 DEF CType
<1> HIDE DEF c2
<1>5. /\ c3 \in CType /\ c3.cnt_j = c2.cnt_j /\ c3.mispredict = c2.mispredict
      /\ c3.loaduse_cnt = c2.loaduse_cnt /\ c3.inst_cnt = c2.inst_cnt
      /\ c3.pipeline_cycle_cnt = c2.pipeline_cycle_cnt /\ c3.correct_predict = c2.correct_predict
  BY <1>1, <1>4 DEF CType
<1> HIDE DEF c3
<1>6. /\ cnt' \in CType /\ cnt'.cnt_j = c3.cnt_j /\ cnt'.mispredict = c3.mispredict
      /\ cnt'.loaduse_cnt = c3.loaduse_cnt + l /\ cnt'.inst_cnt = c3.inst_cnt
      /\ cnt'.pipeline_cycle_cnt = c3.pipeline_cycle_cnt /\ cnt'.correct_predict = c3.correct_predict
  BY <1>1, <1>2, <1>5 DEF CType
<1> QED
  BY <1>1, <1>3, <1>4, <1>5, <1>6 DEF j, w, l

\* The end of a cycle copies or clears registers and counts
\* (simulation.cpp:245-300).
LEMMA TypesTick == Types /\ Tick => Types'
<1> SUFFICES ASSUME Types, Tick PROVE Types'
  OBVIOUS
<1>1. /\ Freg \in [cur : FType, upd : FType] /\ Dreg \in [cur : DType, upd : DType]
      /\ Ereg \in [cur : EType, upd : EType] /\ Mreg \in [cur : MType, upd : MType]
      /\ Wreg \in [cur : WType, upd : WType] /\ e \in SType /\ cnt \in CType
  BY DEF Types
<1>2. BubbleD \in BOOLEAN /\ StallD \in BOOLEAN /\ BubbleE \in BOOLEAN
  BY <1>1 DEF BubbleD, StallD, BubbleE, JumpInD, WrongInE, LoadUse, SType
<1>3. Freg' \in [cur : FType, upd : FType]
  BY <1>1, NothingTypes DEF Tick
<1>4. Dreg' \in [cur : DType, upd : DType]
  <2>1. [Dreg.cur EXCEPT !.inst = NoD.inst] \in DType
    BY <1>1, NothingTypes DEF DType, NoD
  <2>2. Dreg' = Ticked(Dreg, BubbleD, StallD, NoD)
    BY DEF Tick
  <2> QED BY <1>1, <1>2, <2>1, <2>2, NothingTypes, TickedParts
<1>5. Ereg' \in [cur : EType, upd : EType] /\ EFields(Ereg'.cur) /\ EFields(Ereg'.upd)
  <2> DEFINE b == [Ereg.cur EXCEPT !.inst = NoE.inst]
  <2>1. b \in EType /\ EFields(b)
    BY <1>1 DEF EType, EFields, NoE, Writers, Jumps
  <2>2. Ereg' = Ticked(Ereg, BubbleE, FALSE, NoE)
    BY DEF Tick
  <2>3. Ereg' \in [cur : EType, upd : EType]
    BY <1>1, <1>2, <2>1, <2>2, NothingTypes, TickedParts
  <2>4. (Ereg'.cur = b \/ Ereg'.cur = Ereg.upd) /\ Ereg'.upd = NoE
    BY <2>2 DEF Ticked
  <2> HIDE DEF b
  <2> QED BY <2>1, <2>3, <2>4, NothingTypes DEF Types
<1>6. Mreg' \in [cur : MType, upd : MType] /\ MFields(Mreg'.cur) /\ MFields(Mreg'.upd)
  BY <1>1, NothingTypes DEF Tick, Ticked, Types
<1>7. Wreg' \in [cur : WType, upd : WType] /\ WFields(Wreg'.cur) /\ WFields(Wreg'.upd)
  BY <1>1, NothingTypes DEF Tick, Ticked, Types
<1>8. cnt' \in CType
  BY <1>1, TickCounts
<1>9. reg' \in [Reg -> Word]
  BY ConstantsOK DEF Types, Tick
<1>10. UNCHANGED <<mem, out, signals, prog, branch_strat, status>> /\ stage' = "WB"
  BY DEF Tick, GoOn
<1> QED
  BY <1>3, <1>4, <1>5, <1>6, <1>7, <1>8, <1>9, <1>10 DEF Types, signals

\* Every step keeps the types.
LEMMA NextTypes == Types /\ [Next]_vars => Types'
<1> SUFFICES ASSUME Types, [Next]_vars PROVE Types'
  OBVIOUS
<1>1. CASE UNCHANGED vars
  BY <1>1 DEF Types, vars, machine, pipe, signals
<1> QED
  BY <1>1, TypesWB, TypesMEM, TypesEX, TypesID, TypesIF, TypesTick DEF Next

\* TypeOK of PipelineRefinement says less than Types does.
LEMMA TypesSuffice == Types => TypeOK
<1> SUFFICES ASSUME Types PROVE TypeOK
  OBVIOUS
<1>1. Freg.cur.predPC \in Word
  BY DEF Types, FType
<1>2. \A r \in {Dreg.cur, Dreg.upd} :
        r.pc \in Word /\ r.inst \in Instruction /\ r.PCnottaken \in Word /\ r.take_branch \in BOOLEAN
  BY DEF Types, DType
<1>3. \A r \in {Ereg.cur, Ereg.upd} :
        /\ r.pc \in Word /\ r.inst \in Ops \cup {"BUBBLE"} /\ r.destreg \in Reg \cup {-1}
        /\ {r.valA, r.valB, r.offset} \subseteq -WordMod .. WordMod
  BY DEF Types, EType, Dest_, Signed_
<1>4. \A r \in {Mreg.cur, Mreg.upd} :
        /\ r.valE \in Word /\ r.destReg \in Reg \cup {-1} /\ r.M_calcPC \in Word
        /\ r.reg_write => r.destReg \in Reg
        /\ ~ (r.mem_read /\ r.mem_write)
  BY DEF Types, MType, MFields, Dest_
<1>5. \A r \in {Wreg.cur, Wreg.upd} : r.valM \in Word /\ (r.reg_write => r.destReg \in Reg)
  BY DEF Types, WType, WFields
<1> QED
  BY <1>1, <1>2, <1>3, <1>4, <1>5 DEF Types, TypeOK

\* TypeOK for every program, width, set of registers and memory
\* (simulation.cpp:206-1340, the registers of Simulation.h:30-120).
THEOREM TypeCorrect == Spec => []TypeOK
<1>1. Spec => []Types
  BY InitTypes, NextTypes, PTL DEF Spec
<1> QED
  BY <1>1, TypesSuffice, PTL

-----------------------------------------------------------------------------
(* What each call leaves behind, as far as control and counters depend on  *)
(* it.  A call that ends the process leaves everything as it was.          *)

Left == UNCHANGED <<prog, pipe, signals, cnt, stage>>
SameCounts == /\ cnt'.mispredict = cnt.mispredict
              /\ cnt'.cnt_j = cnt.cnt_j /\ cnt'.loaduse_cnt = cnt.loaduse_cnt

\* What WB leaves alone, and the stage it hands over to.
LEMMA WBLeaves ==
  ASSUME Types, WB
  PROVE  /\ stage = "WB" /\ stage' = "MEM" /\ UNCHANGED <<prog, pipe, signals>>
         /\ cnt'.pipeline_cycle_cnt = cnt.pipeline_cycle_cnt + 1 /\ cnt'.inst_cnt = cnt.inst_cnt
         /\ SameCounts
<1>1. cnt \in CType /\ cnt' = [cnt EXCEPT !.pipeline_cycle_cnt = @ + 1]
  BY DEF WB, Types
<1>2. /\ cnt'.pipeline_cycle_cnt = cnt.pipeline_cycle_cnt + 1 /\ cnt'.inst_cnt = cnt.inst_cnt
      /\ SameCounts
  BY <1>1 DEF CType, SameCounts
<1> QED
  BY <1>2 DEF WB, Here, GoOn

\* What MEM leaves alone, and the stage it hands over to.
LEMMA MEMLeaves ==
  ASSUME Types, MEM
  PROVE  /\ stage = "MEM"
         /\ \/ /\ stage' = "EX" /\ UNCHANGED <<prog, Freg, Dreg, Ereg, Mreg, e, d>>
               /\ cnt'.pipeline_cycle_cnt = cnt.pipeline_cycle_cnt
               /\ cnt'.inst_cnt = cnt.inst_cnt + One(Mreg.cur.inst # "BUBBLE")
               /\ SameCounts
            \/ Left
<1> DEFINE c == Mreg.cur
           uses == c.mem_read \/ c.mem_write
<1>1. CASE c.inst = "BUBBLE"
  <2>1. UNCHANGED <<prog, Freg, Dreg, Ereg, Mreg, e, d, cnt>> /\ stage = "MEM" /\ stage' = "EX"
    BY <1>1 DEF MEM, GoOn, Here
  <2>2. cnt.inst_cnt + One(c.inst # "BUBBLE") = cnt.inst_cnt
    BY <1>1 DEF One, Types, CType
  <2> QED BY <2>1, <2>2 DEF SameCounts
<1>2. CASE c.inst # "BUBBLE" /\ (uses => c.valE \in Data)
  <2> DEFINE k == IF uses THEN 1 ELSE 0
             c1 == [cnt EXCEPT !.inst_cnt = @ + 1]
  <2>1. UNCHANGED <<prog, Freg, Dreg, Ereg, Mreg, e, d>> /\ stage = "MEM" /\ stage' = "EX"
    BY <1>2 DEF MEM, GoOn, Here
  <2>2. cnt' = [c1 EXCEPT !.cache_cnt = @ + k]
    BY <1>2 DEF MEM, Types, CType
  <2>3. /\ c1 \in CType /\ c1.inst_cnt = cnt.inst_cnt + 1
        /\ c1.pipeline_cycle_cnt = cnt.pipeline_cycle_cnt
        /\ c1.mispredict = cnt.mispredict /\ c1.cnt_j = cnt.cnt_j /\ c1.loaduse_cnt = cnt.loaduse_cnt
    BY DEF Types, CType
  <2> HIDE DEF c1, k
  <2>4. /\ cnt'.inst_cnt = cnt.inst_cnt + 1
        /\ cnt'.pipeline_cycle_cnt = cnt.pipeline_cycle_cnt /\ SameCounts
    BY <2>2, <2>3 DEF CType, SameCounts
  <2> QED BY <1>2, <2>1, <2>4 DEF One
<1>3. CASE c.inst # "BUBBLE" /\ uses /\ c.valE \notin Data
  BY <1>3 DEF MEM, End, Left, Here
<1> QED BY <1>1, <1>2, <1>3 DEF MEM

\* What EX leaves in M and in its signals for the rest of the cycle.
LEMMA EXLeaves ==
  ASSUME Types, EX
  PROVE  /\ stage = "EX"
         /\ \/ /\ stage' = "ID" /\ UNCHANGED <<prog, Freg, Dreg, Ereg>>
               /\ Mreg'.cur = Mreg.cur /\ Mreg'.upd.inst = Ereg.cur.inst
               /\ Mreg'.upd.M_Bwrong = e'.Bwrong
               /\ e'.isJ <=> Ereg.cur.inst \in Jumps
               /\ e'.Bwrong => Ereg.cur.inst \in Branches
               /\ cnt'.pipeline_cycle_cnt = cnt.pipeline_cycle_cnt /\ cnt'.inst_cnt = cnt.inst_cnt
               /\ SameCounts
            \/ Left
<1> DEFINE x == Ereg.cur
           wrong == x.inst \in Branches /\ x.take_branch # Taken(x.inst, x.valA, x.valB)
           call == IF x.inst = "ECALL" THEN Syscall(mem, x.valA, x.valB)
                   ELSE [print |-> << >>, then |-> "ok"]
<1>1. Mreg \in [cur : MType, upd : MType] /\ cnt \in CType
  BY DEF Types
<1>2. CASE x.inst = "BUBBLE"
  <2>1. /\ UNCHANGED <<prog, Freg, Dreg, Ereg, cnt>> /\ stage = "EX" /\ stage' = "ID"
        /\ e' = NoSignals /\ Mreg' = [Mreg EXCEPT !.upd = NoM]
    BY <1>2 DEF EX, GoOn, Here
  <2> QED BY <1>1, <1>2, <2>1 DEF NoSignals, NoM, SameCounts, Jumps
<1>3. CASE x.inst # "BUBBLE" /\ call.then = "ok"
  <2>1. UNCHANGED <<prog, Freg, Dreg, Ereg>> /\ stage = "EX" /\ stage' = "ID"
    BY <1>3 DEF EX, GoOn, Here
  <2>2. /\ (e'.isJ <=> x.inst \in Jumps) /\ e'.Bwrong = wrong
        /\ Mreg'.cur = Mreg.cur /\ Mreg'.upd.inst = x.inst /\ Mreg'.upd.M_Bwrong = wrong
    <3> DEFINE calcPC == IF x.inst \in Jumps THEN CalculatedPC(x)
                         ELSE IF wrong THEN x.PCnottaken ELSE WordMod - 1
               e1 == [isJ |-> x.inst \in Jumps, Bwrong |-> wrong,
                      reg_write |-> x.inst \in {"ADDI", "ADD", "LBU"} \cup Jumps,
                      valE |-> Result(x), calcPC |-> calcPC]
               upd == [pc |-> x.pc, inst |-> x.inst,
                       valB |-> IF x.inst = "SB" THEN LowByte(x.valB) ELSE x.valB,
                       valE |-> e1.valE, destReg |-> x.destreg, reg_write |-> e1.reg_write,
                       mem_write |-> x.inst = "SB", mem_read |-> x.inst = "LBU",
                       M_Bwrong |-> e1.Bwrong, M_calcPC |-> e1.calcPC]
    <3>1. e' = e1 /\ Mreg' = [Mreg EXCEPT !.upd = upd]
      BY <1>3 DEF EX
    <3>2. upd.inst = x.inst /\ upd.M_Bwrong = wrong /\ e1.Bwrong = wrong /\ (e1.isJ <=> x.inst \in Jumps)
      OBVIOUS
    <3> HIDE DEF upd, e1
    <3> QED BY <1>1, <3>1, <3>2
  <2>3. /\ cnt'.pipeline_cycle_cnt = cnt.pipeline_cycle_cnt /\ cnt'.inst_cnt = cnt.inst_cnt
        /\ SameCounts
    <3> DEFINE k == IF x.inst \in Branches /\ ~ wrong THEN 1 ELSE 0
               n == IF x.inst = "ECALL" /\ x.valB = 0 THEN Len(call.print) + 1 ELSE 0
               c1 == [cnt EXCEPT !.correct_predict = @ + k]
    <3>1. cnt' = [c1 EXCEPT !.cache_cnt = @ + n]
      BY <1>3 DEF EX, Types, CType
    <3>2. k \in Nat
      OBVIOUS
    <3> HIDE DEF k, n
    <3>3. /\ c1 \in CType /\ c1.inst_cnt = cnt.inst_cnt
          /\ c1.pipeline_cycle_cnt = cnt.pipeline_cycle_cnt
          /\ c1.mispredict = cnt.mispredict /\ c1.cnt_j = cnt.cnt_j /\ c1.loaduse_cnt = cnt.loaduse_cnt
      BY <1>1, <3>2 DEF CType
    <3> HIDE DEF c1
    <3> QED BY <3>1, <3>3 DEF CType, SameCounts
  <2> QED BY <2>1, <2>2, <2>3
<1>4. CASE call.then # "ok"
  BY <1>4 DEF EX, Here, Left
<1> QED BY <1>2, <1>3, <1>4 DEF EX

\* What ID leaves in E for the rest of the cycle.
LEMMA IDLeaves ==
  ASSUME Types, ID
  PROVE  /\ stage = "ID"
         /\ \/ /\ stage' = "IF" /\ UNCHANGED <<prog, Freg, Dreg, Mreg, e, cnt>>
               /\ Ereg'.cur = Ereg.cur /\ Ereg'.upd.inst = Dreg.cur.inst.op
               /\ Dreg.cur.inst = ZeroWord => d'.reg1 = -1 /\ d'.reg2 = -1
               /\ Dreg.cur.inst # ZeroWord =>
                    /\ Ereg'.upd.pc = Dreg.cur.pc /\ Ereg'.upd.take_branch = Dreg.cur.take_branch
                    /\ Ereg'.upd.PCnottaken = Dreg.cur.PCnottaken
                    /\ Dreg.cur.inst.op \in Branches => Ereg'.upd.offset = Dreg.cur.inst.imm
            \/ Left
<1> DEFINE i == Dreg.cur.inst
<1>1. Ereg \in [cur : EType, upd : EType]
  BY DEF Types
<1>2. CASE i = ZeroWord
  <2>1. /\ UNCHANGED <<prog, Freg, Dreg, Mreg, e, cnt>> /\ stage = "ID" /\ stage' = "IF"
        /\ d' = [reg1 |-> -1, reg2 |-> -1] /\ Ereg' = [Ereg EXCEPT !.upd = NoE]
    BY <1>2 DEF ID, GoOn, Here, ZeroWord
  <2> QED BY <1>1, <1>2, <2>1 DEF NoE, ZeroWord
<1>3. CASE i # ZeroWord /\ i.op # "ILLEGAL"
  <2> DEFINE valA == IF Reg1(i) # -1 THEN Operand(Reg1(i)) ELSE i.imm
             valB == IF Reg2(i) # -1 THEN Operand(Reg2(i)) ELSE IF i.op = "JAL" THEN 0 ELSE i.imm
             offset == IF i.op \in {"JAL", "LBU", "SB"} \cup Branches THEN i.imm ELSE 0
             put == [pc |-> Dreg.cur.pc, inst |-> i.op, destreg |-> Dest(i), valA |-> valA, valB |-> valB,
                     offset |-> offset, PCnottaken |-> Dreg.cur.PCnottaken,
                     take_branch |-> Dreg.cur.take_branch]
  <2>1. /\ UNCHANGED <<prog, Freg, Dreg, Mreg, e, cnt>> /\ stage = "ID" /\ stage' = "IF"
        /\ Ereg' = [Ereg EXCEPT !.upd = put]
    BY <1>3 DEF ID, GoOn, Here
  <2>2. /\ put.pc = Dreg.cur.pc /\ put.take_branch = Dreg.cur.take_branch
        /\ put.PCnottaken = Dreg.cur.PCnottaken /\ put.inst = i.op
        /\ i.op \in Branches => put.offset = i.imm
    OBVIOUS
  <2> HIDE DEF put
  <2>3. Ereg'.cur = Ereg.cur /\ Ereg'.upd = put
    BY <1>1, <2>1
  <2> QED BY <1>3, <2>1, <2>2, <2>3
<1>4. CASE i.op = "ILLEGAL" /\ End("illegal")
  BY <1>4 DEF End, Left, ID, Here
<1> QED BY <1>2, <1>3, <1>4 DEF ID

\* The pc the fetch goes to behind the instruction of a D register, and the
\* address it keeps for the other outcome.
Predicted(r) == IF r.take_branch THEN Wrap(r.pc + r.inst.imm) ELSE Wrap(r.pc + 4)
Other(r)     == IF r.take_branch THEN Wrap(r.pc + 4) ELSE Wrap(r.pc + r.inst.imm)

\* What the fetch says of the instruction it brings in.
WellFetched(r, f) ==
  /\ r.take_branch => r.inst.op \in Branches
  /\ f.predPC = Predicted(r)
  /\ r.inst.op \in Branches => r.PCnottaken = Other(r)

\* What IF leaves in D and F for the rest of the cycle.
LEMMA IFLeaves ==
  ASSUME Types, IF_
  PROVE  /\ stage = "IF"
         /\ \/ /\ stage' = "Tick" /\ UNCHANGED <<prog, Ereg, Mreg, Wreg, signals>>
               /\ Dreg'.cur = Dreg.cur /\ Freg'.cur = Freg.cur
               /\ Dreg'.upd.pc = FetchPC /\ FetchPC \in PCs
               /\ Dreg'.upd.inst = prog[FetchPC]
               /\ WellFetched(Dreg'.upd, Freg'.upd)
               /\ cnt'.pipeline_cycle_cnt = cnt.pipeline_cycle_cnt /\ cnt'.inst_cnt = cnt.inst_cnt
               /\ SameCounts
            \/ Left
<1> DEFINE pc == FetchPC
           inst == prog[pc]
           take == Predict(branch_strat, inst)
           there == IF inst.op \in Branches THEN Wrap(pc + inst.imm) ELSE Wrap(pc + 4)
           putF == [predPC |-> IF take THEN there ELSE Wrap(pc + 4)]
           putD == [pc |-> pc, inst |-> inst, take_branch |-> take,
                    PCnottaken |-> IF take THEN Wrap(pc + 4) ELSE there]
<1>1. CASE Fetchable(prog, pc)
  <2>1. pc \in PCs
    BY <1>1 DEF Types, Fetchable
  <2>2. /\ Freg' = [Freg EXCEPT !.upd = putF]
        /\ Dreg' = [Dreg EXCEPT !.upd = putD]
        /\ cnt' = [cnt EXCEPT !.cache_cnt = @ + 1]
        /\ UNCHANGED <<prog, Ereg, Mreg, Wreg, signals>> /\ stage = "IF" /\ stage' = "Tick"
    BY <1>1 DEF IF_, GoOn, Here
  <2>3. take => inst.op \in Branches
    BY DEF Predict
  <2>4. WellFetched(putD, putF)
    <3> HIDE DEF pc, inst, take
    <3> QED BY <2>3 DEF WellFetched, Predicted, Other
  <2>5. putD.pc = pc /\ putD.inst = inst
    OBVIOUS
  <2> HIDE DEF putD, putF
  <2>6. Dreg'.cur = Dreg.cur /\ Freg'.cur = Freg.cur /\ Dreg'.upd = putD /\ Freg'.upd = putF
    BY <2>2 DEF Types
  <2>7. /\ cnt'.pipeline_cycle_cnt = cnt.pipeline_cycle_cnt /\ cnt'.inst_cnt = cnt.inst_cnt
        /\ SameCounts
    BY <2>2 DEF Types, CType, SameCounts
  <2> QED BY <2>1, <2>2, <2>4, <2>5, <2>6, <2>7
<1>2. CASE ~ Fetchable(prog, pc) /\ End("fetch")
  BY <1>2 DEF End, Left, IF_, Here
<1> QED BY <1>1, <1>2 DEF IF_

\* What the end of a cycle makes of stalls and bubbles (Simulation.h:267-410).
LEMMA TickLeaves ==
  ASSUME Types, Tick
  PROVE  /\ stage = "Tick" /\ stage' = "WB" /\ UNCHANGED prog
         /\ Freg'.cur = IF StallF THEN Freg.cur ELSE Freg.upd
         /\ BubbleD => Dreg'.cur.inst = ZeroWord
         /\ ~ BubbleD => Dreg'.cur = IF StallD THEN Dreg.cur ELSE Dreg.upd
         /\ BubbleE => Ereg'.cur.inst = "BUBBLE"
         /\ ~ BubbleE => Ereg'.cur = Ereg.upd
         /\ Mreg'.cur = Mreg.upd /\ Mreg'.upd.inst = "BUBBLE"
<1>1. Dreg.cur \in DType /\ Ereg.cur \in EType
  BY DEF Types
<1>2. BubbleD => [Dreg.cur EXCEPT !.inst = NoD.inst].inst = ZeroWord
  BY <1>1 DEF DType, NoD
<1>3. BubbleE => [Ereg.cur EXCEPT !.inst = NoE.inst].inst = "BUBBLE"
  BY <1>1 DEF EType, NoE
<1>4. /\ Dreg' = Ticked(Dreg, BubbleD, StallD, NoD) /\ Ereg' = Ticked(Ereg, BubbleE, FALSE, NoE)
      /\ Mreg' = Ticked(Mreg, FALSE, FALSE, NoM)
      /\ Freg' = [cur |-> IF StallF THEN Freg.cur ELSE Freg.upd, upd |-> NoF]
      /\ stage = "Tick" /\ stage' = "WB" /\ prog' = prog
  BY DEF Tick, Here, GoOn
<1>5. /\ BubbleD => Dreg'.cur = [Dreg.cur EXCEPT !.inst = NoD.inst]
      /\ ~ BubbleD => Dreg'.cur = IF StallD THEN Dreg.cur ELSE Dreg.upd
  BY <1>4 DEF Ticked
<1>6. /\ BubbleE => Ereg'.cur = [Ereg.cur EXCEPT !.inst = NoE.inst]
      /\ ~ BubbleE => Ereg'.cur = Ereg.upd
  BY <1>4 DEF Ticked
<1>7. Mreg'.cur = Mreg.upd /\ Mreg'.upd.inst = "BUBBLE"
  BY <1>4 DEF Ticked, NoM
<1>8. Freg'.cur = IF StallF THEN Freg.cur ELSE Freg.upd
  BY <1>4
<1> QED BY <1>2, <1>3, <1>4, <1>5, <1>6, <1>7, <1>8

-----------------------------------------------------------------------------
(* Control: where the fetch goes and what is behind what.                  *)

Decoded == stage \in {"IF", "Tick"}   \* ID of this cycle has run

AfterEX ==
  Executed =>
    /\ e.isJ <=> Ereg.cur.inst \in Jumps
    /\ e.Bwrong => Ereg.cur.inst \in Branches
    /\ Mreg.upd.M_Bwrong = e.Bwrong /\ Mreg.upd.inst = Ereg.cur.inst

AfterID ==
  Decoded =>
    /\ Ereg.upd.inst = Dreg.cur.inst.op
    /\ Dreg.cur.inst = ZeroWord => d.reg1 = -1 /\ d.reg2 = -1
    /\ Dreg.cur.inst # ZeroWord =>
         /\ Ereg.upd.pc = Dreg.cur.pc /\ Ereg.upd.take_branch = Dreg.cur.take_branch
         /\ Ereg.upd.PCnottaken = Dreg.cur.PCnottaken
         /\ Dreg.cur.inst.op \in Branches => Ereg.upd.offset = Dreg.cur.inst.imm

AfterIF ==
  stage = "Tick" =>
    /\ FetchPC \in PCs /\ Dreg.upd.pc = FetchPC /\ Dreg.upd.inst = prog[FetchPC]
    /\ WellFetched(Dreg.upd, Freg.upd)

\* Behind a redirection there is nothing that could stall or flush the fetch.
NothingBehind ==
  /\ Mreg.cur.M_Bwrong => Ereg.cur.inst = "BUBBLE" /\ Dreg.cur.inst = ZeroWord
  /\ Ereg.cur.inst \in Jumps => Dreg.cur.inst = ZeroWord

\* F holds where the fetch goes on behind the instruction in D.
FetchedBehind == Dreg.cur.inst # ZeroWord => WellFetched(Dreg.cur, Freg.cur)

\* D holds the instruction the fetch found behind the one in E.
DecodedBehind ==
  Ereg.cur.inst \notin Jumps \cup {"BUBBLE"} /\ Dreg.cur.inst # ZeroWord =>
    /\ Dreg.cur.pc = IF Ereg.cur.take_branch THEN Wrap(Ereg.cur.pc + Ereg.cur.offset)
                     ELSE Wrap(Ereg.cur.pc + 4)
    /\ Dreg.cur.inst = prog[Dreg.cur.pc]
    /\ Ereg.cur.inst \in Branches =>
         Ereg.cur.PCnottaken = IF Ereg.cur.take_branch THEN Wrap(Ereg.cur.pc + 4)
                               ELSE Wrap(Ereg.cur.pc + Ereg.cur.offset)

Control == /\ AfterEX /\ AfterID /\ AfterIF
           /\ NothingBehind /\ FetchedBehind /\ DecodedBehind

\* Empty stages redirect nothing.
LEMMA InitControl == Init => Control
<1> SUFFICES ASSUME Init PROVE Control
  OBVIOUS
<1>1. /\ Dreg.cur.inst = ZeroWord /\ Ereg.cur.inst = "BUBBLE" /\ Mreg.cur.M_Bwrong = FALSE
      /\ stage = "WB"
  BY DEF Init, Cleared, NoD, NoE, NoM
<1> QED
  BY <1>1 DEF Control, AfterEX, AfterID, AfterIF, NothingBehind, FetchedBehind, DecodedBehind,
    Executed, Decoded, Jumps

\* A step that leaves the registers and signals alone, or ends the process.
LEMMA LeftControl == Control /\ Left => Control'
BY DEF Control, AfterEX, AfterID, AfterIF, NothingBehind, FetchedBehind, DecodedBehind,
  Executed, Decoded, Left, pipe, signals, FetchPC

\* The halves of Control that speak of the current contents only.
LEMMA BehindKept ==
  ASSUME NothingBehind, FetchedBehind, DecodedBehind, prog' = prog,
         Freg'.cur = Freg.cur, Dreg'.cur = Dreg.cur, Ereg'.cur = Ereg.cur, Mreg'.cur = Mreg.cur
  PROVE  NothingBehind' /\ FetchedBehind' /\ DecodedBehind'
BY DEF NothingBehind, FetchedBehind, DecodedBehind, WellFetched, Predicted, Other

\* What the hazards find at the end of a cycle: behind an instruction that
\* redirects the fetch there is none.
LEMMA NoHazardBehind ==
  ASSUME Types, Control, stage = "Tick", FetchPC # Freg.cur.predPC
  PROVE  ~ JumpInD /\ ~ LoadUse
<1>1. Mreg.cur.M_Bwrong \/ e.isJ
  BY DEF FetchPC
<1>2. Dreg.cur.inst = ZeroWord
  BY <1>1 DEF Control, AfterEX, NothingBehind, Executed
<1>3. ~ JumpInD
  BY <1>2 DEF JumpInD, ZeroWord, Jumps
<1>4. Ereg.cur.inst # "LBU"
  BY <1>1 DEF Control, AfterEX, NothingBehind, Executed, Jumps
<1> QED BY <1>3, <1>4 DEF LoadUse

\* The end of a cycle moves what the stages have left so that the next one
\* finds nothing behind a redirection.
LEMMA ControlTick == Types /\ Control /\ Tick => Control'
<1> SUFFICES ASSUME Types, Control, Tick PROVE Control'
  OBVIOUS
<1>1. /\ stage = "Tick" /\ stage' = "WB" /\ prog' = prog
      /\ Freg'.cur = IF StallF THEN Freg.cur ELSE Freg.upd
      /\ BubbleD => Dreg'.cur.inst = ZeroWord
      /\ ~ BubbleD => Dreg'.cur = IF StallD THEN Dreg.cur ELSE Dreg.upd
      /\ BubbleE => Ereg'.cur.inst = "BUBBLE"
      /\ ~ BubbleE => Ereg'.cur = Ereg.upd
      /\ Mreg'.cur = Mreg.upd
  BY TickLeaves
<1>2. /\ AfterEX /\ AfterID /\ AfterIF /\ NothingBehind /\ FetchedBehind /\ DecodedBehind
  BY DEF Control
<1>3. (AfterEX /\ AfterID /\ AfterIF)'
  BY <1>1 DEF AfterEX, AfterID, AfterIF, Executed, Decoded
<1>4. Mreg'.cur.M_Bwrong => WrongInE
  BY <1>1, <1>2 DEF AfterEX, Executed, WrongInE
<1>5. ASSUME Ereg'.cur.inst # "BUBBLE"
      PROVE  /\ ~ WrongInE /\ ~ LoadUse /\ Ereg'.cur = Ereg.upd /\ Ereg.upd.inst = Dreg.cur.inst.op
             /\ Dreg.cur.inst # ZeroWord
  <2>1. ~ BubbleE /\ Ereg'.cur = Ereg.upd
    BY <1>1, <1>5
  <2>2. Ereg.upd.inst = Dreg.cur.inst.op
    BY <1>1, <1>2 DEF AfterID, Decoded
  <2> QED BY <1>5, <2>1, <2>2 DEF BubbleE, ZeroWord
<1>6. NothingBehind'
  <2>1. ASSUME Mreg'.cur.M_Bwrong PROVE Ereg'.cur.inst = "BUBBLE" /\ Dreg'.cur.inst = ZeroWord
    BY <1>1, <1>4, <2>1 DEF BubbleD, BubbleE
  <2>2. ASSUME Ereg'.cur.inst \in Jumps PROVE Dreg'.cur.inst = ZeroWord
    <3>1. Ereg'.cur.inst # "BUBBLE"
      BY <2>2 DEF Jumps
    <3>2. JumpInD
      BY <1>5, <2>2, <3>1 DEF JumpInD
    <3> QED BY <1>1, <3>2 DEF BubbleD
  <2> QED BY <2>1, <2>2 DEF NothingBehind
<1>7. FetchedBehind'
  <2>1. SUFFICES ASSUME Dreg'.cur.inst # ZeroWord PROVE WellFetched(Dreg'.cur, Freg'.cur)
    BY DEF FetchedBehind
  <2>2. ~ BubbleD /\ Dreg'.cur = IF StallD THEN Dreg.cur ELSE Dreg.upd
    BY <1>1, <2>1
  <2>3. CASE LoadUse
    BY <1>1, <1>2, <2>1, <2>2, <2>3 DEF FetchedBehind, StallF, StallD
  <2>4. CASE ~ LoadUse
    BY <1>1, <1>2, <2>2, <2>4 DEF AfterIF, StallF, StallD, BubbleD
  <2> QED BY <2>3, <2>4
<1>8. DecodedBehind'
  <2>1. SUFFICES ASSUME Ereg'.cur.inst \notin Jumps \cup {"BUBBLE"}, Dreg'.cur.inst # ZeroWord
                 PROVE  DecodedBehind'
    BY DEF DecodedBehind
  <2>2. /\ ~ WrongInE /\ ~ LoadUse /\ Ereg'.cur = Ereg.upd /\ Ereg.upd.inst = Dreg.cur.inst.op
        /\ Dreg.cur.inst # ZeroWord
    BY <1>5, <2>1
  <2>3. Dreg'.cur = Dreg.upd
    BY <1>1, <2>1, <2>2 DEF StallD
  <2>4. FetchPC = Freg.cur.predPC
    BY <1>1, <1>2, <2>2 DEF NothingBehind, AfterEX, Executed, FetchPC
  <2>5. WellFetched(Dreg.cur, Freg.cur)
    BY <1>2, <2>2 DEF FetchedBehind
  <2>6. /\ Ereg.upd.pc = Dreg.cur.pc /\ Ereg.upd.take_branch = Dreg.cur.take_branch
        /\ Ereg.upd.PCnottaken = Dreg.cur.PCnottaken
        /\ Dreg.cur.inst.op \in Branches => Ereg.upd.offset = Dreg.cur.inst.imm
    BY <1>1, <1>2, <2>2 DEF AfterID, Decoded
  <2>7. Dreg.upd.pc = FetchPC /\ Dreg.upd.inst = prog[FetchPC]
    BY <1>1, <1>2 DEF AfterIF
  <2> QED
    BY <1>1, <2>2, <2>3, <2>4, <2>5, <2>6, <2>7 DEF DecodedBehind, WellFetched, Predicted, Other
<1> QED BY <1>3, <1>6, <1>7, <1>8 DEF Control

\* Every step keeps the invariant about control.
LEMMA NextControl == Types /\ Control /\ [Next]_vars => Control'
<1> SUFFICES ASSUME Types, Control, [Next]_vars PROVE Control'
  OBVIOUS
<1>1. /\ AfterEX /\ AfterID /\ AfterIF /\ NothingBehind /\ FetchedBehind /\ DecodedBehind
  BY DEF Control
<1>2. CASE WB
  <2>1. stage' = "MEM" /\ UNCHANGED <<prog, pipe, signals>>
    BY <1>2, WBLeaves
  <2> QED
    BY <1>1, <2>1, BehindKept DEF Control, AfterEX, AfterID, AfterIF, Executed, Decoded, pipe
<1>3. CASE MEM
  <2>1. CASE stage' = "EX" /\ UNCHANGED <<prog, Freg, Dreg, Ereg, Mreg, e, d>>
    BY <1>1, <2>1, BehindKept DEF Control, AfterEX, AfterID, AfterIF, Executed, Decoded
  <2> QED BY <1>3, <2>1, MEMLeaves, LeftControl
<1>4. CASE EX
  <2>1. CASE /\ stage' = "ID" /\ UNCHANGED <<prog, Freg, Dreg, Ereg>>
             /\ Mreg'.cur = Mreg.cur /\ Mreg'.upd.inst = Ereg.cur.inst
             /\ Mreg'.upd.M_Bwrong = e'.Bwrong
             /\ e'.isJ <=> Ereg.cur.inst \in Jumps
             /\ e'.Bwrong => Ereg.cur.inst \in Branches
    <3>1. (AfterEX /\ AfterID /\ AfterIF)'
      BY <2>1 DEF AfterEX, AfterID, AfterIF, Executed, Decoded
    <3> QED BY <1>1, <2>1, <3>1, BehindKept DEF Control
  <2> QED BY <1>4, <2>1, EXLeaves, LeftControl
<1>5. CASE ID
  <2>1. CASE /\ stage' = "IF" /\ UNCHANGED <<prog, Freg, Dreg, Mreg, e, cnt>>
             /\ Ereg'.cur = Ereg.cur /\ Ereg'.upd.inst = Dreg.cur.inst.op
             /\ Dreg.cur.inst = ZeroWord => d'.reg1 = -1 /\ d'.reg2 = -1
             /\ Dreg.cur.inst # ZeroWord =>
                  /\ Ereg'.upd.pc = Dreg.cur.pc /\ Ereg'.upd.take_branch = Dreg.cur.take_branch
                  /\ Ereg'.upd.PCnottaken = Dreg.cur.PCnottaken
                  /\ Dreg.cur.inst.op \in Branches => Ereg'.upd.offset = Dreg.cur.inst.imm
    <3>1. AfterEX' /\ AfterIF'
      BY <1>1, <1>5, <2>1, IDLeaves DEF AfterEX, AfterIF, Executed
    <3>2. AfterID'
      BY <2>1 DEF AfterID
    <3> QED BY <1>1, <2>1, <3>1, <3>2, BehindKept DEF Control
  <2> QED BY <1>5, <2>1, IDLeaves, LeftControl
<1>6. CASE IF_
  <2>1. CASE /\ stage' = "Tick" /\ UNCHANGED <<prog, Ereg, Mreg, Wreg, signals>>
             /\ Dreg'.cur = Dreg.cur /\ Freg'.cur = Freg.cur
             /\ Dreg'.upd.pc = FetchPC /\ FetchPC \in PCs
             /\ Dreg'.upd.inst = prog[FetchPC]
             /\ WellFetched(Dreg'.upd, Freg'.upd)
    <3>1. AfterEX' /\ AfterID'
      BY <1>1, <1>6, <2>1, IFLeaves DEF AfterEX, AfterID, Executed, Decoded, signals
    <3>2. FetchPC' = FetchPC
      BY <2>1 DEF FetchPC, signals
    <3>3. AfterIF'
      BY <2>1, <3>2 DEF AfterIF, WellFetched, Predicted, Other
    <3> QED BY <1>1, <2>1, <3>1, <3>3, BehindKept DEF Control
  <2> QED BY <1>6, <2>1, IFLeaves, LeftControl
<1>7. CASE Tick
  BY <1>7, ControlTick
<1>8. CASE UNCHANGED vars
  <2>1. Left
    BY <1>8 DEF vars, Left
  <2> QED BY <2>1, LeftControl
<1> QED BY <1>2, <1>3, <1>4, <1>5, <1>6, <1>7, <1>8 DEF Next

\* The invariant about control gives both properties.
LEMMA ControlSuffices == Types /\ Control => RedirectIsKept /\ FollowsPrediction
<1> SUFFICES ASSUME Types, Control PROVE RedirectIsKept /\ FollowsPrediction
  OBVIOUS
<1>1. RedirectIsKept
  BY NoHazardBehind DEF Control, NothingBehind, RedirectIsKept
<1>2. FollowsPrediction
  <2>1. ASSUME NEW pc, prog[pc] # ZeroWord PROVE NextInstruction(prog, pc) = pc
    BY <2>1 DEF NextInstruction
  <2> QED BY <2>1 DEF Control, DecodedBehind, FollowsPrediction
<1> QED BY <1>1, <1>2

\* Every reachable state is of the right types, nothing younger is behind a
\* redirection, and D holds what the instruction in E was predicted to be followed
\* by (simulation.cpp:249-291, 330-420).
THEOREM ControlInvariant == Spec => [](Types /\ Control)
<1>1. Init => Types /\ Control
  BY InitTypes, InitControl
<1>2. (Types /\ Control) /\ [Next]_vars => (Types /\ Control)'
  BY NextTypes, NextControl
<1> QED BY <1>1, <1>2, PTL DEF Spec

\* RedirectIsKept for every program, strategy and memory: no hazard stalls or
\* flushes what a redirected fetch brings in (simulation.cpp:249-291, 336-346).
THEOREM Redirected == Spec => []RedirectIsKept
BY ControlInvariant, ControlSuffices, PTL

\* FollowsPrediction for every program and strategy: the address kept for a
\* misprediction is always the other one (simulation.cpp:376-417, 1064-1090).
THEOREM Predicting == Spec => []FollowsPrediction
BY ControlInvariant, ControlSuffices, PTL

-----------------------------------------------------------------------------
(* Counters, for programs without words of zeros.  Between two stages the   *)
(* current cycle counts once Tick has ended it, and the instruction in M    *)
(* once it has left.                                                        *)

CyclesDone == cnt.pipeline_cycle_cnt - One(stage # "WB")
InstsDone  == cnt.inst_cnt - One(stage \notin {"WB", "MEM"} /\ Mreg.cur.inst # "BUBBLE")

\* Cycles until EX executes something.
Distance == IF Ereg.cur.inst # "BUBBLE" THEN 0 ELSE IF Dreg.cur.inst # ZeroWord THEN 1 ELSE 2

\* Behind an instruction that does not jump there is another one.
FullBehind == Ereg.cur.inst \notin Jumps \cup {"BUBBLE"} => Dreg.cur.inst # ZeroWord

Lost == 3 + 2 * cnt.mispredict + cnt.loaduse_cnt - InFlight

Accounts ==
  /\ FullBehind
  /\ InstsDone + Lost <= CyclesDone /\ CyclesDone <= InstsDone + Lost + cnt.cnt_j
  /\ CyclesDone + Distance <= 3 * (InstsDone + One(Mreg.cur.inst # "BUBBLE")) + 2
  /\ Mreg.cur.inst # "BUBBLE" => CyclesDone <= 3 * InstsDone + 3

\* M has nothing waiting to replace its contents before EX has run.
NothingExecuted == stage \in {"WB", "MEM", "EX"} => Mreg.upd.inst = "BUBBLE"

Counting == NothingExecuted /\ (ZeroFree => Accounts)

\* One counts a condition.
LEMMA OneNat == ASSUME NEW b PROVE One(b) \in 0 .. 1 /\ (b => One(b) = 1) /\ (~ b => One(b) = 0)
BY DEF One

\* The counters are natural numbers.
LEMMA CountsAreNat ==
  ASSUME Types
  PROVE  /\ cnt.pipeline_cycle_cnt \in Nat /\ cnt.inst_cnt \in Nat /\ cnt.mispredict \in Nat
         /\ cnt.loaduse_cnt \in Nat /\ cnt.cnt_j \in Nat
BY DEF Types, CType

\* Three bubbles are in flight at the start, and nothing has been counted.
LEMMA InitCounting == Init => Counting
<1> SUFFICES ASSUME Init PROVE Counting
  OBVIOUS
<1>1. /\ Dreg.cur.inst = ZeroWord /\ Ereg.cur.inst = "BUBBLE" /\ Mreg.cur.inst = "BUBBLE"
      /\ Mreg.upd.inst = "BUBBLE" /\ stage = "WB"
      /\ cnt.pipeline_cycle_cnt = 0 /\ cnt.inst_cnt = 0 /\ cnt.mispredict = 0
      /\ cnt.loaduse_cnt = 0 /\ cnt.cnt_j = 0
  BY DEF Init, Cleared, NoD, NoE, NoM
<1> QED
  BY <1>1 DEF Counting, NothingExecuted, Accounts, FullBehind, InstsDone, CyclesDone, Lost, InFlight,
    Distance, One

\* A stage call inside a cycle: what is done and what is lost stays the same.
LEMMA InsideCycle ==
  ASSUME Accounts, Dreg'.cur = Dreg.cur, Ereg'.cur = Ereg.cur, Mreg'.cur = Mreg.cur, SameCounts,
         CyclesDone' = CyclesDone, InstsDone' = InstsDone
  PROVE  Accounts'
<1>1. Distance' = Distance /\ Lost' = Lost /\ (FullBehind <=> FullBehind')
  BY DEF Distance, Lost, InFlight, SameCounts, FullBehind
<1> QED BY <1>1 DEF Accounts, SameCounts

\* An ended process counts nothing.
LEMMA LeftCounting == Counting /\ Left => Counting'
<1> SUFFICES ASSUME Counting, Left PROVE Counting'
  OBVIOUS
<1>1. CyclesDone' = CyclesDone /\ InstsDone' = InstsDone /\ SameCounts
  BY DEF Left, pipe, CyclesDone, InstsDone, SameCounts
<1>2. (ZeroFree <=> ZeroFree') /\ (NothingExecuted <=> NothingExecuted')
  BY DEF Left, pipe, ZeroFree, NothingExecuted
<1> QED BY <1>1, <1>2, InsideCycle DEF Left, pipe, Counting

\* The cycle that Tick ends.
LEMMA AccountsTick == Types /\ Control /\ ZeroFree /\ Accounts /\ Tick => Accounts'
<1> SUFFICES ASSUME Types, Control, ZeroFree, Accounts, Tick PROVE Accounts'
  OBVIOUS
<1> DEFINE mb == One(Mreg.cur.inst = "BUBBLE")
           eb == One(Ereg.cur.inst = "BUBBLE")
           db == One(Dreg.cur.inst = ZeroWord)
           eb2 == One(Ereg'.cur.inst = "BUBBLE")
           db2 == One(Dreg'.cur.inst = ZeroWord)
<1>1. /\ stage = "Tick" /\ stage' = "WB"
      /\ BubbleD => Dreg'.cur.inst = ZeroWord
      /\ ~ BubbleD => Dreg'.cur = IF StallD THEN Dreg.cur ELSE Dreg.upd
      /\ BubbleE => Ereg'.cur.inst = "BUBBLE"
      /\ ~ BubbleE => Ereg'.cur = Ereg.upd
      /\ Mreg'.cur = Mreg.upd
  BY TickLeaves
<1>2. /\ cnt'.pipeline_cycle_cnt = cnt.pipeline_cycle_cnt /\ cnt'.inst_cnt = cnt.inst_cnt
      /\ cnt'.cnt_j = cnt.cnt_j + One(JumpInD)
      /\ cnt'.mispredict = cnt.mispredict + One(WrongInE)
      /\ cnt'.loaduse_cnt = cnt.loaduse_cnt + One(LoadUse)
  BY TickCounts DEF Types
<1>3. Mreg'.cur.inst = Ereg.cur.inst
  BY <1>1 DEF Control, AfterEX, Executed
<1>4. Ereg.upd.inst = Dreg.cur.inst.op /\ (Ereg.upd.inst = "BUBBLE" <=> Dreg.cur.inst = ZeroWord)
  <2>1. Ereg.upd.inst = Dreg.cur.inst.op
    BY <1>1 DEF Control, AfterID, Decoded
  <2>2. Dreg.cur.inst \in Instruction
    BY DEF Types, DType
  <2>3. Dreg.cur.inst # ZeroWord => Dreg.cur.inst.op # "BUBBLE"
    BY <2>2, DecodeType
  <2> QED BY <2>1, <2>3 DEF ZeroWord
<1>5. Dreg.upd.inst # ZeroWord
  BY <1>1 DEF Control, AfterIF, ZeroFree
<1>6. JumpInD => Dreg.cur.inst # ZeroWord
  BY DEF JumpInD, ZeroWord, Jumps
<1>7. LoadUse => Ereg.cur.inst = "LBU" /\ Dreg.cur.inst # ZeroWord
  <2>1. ASSUME LoadUse PROVE Dreg.cur.inst # ZeroWord
    <3>1. Ereg.cur.destreg \in Reg
      BY <2>1 DEF LoadUse, Types, EFields, Writers
    <3>2. Ereg.cur.destreg # -1
      BY <3>1, ConstantsOK
    <3> QED BY <1>1, <2>1, <3>2 DEF LoadUse, Control, AfterID, Decoded
  <2> QED BY <2>1 DEF LoadUse
<1>8. WrongInE => Ereg.cur.inst \in Branches /\ Dreg.cur.inst # ZeroWord
  BY DEF WrongInE, Accounts, FullBehind, Branches, Jumps
<1>9. ~ (WrongInE /\ LoadUse)
  BY <1>7, <1>8 DEF Branches
<1>10. /\ BubbleD => db2 = 1
       /\ ~ BubbleD => db2 = 0
       /\ BubbleE => eb2 = 1
       /\ ~ BubbleE => eb2 = db
  <2>1. ~ BubbleD => Dreg'.cur.inst # ZeroWord
    BY <1>1, <1>5, <1>7 DEF StallD
  <2>2. ~ BubbleE => (Ereg'.cur.inst = "BUBBLE" <=> Dreg.cur.inst = ZeroWord)
    BY <1>1, <1>4
  <2> QED BY <1>1, <2>1, <2>2 DEF One
<1>11. /\ WrongInE \/ LoadUse => db = 0
       /\ JumpInD => db = 0
       /\ eb = 1 => ~ WrongInE /\ ~ LoadUse
  BY <1>6, <1>7, <1>8 DEF One, Branches
<1>12. /\ CyclesDone' = CyclesDone + 1
       /\ InstsDone' = InstsDone + 1 - mb
  BY <1>1, <1>2, CountsAreNat DEF CyclesDone, InstsDone, One
<1>13. FullBehind'
  <2>1. SUFFICES ASSUME Ereg'.cur.inst \notin Jumps \cup {"BUBBLE"} PROVE Dreg'.cur.inst # ZeroWord
    BY DEF FullBehind
  <2>2. ~ BubbleE
    BY <1>1, <2>1
  <2>3. ~ JumpInD
    BY <1>1, <1>4, <2>1, <2>2 DEF JumpInD
  <2>4. ~ BubbleD
    BY <2>2, <2>3 DEF BubbleD, BubbleE
  <2> QED BY <1>10, <2>4 DEF One
<1>14. /\ mb \in 0 .. 1 /\ eb \in 0 .. 1 /\ db \in 0 .. 1 /\ eb2 \in 0 .. 1 /\ db2 \in 0 .. 1
       /\ InFlight = db + eb + mb /\ InFlight' = db2 + eb2 + eb
       /\ One(Mreg.cur.inst # "BUBBLE") = 1 - mb /\ One(Mreg'.cur.inst # "BUBBLE") = 1 - eb
       /\ Distance = (IF eb = 0 THEN 0 ELSE IF db = 0 THEN 1 ELSE 2)
       /\ Distance' = (IF eb2 = 0 THEN 0 ELSE IF db2 = 0 THEN 1 ELSE 2)
  BY <1>3 DEF One, InFlight, Distance
<1>15. /\ WrongInE => One(WrongInE) = 1
       /\ ~ WrongInE => One(WrongInE) = 0
       /\ LoadUse => One(LoadUse) = 1
       /\ ~ LoadUse => One(LoadUse) = 0
       /\ JumpInD => One(JumpInD) = 1
       /\ ~ JumpInD => One(JumpInD) = 0
  BY DEF One
<1>16. /\ InstsDone + Lost <= CyclesDone /\ CyclesDone <= InstsDone + Lost + cnt.cnt_j
       /\ CyclesDone + Distance <= 3 * (InstsDone + One(Mreg.cur.inst # "BUBBLE")) + 2
       /\ Mreg.cur.inst # "BUBBLE" => CyclesDone <= 3 * InstsDone + 3
  BY DEF Accounts
<1>17. CyclesDone \in Int /\ InstsDone \in Int
  BY CountsAreNat, OneNat DEF CyclesDone, InstsDone, One
<1> HIDE DEF mb, eb, db, eb2, db2
<1>18. /\ Lost = 3 + 2 * cnt.mispredict + cnt.loaduse_cnt - (db + eb + mb)
       /\ Lost' = 3 + 2 * (cnt.mispredict + One(WrongInE)) + (cnt.loaduse_cnt + One(LoadUse))
                  - (db2 + eb2 + eb)
  BY <1>2, <1>14 DEF Lost
<1>19. InstsDone' + Lost' <= CyclesDone' /\ CyclesDone' <= InstsDone' + Lost' + cnt'.cnt_j
  <2> DEFINE j == One(JumpInD)
             w == One(WrongInE)
             l == One(LoadUse)
  <2>4. j \in 0 .. 1
    BY OneNat
  <2>5. /\ Lost' = 3 + 2 * (cnt.mispredict + w) + (cnt.loaduse_cnt + l) - (db2 + eb2 + eb)
        /\ cnt'.cnt_j = cnt.cnt_j + j
    BY <1>2, <1>18
  <2>1. CASE WrongInE
    <3>1. db = 0 /\ db2 = 1 /\ eb2 = 1 /\ w = 1 /\ l = 0
      BY <2>1, <1>9, <1>10, <1>11, <1>15 DEF BubbleD, BubbleE
    <3> HIDE DEF j, w, l
    <3> QED BY <3>1, <2>4, <2>5, <1>12, <1>14, <1>16, <1>17, <1>18, CountsAreNat
  <2>2. CASE LoadUse
    <3>1. db = 0 /\ db2 = j /\ eb2 = 1 /\ w = 0 /\ l = 1
      BY <2>2, <1>9, <1>10, <1>11, <1>15 DEF BubbleD, BubbleE
    <3> HIDE DEF j, w, l
    <3> QED BY <3>1, <2>4, <2>5, <1>12, <1>14, <1>16, <1>17, <1>18, CountsAreNat
  <2>3. CASE ~ WrongInE /\ ~ LoadUse
    BY <2>3, <1>2, <1>10, <1>11, <1>12, <1>14, <1>15, <1>16, <1>17, <1>18, CountsAreNat
      DEF BubbleD, BubbleE
  <2> QED BY <2>1, <2>2, <2>3
<1>20. CyclesDone' + Distance' <= 3 * (InstsDone' + One(Mreg'.cur.inst # "BUBBLE")) + 2
  <2>1. CASE eb = 0
    BY <2>1, <1>12, <1>14, <1>16, <1>17
  <2>2. CASE eb = 1
    BY <2>2, <1>10, <1>11, <1>12, <1>14, <1>16, <1>17 DEF BubbleD, BubbleE
  <2> QED BY <2>1, <2>2, <1>14
<1>21. Mreg'.cur.inst # "BUBBLE" => CyclesDone' <= 3 * InstsDone' + 3
  <2>1. Mreg'.cur.inst # "BUBBLE" => eb = 0
    BY <1>3 DEF eb, One
  <2> QED BY <2>1, <1>12, <1>14, <1>16, <1>17
<1> QED BY <1>13, <1>19, <1>20, <1>21 DEF Accounts

\* Every step keeps the accounts.
LEMMA NextCounting == Types /\ Control /\ Counting /\ [Next]_vars => Counting'
<1> SUFFICES ASSUME Types, Control, Counting, [Next]_vars PROVE Counting'
  OBVIOUS
<1>1. NothingExecuted /\ (ZeroFree => Accounts)
  BY DEF Counting
<1>2. CASE WB
  <2>1. /\ stage = "WB" /\ stage' = "MEM" /\ UNCHANGED <<prog, pipe, signals>>
        /\ cnt'.pipeline_cycle_cnt = cnt.pipeline_cycle_cnt + 1 /\ cnt'.inst_cnt = cnt.inst_cnt
        /\ SameCounts
    BY <1>2, WBLeaves
  <2>2. CyclesDone' = CyclesDone /\ InstsDone' = InstsDone
    BY <2>1, CountsAreNat DEF CyclesDone, InstsDone, One
  <2> QED BY <1>1, <2>1, <2>2, InsideCycle DEF Counting, NothingExecuted, ZeroFree, pipe
<1>3. CASE MEM
  <2>1. CASE /\ stage' = "EX" /\ UNCHANGED <<prog, Freg, Dreg, Ereg, Mreg, e, d>>
             /\ cnt'.pipeline_cycle_cnt = cnt.pipeline_cycle_cnt
             /\ cnt'.inst_cnt = cnt.inst_cnt + One(Mreg.cur.inst # "BUBBLE")
             /\ SameCounts
    <3>1. stage = "MEM"
      BY <1>3, MEMLeaves
    <3>2. CyclesDone' = CyclesDone /\ InstsDone' = InstsDone
      BY <2>1, <3>1, CountsAreNat DEF CyclesDone, InstsDone, One
    <3> QED BY <1>1, <2>1, <3>1, <3>2, InsideCycle DEF Counting, NothingExecuted, ZeroFree
  <2> QED BY <1>3, <2>1, MEMLeaves, LeftCounting
<1>4. CASE EX
  <2>1. CASE /\ stage' = "ID" /\ UNCHANGED <<prog, Freg, Dreg, Ereg>>
             /\ Mreg'.cur = Mreg.cur
             /\ cnt'.pipeline_cycle_cnt = cnt.pipeline_cycle_cnt /\ cnt'.inst_cnt = cnt.inst_cnt
             /\ SameCounts
    <3>1. stage = "EX"
      BY <1>4, EXLeaves
    <3>2. CyclesDone' = CyclesDone /\ InstsDone' = InstsDone
      BY <2>1, <3>1, CountsAreNat DEF CyclesDone, InstsDone, One
    <3> QED BY <1>1, <2>1, <3>1, <3>2, InsideCycle DEF Counting, NothingExecuted, ZeroFree
  <2> QED BY <1>4, <2>1, EXLeaves, LeftCounting
<1>5. CASE ID
  <2>1. CASE stage' = "IF" /\ UNCHANGED <<prog, Freg, Dreg, Mreg, e, cnt>> /\ Ereg'.cur = Ereg.cur
    <3>1. stage = "ID"
      BY <1>5, IDLeaves
    <3>2. CyclesDone' = CyclesDone /\ InstsDone' = InstsDone /\ SameCounts
      BY <2>1, <3>1 DEF CyclesDone, InstsDone, One, SameCounts
    <3> QED BY <1>1, <2>1, <3>1, <3>2, InsideCycle DEF Counting, NothingExecuted, ZeroFree
  <2> QED BY <1>5, <2>1, IDLeaves, LeftCounting
<1>6. CASE IF_
  <2>1. CASE /\ stage' = "Tick" /\ UNCHANGED <<prog, Ereg, Mreg, Wreg, signals>>
             /\ Dreg'.cur = Dreg.cur
             /\ cnt'.pipeline_cycle_cnt = cnt.pipeline_cycle_cnt /\ cnt'.inst_cnt = cnt.inst_cnt
             /\ SameCounts
    <3>1. stage = "IF"
      BY <1>6, IFLeaves
    <3>2. CyclesDone' = CyclesDone /\ InstsDone' = InstsDone
      BY <2>1, <3>1, CountsAreNat DEF CyclesDone, InstsDone, One
    <3> QED BY <1>1, <2>1, <3>1, <3>2, InsideCycle DEF Counting, NothingExecuted, ZeroFree
  <2> QED BY <1>6, <2>1, IFLeaves, LeftCounting
<1>7. CASE Tick
  <2>1. stage' = "WB" /\ prog' = prog /\ Mreg'.upd.inst = "BUBBLE"
    BY <1>7, TickLeaves
  <2>2. NothingExecuted' /\ (ZeroFree <=> ZeroFree')
    BY <2>1 DEF NothingExecuted, ZeroFree
  <2> QED BY <1>1, <1>7, <2>2, AccountsTick DEF Counting
<1>8. CASE UNCHANGED vars
  <2>1. Left
    BY <1>8 DEF vars, Left
  <2> QED BY <2>1, LeftCounting
<1> QED BY <1>2, <1>3, <1>4, <1>5, <1>6, <1>7, <1>8 DEF Next

\* The accounts give both properties.
LEMMA CountingSuffices == Types /\ Counting => CyclesAccountedFor /\ KeepsPace
<1> SUFFICES ASSUME Types, Counting, stage = "WB", ZeroFree
             PROVE  /\ AtLeast <= cnt.pipeline_cycle_cnt
                    /\ cnt.pipeline_cycle_cnt <= AtLeast + cnt.cnt_j
                    /\ cnt.pipeline_cycle_cnt <= 3 * ArchInstructions + 2 + One(BadM(Mreg.cur))
  BY DEF CyclesAccountedFor, KeepsPace
<1>1. Accounts /\ Mreg.upd.inst = "BUBBLE"
  BY DEF Counting, NothingExecuted
<1>2. CyclesDone = cnt.pipeline_cycle_cnt /\ InstsDone = cnt.inst_cnt
  BY CountsAreNat DEF CyclesDone, InstsDone, One
<1>3. InFlight \in Nat
  BY DEF InFlight, One
<1>4. AtLeast <= cnt.pipeline_cycle_cnt /\ cnt.pipeline_cycle_cnt <= AtLeast + cnt.cnt_j
  BY <1>1, <1>2, <1>3, CountsAreNat DEF Accounts, AtLeast, Lost
<1>5. ArchInstructions = cnt.inst_cnt + One(Mreg.cur.inst # "BUBBLE" /\ ~ BadM(Mreg.cur))
  BY <1>1, CountsAreNat DEF ArchInstructions, One
<1>6. Distance \in Nat
  BY DEF Distance
<1>7. cnt.pipeline_cycle_cnt <= 3 * (cnt.inst_cnt + One(Mreg.cur.inst # "BUBBLE")) + 2
  BY <1>1, <1>2, <1>6, CountsAreNat, OneNat DEF Accounts
<1>8. BadM(Mreg.cur) => Mreg.cur.inst # "BUBBLE"
  BY DEF BadM
<1>9. CASE BadM(Mreg.cur)
  <2>1. cnt.pipeline_cycle_cnt <= 3 * cnt.inst_cnt + 3
    BY <1>1, <1>2, <1>8, <1>9 DEF Accounts
  <2>2. ArchInstructions = cnt.inst_cnt /\ One(BadM(Mreg.cur)) = 1
    BY <1>5, <1>9, CountsAreNat DEF One
  <2> QED BY <1>4, <2>1, <2>2, CountsAreNat
<1>10. CASE ~ BadM(Mreg.cur)
  <2>1. /\ ArchInstructions = cnt.inst_cnt + One(Mreg.cur.inst # "BUBBLE")
        /\ One(BadM(Mreg.cur)) = 0
    BY <1>5, <1>10 DEF One
  <2> QED BY <1>4, <1>7, <2>1, CountsAreNat, OneNat
<1> QED BY <1>9, <1>10

\* In every reachable state the counters, with what is in flight, account for
\* the cycles so far, and no instruction has cost more than three
\* (simulation.cpp:242-291, 1225-1230).
THEOREM CountingInvariant == Spec => []Counting
<1>1. Init => Counting
  BY InitCounting
<1>2. Types /\ Control /\ Counting /\ [Next]_vars => Counting'
  BY NextCounting
<1> QED BY <1>1, <1>2, ControlInvariant, PTL DEF Spec

\* CyclesAccountedFor for every program without words of zeros: the counters
\* the simulator reports explain its cycles (simulation.cpp:249-291, 1230).
THEOREM Accounting == Spec => []CyclesAccountedFor
BY ControlInvariant, CountingInvariant, CountingSuffices, PTL

\* KeepsPace for every program without words of zeros, of whatever length: no
\* stall or flush is asked for again for the same instruction.
THEOREM Pace == Spec => []KeepsPace
BY ControlInvariant, CountingInvariant, CountingSuffices, PTL
=============================================================================
