------------------------ MODULE DatapathConformance ------------------------
(***************************************************************************)
(* What the datapath makes of an instruction, compared with the manual.    *)
(***************************************************************************)
EXTENDS RiscV

ASSUME ConformanceAssumption == \A t \in Tests : WellFormed(t.ins) /\ t.word = Encode(t.ins)

ins == test.ins
A   == before.reg[ins.rs1]
B   == before.reg[ins.rs2]
Addr == Wrap(A + Value(ins.imm))
Manual == IsaStep(ins, before)

Ended == stage \in {"done", "exit", "crash"}
Conforms ==
  IF stage = "done" THEN Manual = {[reg |-> reg, mem |-> mem, pc |-> pc]} ELSE Manual = {}

\* The register the manual would have written holds something else.
Leaves(value) == ins.rd # 0 /\ \A s \in Manual : s.reg[ins.rd] # value

\* The low half of A shifted to the right, without a sign.
Shifted(count) == Low(A) \div Two[count % WordLen]

\* Where the outcome depends on what lies behind a cache line or behind a table,
\* or on what the environment makes of a call.
Undefined ==
  \/ ins.op = "MULW"
  \/ ins.op = "ECALL" /\ before.reg[17] \notin {1, 2}
  \/ /\ ins.op \in DOMAIN IsaBytes \ {"LWU"}
     /\ (Address(Addr) % BlockSize) + IsaBytes[ins.op] > BlockSize

\* Where the simulator is known to leave the manual:
Deviates ==
  \* in ID: no case for SLTU and FENCE, no break after LWU and SLLW,
  \/ ins.op \in {"SLTU", "FENCE"}
  \/ ins.op = "LWU" /\ Manual # {}
  \/ ins.op = "SLLW" /\ Leaves(Shifted(B))
  \* in EX: no case for MULH and REM, a division that traps, no sign after a
  \* shift by nothing,
  \/ ins.op \in {"MULH", "REM"} /\ Leaves(before.reg[ins.rd])
  \/ ins.op = "DIV" /\ (B = 0 \/ (A = Modulus \div 2 /\ B = Modulus - 1))
  \/ ins.op \in {"SRLW", "SRLIW"} /\ Leaves(Shifted(IF ins.op = "SRLW" THEN B ELSE Value(ins.imm)))
  \* in MEM: no sign extension, and addresses that are cut to 32 bits.
  \/ /\ ins.op \in {"LB", "LH", "LW"} /\ ins.rd # 0 /\ Manual # {}
     /\ 2 * (CHOOSE s \in Manual : TRUE).reg[ins.rd] >= Modulus
  \/ ins.op \in DOMAIN IsaBytes \ {"LWU"} /\ Manual = {} /\ Address(Addr) \in Mapped

\* Every instruction does what the manual says except exactly where the list
\* above says it does not: decoding, operand selection, arithmetic, widths,
\* branch outcome under every strategy and the address of the next instruction
\* (simulation.cpp:443-846, 910-1206, 1230-1327).
ConformsButForTheList ==
  Ended /\ ~ Undefined => (Conforms <=> ~ Deviates)

\* The immediate the assembler put into a word comes out of it again with its
\* sign, for every format (simulation.cpp:376, 449-455).
ImmediateIsRecovered ==
  CASE FormatOf(ins) = "I"           -> imm_i(test.word) = ins.imm
    [] FormatOf(ins) = "S"           -> imm_s(test.word) = ins.imm
    [] FormatOf(ins) = "B"           -> imm_sb(test.word) = ins.imm
    [] FormatOf(ins) = "U"           -> Shl(imm_u(test.word), 12) = ins.imm
    [] FormatOf(ins) = "J"           -> imm_uj(test.word) = ins.imm
    [] OTHER                         -> TRUE

\* Registers and memory stay within their widths, x0 stays zero, and what goes
\* from stage to stage is complete.
TypeOK ==
  /\ reg \in [Reg -> Double] /\ reg[0] = 0
  /\ mem \in [Mapped -> Byte]
  /\ pc \in Double
  /\ stage \in {"IF", "ID", "EX", "MEM", "WB", "done", "exit", "crash"}
  /\ stage = "EX" => latch.valA \in Double /\ latch.valB \in Double /\ latch.offset \in Double
  /\ stage = "MEM" => latch.valE \in Double /\ (latch.reg_write => latch.destReg \in Reg)
  /\ stage = "WB" => latch.valM \in Double

\* A signed load extends the sign, as the comment at simulation.cpp:1269 and
\* mem_signed say (simulation.cpp:1269-1308).
LoadsExtend ==
  stage = "done" /\ ins.op \in {"LB", "LH", "LW"} /\ ~ Undefined => Conforms
=============================================================================
