-------------------------------- MODULE RiscV --------------------------------
(***************************************************************************)
(* The reference the datapath is compared with: how the RISC-V manual      *)
(* encodes an instruction and what it says each one does, with bytes of    *)
(* ByteWidth bits.  An instruction is [op, rd, rs1, rs2, imm], imm being   *)
(* the immediate as a sign-extended set of bits.                           *)
(***************************************************************************)
EXTENDS Datapath

\* The instructions of each opcode with their funct3, and their funct7 where
\* the format has one.
OP          == [ADD |-> <<0, 0>>, SUB |-> <<0, 32>>, SLL |-> <<1, 0>>, SLT |-> <<2, 0>>,
                SLTU |-> <<3, 0>>, XOR |-> <<4, 0>>, SRL |-> <<5, 0>>, SRA |-> <<5, 32>>,
                OR |-> <<6, 0>>, AND |-> <<7, 0>>, MUL |-> <<0, 1>>, MULH |-> <<1, 1>>,
                DIV |-> <<4, 1>>, REM |-> <<6, 1>>]
OP_32       == [ADDW |-> <<0, 0>>, SUBW |-> <<0, 32>>, SLLW |-> <<1, 0>>, SRLW |-> <<5, 0>>,
                SRAW |-> <<5, 32>>, MULW |-> <<0, 1>>]
OP_IMM      == [ADDI |-> 0, SLTI |-> 2, SLTIU |-> 3, XORI |-> 4, ORI |-> 6, ANDI |-> 7]
OP_SHIFT    == [SLLI |-> <<1, 0>>, SRLI |-> <<5, 0>>, SRAI |-> <<5, 32>>]
OP_SHIFT_32 == [SLLIW |-> <<1, 0>>, SRLIW |-> <<5, 0>>, SRAIW |-> <<5, 32>>]
LOAD        == [LB |-> 0, LH |-> 1, LW |-> 2, LD |-> 3, LBU |-> 4, LHU |-> 5, LWU |-> 6]
STORE       == [SB |-> 0, SH |-> 1, SW |-> 2, SD |-> 3]
BRANCH      == [BEQ |-> 0, BNE |-> 1, BLT |-> 4, BGE |-> 5, BLTU |-> 6, BGEU |-> 7]
OTHERS      == [ADDIW |-> <<"I", 27>>, LUI |-> <<"U", 55>>, AUIPC |-> <<"U", 23>>, JAL |-> <<"J", 111>>,
                JALR |-> <<"I", 103>>, ECALL |-> <<"I", 115>>, FENCE |-> <<"I", 15>>]

Ops == UNION {DOMAIN OP, DOMAIN OP_32, DOMAIN OP_IMM, DOMAIN OP_SHIFT, DOMAIN OP_SHIFT_32,
              DOMAIN LOAD, DOMAIN STORE, DOMAIN BRANCH, DOMAIN OTHERS}

\* Format, opcode, funct3 and funct7.
Encoding(op) ==
  CASE op \in DOMAIN OP          -> <<"R", 51, OP[op][1], OP[op][2]>>
    [] op \in DOMAIN OP_32       -> <<"R", 59, OP_32[op][1], OP_32[op][2]>>
    [] op \in DOMAIN OP_IMM      -> <<"I", 19, OP_IMM[op], 0>>
    [] op \in DOMAIN OP_SHIFT    -> <<"S6", 19, OP_SHIFT[op][1], OP_SHIFT[op][2]>>
    [] op \in DOMAIN OP_SHIFT_32 -> <<"S5", 27, OP_SHIFT_32[op][1], OP_SHIFT_32[op][2]>>
    [] op \in DOMAIN LOAD        -> <<"I", 3, LOAD[op], 0>>
    [] op \in DOMAIN STORE       -> <<"S", 35, STORE[op], 0>>
    [] op \in DOMAIN BRANCH      -> <<"B", 99, BRANCH[op], 0>>
    [] op \in DOMAIN OTHERS      -> <<OTHERS[op][1], OTHERS[op][2], 0, 0>>

\* Bits low..high of the immediate, moved to position at; a number at position at.
Move(imm, low, high, at) == {i - low + at : i \in imm \cap low .. high}
Put(number, width, at) == {i + at : i \in {k \in 0 .. width - 1 : (number \div Two[k]) % 2 = 1}}

Encode(ins) ==
  LET e    == Encoding(ins.op)
      imm  == ins.imm
      dest == Put(ins.rd, 5, 7)
      src  == Put(ins.rs1, 5, 15)
      pair == src \cup Put(ins.rs2, 5, 20)
      f7   == Put(e[4], 7, 25)
  IN  Put(e[2], 7, 0) \cup
      CASE e[1] = "R"  -> dest \cup Put(e[3], 3, 12) \cup pair \cup f7
        [] e[1] = "I"  -> dest \cup Put(e[3], 3, 12) \cup src \cup Move(imm, 0, 11, 20)
        [] e[1] = "S6" -> dest \cup Put(e[3], 3, 12) \cup src \cup f7 \cup Move(imm, 0, 5, 20)
        [] e[1] = "S5" -> dest \cup Put(e[3], 3, 12) \cup src \cup f7 \cup Move(imm, 0, 4, 20)
        [] e[1] = "S"  -> Put(e[3], 3, 12) \cup pair \cup Move(imm, 0, 4, 7) \cup Move(imm, 5, 11, 25)
        [] e[1] = "B"  -> Put(e[3], 3, 12) \cup pair \cup Move(imm, 1, 4, 8) \cup Move(imm, 5, 10, 25)
                          \cup Move(imm, 11, 11, 7) \cup Move(imm, 12, 12, 31)
        [] e[1] = "U"  -> dest \cup Move(imm, 12, 31, 12)
        [] e[1] = "J"  -> dest \cup Move(imm, 12, 19, 12) \cup Move(imm, 11, 11, 20)
                          \cup Move(imm, 1, 10, 21) \cup Move(imm, 20, 20, 31)

-----------------------------------------------------------------------------

(* What an instruction computes from the values a and b of its operands:   *)
(* the second register or the immediate.                                   *)

SignExtend(x, bits) == Wrap(Signed(x % Two[bits], bits))
Magnitude(x) == IF x < 0 THEN -x ELSE x

\* Division rounds towards zero, gives -1 by zero and never traps; the
\* remainder has the sign of the dividend.
Remainder(a, b) ==
  IF b = 0 THEN a ELSE (IF a < 0 THEN -1 ELSE 1) * (Magnitude(a) % Magnitude(b))
Division(a, b) ==
  IF b = 0 THEN -1 ELSE (IF b < 0 THEN -1 ELSE 1) * ((a - Remainder(a, b)) \div Magnitude(b))

IsaResult(op, a, b, imm, at) ==
  LET shift     == Two[b % XLen]
      wordShift == Two[b % WordLen]
  IN  CASE op = "LUI"                 -> imm
        [] op = "AUIPC"               -> Wrap(at + imm)
        [] op \in {"JAL", "JALR"}     -> Wrap(at + 4)
        [] op \in {"ADD", "ADDI"}     -> Wrap(a + b)
        [] op = "SUB"                 -> Wrap(a - b)
        [] op \in {"ADDW", "ADDIW"}   -> SignExtend(a + b, WordLen)
        [] op = "SUBW"                -> SignExtend(Modulus + a - b, WordLen)
        [] op \in {"SLT", "SLTI"}     -> Truth(Signed64(a) < Signed64(b))
        [] op \in {"SLTU", "SLTIU"}   -> Truth(a < b)
        [] op \in {"XOR", "XORI"}     -> Unsigned({i \in 0 .. XLen - 1 : (i \in Bits(a)) # (i \in Bits(b))}, XLen)
        [] op \in {"OR", "ORI"}       -> Unsigned({i \in 0 .. XLen - 1 : i \in Bits(a) \/ i \in Bits(b)}, XLen)
        [] op \in {"AND", "ANDI"}     -> Unsigned({i \in 0 .. XLen - 1 : i \in Bits(a) /\ i \in Bits(b)}, XLen)
        [] op \in {"SLL", "SLLI"}     -> Wrap(a * shift)
        [] op \in {"SRL", "SRLI"}     -> a \div shift
        [] op \in {"SRA", "SRAI"}     -> Wrap(Signed64(a) \div shift)
        [] op \in {"SLLW", "SLLIW"}   -> SignExtend(Low(a) * wordShift, WordLen)
        [] op \in {"SRLW", "SRLIW"}   -> SignExtend(Low(a) \div wordShift, WordLen)
        [] op \in {"SRAW", "SRAIW"}   -> SignExtend(SignExtend(a, WordLen) \div wordShift, WordLen)
        [] op = "MUL"                 -> Wrap(Signed64(a) * Signed64(b))
        [] op = "MULH"                -> Wrap((Signed64(a) * Signed64(b)) \div Modulus)
        [] op = "MULW"                -> SignExtend(Low(a) * Low(b), WordLen)
        [] op = "DIV"                 -> Wrap(Division(Signed64(a), Signed64(b)))
        [] op = "REM"                 -> Wrap(Remainder(Signed64(a), Signed64(b)))

IsaTaken(op, a, b) ==
  CASE op = "BEQ"  -> a = b
    [] op = "BNE"  -> a # b
    [] op = "BLT"  -> Signed64(a) < Signed64(b)
    [] op = "BGE"  -> Signed64(a) >= Signed64(b)
    [] op = "BLTU" -> a < b
    [] op = "BGEU" -> a >= b

\* Bytes an instruction loads or stores, and whether its load extends the sign.
IsaBytes == [LB |-> 1, LBU |-> 1, LH |-> 2, LHU |-> 2, LW |-> 4, LWU |-> 4, LD |-> 8,
             SB |-> 1, SH |-> 2, SW |-> 4, SD |-> 8]
IsaLoaded(op, memory, addr) ==
  LET n     == IsaBytes[op]
      value == Joined([i \in 0 .. n - 1 |-> memory[addr + i]], ByteWidth, n)
  IN  IF op \in {"LB", "LH", "LW"} THEN SignExtend(value, n * ByteWidth) ELSE value

-----------------------------------------------------------------------------

FormatOf(ins) == Encoding(ins.op)[1]

\* A signed immediate of width bits, those below low zero.
IsImm(imm, low, width) ==
  imm \subseteq low .. 31 /\ \A i \in width .. 31 : i \in imm <=> width - 1 \in imm

\* What an assembler can be given.
WellFormed(ins) ==
  /\ ins.op \in Ops /\ {ins.rd, ins.rs1, ins.rs2} \subseteq Reg
  /\ ins.op = "ECALL" => ins.rd = 0 /\ ins.rs1 = 0 /\ ins.imm = {}
  /\ CASE FormatOf(ins) = "R"          -> TRUE
       [] FormatOf(ins) \in {"I", "S"} -> IsImm(ins.imm, 0, 12)
       [] FormatOf(ins) = "S6"         -> ins.imm \subseteq 0 .. 5
       [] FormatOf(ins) = "S5"         -> ins.imm \subseteq 0 .. 4 /\ Value(ins.imm) < WordLen
       [] FormatOf(ins) = "B"          -> IsImm(ins.imm, 1, 13)
       [] FormatOf(ins) = "U"          -> IsImm(ins.imm, 12, 32)
       [] FormatOf(ins) = "J"          -> IsImm(ins.imm, 1, 21)

\* The state [reg, mem, pc] an instruction leaves, or the set of none when it
\* traps: an address without memory.  A call of the environment leaves the
\* registers alone.
IsaStep(ins, s) ==
  LET f      == FormatOf(ins)
      imm    == Value(ins.imm)
      a      == s.reg[ins.rs1]
      b      == IF f \in {"R", "S", "B"} THEN s.reg[ins.rs2] ELSE imm
      addr   == Wrap(a + imm)
      access == IF ins.op \in DOMAIN IsaBytes THEN addr .. addr + IsaBytes[ins.op] - 1 ELSE {}
      Put64(value) == [s.reg EXCEPT ![ins.rd] = IF ins.rd = 0 THEN 0 ELSE value]
  IN  IF ~ access \subseteq Mapped THEN {}
      ELSE {[reg |-> CASE f \in {"S", "B"} \/ ins.op \in {"ECALL", "FENCE"} -> s.reg
                       [] access # {} /\ f = "I" -> Put64(IsaLoaded(ins.op, s.mem, addr))
                       [] OTHER -> Put64(IsaResult(ins.op, a, b, imm, s.pc)),
             mem |-> IF f = "S"
                     THEN [x \in Mapped |-> IF x \in access THEN (b \div Two[ByteWidth * (x - addr)]) % ByteMod
                                            ELSE s.mem[x]]
                     ELSE s.mem,
             pc  |-> CASE ins.op = "JAL" \/ (f = "B" /\ IsaTaken(ins.op, a, b)) -> Wrap(s.pc + imm)
                       [] ins.op = "JALR" -> 2 * (addr \div 2)
                       [] OTHER           -> Wrap(s.pc + 4)]}
=============================================================================
