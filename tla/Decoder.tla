------------------------------ MODULE Decoder ------------------------------
(***************************************************************************)
(* What ID and IF read out of an instruction word.  A word is the set of   *)
(* the positions of its one bits, so &, | are intersection and union and a *)
(* mask is an interval of positions.  Values of registers are the unsigned *)
(* readings of XLen bits; XLen is 64 in the code and small in a model.     *)
(***************************************************************************)
EXTENDS Integers

CONSTANT ByteWidth   \* bits of a byte: 8 in the code

XLen    == 8 * ByteWidth
WordLen == 4 * ByteWidth

\* Smaller bytes than the code's leave a register wider than the shift of LUI.
ASSUME DecoderAssumption == ByteWidth \in {2, 4, 8}

Bit    == 0 .. 31
Opcode == [R |-> 51, IMM |-> 19, LUI |-> 55, BRANCH |-> 99, STORE |-> 35, LOAD |-> 3,
           SYSTEM |-> 115, AUIPC |-> 23, JAL |-> 111, JALR |-> 103, IMM32 |-> 27, OP32 |-> 59]

\* inst >> n of an int32_t, which repeats the sign, and inst << n.
Sar(w, n) == {i \in Bit : i + n \in w \/ (i + n > 31 /\ 31 \in w)}
Shl(w, n) == {i + n : i \in w} \cap Bit

Two[n \in Nat] == IF n = 0 THEN 1 ELSE 2 * Two[n - 1]   \* the powers of two

\* The number of n digits, each of width bits, the lowest digit first.
Joined(digit, width, n) ==
  LET sum[k \in 0 .. n] ==
        IF k = 0 THEN 0 ELSE sum[k - 1] + digit[k - 1] * Two[width * (k - 1)]
  IN  sum[n]

Unsigned(bits, n) == Joined([i \in 0 .. n - 1 |-> IF i \in bits THEN 1 ELSE 0], 1, n)

\* An int32_t as a number of XLen bits.
Value(bits) == Unsigned(bits \cup (IF 31 \in bits THEN 32 .. XLen - 1 ELSE {}), XLen)

Field(w, low, high) == Unsigned({i - low : i \in w \cap low .. high}, high - low + 1)
opcode(w) == Field(w, 0, 6)
rd(w)     == Field(w, 7, 11)
funct3(w) == Field(w, 12, 14)
rs1(w)    == Field(w, 15, 19)
rs2(w)    == Field(w, 20, 24)
funct7(w) == Field(w, 25, 31)

imm_i(w) == Sar(w, 20)
imm_s(w) == Sar(Shl((Sar(w, 7) \cap 0 .. 4) \cup (Sar(w, 20) \cap 5 .. 11), 20), 20)
imm_sbZeroed(w) == \* faulty: the sign is not extended
  (Sar(w, 7) \cap 1 .. 4) \cup (Sar(w, 20) \cap 5 .. 10)
    \cup (Shl(w, 4) \cap {11}) \cup (Sar(w, 19) \cap {12})
imm_sb(w) == Sar(Shl((Sar(w, 7) \cap 1 .. 4) \cup (Sar(w, 20) \cap 5 .. 10)
                       \cup (Shl(w, 4) \cap {11}) \cup (Sar(w, 19) \cap {12}), 19), 19)
imm_u(w)  == Sar(w, 12)
imm_uj(w) == Sar(Shl((Sar(w, 21) \cap 0 .. 9) \cup (Sar(w, 10) \cap {10})
                       \cup (Sar(w, 1) \cap 11 .. 18) \cup (Sar(w, 12) \cap {19}), 12), 11)

-----------------------------------------------------------------------------
(* The type each opcode, funct3 and funct7 stand for.  "EXIT" is a call of *)
(* exit(), "UNKNOWN" the -1 that is left where no case assigns a type.     *)

Lookup(table, code) ==
  IF \E t \in DOMAIN table : table[t] = code
  THEN CHOOSE t \in DOMAIN table : table[t] = code ELSE "EXIT"

RTypes ==
  [ADD |-> <<0, 0>>, MUL |-> <<0, 1>>, SUB |-> <<0, 32>>, SLL |-> <<1, 0>>, MULH |-> <<1, 1>>,
   SLT |-> <<2, 0>>, XOR |-> <<4, 0>>, DIV |-> <<4, 1>>, SRL |-> <<5, 0>>, SRA |-> <<5, 32>>,
   OR |-> <<6, 0>>, REM |-> <<6, 1>>, AND |-> <<7, 0>>]
RType(w) == Lookup(RTypes, <<funct3(w), funct7(w)>>)

ImmTypes == [ADDI |-> 0, SLLI |-> 1, SLTI |-> 2, SLTIU |-> 3, XORI |-> 4, ORI |-> 6, ANDI |-> 7]
ImmType(w) ==
  IF funct3(w) # 5 THEN Lookup(ImmTypes, funct3(w))
  ELSE CASE Field(w, 26, 31) = 0  -> "SRLI"
         [] Field(w, 26, 31) = 16 -> "SRAI"
         [] OTHER                 -> "EXIT"

BranchTypes == [BEQ |-> 0, BNE |-> 1, BLT |-> 4, BGE |-> 5, BLTU |-> 6, BGEU |-> 7]
BranchType(w) == Lookup(BranchTypes, funct3(w))

\* LWU has no break and falls into the default case.
LoadTypes == [LB |-> 0, LH |-> 1, LW |-> 2, LD |-> 3, LBU |-> 4, LHU |-> 5]
LoadType(w) == Lookup(LoadTypes, funct3(w))

StoreTypes == [SB |-> 0, SH |-> 1, SW |-> 2, SD |-> 3]
StoreType(w) == Lookup(StoreTypes, funct3(w))

SystemType(w) == IF funct3(w) = 0 /\ funct7(w) = 0 THEN "ECALL" ELSE "EXIT"

ByFunct7(w, plain, with32) ==
  CASE funct7(w) = 0 -> plain [] funct7(w) = 32 -> with32 [] OTHER -> "UNKNOWN"

Imm32Type(w) ==
  CASE funct3(w) = 0 -> "ADDIW"
    [] funct3(w) = 1 -> "SLLIW"
    [] funct3(w) = 5 -> ByFunct7(w, "SRLIW", "SRAIW")
    [] OTHER         -> "EXIT"

\* SLLW has no break and falls into the case of SRLW.
Op32Type(w) ==
  CASE funct3(w) = 0        -> ByFunct7(w, "ADDW", "SUBW")
    [] funct3(w) \in {1, 5} -> ByFunct7(w, "SRLW", "SRAW")
    [] OTHER                -> "EXIT"

-----------------------------------------------------------------------------
(* What ID puts into E, before forwarding.                                 *)

Operands(type, dest, reg1, reg2, valA, valB, offset) ==
  [type |-> type, dest |-> dest, reg1 |-> reg1, reg2 |-> reg2,
   valA |-> valA, valB |-> valB, offset |-> offset]

DecodeR(w, reg) ==
  Operands(RType(w), rd(w), rs1(w), rs2(w), reg[rs1(w)], reg[rs2(w)], 0)

Shamt(type, imm) == IF type \in {"SLLI", "SRLI", "SRAI"} THEN imm \cap 0 .. 5 ELSE imm
DecodeImm(w, reg) ==
  Operands(ImmType(w), rd(w), rs1(w), -1, reg[rs1(w)], Value(Shamt(ImmType(w), imm_i(w))), 0)

DecodeJAL(w) ==
  Operands("JAL", rd(w), -1, -1, Value(imm_uj(w)), 0, Value(imm_uj(w)))

DecodeJALR(w, reg) ==
  Operands("JALR", rd(w), rs1(w), -1, reg[rs1(w)], Value(imm_i(w)), 0)

DecodeBranch(w, reg) ==
  Operands(BranchType(w), -1, rs1(w), rs2(w), reg[rs1(w)], reg[rs2(w)], Value(imm_sb(w)))

DecodeLoad(w, reg) ==
  Operands(LoadType(w), rd(w), rs1(w), -1, reg[rs1(w)], Value(imm_i(w)), Value(imm_i(w)))

DecodeStore(w, reg) ==
  Operands(StoreType(w), -1, rs1(w), rs2(w), reg[rs1(w)], reg[rs2(w)], Value(imm_s(w)))

\* LUI and AUIPC.
DecodeUpper(type, w) ==
  Operands(type, rd(w), -1, -1, Value(imm_u(w)), 0, Value(imm_u(w)))

DecodeSystem(w, reg) == Operands(SystemType(w), -1, 10, 17, reg[10], reg[17], 0)

DecodeImm32(w, reg) ==
  Operands(Imm32Type(w), rd(w), rs1(w), -1, reg[rs1(w)], Value(imm_i(w)), 0)

DecodeOp32(w, reg) ==
  Operands(Op32Type(w), rd(w), rs1(w), rs2(w), reg[rs1(w)], reg[rs2(w)], 0)

Decode(w, reg) ==
  CASE opcode(w) = Opcode.R      -> DecodeR(w, reg)
    [] opcode(w) = Opcode.IMM    -> DecodeImm(w, reg)
    [] opcode(w) = Opcode.JAL    -> DecodeJAL(w)
    [] opcode(w) = Opcode.JALR   -> DecodeJALR(w, reg)
    [] opcode(w) = Opcode.BRANCH -> DecodeBranch(w, reg)
    [] opcode(w) = Opcode.LOAD   -> DecodeLoad(w, reg)
    [] opcode(w) = Opcode.STORE  -> DecodeStore(w, reg)
    [] opcode(w) = Opcode.LUI    -> DecodeUpper("LUI", w)
    [] opcode(w) = Opcode.AUIPC  -> DecodeUpper("AUIPC", w)
    [] opcode(w) = Opcode.SYSTEM -> DecodeSystem(w, reg)
    [] opcode(w) = Opcode.IMM32  -> DecodeImm32(w, reg)
    [] opcode(w) = Opcode.OP32   -> DecodeOp32(w, reg)
    [] OTHER                     -> Operands("EXIT", -1, -1, -1, 0, 0, 0)
=============================================================================
