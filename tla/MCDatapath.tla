----------------------------- MODULE MCDatapath -----------------------------
(* Every instruction with operands at the corners of its widths, for TLC.   *)
EXTENDS DatapathConformance

MCReg    == {0, 5, 6, 7, 10, 17}
MCMapped == 0 .. 15

\* Tells addresses apart.
MCContents == [a \in MCMapped |-> (3 * a + a \div 4 + 1) % ByteMod]

\* Bytes of two bits: words have eight, registers sixteen.
Corners == {0, 1, 7, 8, 127, 128, 255, 256 + 128, 32767, 32768, 65535}
Few     == {0, 3, 128, 65535}

\* A negative immediate of the given width, and its bits.
Negative(bits, width) == bits \cup (width - 1) .. 31
Imm(low, width) ==
  {{}, Negative({}, width), Negative(low .. width - 1, width), low .. width - 2,
   Negative({low}, width), {low}, {low + 1, low + 2}}
OneBit(low, width) == {{i} : i \in low .. width - 2} \cup {Negative({i}, width) : i \in low .. width - 2}

Ins(op, dest, imm) == [op |-> op, rd |-> dest, rs1 |-> 5, rs2 |-> 6, imm |-> imm]
Regs(a, b) == [r \in MCReg |-> CASE r = 5 -> a [] r = 6 -> b [] r = 7 -> 9 [] r = 17 -> 1 [] OTHER -> 0]
Test(ins_, a, b, at) == [ins |-> ins_, word |-> Encode(ins_), reg |-> Regs(a, b), pc |-> at]

Formats(F) == {op \in Ops : Encoding(op)[1] \in F}
Accesses == DOMAIN IsaBytes

\* Immediates to compute with, by format.
Imms(op) ==
  CASE Encoding(op)[1] = "R"  -> {{}}
    [] Encoding(op)[1] = "I"  -> Imm(0, 12)
    [] Encoding(op)[1] = "S"  -> Imm(0, 12)
    [] Encoding(op)[1] = "S6" -> {{}, {0}, {1, 2}, 0 .. 3}
    [] Encoding(op)[1] = "S5" -> {{}, {0}, {1}, 0 .. 2}
    [] Encoding(op)[1] = "B"  -> Imm(1, 13)
    [] Encoding(op)[1] = "U"  -> {{}, {12}, {15}, 12 .. 15}
    [] Encoding(op)[1] = "J"  -> Imm(1, 21)

RTests  == {Test(Ins(op, dest, {}), a, b, 8) : op \in Formats({"R"}), dest \in {0, 7}, a \in Corners, b \in Corners}
ITests  == UNION {{Test(Ins(op, dest, imm), a, 0, 8) : imm \in Imms(op), dest \in {0, 7}, a \in Corners} :
                    op \in Formats({"I", "S6", "S5"}) \ (Accesses \cup {"ECALL", "FENCE"})}
           \cup {Test([Ins(op, 0, {}) EXCEPT !.rs1 = 0], 0, 0, 8) : op \in {"ECALL", "FENCE"}}
BTests  == {Test(Ins("BEQ", 0, imm), 3, 3, 40) : imm \in Imms("BEQ")}
           \cup {Test(Ins(op, 0, {3}), a, b, 8) : op \in Formats({"B"}), a \in Corners, b \in Corners}
UJTests == UNION {{Test(Ins(op, dest, imm), 0, 0, at) : imm \in Imms(op), dest \in {0, 7}, at \in {8, 65532}} :
                    op \in Formats({"U", "J"})}

\* Accesses of every width at every offset of a block, below and above memory.
\* Those of eight bytes that cross a block are left to the shorter ones.
ATests  == {t \in {Test(Ins(op, 7, imm), a, b, 8) :
                     op \in Accesses, imm \in {{}, {1}, Negative({1, 2}, 12)}, 
                     a \in (0 .. 24) \cup {65534, 32768}, b \in {0, 28049}} :
              t.ins.op = "LD" =>
                (t.reg[5] + Value(t.ins.imm)) % 8 = 0 \/ (t.reg[5] + Value(t.ins.imm)) % 32 > 15}

\* Every bit of every immediate by itself.
BitTests ==
  UNION {{Test(Ins(op, 7, imm), 0, 0, 8) : imm \in OneBit(low, width)} :
           <<op, low, width>> \in {<<"ADDI", 0, 12>>, <<"SD", 0, 12>>, <<"BNE", 1, 13>>,
                                   <<"LUI", 12, 32>>, <<"JAL", 1, 21>>}}

MCTests == RTests \cup ITests \cup BTests \cup UJTests \cup ATests \cup BitTests

\* The strategy makes a difference to branches only.
MCInit == Init /\ (FormatOf(test.ins) = "B" \/ branch_strat = "BTFNT")
MCSpec == MCInit /\ [][Next]_vars
LoadTests == {t \in ATests : t.ins.op \in {"LB", "LH", "LW"}}
=============================================================================
