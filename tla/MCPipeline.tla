----------------------------- MODULE MCPipeline -----------------------------
(* Instances of PipelineRefinement for TLC: every program whose first words *)
(* are taken from a small set of instructions, followed by an exit.        *)
EXTENDS PipelineRefinement, TLC

I(op, rd, rs1, rs2, imm) == [op |-> op, rd |-> rd, rs1 |-> rs1, rs2 |-> rs2, imm |-> imm]

MCReg      == {REG_ZERO, REG_SP, REG_A0, REG_A7}
MCData     == 0 .. 1
MCMemories == {(0 :> 1) @@ (1 :> 0)}

\* A program: a nop, the body, twice a7 := 93 and ecall (a jump may pass over the
\* first a7 := 93, and then the first ecall prints), then what fills the page.
Nop    == I("ADDI", REG_ZERO, REG_ZERO, 0, 0)
Ending == <<I("ADDI", REG_A7, REG_ZERO, 0, 93), I("ECALL", 0, 0, 0, 0)>>

Program(body, fill) ==
  LET text == <<Nop>> \o body \o Ending \o Ending
  IN  [pc \in PCs |-> LET k == (pc - CodeStart) \div 4 + 1
                      IN  IF k <= Len(text) THEN text[k] ELSE fill]

\* All of them with a body of n instructions out of S.
ProgramsOf(S, n, fill) == {Program(body, fill) : body \in [1 .. n -> S]}

\* Values handed from one instruction to the next: through registers, through
\* memory, through x0, to a call and from a load.
DataInsts ==
  <<I("ADDI", REG_A0, REG_ZERO, 0, 1), I("ADDI", REG_A7, REG_A0, 0, 1),
   I("ADDI", REG_ZERO, REG_A0, 0, 5), I("ADD", REG_A0, REG_A0, REG_A7, 0),
   I("LBU", REG_A0, REG_ZERO, 0, 0), I("LBU", REG_A7, REG_A0, 0, 0),
   I("LBU", REG_ZERO, REG_ZERO, 0, 0), I("SB", 0, REG_SP, REG_A7, -1),
   I("SB", 0, REG_A0, REG_A0, 0), I("ECALL", 0, 0, 0, 0)>>

\* Branches both ways, jumps forward and through a register, and a load one of
\* the branches waits for; no load feeds the JALR.
ControlInsts ==
  <<I("BEQ", 0, REG_A0, REG_ZERO, 8), I("BNE", 0, REG_A0, REG_ZERO, -4),
   I("JAL", REG_A7, 0, 0, 8), I("JALR", REG_A0, REG_A7, 0, 4),
   I("ADDI", REG_A0, REG_A0, 0, 1), I("LBU", REG_A0, REG_ZERO, 0, 0)>>

\* Jumps over what is no instruction, to addresses without one, odd and even ones
\* that are no multiple of four among them, and words of zeros, which the pipeline
\* cannot tell from bubbles.
JumpInsts ==
  <<I("JAL", REG_A7, 0, 0, 8), I("JAL", REG_ZERO, 0, 0, -4), I("JALR", REG_A0, REG_A7, 0, 4),
   I("JALR", REG_ZERO, REG_A7, 0, 5), I("JALR", REG_ZERO, REG_A7, 0, 6),
   I("ADDI", REG_A7, REG_A7, 0, 8),
   I("ILLEGAL", 0, 0, 0, 0), ZeroWord>>

\* Branches with a fixed outcome in front of what is no instruction.
ShadowInsts ==
  {I("BEQ", 0, REG_ZERO, REG_ZERO, 8), I("BNE", 0, REG_ZERO, REG_ZERO, 8),
   I("ILLEGAL", 0, 0, 0, 0), Nop}
ShadowPrograms == ProgramsOf(ShadowInsts, 3, Nop)

\* A JALR through a register a load has just fetched.
ReturnInsts ==
  {I("ADDI", REG_A0, REG_ZERO, 0, 1), I("LBU", REG_A7, REG_ZERO, 0, 0),
   I("JALR", REG_ZERO, REG_A7, 0, 12), I("SB", 0, REG_ZERO, REG_A0, 0), Nop}
ReturnPrograms == ProgramsOf(ReturnInsts, 3, Nop)

\* Only forward.
ForwardInsts ==
  <<I("BEQ", 0, REG_A0, REG_ZERO, 8), I("BNE", 0, REG_A0, REG_ZERO, 12),
   I("JAL", REG_A7, 0, 0, 8), I("ADDI", REG_A0, REG_A0, 0, 1),
   I("LBU", REG_A0, REG_ZERO, 0, 0)>>

\* Everything but what ends in the two known ways.  What fills the page may be words
\* of zeros, as it was allocated, or more code.
Families ==
  {[insts |-> DataInsts, n |-> 4, fill |-> Nop], [insts |-> ControlInsts, n |-> 4, fill |-> Nop],
   [insts |-> JumpInsts, n |-> 4, fill |-> ZeroWord]}
  \cup {[insts |-> ForwardInsts, n |-> 4, fill |-> w] : w \in {Nop, ZeroWord}}

\* A family, and which of its instructions stands where in the body.
Picks ==
  {x \in Families \X [1 .. 4 -> 1 .. 10] :
     \A i \in 1 .. 4 : x[2][i] <= IF i <= x[1].n THEN Len(x[1].insts) ELSE 1}
AllPrograms ==
  {Program([i \in 1 .. x[1].n |-> x[1].insts[x[2][i]]], x[1].fill) : x \in Picks}

\* The strategy makes no difference to a program without branches.
HasBranch(text) == \E pc \in PCs : text[pc].op \in Branches
MCInit == Init /\ (HasBranch(prog) \/ branch_strat = "AT")
MCSpec == MCInit /\ [][Next]_vars
=============================================================================
