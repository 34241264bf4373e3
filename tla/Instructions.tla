---------------------------- MODULE Instructions ----------------------------
(***************************************************************************)
(* The instructions the pipeline tells apart and the address space they    *)
(* run in, shared by the pipeline and by the machine it implements.  An    *)
(* instruction is a record [op, rd, rs1, rs2, imm]; the twelve branches,   *)
(* loads and stores and the thirty computations of the decoder follow one  *)
(* path each through the pipeline and are represented by BEQ and BNE, LBU, *)
(* SB, ADDI and ADD.                                                       *)
(***************************************************************************)
EXTENDS Integers, Sequences, FiniteSetsExt

CONSTANTS
  WordMod,     \* 2^64: registers and addresses are taken modulo WordMod
  ByteMod,     \* 2^8: what SB keeps of a register
  Reg,         \* the registers of the model, REG_ZERO, A0 and A7 among them
  CodeStart,   \* the code pages: first address and size in bytes
  CodeSize,
  Data,        \* the byte addresses of the data pages
  StackStart   \* stack_start

REG_ZERO == 0
REG_SP   == 2
REG_A0   == 10
REG_A7   == 17

Word == 0 .. WordMod - 1
Byte == 0 .. ByteMod - 1
Code == CodeStart .. CodeStart + CodeSize - 1
PCs  == {a \in Code : a % 4 = 0}

ASSUME InstructionsAssumption ==
  /\ WordMod \in Nat \ {0} /\ ByteMod \in 2 .. WordMod
  /\ {REG_ZERO, REG_SP, REG_A0, REG_A7} \subseteq Reg /\ Reg \subseteq Nat
  /\ CodeStart \in Nat /\ CodeSize \in Nat
  /\ CodeStart % 4 = 0 /\ CodeSize % 4 = 0
  /\ CodeStart + CodeSize < WordMod
  /\ Data \subseteq Word \ Code
  /\ StackStart \in Word

Branches == {"BEQ", "BNE"}
Jumps    == {"JAL", "JALR"}
Ops      == {"ADDI", "ADD", "LBU", "SB", "ECALL", "ILLEGAL"} \cup Branches \cup Jumps

\* A word of zeros is what every stage calls a bubble.
ZeroWord == [op |-> "BUBBLE", rd |-> 0, rs1 |-> 0, rs2 |-> 0, imm |-> 0]

Instruction ==
  [op : Ops, rd : Reg, rs1 : Reg, rs2 : Reg, imm : -WordMod .. WordMod] \cup {ZeroWord}

\* The registers main hands to simulate().
StartReg == [r \in Reg |-> IF r = REG_SP THEN StackStart ELSE 0]

Wrap(x) == x % WordMod

\* The branch offset decides BTFNT; its sum with the pc wraps like any other.
Predict(strategy, inst) ==
  /\ inst.op \in Branches
  /\ \/ strategy = "AT"
     \/ strategy = "BTFNT" /\ inst.imm < 0

Target(inst, valA, pc) ==
  IF inst.op = "JALR" THEN (Wrap(valA + inst.imm) \div 2) * 2 ELSE Wrap(pc + inst.imm)

Taken(op, valA, valB) == IF op = "BEQ" THEN valA = valB ELSE valA # valB

\* Fetching outside the code pages ends the program; where it runs into a data
\* page it is followed no further either.
Fetchable(prog, pc) == pc \in DOMAIN prog

\* The first address from pc on that holds an instruction: words of zeros are
\* passed over, and after the last one comes the end of the code.
NextInstruction(prog, pc) ==
  IF pc \notin DOMAIN prog \/ prog[pc] # ZeroWord THEN pc
  ELSE Min({q \in DOMAIN prog : q >= pc /\ prog[q] # ZeroWord} \cup {CodeStart + CodeSize})

\* What accessing a byte at address a does.
Access(a) == IF a \in Data THEN "ok" ELSE IF a \in Code THEN "cut" ELSE "fault"

\* The string at address a: its bytes up to a zero, or up to the address that
\* cannot be read.
StringEnd(mem, a) ==
  Min({b \in a .. WordMod : b \notin Data \/ mem[b] = 0})
StringAt(mem, a) == [i \in 1 .. StringEnd(mem, a) - a |-> mem[a + i - 1]]
StringAccess(mem, a) == Access(StringEnd(mem, a))

\* syscall(valA, valB): what the program prints, and how it goes on.
Syscall(mem, valA, valB) ==
  CASE valB = 0  -> [print |-> StringAt(mem, valA), then |-> StringAccess(mem, valA)]
    [] valB = 1  -> [print |-> << <<"char", valA>> >>, then |-> "ok"]
    [] valB = 2  -> [print |-> << <<"int", valA>> >>, then |-> "ok"]
    [] OTHER     -> [print |-> << >>, then |-> "exit"]
=============================================================================
