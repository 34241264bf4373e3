------------------------- MODULE SequentialMachine -------------------------
(***************************************************************************)
(* The machine a program is written for: one instruction after another,    *)
(* each finished before the next one starts.  Nothing of stages, bubbles,  *)
(* forwarding or prediction is visible here.                               *)
(***************************************************************************)
EXTENDS Instructions

VARIABLES
  prog,          \* the instruction at each address of the code pages
  pc,            \* the address of the next instruction
  reg, mem,      \* registers and data memory
  out,           \* what has been printed
  instructions,  \* how many instructions were executed,
  branches,      \* and how many of them were branches
  status         \* "running" or why it stopped

state == <<reg, mem, out>>
vars == <<prog, pc, state, instructions, branches, status>>

Inst == prog[pc]
Running(ops) == status = "running" /\ Fetchable(prog, pc) /\ Inst.op \in ops

Goto(a) == pc' = NextInstruction(prog, a)
Counted ==
  /\ instructions' = instructions + 1
  /\ branches' = branches + (IF Inst.op \in Branches THEN 1 ELSE 0)
  /\ UNCHANGED <<prog, status>>

\* Register 0 is never written.
Put(r, v) == reg' = IF r = REG_ZERO THEN reg ELSE [reg EXCEPT ![r] = v]

Compute ==
  /\ Running({"ADDI", "ADD"})
  /\ Put(Inst.rd, Wrap(reg[Inst.rs1] + (IF Inst.op = "ADD" THEN reg[Inst.rs2] ELSE Inst.imm)))
  /\ Goto(pc + 4) /\ Counted
  /\ UNCHANGED <<mem, out>>

Load ==
  /\ Running({"LBU"})
  /\ LET a == Wrap(reg[Inst.rs1] + Inst.imm)
     IN  a \in Data /\ Put(Inst.rd, mem[a])
  /\ Goto(pc + 4) /\ Counted
  /\ UNCHANGED <<mem, out>>

Store ==
  /\ Running({"SB"})
  /\ LET a == Wrap(reg[Inst.rs1] + Inst.imm)
     IN  a \in Data /\ mem' = [mem EXCEPT ![a] = reg[Inst.rs2] % ByteMod]
  /\ Goto(pc + 4) /\ Counted
  /\ UNCHANGED <<reg, out>>

Branch ==
  /\ Running(Branches)
  /\ Goto(IF Taken(Inst.op, reg[Inst.rs1], reg[Inst.rs2]) THEN Wrap(pc + Inst.imm) ELSE pc + 4)
  /\ Counted
  /\ UNCHANGED state

Jump ==
  /\ Running(Jumps)
  /\ Put(Inst.rd, pc + 4)
  /\ Goto(Target(Inst, reg[Inst.rs1], pc)) /\ Counted
  /\ UNCHANGED <<mem, out>>

Ecall ==
  /\ Running({"ECALL"})
  /\ LET call == Syscall(mem, reg[REG_A0], reg[REG_A7])
     IN  call.then = "ok" /\ out' = out \o call.print
  /\ Goto(pc + 4) /\ Counted
  /\ UNCHANGED <<reg, mem>>

Stop(why) == status' = why /\ UNCHANGED <<prog, pc, reg, mem, instructions, branches>>

\* The program ends itself.
Exit ==
  /\ Running({"ECALL"})
  /\ LET call == Syscall(mem, reg[REG_A0], reg[REG_A7])
     IN  call.then # "ok" /\ out' = out \o call.print /\ Stop(call.then)

\* The instruction cannot be executed: it has no meaning, it accesses an
\* address without a page ("fault") or the code itself ("cut"), or there is
\* no instruction at pc.
Illegal == Running({"ILLEGAL"}) /\ Stop("illegal") /\ UNCHANGED out

BadAccess ==
  /\ Running({"LBU", "SB"})
  /\ LET a == Wrap(reg[Inst.rs1] + Inst.imm)
     IN  Access(a) # "ok" /\ Stop(Access(a))
  /\ UNCHANGED out

FetchFault ==
  /\ status = "running" /\ ~ Fetchable(prog, pc)
  /\ Stop("fetch") /\ UNCHANGED out

Next == \/ Compute \/ Load \/ Store \/ Branch \/ Jump \/ Ecall
        \/ Exit \/ Illegal \/ BadAccess \/ FetchFault

Init ==
  /\ prog \in [PCs -> Instruction]
  /\ pc = NextInstruction(prog, CodeStart)
  /\ reg = StartReg
  /\ mem \in [Data -> Byte]
  /\ out = << >>
  /\ instructions = 0 /\ branches = 0
  /\ status = "running"

Spec == Init /\ [][Next]_vars
=============================================================================
