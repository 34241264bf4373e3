------------------------------ MODULE Datapath ------------------------------
(***************************************************************************)
(* One instruction on its way through IF, ID, EX, MEM and WB with nothing  *)
(* else in the pipeline: what every instruction computes, at a small       *)
(* width.  Pipeline shows that instructions in flight together do what     *)
(* they do one after another, and CacheHierarchy that the caches answer as *)
(* the memory: here memory is bytes, and what a cache line cuts off.       *)
(***************************************************************************)
EXTENDS Decoder

CONSTANTS
  AddrLen,      \* bits of an address of HandleRequest: 32 in the code
  BlockSize,    \* bytes of a cache block
  Mapped,       \* the addresses memory has pages for
  Contents,     \* what memory holds at them
  Reg,          \* the registers of the model, 10 and 17 among them
  Tests         \* instructions with the state to run them in: [ins, word, reg, pc]

Modulus    == Two[XLen]
WordMod    == Two[WordLen]
ByteMod    == Two[ByteWidth]
Byte       == 0 .. ByteMod - 1
Double     == 0 .. Modulus - 1
Strategies == {"AT", "NT", "BTFNT"}

ASSUME DatapathAssumption ==
  /\ AddrLen \in 1 .. XLen /\ BlockSize \in Nat \ {0}
  /\ Mapped \subseteq 0 .. Two[AddrLen] - 1 /\ Contents \in [Mapped -> Byte]
  /\ \A a \in Mapped : \A k \in 0 .. BlockSize - 1 : (a \div BlockSize) * BlockSize + k \in Mapped
  /\ {0, 10, 17} \subseteq Reg /\ Reg \subseteq 0 .. 31
  /\ \A t \in Tests :
       /\ t.word \subseteq Bit
       /\ t.reg \in [Reg -> Double] /\ t.reg[0] = 0 /\ t.reg[17] # 0   \* no call that reads a string
       /\ t.pc \in Double /\ t.pc % 4 = 0                               \* IF ends at any other pc

VARIABLES
  reg, mem, pc,   \* registers, memory, and where the fetch goes on
  latch,          \* the pipeline register in front of the stage
  stage,          \* "IF" ... "WB", "done"; "exit" or "crash" once the process has ended
  branch_strat,
  test, before    \* history: the test and the state it began in

vars == <<reg, mem, pc, latch, stage, branch_strat, test, before>>

Wrap(x) == x % Modulus
Signed(x, bits) == IF x < Two[bits - 1] THEN x ELSE x - Two[bits]
Low(x) == x % WordMod                    \* (uint32_t)x
Signed32(x) == Signed(Low(x), WordLen)   \* (int32_t)x
Signed64(x) == Signed(x, XLen)           \* (int64_t)x
Truth(b) == IF b THEN 1 ELSE 0
Bits(x) == {i \in 0 .. XLen - 1 : (x \div Two[i]) % 2 = 1}

Init ==
  /\ test \in Tests /\ branch_strat \in Strategies
  /\ reg = test.reg /\ pc = test.pc
  /\ mem = Contents
  /\ stage = "IF" /\ latch = <<>>
  /\ before = [reg |-> reg, mem |-> mem, pc |-> pc]

Pass(to, contents) == stage' = to /\ latch' = contents

-----------------------------------------------------------------------------

Predict(offset) ==
  CASE branch_strat = "NT"    -> FALSE
    [] branch_strat = "AT"    -> TRUE
    [] branch_strat = "BTFNT" -> ~ Signed64(offset) >= 0

IF_ ==
  /\ stage = "IF"
  /\ LET w      == test.word
         branch == opcode(w) = Opcode.BRANCH
         target == Wrap(pc + Value(imm_sb(w)))
         taken  == branch /\ Predict(Value(imm_sb(w)))
     IN  /\ pc' = IF taken THEN target ELSE Wrap(pc + 4)
         /\ Pass("ID", [inst |-> w, pc |-> pc, take_branch |-> taken,
                        PCnottaken |-> IF branch /\ ~ taken THEN target ELSE Wrap(pc + 4)])
  /\ UNCHANGED <<reg, mem, branch_strat, test, before>>

End(how) == stage' = how /\ UNCHANGED <<reg, mem, pc, latch>>

\* What ID hands to EX: its own fields and those of IF.
Carried(x, d) ==
  [type |-> x.type, dest |-> x.dest, valA |-> x.valA, valB |-> x.valB, offset |-> x.offset,
   pc |-> d.pc, PCnottaken |-> d.PCnottaken, take_branch |-> d.take_branch]

\* inst_name[-1] is a string that is none: its copy may end the process or do
\* nothing; the instruction then goes on as one without a case in EX.
ID ==
  /\ stage = "ID"
  /\ \E x \in {Decode(latch.inst, reg)} :
       \/ x.type = "EXIT" /\ End("exit")
       \/ x.type = "UNKNOWN" /\ End("crash")
       \/ /\ x.type # "EXIT"
          /\ Pass("EX", Carried(x, latch))
          /\ UNCHANGED <<reg, mem, pc>>
  /\ UNCHANGED <<branch_strat, test, before>>

-----------------------------------------------------------------------------
(* EX.  The shift instructions of the host take the count modulo the width *)
(* of what they shift, which is what the build makes of a count the        *)
(* language leaves undefined.                                              *)

Quotient(a, b) ==
  LET q == (IF a < 0 THEN -a ELSE a) \div (IF b < 0 THEN -b ELSE b)
  IN  IF (a < 0) = (b < 0) THEN q ELSE -q

\* The division instruction of the host traps.
Traps(x) ==
  x.type = "DIV" /\ (x.valB = 0 \/ (Signed64(x.valA) = -Two[XLen - 1] /\ Signed64(x.valB) = -1))

Branches == {"BEQ", "BNE", "BLT", "BGE", "BLTU", "BGEU"}
Taken(x) ==
  CASE x.type = "BEQ"  -> x.valA = x.valB
    [] x.type = "BNE"  -> x.valA # x.valB
    [] x.type = "BLT"  -> Signed64(x.valA) < Signed64(x.valB)
    [] x.type = "BGE"  -> Signed64(x.valA) >= Signed64(x.valB)
    [] x.type = "BLTU" -> x.valA < x.valB
    [] x.type = "BGEU" -> x.valA >= x.valB
    [] OTHER           -> FALSE

MemLen == [LB |-> 1, LBU |-> 1, SB |-> 1, LH |-> 2, LHU |-> 2, SH |-> 2, LW |-> 4, SW |-> 4,
           LD |-> 8, SD |-> 8]
Loads  == {"LB", "LH", "LW", "LD", "LBU", "LHU"}
Stores == {"SB", "SH", "SW", "SD"}

SarLogical(type, a, b) == Wrap(a \div Two[b % XLen]) \* faulty: SRA without the sign
RightShift(type, a, b) ==
  CASE type \in {"SRLI", "SRL"}   -> a \div Two[b % XLen]
    [] type \in {"SRAI", "SRA"}   -> Wrap(Signed64(a) \div Two[b % XLen])
    [] type \in {"SRLIW", "SRLW"} -> Low(a) \div Two[b % WordLen]
    [] type \in {"SRAIW", "SRAW"} -> Wrap(Signed32(a) \div Two[b % WordLen])

WordSum(type, a, b) ==
  CASE type \in {"ADDIW", "ADDW"} -> Wrap(Signed32(Signed32(a) + Signed32(b)))
    [] type = "SUBW"              -> Wrap(Signed32(Signed32(a) - Signed32(b)))

\* valE; the types without a case leave it zero.
Computed(x) ==
  LET a == x.valA
      b == x.valB
      t == x.type
  IN  CASE t = "LUI"                      -> Wrap(x.offset * 4096)
        [] t = "AUIPC"                    -> Wrap(x.pc + x.offset * 4096)
        [] t \in {"JAL", "JALR"}          -> Wrap(x.pc + 4)
        [] t \in Branches                 -> IF Taken(x) THEN Wrap(x.pc + x.offset) ELSE 0
        [] t \in Loads \cup Stores        -> Wrap(a + x.offset)
        [] t \in {"ADDI", "ADD"}          -> Wrap(a + b)
        [] t \in {"ADDIW", "ADDW", "SUBW"} -> WordSum(t, a, b)
        [] t = "SUB"                      -> Wrap(a - b)
        [] t = "MUL"                      -> Wrap(Signed64(a) * Signed64(b))
        [] t = "DIV"                      -> Wrap(Quotient(Signed64(a), Signed64(b)))
        [] t \in {"SLTI", "SLT"}          -> Truth(Signed64(a) < Signed64(b))
        [] t = "SLTIU"                    -> Truth(a < b)
        [] t \in {"XORI", "XOR"}          -> Unsigned((Bits(a) \ Bits(b)) \cup (Bits(b) \ Bits(a)), XLen)
        [] t \in {"ORI", "OR"}            -> Unsigned(Bits(a) \cup Bits(b), XLen)
        [] t \in {"ANDI", "AND"}          -> Unsigned(Bits(a) \cap Bits(b), XLen)
        [] t \in {"SLLI", "SLL"}          -> Wrap(a * Two[b % XLen])
        [] t = "SLLIW"                    -> Wrap(Signed32(a * Two[b % XLen]))
        [] t \in {"SRLI", "SRL", "SRAI", "SRA", "SRLIW", "SRLW", "SRAIW", "SRAW"} ->
             RightShift(t, a, b)
        [] OTHER                          -> 0

\* The cases that set reg_write; MULH, REM and what has no name have none.
Writes(x) == x.type \notin Branches \cup Stores \cup {"ECALL", "MULH", "REM", "UNKNOWN"}

\* The value of a store, cut to its width.
StoreValue(x) == IF x.type \in Stores \ {"SD"} THEN x.valB % Two[ByteWidth * MemLen[x.type]] ELSE x.valB

JumpTarget(x) ==
  IF x.type = "JAL" THEN Wrap(x.pc + x.valA) ELSE 2 * (Wrap(x.valA + x.valB) \div 2)

\* The calls that print go on, every other one ends the process.
EX ==
  /\ stage = "EX"
  /\ IF Traps(latch) THEN End("crash")
     ELSE IF latch.type = "ECALL" /\ latch.valB \notin {1, 2} THEN End("exit")
     ELSE /\ Pass("MEM", [type |-> latch.type, destReg |-> latch.dest,
                          reg_write |-> Writes(latch), valE |-> Computed(latch),
                          valB |-> StoreValue(latch)])
          /\ pc' = CASE latch.type \in Branches /\ Taken(latch) # latch.take_branch ->
                          latch.PCnottaken
                     [] latch.type \in {"JAL", "JALR"} -> JumpTarget(latch)
                     [] OTHER -> pc
          /\ UNCHANGED <<reg, mem>>
  /\ UNCHANGED <<branch_strat, test, before>>

-----------------------------------------------------------------------------
(* MEM.  HandleRequest takes 32 bits of the address; of an access that     *)
(* crosses the end of its block the bytes behind it are whatever lies      *)
(* behind the line in the host: a load finds any bytes, a store loses them.*)

Address(x) == x % Two[AddrLen]
Inside(addr, i) == (addr % BlockSize) + i < BlockSize

Outside(addr, n) == {i \in 0 .. n - 1 : ~ Inside(addr, i)}

Content(addr, n, junk) ==
  [i \in 0 .. n - 1 |-> IF Inside(addr, i) THEN mem[addr + i] ELSE junk[i]]

Stored(addr, n, val) ==
  [a \in Mapped |-> IF a \in addr .. addr + n - 1 /\ Inside(addr, a - addr)
                    THEN (val \div Two[ByteWidth * (a - addr)]) % ByteMod ELSE mem[a]]

\* Little endian; the bytes above the width are zero, whatever mem_signed says.
Extended(content, n) == Joined(content, ByteWidth, n)

ToWB(valM) ==
  Pass("WB", [destReg |-> latch.destReg, reg_write |-> latch.reg_write, valM |-> valM])

MEM ==
  /\ stage = "MEM"
  /\ LET addr == Address(latch.valE)
         n    == MemLen[latch.type]
     IN  CASE latch.type \in Loads \cup Stores /\ addr \notin Mapped -> End("exit")
           [] latch.type \in Loads /\ addr \in Mapped ->
                /\ \E junk \in [Outside(addr, n) -> Byte] : ToWB(Extended(Content(addr, n, junk), n))
                /\ UNCHANGED <<reg, mem, pc>>
           [] latch.type \in Stores /\ addr \in Mapped ->
                /\ mem' = Stored(addr, n, latch.valB)
                /\ ToWB(latch.valE)
                /\ UNCHANGED <<reg, pc>>
           [] OTHER -> ToWB(latch.valE) /\ UNCHANGED <<reg, mem, pc>>
  /\ UNCHANGED <<branch_strat, test, before>>

PutsAny(w) == w.reg_write \* faulty: writes x0
Puts(w) == w.reg_write /\ w.destReg # 0

WB ==
  /\ stage = "WB"
  /\ Pass("done", <<>>)
  /\ reg' = IF Puts(latch)
            THEN [reg EXCEPT ![latch.destReg] = latch.valM] ELSE reg
  /\ UNCHANGED <<mem, pc, branch_strat, test, before>>

Next == IF_ \/ ID \/ EX \/ MEM \/ WB

Spec == Init /\ [][Next]_vars
=============================================================================
