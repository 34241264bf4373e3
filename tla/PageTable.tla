----------------------------- MODULE PageTable -----------------------------
(***************************************************************************)
(* The pages of class Memory: a directory of tables of pages, allocated as *)
(* they are needed.  The code splits an address 10 + 10 + 12.              *)
(***************************************************************************)
EXTENDS Integers

CONSTANTS
  DirSize, TabSize, PageSize,  \* 1024, 1024 and 4096 in the code
  NoEntry                      \* a null entry of a directory or a table

AddrMod == DirSize * TabSize * PageSize
Dir == 0 .. DirSize - 1
Tab == 0 .. TabSize - 1
Off == 0 .. PageSize - 1

\* Shifts and masks are written as division and remainder.
PDE(addr) == (addr \div (TabSize * PageSize)) % DirSize
PTENarrow(addr) == (addr \div PageSize) % (TabSize \div 2)  \* faulty: a bit of the mask is missing
PTE(addr) == (addr \div PageSize) % TabSize
OFF(addr) == addr % PageSize

NoPages   == [i \in Dir |-> NoEntry]
EmptyTab  == [j \in Tab |-> NoEntry]
EmptyPage == [k \in Off |-> 0]

\* Tables and directories of pages that hold cells.
TablesOf(cells)      == [Tab -> {NoEntry} \cup [Off -> cells]]
DirectoriesOf(cells) == [Dir -> {NoEntry} \cup TablesOf(cells)]

ASSUME PageTableAssumption ==
  DirSize \in Nat \ {0} /\ TabSize \in Nat \ {0} /\ PageSize \in Nat \ {0}

isValidAddr(memory, addr) ==
  memory[PDE(addr)] # NoEntry /\ memory[PDE(addr)][PTE(addr)] # NoEntry

allocAnew(memory, addr) == \* faulty: a page that is there is replaced
  LET table == IF memory[PDE(addr)] = NoEntry THEN EmptyTab ELSE memory[PDE(addr)]
  IN  [memory EXCEPT ![PDE(addr)] = [table EXCEPT ![PTE(addr)] = EmptyPage]]
alloc(memory, addr) ==
  IF isValidAddr(memory, addr) THEN memory
  ELSE LET table == IF memory[PDE(addr)] = NoEntry THEN EmptyTab ELSE memory[PDE(addr)]
       IN  [memory EXCEPT ![PDE(addr)] = [table EXCEPT ![PTE(addr)] = EmptyPage]]

\* For a valid address; the code ends the process at any other.
store_byte(memory, addr, val) ==
  [memory EXCEPT ![PDE(addr)][PTE(addr)][OFF(addr)] = val]
load_byte(memory, addr) == memory[PDE(addr)][PTE(addr)][OFF(addr)]

Shown(memory) ==
  {x \in Dir \X Tab \X (0 .. (PageSize \div 4) - 1) :
     memory[x[1]] # NoEntry /\ memory[x[1]][x[2]] # NoEntry}

\* The lines of memory.txt: 1024 of the 4096 bytes of every page.
dump_memory(memory) ==
  {<<(x[1] * TabSize + x[2]) * PageSize + x[3], memory[x[1]][x[2]][x[3]]>> : x \in Shown(memory)}
=============================================================================
