----------------------------- MODULE FlatMemory -----------------------------
(***************************************************************************)
(* What a storage level promises its caller (class Storage, storage.h): a  *)
(* byte-addressed memory in which a read returns what was last written.    *)
(* Nothing about blocks, hits or time is visible here.  An access that     *)
(* touches an address no page was allocated for ends the program.          *)
(***************************************************************************)
EXTENDS Integers

CONSTANTS
  Mapped,    \* the addresses pages were allocated for
  Byte,      \* the values a byte takes
  Accesses   \* the pairs <<addr, bytes>> a program may ask for

VARIABLES
  mem,       \* mem[a] is the byte the program sees at address a
  resp,      \* the last answer: [addr, read, content]
  status     \* "running" or "exit"

vars == <<mem, resp, status>>

Span(a, n) == a .. a + n - 1

NoResponse == [addr |-> 0, read |-> TRUE, content |-> <<>>]

Init ==
  /\ mem \in [Mapped -> Byte]
  /\ resp = NoResponse
  /\ status = "running"

Read(a, n) ==
  /\ status = "running"
  /\ Span(a, n) \subseteq Mapped
  /\ resp' = [addr |-> a, read |-> TRUE, content |-> [i \in 0 .. n - 1 |-> mem[a + i]]]
  /\ UNCHANGED <<mem, status>>

Write(a, n, content) ==
  /\ status = "running"
  /\ Span(a, n) \subseteq Mapped
  /\ resp' = [addr |-> a, read |-> FALSE, content |-> content]
  /\ mem' = [b \in Mapped |-> IF b \in Span(a, n) THEN content[b - a] ELSE mem[b]]
  /\ UNCHANGED status

Exit(a, n) ==
  /\ status = "running"
  /\ ~ (Span(a, n) \subseteq Mapped)
  /\ status' = "exit"
  /\ UNCHANGED <<mem, resp>>

Next ==
  \E access \in Accesses :
    LET a == access[1]
        n == access[2]
    IN  \/ Read(a, n)
        \/ \E content \in [0 .. n - 1 -> Byte] : Write(a, n, content)
        \/ Exit(a, n)

Spec == Init /\ [][Next]_vars

=============================================================================
