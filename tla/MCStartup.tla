----------------------------- MODULE MCStartup -----------------------------
(* Programs, command lines and console inputs for TLC: pages of four bytes  *)
(* and sixty-four addresses.                                                *)
EXTENDS StartupProperties

Blob == <<5, 6, 0, 7, 8, 9>>
Segment(type, vaddr, offset, filesz, memsz) ==
  [type |-> type, flags |-> 5, offset |-> offset, vaddr |-> vaddr, filesz |-> filesz, memsz |-> memsz]
Section(name, type, flags, addr, offset, size) ==
  [name |-> name, type |-> type, flags |-> flags, addr |-> addr, offset |-> offset, size |-> size]

Program(class, encoding, segs, names) ==
  LET blob == 11 + 6 * Len(segs)
      d == [magic |-> 127, class |-> class, encoding |-> encoding, entry |-> 18, names |-> names,
            sections |-> <<Section(0, 0, 0, 0, 0, 0), Section(1, 1, 2, 18, blob + 1, 2),
                           Section(3, 3, 0, 0, blob, 5), Section(7, 8, 2, 20, blob + 3, 50)>>,
            segments |-> [i \in DOMAIN segs |-> [segs[i] EXCEPT !.offset = blob + @]],
            blob |-> Blob, size |-> 0]
  IN  [d EXCEPT !.size = Len(Whole(d))]

\* Whole pages; within one; unaligned with and without bytes behind the missed
\* page; above 32 bits; of no size in memory; of no type; over the stack; empty.
Shapes ==
  {Segment(1, 16, 0, 4, 10), Segment(1, 18, 1, 2, 2), Segment(1, 22, 0, 2, 4), Segment(1, 22, 0, 3, 4),
   Segment(1, 64 + 24, 3, 3, 3), Segment(4, 0, 0, 2, 0), Segment(0, 20, 0, 1, 4), Segment(0, 16, 0, 0, 4),
   Segment(1, 38, 0, 4, 6), Segment(2, 0, 0, 0, 0)}
\* At the end of the address space: one whose pages never end, one whose end is 0.
Top == {Segment(1, 56, 0, 2, 7), Segment(1, 56, 0, 2, 8)}

Pairs    == {<<a, b>> : a \in Shapes, b \in Shapes}
Programs ==
  {Program(class, 1, segs, 2) : class \in {1, 2}, segs \in Pairs}
  \cup {Program(2, encoding, <<a>>, names) : encoding \in 0 .. 2, a \in Shapes \cup Top, names \in {0, 1, 2, 4}}

Cuttable == {Program(class, 1, <<Segment(1, 16, 0, 4, 10), Segment(1, 28, 3, 3, 3)>>, 2) : class \in {1, 2}}
Truncated == UNION {{[d EXCEPT !.size = n] : n \in 0 .. Len(Whole(d))} : d \in Cuttable}
Strange == UNION {{[d EXCEPT !.magic = 126], [d EXCEPT !.class = 0], [d EXCEPT !.class = 3],
                   [d EXCEPT !.sections[2].size = 30], [d EXCEPT !.sections[3].size = 60],
                   [d EXCEPT !.segments[1].filesz = 30], [d EXCEPT !.segments[2].filesz = 70]} :
                    d \in Cuttable}

Word(text) == [dash |-> FALSE, letter |-> "", text |-> text]
Flag(letter) == [dash |-> TRUE, letter |-> letter, text |-> "-"]
Scenario(argv, d, stdin, writable) ==
  [argv |-> argv, disk |-> "prog" :> Written(d), stdin |-> stdin, writable |-> writable,
   elf |-> "prog" :> d]

Small == Program(2, 1, <<Segment(1, 16, 0, 4, 6)>>, 2)
Arguments == {Word("prog"), Word("NT"), Flag("s"), Flag("m"), Flag("b"), Flag("v"), Flag("x")}
Inputs == {<<>>, <<"g">>, <<"m", "g", "r">>, <<"r", "x", "g", "m", "g">>}

\* Scenarios by what they are made of.
Options(flag) == <<Word("prog"), Flag(flag), Flag("m")>>
Runs ==
  ({"program"} \X Programs) \cup ({"broken"} \X (Truncated \cup Strange))
  \cup ({"arguments"} \X (SeqOf(Arguments, 2) \cup SeqOf(Arguments \ {Flag("v"), Flag("x")}, 4)))
  \cup {<<"console", flag, stdin, writable>> :
          flag \in {"s", "v", "x"}, stdin \in Inputs, writable \in BOOLEAN}
MCScenarios ==
  [r \in Runs |->
     CASE r[1] = "program"   -> Scenario(<<Flag("v"), Word("prog")>>, r[2], <<>>, TRUE)
       [] r[1] = "broken"    -> Scenario(<<Word("prog")>>, r[2], <<>>, TRUE)
       [] r[1] = "arguments" -> Scenario(r[2], Small, <<"g">>, TRUE)
       [] r[1] = "console"   -> Scenario(Options(r[2]), Small, r[3], r[4])]
MCEvicted == {16, 48}
LooseEnds ==
  [s \in {Segment(1, 22, 0, 2, 4), Segment(1, 20, 0, 2, 6)} |->
     Scenario(<<Word("prog")>>, Program(2, 1, <<s>>, 2), <<>>, TRUE)]
=============================================================================
