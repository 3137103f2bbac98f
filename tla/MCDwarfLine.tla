---------------------------- MODULE MCDwarfLine ----------------------------
(* Line sections for DwarfLine: short programs over all the opcodes in one
   unit, pairs of units for the lookups, and lengths that lead the cursor out
   of the order of the bytes.  The offsets follow from the opcodes.           *)
EXTENDS DwarfLine

\* An opcode; skew is what the length of an extended one has too much.
opcode(o, a, n, d) == [op |-> o, arg |-> a, bytes |-> n, skew |-> d]
op(o) == opcode(o, 0, 0, 0)
op1(o, a) == opcode(o, a, 0, 0)
ext(o, a, d) == opcode(o, a, 0, d)
addressOf(a, n) == opcode("set_address", a, n, 0)
fileOf(n, d) == [name |-> n, dir |-> d]
End == ext("end_sequence", 0, 0)

\* skewed headers and units likewise: in front of the program, at the end; and
\* the bytes in front of the unit.
Unit(v, prog) ==
  [version |-> v, wide |-> FALSE, isStmt |-> TRUE, minInst |-> 2, maxOps |-> 1,
   lineBase |-> -1, lineRange |-> 100, opcodeBase |-> 13, dirs |-> <<"lib">>,
   files |-> <<fileOf("a.c", 0), fileOf("b.c", 1)>>, prog |-> prog,
   headerSkew |-> 0, skew |-> 0, gap |-> 0]

(* Layout *)
width(o) ==
  CASE o.op \in {"special", "copy", "const_add_pc", "negate_stmt", "set_flag", "unknown", "cut"} -> 1
    [] o.op \in {"advance_pc", "advance_line", "set_file", "set_register"} -> 2
    [] o.op \in {"fixed_advance_pc", "end_sequence"} -> 3
    [] o.op = "set_discriminator" -> 4
    [] o.op = "set_address" -> 3 + o.bytes
    [] o.op = "define_file" -> 4 + 5 * Len(o.arg)
placed(o, start) ==
  LET e == start + width(o) IN
    [op |-> o.op, arg |-> o.arg, bytes |-> o.bytes, off |-> start, end |-> e,
     body |-> start + 2, len |-> (e - (start + 2) + o.skew) % Mod32]
\* Behind the last element of a sequence that starts somewhere.
behind(q, start) == IF q = <<>> THEN start ELSE q[Len(q)].end
RECURSIVE program(_, _)
program(prog, start) ==
  IF prog = <<>> THEN <<>>
  ELSE LET o == placed(Head(prog), start) IN <<o>> \o program(Tail(prog), o.end)
laid(u, start) ==
  LET h == start + u.gap
      p == program(u.prog, h + 20)
      e == behind(p, h + 20)
  IN [version |-> u.version, wide |-> u.wide, isStmt |-> u.isStmt, minInst |-> u.minInst,
      maxOps |-> u.maxOps, lineBase |-> u.lineBase, lineRange |-> u.lineRange,
      opcodeBase |-> u.opcodeBase, dirs |-> u.dirs, files |-> u.files,
      prog |-> p, head |-> h, body |-> h + 4, lead |-> h + 10, tables |-> h + 20, end |-> e,
      headerLength |-> (10 + u.headerSkew) % Mod64, length |-> (e - (h + 4) + u.skew) % Mod64]
RECURSIVE units(_, _)
units(us, start) ==
  IF us = <<>> THEN <<>>
  ELSE LET u == laid(Head(us), start) IN <<u>> \o units(Tail(us), u.end)
section(b, us) ==
  LET l == units(us, 0) IN [big |-> b, size |-> behind(l, 0), units |-> l]
little(S) == {section(FALSE, us) : us \in S}
one(S) == little({<<u>> : u \in S})

(* Programs *)
\* operation 3 of an instruction of two: VLIW
Wide(prog) == [Unit(4, prog) EXCEPT !.maxOps = 2, !.wide = TRUE, !.isStmt = FALSE]

\* special opcodes: line +0 and operation +1; line +4, operation +2
Moves ==
  {op1("special", 101), op1("special", 205), op("copy"), op1("advance_pc", 3),
   op1("advance_line", -1), op1("set_file", 2), op("const_add_pc"),
   op1("fixed_advance_pc", 1), addressOf(8, 4), ext("set_discriminator", 1, 0)}
Others ==
  {op("negate_stmt"), op1("set_flag", "PROLOGUE_END"), op("set_register"),
   ext("define_file", <<fileOf("c.h", 1)>>, 0), ext("define_file", <<fileOf("a.c", 0), fileOf("c.h", 0)>>, 0),
   op1("set_file", 3), op1("set_file", Mod32 + 1), op1("advance_line", -3), op1("advance_line", Half32),
   op1("advance_pc", (Mod64 \div 2) - 1), op("unknown"), op("cut")}

\* One unit: three opcodes and the end of the sequence; with other opcodes, with
\* no end, with no program, with a directory or a version that is not known.
Programs ==
  {<<x, y, z, End>> : x, y, z \in Moves}
Odd ==
  {<<x, y, End>> : x \in Others, y \in Moves \cup Others} \cup {<<op("copy")>>, <<>>}
    \cup {<<op("copy"), x, y, op("copy"), End>> : x, y \in Others}
BadDir == [Unit(4, <<End>>) EXCEPT !.files = <<fileOf("a.c", 2)>>]
OneUnit ==
  one({Unit(4, p) : p \in Programs \cup Odd} \cup {Wide(p) : p \in Programs}
      \cup {BadDir, Unit(6, <<End>>)})
    \cup {section(FALSE, <<>>)}

\* Several units: code that overlaps, touches or is apart, the same file twice.
At(a, o) == <<addressOf(a, 4), op("copy"), o, op("copy"), op1("advance_pc", 1), End>>
Bodies == {op1("special", 205), op1("advance_pc", 2), op1("set_file", 2)}
Twice == [Unit(4, At(2, op1("special", 205))) EXCEPT !.files = @ \o @]
Units == {Unit(4, At(a, o)) : a \in {0, 4, 6}, o \in Bodies} \cup {Twice, Unit(4, <<>>)}
Pairs == {<<u, v>> : u, v \in Units} \cup {<<u, v, Unit(4, At(12, op("copy")))>> : u, v \in Units}

Probes == 0..20

(* Numbers at their limits *)
\* Divisors of 0; operands of 64 bits in the 32-bit and the 64-bit format.
Zeros ==
  {[Unit(4, <<x, End>>) EXCEPT !.maxOps = m, !.lineRange = r] :
     x \in Moves, m \in {0, 1}, r \in {0, 100}}
Far(b, w, a) ==
  section(b, <<[Unit(4, <<addressOf(a, 8), op("copy"), op1("advance_pc", 1), End>>) EXCEPT !.wide = w]>>)
Fars == {Far(b, w, a) : b, w \in BOOLEAN, a \in {4, Mod32 + 4, Mod64 - 2}}

(* Lengths that do not agree with what they measure *)
Jump(e, d) == [e EXCEPT !.skew = d]
Skews == {-5, -4, -2, -1, 1, 2, 3, 100, 240, 400}
\* Read from its opcode on, set_discriminator 1 is set_file 1.
Jumps ==
  {<<x, Jump(e, d), op("copy"), op1("advance_pc", 1), End>> :
     x \in {op("copy"), op1("advance_pc", 1)}, d \in Skews,
     e \in {ext("set_discriminator", 1, 0), addressOf(8, 4), ext("define_file", <<fileOf("c.h", 1)>>, 0)}}
    \cup {<<op("copy"), Jump(End, d)>> : d \in Skews}
Hidden ==
  LET s == section(FALSE, <<Unit(4, <<ext("set_discriminator", 1, -2), op("copy"), End>>)>>)
      o == s.units[1].prog[1]
  IN [s EXCEPT !.units[1].prog = Append(@, [o EXCEPT !.op = "set_file", !.off = o.body])]

Lost == <<op("copy"), op1("special", 101), op("copy"), End>>
HeaderSkews == {-10, -9, -1, 1, 2, 3, 7, 100, Mod64 - 10, Mod64 - 20, Mod64 - 30}
UnitSkews == {-22, -4, -1, 1, 20, 300, Mod64 - 26, Mod64 - 200}
Misfits ==
  {[Unit(4, Lost) EXCEPT !.headerSkew = d] : d \in HeaderSkews}
    \cup {[Unit(4, Lost) EXCEPT !.skew = d] : d \in UnitSkews}
Chains ==
  {<<u, Unit(4, Lost)>> : u \in Misfits} \cup {<<Unit(4, Lost), u>> : u \in Misfits}
    \cup {<<[Unit(4, Lost) EXCEPT !.skew = d], [Unit(4, Lost) EXCEPT !.gap = d]>> : d \in {1, 5}}

\* The cases the documentation is held against.
TwoSequences == little({<<Unit(4, At(0, op("copy")) \o At(8, op("copy")))>>})
Version5 == one({Unit(5, <<op("copy"), op1("advance_pc", 1), End>>)})
HeaderOnly == one({Unit(4, <<>>)})
TwoRows == one({Unit(4, <<op("copy"), op1("advance_pc", 1), op("copy"), End>>)})
Turning == one({Unit(4, <<Jump(ext("set_discriminator", 1, 0), -4), End>>)})

Every ==
  OneUnit \cup little(Pairs) \cup TwoSequences \cup Version5 \cup HeaderOnly
    \cup one(Zeros) \cup Fars \cup one({Unit(4, At(70, op("copy")))})
    \cup one({Unit(4, p) : p \in Jumps}) \cup {Hidden} \cup Turning
    \cup one(Misfits) \cup little(Chains)
\* TLC keeps the value of a definition, but not of the one it puts for a constant.
All == Every
=============================================================================
