----------------------------- MODULE DwarfLine -----------------------------
(***************************************************************************)
(* The constructor of gel::dwarf::DebugLine (dwarf_DebugLine.cpp): a loop  *)
(* over the units of the .debug_line section, and in each unit a loop over *)
(* the opcodes of its line program, run by a state machine that records    *)
(* rows.  Any exception of a read or of an unknown code gives the object   *)
(* up.                                                                     *)
(*                                                                         *)
(* A section is what its bytes hold at the offsets a cursor may come to: a *)
(* header, with the opcodes of its unit, at some of them, and nothing the  *)
(* code knows at the others.  off is the cursor, a byte offset, which the  *)
(* lengths in the section move forward and back.                           *)
(***************************************************************************)
EXTENDS DebugLine, Descent

CONSTANTS
  Sections,   \* contents of .debug_line a behaviour may read
  Half32,     \* 2^31
  MaxUnits,   \* bound: units that are read
  MaxRows,    \* bound: rows of a unit
  Addresses   \* the addresses a client looks up

Mod32 == 2 * Half32
Mod64 == Mod32 * Mod32
AsInt(n) == IF n < Half32 THEN n ELSE n - Mod32    \* 32 bits, taken for an int

\* Opcodes with an argument.  "special" stands for the opcodes from opcode_base
\* on, its argument being opcode - opcode_base; "set_register" for set_column
\* and set_isa; "set_flag" for basic_block, prologue_end and epilogue_begin;
\* "unknown" for a code of no case; "cut" for an operand past the section's end.
\* The argument of define_file is the entries that readFile() reads there, and
\* that of set_address has a width in bytes.
Flags == {"BASIC_BLOCK", "PROLOGUE_END", "EPILOGUE_BEGIN"}
Extended == {"end_sequence", "set_address", "define_file", "set_discriminator"}
Entries == Seq([name : STRING, dir : Nat])
Op(o) ==
  \/ o.op \in {"copy", "negate_stmt", "const_add_pc", "end_sequence",
               "set_register", "unknown", "cut"}
  \/ o.op = "special" /\ o.arg \in 0..255
  \/ o.op \in {"advance_pc", "fixed_advance_pc", "set_file", "set_discriminator"} /\ o.arg \in Nat
  \/ o.op = "set_address" /\ o.bytes \in {4, 8} /\ o.arg \in 0..(Mod64 - 1)
  \/ o.op = "advance_line" /\ o.arg \in Int
  \/ o.op = "set_flag" /\ o.arg \in Flags
  \/ o.op = "define_file" /\ o.arg \in Entries

\* A unit, the entries of its tables being those that have a name (486).
WellShaped(u) ==
  /\ u.version \in 2..6 /\ u.wide \in BOOLEAN /\ u.isStmt \in BOOLEAN
  /\ u.minInst \in 0..255 /\ u.maxOps \in 0..255
  /\ u.lineBase \in -128..127 /\ u.lineRange \in 0..255 /\ u.opcodeBase \in 0..255
  /\ u.dirs \in Seq(STRING) /\ u.files \in Entries
  /\ u.prog \in Seq({u.prog[i] : i \in DOMAIN u.prog})
  /\ \A i \in DOMAIN u.prog : Op(u.prog[i])

\* Its offsets: of the header, behind unit_length, behind header_length, behind
\* the tables; of each opcode, behind it, and behind the length of an extended one.
Laid(s, u) ==
  /\ {u.head, u.body, u.lead, u.tables, u.length, u.headerLength} \subseteq Nat
  /\ u.head < u.body /\ u.body <= u.lead /\ u.lead <= u.tables /\ u.tables <= s.size
  /\ \A i \in DOMAIN u.prog :
       LET o == u.prog[i] IN
         /\ o.off \in Nat /\ o.end \in Nat /\ o.off < o.end /\ o.end <= s.size
         /\ o.op \in Extended => /\ o.body \in Nat /\ o.len \in Nat
                                 /\ o.off < o.body /\ o.body <= o.end

ASSUME SectionsAssumption ==
  \A s \in Sections :
    /\ s.size \in Nat /\ s.big \in BOOLEAN
    /\ \A n \in DOMAIN s.units : WellShaped(s.units[n]) /\ Laid(s, s.units[n])
ASSUME WidthsAssumption == Half32 \in Nat \ {0}
ASSUME AddressesAssumption == Addresses \subseteq Nat

VARIABLES
  sect,    \* the section that is read
  at,      \* "unit", "program"; then "built", "thrown" or "undefined"
  off,     \* c.offset()
  from,    \* the unit of the section whose header was read last
  sm,      \* StateMachine
  rows,    \* _lines of the unit that is read
  paths,   \* _files of the unit that is read
  cus,     \* _cus: the units added so far, each with the unit it comes from
  files    \* _files: the units of each source file

vars == <<sect, at, off, from, sm, rows, paths, cus, files>>

cur == Len(cus) + 1        \* the unit that is built
unit == sect.units[from]

\* The opcode of a unit at an offset; one more than it has if there is none.
place(u, o) ==
  LET here == {k \in DOMAIN u.prog : u.prog[k].off = o} IN
    IF here = {} THEN Len(u.prog) + 1 ELSE CHOOSE k \in here : TRUE
pc == place(unit, off)

(***************************************************************************)
(* The header.                                                             *)
(***************************************************************************)
include_directories(u) == <<".">> \o u.dirs

\* The path of an entry of the file table.  Before version 5 a directory of
\* the table is not compared with its length.
pathDefined(u, f) == u.version < 5 => f.dir <= Len(u.dirs)
path(u, f) ==
  IF f.dir <= Len(u.dirs) THEN <<include_directories(u)[f.dir + 1], f.name>>
                          ELSE <<".", f.name>>

\* A unit with the paths of some entries.
tablePaths(u, fs) == [i \in DOMAIN fs |-> path(u, fs[i])]

\* Mutant: a file that is known already is not told of the new unit.
addFilesOnce(ps) ==
  /\ paths' = paths \o ps
  /\ files' = [p \in DOMAIN files \cup {ps[i] : i \in DOMAIN ps} |->
                 IF p \in DOMAIN files THEN files[p] ELSE <<cur>>]

\* readFile() for a table of paths: files().get(), add(), cu->add().
addFiles(ps) ==
  /\ paths' = paths \o ps
  /\ files' = [p \in DOMAIN files \cup {ps[i] : i \in DOMAIN ps} |->
                 (IF p \in DOMAIN files THEN files[p] ELSE <<>>)
                    \o [k \in 1..Cardinality({i \in DOMAIN ps : ps[i] = p}) |-> cur]]

initialSM(u) ==
  [address |-> 0, op_index |-> 0, file |-> 1, line |-> 1, discriminator |-> 0,
   end_sequence |-> FALSE, flags |-> IF u.isStmt THEN {"IS_STMT"} ELSE {}]

addTable(u, fs) ==
  IF \A i \in DOMAIN fs : pathDefined(u, fs[i])
  THEN addFiles(tablePaths(u, fs)) /\ at' = "program"
  ELSE at' = "undefined" /\ UNCHANGED <<paths, files>>

\* Where a unit ends, counted in 64 bits; where its program starts, behind its
\* tables if header_length leads out of the section; whether it has one.
endOf(u) == (u.body + u.length) % Mod64
linesAt(u) == (u.lead + u.headerLength) % Mod64
programAt(s, u) == IF linesAt(u) <= s.size THEN linesAt(u) ELSE u.tables
enters(s, u) == programAt(s, u) < endOf(u)

\* The exception leaves the constructor: the base class deletes all.
Throw ==
  /\ at' = "thrown"
  /\ rows' = <<>> /\ paths' = <<>> /\ cus' = <<>> /\ files' = <<>>
  /\ UNCHANGED <<sect, off, from, sm>>

\* A header at the cursor that the code knows how to read.
readable == {n \in DOMAIN sect.units : sect.units[n].head = off /\ sect.units[n].version <= 5}

ReadHeader ==
  /\ at = "unit" /\ off < sect.size /\ Len(cus) < MaxUnits
  /\ \E n \in readable :
       LET u == sect.units[n] IN
         /\ from' = n /\ sm' = initialSM(u) /\ off' = programAt(sect, u)
         /\ addTable(u, u.files)
  /\ UNCHANGED <<sect, rows, cus>>

HeaderThrows ==
  /\ at = "unit" /\ off < sect.size
  /\ readable = {}
  /\ Throw

(***************************************************************************)
(* The line program.                                                       *)
(***************************************************************************)
\* Mutant: the operation index is not wrapped.
advancePCUnwrapped(u, s, adv) ==
  LET ops == (s.op_index + adv) % Mod64 IN
    [s EXCEPT !.address = (@ + u.minInst * (ops \div u.maxOps)) % Mod64, !.op_index = ops]

advancePC(u, s, adv) ==
  IF u.maxOps = 1 THEN [s EXCEPT !.address = (@ + u.minInst * adv) % Mod64]
  ELSE LET ops == (s.op_index + adv) % Mod64 IN
         [s EXCEPT !.address = (@ + u.minInst * (ops \div u.maxOps)) % Mod64,
                   !.op_index = ops % u.maxOps]

advanceLine(s, adv) == [s EXCEPT !.line = (@ + adv) % Mod32]

\* Mutant: quotient and remainder are swapped.
specialSwapped(u, s, code) ==
  advancePC(u, advanceLine(s, u.lineBase + (code \div u.lineRange)), code % u.lineRange)

special(u, s, code) ==
  advancePC(u, advanceLine(s, u.lineBase + (code % u.lineRange)), code \div u.lineRange)

\* The first word of the operand only, in the 32-bit format.
readAddress(s, u, o) ==
  IF u.wide \/ o.bytes = 4 THEN o.arg
  ELSE IF s.big THEN o.arg \div Mod32 ELSE o.arg % Mod32

\* recordLine() in state s.  files()[file - 1] is not compared with the length
\* of the table.
row(s) ==
  [addr |-> s.address, file |-> paths[s.file], line |-> AsInt(s.line), flags |-> s.flags,
   disc |-> s.discriminator % 256, opi |-> s.op_index % 256]
recordLine(s, ends) ==
  IF s.file \in DOMAIN paths
  THEN /\ rows' = Append(rows, row(s))
       /\ sm' = [s EXCEPT !.flags = @ \cup Flags, !.discriminator = 0, !.end_sequence = ends]
       /\ UNCHANGED at
  ELSE at' = "undefined" /\ UNCHANGED <<rows, sm>>

\* Mutant: the length of an extended opcode is counted from the opcode.
afterFromOpcode(s, o) ==
  LET to == AsInt((o.off + o.len) % Mod32) IN
    IF o.op \in Extended /\ to \in 0..s.size THEN to ELSE o.end

\* Where the cursor is after an opcode: an extended one ends with c.move() to
\* the int that its length gives, which fails out of the section.
after(s, o) ==
  IF o.op \notin Extended THEN o.end
  ELSE LET to == AsInt((o.body + o.len) % Mod32) IN IF to \in 0..s.size THEN to ELSE o.end

\* special and const_add_pc divide by line_range, all advances by the operations
\* of an instruction.
divides(u, o) ==
  \/ u.maxOps = 0 /\ o.op \in {"special", "advance_pc", "const_add_pc"}
  \/ u.lineRange = 0 /\ o.op \in {"special", "const_add_pc"}

\* One turn of the loop of runSM(), on an opcode of one of the kinds.
Running == at = "program" /\ ~sm.end_sequence /\ enters(sect, unit)
Fetch(kinds) ==
  /\ Running /\ off < endOf(unit)
  /\ pc \in DOMAIN unit.prog /\ unit.prog[pc].op \in kinds /\ ~divides(unit, unit.prog[pc])
  /\ off' = after(sect, unit.prog[pc])
  /\ UNCHANGED <<sect, from, cus>>

arg == unit.prog[pc].arg
Sets(s) == sm' = s /\ UNCHANGED <<at, rows, paths, files>>
Records(s, ends) == Len(rows) < MaxRows /\ recordLine(s, ends) /\ UNCHANGED <<paths, files>>

Special == Fetch({"special"}) /\ Records(special(unit, sm, arg), FALSE)
Copy == Fetch({"copy"}) /\ Records(sm, FALSE)
EndSequence == Fetch({"end_sequence"}) /\ Records(sm, TRUE)

AdvancePC == Fetch({"advance_pc"}) /\ Sets(advancePC(unit, sm, arg))
ConstAddPC ==
  Fetch({"const_add_pc"}) /\ Sets(advancePC(unit, sm, (255 - unit.opcodeBase) \div unit.lineRange))
FixedAdvancePC ==
  Fetch({"fixed_advance_pc"}) /\ Sets([sm EXCEPT !.address = (@ + arg) % Mod64, !.op_index = 0])
SetAddress ==
  Fetch({"set_address"}) /\ Sets([sm EXCEPT !.address = readAddress(sect, unit, unit.prog[pc])])

AdvanceLine == Fetch({"advance_line"}) /\ Sets(advanceLine(sm, arg))
SetFile == Fetch({"set_file"}) /\ Sets([sm EXCEPT !.file = arg % Mod32])
SetDiscriminator == Fetch({"set_discriminator"}) /\ Sets([sm EXCEPT !.discriminator = arg])
SetRegister == Fetch({"set_register"}) /\ Sets(sm)
NegateStmt ==
  /\ Fetch({"negate_stmt"})
  /\ Sets([sm EXCEPT !.flags = IF "IS_STMT" \in @ THEN @ \ {"IS_STMT"} ELSE @ \cup {"IS_STMT"}])
SetFlag == Fetch({"set_flag"}) /\ Sets([sm EXCEPT !.flags = @ \cup {arg}])

\* readFile() reads entries up to an empty name, wherever that one is.
DefineFile == Fetch({"define_file"}) /\ addTable(unit, arg) /\ UNCHANGED <<rows, sm>>

\* A code of no case, an operand past the end, or the unit's end before the
\* program's ("endless debug line opcode program").
ProgramThrows ==
  /\ Running
  /\ off < endOf(unit) /\ pc \in DOMAIN unit.prog => unit.prog[pc].op \in {"unknown", "cut"}
  /\ Throw

DivideByZero ==
  /\ Running /\ off < endOf(unit)
  /\ pc \in DOMAIN unit.prog /\ divides(unit, unit.prog[pc])
  /\ at' = "undefined"
  /\ UNCHANGED <<sect, off, from, sm, rows, paths, cus, files>>

\* add(cu); c.move(end_offset), which fails out of the section.  A unit that ends
\* with its header runs nothing.
FinishUnit ==
  /\ at = "program" /\ (sm.end_sequence \/ ~enters(sect, unit))
  /\ cus' = Append(cus, [files |-> paths, lines |-> rows, from |-> from])
  /\ off' = IF endOf(unit) <= sect.size THEN endOf(unit) ELSE off
  /\ at' = "unit" /\ rows' = <<>> /\ paths' = <<>>
  /\ UNCHANGED <<sect, from, sm, files>>

Built ==
  /\ at = "unit" /\ off >= sect.size
  /\ at' = "built"
  /\ UNCHANGED <<sect, off, from, sm, rows, paths, cus, files>>

Init ==
  /\ sect \in Sections
  /\ at = "unit" /\ off = 0 /\ from = 0
  /\ rows = <<>> /\ paths = <<>> /\ cus = <<>> /\ files = <<>>
  /\ sm = [address |-> 0, op_index |-> 0, file |-> 1, line |-> 1, discriminator |-> 0,
           end_sequence |-> FALSE, flags |-> {}]

Next ==
  \/ ReadHeader \/ HeaderThrows \/ FinishUnit \/ Built \/ ProgramThrows \/ DivideByZero
  \/ Special \/ Copy \/ EndSequence
  \/ AdvancePC \/ ConstAddPC \/ FixedAdvancePC \/ SetAddress
  \/ AdvanceLine \/ SetFile \/ SetDiscriminator \/ SetRegister \/ NegateStmt \/ SetFlag
  \/ DefineFile

\* The constructor runs on the caller's thread and waits for nothing.
Spec == Init /\ [][Next]_vars /\ WF_vars(Next)

(***************************************************************************)
(* Properties.                                                             *)
(***************************************************************************)
RowType ==
  [addr : 0..(Mod64 - 1), file : DOMAIN files, line : (0 - Half32)..(Half32 - 1),
   flags : SUBSET (Flags \cup {"IS_STMT"}), disc : 0..255, opi : 0..255]
SMType ==
  [address : 0..(Mod64 - 1), op_index : Nat, file : Nat, line : 0..(Mod32 - 1),
   discriminator : Nat, end_sequence : BOOLEAN, flags : SUBSET (Flags \cup {"IS_STMT"})]
InInstruction(u, s) == s.op_index = 0 \/ s.op_index < u.maxOps

\* Types of the registers and of the tables; the operation index stays in the
\* instruction, and the cursor in the section, wherever the lengths lead.
TypeOK ==
  /\ sect \in Sections /\ at \in {"unit", "program", "built", "thrown", "undefined"}
  /\ off \in 0..sect.size
  /\ sm \in SMType
  /\ at = "program" => from \in DOMAIN sect.units /\ InInstruction(unit, sm)
  /\ rows \in Seq(RowType)
  /\ paths \in Seq(DOMAIN files)
  /\ cus \in Seq([files : Seq(DOMAIN files), lines : Seq(RowType), from : DOMAIN sect.units])
  /\ \A p \in DOMAIN files : files[p] \in Seq(Nat)

\* The row that opcode k of unit u stands for, told without a machine: the last
\* opcode that sets a register, and the sums of the advances since.  Straight
\* names the programs for which this is all there is to say.
RowOps == {"special", "copy", "end_sequence"}
Last(S) == CHOOSE j \in S \cup {0} : \A i \in S : i <= j
Where(u, k, kind) == {j \in 1..k : u.prog[j].op = kind}
OpAdvance(u, o) ==
  CASE o.op = "special"      -> o.arg \div u.lineRange
    [] o.op = "advance_pc"   -> o.arg
    [] o.op = "const_add_pc" -> (255 - u.opcodeBase) \div u.lineRange
    [] OTHER                 -> 0
FixedAdvance(o) == IF o.op = "fixed_advance_pc" THEN o.arg ELSE 0
LineAdvance(u, o) ==
  CASE o.op = "special"      -> u.lineBase + (o.arg % u.lineRange)
    [] o.op = "advance_line" -> o.arg
    [] OTHER                 -> 0

\* The sums of the first n numbers of a sequence, for each n.
Sums(q) == LET s[n \in 0..Len(q)] == IF n = 0 THEN 0 ELSE s[n - 1] + q[n] IN s
OpSums(u) == Sums([j \in DOMAIN u.prog |-> OpAdvance(u, u.prog[j])])
FixedSums(u) == Sums([j \in DOMAIN u.prog |-> FixedAdvance(u.prog[j])])
LineSums(u) == Sums([j \in DOMAIN u.prog |-> LineAdvance(u, u.prog[j])])

Operations(u, k) ==
  LET a == Last(Where(u, k, "set_address")) IN OpSums(u)[k] - OpSums(u)[a]
Address(u, k) ==
  LET a == Last(Where(u, k, "set_address")) IN
    ((IF a = 0 THEN 0 ELSE u.prog[a].arg) + (FixedSums(u)[k] - FixedSums(u)[a])
      + u.minInst * (Operations(u, k) \div u.maxOps)) % Mod64
Line(u, k) == AsInt((1 + LineSums(u)[k]) % Mod32)
FileNumber(u, k) ==
  LET f == Last(Where(u, k, "set_file")) IN IF f = 0 THEN 1 ELSE u.prog[f].arg % Mod32
Discriminator(u, k) ==
  LET d == Last(Where(u, k, "set_discriminator")) IN
    IF d = 0 \/ \E j \in d..(k - 1) : u.prog[j].op \in RowOps THEN 0 ELSE u.prog[d].arg

\* The flags once k opcodes have run: a statement or not, by the number of
\* changes; the others once they are set, and all of them once there is a row,
\* recordLine() (396) setting what it should clear.
FlagsAfter(u, k) ==
  (IF u.isStmt <=> Cardinality(Where(u, k, "negate_stmt")) % 2 = 0 THEN {"IS_STMT"} ELSE {})
    \cup {f \in Flags : \E j \in 1..k : \/ u.prog[j].op \in RowOps
                                        \/ u.prog[j].op = "set_flag" /\ u.prog[j].arg = f}

\* A row keeps the low byte of the discriminator.
declared(u, k) ==
  [addr |-> Address(u, k), opi |-> Operations(u, k) % u.maxOps, line |-> Line(u, k),
   file |-> path(u, u.files[FileNumber(u, k)]), disc |-> Discriminator(u, k) % 256,
   flags |-> FlagsAfter(u, k - 1)]

\* The program lies in the order of its opcodes, from where the header leads.
Ordered(s, u) ==
  /\ enters(s, u) \/ u.prog = <<>>
  /\ place(u, programAt(s, u)) = 1
  /\ \A k \in DOMAIN u.prog : place(u, after(s, u.prog[k])) = k + 1

Straight(s, u) ==
  /\ u.version < 5 /\ u.maxOps # 0 /\ u.lineRange # 0
  /\ Ordered(s, u)
  /\ \A j \in DOMAIN u.prog :
       /\ u.prog[j].op # "define_file"
       /\ u.prog[j].op = "set_address" => readAddress(s, u, u.prog[j]) = u.prog[j].arg
       /\ u.maxOps > 1 => OpAdvance(u, u.prog[j]) + u.maxOps <= Mod64
       /\ u.maxOps > 1 /\ u.prog[j].op \in {"set_address", "fixed_advance_pc"} =>
            \A i \in 1..j : OpAdvance(u, u.prog[i]) = 0

\* The row opcodes of the first sequence.
rowOpsOf(u) ==
  {k \in DOMAIN u.prog : u.prog[k].op \in RowOps /\ Where(u, k - 1, "end_sequence") = {}}

\* The unit of the section that unit n of the tables was read from, and the row
\* of its opcode k.
source(n) == sect.units[cus[n].from]
rowFor(n, k) == cus[n].lines[Cardinality(rowOpsOf(source(n)) \cap 1..k)]

\* The rows recorded by the state machine are those the program declares: no
\* opcode is decoded wrong, and no register keeps a value it should not, from
\* one row to the next or from one unit to the next, wherever the cursor went
\* in between; the flags being those of the code.
RowsDeclared ==
  \A n \in DOMAIN cus :
    Straight(sect, source(n)) =>
      /\ Len(cus[n].lines) = Cardinality(rowOpsOf(source(n)))
      /\ \A k \in rowOpsOf(source(n)) : rowFor(n, k) = declared(source(n), k)

\* lineAt() finds the row of every address that is covered, whatever the order
\* and the overlaps of the units, if the rows of each ascend.
LookupExact ==
  at = "built" /\ LookupDefined(cus) /\ (\A n \in DOMAIN cus : Ascends(cus[n].lines)) =>
    \A a \in Addresses : LookupExactAt(cus, a)

\* A source file lists a unit as often as the unit lists the file, so that
\* File::find() walks the units it should.
Times(q, x) == Cardinality({i \in DOMAIN q : q[i] = x})
UnitsListed ==
  at # "undefined" =>
    \A p \in DOMAIN files :
      /\ \A n \in DOMAIN cus : Times(files[p], n) = Times(cus[n].files, p)
      /\ at = "program" => Times(files[p], cur) = Times(paths, p)

\* What lineAt() finds at an address, find() finds back from its file and line.
FindsBack ==
  at = "built" /\ LookupDefined(cus) =>
    \A a \in Addresses : \A m \in lineAt(cus, a) :
      LET r == cus[m[1]].lines[m[2]] IN
        \E q \in find(cus, files[r.file], r.file, r.line) :
          files[r.file][q[1]] = m[1] /\ q[2] = m[2]

\* The lengths of a section whose ends are counted without a carry.
Onward(s) ==
  \A n \in DOMAIN s.units :
    LET u == s.units[n] IN
      /\ u.lead + u.headerLength < Mod64 /\ u.body + u.length < Mod64
      /\ \A i \in DOMAIN u.prog :
           u.prog[i].op \in Extended => u.prog[i].body + u.prog[i].len < Mod32

\* What is left to read: of the section, from the unit under way on; of that
\* unit, its header and then its program.
ReadingLeft ==
  CASE at = "unit"    -> <<sect.size - off, sect.size + 1>>
    [] at = "program" -> <<sect.size - unit.head, sect.size - off>>
    [] OTHER          -> <<0, 0>>

\* Each turn of readCU() and of runSM() leaves less to read, as long as no length
\* wraps: neither a header_length shorter than the tables, nor an opcode shorter
\* or longer than its operands, nor a unit that ends inside of itself takes the
\* cursor back to where it was.
ReadingShrinks == [][Onward(sect) => Lowers(ReadingLeft', ReadingLeft)]_vars

(***************************************************************************)
(* What the documentation says of the tables.                              *)
(***************************************************************************)
\* gel_DebugLine.cpp:137: lines() is "the array of lines in the compilation
\* unit": every row opcode of the unit has its row.
RowsComplete ==
  \A n \in DOMAIN cus :
    Len(cus[n].lines) = Cardinality({k \in DOMAIN source(n).prog : source(n).prog[k].op \in RowOps})

\* gel_DebugLine.cpp:83: file() is "the source file corresponding to the code".
\* In version 5 the first entry of the file table has index 0.
FileOfRow ==
  \A n \in DOMAIN cus : \A k \in rowOpsOf(source(n)) :
    LET u == source(n)
        reg == FileNumber(u, k)
    IN u.version = 5 /\ reg + 1 \in DOMAIN u.files =>
         rowFor(n, k).file[2] = u.files[reg + 1].name

\* gel_DebugLine.cpp:100: flags() are the "flags about this code", its row's: a
\* flag is set by an opcode that comes after the row before.
FlagsDeclared ==
  \A n \in DOMAIN cus : \A k \in rowOpsOf(source(n)) :
    \A f \in rowFor(n, k).flags \cap Flags :
      \E j \in Where(source(n), k, "set_flag") :
        source(n).prog[j].arg = f /\ \A i \in j..(k - 1) : source(n).prog[i].op \notin RowOps

\* dwarf_DebugLine.cpp:270: a program that has no end is refused as an "endless
\* debug line opcode program".
EndlessRefused == <>(at \in {"built", "thrown", "undefined"})

\* gel_DebugLine.cpp:226: lineAt() returns the "found line or null", for any
\* address and any file.
LookupsDefined == at = "built" => LookupDefined(cus)
=============================================================================
