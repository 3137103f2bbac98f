-------------------------- MODULE DwarfLine_proofs --------------------------
(***************************************************************************)
(* Proofs about DwarfLine, the lookups of DebugLine and the listings of     *)
(* LineListing, for any section.                                           *)
(***************************************************************************)
EXTENDS LineListing, SequenceTheorems, FiniteSetTheorems, WellFoundedInduction, TLAPS

(***************************************************************************)
(* Counting up.                                                            *)
(***************************************************************************)
\* A loop that returns at its first match returns when there is a match.
LEMMA FirstExists ==
  ASSUME NEW T, T \subseteq Nat, T # {}
  PROVE  First(T) # {}
  <1> DEFINE R == OpToRel(<, Nat)
  <1>1. IsWellFoundedOn(R, Nat)
    BY NatLessThanWellFounded
  <1>2. \A a, b \in Nat : <<a, b>> \in R <=> a < b
    BY DEF OpToRel
  <1> HIDE DEF R
  <1>3. PICK x \in T : \A y \in T : ~(<<y, x>> \in R)
    BY <1>1, WFMin
  <1>4. ASSUME NEW y \in T PROVE x <= y
    <2>1. x \in Nat /\ y \in Nat /\ ~(y < x)
      BY <1>2, <1>3
    <2> QED
      BY <2>1
  <1> QED
    BY <1>4 DEF First

LEMMA HasLeast ==
  ASSUME NEW T, T \subseteq Nat, T # {}
  PROVE  \E x \in T : \A y \in T : x <= y
  BY FirstExists DEF First

\* A set that holds 0, and each number after one that it holds.
LEMMA Upward ==
  ASSUME NEW N \in Nat, NEW P, 0 \in P, \A n \in 1..N : n - 1 \in P => n \in P
  PROVE  0..N \subseteq P
  <1> DEFINE Bad == {n \in 0..N : n \notin P}
  <1>1. ASSUME Bad # {} PROVE FALSE
    <2>1. PICK n \in Bad : \A m \in Bad : n <= m
      <3>1. Bad \subseteq Nat
        OBVIOUS
      <3> HIDE DEF Bad
      <3> QED
        BY <1>1, <3>1, HasLeast
    <2>2. n \in 0..N /\ n \notin P /\ n # 0
      BY <2>1
    <2>3. n \in 1..N /\ n - 1 \in 0..N /\ ~(n <= n - 1)
      BY <2>2
    <2>4. n - 1 \in P
      BY <2>1, <2>3
    <2> QED
      BY <2>2, <2>3, <2>4
  <1> QED
    BY <1>1

\* The values g of a loop of N turns on T, from c, each turn with a step of its
\* own: there are such values.
Steps(N, T, step) == \A n \in 1..N : step[n] \in [T -> T]
Turns(N, T, c, step, g) ==
  /\ g \in [0..N -> T] /\ g[0] = c
  /\ \A n \in 1..N : g[n] = step[n][g[n - 1]]
LEMMA Loop ==
  ASSUME NEW N \in Nat, NEW T, NEW c \in T, NEW step, Steps(N, T, step)
  PROVE  \E g : Turns(N, T, c, step, g)
  <1> DEFINE P == {n \in 0..N : \E g : Turns(n, T, c, step, g)}
  <1>1. 0 \in P
    <2>1. Turns(0, T, c, step, [m \in 0..0 |-> c])
      BY DEF Turns
    <2>2. 0 \in 0..N
      OBVIOUS
    <2> QED
      BY <2>1, <2>2
  <1>2. ASSUME NEW n \in 1..N, n - 1 \in P PROVE n \in P
    <2>1. PICK g : Turns(n - 1, T, c, step, g)
      BY <1>2
    <2> DEFINE f == [m \in 0..n |-> IF m = n THEN step[n][g[n - 1]] ELSE g[m]]
    <2>2. n - 1 \in 0..(n - 1) /\ \A m \in 0..n : m = n \/ m \in 0..(n - 1)
      OBVIOUS
    <2>3. g[n - 1] \in T /\ step[n] \in [T -> T]
      BY <2>1, <2>2 DEF Turns, Steps
    <2>4. step[n][g[n - 1]] \in T
      BY <2>3
    <2>5. f \in [0..n -> T]
      BY <2>1, <2>2, <2>4 DEF Turns
    <2>6. f[0] = c
      BY <2>1 DEF Turns
    <2>7. ASSUME NEW m \in 1..n PROVE f[m] = step[m][f[m - 1]]
      <3>1. m \in 0..n /\ m - 1 \in 0..n /\ m - 1 # n /\ f[m - 1] = g[m - 1]
        OBVIOUS
      <3>2. CASE m = n
        BY <3>1, <3>2
      <3>3. CASE m \in 1..(n - 1)
        BY <2>1, <3>1, <3>3 DEF Turns
      <3> QED
        BY <3>2, <3>3
    <2>8. Turns(n, T, c, step, f)
      <3> HIDE DEF f
      <3> QED
        BY <2>5, <2>6, <2>7 DEF Turns
    <2>9. n \in 0..N
      OBVIOUS
    <2> QED
      BY <2>8, <2>9
  <1>3. N \in P
    <2> HIDE DEF P
    <2> QED
      BY <1>1, <1>2, Upward
  <1> QED
    BY <1>3

(***************************************************************************)
(* The lookups.                                                            *)
(***************************************************************************)
\* Rows with addresses.
Addressed(lines) == \E n \in Nat : /\ DOMAIN lines = 1..n /\ Len(lines) = n
                                   /\ \A i \in 1..n : lines[i].addr \in Nat

\* Between the first row, not above an address, and the last row, above it, two
\* neighbours enclose the address: the lookup in a unit whose range holds the
\* address does not come back empty, whatever the order of its rows.
LEMMA Crossing ==
  ASSUME NEW cu, Addressed(cu.lines), cu.lines # <<>>, NEW a \in Nat,
         baseAddress(cu) <= a, a < topAddress(cu)
  PROVE  rowsAt(cu, a) # {}
  <1>1. PICK n \in Nat : /\ DOMAIN cu.lines = 1..n /\ Len(cu.lines) = n
                         /\ \A i \in 1..n : cu.lines[i].addr \in Nat
    BY DEF Addressed
  <1> DEFINE above == {i \in 1..n : a < cu.lines[i].addr}
  <1>2. n # 0
    BY <1>1 DEF topAddress, baseAddress
  <1>3. n \in above
    BY <1>1, <1>2 DEF topAddress
  <1>4. above \subseteq Nat /\ above # {}
    BY <1>3
  <1>5. PICK i \in First(above) : TRUE
    BY <1>4, FirstExists
  <1>6. i \in 1..n /\ a < cu.lines[i].addr /\ \A j \in above : i <= j
    BY <1>5 DEF First
  <1>7. i # 1
    <2>1. cu.lines[1].addr <= a /\ 1 \in 1..n
      BY <1>2 DEF baseAddress
    <2>2. cu.lines[1].addr \in Nat /\ ~(a < cu.lines[1].addr)
      BY <1>1, <2>1
    <2> QED
      BY <1>6, <2>2
  <1>8. i - 1 \in 1..n /\ i - 1 \notin above
    BY <1>6, <1>7
  <1>9. cu.lines[i - 1].addr <= a
    BY <1>1, <1>8
  <1>10. i - 1 \in rowsAt(cu, a)
    BY <1>1, <1>6, <1>7, <1>8, <1>9 DEF rowsAt
  <1> QED
    BY <1>10

\* In rows that ascend an address is enclosed at one place only.
LEMMA OnlyRow ==
  ASSUME NEW lines, Addressed(lines), Ascends(lines), NEW a \in Nat,
         NEW i, Covers(lines, i, a), i \in DOMAIN lines,
         NEW j, Covers(lines, j, a), j \in DOMAIN lines
  PROVE  i = j
  <1>1. PICK n \in Nat : DOMAIN lines = 1..n /\ \A k \in 1..n : lines[k].addr \in Nat
    BY DEF Addressed
  <1>2. ASSUME NEW k \in 1..n, NEW l \in 1..n, k < l, Covers(lines, k, a), Covers(lines, l, a)
        PROVE  FALSE
    <2>1. k + 1 \in 1..n /\ k + 1 <= l
      BY <1>2
    <2>2. lines[k + 1].addr <= lines[l].addr
      BY <1>1, <2>1 DEF Ascends
    <2>3. lines[l].addr <= a /\ ~(lines[k + 1].addr <= a)
      BY <1>2 DEF Covers
    <2> QED
      BY <1>1, <2>1, <2>2, <2>3
  <1>3. i \in 1..n /\ j \in 1..n
    BY <1>1
  <1> QED
    BY <1>2, <1>3

\* lineAt() over any units whose rows ascend, none of which is empty.
LEMMA LookupLemma ==
  ASSUME NEW us, DOMAIN us \subseteq Nat, LookupDefined(us),
         \A n \in DOMAIN us : Addressed(us[n].lines) /\ Ascends(us[n].lines),
         NEW a \in Nat
  PROVE  LookupExactAt(us, a)
  <1>1. ASSUME NEW n \in DOMAIN us, NEW i \in rowsAt(us[n], a)
        PROVE  i \in DOMAIN us[n].lines /\ Covers(us[n].lines, i, a)
    <2>1. PICK l \in Nat : /\ DOMAIN us[n].lines = 1..l /\ Len(us[n].lines) = l
                           /\ \A k \in 1..l : us[n].lines[k].addr \in Nat
      BY DEF Addressed
    <2>2. /\ i \in 1..(l - 1) /\ us[n].lines[i].addr <= a /\ a < us[n].lines[i + 1].addr
      BY <2>1 DEF rowsAt
    <2>3. i \in 1..l /\ i + 1 \in 1..l
      BY <2>2
    <2> QED
      BY <2>1, <2>2, <2>3 DEF Covers
  <1>2. ASSUME NEW m \in lineAt(us, a)
        PROVE  m[1] \in DOMAIN us /\ m[2] \in rowsAt(us[m[1]], a)
    BY <1>2 DEF lineAt, First, unitsAt
  <1>3. lineAt(us, a) # {} => Covered(us, a)
    BY <1>1, <1>2 DEF Covered
  <1>4. ASSUME NEW n \in DOMAIN us, NEW i \in DOMAIN us[n].lines, Covers(us[n].lines, i, a)
        PROVE  lineAt(us, a) # {}
    <2>1. PICK l \in Nat : /\ DOMAIN us[n].lines = 1..l /\ Len(us[n].lines) = l
                           /\ \A k \in 1..l : us[n].lines[k].addr \in Nat
      BY <1>4 DEF Addressed
    <2>2. i \in 1..l /\ i + 1 \in 1..l /\ 1 \in 1..l /\ l \in 1..l
      BY <1>4, <2>1 DEF Covers
    <2>3. us[n].lines[1].addr <= us[n].lines[i].addr /\ us[n].lines[i + 1].addr <= us[n].lines[l].addr
      BY <2>1, <2>2 DEF Ascends
    <2>4. us[n].lines[i].addr <= a /\ ~(us[n].lines[i + 1].addr <= a)
      BY <1>4 DEF Covers
    <2>5. baseAddress(us[n]) <= a /\ a < topAddress(us[n])
      BY <2>1, <2>2, <2>3, <2>4 DEF baseAddress, topAddress
    <2>6. n \in unitsAt(us, a) /\ unitsAt(us, a) \subseteq Nat
      BY <2>5 DEF unitsAt
    <2>7. PICK u \in First(unitsAt(us, a)) : TRUE
      BY <2>6, FirstExists
    <2>8. u \in DOMAIN us /\ baseAddress(us[u]) <= a /\ a < topAddress(us[u])
      BY <2>7 DEF First, unitsAt
    <2>9. rowsAt(us[u], a) # {}
      BY <2>8, Crossing DEF LookupDefined
    <2>10. rowsAt(us[u], a) \subseteq Nat
      BY DEF rowsAt
    <2>11. PICK r \in First(rowsAt(us[u], a)) : TRUE
      BY <2>9, <2>10, FirstExists
    <2>12. <<u, r>> \in lineAt(us, a)
      BY <2>7, <2>11 DEF lineAt
    <2> QED
      BY <2>12
  <1>5. Covered(us, a) => lineAt(us, a) # {}
    BY <1>4 DEF Covered
  <1>6. ASSUME NEW m \in lineAt(us, a), NEW i \in DOMAIN us[m[1]].lines
        PROVE  Covers(us[m[1]].lines, i, a) <=> i = m[2]
    <2>1. /\ m[1] \in DOMAIN us /\ m[2] \in DOMAIN us[m[1]].lines
          /\ Covers(us[m[1]].lines, m[2], a)
      BY <1>1, <1>2
    <2>2. Covers(us[m[1]].lines, i, a) => i = m[2]
      BY <2>1, OnlyRow
    <2> QED
      BY <2>1, <2>2
  <1> QED
    BY <1>3, <1>5, <1>6 DEF LookupExactAt

(***************************************************************************)
(* The inductive invariant.                                                *)
(***************************************************************************)
\* Between two units nothing of a unit is left.
Idle == at \in {"unit", "built"} => rows = <<>> /\ paths = <<>>

\* The file of a row knows the row's unit.
In(q, x) == \E k \in DOMAIN q : q[k] = x
LinkedNow ==
  /\ \A i \in DOMAIN paths : In(files[paths[i]], cur)
  /\ \A i \in DOMAIN rows : In(files[rows[i].file], cur)
Linked == \A n \in DOMAIN cus : \A i \in DOMAIN cus[n].lines : In(files[cus[n].lines[i].file], n)

IInv == TypeOK /\ Idle /\ LinkedNow /\ Linked

\* The widths of the registers.
LEMMA Widths ==
  /\ Half32 \in Nat \ {0} /\ Mod32 = 2 * Half32 /\ Mod32 \in Nat \ {0}
  /\ Mod64 = Mod32 * Mod32 /\ Mod64 \in Nat \ {0}
  <1>1. Half32 \in Nat \ {0} /\ Mod32 = 2 * Half32 /\ Mod32 \in Nat \ {0}
    BY WidthsAssumption DEF Mod32
  <1>2. \A m, n \in Nat \ {0} : m * n \in Nat \ {0}
    OBVIOUS
  <1> QED
    BY <1>1, <1>2 DEF Mod64

\* A remainder, of any integer, is one.
LEMMA Remainder ==
  ASSUME NEW x \in Int, NEW m \in Nat \ {0}
  PROVE  x % m \in 0..(m - 1) /\ x % m \in Nat
  OBVIOUS

LEMMA AsIntType ==
  ASSUME NEW n \in 0..(Mod32 - 1)
  PROVE  AsInt(n) \in (0 - Half32)..(Half32 - 1)
  BY Widths DEF AsInt

\* The units of a section have a shape, and lie in it.
LEMMA UnitShape ==
  ASSUME TypeOK, NEW n \in DOMAIN sect.units
  PROVE  WellShaped(sect.units[n]) /\ Laid(sect, sect.units[n]) /\ sect.size \in Nat
  BY SectionsAssumption DEF TypeOK

\* Where the cursor is led is in the section.
LEMMA AfterInside ==
  ASSUME NEW s, s.size \in Nat, NEW o, o.end \in Nat, o.end <= s.size
  PROVE  after(s, o) \in 0..s.size
  BY DEF after

LEMMA ProgramInside ==
  ASSUME NEW s, s.size \in Nat, NEW u, Laid(s, u)
  PROVE  linesAt(u) \in Nat /\ programAt(s, u) \in 0..s.size /\ endOf(u) \in Nat
  <1>1. u.lead + u.headerLength \in Int /\ u.body + u.length \in Int
    BY DEF Laid
  <1>2. linesAt(u) \in Nat /\ endOf(u) \in Nat
    BY <1>1, Widths, Remainder DEF linesAt, endOf
  <1> QED
    BY <1>2 DEF Laid, programAt

LEMMA InitInv == Init => IInv
  <1> SUFFICES ASSUME Init PROVE IInv
    OBVIOUS
  <1>1. sm \in SMType
    BY Widths DEF Init, SMType
  <1>2. 0 \in 0..sect.size
    BY SectionsAssumption DEF Init
  <1>3. TypeOK
    BY <1>1, <1>2 DEF Init, TypeOK
  <1> QED
    BY <1>3 DEF Init, IInv, Idle, LinkedNow, Linked

LEMMA ThrowInv == IInv /\ Throw => IInv'
  <1> SUFFICES ASSUME IInv, Throw PROVE IInv'
    OBVIOUS
  <1>1. TypeOK'
    BY DEF IInv, Throw, TypeOK, SMType
  <1> QED
    BY <1>1 DEF IInv, Throw, Idle, LinkedNow, Linked

\* An opcode that changes registers only.
LEMMA SetsInv ==
  ASSUME IInv, at = "program", NEW s, s \in SMType, InInstruction(unit, s),
         Sets(s), off' \in 0..sect.size, UNCHANGED <<sect, from, cus>>
  PROVE  IInv'
  <1>1. /\ sm' = s /\ at' = at /\ rows' = rows /\ paths' = paths /\ files' = files
        /\ sect' = sect /\ from' = from /\ cus' = cus /\ cur' = cur /\ unit' = unit
    BY DEF Sets, cur, unit
  <1>2. TypeOK
    BY DEF IInv
  <1>3. TypeOK'
    BY <1>1, <1>2 DEF TypeOK, RowType, SMType
  <1> QED
    BY <1>1, <1>3 DEF IInv, Idle, LinkedNow, Linked

\* A row that is recorded is one.
LEMMA RowIsTyped ==
  ASSUME TypeOK, NEW s, s \in SMType, s.file \in DOMAIN paths
  PROVE  row(s) \in RowType
  <1>1. paths[s.file] \in DOMAIN files
    BY DEF TypeOK
  <1>2. s.discriminator % 256 \in 0..255 /\ s.op_index % 256 \in 0..255
    BY DEF SMType
  <1>3. AsInt(s.line) \in (0 - Half32)..(Half32 - 1)
    BY AsIntType DEF SMType
  <1> QED
    BY <1>1, <1>2, <1>3 DEF row, RowType, SMType

\* An opcode that records a row.
LEMMA RecordsInv ==
  ASSUME IInv, at = "program", NEW s, s \in SMType, InInstruction(unit, s),
         NEW ends \in BOOLEAN, Records(s, ends), off' \in 0..sect.size, UNCHANGED <<sect, from, cus>>
  PROVE  IInv'
  <1>1. /\ paths' = paths /\ files' = files /\ from' = from
        /\ sect' = sect /\ cus' = cus /\ cur' = cur /\ unit' = unit
    BY DEF Records, cur, unit
  <1>2. TypeOK
    BY DEF IInv
  <1>3. CASE s.file \notin DOMAIN paths
    <2>1. at' = "undefined" /\ rows' = rows /\ sm' = sm
      BY <1>3 DEF Records, recordLine
    <2>2. TypeOK'
      BY <1>1, <1>2, <2>1 DEF TypeOK, RowType, SMType
    <2> QED
      BY <1>1, <2>1, <2>2 DEF IInv, Idle, LinkedNow, Linked
  <1>4. CASE s.file \in DOMAIN paths
    <2>1. /\ at' = at /\ rows' = Append(rows, row(s))
          /\ sm' = [s EXCEPT !.flags = @ \cup Flags, !.discriminator = 0, !.end_sequence = ends]
      BY <1>4 DEF Records, recordLine
    <2>2. sm' \in SMType /\ sm'.op_index = s.op_index
      BY <2>1 DEF SMType
    <2>3. InInstruction(unit, sm')
      BY <2>2 DEF InInstruction
    <2>4. row(s) \in RowType
      BY <1>2, <1>4, RowIsTyped
    <2>5. rows \in Seq(RowType)
      BY <1>2 DEF TypeOK
    <2>6. /\ rows' \in Seq(RowType) /\ DOMAIN rows' = 1..(Len(rows) + 1) /\ Len(rows) \in Nat
          /\ DOMAIN rows = 1..Len(rows)
          /\ \A i \in DOMAIN rows : rows'[i] = rows[i]
          /\ rows'[Len(rows) + 1] = row(s)
      BY <2>1, <2>4, <2>5
    <2>7. TypeOK'
      BY <1>1, <1>2, <2>1, <2>2, <2>3, <2>6 DEF TypeOK, RowType
    <2>8. LinkedNow'
      <3>1. row(s).file = paths[s.file]
        BY DEF row
      <3>2. In(files[paths[s.file]], cur)
        BY <1>4 DEF IInv, LinkedNow
      <3>3. ASSUME NEW i \in DOMAIN rows' PROVE In(files[rows'[i].file], cur)
        BY <2>6, <3>1, <3>2 DEF IInv, LinkedNow
      <3> QED
        BY <1>1, <3>3 DEF IInv, LinkedNow
    <2> QED
      BY <1>1, <2>1, <2>7, <2>8 DEF IInv, Idle, Linked
  <1> QED
    BY <1>3, <1>4

\* The opcode of a turn of the loop is one of those the machine knows.
LEMMA OpLemma ==
  ASSUME TypeOK, NEW kinds, Fetch(kinds)
  PROVE  /\ from \in DOMAIN sect.units /\ WellShaped(unit) /\ Laid(sect, unit) /\ sect.size \in Nat
         /\ sm \in SMType /\ InInstruction(unit, sm)
         /\ Op(unit.prog[pc]) /\ unit.prog[pc].op \in kinds /\ pc \in DOMAIN unit.prog
         /\ ~divides(unit, unit.prog[pc])
         /\ at = "program" /\ off' \in 0..sect.size /\ UNCHANGED <<sect, from, cus>>
  <1>1. /\ at = "program" /\ pc \in DOMAIN unit.prog /\ unit.prog[pc].op \in kinds
        /\ ~divides(unit, unit.prog[pc]) /\ off' = after(sect, unit.prog[pc])
        /\ UNCHANGED <<sect, from, cus>>
    BY DEF Fetch, Running
  <1>2. from \in DOMAIN sect.units /\ sm \in SMType /\ InInstruction(unit, sm)
    BY <1>1 DEF TypeOK
  <1>3. WellShaped(unit) /\ Laid(sect, unit) /\ sect.size \in Nat
    BY <1>2, UnitShape DEF unit
  <1>4. Op(unit.prog[pc])
    BY <1>1, <1>3 DEF WellShaped
  <1>5. unit.prog[pc].end \in Nat /\ unit.prog[pc].end <= sect.size
    BY <1>1, <1>3 DEF Laid
  <1>6. off' \in 0..sect.size
    BY <1>1, <1>3, <1>5, AfterInside
  <1> QED
    BY <1>1, <1>2, <1>3, <1>4, <1>6

\* Of a shape, what the registers depend on; the opcodes that divide divide by no
\* zero.
Regular(u) == WellShaped(u) /\ u.maxOps # 0 /\ u.lineRange # 0
LEMMA UnitNumbers ==
  ASSUME NEW u, WellShaped(u)
  PROVE  /\ u.minInst \in Nat /\ u.maxOps \in Nat /\ u.lineBase \in Int
         /\ u.lineRange \in Nat /\ u.opcodeBase \in 0..255
  <1>1. /\ u.minInst \in 0..255 /\ u.maxOps \in 0..255 /\ u.lineBase \in -128..127
        /\ u.lineRange \in 0..255 /\ u.opcodeBase \in 0..255
    BY DEF WellShaped
  <1> QED
    BY <1>1
LEMMA RegularNumbers ==
  ASSUME NEW u, Regular(u)
  PROVE  /\ WellShaped(u)
         /\ u.minInst \in Nat /\ u.maxOps \in Nat \ {0} /\ u.lineBase \in Int
         /\ u.lineRange \in Nat \ {0} /\ u.opcodeBase \in 0..255
  BY UnitNumbers DEF Regular

\* advancePC() stays in 64 bits and inside the instruction.
LEMMA AdvanceLemma ==
  ASSUME NEW u, WellShaped(u), u.maxOps # 0,
         NEW s, s \in SMType, InInstruction(u, s), NEW adv \in Nat
  PROVE  /\ advancePC(u, s, adv) \in SMType
         /\ InInstruction(u, advancePC(u, s, adv))
         /\ advancePC(u, s, adv).file = s.file
  <1>1. u.minInst \in Nat /\ u.maxOps \in Nat \ {0}
    BY UnitNumbers
  <1>2. s.address \in Nat /\ s.op_index \in Nat
    BY DEF SMType
  <1>3. \A m, n \in Nat : m * n \in Nat
    OBVIOUS
  <1>4. ASSUME NEW x \in Nat PROVE x % Mod64 \in 0..(Mod64 - 1) /\ x % Mod64 \in Nat
    <2>1. x \in Int
      OBVIOUS
    <2> QED
      BY <2>1, Widths, Remainder
  <1>5. CASE u.maxOps = 1
    <2>1. s.address + u.minInst * adv \in Nat
      BY <1>1, <1>2, <1>3
    <2> DEFINE a == (s.address + u.minInst * adv) % Mod64
    <2>2. a \in 0..(Mod64 - 1)
      BY <1>4, <2>1
    <2>3. advancePC(u, s, adv) = [s EXCEPT !.address = a]
      BY <1>5 DEF advancePC, SMType
    <2> HIDE DEF a
    <2> QED
      BY <2>2, <2>3 DEF SMType, InInstruction
  <1>6. CASE u.maxOps # 1
    <2> DEFINE o == (s.op_index + adv) % Mod64
               q == o \div u.maxOps
               r == o % u.maxOps
               a == (s.address + u.minInst * q) % Mod64
    <2>1. o \in Nat
      BY <1>2, <1>4
    <2>2. advancePC(u, s, adv) = [s EXCEPT !.address = a, !.op_index = r]
      BY <1>6 DEF advancePC, SMType
    <2> HIDE DEF o
    <2>3. q \in Nat /\ r \in Nat /\ r < u.maxOps
      BY <1>1, <2>1
    <2> HIDE DEF q, r
    <2>4. s.address + u.minInst * q \in Nat
      BY <1>1, <1>2, <1>3, <2>3
    <2>5. a \in 0..(Mod64 - 1)
      BY <1>4, <2>4
    <2> HIDE DEF a
    <2> QED
      BY <2>2, <2>3, <2>5 DEF SMType, InInstruction
  <1> QED
    BY <1>5, <1>6

LEMMA LineLemma ==
  ASSUME NEW s, s \in SMType, NEW adv \in Int
  PROVE  /\ advanceLine(s, adv) \in SMType
         /\ advanceLine(s, adv).op_index = s.op_index /\ advanceLine(s, adv).address = s.address
  <1> DEFINE n == (s.line + adv) % Mod32
  <1>1. s.line + adv \in Int
    BY Widths DEF SMType
  <1>2. n \in 0..(Mod32 - 1)
    BY <1>1, Widths, Remainder
  <1>3. advanceLine(s, adv) = [s EXCEPT !.line = n]
    BY DEF advanceLine, SMType
  <1> HIDE DEF n
  <1> QED
    BY <1>2, <1>3 DEF SMType

LEMMA SpecialLemma ==
  ASSUME NEW u, Regular(u), NEW s, s \in SMType, InInstruction(u, s), NEW code \in 0..255
  PROVE  /\ special(u, s, code) \in SMType
         /\ InInstruction(u, special(u, s, code))
  <1>1. u.lineBase \in Int /\ u.lineRange \in Nat \ {0} /\ WellShaped(u) /\ u.maxOps # 0
    BY RegularNumbers DEF Regular
  <1>2. code % u.lineRange \in Nat /\ code \div u.lineRange \in Nat
    BY <1>1
  <1>3. u.lineBase + (code % u.lineRange) \in Int
    BY <1>1, <1>2
  <1> DEFINE t == advanceLine(s, u.lineBase + (code % u.lineRange))
  <1>4. t \in SMType /\ t.op_index = s.op_index
    BY <1>3, LineLemma
  <1>5. special(u, s, code) = advancePC(u, t, code \div u.lineRange)
    BY DEF special
  <1> HIDE DEF t
  <1>6. InInstruction(u, t)
    BY <1>4 DEF InInstruction
  <1> QED
    BY <1>1, <1>2, <1>4, <1>5, <1>6, AdvanceLemma

(***************************************************************************)
(* The opcodes.                                                            *)
(***************************************************************************)
LEMMA SpecialInv == IInv /\ Special => IInv'
  <1> SUFFICES ASSUME IInv, Special PROVE IInv'
    OBVIOUS
  <1>1. Fetch({"special"}) /\ Records(special(unit, sm, arg), FALSE) /\ TypeOK
    BY DEF Special, IInv
  <1>2. /\ WellShaped(unit) /\ sm \in SMType /\ InInstruction(unit, sm) /\ at = "program"
        /\ Op(unit.prog[pc]) /\ unit.prog[pc].op = "special" /\ ~divides(unit, unit.prog[pc])
        /\ off' \in 0..sect.size /\ UNCHANGED <<sect, from, cus>>
    BY <1>1, OpLemma
  <1>3. arg \in 0..255
    BY <1>2 DEF Op, arg
  <1>4. Regular(unit)
    BY <1>2 DEF divides, Regular
  <1>5. special(unit, sm, arg) \in SMType /\ InInstruction(unit, special(unit, sm, arg))
    BY <1>2, <1>3, <1>4, SpecialLemma
  <1> QED
    BY <1>1, <1>2, <1>5, RecordsInv

LEMMA CopyInv == IInv /\ (Copy \/ EndSequence) => IInv'
  <1>1. ASSUME IInv, NEW kinds, Fetch(kinds), NEW ends \in BOOLEAN, Records(sm, ends)
        PROVE  IInv'
    <2>1. /\ sm \in SMType /\ InInstruction(unit, sm) /\ at = "program"
          /\ off' \in 0..sect.size /\ UNCHANGED <<sect, from, cus>>
      BY <1>1, OpLemma DEF IInv
    <2> QED
      BY <1>1, <2>1, RecordsInv
  <1>2. IInv /\ Copy => IInv'
    BY <1>1 DEF Copy
  <1>3. IInv /\ EndSequence => IInv'
    BY <1>1 DEF EndSequence
  <1> QED
    BY <1>2, <1>3

LEMMA AdvancePCInv == IInv /\ (AdvancePC \/ ConstAddPC) => IInv'
  <1>1. ASSUME IInv, NEW kinds, Fetch(kinds), unit.maxOps # 0, NEW adv \in Nat,
               Sets(advancePC(unit, sm, adv))
        PROVE  IInv'
    <2>1. /\ WellShaped(unit) /\ sm \in SMType /\ InInstruction(unit, sm) /\ at = "program"
          /\ off' \in 0..sect.size /\ UNCHANGED <<sect, from, cus>>
      BY <1>1, OpLemma DEF IInv
    <2>2. advancePC(unit, sm, adv) \in SMType /\ InInstruction(unit, advancePC(unit, sm, adv))
      BY <1>1, <2>1, AdvanceLemma
    <2> QED
      BY <1>1, <2>1, <2>2, SetsInv
  <1>2. ASSUME IInv, AdvancePC PROVE IInv'
    <2>1. Fetch({"advance_pc"}) /\ Sets(advancePC(unit, sm, arg))
      BY <1>2 DEF AdvancePC
    <2>2. Op(unit.prog[pc]) /\ unit.prog[pc].op = "advance_pc" /\ ~divides(unit, unit.prog[pc])
      BY <1>2, <2>1, OpLemma DEF IInv
    <2>3. arg \in Nat /\ unit.maxOps # 0
      BY <2>2 DEF Op, arg, divides
    <2> QED
      BY <1>1, <1>2, <2>1, <2>3
  <1>3. ASSUME IInv, ConstAddPC PROVE IInv'
    <2> DEFINE adv == (255 - unit.opcodeBase) \div unit.lineRange
    <2>1. Fetch({"const_add_pc"}) /\ Sets(advancePC(unit, sm, adv))
      BY <1>3 DEF ConstAddPC
    <2>2. /\ WellShaped(unit) /\ unit.prog[pc].op = "const_add_pc"
          /\ ~divides(unit, unit.prog[pc])
      BY <1>3, <2>1, OpLemma DEF IInv
    <2>3. unit.maxOps # 0 /\ unit.lineRange \in Nat \ {0} /\ unit.opcodeBase \in 0..255
      BY <2>2, UnitNumbers DEF divides
    <2>4. 255 - unit.opcodeBase \in Nat
      BY <2>3
    <2>5. adv \in Nat
      BY <2>3, <2>4
    <2> HIDE DEF adv
    <2> QED
      BY <1>1, <1>3, <2>1, <2>3, <2>5
  <1> QED
    BY <1>2, <1>3

LEMMA FixedAdvancePCInv == IInv /\ FixedAdvancePC => IInv'
  <1> SUFFICES ASSUME IInv, FixedAdvancePC PROVE IInv'
    OBVIOUS
  <1> DEFINE s == [sm EXCEPT !.address = (@ + arg) % Mod64, !.op_index = 0]
  <1>1. Fetch({"fixed_advance_pc"}) /\ Sets(s)
    BY DEF FixedAdvancePC
  <1>2. /\ sm \in SMType /\ at = "program" /\ UNCHANGED <<sect, from, cus>>
        /\ Op(unit.prog[pc]) /\ unit.prog[pc].op = "fixed_advance_pc" /\ off' \in 0..sect.size
    BY <1>1, OpLemma DEF IInv
  <1>3. arg \in Nat
    BY <1>2 DEF Op, arg
  <1>4. s \in SMType /\ s.op_index = 0
    <2> DEFINE a == (sm.address + arg) % Mod64
    <2>1. sm.address + arg \in Int
      BY <1>2, <1>3, Widths DEF SMType
    <2>2. a \in 0..(Mod64 - 1)
      BY <2>1, Widths, Remainder
    <2>3. s = [sm EXCEPT !.address = a, !.op_index = 0]
      BY <1>2 DEF SMType
    <2> HIDE DEF s, a
    <2> QED
      BY <1>2, <2>2, <2>3 DEF SMType
  <1> HIDE DEF s
  <1>5. InInstruction(unit, s)
    BY <1>4 DEF InInstruction
  <1> QED
    BY <1>1, <1>2, <1>4, <1>5, SetsInv

\* An operand is of 64 bits, and so is each of its words.
LEMMA ReadAddressType ==
  ASSUME NEW s, NEW u, NEW o, o.arg \in 0..(Mod64 - 1)
  PROVE  readAddress(s, u, o) \in 0..(Mod64 - 1)
  <1>1. o.arg \in Nat /\ o.arg <= Mod64 - 1 /\ Mod64 \in Nat
    BY Widths
  <1>2. \A m \in Nat \ {0} : /\ o.arg % m \in Nat /\ o.arg % m <= o.arg
                             /\ o.arg \div m \in Nat /\ o.arg \div m <= o.arg
    BY <1>1
  <1>3. /\ o.arg % Mod32 \in Nat /\ o.arg % Mod32 <= o.arg
        /\ o.arg \div Mod32 \in Nat /\ o.arg \div Mod32 <= o.arg
    BY <1>2, Widths
  <1>4. o.arg % Mod32 \in 0..(Mod64 - 1) /\ o.arg \div Mod32 \in 0..(Mod64 - 1)
    BY <1>1, <1>3
  <1> QED
    BY <1>4 DEF readAddress

LEMMA SetAddressInv == IInv /\ SetAddress => IInv'
  <1> SUFFICES ASSUME IInv, SetAddress PROVE IInv'
    OBVIOUS
  <1> DEFINE s == [sm EXCEPT !.address = readAddress(sect, unit, unit.prog[pc])]
  <1>1. Fetch({"set_address"}) /\ Sets(s)
    BY DEF SetAddress
  <1>2. /\ sm \in SMType /\ InInstruction(unit, sm) /\ at = "program" /\ UNCHANGED <<sect, from, cus>>
        /\ Op(unit.prog[pc]) /\ unit.prog[pc].op = "set_address" /\ off' \in 0..sect.size
    BY <1>1, OpLemma DEF IInv
  <1>3. readAddress(sect, unit, unit.prog[pc]) \in 0..(Mod64 - 1)
    BY <1>2, ReadAddressType DEF Op
  <1>4. s \in SMType /\ s.op_index = sm.op_index
    BY <1>2, <1>3 DEF SMType
  <1> HIDE DEF s
  <1>5. InInstruction(unit, s)
    BY <1>2, <1>4 DEF InInstruction
  <1> QED
    BY <1>1, <1>2, <1>4, <1>5, SetsInv

\* The opcodes that leave the address alone.
LEMMA OtherRegisters ==
  IInv /\ (AdvanceLine \/ SetFile \/ SetDiscriminator \/ SetRegister \/ NegateStmt \/ SetFlag)
    => IInv'
  <1>1. ASSUME IInv, NEW kinds, Fetch(kinds)
        PROVE  sm \in SMType /\ Op(unit.prog[pc]) /\ unit.prog[pc].op \in kinds
    BY <1>1, OpLemma DEF IInv
  <1>2. ASSUME IInv, NEW kinds, Fetch(kinds), NEW s \in SMType, Sets(s), s.op_index = sm.op_index
        PROVE  IInv'
    <2>1. /\ sm \in SMType /\ InInstruction(unit, sm) /\ at = "program"
          /\ off' \in 0..sect.size /\ UNCHANGED <<sect, from, cus>>
      BY <1>2, OpLemma DEF IInv
    <2>2. InInstruction(unit, s)
      BY <1>2, <2>1 DEF InInstruction
    <2> QED
      BY <1>2, <2>1, <2>2, SetsInv
  <1>3. ASSUME IInv, AdvanceLine PROVE IInv'
    <2>1. Fetch({"advance_line"}) /\ Sets(advanceLine(sm, arg))
      BY <1>3 DEF AdvanceLine
    <2>2. arg \in Int
      BY <1>1, <1>3, <2>1 DEF Op, arg
    <2> QED
      BY <1>1, <1>2, <1>3, <2>1, <2>2, LineLemma
  <1>4. ASSUME IInv, SetFile PROVE IInv'
    <2> DEFINE s == [sm EXCEPT !.file = arg % Mod32]
    <2>1. Fetch({"set_file"}) /\ Sets(s)
      BY <1>4 DEF SetFile
    <2>2. arg \in Nat
      BY <1>1, <1>4, <2>1 DEF Op, arg
    <2>3. arg % Mod32 \in Nat
      BY <2>2, Widths, Remainder
    <2>4. s \in SMType /\ s.op_index = sm.op_index
      BY <1>1, <1>4, <2>1, <2>3 DEF SMType
    <2> HIDE DEF s
    <2> QED
      BY <1>2, <1>4, <2>1, <2>4
  <1>5. ASSUME IInv, SetDiscriminator PROVE IInv'
    <2> DEFINE s == [sm EXCEPT !.discriminator = arg]
    <2>1. Fetch({"set_discriminator"}) /\ Sets(s)
      BY <1>5 DEF SetDiscriminator
    <2>2. arg \in Nat
      BY <1>1, <1>5, <2>1 DEF Op, arg
    <2>3. s \in SMType /\ s.op_index = sm.op_index
      BY <1>1, <1>5, <2>1, <2>2 DEF SMType
    <2> HIDE DEF s
    <2> QED
      BY <1>2, <1>5, <2>1, <2>3
  <1>6. ASSUME IInv, SetRegister PROVE IInv'
    BY <1>1, <1>2, <1>6 DEF SetRegister
  <1>7. ASSUME IInv, NEW fl, fl \subseteq Flags \cup {"IS_STMT"}, NEW kinds, Fetch(kinds),
               Sets([sm EXCEPT !.flags = fl])
        PROVE  IInv'
    <2> DEFINE s == [sm EXCEPT !.flags = fl]
    <2>1. s \in SMType /\ s.op_index = sm.op_index
      BY <1>1, <1>7 DEF SMType
    <2>2. Sets(s)
      BY <1>7
    <2> HIDE DEF s
    <2> QED
      BY <1>2, <1>7, <2>1, <2>2

  <1>8. ASSUME IInv, NegateStmt PROVE IInv'
    <2> DEFINE fl == IF "IS_STMT" \in sm.flags THEN sm.flags \ {"IS_STMT"}
                                               ELSE sm.flags \cup {"IS_STMT"}
    <2>1. Fetch({"negate_stmt"}) /\ Sets([sm EXCEPT !.flags = fl])
      BY <1>8 DEF NegateStmt
    <2>2. sm.flags \subseteq Flags \cup {"IS_STMT"}
      BY <1>1, <1>8, <2>1 DEF SMType
    <2>3. fl \subseteq Flags \cup {"IS_STMT"}
      BY <2>2
    <2> HIDE DEF fl
    <2> QED
      BY <1>7, <1>8, <2>1, <2>3
  <1>9. ASSUME IInv, SetFlag PROVE IInv'
    <2> DEFINE fl == sm.flags \cup {arg}
    <2>1. Fetch({"set_flag"}) /\ Sets([sm EXCEPT !.flags = fl])
      BY <1>9 DEF SetFlag
    <2>2. arg \in Flags
      BY <1>1, <1>9, <2>1 DEF Op, arg
    <2>3. fl \subseteq Flags \cup {"IS_STMT"}
      BY <1>1, <1>9, <2>1, <2>2 DEF SMType
    <2> HIDE DEF fl
    <2> QED
      BY <1>7, <1>9, <2>1, <2>3
  <1> QED
    BY <1>3, <1>4, <1>5, <1>6, <1>8, <1>9

(***************************************************************************)
(* The tables of files, and the units.                                     *)
(***************************************************************************)
LEMMA SeqElement ==
  ASSUME NEW S, NEW q \in Seq(S), NEW i \in DOMAIN q
  PROVE  q[i] \in S
  OBVIOUS

CuType == [files : Seq(DOMAIN files), lines : Seq(RowType), from : DOMAIN sect.units]
LEMMA UnitType ==
  ASSUME TypeOK, NEW n \in DOMAIN cus
  PROVE  cus \in Seq(CuType) /\ cus[n] \in CuType
  <1>1. cus \in Seq(CuType)
    BY DEF TypeOK, CuType
  <1> QED
    BY <1>1, SeqElement

\* Rows keep their type, and their links, when files are added.
LEMMA WiderRows ==
  ASSUME DOMAIN files \subseteq DOMAIN files', NEW q \in Seq(RowType)
  PROVE  q \in Seq(RowType')
  <1>1. RowType \subseteq RowType'
    BY DEF RowType
  <1> QED
    BY <1>1, SeqMonotonic

\* The units a file lists before addFiles() are those it lists after, and the
\* unit that is read lists files that list it.
LEMMA FilesAdded ==
  ASSUME TypeOK, cur \in Nat, \A i \in DOMAIN paths : In(files[paths[i]], cur),
         NEW S, NEW ps \in Seq(S), addFiles(ps)
  PROVE  /\ DOMAIN files \subseteq DOMAIN files'
         /\ paths' \in Seq(DOMAIN files')
         /\ \A p \in DOMAIN files' : files'[p] \in Seq(Nat)
         /\ \A p \in DOMAIN files : \A x : In(files[p], x) => In(files'[p], x)
         /\ \A i \in DOMAIN paths' : In(files'[paths'[i]], cur)
  <1> DEFINE new == {ps[i] : i \in DOMAIN ps}
             C(p) == Cardinality({i \in DOMAIN ps : ps[i] = p})
             old(p) == IF p \in DOMAIN files THEN files[p] ELSE <<>>
             more(p) == [k \in 1..C(p) |-> cur]
  <1>1. /\ paths' = paths \o ps
        /\ files' = [p \in DOMAIN files \cup new |-> old(p) \o more(p)]
    BY DEF addFiles
  <1>2. /\ DOMAIN ps = 1..Len(ps) /\ Len(ps) \in Nat
        /\ DOMAIN files' = DOMAIN files \cup new
    BY <1>1
  <1>3. ASSUME NEW p PROVE C(p) \in Nat /\ (p \in new => C(p) # 0)
    <2> DEFINE I == {i \in DOMAIN ps : ps[i] = p}
    <2>1. IsFiniteSet(1..Len(ps))
      BY <1>2, FS_Interval
    <2>2. IsFiniteSet(I)
      BY <1>2, <2>1, FS_Subset
    <2>3. Cardinality(I) \in Nat
      BY <2>2, FS_CardinalityType
    <2>4. Cardinality(I) = 0 => I = {}
      BY <2>2, FS_EmptySet
    <2> QED
      BY <2>3, <2>4
  <1>4. ASSUME NEW p
        PROVE  /\ more(p) \in Seq(Nat) /\ Len(more(p)) = C(p) /\ C(p) \in Nat
               /\ p \in new => C(p) # 0 /\ more(p)[1] = cur
    <2>1. C(p) \in Nat /\ (p \in new => C(p) # 0)
      BY <1>3
    <2> HIDE DEF C
    <2>2. p \in new => 1 \in 1..C(p)
      BY <2>1
    <2> QED
      BY <2>1, <2>2
  <1>5. ASSUME NEW p PROVE old(p) \in Seq(Nat)
    BY DEF TypeOK
  <1> HIDE DEF C, old, more
  <1>6. ASSUME NEW p PROVE /\ old(p) \o more(p) \in Seq(Nat)
                           /\ \A k \in DOMAIN old(p) : k \in DOMAIN (old(p) \o more(p))
                                                     /\ (old(p) \o more(p))[k] = old(p)[k]
    BY <1>4, <1>5
  <1>7. ASSUME NEW p \in new PROVE In(old(p) \o more(p), cur)
    <2>1. C(p) \in Nat \ {0} /\ more(p)[1] = cur
      BY <1>4
    <2>2. /\ Len(old(p)) + 1 \in DOMAIN (old(p) \o more(p))
          /\ (old(p) \o more(p))[Len(old(p)) + 1] = more(p)[1]
      BY <1>4, <1>5, <2>1
    <2> QED
      BY <2>1, <2>2 DEF In
  <1>8. ASSUME NEW p \in DOMAIN files, NEW x, In(files[p], x) PROVE In(files'[p], x)
    <2>1. old(p) = files[p]
      BY DEF old
    <2>2. files'[p] = old(p) \o more(p)
      BY <1>1
    <2> QED
      BY <1>6, <1>8, <2>1, <2>2 DEF In
  <1>9. ASSUME NEW p \in DOMAIN files' PROVE files'[p] \in Seq(Nat)
    BY <1>1, <1>6
  <1>10. paths \in Seq(DOMAIN files)
    BY DEF TypeOK
  <1>11. paths \in Seq(DOMAIN files') /\ ps \in Seq(DOMAIN files')
    BY <1>2, <1>10
  <1>12. /\ paths' \in Seq(DOMAIN files')
         /\ \A i \in DOMAIN paths' : paths'[i] \in new \/ \E k \in DOMAIN paths : paths'[i] = paths[k]
    <2>1. ASSUME NEW i \in DOMAIN paths'
          PROVE  paths'[i] \in new \/ \E k \in DOMAIN paths : paths'[i] = paths[k]
      <3>1. /\ i \in 1..(Len(paths) + Len(ps)) /\ Len(paths) \in Nat /\ Len(ps) \in Nat
            /\ DOMAIN paths = 1..Len(paths)
        BY <1>1, <1>11
      <3>2. CASE i <= Len(paths)
        BY <1>1, <1>11, <3>1, <3>2
      <3>3. CASE i > Len(paths)
        <4>1. i - Len(paths) \in DOMAIN ps
          BY <1>2, <3>1, <3>3
        <4>2. paths'[i] = ps[i - Len(paths)]
          BY <1>1, <1>11, <3>1, <3>3
        <4> QED
          BY <4>1, <4>2
      <3> QED
        BY <3>1, <3>2, <3>3
    <2> QED
      BY <1>1, <1>11, <2>1
  <1>13. ASSUME NEW i \in DOMAIN paths' PROVE In(files'[paths'[i]], cur)
    <2>1. CASE paths'[i] \in new
      BY <1>1, <1>7, <2>1
    <2>2. ASSUME NEW k \in DOMAIN paths, paths'[i] = paths[k] PROVE In(files'[paths'[i]], cur)
      <3>1. paths[k] \in DOMAIN files /\ In(files[paths[k]], cur)
        BY <1>10
      <3> QED
        BY <1>8, <2>2, <3>1
    <2> QED
      BY <1>12, <2>1, <2>2
  <1> QED
    BY <1>2, <1>8, <1>9, <1>12, <1>13

\* What adding files leaves of the invariant, the registers and the mode apart.
LEMMA AddsInv ==
  ASSUME IInv, NEW S, NEW ps \in Seq(S), addFiles(ps), UNCHANGED <<sect, rows, cus>>
  PROVE  /\ rows' \in Seq(RowType') /\ paths' \in Seq(DOMAIN files')
         /\ cus' \in Seq(CuType')
         /\ \A p \in DOMAIN files' : files'[p] \in Seq(Nat)
         /\ LinkedNow' /\ Linked'
  <1>1. /\ sect' = sect /\ rows' = rows /\ cus' = cus /\ cur' = cur /\ TypeOK
        /\ \A i \in DOMAIN paths : In(files[paths[i]], cur)
    BY DEF cur, IInv, LinkedNow
  <1>2. cur \in Nat /\ rows \in Seq(RowType) /\ cus \in Seq(CuType)
    BY <1>1 DEF TypeOK, CuType, cur
  <1>3. /\ DOMAIN files \subseteq DOMAIN files'
        /\ paths' \in Seq(DOMAIN files')
        /\ \A p \in DOMAIN files' : files'[p] \in Seq(Nat)
        /\ \A p \in DOMAIN files : \A x : In(files[p], x) => In(files'[p], x)
        /\ \A i \in DOMAIN paths' : In(files'[paths'[i]], cur)
    BY <1>1, <1>2, FilesAdded
  <1>4. rows \in Seq(RowType')
    BY <1>2, <1>3, WiderRows
  <1>5. cus \in Seq(CuType')
    <2>1. ASSUME NEW f \in Seq(DOMAIN files) PROVE f \in Seq(DOMAIN files')
      BY <1>3, SeqMonotonic
    <2>2. ASSUME NEW q \in Seq(RowType) PROVE q \in Seq(RowType')
      BY <1>3, WiderRows
    <2>3. CuType \subseteq CuType'
      BY <1>1, <2>1, <2>2 DEF CuType
    <2> QED
      BY <1>2, <2>3, SeqMonotonic
  <1>6. LinkedNow'
    <2>1. ASSUME NEW i \in DOMAIN rows PROVE In(files'[rows[i].file], cur)
      <3>1. In(files[rows[i].file], cur)
        BY DEF IInv, LinkedNow
      <3>2. rows[i] \in RowType
        BY <1>2
      <3>3. rows[i].file \in DOMAIN files
        BY <3>2 DEF RowType
      <3> QED
        BY <1>3, <3>1, <3>3
    <2> QED
      BY <1>1, <1>3, <2>1 DEF LinkedNow
  <1>7. Linked'
    <2>1. ASSUME NEW n \in DOMAIN cus, NEW i \in DOMAIN cus[n].lines
          PROVE  In(files'[cus[n].lines[i].file], n)
      <3>1. In(files[cus[n].lines[i].file], n)
        BY DEF IInv, Linked
      <3>2. cus[n].lines \in Seq(RowType)
        BY <1>1, UnitType DEF CuType
      <3>3. cus[n].lines[i] \in RowType
        BY <3>2, SeqElement
      <3>4. cus[n].lines[i].file \in DOMAIN files
        BY <3>3 DEF RowType
      <3> QED
        BY <1>3, <3>1, <3>4
    <2> QED
      BY <1>1, <2>1 DEF Linked
  <1> QED
    BY <1>1, <1>3, <1>4, <1>5, <1>6, <1>7

\* Some entries of a table, in the header or behind it.
LEMMA TableInv ==
  ASSUME IInv, NEW u, NEW fs \in Entries, addTable(u, fs),
         sm' \in SMType, from' \in DOMAIN sect.units, unit' = u, InInstruction(u, sm'),
         off' \in 0..sect.size, UNCHANGED <<sect, rows, cus>>
  PROVE  IInv'
  <1>1. sect' = sect /\ rows' = rows /\ cus' = cus /\ cur' = cur /\ TypeOK
    BY DEF cur, IInv
  <1>2. CASE at' = "undefined" /\ UNCHANGED <<paths, files>>
    <2>1. TypeOK'
      BY <1>1, <1>2 DEF TypeOK, RowType, SMType
    <2> QED
      BY <1>1, <1>2, <2>1 DEF IInv, Idle, LinkedNow, Linked
  <1>3. CASE addFiles(tablePaths(u, fs)) /\ at' = "program"
    <2> DEFINE ps == tablePaths(u, fs)
    <2>1. PICK n \in Nat : DOMAIN fs = 1..n
      BY DEF Entries
    <2>2. ps \in Seq({ps[i] : i \in 1..n})
      BY <2>1 DEF tablePaths
    <2> HIDE DEF ps
    <2>3. addFiles(ps)
      BY <1>3 DEF ps
    <2>4. /\ rows' \in Seq(RowType') /\ paths' \in Seq(DOMAIN files')
          /\ cus' \in Seq(CuType')
          /\ \A p \in DOMAIN files' : files'[p] \in Seq(Nat)
          /\ LinkedNow' /\ Linked'
      BY <1>1, <2>2, <2>3, AddsInv
    <2>5. TypeOK'
      BY <1>1, <1>3, <2>4 DEF TypeOK, CuType, SMType
    <2> QED
      BY <1>3, <2>4, <2>5 DEF IInv, Idle
  <1> QED
    BY <1>2, <1>3 DEF addTable

LEMMA ReadHeaderInv == IInv /\ ReadHeader => IInv'
  <1> SUFFICES ASSUME IInv, ReadHeader PROVE IInv'
    OBVIOUS
  <1>1. TypeOK /\ UNCHANGED <<sect, rows, cus>>
    BY DEF ReadHeader, IInv
  <1>2. PICK n \in readable :
          LET u == sect.units[n] IN
            /\ from' = n /\ sm' = initialSM(u) /\ off' = programAt(sect, u)
            /\ addTable(u, u.files)
    BY DEF ReadHeader
  <1> DEFINE u == sect.units[n]
  <1>3. n \in DOMAIN sect.units /\ unit' = u
    BY <1>1, <1>2 DEF readable, unit
  <1>4. WellShaped(u) /\ Laid(sect, u) /\ sect.size \in Nat
    BY <1>1, <1>3, UnitShape
  <1> HIDE DEF u
  <1>5. sm' = initialSM(u) /\ off' = programAt(sect, u) /\ addTable(u, u.files) /\ from' = n
    BY <1>2 DEF u
  <1>6. initialSM(u) \in SMType /\ InInstruction(u, initialSM(u))
    BY Widths DEF initialSM, SMType, InInstruction
  <1>7. u.files \in Entries
    BY <1>4 DEF WellShaped
  <1>8. off' \in 0..sect.size
    BY <1>4, <1>5, ProgramInside
  <1> QED
    BY <1>1, <1>3, <1>5, <1>6, <1>7, <1>8, TableInv

LEMMA DefineFileInv == IInv /\ DefineFile => IInv'
  <1> SUFFICES ASSUME IInv, DefineFile PROVE IInv'
    OBVIOUS
  <1>1. Fetch({"define_file"}) /\ addTable(unit, arg) /\ UNCHANGED <<rows, sm>> /\ TypeOK
    BY DEF DefineFile, IInv
  <1>2. /\ sm \in SMType /\ InInstruction(unit, sm) /\ from \in DOMAIN sect.units
        /\ Op(unit.prog[pc]) /\ unit.prog[pc].op = "define_file"
        /\ off' \in 0..sect.size /\ UNCHANGED <<sect, from, cus>>
    BY <1>1, OpLemma
  <1>3. arg \in Entries
    BY <1>2 DEF Op, arg
  <1>4. unit' = unit /\ sm' = sm /\ from' = from
    BY <1>1, <1>2 DEF unit
  <1> QED
    BY <1>1, <1>2, <1>3, <1>4, TableInv

LEMMA FinishUnitInv == IInv /\ FinishUnit => IInv'
  <1> SUFFICES ASSUME IInv, FinishUnit PROVE IInv'
    OBVIOUS
  <1> DEFINE cu == [files |-> paths, lines |-> rows, from |-> from]
  <1>1. /\ at = "program" /\ at' = "unit" /\ rows' = <<>> /\ paths' = <<>> /\ cus' = Append(cus, cu)
        /\ sect' = sect /\ from' = from /\ sm' = sm /\ files' = files /\ TypeOK
    BY DEF FinishUnit, IInv
  <1>2. cus \in Seq(CuType) /\ CuType' = CuType /\ from \in DOMAIN sect.units
    BY <1>1 DEF TypeOK, RowType, CuType
  <1>3. cu \in CuType
    BY <1>1, <1>2 DEF TypeOK, CuType
  <1>4. /\ cus' \in Seq(CuType)
        /\ DOMAIN cus' = DOMAIN cus \cup {cur}
        /\ cus'[cur] = cu /\ \A n \in DOMAIN cus : cus'[n] = cus[n]
    BY <1>1, <1>2, <1>3 DEF cur
  <1>5. off' \in 0..sect.size
    <2>1. Laid(sect, unit) /\ sect.size \in Nat
      BY <1>1, <1>2, UnitShape DEF unit
    <2>2. endOf(unit) \in Nat
      BY <2>1, ProgramInside
    <2> QED
      BY <1>1, <2>1, <2>2 DEF FinishUnit, TypeOK
  <1>6. TypeOK'
    BY <1>1, <1>2, <1>4, <1>5 DEF TypeOK, CuType, RowType, SMType
  <1>7. Linked'
    BY <1>1, <1>4 DEF IInv, Linked, LinkedNow
  <1> QED
    BY <1>1, <1>6, <1>7 DEF IInv, Idle, LinkedNow

LEMMA StillInv == IInv /\ (Built \/ DivideByZero \/ UNCHANGED vars) => IInv'
  <1> SUFFICES ASSUME IInv, Built \/ DivideByZero \/ UNCHANGED vars PROVE IInv'
    OBVIOUS
  <1>1. /\ (at = "unit" /\ at' = "built") \/ at' \in {at, "undefined"}
        /\ UNCHANGED <<sect, off, from, sm, rows, paths, cus, files, cur, unit>> /\ TypeOK
    BY DEF Built, DivideByZero, vars, cur, unit, IInv
  <1>2. TypeOK'
    BY <1>1 DEF TypeOK, RowType, SMType
  <1> QED
    BY <1>1, <1>2 DEF IInv, Idle, LinkedNow, Linked

THEOREM Invariance == Spec => []IInv
  <1>1. IInv /\ [Next]_vars => IInv'
    BY ThrowInv, ReadHeaderInv, FinishUnitInv, StillInv, SpecialInv, CopyInv, AdvancePCInv,
       FixedAdvancePCInv, SetAddressInv, OtherRegisters, DefineFileInv
       DEF Next, HeaderThrows, ProgramThrows
  <1> QED
    BY <1>1, InitInv, PTL DEF Spec

(***************************************************************************)
(* The properties.                                                         *)
(***************************************************************************)
\* The state machine of a unit keeps its registers in range, the cursor stays in
\* the section wherever its lengths lead, and every row has a file that the
\* tables know.
THEOREM TypeCorrect == Spec => []TypeOK
  <1>1. IInv => TypeOK
    BY DEF IInv
  <1> QED
    BY <1>1, Invariance, PTL

LEMMA RowsOfUnits ==
  ASSUME TypeOK, NEW n \in DOMAIN cus
  PROVE  n \in Nat /\ Addressed(cus[n].lines)
  <1> DEFINE q == cus[n].lines
  <1>1. q \in Seq(RowType) /\ n \in Nat
    BY UnitType DEF CuType
  <1> HIDE DEF q
  <1>2. ASSUME NEW i \in DOMAIN q PROVE q[i].addr \in Nat
    <2>1. q[i] \in RowType
      BY <1>1, SeqElement
    <2> QED
      BY <2>1 DEF RowType
  <1>3. Len(q) \in Nat /\ DOMAIN q = 1..Len(q)
    BY <1>1
  <1>4. Addressed(q)
    BY <1>2, <1>3 DEF Addressed
  <1> QED
    BY <1>1, <1>4 DEF q

\* lineAt() answers the row of each address that is covered and no other, over
\* all the units of a section whose rows ascend.
THEOREM LookupsAreExact == Spec => []LookupExact
  <1>1. ASSUME IInv, at = "built", LookupDefined(cus), \A n \in DOMAIN cus : Ascends(cus[n].lines),
               NEW a \in Addresses
        PROVE  LookupExactAt(cus, a)
    <2>1. \A n \in DOMAIN cus : n \in Nat /\ Addressed(cus[n].lines)
      BY <1>1, RowsOfUnits DEF IInv
    <2>2. a \in Nat
      BY <1>1, AddressesAssumption
    <2> QED
      BY <1>1, <2>1, <2>2, LookupLemma
  <1>2. IInv => LookupExact
    BY <1>1 DEF LookupExact
  <1> QED
    BY <1>2, Invariance, PTL

\* File::find() leads back to the row that lineAt() finds: no row names a file
\* that does not list the row's unit.
THEOREM FindLeadsBack == Spec => []FindsBack
  <1>1. ASSUME IInv, at = "built", NEW a \in Addresses, NEW m \in lineAt(cus, a)
        PROVE  LET r == cus[m[1]].lines[m[2]] IN
                 \E q \in find(cus, files[r.file], r.file, r.line) :
                   files[r.file][q[1]] = m[1] /\ q[2] = m[2]
    <2>1. m[1] \in DOMAIN cus /\ m[2] \in rowsAt(cus[m[1]], a)
      BY <1>1 DEF lineAt, First, unitsAt
    <2> DEFINE q == cus[m[1]].lines
               r == q[m[2]]
               units == files[r.file]
    <2>2. PICK l \in Nat : DOMAIN q = 1..l /\ Len(q) = l
      BY <1>1, <2>1, RowsOfUnits DEF IInv, Addressed
    <2>3. m[2] \in 1..(Len(q) - 1) /\ m[2] \in DOMAIN q
      BY <2>1, <2>2 DEF rowsAt
    <2>4. PICK k \in DOMAIN units : units[k] = m[1]
      BY <1>1, <2>1, <2>3 DEF IInv, Linked, In
    <2>5. <<k, m[2]>> \in find(cus, units, r.file, r.line)
      <3> DEFINE hits(j) ==
                   {<<j, i>> : i \in {x \in 1..(Len(cus[units[j]].lines) - 1) :
                                       /\ cus[units[j]].lines[x].file = r.file
                                       /\ cus[units[j]].lines[x].line = r.line}}
      <3>1. <<k, m[2]>> \in hits(k)
        BY <2>3, <2>4
      <3>2. find(cus, units, r.file, r.line) = UNION {hits(j) : j \in DOMAIN units}
        BY DEF find
      <3> HIDE DEF hits
      <3> QED
        BY <3>1, <3>2
    <2> QED
      BY <2>4, <2>5
  <1>2. IInv => FindsBack
    BY <1>1 DEF FindsBack
  <1> QED
    BY <1>2, Invariance, PTL

(***************************************************************************)
(* How often files and units list each other.                              *)
(***************************************************************************)
LEMMA TimesNat ==
  ASSUME NEW S, NEW q \in Seq(S), NEW x
  PROVE  /\ Times(q, x) \in Nat /\ IsFiniteSet({i \in DOMAIN q : q[i] = x})
         /\ x \notin S => Times(q, x) = 0
  <1> DEFINE I == {i \in DOMAIN q : q[i] = x}
  <1>1. DOMAIN q = 1..Len(q) /\ Len(q) \in Nat
    OBVIOUS
  <1>2. IsFiniteSet(1..Len(q))
    BY <1>1, FS_Interval
  <1>3. IsFiniteSet(I)
    BY <1>1, <1>2, FS_Subset
  <1>4. Cardinality(I) \in Nat
    BY <1>3, FS_CardinalityType
  <1>5. ASSUME x \notin S PROVE I = {}
    BY <1>5, SeqElement
  <1>6. I = {} => Cardinality(I) = 0
    BY <1>3, FS_EmptySet
  <1> QED
    BY <1>3, <1>4, <1>5, <1>6 DEF Times

LEMMA TimesEmpty ==
  ASSUME NEW x
  PROVE  Times(<<>>, x) = 0
  <1>1. {i \in DOMAIN <<>> : <<>>[i] = x} = {}
    OBVIOUS
  <1> QED
    BY <1>1, FS_EmptySet DEF Times

LEMMA TimesAppended ==
  ASSUME NEW S, NEW q \in Seq(S), NEW T, NEW r \in Seq(T), NEW x
  PROVE  Times(q \o r, x) = Times(q, x) + Times(r, x)
  <1> DEFINE I == {i \in DOMAIN q : q[i] = x}
             J == {i \in DOMAIN r : r[i] = x}
             K == {i \in DOMAIN (q \o r) : (q \o r)[i] = x}
             shift == [i \in J |-> i + Len(q)]
             M == {shift[i] : i \in J}
  <1>1. /\ DOMAIN q = 1..Len(q) /\ Len(q) \in Nat /\ DOMAIN r = 1..Len(r) /\ Len(r) \in Nat
        /\ q \in Seq(S \cup T) /\ r \in Seq(S \cup T)
    BY SeqMonotonic
  <1>2. /\ DOMAIN (q \o r) = 1..(Len(q) + Len(r))
        /\ \A i \in 1..(Len(q) + Len(r)) : (q \o r)[i] = IF i <= Len(q) THEN q[i] ELSE r[i - Len(q)]
    BY <1>1
  <1>3. IsFiniteSet(I) /\ IsFiniteSet(J)
    BY TimesNat
  <1>4. ExistsBijection(J, M)
    <2>1. \A i, j \in J : shift[i] = shift[j] => i = j
      BY <1>1
    <2>2. shift \in Bijection(J, M)
      BY <2>1 DEF Bijection, Injection, Surjection, IsInjective
    <2> QED
      BY <2>2 DEF ExistsBijection
  <1>5. IsFiniteSet(M) /\ Cardinality(M) = Cardinality(J)
    BY <1>3, <1>4, FS_Bijection
  <1>6. K = I \cup M
    <2>1. ASSUME NEW k \in K PROVE k \in I \cup M
      <3>1. CASE k <= Len(q)
        BY <1>1, <1>2, <3>1
      <3>2. CASE k > Len(q)
        <4>1. k - Len(q) \in 1..Len(r) /\ r[k - Len(q)] = x
          BY <1>1, <1>2, <3>2
        <4>2. k - Len(q) \in J /\ shift[k - Len(q)] = k
          BY <1>1, <1>2, <4>1
        <4> QED
          BY <4>2
      <3> QED
        BY <1>1, <1>2, <3>1, <3>2
    <2>2. ASSUME NEW i \in I PROVE i \in K
      BY <1>1, <1>2
    <2>3. ASSUME NEW j \in J PROVE j + Len(q) \in K
      <3>1. j + Len(q) \in 1..(Len(q) + Len(r)) /\ ~(j + Len(q) <= Len(q)) /\ (j + Len(q)) - Len(q) = j
        BY <1>1
      <3> QED
        BY <1>2, <3>1
    <2> QED
      BY <2>1, <2>2, <2>3
  <1>7. I \cap M = {}
    <2>1. \A i \in I : i <= Len(q)
      BY <1>1
    <2>2. ASSUME NEW j \in J PROVE ~(shift[j] <= Len(q))
      <3>1. j \in 1..Len(r) /\ shift[j] = j + Len(q)
        BY <1>1
      <3> QED
        BY <1>1, <3>1
    <2> QED
      BY <2>1, <2>2
  <1>8. Cardinality(I \cup M) = Cardinality(I) + Cardinality(M) - Cardinality(I \cap M)
    BY <1>3, <1>5, FS_Union
  <1>9. Cardinality(I \cap M) = 0 /\ Cardinality(I) \in Nat /\ Cardinality(M) \in Nat
    BY <1>3, <1>5, <1>7, FS_EmptySet, FS_CardinalityType
  <1> HIDE DEF I, J, K, M
  <1>10. Cardinality(K) = Cardinality(I) + Cardinality(J)
    BY <1>5, <1>6, <1>8, <1>9
  <1> QED
    BY <1>10 DEF Times, I, J, K

LEMMA Counting ==
  /\ Cardinality({}) = 0
  /\ \A n \in Nat : Cardinality(1..n) = n
  BY FS_Interval, FS_EmptySet

\* No file lists a number that is not of a unit.
Counted ==
  at # "undefined" =>
    \A p \in DOMAIN files :
      /\ \A n \in DOMAIN cus : Times(files[p], n) = Times(cus[n].files, p)
      /\ Times(files[p], cur) = Times(paths, p)
      /\ \A n \in Nat : n \notin DOMAIN cus \cup {cur} => Times(files[p], n) = 0

\* addFiles() adds to both lists.
LEMMA AddsCounted ==
  ASSUME IInv, Counted, at # "undefined", NEW S, NEW ps \in Seq(S), addFiles(ps), cus' = cus
  PROVE  Counted'
  <1> DEFINE C(p) == Cardinality({i \in DOMAIN ps : ps[i] = p})
             old(p) == IF p \in DOMAIN files THEN files[p] ELSE <<>>
             more(p) == [k \in 1..C(p) |-> cur]
  <1>1. /\ TypeOK /\ cur' = cur /\ cur \in Nat /\ \A n \in DOMAIN cus : n \in Nat /\ n < cur
        /\ paths \in Seq(DOMAIN files)
    BY DEF IInv, TypeOK, cur
  <1>2. /\ paths' = paths \o ps
        /\ files' = [p \in DOMAIN files \cup {ps[i] : i \in DOMAIN ps} |-> old(p) \o more(p)]
    BY DEF addFiles
  <1>3. ASSUME NEW p
        PROVE  /\ old(p) \in Seq(Nat) /\ Times(ps, p) \in Nat /\ more(p) \in Seq(Nat)
               /\ \A x : Times(more(p), x) = IF x = cur THEN Times(ps, p) ELSE 0
    <2>1. old(p) \in Seq(Nat)
      BY <1>1 DEF TypeOK
    <2>2. C(p) = Times(ps, p) /\ Times(ps, p) \in Nat
      BY TimesNat DEF Times
    <2> HIDE DEF C
    <2>3. more(p) \in Seq(Nat)
      BY <1>1, <2>2
    <2>4. ASSUME NEW x PROVE Times(more(p), x) = IF x = cur THEN Times(ps, p) ELSE 0
      <3>1. PICK n \in Nat : n = C(p)
        BY <2>2
      <3>2. PICK q : q = [k \in 1..n |-> cur]
        OBVIOUS
      <3>3. DOMAIN q = 1..n /\ \A k \in 1..n : q[k] = cur
        BY <3>2
      <3>4. Times(q, x) = IF x = cur THEN n ELSE 0
        <4>1. {i \in DOMAIN q : q[i] = x} = IF x = cur THEN 1..n ELSE {}
          BY <3>3
        <4> QED
          BY <4>1, Counting DEF Times
      <3>5. more(p) = q
        BY <3>1, <3>2
      <3> QED
        BY <2>2, <3>1, <3>4, <3>5
    <2> QED
      BY <2>1, <2>2, <2>3, <2>4
  <1>4. ASSUME NEW p
        PROVE  /\ \A n \in DOMAIN cus : Times(old(p), n) = Times(cus[n].files, p)
               /\ Times(old(p), cur) = Times(paths, p)
               /\ \A n \in Nat : n \notin DOMAIN cus \cup {cur} => Times(old(p), n) = 0
    <2>1. CASE p \in DOMAIN files
      BY <2>1 DEF Counted
    <2>2. CASE p \notin DOMAIN files
      <3>1. old(p) = <<>>
        BY <2>2
      <3>2. \A x : Times(old(p), x) = 0
        BY <3>1, TimesEmpty
      <3>3. Times(paths, p) = 0
        BY <1>1, <2>2, TimesNat
      <3>4. ASSUME NEW n \in DOMAIN cus PROVE Times(cus[n].files, p) = 0
        <4>1. cus[n].files \in Seq(DOMAIN files)
          BY <1>1, UnitType DEF CuType
        <4> QED
          BY <2>2, <4>1, TimesNat
      <3> QED
        BY <3>2, <3>3, <3>4
    <2> QED
      BY <2>1, <2>2
  <1> HIDE DEF old, more
  <1>5. ASSUME NEW p, NEW x PROVE Times(old(p) \o more(p), x) = Times(old(p), x) + Times(more(p), x)
    BY <1>3, TimesAppended
  <1>6. ASSUME NEW p PROVE Times(paths', p) = Times(paths, p) + Times(ps, p)
    BY <1>1, <1>2, TimesAppended
  <1>7. ASSUME NEW p, NEW x PROVE Times(old(p), x) \in Nat
    BY <1>3, TimesNat
  <1>8. ASSUME NEW p \in DOMAIN files'
        PROVE  /\ \A n \in DOMAIN cus : Times(files'[p], n) = Times(cus[n].files, p)
               /\ Times(files'[p], cur) = Times(paths', p)
               /\ \A n \in Nat : n \notin DOMAIN cus \cup {cur} => Times(files'[p], n) = 0
    <2>1. files'[p] = old(p) \o more(p)
      BY <1>2
    <2>2. \A x : Times(files'[p], x) = Times(old(p), x) + IF x = cur THEN Times(ps, p) ELSE 0
      BY <1>3, <1>5, <2>1
    <2>3. \A n \in DOMAIN cus : Times(files'[p], n) = Times(old(p), n)
      BY <1>1, <1>7, <2>2
    <2>4. Times(files'[p], cur) = Times(old(p), cur) + Times(ps, p)
      BY <2>2
    <2>5. \A n \in Nat : n \notin DOMAIN cus \cup {cur} => Times(files'[p], n) = Times(old(p), n)
      BY <1>1, <1>7, <2>2
    <2> QED
      BY <1>4, <1>6, <2>3, <2>4, <2>5
  <1> QED
    BY <1>1, <1>8 DEF Counted

LEMMA CountedStep == IInv /\ Counted /\ [Next]_vars => Counted'
  <1> SUFFICES ASSUME IInv, Counted, [Next]_vars PROVE Counted'
    OBVIOUS
  <1>1. TypeOK /\ cur \in Nat
    BY DEF IInv, TypeOK, cur
  <1>2. CASE UNCHANGED <<paths, cus, files>> /\ (at = "undefined" => at' = "undefined")
    BY <1>2 DEF Counted, cur
  <1>3. CASE Throw
    BY <1>3 DEF Throw, Counted
  <1>4. ASSUME NEW u, NEW fs \in Entries, addTable(u, fs), at # "undefined", cus' = cus
        PROVE  Counted'
    <2> DEFINE ps == tablePaths(u, fs)
    <2>1. CASE at' = "undefined"
      BY <2>1 DEF Counted
    <2>2. PICK n \in Nat : DOMAIN fs = 1..n
      BY <1>4 DEF Entries
    <2>3. ps \in Seq({ps[i] : i \in 1..n})
      BY <2>2 DEF tablePaths
    <2>4. ASSUME addFiles(ps) PROVE Counted'
      <3> HIDE DEF ps
      <3> QED
        BY <1>4, <2>3, <2>4, AddsCounted
    <2> QED
      BY <1>4, <2>1, <2>4 DEF addTable
  <1>5. CASE ReadHeader
    <2>1. PICK n \in readable : addTable(sect.units[n], sect.units[n].files)
      BY <1>5 DEF ReadHeader
    <2>2. n \in DOMAIN sect.units
      BY <2>1 DEF readable
    <2>3. sect.units[n].files \in Entries
      BY <1>1, <2>2, UnitShape DEF WellShaped
    <2>4. at = "unit" /\ cus' = cus
      BY <1>5 DEF ReadHeader
    <2> QED
      BY <1>4, <2>1, <2>3, <2>4
  <1>6. CASE DefineFile
    <2>1. Fetch({"define_file"}) /\ addTable(unit, arg)
      BY <1>6 DEF DefineFile
    <2>2. /\ at = "program" /\ cus' = cus /\ Op(unit.prog[pc])
          /\ unit.prog[pc].op = "define_file"
      BY <1>1, <2>1, OpLemma
    <2>3. arg \in Entries
      BY <2>2 DEF Op, arg
    <2> QED
      BY <1>4, <2>1, <2>2, <2>3
  <1>7. CASE FinishUnit
    <2> DEFINE cu == [files |-> paths, lines |-> rows, from |-> from]
    <2>1. /\ at = "program" /\ cus' = Append(cus, cu) /\ paths' = <<>> /\ files' = files
      BY <1>7 DEF FinishUnit
    <2>2. cus \in Seq(CuType) /\ cu.files = paths
      BY <1>1 DEF TypeOK, CuType
    <2>3. /\ DOMAIN cus' = DOMAIN cus \cup {cur} /\ cur' = cur + 1
          /\ cus'[cur] = cu /\ \A n \in DOMAIN cus : cus'[n] = cus[n]
      BY <2>1, <2>2 DEF cur
    <2>4. \A p : Times(<<>>, p) = 0
      BY TimesEmpty
    <2>5. ASSUME NEW p \in DOMAIN files
          PROVE  /\ \A n \in DOMAIN cus' : Times(files[p], n) = Times(cus'[n].files, p)
                 /\ Times(files[p], cur + 1) = 0
                 /\ \A n \in Nat : n \notin DOMAIN cus' \cup {cur + 1} => Times(files[p], n) = 0
      <3>1. cur + 1 \in Nat /\ cur + 1 \notin DOMAIN cus \cup {cur}
        BY <1>1, <2>2 DEF cur
      <3> QED
        BY <1>1, <2>1, <2>2, <2>3, <3>1 DEF Counted
    <2> QED
      BY <2>1, <2>3, <2>4, <2>5 DEF Counted
  <1> QED
    BY <1>2, <1>3, <1>5, <1>6, <1>7
       DEF Next, vars, HeaderThrows, ProgramThrows, Built, DivideByZero, Special, Copy, EndSequence, AdvancePC,
           ConstAddPC, FixedAdvancePC, SetAddress, AdvanceLine, SetFile, SetDiscriminator,
           SetRegister, NegateStmt, SetFlag, Fetch, Running, Sets, Records

LEMMA CountedAlways == Spec => [](IInv /\ Counted)
  <1>1. Init => Counted
    BY DEF Init, Counted
  <1> QED
    BY <1>1, InitInv, CountedStep, Invariance, PTL DEF Spec

\* A source file lists a unit as often as the unit lists the file, through every
\* header, every DW_LNE_define_file and every end of unit.
THEOREM UnitsAreListed == Spec => []UnitsListed
  <1>1. IInv /\ Counted => UnitsListed
    BY DEF Counted, UnitsListed
  <1> QED
    BY <1>1, CountedAlways, PTL

(***************************************************************************)
(* The sums of the advances.                                               *)
(***************************************************************************)
\* The sums are those that add up one number after the other.
LEMMA SumsLemma ==
  ASSUME NEW q \in Seq(Int)
  PROVE  /\ \A n \in 0..Len(q) : Sums(q)[n] \in Int
         /\ Sums(q)[0] = 0 /\ \A n \in 1..Len(q) : Sums(q)[n] = Sums(q)[n - 1] + q[n]
  <1> DEFINE N == Len(q)
             step == [n \in 1..N |-> [x \in Int |-> x + q[n]]]
             s == Sums(q)
  <1>1. N \in Nat /\ \A n \in 1..N : q[n] \in Int
    OBVIOUS
  <1>2. Steps(N, Int, step)
    BY <1>1 DEF Steps
  <1>3. PICK g : Turns(N, Int, 0, step, g)
    <2>1. N \in Nat /\ 0 \in Int
      BY <1>1
    <2> HIDE DEF step, N
    <2> QED
      BY <1>2, <2>1, Loop
  <1>4. \A n \in 1..N : g[n - 1] \in Int /\ g[n] = g[n - 1] + q[n]
    <2>1. ASSUME NEW n \in 1..N PROVE g[n - 1] \in Int /\ g[n] = step[n][g[n - 1]]
      <3>1. n - 1 \in 0..N
        BY <1>1
      <3> HIDE DEF step, N
      <3> QED
        BY <1>3, <3>1 DEF Turns
    <2> QED
      BY <2>1
  <1>5. g = [n \in 0..N |-> IF n = 0 THEN 0 ELSE g[n - 1] + q[n]]
    BY <1>1, <1>3, <1>4 DEF Turns
  <1>6. s = [n \in 0..N |-> IF n = 0 THEN 0 ELSE s[n - 1] + q[n]]
    BY <1>5, Zenon DEF Sums
  <1> HIDE DEF s
  <1>7. s[0] = 0 /\ \A n \in 1..N : s[n] = s[n - 1] + q[n]
    BY <1>1, <1>6
  <1>8. \A n \in 0..N : s[n] \in Int
    <2> DEFINE P == {n \in 0..N : s[n] \in Int}
    <2>1. 0 \in P /\ \A n \in 1..N : n - 1 \in P => n \in P
      BY <1>1, <1>7
    <2>2. 0..N \subseteq P
      <3> HIDE DEF P
      <3> QED
        BY <1>1, <2>1, Upward
    <2> QED
      BY <2>2
  <1> QED
    BY <1>7, <1>8 DEF s

\* An advance of an opcode is a number.
LEMMA AdvanceTypes ==
  ASSUME NEW u, Regular(u), NEW o, Op(o)
  PROVE  OpAdvance(u, o) \in Nat /\ LineAdvance(u, o) \in Int /\ FixedAdvance(o) \in Nat
  <1>1. u.lineRange \in Nat \ {0} /\ u.opcodeBase \in 0..255 /\ u.lineBase \in Int
    BY RegularNumbers
  <1>2. (255 - u.opcodeBase) \div u.lineRange \in Nat
    <2>1. 255 - u.opcodeBase \in Nat
      BY <1>1
    <2>2. \A m \in Nat, n \in Nat \ {0} : m \div n \in Nat
      OBVIOUS
    <2> QED
      BY <1>1, <2>1, <2>2
  <1>3. CASE o.op = "special"
    <2>1. o.arg \in 0..255
      BY <1>3 DEF Op
    <2>2. o.arg \div u.lineRange \in Nat /\ o.arg % u.lineRange \in Nat
      <3>1. \A m \in Nat, n \in Nat \ {0} : m \div n \in Nat /\ m % n \in Nat
        OBVIOUS
      <3>2. o.arg \in Nat
        BY <2>1
      <3> QED
        BY <1>1, <3>1, <3>2
    <2>3. u.lineBase + (o.arg % u.lineRange) \in Int
      BY <1>1, <2>2
    <2> QED
      BY <1>3, <2>2, <2>3 DEF OpAdvance, LineAdvance, FixedAdvance
  <1>4. CASE o.op # "special"
    BY <1>2, <1>4 DEF Op, OpAdvance, LineAdvance, FixedAdvance
  <1> QED
    BY <1>3, <1>4

\* Each opcode adds its advances to the sums.
LEMMA SumsStep ==
  ASSUME NEW u, Regular(u), NEW k \in Nat, k + 1 \in DOMAIN u.prog
  PROVE  /\ k \in 0..Len(u.prog) /\ Len(u.prog) \in Nat
         /\ OpSums(u)[k + 1] = OpSums(u)[k] + OpAdvance(u, u.prog[k + 1])
         /\ FixedSums(u)[k + 1] = FixedSums(u)[k] + FixedAdvance(u.prog[k + 1])
         /\ LineSums(u)[k + 1] = LineSums(u)[k] + LineAdvance(u, u.prog[k + 1])
  <1>1. Len(u.prog) \in Nat /\ DOMAIN u.prog = 1..Len(u.prog) /\ \A j \in DOMAIN u.prog : Op(u.prog[j])
    BY DEF Regular, WellShaped
  <1>2. k \in 0..Len(u.prog) /\ k + 1 \in 1..Len(u.prog) /\ (k + 1) - 1 = k
    BY <1>1
  <1>3. ASSUME NEW q, q \in [1..Len(u.prog) -> Int]
        PROVE  Sums(q)[k + 1] = Sums(q)[k] + q[k + 1]
    <2>1. q \in Seq(Int) /\ Len(q) = Len(u.prog)
      BY <1>1, <1>3
    <2> QED
      BY <1>2, <2>1, SumsLemma
  <1>4. \A j \in 1..Len(u.prog) :
          /\ OpAdvance(u, u.prog[j]) \in Int /\ LineAdvance(u, u.prog[j]) \in Int
          /\ FixedAdvance(u.prog[j]) \in Int
    BY <1>1, AdvanceTypes
  <1>5. OpSums(u)[k + 1] = OpSums(u)[k] + OpAdvance(u, u.prog[k + 1])
    <2> DEFINE q == [j \in DOMAIN u.prog |-> OpAdvance(u, u.prog[j])]
    <2>1. q \in [1..Len(u.prog) -> Int] /\ q[k + 1] = OpAdvance(u, u.prog[k + 1])
      BY <1>1, <1>2, <1>4
    <2>2. OpSums(u) = Sums(q)
      BY DEF OpSums
    <2> HIDE DEF q
    <2> QED
      BY <1>3, <2>1, <2>2
  <1>6. FixedSums(u)[k + 1] = FixedSums(u)[k] + FixedAdvance(u.prog[k + 1])
    <2> DEFINE q == [j \in DOMAIN u.prog |-> FixedAdvance(u.prog[j])]
    <2>1. q \in [1..Len(u.prog) -> Int] /\ q[k + 1] = FixedAdvance(u.prog[k + 1])
      BY <1>1, <1>2, <1>4
    <2>2. FixedSums(u) = Sums(q)
      BY DEF FixedSums
    <2> HIDE DEF q
    <2> QED
      BY <1>3, <2>1, <2>2
  <1>7. LineSums(u)[k + 1] = LineSums(u)[k] + LineAdvance(u, u.prog[k + 1])
    <2> DEFINE q == [j \in DOMAIN u.prog |-> LineAdvance(u, u.prog[j])]
    <2>1. q \in [1..Len(u.prog) -> Int] /\ q[k + 1] = LineAdvance(u, u.prog[k + 1])
      BY <1>1, <1>2, <1>4
    <2>2. LineSums(u) = Sums(q)
      BY DEF LineSums
    <2> HIDE DEF q
    <2> QED
      BY <1>3, <2>1, <2>2
  <1> QED
    BY <1>1, <1>2, <1>5, <1>6, <1>7

\* The sums are numbers, and start at nothing.
LEMMA SumsTypes ==
  ASSUME NEW u, Regular(u)
  PROVE  /\ OpSums(u)[0] = 0 /\ FixedSums(u)[0] = 0 /\ LineSums(u)[0] = 0
         /\ \A k \in 0..Len(u.prog) :
              OpSums(u)[k] \in Int /\ FixedSums(u)[k] \in Int /\ LineSums(u)[k] \in Int
  <1>1. Len(u.prog) \in Nat /\ DOMAIN u.prog = 1..Len(u.prog) /\ \A j \in DOMAIN u.prog : Op(u.prog[j])
    BY DEF Regular, WellShaped
  <1>2. ASSUME NEW q, q \in [1..Len(u.prog) -> Int]
        PROVE  Sums(q)[0] = 0 /\ \A k \in 0..Len(u.prog) : Sums(q)[k] \in Int
    <2>1. q \in Seq(Int) /\ Len(q) = Len(u.prog)
      BY <1>1, <1>2
    <2> QED
      BY <2>1, SumsLemma
  <1>3. \A j \in 1..Len(u.prog) :
          /\ OpAdvance(u, u.prog[j]) \in Int /\ LineAdvance(u, u.prog[j]) \in Int
          /\ FixedAdvance(u.prog[j]) \in Int
    BY <1>1, AdvanceTypes
  <1>4. /\ [j \in DOMAIN u.prog |-> OpAdvance(u, u.prog[j])] \in [1..Len(u.prog) -> Int]
        /\ [j \in DOMAIN u.prog |-> FixedAdvance(u.prog[j])] \in [1..Len(u.prog) -> Int]
        /\ [j \in DOMAIN u.prog |-> LineAdvance(u, u.prog[j])] \in [1..Len(u.prog) -> Int]
    BY <1>1, <1>3
  <1> QED
    BY <1>2, <1>4 DEF OpSums, FixedSums, LineSums
(***************************************************************************)
(* The declared registers, from one opcode to the next.                    *)
(***************************************************************************)
\* The discriminator in force once opcode k has run.
Pending(u, k) ==
  LET d == Last(Where(u, k, "set_discriminator")) IN
    IF d = 0 \/ \E j \in d..k : u.prog[j].op \in RowOps THEN 0 ELSE u.prog[d].arg

\* The address and the operation index of a machine that has run the first k
\* opcodes of unit u, and the registers that it has with them.
Placed(u, k, s) == s.address = Address(u, k) /\ s.op_index = Operations(u, k) % u.maxOps
Runs(u, k, s) ==
  /\ Placed(u, k, s)
  /\ s.line = (1 + LineSums(u)[k]) % Mod32 /\ s.file = FileNumber(u, k)

\* The address before it is cut to 64 bits.
Total(u, k) ==
  LET a == Last(Where(u, k, "set_address")) IN
    ((IF a = 0 THEN 0 ELSE u.prog[a].arg) + (FixedSums(u)[k] - FixedSums(u)[a]))
      + u.minInst * (Operations(u, k) \div u.maxOps)
LEMMA AddressOfTotal == ASSUME NEW u, NEW k PROVE Address(u, k) = Total(u, k) % Mod64
  BY DEF Address, Total

\* The operations since the last address add up to a natural number, and to none
\* if there is none.
Additive(u, k) ==
  /\ Operations(u, k) \in Nat
  /\ (\A j \in 1..k : OpAdvance(u, u.prog[j]) = 0) => Operations(u, k) = 0

\* The rows of the first sequence of unit u among its first k opcodes.
rowsTo(u, k) == rowOpsOf(u) \cap 1..k

\* Up to the opcode that is next, the registers and the rows are as declared.
RowOf(u, k) == rows[Cardinality(rowsTo(u, k))]
Decoded ==
  at = "program" /\ Straight(sect, unit) =>
    /\ pc - 1 \in 0..Len(unit.prog)
    /\ paths = tablePaths(unit, unit.files)
    /\ Runs(unit, pc - 1, sm) /\ sm.discriminator = Pending(unit, pc - 1)
    /\ sm.flags = FlagsAfter(unit, pc - 1)
    /\ Additive(unit, pc - 1)
    /\ IF sm.end_sequence THEN rowOpsOf(unit) \subseteq 1..(pc - 1)
                          ELSE Where(unit, pc - 1, "end_sequence") = {}
    /\ Len(rows) = Cardinality(rowsTo(unit, pc - 1))
    /\ \A k \in rowsTo(unit, pc - 1) : RowOf(unit, k) = declared(unit, k)

\* The opcodes of a kind among the first k + 1, and the last of them.
LEMMA WhereStep ==
  ASSUME NEW u, NEW k \in Nat, NEW kind
  PROVE  Where(u, k + 1, kind) =
           IF u.prog[k + 1].op = kind THEN Where(u, k, kind) \cup {k + 1} ELSE Where(u, k, kind)
  <1>1. 1..(k + 1) = 1..k \cup {k + 1}
    OBVIOUS
  <1> QED
    BY <1>1 DEF Where

LEMMA LastStep ==
  ASSUME NEW u, NEW k \in Nat, NEW kind
  PROVE  Last(Where(u, k + 1, kind)) =
           IF u.prog[k + 1].op = kind THEN k + 1 ELSE Last(Where(u, k, kind))
  <1>1. CASE u.prog[k + 1].op # kind
    BY <1>1, WhereStep
  <1>2. CASE u.prog[k + 1].op = kind
    <2> DEFINE S == Where(u, k, kind) \cup {k + 1}
    <2>1. S \subseteq 1..(k + 1) /\ k + 1 \in S
      BY DEF Where
    <2> HIDE DEF S
    <2>2. \A j \in S \cup {0} : (\A i \in S : i <= j) <=> j = k + 1
      BY <2>1
    <2>3. Last(S) = k + 1
      BY <2>1, <2>2 DEF Last
    <2> QED
      BY <1>2, <2>3, WhereStep DEF S
  <1> QED
    BY <1>1, <1>2

LEMMA LastOfNone ==
  ASSUME NEW u, NEW kind
  PROVE  Where(u, 0, kind) = {} /\ Last(Where(u, 0, kind)) = 0
  <1>1. Where(u, 0, kind) = {}
    BY DEF Where
  <1> QED
    BY <1>1 DEF Last

LEMMA FileStep ==
  ASSUME NEW u, NEW k \in Nat
  PROVE  FileNumber(u, k + 1) =
           IF u.prog[k + 1].op = "set_file" THEN u.prog[k + 1].arg % Mod32 ELSE FileNumber(u, k)
  <1> DEFINE f == Last(Where(u, k, "set_file"))
             g == Last(Where(u, k + 1, "set_file"))
  <1>1. g = IF u.prog[k + 1].op = "set_file" THEN k + 1 ELSE f
    BY LastStep
  <1>2. k + 1 # 0
    OBVIOUS
  <1> HIDE DEF f, g
  <1>3. FileNumber(u, k) = IF f = 0 THEN 1 ELSE u.prog[f].arg % Mod32
    BY DEF FileNumber, f
  <1>4. FileNumber(u, k + 1) = IF g = 0 THEN 1 ELSE u.prog[g].arg % Mod32
    BY DEF FileNumber, g
  <1> QED
    BY <1>1, <1>2, <1>3, <1>4

\* The last opcode of a kind is among those that have run.
LEMMA LastRun ==
  ASSUME NEW u, NEW k \in Nat, NEW kind
  PROVE  /\ Last(Where(u, k, kind)) \in 0..k
         /\ Last(Where(u, k, kind)) \in Where(u, k, kind) \cup {0}
  <1> DEFINE S == Where(u, k, kind)
             Above == {k - i : i \in S \cup {0}}
  <1>1. S \subseteq 1..k
    BY DEF Where
  <1> HIDE DEF S
  <1>2. Above \subseteq Nat /\ Above # {}
    BY <1>1
  <1>3. PICK x \in Above : \A y \in Above : x <= y
    <2> HIDE DEF Above
    <2> QED
      BY <1>2, HasLeast
  <1>4. PICK j \in S \cup {0} : x = k - j
    BY <1>3
  <1>5. ASSUME NEW i \in S PROVE i <= j
    <2>1. k - i \in Above
      OBVIOUS
    <2>2. x <= k - i
      BY <1>3, <2>1
    <2> QED
      BY <1>1, <1>4, <2>2
  <1>6. Last(S) \in S \cup {0}
    BY <1>5 DEF Last
  <1> QED
    BY <1>1, <1>6 DEF S

\* The discriminator of a row is the one in force before it.
LEMMA PendingStep ==
  ASSUME NEW u, NEW k \in Nat
  PROVE  /\ u.prog[k + 1].op \in RowOps =>
              Discriminator(u, k + 1) = Pending(u, k) /\ Pending(u, k + 1) = 0
         /\ u.prog[k + 1].op = "set_discriminator" => Pending(u, k + 1) = u.prog[k + 1].arg
         /\ u.prog[k + 1].op \notin RowOps \cup {"set_discriminator"} =>
              Pending(u, k + 1) = Pending(u, k)
  <1> DEFINE d == Last(Where(u, k, "set_discriminator"))
             e == Last(Where(u, k + 1, "set_discriminator"))
  <1>1. d \in 0..k /\ (k + 1) - 1 = k /\ k + 1 # 0
    BY LastRun
  <1>2. e = IF u.prog[k + 1].op = "set_discriminator" THEN k + 1 ELSE d
    BY LastStep
  <1> HIDE DEF d, e
  <1>3. d..(k + 1) = d..k \cup {k + 1} /\ (k + 1)..(k + 1) = {k + 1}
    BY <1>1
  <1>4. Pending(u, k) = IF d = 0 \/ \E j \in d..k : u.prog[j].op \in RowOps THEN 0 ELSE u.prog[d].arg
    BY DEF Pending, d
  <1>5. Pending(u, k + 1) =
          IF e = 0 \/ \E j \in e..(k + 1) : u.prog[j].op \in RowOps THEN 0 ELSE u.prog[e].arg
    BY DEF Pending, e
  <1>6. Discriminator(u, k + 1) =
          IF e = 0 \/ \E j \in e..k : u.prog[j].op \in RowOps THEN 0 ELSE u.prog[e].arg
    BY <1>1 DEF Discriminator, e
  <1>7. CASE u.prog[k + 1].op \in RowOps
    <2>1. e = d
      BY <1>2, <1>7 DEF RowOps
    <2> QED
      BY <1>3, <1>4, <1>5, <1>6, <1>7, <2>1 DEF RowOps
  <1>8. CASE u.prog[k + 1].op = "set_discriminator"
    BY <1>1, <1>2, <1>3, <1>5, <1>8 DEF RowOps
  <1>9. CASE u.prog[k + 1].op \notin RowOps \cup {"set_discriminator"}
    BY <1>2, <1>3, <1>4, <1>5, <1>9
  <1> QED
    BY <1>7, <1>8, <1>9
\* A sum may be cut before the next term or after it.
LEMMA CutSum ==
  ASSUME NEW M \in Nat \ {0}, NEW x \in Int, NEW c \in Int
  PROVE  ((x % M) + c) % M = (x + c) % M
  <1> DEFINE q == x \div M
             r == x % M
             a == (r + c) \div M
             s == (r + c) % M
             b == (x + c) \div M
             t == (x + c) % M
  <1>0. ASSUME NEW y \in Int
        PROVE  y \div M \in Int /\ y % M \in 0..(M - 1) /\ y = M * (y \div M) + (y % M)
    OBVIOUS
  <1>1. q \in Int /\ r \in 0..(M - 1) /\ x = M * q + r
    BY <1>0
  <1>2. r + c \in Int /\ x + c \in Int
    BY <1>1
  <1>3. a \in Int /\ s \in 0..(M - 1) /\ r + c = M * a + s
    BY <1>0, <1>2, Zenon DEF a, s
  <1>4. b \in Int /\ t \in 0..(M - 1) /\ x + c = M * b + t
    BY <1>0, <1>2, Zenon DEF b, t
  <1> HIDE DEF q, r, a, s, b, t
  <1>5. M * (q + a - b) = t - s
    <2>1. M * (q + a - b) = M * q + M * a - M * b
      BY <1>1, <1>3, <1>4
    <2> DEFINE mq == M * q
               ma == M * a
               mb == M * b
    <2>2. mq \in Int /\ ma \in Int /\ mb \in Int
      BY <1>1, <1>3, <1>4
    <2>3. x = mq + r /\ r + c = ma + s /\ x + c = mb + t /\ M * (q + a - b) = mq + ma - mb
      BY <1>1, <1>3, <1>4, <2>1
    <2> HIDE DEF mq, ma, mb
    <2> QED
      BY <1>1, <1>3, <1>4, <2>2, <2>3
  <1>6. ASSUME NEW d \in Int, M * d < M, 0 - M < M * d
        PROVE  d = 0
    <2>1. ASSUME d >= 1 PROVE FALSE
      <3>1. M * (d - 1) >= 0 /\ M * d = M * (d - 1) + M
        BY <2>1
      <3> DEFINE z == M * (d - 1)
      <3>2. z \in Int /\ z >= 0 /\ M * d = z + M
        BY <3>1
      <3> HIDE DEF z
      <3> QED
        BY <1>6, <3>2
    <2>2. ASSUME d <= -1 PROVE FALSE
      <3>1. M * (0 - d - 1) >= 0 /\ M * d = 0 - (M * (0 - d - 1)) - M
        BY <2>2
      <3> DEFINE z == M * (0 - d - 1)
      <3>2. z \in Int /\ z >= 0 /\ M * d = 0 - z - M
        BY <3>1
      <3> HIDE DEF z
      <3> QED
        BY <1>6, <3>2
    <2> QED
      BY <2>1, <2>2
  <1>7. q + a - b = 0
    <2>1. t - s < M /\ 0 - M < t - s /\ q + a - b \in Int
      BY <1>1, <1>3, <1>4
    <2> QED
      BY <1>5, <1>6, <2>1
  <1>8. t - s = 0
    BY <1>5, <1>7
  <1> QED
    BY <1>3, <1>4, <1>8 DEF s, t, r

\* A quotient may be taken of one part of a sum after the other.
LEMMA CutQuotient ==
  ASSUME NEW m \in Nat \ {0}, NEW x \in Nat, NEW y \in Nat
  PROVE  /\ (x + y) \div m = (x \div m) + (((x % m) + y) \div m)
         /\ (x + y) % m = ((x % m) + y) % m
  <1>1. ASSUME NEW z \in Nat
        PROVE  /\ z \div m \in Nat /\ z % m \in Nat /\ z % m < m
               /\ z = (m * (z \div m)) + (z % m)
    OBVIOUS
  <1>2. ASSUME NEW q \in Nat, NEW r \in Nat, r < m, NEW a \in Nat, NEW b \in Nat, b < m,
               (m * q) + r = (m * a) + b
        PROVE  q = a /\ r = b
    <2>1. ASSUME NEW c \in Nat, NEW d \in Nat, c < d PROVE (m * c) + m <= m * d
      <3> DEFINE e == d - c - 1
      <3>1. e \in Nat /\ d = c + 1 + e
        BY <2>1
      <3>2. m * e \in Nat /\ m * c \in Nat
        BY <3>1
      <3> HIDE DEF e
      <3>3. m * d = (m * c) + m + (m * e)
        BY <3>1
      <3> QED
        BY <3>2, <3>3
    <2> DEFINE Q == m * q
               A == m * a
    <2>2. Q \in Nat /\ A \in Nat
      OBVIOUS
    <2>3. (q < a => Q + m <= A) /\ (a < q => A + m <= Q) /\ Q + r = A + b /\ (q = a => Q = A)
      BY <1>2, <2>1
    <2> HIDE DEF Q, A
    <2>4. ~(q < a) /\ ~(a < q)
      BY <1>2, <2>2, <2>3
    <2> QED
      BY <1>2, <2>2, <2>3, <2>4
  <1> DEFINE q == x \div m
             r == x % m
             a == (r + y) \div m
             s == (r + y) % m
             b == (x + y) \div m
             t == (x + y) % m
  <1>3. q \in Nat /\ r \in Nat /\ x = (m * q) + r
    BY <1>1
  <1>4. r + y \in Nat /\ x + y \in Nat
    BY <1>3
  <1>5. a \in Nat /\ s \in Nat /\ s < m /\ r + y = (m * a) + s
    BY <1>1, <1>4, Zenon DEF a, s
  <1>6. b \in Nat /\ t \in Nat /\ t < m /\ x + y = (m * b) + t
    BY <1>1, <1>4, Zenon DEF b, t
  <1> HIDE DEF q, r, a, s, b, t
  <1>7. (m * b) + t = (m * (q + a)) + s
    <2>1. m * (q + a) = (m * q) + (m * a)
      BY <1>3, <1>5
    <2> DEFINE mq == m * q
               ma == m * a
               mb == m * b
    <2>2. mq \in Nat /\ ma \in Nat /\ mb \in Nat
      BY <1>3, <1>5, <1>6
    <2>3. x = mq + r /\ r + y = ma + s /\ x + y = mb + t /\ m * (q + a) = mq + ma
      BY <1>3, <1>5, <1>6, <2>1
    <2> HIDE DEF mq, ma, mb
    <2>4. mb + t = mq + ma + s
      BY <1>3, <1>5, <1>6, <2>2, <2>3
    <2> QED
      BY <2>3, <2>4 DEF mb
  <1>8. b = q + a /\ t = s
    <2>1. q + a \in Nat
      BY <1>3, <1>5
    <2> QED
      BY <1>2, <1>5, <1>6, <1>7, <2>1
  <1> QED
    BY <1>8 DEF q, r, a, s, b, t

\* Operations add up from one opcode to the next, and start again at an address.
LEMMA OperationsStep ==
  ASSUME NEW u, Regular(u), NEW k \in Nat, k + 1 \in DOMAIN u.prog, Additive(u, k)
  PROVE  /\ Additive(u, k + 1)
         /\ Operations(u, k + 1) = IF u.prog[k + 1].op = "set_address" THEN 0
                                   ELSE Operations(u, k) + OpAdvance(u, u.prog[k + 1])
  <1> DEFINE a == Last(Where(u, k, "set_address"))
             b == Last(Where(u, k + 1, "set_address"))
             o == u.prog[k + 1]
             S == OpSums(u)
  <1>1. a \in 0..k /\ b = IF o.op = "set_address" THEN k + 1 ELSE a
    BY LastRun, LastStep
  <1>2. k \in 0..Len(u.prog) /\ Len(u.prog) \in Nat /\ S[k + 1] = S[k] + OpAdvance(u, o)
    BY SumsStep
  <1>3. k + 1 \in 0..Len(u.prog) /\ a \in 0..Len(u.prog) /\ k + 1 \in 1..(k + 1)
    <2>1. DOMAIN u.prog = 1..Len(u.prog)
      BY DEF Regular, WellShaped
    <2> QED
      BY <1>1, <1>2, <2>1
  <1>4. OpAdvance(u, o) \in Nat
    <2>1. Op(o)
      BY DEF Regular, WellShaped
    <2> QED
      BY <2>1, AdvanceTypes
  <1>5. S[k] \in Int /\ S[k + 1] \in Int /\ S[a] \in Int
    BY <1>2, <1>3, SumsTypes
  <1>6. Operations(u, k) = S[k] - S[a] /\ Operations(u, k + 1) = S[k + 1] - S[b]
    BY DEF Operations
  <1>7. /\ Operations(u, k) \in Nat
        /\ (\A j \in 1..k : OpAdvance(u, u.prog[j]) = 0) => Operations(u, k) = 0
    BY DEF Additive
  <1> HIDE DEF a, b, S, o
  <1>8. Operations(u, k + 1) = IF o.op = "set_address" THEN 0
                               ELSE Operations(u, k) + OpAdvance(u, o)
    <2>1. CASE o.op = "set_address"
      BY <1>1, <1>5, <1>6, <2>1
    <2>2. CASE o.op # "set_address"
      <3>1. Operations(u, k + 1) = S[k + 1] - S[a]
        BY <1>1, <1>6, <2>2
      <3> QED
        BY <1>2, <1>4, <1>5, <1>6, <2>2, <3>1
    <2> QED
      BY <2>1, <2>2
  <1>9. Operations(u, k + 1) \in Nat
    BY <1>4, <1>7, <1>8
  <1>10. ASSUME \A j \in 1..(k + 1) : OpAdvance(u, u.prog[j]) = 0
         PROVE  Operations(u, k + 1) = 0
    <2>1. OpAdvance(u, o) = 0 /\ \A j \in 1..k : OpAdvance(u, u.prog[j]) = 0
      BY <1>3, <1>10 DEF o
    <2> QED
      BY <1>7, <1>8, <2>1
  <1> QED
    BY <1>8, <1>9, <1>10 DEF Additive, o

\* An address opcode starts the address again; another one moves it.
LEMMA TotalStep ==
  ASSUME NEW u, Regular(u), NEW k \in Nat, k + 1 \in DOMAIN u.prog, Additive(u, k)
  PROVE  IF u.prog[k + 1].op = "set_address" THEN Total(u, k + 1) = u.prog[k + 1].arg
         ELSE \E x \in Int :
                /\ Total(u, k) = x + u.minInst * (Operations(u, k) \div u.maxOps)
                /\ Total(u, k + 1) = x + FixedAdvance(u.prog[k + 1])
                                       + u.minInst * (Operations(u, k + 1) \div u.maxOps)
  <1> DEFINE a == Last(Where(u, k, "set_address"))
             b == Last(Where(u, k + 1, "set_address"))
             o == u.prog[k + 1]
             F == FixedSums(u)
             base(j) == IF j = 0 THEN 0 ELSE u.prog[j].arg
             M(j) == u.minInst * (Operations(u, j) \div u.maxOps)
  <1>1. /\ a \in 0..k /\ a \in Where(u, k, "set_address") \cup {0}
        /\ b = IF o.op = "set_address" THEN k + 1 ELSE a
    BY LastRun, LastStep
  <1>2. k \in 0..Len(u.prog) /\ Len(u.prog) \in Nat /\ F[k + 1] = F[k] + FixedAdvance(o)
    BY SumsStep
  <1>3. /\ DOMAIN u.prog = 1..Len(u.prog) /\ k + 1 \in 0..Len(u.prog) /\ a \in 0..Len(u.prog)
        /\ \A j \in DOMAIN u.prog : Op(u.prog[j])
    <2>1. DOMAIN u.prog = 1..Len(u.prog) /\ \A j \in DOMAIN u.prog : Op(u.prog[j])
      BY DEF Regular, WellShaped
    <2> QED
      BY <1>1, <1>2, <2>1
  <1>4. F[k] \in Int /\ F[k + 1] \in Int /\ F[a] \in Int
    BY <1>2, <1>3, SumsTypes
  <1>5. base(a) \in Nat
    <2>1. CASE a # 0
      <3>1. a \in DOMAIN u.prog /\ u.prog[a].op = "set_address"
        BY <1>1, <1>3, <2>1 DEF Where
      <3> QED
        BY <1>3, <2>1, <3>1 DEF Op
    <2> QED
      BY <2>1
  <1>6. FixedAdvance(o) \in Nat
    BY <1>3, AdvanceTypes
  <1>7. /\ Total(u, k) = base(a) + (F[k] - F[a]) + M(k)
        /\ Total(u, k + 1) = base(b) + (F[k + 1] - F[b]) + M(k + 1)
    BY DEF Total
  <1>8. u.minInst \in Nat /\ u.maxOps \in Nat \ {0}
    BY RegularNumbers
  <1>9. Operations(u, k) \in Nat /\ Operations(u, k + 1) \in Nat
    BY OperationsStep DEF Additive
  <1>10. M(k) \in Nat /\ M(k + 1) \in Nat
    <2>1. \A x \in Nat, y \in Nat, z \in Nat \ {0} : y * (x \div z) \in Nat
      <3>1. \A x \in Nat, z \in Nat \ {0} : x \div z \in Nat
        OBVIOUS
      <3>2. \A x, y \in Nat : x * y \in Nat
        OBVIOUS
      <3> QED
        BY <3>1, <3>2, Zenon
    <2> QED
      BY <1>8, <1>9, <2>1
  <1>11. CASE o.op = "set_address"
    <2>1. Operations(u, k + 1) = 0
      BY <1>11, OperationsStep
    <2>2. M(k + 1) = 0
      <3>1. \A y \in Nat, z \in Nat \ {0} : y * (0 \div z) = 0
        OBVIOUS
      <3> QED
        BY <1>8, <2>1, <3>1
    <2>3. base(b) = o.arg /\ b = k + 1 /\ o.arg \in Nat
      <3>1. o.arg \in Nat
        BY <1>3, <1>11 DEF Op
      <3> QED
        BY <1>1, <1>11, <3>1
    <2> HIDE DEF a, b, F, base, M, o
    <2>4. Total(u, k + 1) = o.arg
      BY <1>4, <1>7, <2>2, <2>3
    <2> QED
      BY <1>11, <2>4 DEF o
  <1>12. CASE o.op # "set_address"
    <2> DEFINE x == base(a) + (F[k] - F[a])
    <2>1. b = a
      BY <1>1, <1>12
    <2> HIDE DEF a, b, F, base, M
    <2>2. x \in Int /\ Total(u, k) = x + M(k)
      BY <1>4, <1>5, <1>7
    <2>3. Total(u, k + 1) = base(a) + (F[k + 1] - F[a]) + M(k + 1)
      BY <1>7, <2>1
    <2>4. base(a) + (F[k + 1] - F[a]) = x + FixedAdvance(o)
      <3> HIDE DEF o
      <3> QED
        BY <1>2, <1>4, <1>5, <1>6
    <2> HIDE DEF x
    <2>5. Total(u, k + 1) = x + FixedAdvance(o) + M(k + 1)
      BY <2>3, <2>4
    <2> QED
      BY <1>12, <2>2, <2>5 DEF M
  <1> QED
    BY <1>11, <1>12

\* A sum that is cut term by term is cut once.
LEMMA Wraps ==
  ASSUME NEW x \in Int, NEW c \in Int, NEW a, a = x % Mod64
  PROVE  (a + c) % Mod64 = (x + c) % Mod64
  <1>1. Mod64 \in Nat \ {0}
    BY Widths
  <1>2. ((x % Mod64) + c) % Mod64 = (x + c) % Mod64
    BY <1>1, CutSum, Zenon
  <1> QED
    BY <1>2, Zenon

\* advancePC() by the operations of an opcode.
LEMMA AdvancePlaced ==
  ASSUME NEW u, Regular(u), NEW k \in Nat, k + 1 \in DOMAIN u.prog, Additive(u, k),
         u.maxOps > 1 => OpAdvance(u, u.prog[k + 1]) + u.maxOps <= Mod64,
         NEW s \in SMType, Placed(u, k, s), u.prog[k + 1].op \notin {"set_address", "fixed_advance_pc"}
  PROVE  Placed(u, k + 1, advancePC(u, s, OpAdvance(u, u.prog[k + 1])))
  <1> DEFINE adv == OpAdvance(u, u.prog[k + 1])
             x == Operations(u, k)
             y == Operations(u, k + 1)
             m == u.maxOps
             c == u.minInst
             t == advancePC(u, s, adv)
             q == ((x % m) + adv) \div m
  <1>1. c \in Nat /\ m \in Nat \ {0}
    BY RegularNumbers
  <1>2. adv \in Nat
    <2>1. Op(u.prog[k + 1])
      BY DEF Regular, WellShaped
    <2> QED
      BY <2>1, AdvanceTypes
  <1>3. x \in Nat /\ y = x + adv
    BY OperationsStep DEF Additive
  <1>4. PICK z \in Int : /\ Total(u, k) = z + c * (x \div m)
                         /\ Total(u, k + 1) = z + 0 + c * (y \div m)
    <2>1. FixedAdvance(u.prog[k + 1]) = 0
      BY DEF FixedAdvance
    <2> QED
      BY <2>1, TotalStep
  <1>5. s.address = Total(u, k) % Mod64 /\ s.op_index = x % m
    BY AddressOfTotal DEF Placed
  <1>6. /\ y \div m = (x \div m) + q
        /\ y % m = ((x % m) + adv) % m
    <2> HIDE DEF adv, x, y, m
    <2>1. /\ (x + adv) \div m = (x \div m) + (((x % m) + adv) \div m)
          /\ (x + adv) % m = ((x % m) + adv) % m
      BY <1>1, <1>2, <1>3, CutQuotient, Zenon
    <2> QED
      BY <1>3, <2>1, Zenon
  \* The operation index is below m, so that the sum has no carry out of 64 bits.
  <1>7. m # 1 => (s.op_index + adv) % Mod64 = (x % m) + adv
    <2>1. x % m \in Nat /\ x % m < m
      BY <1>1, <1>3
    <2>2. m # 1 => adv + m <= Mod64
      BY <1>1
    <2>3. Mod64 \in Nat \ {0}
      BY Widths
    <2>4. \A n \in Nat : n < Mod64 => n % Mod64 = n
      BY <2>3
    <2> HIDE DEF m, adv, x
    <2>5. m # 1 => (x % m) + adv \in Nat /\ (x % m) + adv < Mod64
      BY <1>1, <1>2, <2>1, <2>2, <2>3
    <2>6. m # 1 => ((x % m) + adv) % Mod64 = (x % m) + adv
      BY <2>4, <2>5
    <2> QED
      BY <1>5, <2>6
  <1>8. t.op_index = y % m
    <2>1. CASE m = 1
      <3>1. t.op_index = s.op_index
        BY <2>1 DEF advancePC, SMType
      <3>2. \A n \in Nat : n % 1 = 0
        OBVIOUS
      <3>3. y \in Nat
        BY <1>2, <1>3
      <3> QED
        BY <1>3, <1>5, <2>1, <3>1, <3>2, <3>3
    <2>2. CASE m # 1
      <3>1. t.op_index = ((s.op_index + adv) % Mod64) % m
        BY <2>2 DEF advancePC, SMType
      <3> QED
        BY <1>6, <1>7, <2>2, <3>1
    <2> QED
      BY <2>1, <2>2
  <1>9. t.address = (s.address + c * q) % Mod64
    <2>1. CASE m = 1
      <3>1. t.address = (s.address + c * adv) % Mod64
        BY <2>1 DEF advancePC, SMType
      <3>2. \A n \in Nat, l \in Nat : ((n % 1) + l) \div 1 = l
        OBVIOUS
      <3>3. q = adv
        BY <1>2, <1>3, <2>1, <3>2
      <3> HIDE DEF q, t
      <3> QED
        BY <3>1, <3>3
    <2>2. CASE m # 1
      <3>1. t.address = (s.address + c * (((s.op_index + adv) % Mod64) \div m)) % Mod64
        BY <2>2 DEF advancePC, SMType
      <3> QED
        BY <1>7, <2>2, <3>1
    <2> QED
      BY <2>1, <2>2
  <1> HIDE DEF t
  <1>10. t.address = Address(u, k + 1)
    <2> DEFINE p == x \div m
    <2>1. p \in Nat /\ q \in Nat
      <3>1. \A n \in Nat, l \in Nat \ {0} : n \div l \in Nat /\ n % l \in Nat
        OBVIOUS
      <3>2. (x % m) + adv \in Nat
        BY <1>1, <1>2, <1>3, <3>1
      <3> QED
        BY <1>1, <1>3, <3>1, <3>2
    <2> HIDE DEF p, q
    <2>2. Total(u, k) = z + c * p /\ Total(u, k + 1) = z + 0 + c * (p + q)
      BY <1>4, <1>6 DEF p
    <2>3. c * (p + q) = c * p + c * q /\ c * p \in Nat /\ c * q \in Nat
      BY <1>1, <2>1
    <2> DEFINE d == c * q
               e == c * p
    <2>4. d \in Int /\ e \in Int /\ Total(u, k) = z + e /\ Total(u, k + 1) = z + 0 + (e + d)
      BY <2>2, <2>3
    <2>5. t.address = (s.address + d) % Mod64
      BY <1>9
    <2> HIDE DEF d, e
    <2>6. Total(u, k) \in Int /\ Total(u, k + 1) = Total(u, k) + d
      BY <2>4
    <2>7. (s.address + d) % Mod64 = (Total(u, k) + d) % Mod64
      BY <1>5, <2>4, <2>6, Wraps, Zenon
    <2> QED
      BY <2>5, <2>6, <2>7, AddressOfTotal, Zenon
  <1> QED
    BY <1>8, <1>10 DEF Placed, t

\* The opcodes that move nothing.
LEMMA StillPlaced ==
  ASSUME NEW u, Regular(u), NEW k \in Nat, k + 1 \in DOMAIN u.prog, Additive(u, k),
         NEW s, Placed(u, k, s), OpAdvance(u, u.prog[k + 1]) = 0,
         u.prog[k + 1].op \notin {"set_address", "fixed_advance_pc"}
  PROVE  Placed(u, k + 1, s)
  <1>1. Operations(u, k + 1) = Operations(u, k)
    BY OperationsStep DEF Additive
  <1>2. FixedAdvance(u.prog[k + 1]) = 0
    BY DEF FixedAdvance
  <1>3. PICK x \in Int : /\ Total(u, k) = x + u.minInst * (Operations(u, k) \div u.maxOps)
                         /\ Total(u, k + 1) = x + 0 + u.minInst * (Operations(u, k) \div u.maxOps)
    BY <1>1, <1>2, TotalStep
  <1>4. x + 0 = x
    OBVIOUS
  <1>5. Total(u, k + 1) = Total(u, k)
    BY <1>3, <1>4, Zenon
  <1>6. Address(u, k + 1) = Address(u, k)
    BY <1>5, AddressOfTotal, Zenon
  <1> QED
    BY <1>1, <1>6 DEF Placed

\* Where a straight program sets or fixes the address, no operation is pending.
LEMMA NoOperation ==
  ASSUME NEW sec, NEW u, Regular(u), Straight(sec, u), NEW k \in Nat, k + 1 \in DOMAIN u.prog,
         Additive(u, k), u.prog[k + 1].op \in {"set_address", "fixed_advance_pc"}
  PROVE  Operations(u, k) % u.maxOps = 0
  <1>1. u.maxOps \in Nat \ {0} /\ Operations(u, k) \in Nat
    BY RegularNumbers DEF Additive
  <1>2. CASE u.maxOps = 1
    <2>1. \A n \in Nat : n % 1 = 0
      OBVIOUS
    <2> QED
      BY <1>1, <1>2, <2>1
  <1>3. CASE u.maxOps > 1
    <2>1. \A i \in 1..(k + 1) : OpAdvance(u, u.prog[i]) = 0
      BY <1>3 DEF Straight
    <2>2. 1..k \subseteq 1..(k + 1)
      OBVIOUS
    <2>3. Operations(u, k) = 0
      BY <2>1, <2>2 DEF Additive
    <2>4. \A n \in Nat \ {0} : 0 % n = 0
      OBVIOUS
    <2> QED
      BY <1>1, <2>3, <2>4
  <1> QED
    BY <1>1, <1>2, <1>3

LEMMA FixedPlaced ==
  ASSUME NEW sec, NEW u, Regular(u), Straight(sec, u), NEW k \in Nat, k + 1 \in DOMAIN u.prog,
         Additive(u, k), NEW s \in SMType, Placed(u, k, s), u.prog[k + 1].op = "fixed_advance_pc"
  PROVE  Placed(u, k + 1, [s EXCEPT !.address = (@ + u.prog[k + 1].arg) % Mod64, !.op_index = 0])
  <1> DEFINE n == u.prog[k + 1].arg
             t == [s EXCEPT !.address = (@ + n) % Mod64, !.op_index = 0]
  <1>1. n \in Nat /\ FixedAdvance(u.prog[k + 1]) = n /\ OpAdvance(u, u.prog[k + 1]) = 0
    <2>1. Op(u.prog[k + 1])
      BY DEF Regular, WellShaped
    <2> QED
      BY <2>1 DEF Op, FixedAdvance, OpAdvance
  <1>2. t.address = (s.address + n) % Mod64 /\ t.op_index = 0
    BY DEF SMType
  <1> HIDE DEF t, n
  <1>3. Operations(u, k + 1) = Operations(u, k)
    BY <1>1, OperationsStep DEF Additive
  <1> DEFINE c == u.minInst * (Operations(u, k) \div u.maxOps)
  <1>4. PICK x \in Int : Total(u, k) = x + c /\ Total(u, k + 1) = x + n + c
    BY <1>1, <1>3, TotalStep
  <1>5. c \in Nat
    <2>1. u.maxOps \in Nat \ {0} /\ u.minInst \in Nat /\ Operations(u, k) \in Nat
      BY RegularNumbers DEF Additive
    <2>2. Operations(u, k) \div u.maxOps \in Nat
      BY <2>1
    <2>3. \A a, b \in Nat : a * b \in Nat
      OBVIOUS
    <2> QED
      BY <2>1, <2>2, <2>3, Zenon
  <1> HIDE DEF c
  <1>6. Total(u, k) \in Int /\ n \in Int /\ Total(u, k + 1) = Total(u, k) + n
    BY <1>1, <1>4, <1>5
  <1>7. s.address = Total(u, k) % Mod64
    BY AddressOfTotal DEF Placed
  <1>8. (s.address + n) % Mod64 = (Total(u, k) + n) % Mod64
    BY <1>6, <1>7, Wraps, Zenon
  <1>9. t.address = Address(u, k + 1)
    BY <1>2, <1>6, <1>8, AddressOfTotal, Zenon
  <1>10. t.op_index = Operations(u, k + 1) % u.maxOps
    BY <1>2, <1>3, NoOperation
  <1> QED
    BY <1>9, <1>10 DEF Placed, t, n

LEMMA SetPlaced ==
  ASSUME NEW sec, NEW u, Regular(u), Straight(sec, u), NEW k \in Nat, k + 1 \in DOMAIN u.prog,
         Additive(u, k), NEW s \in SMType, Placed(u, k, s), u.prog[k + 1].op = "set_address"
  PROVE  Placed(u, k + 1, [s EXCEPT !.address = readAddress(sec, u, u.prog[k + 1])])
  <1> DEFINE n == u.prog[k + 1].arg
             t == [s EXCEPT !.address = readAddress(sec, u, u.prog[k + 1])]
  <1>1. n \in 0..(Mod64 - 1) /\ readAddress(sec, u, u.prog[k + 1]) = n
    <2>1. Op(u.prog[k + 1])
      BY DEF Regular, WellShaped
    <2> QED
      BY <2>1 DEF Op, Straight
  <1>2. t.address = n /\ t.op_index = s.op_index
    BY <1>1 DEF SMType
  <1>3. Operations(u, k + 1) = 0 /\ Total(u, k + 1) = n
    BY OperationsStep, TotalStep
  <1>4. Address(u, k + 1) = n
    <2>1. Mod64 \in Nat \ {0}
      BY Widths
    <2> HIDE DEF n
    <2>2. n % Mod64 = n
      BY <1>1, <2>1
    <2> QED
      BY <1>3, <2>2, AddressOfTotal, Zenon
  <1>5. 0 % u.maxOps = 0
    <2>1. \A m \in Nat \ {0} : 0 % m = 0
      OBVIOUS
    <2> QED
      BY <2>1, RegularNumbers
  <1>6. s.op_index = 0
    BY NoOperation DEF Placed
  <1> HIDE DEF t, n
  <1> QED
    BY <1>2, <1>3, <1>4, <1>5, <1>6 DEF Placed, t, n

\* The line is the sum of the advances.
LEMMA LineStep ==
  ASSUME NEW u, Regular(u), NEW k \in Nat, k + 1 \in DOMAIN u.prog,
         NEW n, n = (1 + LineSums(u)[k]) % Mod32
  PROVE  (n + LineAdvance(u, u.prog[k + 1])) % Mod32 = (1 + LineSums(u)[k + 1]) % Mod32
  <1> DEFINE d == LineAdvance(u, u.prog[k + 1])
             x == 1 + LineSums(u)[k]
  <1>1. Op(u.prog[k + 1])
    BY DEF Regular, WellShaped
  <1>2. k \in 0..Len(u.prog) /\ LineSums(u)[k + 1] = LineSums(u)[k] + d
    BY SumsStep
  <1>3. LineSums(u)[k] \in Int /\ d \in Int
    BY <1>1, <1>2, SumsTypes, AdvanceTypes
  <1> HIDE DEF d
  <1>4. 1 + LineSums(u)[k + 1] = x + d /\ x \in Int
    BY <1>2, <1>3
  <1> HIDE DEF x
  <1>5. Mod32 \in Nat \ {0}
    BY Widths
  <1>6. ((x % Mod32) + d) % Mod32 = (x + d) % Mod32
    BY <1>3, <1>4, <1>5, CutSum, Zenon
  <1>7. n = x % Mod32
    BY DEF x
  <1> QED
    BY <1>4, <1>6, <1>7, Zenon DEF d

\* Before the first opcode the registers are those of a new machine.
LEMMA RunsStart ==
  ASSUME NEW u, Regular(u)
  PROVE  /\ Runs(u, 0, initialSM(u)) /\ Pending(u, 0) = 0 /\ Additive(u, 0)
         /\ initialSM(u).flags = FlagsAfter(u, 0)
  <1>1. \A kind : Last(Where(u, 0, kind)) = 0
    BY LastOfNone
  <1>2. OpSums(u)[0] = 0 /\ FixedSums(u)[0] = 0 /\ LineSums(u)[0] = 0
    BY SumsTypes
  <1>3. Operations(u, 0) = 0
    BY <1>1, <1>2 DEF Operations
  <1>4. u.maxOps \in Nat \ {0} /\ u.minInst \in Nat
    BY RegularNumbers
  <1>5. u.minInst * (0 \div u.maxOps) = 0 /\ 0 % u.maxOps = 0
    <2>1. \A c \in Nat, m \in Nat \ {0} : c * (0 \div m) = 0 /\ 0 % m = 0
      OBVIOUS
    <2> QED
      BY <1>4, <2>1
  <1>6. Total(u, 0) = 0
    BY <1>1, <1>2, <1>3, <1>5 DEF Total
  <1>7. Address(u, 0) = 0
    <2>1. 0 % Mod64 = 0
      <3>1. \A n \in Nat \ {0} : 0 % n = 0
        OBVIOUS
      <3> QED
        BY <3>1, Widths
    <2> QED
      BY <1>6, <2>1, AddressOfTotal
  <1>8. FileNumber(u, 0) = 1 /\ Pending(u, 0) = 0
    BY <1>1 DEF FileNumber, Pending
  <1>9. (1 + LineSums(u)[0]) % Mod32 = 1
    <2>1. \A n \in Nat \ {0} : 1 % (2 * n) = 1
      OBVIOUS
    <2>2. 1 + 0 = 1
      OBVIOUS
    <2> QED
      BY <1>2, <2>1, <2>2, Widths
  <1>10. initialSM(u).flags = FlagsAfter(u, 0)
    <2>1. Where(u, 0, "negate_stmt") = {} /\ Cardinality({}) = 0
      BY LastOfNone, FS_EmptySet
    <2>2. 0 % 2 = 0 /\ \A j \in 1..0 : FALSE
      OBVIOUS
    <2>3. FlagsAfter(u, 0) = IF u.isStmt THEN {"IS_STMT"} ELSE {}
      BY <2>1, <2>2 DEF FlagsAfter
    <2> QED
      BY <2>3 DEF initialSM
  <1>11. /\ initialSM(u).address = 0 /\ initialSM(u).op_index = 0 /\ initialSM(u).file = 1
         /\ initialSM(u).line = 1
    BY DEF initialSM
  <1> QED
    BY <1>3, <1>5, <1>7, <1>8, <1>9, <1>10, <1>11 DEF Runs, Placed, Additive

\* A machine whose registers moved as an opcode says runs that opcode.
LEMMA RunsStep ==
  ASSUME NEW u, Regular(u), NEW k \in Nat, k + 1 \in DOMAIN u.prog,
         NEW s, Runs(u, k, s), NEW t, Placed(u, k + 1, t),
         t.line = (s.line + LineAdvance(u, u.prog[k + 1])) % Mod32,
         t.file = IF u.prog[k + 1].op = "set_file" THEN u.prog[k + 1].arg % Mod32 ELSE s.file
  PROVE  Runs(u, k + 1, t)
  <1>1. s.line = (1 + LineSums(u)[k]) % Mod32
    BY DEF Runs
  <1>2. t.line = (1 + LineSums(u)[k + 1]) % Mod32
    BY <1>1, LineStep, Zenon
  <1>3. t.file = FileNumber(u, k + 1)
    BY FileStep DEF Runs
  <1> QED
    BY <1>2, <1>3 DEF Runs, Placed

\* A flag is changed by negate_stmt, by an opcode that sets it, and by a row.
FlagsNext(o, fl) ==
  CASE o.op \in RowOps      -> fl \cup Flags
    [] o.op = "set_flag"    -> fl \cup {o.arg}
    [] o.op = "negate_stmt" -> IF "IS_STMT" \in fl THEN fl \ {"IS_STMT"} ELSE fl \cup {"IS_STMT"}
    [] OTHER                -> fl
LEMMA FlagsStep ==
  ASSUME NEW u, Regular(u), NEW k \in Nat, k + 1 \in DOMAIN u.prog
  PROVE  FlagsAfter(u, k + 1) = FlagsNext(u.prog[k + 1], FlagsAfter(u, k))
  <1> DEFINE o == u.prog[k + 1]
             N(i) == Cardinality(Where(u, i, "negate_stmt"))
             stmt(i) == u.isStmt <=> N(i) % 2 = 0
             here(i) == {f \in Flags : \E j \in 1..i :
                           \/ u.prog[j].op \in RowOps
                           \/ u.prog[j].op = "set_flag" /\ u.prog[j].arg = f}
  <1>1. FlagsAfter(u, k) = (IF stmt(k) THEN {"IS_STMT"} ELSE {}) \cup here(k)
    BY Zenon DEF FlagsAfter
  <1>2. FlagsAfter(u, k + 1) = (IF stmt(k + 1) THEN {"IS_STMT"} ELSE {}) \cup here(k + 1)
    BY Zenon DEF FlagsAfter
  <1>3. 1..(k + 1) = 1..k \cup {k + 1}
    OBVIOUS
  <1>4. here(k + 1) = here(k) \cup {f \in Flags : o.op \in RowOps \/ (o.op = "set_flag" /\ o.arg = f)}
    BY <1>3, Zenon
  <1>5. IsFiniteSet(Where(u, k, "negate_stmt")) /\ k + 1 \notin Where(u, k, "negate_stmt")
    <2>1. IsFiniteSet(1..k)
      BY FS_Interval
    <2>2. Where(u, k, "negate_stmt") \subseteq 1..k
      BY DEF Where
    <2>3. k + 1 \notin 1..k
      OBVIOUS
    <2> QED
      BY <2>1, <2>2, <2>3, FS_Subset
  <1>6. N(k) \in Nat
    BY <1>5, FS_CardinalityType
  <1>7. N(k + 1) = IF o.op = "negate_stmt" THEN N(k) + 1 ELSE N(k)
    <2>1. Where(u, k + 1, "negate_stmt") =
            IF o.op = "negate_stmt" THEN Where(u, k, "negate_stmt") \cup {k + 1}
                                    ELSE Where(u, k, "negate_stmt")
      BY WhereStep
    <2>2. Cardinality(Where(u, k, "negate_stmt") \cup {k + 1}) = N(k) + 1
      BY <1>5, FS_AddElement
    <2> QED
      BY <2>1, <2>2, Zenon
  <1>8. u.isStmt \in BOOLEAN
    BY DEF Regular, WellShaped
  <1>9. stmt(k + 1) <=> IF o.op = "negate_stmt" THEN ~stmt(k) ELSE stmt(k)
    <2> DEFINE n == N(k)
               l == N(k + 1)
    <2>1. \A i \in Nat : ((i + 1) % 2 = 0) <=> ~(i % 2 = 0)
      OBVIOUS
    <2>2. n \in Nat /\ l = IF o.op = "negate_stmt" THEN n + 1 ELSE n
      BY <1>6, <1>7
    <2> HIDE DEF n, l
    <2>3. (l % 2 = 0) <=> IF o.op = "negate_stmt" THEN ~(n % 2 = 0) ELSE n % 2 = 0
      BY <2>1, <2>2
    <2>4. (u.isStmt <=> l % 2 = 0) <=>
            IF o.op = "negate_stmt" THEN ~(u.isStmt <=> n % 2 = 0) ELSE (u.isStmt <=> n % 2 = 0)
      BY <1>8, <2>3
    <2> QED
      BY <2>4 DEF n, l
  <1>10. here(k) \subseteq Flags /\ "IS_STMT" \notin Flags
    BY DEF Flags
  <1>11. o.op = "set_flag" => o.arg \in Flags
    <2>1. Op(o)
      BY DEF Regular, WellShaped
    <2> QED
      BY <2>1 DEF Op
  <1> HIDE DEF o, stmt, here
  <1>12. CASE o.op \in RowOps
    <2>1. here(k + 1) = here(k) \cup Flags
      BY <1>4, <1>10, <1>12
    <2>2. o.op # "negate_stmt" /\ o.op # "set_flag"
      BY <1>12 DEF RowOps
    <2> QED
      BY <1>1, <1>2, <1>9, <1>12, <2>1, <2>2 DEF FlagsNext, o
  <1>13. CASE o.op = "set_flag"
    <2>1. o.op \notin RowOps
      BY <1>13 DEF RowOps
    <2>2. here(k + 1) = here(k) \cup {o.arg}
      BY <1>4, <1>11, <1>13, <2>1
    <2> QED
      BY <1>1, <1>2, <1>9, <1>13, <2>1, <2>2 DEF FlagsNext, o
  <1>14. CASE o.op = "negate_stmt"
    <2>1. o.op \notin RowOps
      BY <1>14 DEF RowOps
    <2>2. here(k + 1) = here(k)
      BY <1>4, <1>14, <2>1
    <2> QED
      BY <1>1, <1>2, <1>9, <1>10, <1>14, <2>1, <2>2 DEF FlagsNext, o
  <1>15. CASE o.op \notin RowOps \cup {"set_flag", "negate_stmt"}
    <2>1. here(k + 1) = here(k)
      BY <1>4, <1>15
    <2> QED
      BY <1>1, <1>2, <1>9, <1>15, <2>1 DEF FlagsNext, o
  <1> QED
    BY <1>12, <1>13, <1>14, <1>15

\* Rows are counted one by one, up to the end of the first sequence.
LEMMA RowsStep ==
  ASSUME NEW u, NEW k \in Nat, DOMAIN u.prog \subseteq Nat \ {0}, k + 1 \in DOMAIN u.prog,
         Where(u, k, "end_sequence") = {}
  PROVE  /\ Cardinality(rowsTo(u, k)) \in Nat
         /\ u.prog[k + 1].op \in RowOps =>
              /\ rowsTo(u, k + 1) = rowsTo(u, k) \cup {k + 1}
              /\ Cardinality(rowsTo(u, k + 1)) = Cardinality(rowsTo(u, k)) + 1
         /\ u.prog[k + 1].op \notin RowOps => rowsTo(u, k + 1) = rowsTo(u, k)
         /\ IF u.prog[k + 1].op = "end_sequence" THEN rowOpsOf(u) \subseteq 1..(k + 1)
                                                 ELSE Where(u, k + 1, "end_sequence") = {}
  <1>1. IsFiniteSet(rowsTo(u, k))
    <2>1. IsFiniteSet(1..k)
      BY FS_Interval
    <2> QED
      BY <2>1, FS_Subset DEF rowsTo
  <1>2. Cardinality(rowsTo(u, k)) \in Nat
    BY <1>1, FS_CardinalityType
  <1>3. k + 1 \in rowOpsOf(u) <=> u.prog[k + 1].op \in RowOps
    <2>1. (k + 1) - 1 = k
      OBVIOUS
    <2> QED
      BY <2>1 DEF rowOpsOf
  <1>4. 1..(k + 1) = 1..k \cup {k + 1} /\ k + 1 \notin 1..k
    OBVIOUS
  <1>5. ASSUME u.prog[k + 1].op \in RowOps
        PROVE  /\ rowsTo(u, k + 1) = rowsTo(u, k) \cup {k + 1}
               /\ Cardinality(rowsTo(u, k + 1)) = Cardinality(rowsTo(u, k)) + 1
    <2>1. rowsTo(u, k + 1) = rowsTo(u, k) \cup {k + 1} /\ k + 1 \notin rowsTo(u, k)
      BY <1>3, <1>4, <1>5 DEF rowsTo
    <2> QED
      BY <1>1, <2>1, FS_AddElement
  <1>6. ASSUME u.prog[k + 1].op \notin RowOps PROVE rowsTo(u, k + 1) = rowsTo(u, k)
    BY <1>3, <1>4, <1>6 DEF rowsTo
  <1>7. ASSUME u.prog[k + 1].op = "end_sequence" PROVE rowOpsOf(u) \subseteq 1..(k + 1)
    <2>1. ASSUME NEW i \in rowOpsOf(u), i \notin 1..(k + 1) PROVE FALSE
      <3>1. i \in Nat \ {0} /\ Where(u, i - 1, "end_sequence") = {}
        BY DEF rowOpsOf
      <3>2. k + 1 \in 1..(i - 1)
        BY <2>1, <3>1
      <3> QED
        BY <1>7, <3>1, <3>2 DEF Where
    <2> QED
      BY <2>1
  <1>8. ASSUME u.prog[k + 1].op # "end_sequence" PROVE Where(u, k + 1, "end_sequence") = {}
    BY <1>8, WhereStep
  <1> QED
    BY <1>2, <1>5, <1>6, <1>7, <1>8

(***************************************************************************)
(* The rows that are recorded.                                             *)
(***************************************************************************)
\* The cursor of a straight program comes to the next opcode.
LEMMA NextPlace ==
  ASSUME Straight(sect, unit), NEW kinds, Fetch(kinds)
  PROVE  pc' = pc + 1
  <1>1. pc \in DOMAIN unit.prog /\ off' = after(sect, unit.prog[pc]) /\ unit' = unit
    BY DEF Fetch, unit
  <1>2. place(unit, after(sect, unit.prog[pc])) = pc + 1
    BY <1>1 DEF Straight, Ordered
  <1>3. pc' = place(unit', off')
    BY DEF pc
  <1> HIDE DEF pc
  <1> QED
    BY <1>1, <1>2, <1>3

\* The opcode of a turn of the loop, by its place.
LEMMA Turn ==
  ASSUME IInv, Decoded, NEW kinds, Fetch(kinds)
  PROVE  /\ WellShaped(unit) /\ sm \in SMType /\ InInstruction(unit, sm) /\ at = "program"
         /\ pc - 1 \in Nat /\ (pc - 1) + 1 = pc /\ pc \in Nat \ {0}
         /\ pc \in DOMAIN unit.prog /\ pc \in 0..Len(unit.prog) /\ DOMAIN unit.prog \subseteq Nat \ {0}
         /\ Op(unit.prog[pc]) /\ unit.prog[pc].op \in kinds /\ arg = unit.prog[pc].arg
         /\ ~divides(unit, unit.prog[pc])
         /\ sect' = sect /\ cus' = cus /\ cur' = cur /\ unit' = unit /\ ~sm.end_sequence
         /\ Straight(sect, unit) =>
              /\ Regular(unit) /\ pc' - 1 = pc
              /\ paths = tablePaths(unit, unit.files)
              /\ Runs(unit, pc - 1, sm) /\ sm.discriminator = Pending(unit, pc - 1)
              /\ sm.flags = FlagsAfter(unit, pc - 1)
              /\ Additive(unit, pc - 1) /\ Placed(unit, pc - 1, sm)
              /\ Where(unit, pc - 1, "end_sequence") = {}
              /\ Len(rows) = Cardinality(rowsTo(unit, pc - 1))
              /\ \A k \in rowsTo(unit, pc - 1) : RowOf(unit, k) = declared(unit, k)
  <1>1. /\ WellShaped(unit) /\ sm \in SMType /\ InInstruction(unit, sm)
        /\ Op(unit.prog[pc]) /\ unit.prog[pc].op \in kinds /\ pc \in DOMAIN unit.prog
        /\ ~divides(unit, unit.prog[pc])
        /\ at = "program" /\ UNCHANGED <<sect, from, cus>>
    BY OpLemma DEF IInv
  <1>2. DOMAIN unit.prog = 1..Len(unit.prog) /\ Len(unit.prog) \in Nat
    BY <1>1 DEF WellShaped
  <1>3. /\ pc \in Nat \ {0} /\ pc - 1 \in Nat /\ (pc - 1) + 1 = pc /\ (pc + 1) - 1 = pc
        /\ pc \in 0..Len(unit.prog) /\ DOMAIN unit.prog \subseteq Nat \ {0}
    <2> HIDE DEF pc
    <2> QED
      BY <1>1, <1>2
  <1>4. sect' = sect /\ cus' = cus /\ cur' = cur /\ unit' = unit /\ ~sm.end_sequence
    BY <1>1 DEF cur, unit, Fetch, Running
  <1>5. ASSUME Straight(sect, unit) PROVE Regular(unit) /\ pc' - 1 = pc
    <2>1. Regular(unit)
      BY <1>1, <1>5 DEF Regular, Straight
    <2>2. pc' = pc + 1
      BY <1>5, NextPlace
    <2> HIDE DEF pc
    <2> QED
      BY <1>3, <2>1, <2>2
  <1> HIDE DEF pc
  <1> QED
    BY <1>1, <1>3, <1>4, <1>5 DEF Decoded, Runs, arg

\* An opcode that records nothing.
LEMMA DecodedSets ==
  ASSUME IInv, Decoded, NEW kinds, Fetch(kinds), NEW s, Sets(s),
         unit.prog[pc].op \notin RowOps, s.end_sequence = sm.end_sequence,
         s.flags = FlagsNext(unit.prog[pc], sm.flags),
         Straight(sect, unit) => Runs(unit, pc, s) /\ s.discriminator = Pending(unit, pc)
  PROVE  Decoded'
  <1> SUFFICES ASSUME at' = "program", Straight(sect', unit') PROVE Decoded'
    BY DEF Decoded
  <1> DEFINE k == pc - 1
  <1>1. /\ k \in Nat /\ k + 1 = pc /\ pc \in 0..Len(unit.prog)
        /\ pc \in DOMAIN unit.prog /\ DOMAIN unit.prog \subseteq Nat \ {0}
        /\ unit' = unit /\ sect' = sect /\ rows' = rows /\ paths' = paths /\ sm' = s
        /\ ~s.end_sequence
    BY Turn DEF Sets
  <1>2. Straight(sect, unit)
    BY <1>1
  <1>3. /\ Regular(unit) /\ pc' - 1 = pc /\ paths = tablePaths(unit, unit.files)
        /\ Additive(unit, k) /\ Where(unit, k, "end_sequence") = {}
        /\ sm.flags = FlagsAfter(unit, k)
        /\ Len(rows) = Cardinality(rowsTo(unit, k))
        /\ \A i \in rowsTo(unit, k) : RowOf(unit, i) = declared(unit, i)
    BY <1>2, Turn
  <1> HIDE DEF k, pc
  <1>4. Additive(unit, pc)
    BY <1>1, <1>3, OperationsStep
  <1>5. rowsTo(unit, pc) = rowsTo(unit, k) /\ Where(unit, pc, "end_sequence") = {}
    <2>1. unit.prog[k + 1].op \notin RowOps /\ unit.prog[k + 1].op # "end_sequence"
      BY <1>1 DEF RowOps
    <2> QED
      BY <1>1, <1>3, <2>1, RowsStep
  <1>6. s.flags = FlagsAfter(unit, pc)
    BY <1>1, <1>3, FlagsStep
  <1>7. \A i : RowOf(unit, i)' = RowOf(unit, i)
    BY <1>1 DEF RowOf, rowsTo, rowOpsOf
  <1> QED
    BY <1>1, <1>2, <1>3, <1>4, <1>5, <1>6, <1>7 DEF Decoded, RowOf

\* An opcode that records a row.
LEMMA DecodedRecords ==
  ASSUME IInv, Decoded, NEW kinds, Fetch(kinds), NEW s \in SMType, InInstruction(unit, s),
         NEW ends \in BOOLEAN, Records(s, ends), s.flags = sm.flags,
         unit.prog[pc].op \in RowOps, ends <=> unit.prog[pc].op = "end_sequence",
         Straight(sect, unit) => Runs(unit, pc, s) /\ s.discriminator = Pending(unit, pc - 1)
  PROVE  Decoded'
  <1> SUFFICES ASSUME at' = "program", Straight(sect', unit') PROVE Decoded'
    BY DEF Decoded
  <1> DEFINE k == pc - 1
  <1>1. /\ k \in Nat /\ k + 1 = pc /\ pc \in 0..Len(unit.prog) /\ pc \in Nat
        /\ pc \in DOMAIN unit.prog /\ DOMAIN unit.prog \subseteq Nat \ {0}
        /\ unit' = unit /\ sect' = sect /\ paths' = paths /\ WellShaped(unit)
    BY Turn DEF Records
  <1>2. Straight(sect, unit)
    BY <1>1
  <1>3. /\ Regular(unit) /\ pc' - 1 = pc /\ paths = tablePaths(unit, unit.files)
        /\ Additive(unit, k) /\ Where(unit, k, "end_sequence") = {}
        /\ sm.flags = FlagsAfter(unit, k)
        /\ Len(rows) = Cardinality(rowsTo(unit, k))
        /\ \A i \in rowsTo(unit, k) : RowOf(unit, i) = declared(unit, i)
        /\ Runs(unit, pc, s) /\ s.discriminator = Pending(unit, k)
    BY <1>2, Turn
  <1> HIDE DEF k, pc
  <1>4. Additive(unit, pc)
    BY <1>1, <1>3, OperationsStep
  <1>5. /\ s.file \in DOMAIN paths /\ rows' = Append(rows, row(s))
        /\ sm' = [s EXCEPT !.flags = @ \cup Flags, !.discriminator = 0, !.end_sequence = ends]
    BY DEF Records, recordLine
  <1>6. /\ sm'.address = s.address /\ sm'.op_index = s.op_index /\ sm'.line = s.line
        /\ sm'.file = s.file /\ sm'.discriminator = 0 /\ sm'.end_sequence = ends
        /\ sm'.flags = s.flags \cup Flags
    BY <1>5 DEF SMType
  <1>7. /\ Discriminator(unit, pc) = Pending(unit, k) /\ Pending(unit, pc) = 0
    BY <1>1, PendingStep
  <1>8. /\ rowsTo(unit, pc) = rowsTo(unit, k) \cup {pc} /\ Cardinality(rowsTo(unit, k)) \in Nat
        /\ Cardinality(rowsTo(unit, pc)) = Cardinality(rowsTo(unit, k)) + 1
        /\ IF ends THEN rowOpsOf(unit) \subseteq 1..pc ELSE Where(unit, pc, "end_sequence") = {}
    BY <1>1, <1>3, RowsStep
  <1>9. row(s) = declared(unit, pc)
    <2>1. s.op_index % 256 = Operations(unit, pc) % unit.maxOps
      <3>1. \A n \in Nat, m \in 1..255 : n < m => n % 256 = n
        OBVIOUS
      <3>2. s.op_index \in Nat /\ unit.maxOps \in 1..255
        BY <1>3 DEF SMType, Regular, WellShaped
      <3>3. s.op_index = Operations(unit, pc) % unit.maxOps
        BY <1>3 DEF Runs, Placed
      <3>4. s.op_index % 256 = s.op_index
        <4>1. s.op_index < unit.maxOps
          BY <3>2 DEF InInstruction
        <4> QED
          BY <3>1, <3>2, <4>1
      <3> QED
        BY <3>3, <3>4
    <2>2. paths[s.file] = path(unit, unit.files[FileNumber(unit, pc)])
      BY <1>3, <1>5 DEF Runs, tablePaths
    <2>3. s.flags = FlagsAfter(unit, pc - 1)
      BY <1>1, <1>3 DEF k
    <2>4. AsInt(s.line) = Line(unit, pc)
      BY <1>3 DEF Runs, Line
    <2>5. s.address = Address(unit, pc)
      BY <1>3 DEF Runs, Placed
    <2>6. s.discriminator % 256 = Discriminator(unit, pc) % 256
      BY <1>3, <1>7
    <2> QED
      BY <2>1, <2>2, <2>3, <2>4, <2>5, <2>6 DEF declared, row
  <1>10. rows \in Seq(RowType)
    BY DEF IInv, TypeOK
  <1>11. /\ Len(rows') = Len(rows) + 1 /\ rows'[Len(rows) + 1] = row(s)
         /\ \A j \in 1..Len(rows) : rows'[j] = rows[j]
    BY <1>5, <1>10
  <1>12. ASSUME NEW i \in rowsTo(unit, pc)
         PROVE  rows'[Cardinality(rowsTo(unit, i))] = declared(unit, i)
    <2>1. CASE i = pc
      BY <1>3, <1>8, <1>9, <1>11, <2>1
    <2>2. CASE i \in rowsTo(unit, k)
      <3>1. Cardinality(rowsTo(unit, i)) \in 1..Len(rows)
        <4>1. i \in 1..k /\ i \in rowsTo(unit, i) /\ rowsTo(unit, i) \subseteq rowsTo(unit, k)
          BY <1>1, <2>2 DEF rowsTo
        <4>2. IsFiniteSet(rowsTo(unit, k))
          <5>1. IsFiniteSet(1..k)
            BY <1>1, FS_Interval
          <5> QED
            BY <5>1, FS_Subset DEF rowsTo
        <4>3. /\ Cardinality(rowsTo(unit, i)) <= Cardinality(rowsTo(unit, k))
              /\ IsFiniteSet(rowsTo(unit, i))
          BY <4>1, <4>2, FS_Subset
        <4>4. Cardinality(rowsTo(unit, i)) \in Nat /\ Cardinality(rowsTo(unit, i)) # 0
          BY <4>1, <4>3, FS_CardinalityType, FS_EmptySet
        <4> QED
          BY <1>3, <1>8, <4>3, <4>4
      <3> QED
        BY <1>3, <1>11, <2>2, <3>1 DEF RowOf
    <2> QED
      BY <1>8, <2>1, <2>2
  <1>13. Runs(unit, pc, sm')
    BY <1>3, <1>6 DEF Runs, Placed
  <1>14. sm'.flags = FlagsAfter(unit, pc)
    <2>1. sm'.flags = FlagsNext(unit.prog[pc], sm.flags)
      BY <1>6 DEF FlagsNext, RowOps
    <2> QED
      BY <1>1, <1>3, <2>1, FlagsStep
  <1>15. Len(rows') = Cardinality(rowsTo(unit, pc))
    BY <1>3, <1>8, <1>11
  <1> QED
    BY <1>1, <1>2, <1>3, <1>4, <1>6, <1>7, <1>8, <1>12, <1>13, <1>14, <1>15 DEF Decoded, RowOf

\* Opcodes that move no address: the registers they set are those declared.
LEMMA DecodedMoves ==
  ASSUME IInv, Decoded, NEW kinds, Fetch(kinds), NEW s, Sets(s),
         kinds \cap RowOps = {}, s.end_sequence = sm.end_sequence,
         Straight(sect, unit) => Placed(unit, pc, s),
         s.flags = FlagsNext(unit.prog[pc], sm.flags),
         s.line = (sm.line + LineAdvance(unit, unit.prog[pc])) % Mod32,
         s.file = IF unit.prog[pc].op = "set_file" THEN arg % Mod32 ELSE sm.file,
         s.discriminator = IF unit.prog[pc].op = "set_discriminator" THEN arg ELSE sm.discriminator
  PROVE  Decoded'
  <1>1. /\ pc - 1 \in Nat /\ (pc - 1) + 1 = pc /\ pc \in DOMAIN unit.prog
        /\ arg = unit.prog[pc].arg /\ unit.prog[pc].op \in kinds
        /\ Straight(sect, unit) => /\ Regular(unit) /\ Runs(unit, pc - 1, sm)
                                   /\ sm.discriminator = Pending(unit, pc - 1)
    BY Turn
  <1> DEFINE k == pc - 1
  <1>2. k \in Nat /\ k + 1 = pc
    BY <1>1
  <1>3. ASSUME Straight(sect, unit) PROVE Runs(unit, pc, s)
    <2>1. Runs(unit, k, sm) /\ Placed(unit, k + 1, s) /\ Regular(unit)
      BY <1>1, <1>3
    <2> HIDE DEF k, pc
    <2> QED
      BY <1>1, <1>2, <2>1, RunsStep
  <1>4. ASSUME Straight(sect, unit) PROVE s.discriminator = Pending(unit, pc)
    <2>1. sm.discriminator = Pending(unit, k)
      BY <1>1, <1>4
    <2> HIDE DEF k, pc
    <2>2. unit.prog[k + 1].op \notin RowOps
      BY <1>1, <1>2
    <2> QED
      BY <1>1, <1>2, <2>1, <2>2, PendingStep
  <1>5. unit.prog[pc].op \notin RowOps
    BY <1>1
  <1> QED
    BY <1>3, <1>4, <1>5, DecodedSets

\* A line that is not advanced stays.
LEMMA LineStays ==
  ASSUME NEW s \in SMType
  PROVE  (s.line + 0) % Mod32 = s.line
  <1>1. s.line \in 0..(Mod32 - 1) /\ Mod32 \in Nat \ {0}
    BY Widths DEF SMType
  <1> DEFINE l == s.line
  <1>2. l \in 0..(Mod32 - 1) /\ Mod32 \in Nat \ {0}
    BY <1>1
  <1> HIDE DEF l
  <1>3. (l + 0) % Mod32 = l
    BY <1>2
  <1> QED
    BY <1>3 DEF l

LEMMA DecodedAdvancePC == IInv /\ Decoded /\ (AdvancePC \/ ConstAddPC) => Decoded'
  <1>1. ASSUME IInv, Decoded, NEW kinds, Fetch(kinds), kinds \subseteq {"advance_pc", "const_add_pc"},
               NEW s, s = advancePC(unit, sm, OpAdvance(unit, unit.prog[pc])), Sets(s)
        PROVE  Decoded'
    <2> DEFINE k == pc - 1
               o == unit.prog[pc]
    <2>1. /\ k \in Nat /\ k + 1 = pc /\ pc \in DOMAIN unit.prog
          /\ o.op \in kinds /\ sm \in SMType
          /\ Straight(sect, unit) => Regular(unit) /\ Additive(unit, k) /\ Placed(unit, k, sm)
      BY <1>1, Turn
    <2>2. ASSUME Straight(sect, unit) PROVE Placed(unit, pc, s)
      <3>1. unit.maxOps > 1 => OpAdvance(unit, o) + unit.maxOps <= Mod64
        BY <2>1, <2>2 DEF Straight
      <3> HIDE DEF k, pc
      <3> QED
        BY <1>1, <2>1, <2>2, <3>1, AdvancePlaced
    <2>3. /\ LineAdvance(unit, o) = 0 /\ o.op \notin {"set_file", "set_discriminator"}
          /\ FlagsNext(o, sm.flags) = sm.flags
      BY <1>1, <2>1 DEF LineAdvance, FlagsNext, RowOps
    <2>4. /\ s.line = sm.line /\ s.file = sm.file /\ s.discriminator = sm.discriminator
          /\ s.end_sequence = sm.end_sequence /\ s.flags = sm.flags
      BY <1>1, <2>1 DEF advancePC, SMType
    <2>5. (sm.line + 0) % Mod32 = sm.line
      BY <2>1, LineStays
    <2>6. kinds \cap RowOps = {}
      BY <1>1 DEF RowOps
    <2> QED
      BY <1>1, <2>2, <2>3, <2>4, <2>5, <2>6, DecodedMoves
  <1>2. ASSUME IInv, Decoded, AdvancePC PROVE Decoded'
    <2>1. Fetch({"advance_pc"}) /\ Sets(advancePC(unit, sm, arg))
      BY <1>2 DEF AdvancePC
    <2>2. OpAdvance(unit, unit.prog[pc]) = arg
      BY <1>2, <2>1, Turn DEF OpAdvance
    <2> QED
      BY <1>1, <1>2, <2>1, <2>2
  <1>3. ASSUME IInv, Decoded, ConstAddPC PROVE Decoded'
    <2>1. /\ Fetch({"const_add_pc"})
          /\ Sets(advancePC(unit, sm, (255 - unit.opcodeBase) \div unit.lineRange))
      BY <1>3 DEF ConstAddPC
    <2>2. unit.prog[pc].op = "const_add_pc"
      BY <1>3, <2>1, Turn
    <2>3. OpAdvance(unit, unit.prog[pc]) = (255 - unit.opcodeBase) \div unit.lineRange
      BY <2>2 DEF OpAdvance
    <2> QED
      BY <1>1, <1>3, <2>1, <2>3
  <1> QED
    BY <1>2, <1>3

LEMMA DecodedAddress == IInv /\ Decoded /\ (FixedAdvancePC \/ SetAddress) => Decoded'
  <1>1. ASSUME IInv, Decoded, NEW kinds, Fetch(kinds), kinds \subseteq {"fixed_advance_pc", "set_address"},
               NEW s, Sets(s), Straight(sect, unit) => Placed(unit, pc, s),
               s.line = sm.line, s.file = sm.file, s.discriminator = sm.discriminator,
               s.end_sequence = sm.end_sequence, s.flags = sm.flags
        PROVE  Decoded'
    <2>1. unit.prog[pc].op \in kinds /\ sm \in SMType
      BY <1>1, Turn
    <2>2. /\ LineAdvance(unit, unit.prog[pc]) = 0 /\ FlagsNext(unit.prog[pc], sm.flags) = sm.flags
          /\ unit.prog[pc].op \notin {"set_file", "set_discriminator"}
      BY <1>1, <2>1 DEF LineAdvance, FlagsNext, RowOps
    <2>3. (sm.line + 0) % Mod32 = sm.line
      BY <2>1, LineStays
    <2>4. kinds \cap RowOps = {}
      BY <1>1 DEF RowOps
    <2> QED
      BY <1>1, <2>2, <2>3, <2>4, DecodedMoves
  <1>2. ASSUME IInv, Decoded, FixedAdvancePC PROVE Decoded'
    <2> DEFINE s == [sm EXCEPT !.address = (@ + arg) % Mod64, !.op_index = 0]
               k == pc - 1
    <2>1. Fetch({"fixed_advance_pc"}) /\ Sets(s)
      BY <1>2 DEF FixedAdvancePC
    <2>2. /\ k \in Nat /\ k + 1 = pc /\ pc \in DOMAIN unit.prog
          /\ unit.prog[pc].op = "fixed_advance_pc" /\ sm \in SMType /\ arg = unit.prog[pc].arg
          /\ Straight(sect, unit) => Regular(unit) /\ Additive(unit, k) /\ Placed(unit, k, sm)
      BY <1>2, <2>1, Turn
    <2>3. Straight(sect, unit) => Placed(unit, pc, s)
      <3>1. s = [sm EXCEPT !.address = (@ + unit.prog[pc].arg) % Mod64, !.op_index = 0]
        BY <2>2
      <3> HIDE DEF k, s, pc
      <3> QED
        BY <2>2, <3>1, FixedPlaced
    <2>4. /\ s.line = sm.line /\ s.file = sm.file /\ s.discriminator = sm.discriminator
          /\ s.end_sequence = sm.end_sequence /\ s.flags = sm.flags
      BY <2>2 DEF SMType
    <2> HIDE DEF s, k
    <2> QED
      BY <1>1, <1>2, <2>1, <2>3, <2>4
  <1>3. ASSUME IInv, Decoded, SetAddress PROVE Decoded'
    <2> DEFINE s == [sm EXCEPT !.address = readAddress(sect, unit, unit.prog[pc])]
               k == pc - 1
    <2>1. Fetch({"set_address"}) /\ Sets(s)
      BY <1>3 DEF SetAddress
    <2>2. /\ k \in Nat /\ k + 1 = pc /\ pc \in DOMAIN unit.prog
          /\ unit.prog[pc].op = "set_address" /\ sm \in SMType /\ arg = unit.prog[pc].arg
          /\ Straight(sect, unit) => Regular(unit) /\ Additive(unit, k) /\ Placed(unit, k, sm)
      BY <1>3, <2>1, Turn
    <2>3. Straight(sect, unit) => Placed(unit, pc, s)
      <3>1. s = [sm EXCEPT !.address = readAddress(sect, unit, unit.prog[pc])]
        OBVIOUS
      <3> HIDE DEF k, s, pc
      <3> QED
        BY <2>2, <3>1, SetPlaced
    <2>4. /\ s.line = sm.line /\ s.file = sm.file /\ s.discriminator = sm.discriminator
          /\ s.end_sequence = sm.end_sequence /\ s.flags = sm.flags
      BY <2>2 DEF SMType
    <2> HIDE DEF s, k
    <2> QED
      BY <1>1, <1>3, <2>1, <2>3, <2>4
  <1> QED
    BY <1>2, <1>3

\* The other registers.
LEMMA DecodedRegisters ==
  IInv /\ Decoded
    /\ (AdvanceLine \/ SetFile \/ SetDiscriminator \/ SetRegister \/ NegateStmt \/ SetFlag)
      => Decoded'
  <1> DEFINE still == {"advance_line", "set_file", "set_discriminator", "set_register",
                       "negate_stmt", "set_flag"}
  <1>1. ASSUME IInv, Decoded, NEW kinds, Fetch(kinds), kinds \subseteq still, NEW s, Sets(s),
               s.address = sm.address, s.op_index = sm.op_index, s.end_sequence = sm.end_sequence,
               s.line = (sm.line + LineAdvance(unit, unit.prog[pc])) % Mod32,
               s.flags = FlagsNext(unit.prog[pc], sm.flags),
               s.file = IF unit.prog[pc].op = "set_file" THEN arg % Mod32 ELSE sm.file,
               s.discriminator = IF unit.prog[pc].op = "set_discriminator" THEN arg
                                 ELSE sm.discriminator
        PROVE  Decoded'
    <2> DEFINE k == pc - 1
    <2>1. /\ k \in Nat /\ k + 1 = pc /\ pc \in DOMAIN unit.prog
          /\ unit.prog[pc].op \in kinds
          /\ Straight(sect, unit) => Regular(unit) /\ Additive(unit, k) /\ Placed(unit, k, sm)
      BY <1>1, Turn
    <2>2. /\ OpAdvance(unit, unit.prog[pc]) = 0
          /\ unit.prog[pc].op \notin {"set_address", "fixed_advance_pc"}
      BY <1>1, <2>1 DEF OpAdvance
    <2>3. Straight(sect, unit) => Placed(unit, k, s)
      BY <1>1, <2>1 DEF Placed
    <2>4. Straight(sect, unit) => Placed(unit, pc, s)
      <3> HIDE DEF k, pc
      <3> QED
        BY <2>1, <2>2, <2>3, StillPlaced
    <2>5. kinds \cap RowOps = {}
      BY <1>1 DEF RowOps
    <2> HIDE DEF k, still
    <2> QED
      BY <1>1, <2>4, <2>5, DecodedMoves
  <1>2. ASSUME IInv, Decoded, NEW kinds, Fetch(kinds)
        PROVE  sm \in SMType /\ Op(unit.prog[pc]) /\ unit.prog[pc].op \in kinds /\ arg = unit.prog[pc].arg
    BY <1>2, Turn
  <1>3. ASSUME IInv, Decoded, AdvanceLine PROVE Decoded'
    <2> DEFINE s == advanceLine(sm, arg)
    <2>1. Fetch({"advance_line"}) /\ Sets(s)
      BY <1>3 DEF AdvanceLine
    <2>2. sm \in SMType /\ unit.prog[pc].op = "advance_line" /\ arg = unit.prog[pc].arg
      BY <1>2, <1>3, <2>1
    <2>3. LineAdvance(unit, unit.prog[pc]) = arg /\ FlagsNext(unit.prog[pc], sm.flags) = sm.flags
      BY <2>2 DEF LineAdvance, FlagsNext, RowOps
    <2>4. /\ s.address = sm.address /\ s.op_index = sm.op_index /\ s.end_sequence = sm.end_sequence
          /\ s.line = (sm.line + arg) % Mod32 /\ s.file = sm.file
          /\ s.discriminator = sm.discriminator /\ s.flags = sm.flags
      BY <2>2 DEF advanceLine, SMType
    <2> HIDE DEF s
    <2> QED
      BY <1>1, <1>3, <2>1, <2>2, <2>3, <2>4
  <1>4. ASSUME IInv, Decoded, NEW kinds, Fetch(kinds), kinds \subseteq still, "advance_line" \notin kinds
        PROVE  sm.line = (sm.line + LineAdvance(unit, unit.prog[pc])) % Mod32
    <2>1. LineAdvance(unit, unit.prog[pc]) = 0 /\ sm \in SMType
      BY <1>2, <1>4 DEF LineAdvance
    <2> QED
      BY <2>1, LineStays
  <1>5. ASSUME IInv, Decoded, SetFile PROVE Decoded'
    <2> DEFINE s == [sm EXCEPT !.file = arg % Mod32]
    <2>1. Fetch({"set_file"}) /\ Sets(s)
      BY <1>5 DEF SetFile
    <2>2. sm \in SMType /\ unit.prog[pc].op = "set_file"
          /\ FlagsNext(unit.prog[pc], sm.flags) = sm.flags
      BY <1>2, <1>5, <2>1 DEF FlagsNext, RowOps
    <2>3. sm.line = (sm.line + LineAdvance(unit, unit.prog[pc])) % Mod32
      BY <1>4, <1>5, <2>1
    <2>4. /\ s.address = sm.address /\ s.op_index = sm.op_index /\ s.end_sequence = sm.end_sequence
          /\ s.line = sm.line /\ s.file = arg % Mod32 /\ s.discriminator = sm.discriminator
          /\ s.flags = sm.flags
      BY <2>2 DEF SMType
    <2> HIDE DEF s
    <2> QED
      BY <1>1, <1>5, <2>1, <2>2, <2>3, <2>4
  <1>6. ASSUME IInv, Decoded, SetDiscriminator PROVE Decoded'
    <2> DEFINE s == [sm EXCEPT !.discriminator = arg]
    <2>1. Fetch({"set_discriminator"}) /\ Sets(s)
      BY <1>6 DEF SetDiscriminator
    <2>2. sm \in SMType /\ unit.prog[pc].op = "set_discriminator"
          /\ FlagsNext(unit.prog[pc], sm.flags) = sm.flags
      BY <1>2, <1>6, <2>1 DEF FlagsNext, RowOps
    <2>3. sm.line = (sm.line + LineAdvance(unit, unit.prog[pc])) % Mod32
      BY <1>4, <1>6, <2>1
    <2>4. /\ s.address = sm.address /\ s.op_index = sm.op_index /\ s.end_sequence = sm.end_sequence
          /\ s.line = sm.line /\ s.file = sm.file /\ s.discriminator = arg
          /\ s.flags = sm.flags
      BY <2>2 DEF SMType
    <2> HIDE DEF s
    <2> QED
      BY <1>1, <1>6, <2>1, <2>2, <2>3, <2>4
  <1>7. ASSUME IInv, Decoded, NEW kinds, Fetch(kinds),
               kinds \subseteq {"set_register", "negate_stmt", "set_flag"}, NEW s, Sets(s),
               s.address = sm.address, s.op_index = sm.op_index, s.end_sequence = sm.end_sequence,
               s.line = sm.line, s.file = sm.file, s.discriminator = sm.discriminator,
               s.flags = FlagsNext(unit.prog[pc], sm.flags)
        PROVE  Decoded'
    <2>1. unit.prog[pc].op \in {"set_register", "negate_stmt", "set_flag"}
      BY <1>2, <1>7
    <2>2. unit.prog[pc].op \notin {"set_file", "set_discriminator"}
      BY <2>1
    <2>3. kinds \subseteq still /\ sm.line = (sm.line + LineAdvance(unit, unit.prog[pc])) % Mod32
      BY <1>4, <1>7
    <2> HIDE DEF still
    <2> QED
      BY <1>1, <1>7, <2>2, <2>3
  <1>8. ASSUME IInv, Decoded, NEW kinds, Fetch(kinds), kinds \subseteq {"negate_stmt", "set_flag"},
               NEW fl, Sets([sm EXCEPT !.flags = fl]), fl = FlagsNext(unit.prog[pc], sm.flags)
        PROVE  Decoded'
    <2> DEFINE s == [sm EXCEPT !.flags = fl]
    <2>1. /\ s.address = sm.address /\ s.op_index = sm.op_index /\ s.end_sequence = sm.end_sequence
          /\ s.line = sm.line /\ s.file = sm.file /\ s.discriminator = sm.discriminator
          /\ s.flags = fl
      BY <1>2, <1>8 DEF SMType
    <2>2. kinds \subseteq {"set_register", "negate_stmt", "set_flag"} /\ Sets(s)
      BY <1>8
    <2> HIDE DEF s
    <2> QED
      BY <1>7, <1>8, <2>1, <2>2
  <1>9. ASSUME IInv, Decoded, SetRegister PROVE Decoded'
    <2>1. Fetch({"set_register"}) /\ Sets(sm)
      BY <1>9 DEF SetRegister
    <2>2. unit.prog[pc].op = "set_register"
      BY <1>2, <1>9, <2>1
    <2>3. FlagsNext(unit.prog[pc], sm.flags) = sm.flags
      BY <2>2 DEF FlagsNext, RowOps
    <2> QED
      BY <1>7, <1>9, <2>1, <2>3
  <1>10. ASSUME IInv, Decoded, NegateStmt PROVE Decoded'
    <2> DEFINE fl == IF "IS_STMT" \in sm.flags THEN sm.flags \ {"IS_STMT"}
                                               ELSE sm.flags \cup {"IS_STMT"}
    <2>1. Fetch({"negate_stmt"}) /\ Sets([sm EXCEPT !.flags = fl])
      BY <1>10 DEF NegateStmt
    <2>2. unit.prog[pc].op = "negate_stmt"
      BY <1>2, <1>10, <2>1
    <2>3. fl = FlagsNext(unit.prog[pc], sm.flags)
      BY <2>2 DEF FlagsNext, RowOps
    <2> HIDE DEF fl
    <2> QED
      BY <1>8, <1>10, <2>1, <2>3
  <1>11. ASSUME IInv, Decoded, SetFlag PROVE Decoded'
    <2> DEFINE fl == sm.flags \cup {arg}
    <2>1. Fetch({"set_flag"}) /\ Sets([sm EXCEPT !.flags = fl])
      BY <1>11 DEF SetFlag
    <2>2. unit.prog[pc].op = "set_flag" /\ arg = unit.prog[pc].arg
      BY <1>2, <1>11, <2>1
    <2>3. fl = FlagsNext(unit.prog[pc], sm.flags)
      BY <2>2 DEF FlagsNext, RowOps
    <2> HIDE DEF fl
    <2> QED
      BY <1>8, <1>11, <2>1, <2>3
  <1> QED
    BY <1>3, <1>5, <1>6, <1>9, <1>10, <1>11

\* The opcodes that record a row.
LEMMA DecodedSpecial == IInv /\ Decoded /\ Special => Decoded'
  <1> SUFFICES ASSUME IInv, Decoded, Special PROVE Decoded'
    OBVIOUS
  <1> DEFINE k == pc - 1
             s == special(unit, sm, arg)
             l == unit.lineBase + (arg % unit.lineRange)
             t == advanceLine(sm, l)
  <1>1. Fetch({"special"}) /\ Records(s, FALSE)
    BY DEF Special
  <1>2. /\ WellShaped(unit) /\ sm \in SMType /\ InInstruction(unit, sm)
        /\ ~divides(unit, unit.prog[pc])
        /\ k \in Nat /\ k + 1 = pc /\ pc \in DOMAIN unit.prog /\ Op(unit.prog[pc])
        /\ unit.prog[pc].op = "special" /\ arg = unit.prog[pc].arg
        /\ Straight(sect, unit) => /\ Additive(unit, k) /\ Placed(unit, k, sm) /\ Runs(unit, k, sm)
                                   /\ sm.discriminator = Pending(unit, k)
    BY <1>1, Turn
  <1>3. arg \in 0..255 /\ Regular(unit)
    BY <1>2 DEF Op, divides, Regular
  <1>4. s \in SMType /\ InInstruction(unit, s)
    BY <1>2, <1>3, SpecialLemma
  <1>5. OpAdvance(unit, unit.prog[pc]) = arg \div unit.lineRange /\ LineAdvance(unit, unit.prog[pc]) = l
    BY <1>2 DEF OpAdvance, LineAdvance
  <1>6. l \in Int
    BY <1>2, <1>3, <1>5, AdvanceTypes
  <1> HIDE DEF l
  <1>7. /\ t \in SMType /\ t.address = sm.address /\ t.op_index = sm.op_index 
        /\ t.line = (sm.line + l) % Mod32
        /\ t.file = sm.file /\ t.discriminator = sm.discriminator /\ t.flags = sm.flags
    <2>1. t \in SMType
      BY <1>2, <1>6, LineLemma
    <2> QED
      BY <1>2, <2>1 DEF advanceLine, SMType
  <1>8. s = advancePC(unit, t, OpAdvance(unit, unit.prog[pc]))
    BY <1>5 DEF special, l
  <1> HIDE DEF s, t
  <1>9. s.line = t.line /\ s.file = t.file /\ s.discriminator = t.discriminator /\ s.flags = t.flags
    BY <1>7, <1>8 DEF advancePC, SMType
  <1>10. ASSUME Straight(sect, unit) PROVE Runs(unit, pc, s)
    <2>1. Placed(unit, k, t)
      BY <1>2, <1>7, <1>10 DEF Placed
    <2>2. unit.maxOps > 1 => OpAdvance(unit, unit.prog[pc]) + unit.maxOps <= Mod64
      BY <1>2, <1>10 DEF Straight
    <2> HIDE DEF k, pc
    <2>3. Placed(unit, k + 1, s)
      BY <1>2, <1>3, <1>7, <1>8, <1>10, <2>1, <2>2, AdvancePlaced
    <2> QED
      BY <1>2, <1>3, <1>5, <1>7, <1>9, <1>10, <2>3, RunsStep
  <1>11. unit.prog[pc].op \in RowOps /\ unit.prog[pc].op # "end_sequence"
    BY <1>2 DEF RowOps
  <1>12. Straight(sect, unit) => s.discriminator = Pending(unit, pc - 1)
    BY <1>2, <1>7, <1>9
  <1> QED
    BY <1>1, <1>4, <1>7, <1>9, <1>10, <1>11, <1>12, DecodedRecords

LEMMA DecodedCopy == IInv /\ Decoded /\ (Copy \/ EndSequence) => Decoded'
  <1>1. ASSUME IInv, Decoded, NEW kind \in {"copy", "end_sequence"}, Fetch({kind}),
               NEW ends \in BOOLEAN, ends <=> kind = "end_sequence", Records(sm, ends)
        PROVE  Decoded'
    <2> DEFINE k == pc - 1
    <2>1. /\ sm \in SMType /\ InInstruction(unit, sm)
          /\ k \in Nat /\ k + 1 = pc /\ pc \in DOMAIN unit.prog /\ unit.prog[pc].op = kind
          /\ Straight(sect, unit) => /\ Regular(unit)
                                     /\ Additive(unit, k) /\ Placed(unit, k, sm) /\ Runs(unit, k, sm)
                                     /\ sm.discriminator = Pending(unit, k)
      BY <1>1, Turn
    <2>2. OpAdvance(unit, unit.prog[pc]) = 0 /\ LineAdvance(unit, unit.prog[pc]) = 0
      BY <1>1, <2>1 DEF OpAdvance, LineAdvance
    <2>3. sm.line = (sm.line + 0) % Mod32
      BY <2>1, LineStays
    <2>4. unit.prog[pc].op \in RowOps /\ unit.prog[pc].op \notin {"set_file", "set_address", "fixed_advance_pc"}
      BY <1>1, <2>1 DEF RowOps
    <2>5. ASSUME Straight(sect, unit) PROVE Runs(unit, pc, sm)
      <3> HIDE DEF k, pc
      <3>1. Placed(unit, k + 1, sm)
        BY <2>1, <2>2, <2>4, <2>5, StillPlaced
      <3> QED
        BY <2>1, <2>2, <2>3, <2>4, <2>5, <3>1, RunsStep
    <2> QED
      BY <1>1, <2>1, <2>4, <2>5, DecodedRecords
  <1>2. IInv /\ Decoded /\ Copy => Decoded'
    BY <1>1 DEF Copy
  <1>3. IInv /\ Decoded /\ EndSequence => Decoded'
    BY <1>1 DEF EndSequence
  <1> QED
    BY <1>2, <1>3

\* A unit starts with its own table of files and a new machine.
LEMMA DecodedHeader == IInv /\ ReadHeader => Decoded'
  <1> SUFFICES ASSUME IInv, ReadHeader, at' = "program", Straight(sect', unit') PROVE Decoded'
    BY DEF Decoded
  <1>1. PICK n \in readable :
          /\ from' = n /\ sm' = initialSM(sect.units[n]) /\ off' = programAt(sect, sect.units[n])
          /\ addTable(sect.units[n], sect.units[n].files)
    BY DEF ReadHeader
  <1> DEFINE u == sect.units[n]
             ps == tablePaths(u, u.files)
  <1>2. /\ at = "unit" /\ rows' = rows /\ sect' = sect /\ unit' = u /\ n \in DOMAIN sect.units
        /\ TypeOK /\ rows = <<>> /\ paths = <<>>
    BY <1>1 DEF ReadHeader, unit, IInv, Idle, readable
  <1>3. addFiles(ps)
    BY <1>1 DEF addTable
  <1>4. WellShaped(u) /\ Straight(sect, u)
    BY <1>2, UnitShape
  <1>5. Regular(u)
    BY <1>4 DEF Regular, Straight
  <1>6. paths' = ps
    <2>1. PICK m \in Nat : DOMAIN u.files = 1..m
      <3>1. u.files \in Seq([name : STRING, dir : Nat])
        BY <1>4 DEF WellShaped, Entries
      <3>2. Len(u.files) \in Nat /\ DOMAIN u.files = 1..Len(u.files)
        BY <3>1
      <3> QED
        BY <3>2
    <2>2. ps \in Seq({ps[i] : i \in 1..m})
      <3>1. DOMAIN ps = 1..m /\ ps = [i \in 1..m |-> ps[i]]
        BY <2>1 DEF tablePaths
      <3> HIDE DEF ps
      <3> QED
        BY <3>1
    <2>3. paths' = <<>> \o ps
      BY <1>2, <1>3 DEF addFiles
    <2> HIDE DEF ps
    <2> QED
      BY <2>2, <2>3
  <1>7. pc' = 1
    <2>1. place(u, programAt(sect, u)) = 1
      BY <1>4 DEF Straight, Ordered
    <2>2. pc' = place(unit', off')
      BY DEF pc
    <2> QED
      BY <1>1, <1>2, <2>1, <2>2
  <1>8. /\ Runs(u, 0, sm') /\ sm'.discriminator = Pending(u, 0) /\ Additive(u, 0)
        /\ sm'.flags = FlagsAfter(u, 0)
    <2>1. initialSM(u).discriminator = 0
      BY DEF initialSM
    <2> QED
      BY <1>1, <1>5, <2>1, RunsStart
  <1>9. Where(u, 0, "end_sequence") = {} /\ ~sm'.end_sequence
    BY <1>1, LastOfNone DEF initialSM
  <1>10. rowsTo(u, 0) = {} /\ Len(rows) = 0 /\ Cardinality({}) = 0
    BY <1>2, FS_EmptySet DEF rowsTo
  <1>11. 0 \in 0..Len(u.prog) /\ pc' - 1 = 0
    <2>1. Len(u.prog) \in Nat
      BY <1>4 DEF WellShaped
    <2> QED
      BY <1>7, <2>1
  <1> HIDE DEF ps, u, pc
  <1>12. paths' = tablePaths(u, u.files)
    BY <1>6 DEF ps
  <1> QED
    BY <1>2, <1>8, <1>9, <1>10, <1>11, <1>12 DEF Decoded

\* The rows of a unit are complete when it is added.
LEMMA DeclaredUnit ==
  ASSUME IInv, Decoded, RowsDeclared, FinishUnit
  PROVE  RowsDeclared'
  <1> DEFINE cu == [files |-> paths, lines |-> rows, from |-> from]
             k == pc - 1
  <1>1. /\ at = "program" /\ (sm.end_sequence \/ ~enters(sect, unit))
        /\ cus' = Append(cus, cu) /\ sect' = sect /\ TypeOK
    BY DEF FinishUnit, IInv
  <1>2. PICK S : cus \in Seq(S)
    BY <1>1 DEF TypeOK
  <1>3. /\ DOMAIN cus' = DOMAIN cus \cup {cur}
        /\ cus'[cur] = cu /\ \A n \in DOMAIN cus : cus'[n] = cus[n]
    BY <1>1, <1>2 DEF cur
  <1>4. ASSUME Straight(sect, unit)
        PROVE  /\ Len(rows) = Cardinality(rowOpsOf(unit))
               /\ \A i \in rowOpsOf(unit) :
                    rows[Cardinality(rowOpsOf(unit) \cap 1..i)] = declared(unit, i)
    <2>1. rowOpsOf(unit) \subseteq 1..k
      <3>1. CASE sm.end_sequence
        BY <1>1, <1>4, <3>1 DEF Decoded
      <3>2. CASE ~enters(sect, unit)
        <4>1. unit.prog = <<>>
          BY <1>4, <3>2 DEF Straight, Ordered
        <4>2. DOMAIN unit.prog = {}
          BY <4>1
        <4> QED
          BY <4>2 DEF rowOpsOf
      <3> QED
        BY <1>1, <3>1, <3>2
    <2>2. rowsTo(unit, k) = rowOpsOf(unit)
      BY <2>1 DEF rowsTo
    <2>3. /\ Len(rows) = Cardinality(rowsTo(unit, k))
          /\ \A i \in rowsTo(unit, k) : rows[Cardinality(rowsTo(unit, i))] = declared(unit, i)
      BY <1>1, <1>4 DEF Decoded, RowOf
    <2> HIDE DEF k
    <2> QED
      BY <2>2, <2>3 DEF rowsTo
  <1> DEFINE src(n) == sect.units[cus'[n].from]
  <1>5. ASSUME NEW n \in DOMAIN cus', Straight(sect, src(n))
        PROVE  /\ Len(cus'[n].lines) = Cardinality(rowOpsOf(src(n)))
               /\ \A i \in rowOpsOf(src(n)) :
                    cus'[n].lines[Cardinality(rowOpsOf(src(n)) \cap 1..i)] = declared(src(n), i)
    <2>1. CASE n \in DOMAIN cus
      <3>1. cus'[n] = cus[n] /\ src(n) = source(n)
        BY <1>3, <2>1 DEF source
      <3> HIDE DEF src
      <3> QED
        BY <1>5, <2>1, <3>1 DEF RowsDeclared, rowFor
    <2>2. CASE n = cur
      <3>1. cus'[n].lines = rows /\ src(n) = unit
        BY <1>3, <2>2 DEF unit
      <3> HIDE DEF src
      <3> QED
        BY <1>4, <1>5, <3>1
    <2> QED
      BY <1>3, <2>1, <2>2
  <1>6. \A n : source(n)' = src(n)
    BY <1>1 DEF source
  <1> HIDE DEF src
  <1> QED
    BY <1>1, <1>5, <1>6 DEF RowsDeclared, rowFor

\* Rows that are declared stay as they are while no unit is added.
LEMMA DeclaredStays == RowsDeclared /\ UNCHANGED <<sect, cus>> => RowsDeclared'
  <1> SUFFICES ASSUME RowsDeclared, UNCHANGED <<sect, cus>> PROVE RowsDeclared'
    OBVIOUS
  <1>1. \A n : source(n)' = source(n)
    BY DEF source
  <1>2. \A n, k : rowFor(n, k)' = rowFor(n, k)
    BY <1>1 DEF rowFor
  <1> QED
    BY <1>1, <1>2 DEF RowsDeclared

LEMMA DecodedStep == IInv /\ Decoded /\ RowsDeclared /\ [Next]_vars => Decoded' /\ RowsDeclared'
  <1> SUFFICES ASSUME IInv, Decoded, RowsDeclared, [Next]_vars PROVE Decoded' /\ RowsDeclared'
    OBVIOUS
  <1>1. CASE UNCHANGED vars
    <2>1. /\ unit' = unit /\ sect' = sect /\ at' = at /\ rows' = rows /\ paths' = paths
          /\ sm' = sm /\ off' = off /\ cus' = cus
      BY <1>1 DEF vars, unit
    <2>2. pc' = pc /\ \A k : RowOf(unit, k)' = RowOf(unit, k)
      BY <2>1 DEF pc, RowOf
    <2> HIDE DEF pc
    <2> QED
      BY <2>1, <2>2, DeclaredStays DEF Decoded, RowOf
  <1>2. CASE Throw
    <2>1. cus' = <<>> /\ at' = "thrown"
      BY <1>2 DEF Throw
    <2> QED
      BY <2>1 DEF Decoded, RowsDeclared
  <1>3. CASE Built \/ DivideByZero
    <2>1. at' \in {"built", "undefined"} /\ UNCHANGED <<sect, cus>>
      BY <1>3 DEF Built, DivideByZero
    <2> QED
      BY <2>1, DeclaredStays DEF Decoded
  <1>4. CASE FinishUnit
    <2>1. Decoded'
      BY <1>4 DEF FinishUnit, Decoded
    <2> QED
      BY <1>4, <2>1, DeclaredUnit
  <1>5. CASE ReadHeader
    <2>1. UNCHANGED <<sect, cus>>
      BY <1>5 DEF ReadHeader
    <2> QED
      BY <1>5, <2>1, DeclaredStays, DecodedHeader
  <1>6. ASSUME NEW kinds, Fetch(kinds) PROVE RowsDeclared'
    BY <1>6, DeclaredStays DEF Fetch
  <1>7. CASE DefineFile
    <2>1. Fetch({"define_file"})
      BY <1>7 DEF DefineFile
    <2>2. unit.prog[pc].op = "define_file" /\ pc \in DOMAIN unit.prog /\ unit' = unit
      BY <2>1, Turn
    <2>3. ~Straight(sect', unit')
      BY <2>2 DEF Straight
    <2>4. Decoded'
      BY <2>3 DEF Decoded
    <2> QED
      BY <1>6, <2>1, <2>4
  <1>8. CASE Special \/ Copy \/ EndSequence
    <2>1. \E kinds : Fetch(kinds)
      BY <1>8 DEF Special, Copy, EndSequence
    <2> QED
      BY <1>6, <1>8, <2>1, DecodedSpecial, DecodedCopy
  <1>9. CASE \/ AdvancePC \/ ConstAddPC \/ FixedAdvancePC \/ SetAddress
             \/ AdvanceLine \/ SetFile \/ SetDiscriminator \/ SetRegister \/ NegateStmt \/ SetFlag
    <2>1. \E kinds : Fetch(kinds)
      BY <1>9 DEF AdvancePC, ConstAddPC, FixedAdvancePC, SetAddress, AdvanceLine, SetFile,
                  SetDiscriminator, SetRegister, NegateStmt, SetFlag
    <2> QED
      BY <1>6, <1>9, <2>1, DecodedAdvancePC, DecodedAddress, DecodedRegisters
  <1> QED
    BY <1>1, <1>2, <1>3, <1>4, <1>5, <1>7, <1>8, <1>9 DEF Next, HeaderThrows, ProgramThrows

\* The rows of every unit are those its program declares, one for each opcode
\* that records one, each with the flags that the code leaves set, for any
\* program and any number of units in any order: runSM() and readHeader() leave
\* nothing else of one unit, or of one row, to the next.
THEOREM RowsAreDeclared == Spec => []RowsDeclared
  <1>1. Init => Decoded /\ RowsDeclared
    BY DEF Init, Decoded, RowsDeclared
  <1>2. Spec => [](IInv /\ Decoded /\ RowsDeclared)
    BY <1>1, InitInv, DecodedStep, Invariance, PTL DEF Spec
  <1> QED
    BY <1>2, PTL

(***************************************************************************)
(* What gel-line prints.                                                   *)
(***************************************************************************)
\* A lookup answers a row that is printed.
LEMMA FoundIsListed ==
  ASSUME NEW us, NEW a
  PROVE  ListingHolds(us, a)
  <1>1. ASSUME NEW m \in lineAt(us, a) PROVE m \in listCode(us)
    <2>0. PICK n \in First(unitsAt(us, a)) : \E i \in First(rowsAt(us[n], a)) : m = <<n, i>>
      BY DEF lineAt
    <2>1. PICK i \in First(rowsAt(us[n], a)) : m = <<n, i>>
      BY <2>0
    <2>2. n \in DOMAIN us /\ i \in 1..(Len(us[n].lines) - 1)
      BY <2>1 DEF First, unitsAt, rowsAt
    <2> DEFINE listed(x) == {x} \X (1..(Len(us[x].lines) - 1))
    <2>3. m \in listed(n)
      BY <2>1, <2>2
    <2>4. listCode(us) = UNION {listed(x) : x \in DOMAIN us}
      BY DEF listCode
    <2> HIDE DEF listed
    <2> QED
      BY <2>2, <2>3, <2>4
  <1> QED
    BY <1>1 DEF ListingHolds

\* The lines of a file are numbers, row by row and unit by unit.
LEMMA LinesType ==
  ASSUME NEW table, NEW N \in Nat, Len(table) = N, \A i \in 1..N : table[i].line \in Int, NEW file
  PROVE  linesOf(table, file) \in Seq(Int)
  <1> DEFINE T == Seq(Int)
             is(i) == i < N /\ table[i].file = file
             step == [i \in 1..N |-> [x \in T |-> IF is(i) THEN Append(x, table[i].line) ELSE x]]
  <1>1. ASSUME NEW i \in 1..N, NEW x \in T
        PROVE  (IF is(i) THEN Append(x, table[i].line) ELSE x) \in T
    OBVIOUS
  <1>2. Steps(N, T, step)
    <2> HIDE DEF T, is
    <2> QED
      BY <1>1 DEF Steps
  <1>3. PICK g : Turns(N, T, <<>>, step, g)
    <2>1. <<>> \in T
      OBVIOUS
    <2> HIDE DEF T, step
    <2> QED
      BY <1>2, <2>1, Loop
  <1>4. \A i \in 1..N : g[i - 1] \in T /\ g[i] = IF is(i) THEN Append(g[i - 1], table[i].line) ELSE g[i - 1]
    <2>1. ASSUME NEW i \in 1..N PROVE i - 1 \in 0..N
      OBVIOUS
    <2> HIDE DEF T, is
    <2> QED
      BY <1>3, <2>1 DEF Turns
  <1>5. g = [i \in 0..N |-> IF i = 0 THEN <<>>
                            ELSE IF i < N /\ table[i].file = file THEN Append(g[i - 1], table[i].line)
                            ELSE g[i - 1]]
    <2>1. g = [i \in 0..N |-> g[i]] /\ g[0] = <<>>
      <3> HIDE DEF T, step
      <3> QED
        BY <1>3 DEF Turns
    <2>2. ASSUME NEW i \in 0..N
          PROVE  g[i] = IF i = 0 THEN <<>>
                        ELSE IF i < N /\ table[i].file = file THEN Append(g[i - 1], table[i].line)
                        ELSE g[i - 1]
      <3>1. CASE i = 0
        BY <2>1, <3>1
      <3>2. CASE i # 0
        <4>1. i \in 1..N
          BY <3>2
        <4> QED
          BY <1>4, <3>2, <4>1
      <3> QED
        BY <3>1, <3>2
    <2> QED
      BY <2>1, <2>2, Zenon
  <1> DEFINE Loops(h) == h = [i \in 0..Len(table) |->
                                IF i = 0 THEN <<>>
                                ELSE IF i < Len(table) /\ table[i].file = file
                                     THEN Append(h[i - 1], table[i].line)
                                ELSE h[i - 1]]
             s == CHOOSE h : Loops(h)
  <1>6. Loops(s)
    <2>1. Loops(g)
      BY <1>5
    <2> HIDE DEF Loops
    <2> QED
      BY <2>1
  <1>7. linesOf(table, file) = s[N]
    BY DEF linesOf
  <1> HIDE DEF s
  <1>8. s[0] = <<>> /\ \A i \in 1..N : s[i] = IF is(i) THEN Append(s[i - 1], table[i].line) ELSE s[i - 1]
    <2>1. \A i \in 1..N : i \in 0..N /\ i # 0
      OBVIOUS
    <2>2. s = [i \in 0..N |-> IF i = 0 THEN <<>>
                              ELSE IF is(i) THEN Append(s[i - 1], table[i].line) ELSE s[i - 1]]
      BY <1>6
    <2>3. ASSUME NEW i \in 1..N
          PROVE  s[i] = IF is(i) THEN Append(s[i - 1], table[i].line) ELSE s[i - 1]
      <3> HIDE DEF is
      <3> QED
        BY <2>1, <2>2, Zenon
    <2>4. 0 \in 0..N /\ 0 = 0
      OBVIOUS
    <2>5. s[0] = <<>>
      <3> HIDE DEF is
      <3> QED
        BY <2>2, <2>4, Zenon
    <2> HIDE DEF is
    <2> QED
      BY <2>3, <2>5, Zenon
  <1>9. s[N] \in T
    <2> DEFINE P == {i \in 0..N : s[i] \in T}
    <2>0. 0 \in 0..N /\ <<>> \in T
      OBVIOUS
    <2>1. 0 \in P
      <3> HIDE DEF T
      <3> QED
        BY <1>8, <2>0, Zenon
    <2>2. ASSUME NEW i \in 1..N, i - 1 \in P PROVE i \in P
      <3>1. s[i - 1] \in T /\ i \in 0..N
        BY <2>2
      <3> HIDE DEF T, is
      <3> QED
        BY <1>1, <1>8, <3>1
    <2> HIDE DEF P
    <2>3. 0..N \subseteq P
      BY <2>1, <2>2, Upward
    <2> QED
      BY <2>3 DEF P
  <1> QED
    BY <1>7, <1>9

LEMMA CollectedType ==
  ASSUME NEW us, NEW units, NEW N \in Nat, Len(units) = N, NEW file,
         \A k \in 1..N : linesOf(us[units[k]].lines, file) \in Seq(Int)
  PROVE  collected(us, units, file) \in Seq(Int)
  <1> DEFINE T == Seq(Int)
             l(k) == linesOf(us[units[k]].lines, file)
             step == [k \in 1..N |-> [x \in T |-> x \o l(k)]]
  <1>1. ASSUME NEW k \in 1..N, NEW x \in T PROVE x \o l(k) \in T
    <2>1. l(k) \in Seq(Int)
      OBVIOUS
    <2> HIDE DEF l
    <2> QED
      BY <2>1
  <1>2. Steps(N, T, step)
    <2> HIDE DEF T, l
    <2> QED
      BY <1>1 DEF Steps
  <1>3. PICK g : Turns(N, T, <<>>, step, g)
    <2>1. <<>> \in T
      OBVIOUS
    <2> HIDE DEF T, step
    <2> QED
      BY <1>2, <2>1, Loop
  <1>4. \A k \in 1..N : g[k - 1] \in T /\ g[k] = g[k - 1] \o l(k)
    <2>1. ASSUME NEW k \in 1..N PROVE k - 1 \in 0..N
      OBVIOUS
    <2> HIDE DEF T, l
    <2> QED
      BY <1>3, <2>1 DEF Turns
  <1>5. g = [k \in 0..N |-> IF k = 0 THEN <<>> ELSE g[k - 1] \o linesOf(us[units[k]].lines, file)]
    <2>1. g = [k \in 0..N |-> g[k]] /\ g[0] = <<>>
      <3> HIDE DEF T, step
      <3> QED
        BY <1>3 DEF Turns
    <2>2. ASSUME NEW k \in 0..N
          PROVE  g[k] = IF k = 0 THEN <<>> ELSE g[k - 1] \o linesOf(us[units[k]].lines, file)
      <3>1. CASE k = 0
        BY <2>1, <3>1
      <3>2. CASE k # 0
        <4>1. k \in 1..N
          BY <3>2
        <4> QED
          BY <1>4, <3>2, <4>1
      <3> QED
        BY <3>1, <3>2
    <2> QED
      BY <2>1, <2>2, Zenon
  <1> DEFINE Loops(h) == h = [k \in 0..Len(units) |->
                                IF k = 0 THEN <<>> ELSE h[k - 1] \o linesOf(us[units[k]].lines, file)]
             s == CHOOSE h : Loops(h)
  <1>6. Loops(s)
    <2>1. Loops(g)
      BY <1>5
    <2> HIDE DEF Loops
    <2> QED
      BY <2>1
  <1>7. collected(us, units, file) = s[N]
    BY DEF collected
  <1> HIDE DEF s
  <1>8. s[0] = <<>> /\ \A k \in 1..N : s[k] = s[k - 1] \o l(k)
    <2>1. \A k \in 1..N : k \in 0..N /\ k # 0
      OBVIOUS
    <2>2. s = [k \in 0..N |-> IF k = 0 THEN <<>> ELSE s[k - 1] \o l(k)]
      BY <1>6
    <2>3. ASSUME NEW k \in 1..N PROVE s[k] = s[k - 1] \o l(k)
      <3> HIDE DEF l
      <3> QED
        BY <2>1, <2>2, Zenon
    <2>4. 0 \in 0..N /\ 0 = 0
      OBVIOUS
    <2>5. s[0] = <<>>
      <3> HIDE DEF l
      <3> QED
        BY <2>2, <2>4, Zenon
    <2> HIDE DEF l
    <2> QED
      BY <2>3, <2>5, Zenon
  <1>9. s[N] \in T
    <2> DEFINE P == {k \in 0..N : s[k] \in T}
    <2>0. 0 \in 0..N /\ <<>> \in T
      OBVIOUS
    <2>1. 0 \in P
      <3> HIDE DEF T
      <3> QED
        BY <1>8, <2>0, Zenon
    <2>2. ASSUME NEW k \in 1..N, k - 1 \in P PROVE k \in P
      <3>1. s[k - 1] \in T /\ k \in 0..N
        BY <2>2
      <3> HIDE DEF T, l
      <3> QED
        BY <1>1, <1>8, <3>1
    <2> HIDE DEF P
    <2>3. 0..N \subseteq P
      BY <2>1, <2>2, Upward
    <2> QED
      BY <2>3 DEF P
  <1> QED
    BY <1>7, <1>9

LEMMA IntMaxNat == IntMax \in Nat
  BY WidthsAssumption DEF IntMax

\* What the bounds of some lines say of a number: it is below min if it is below
\* all of them, and not above max if it is not above 0, or not above a line that
\* another before it does not exceed.
Bounded(q, n, b) ==
  /\ b \in [min : Int, max : Int]
  /\ \A x \in Int : x < b.min <=> x < IntMax /\ \A j \in 1..n : x < q[j]
  /\ \A x \in Int : x <= b.max <=>
       x <= 0 \/ \E j \in 1..n : x <= q[j] /\ \E i \in 1..(j - 1) : q[i] <= q[j]

LEMMA WidenLemma ==
  ASSUME NEW q \in Seq(Int), Printable(q), NEW n \in 1..Len(q), NEW b, Bounded(q, n - 1, b)
  PROVE  Bounded(q, n, widen(b, q[n]))
  <1> DEFINE c == widen(b, q[n])
             l == q[n]
  <1>1. /\ DOMAIN q = 1..Len(q) /\ Len(q) \in Nat /\ l \in Int /\ \A j \in 1..n : q[j] \in Int
        /\ IntMax \in Nat /\ l < IntMax
    BY IntMaxNat DEF Printable
  <1>2. 1..n = 1..(n - 1) \cup {n}
    OBVIOUS
  <1>3. /\ b \in [min : Int, max : Int]
        /\ \A x \in Int : x < b.min <=> x < IntMax /\ \A j \in 1..(n - 1) : x < q[j]
        /\ \A x \in Int : x <= b.max <=>
             x <= 0 \/ \E j \in 1..(n - 1) : x <= q[j] /\ \E i \in 1..(j - 1) : q[i] <= q[j]
    BY DEF Bounded
  <1>4. b.min \in Int /\ b.max \in Int
    BY <1>3
  <1>5. l < b.min <=> ~\E i \in 1..(n - 1) : q[i] <= l
    <2>1. l < b.min <=> \A j \in 1..(n - 1) : l < q[j]
      BY <1>1, <1>3
    <2>2. \A j \in 1..(n - 1) : l < q[j] <=> ~(q[j] <= l)
      BY <1>1, <1>2
    <2> HIDE DEF l
    <2> QED
      BY <2>1, <2>2
  <1>6. c = IF l < b.min THEN [b EXCEPT !.min = l]
            ELSE IF l > b.max THEN [b EXCEPT !.max = l] ELSE b
    BY DEF widen
  <1> HIDE DEF c, l
  <1>7. c \in [min : Int, max : Int]
    BY <1>1, <1>3, <1>6
  <1>8. ASSUME NEW x \in Int PROVE x < c.min <=> x < IntMax /\ \A j \in 1..n : x < q[j]
    <2>1. c.min = IF l < b.min THEN l ELSE b.min
      BY <1>3, <1>6
    <2>2. (\A j \in 1..n : x < q[j]) <=> (\A j \in 1..(n - 1) : x < q[j]) /\ x < l
      BY <1>2 DEF l
    <2>3. CASE l < b.min
      <3>1. ASSUME x < l PROVE x < b.min
        BY <1>1, <1>4, <2>3, <3>1
      <3> QED
        BY <1>3, <2>1, <2>2, <2>3, <3>1
    <2>4. CASE ~(l < b.min)
      <3>1. ASSUME x < b.min PROVE x < l
        BY <1>1, <1>4, <2>4, <3>1
      <3> QED
        BY <1>3, <2>1, <2>2, <2>4, <3>1
    <2> QED
      BY <2>3, <2>4
  <1>9. ASSUME NEW x \in Int
        PROVE  x <= c.max <=> x <= 0 \/ \E j \in 1..n : x <= q[j] /\ \E i \in 1..(j - 1) : q[i] <= q[j]
    <2>1. (\E j \in 1..n : x <= q[j] /\ \E i \in 1..(j - 1) : q[i] <= q[j]) <=>
            \/ \E j \in 1..(n - 1) : x <= q[j] /\ \E i \in 1..(j - 1) : q[i] <= q[j]
            \/ x <= l /\ \E i \in 1..(n - 1) : q[i] <= l
      BY <1>2 DEF l
    <2>2. CASE l < b.min
      <3>1. c.max = b.max
        BY <1>3, <1>6, <2>2
      <3> QED
        BY <1>3, <1>5, <2>1, <2>2, <3>1
    <2>3. CASE ~(l < b.min)
      <3>1. c.max = IF l > b.max THEN l ELSE b.max
        BY <1>3, <1>6, <2>3
      <3>2. x <= c.max <=> x <= b.max \/ x <= l
        BY <1>1, <1>4, <3>1
      <3> QED
        BY <1>3, <1>5, <2>1, <2>3, <3>2
    <2> QED
      BY <2>2, <2>3
  <1> QED
    BY <1>7, <1>8, <1>9 DEF Bounded, c

LEMMA BoundsLemma ==
  ASSUME NEW q \in Seq(Int), Printable(q)
  PROVE  Bounded(q, Len(q), bounds(q))
  <1> DEFINE N == Len(q)
             T == [min : Int, max : Int]
             start == [min |-> IntMax, max |-> 0]
             step == [n \in 1..N |-> [x \in T |-> widen(x, q[n])]]
  <1>1. N \in Nat /\ \A n \in 1..N : q[n] \in Int
    OBVIOUS
  <1>2. ASSUME NEW n \in 1..N, NEW x \in T PROVE widen(x, q[n]) \in T
    BY <1>1 DEF widen
  <1>3. start \in T
    BY IntMaxNat
  <1>4. Steps(N, T, step)
    <2> HIDE DEF T, N
    <2> QED
      BY <1>2 DEF Steps
  <1>5. PICK g : Turns(N, T, start, step, g)
    <2> HIDE DEF T, N, start, step
    <2> QED
      BY <1>1, <1>3, <1>4, Loop
  <1>6. \A n \in 1..N : g[n] = widen(g[n - 1], q[n])
    <2>1. ASSUME NEW n \in 1..N PROVE n - 1 \in 0..N
      BY <1>1
    <2> HIDE DEF T, N
    <2> QED
      BY <1>5, <2>1 DEF Turns
  <1>7. g = [n \in 0..N |-> IF n = 0 THEN [min |-> IntMax, max |-> 0] ELSE widen(g[n - 1], q[n])]
    <2> HIDE DEF T, N, step
    <2> QED
      BY <1>1, <1>5, <1>6 DEF Turns
  <1> DEFINE Loops(h) == h = [n \in 0..Len(q) |->
                                IF n = 0 THEN [min |-> IntMax, max |-> 0] ELSE widen(h[n - 1], q[n])]
             s == CHOOSE h : Loops(h)
  <1>8. Loops(s)
    <2>1. Loops(g)
      BY <1>7
    <2> HIDE DEF Loops
    <2> QED
      BY <2>1
  <1>9. bounds(q) = s[N]
    BY DEF bounds
  <1> HIDE DEF s
  <1>10. s[0] = start /\ \A n \in 1..N : s[n] = widen(s[n - 1], q[n])
    BY <1>1, <1>8
  <1>11. Bounded(q, 0, start)
    BY <1>3, IntMaxNat DEF Bounded
  <1>12. Bounded(q, N, s[N])
    <2> DEFINE P == {n \in 0..N : Bounded(q, n, s[n])}
    <2>1. 0 \in P
      BY <1>1, <1>10, <1>11
    <2>2. ASSUME NEW n \in 1..N, n - 1 \in P PROVE n \in P
      <3>1. Bounded(q, n - 1, s[n - 1]) /\ n \in 0..N
        BY <1>1, <2>2
      <3> QED
        BY <1>10, <3>1, WidenLemma
    <2> HIDE DEF P
    <2>3. 0..N \subseteq P
      BY <1>1, <2>1, <2>2, Upward
    <2> QED
      BY <1>1, <2>3 DEF P
  <1> QED
    BY <1>9, <1>12

\* The lines that listFiles() leaves out.
LEMMA MissesLemma ==
  ASSUME NEW q \in Seq(Int), Printable(q)
  PROVE  ListingMissesOf(q)
  <1> SUFFICES ASSUME NEW m \in DOMAIN q
               PROVE  q[m] \notin listFiles(q) <=> q[m] > 0 /\ OnlyDescends(q, q[m])
    BY DEF ListingMissesOf
  <1> DEFINE b == bounds(q)
             l == q[m]
  <1>1. DOMAIN q = 1..Len(q) /\ \A j \in 1..Len(q) : q[j] \in Int
    OBVIOUS
  <1>2. Bounded(q, Len(q), b)
    BY BoundsLemma
  <1> HIDE DEF b, l
  <1>3. l \in Int /\ b.min \in Int /\ b.max \in Int
    BY <1>1, <1>2 DEF Bounded, l
  <1>4. b.min <= l
    <2>1. ~(l < l)
      BY <1>3
    <2>2. ~(l < b.min)
      BY <1>1, <1>2, <1>3, <2>1 DEF Bounded, l
    <2> QED
      BY <1>3, <2>2
  <1>5. l \in listFiles(q) <=> l <= b.max
    BY <1>4 DEF listFiles, l, b
  <1>6. l <= b.max <=> l <= 0 \/ \E j \in 1..Len(q) : l <= q[j] /\ \E i \in 1..(j - 1) : q[i] <= q[j]
    BY <1>2, <1>3 DEF Bounded
  <1>7. OnlyDescends(q, l) <=>
          ~\E j \in 1..Len(q) : l <= q[j] /\ \E i \in 1..(j - 1) : q[i] <= q[j]
    <2>1. ASSUME NEW j \in 1..Len(q), NEW i \in 1..(j - 1) PROVE q[i] > q[j] <=> ~(q[i] <= q[j])
      <3>1. i \in 1..Len(q)
        BY <1>1
      <3> QED
        BY <1>1, <3>1
    <2>2. \A j \in 1..Len(q) : q[j] >= l <=> l <= q[j]
      BY <1>1, <1>3
    <2> QED
      BY <1>1, <2>1, <2>2 DEF OnlyDescends
  <1>8. l > 0 <=> ~(l <= 0)
    BY <1>3
  <1> QED
    BY <1>5, <1>6, <1>7, <1>8 DEF l

\* A finished table is listed by files whose units are all finished.
LEMMA ListedUnits ==
  ASSUME IInv, Counted, at = "built", NEW p \in DOMAIN files, NEW k \in DOMAIN files[p]
  PROVE  files[p][k] \in DOMAIN cus
  <1> DEFINE q == files[p]
             n == q[k]
  <1>1. q \in Seq(Nat) /\ paths = <<>>
    BY DEF IInv, TypeOK, Idle
  <1> HIDE DEF q
  <1>2. n \in Nat
    BY <1>1, SeqElement DEF q
  <1>3. Times(q, n) # 0
    <2> DEFINE I == {i \in DOMAIN q : q[i] = n}
    <2>1. IsFiniteSet(I)
      BY <1>1, TimesNat
    <2>2. k \in I
      BY DEF q
    <2>3. Cardinality(I) # 0
      <3> HIDE DEF I
      <3> QED
        BY <2>1, <2>2, FS_EmptySet
    <2> QED
      BY <2>3 DEF Times
  <1>4. Times(q, cur) = 0
    <2>1. Times(q, cur) = Times(paths, p)
      BY DEF Counted, q
    <2> QED
      BY <1>1, <2>1, TimesEmpty
  <1>5. \A x \in Nat : x \notin DOMAIN cus \cup {cur} => Times(q, x) = 0
    BY DEF Counted, q
  <1>6. n \in DOMAIN cus
    BY <1>2, <1>3, <1>4, <1>5
  <1> QED
    BY <1>6 DEF q

\* The lines that gel-line -l collects for a source file are numbers.
LEMMA CollectedLines ==
  ASSUME IInv, Counted, at = "built", NEW p \in DOMAIN files
  PROVE  collected(cus, files[p], p) \in Seq(Int)
  <1> DEFINE units == files[p]
  <1>1. units \in Seq(Nat)
    BY DEF IInv, TypeOK
  <1>2. DOMAIN units = 1..Len(units) /\ Len(units) \in Nat
    BY <1>1
  <1>3. ASSUME NEW k \in 1..Len(units) PROVE linesOf(cus[units[k]].lines, p) \in Seq(Int)
    <2> DEFINE q == cus[units[k]].lines
    <2>1. units[k] \in DOMAIN cus
      BY <1>2, ListedUnits
    <2>2. q \in Seq(RowType)
      <3> HIDE DEF units
      <3> QED
        BY <2>1, UnitType DEF IInv, CuType
    <2> HIDE DEF q
    <2>3. Len(q) \in Nat /\ DOMAIN q = 1..Len(q)
      BY <2>2
    <2>4. ASSUME NEW i \in 1..Len(q) PROVE q[i].line \in Int
      <3>1. q[i] \in RowType
        BY <2>2, <2>3, SeqElement
      <3> QED
        BY <3>1, Widths DEF RowType
    <2>5. linesOf(q, p) \in Seq(Int)
      BY <2>3, <2>4, LinesType
    <2> QED
      BY <2>5 DEF q
  <1> HIDE DEF units
  <1>4. collected(cus, units, p) \in Seq(Int)
    BY <1>2, <1>3, CollectedType
  <1> QED
    BY <1>4 DEF units

\* gel-line -l leaves out the lines that the rows of a file only descend to and
\* no other, whatever the tables are, and gel-line -c prints every row that
\* lineAt() finds.
THEOREM ListingIsKnown == Spec => []ListingMisses
  <1>1. ASSUME IInv, Counted PROVE ListingMisses
    <2>1. ASSUME at = "built", NEW p \in DOMAIN files, Printable(collected(cus, files[p], p))
          PROVE  ListingMissesOf(collected(cus, files[p], p))
      <3>1. collected(cus, files[p], p) \in Seq(Int)
        BY <1>1, <2>1, CollectedLines
      <3> QED
        BY <2>1, <3>1, MissesLemma
    <2>2. \A a \in Addresses : ListingHolds(cus, a)
      BY FoundIsListed
    <2> QED
      BY <2>1, <2>2 DEF ListingMisses
  <1> QED
    BY <1>1, CountedAlways, PTL

(***************************************************************************)
(* The constructor goes on.                                                *)
(***************************************************************************)
\* The unit under way was read from bytes that the cursor has left behind.
Ahead == at = "program" /\ Onward(sect) => unit.head < off

\* An opcode leads the cursor on.
LEMMA LeadsOn ==
  ASSUME TypeOK, Onward(sect), NEW kinds, Fetch(kinds)
  PROVE  off < off' /\ off \in Nat /\ off' \in 0..sect.size /\ sect.size \in Nat
  <1>1. /\ from \in DOMAIN sect.units /\ Laid(sect, unit) /\ sect.size \in Nat
        /\ pc \in DOMAIN unit.prog /\ off' \in 0..sect.size /\ WellShaped(unit)
    BY OpLemma
  <1> DEFINE o == unit.prog[pc]
             n == o.body + o.len
             to == AsInt(n % Mod32)
  <1>2. o.off = off
    <2>1. DOMAIN unit.prog = 1..Len(unit.prog) /\ Len(unit.prog) \in Nat
      BY <1>1 DEF WellShaped
    <2>2. Len(unit.prog) + 1 \notin DOMAIN unit.prog
      BY <2>1
    <2>3. {k \in DOMAIN unit.prog : unit.prog[k].off = off} # {}
      BY <1>1, <2>2 DEF pc, place
    <2>4. \A S : S # {} => (CHOOSE k \in S : TRUE) \in S
      OBVIOUS
    <2>5. pc \in {k \in DOMAIN unit.prog : unit.prog[k].off = off}
      BY <2>3, <2>4 DEF pc, place
    <2> QED
      BY <2>5
  <1>3. /\ o.off \in Nat /\ o.end \in Nat /\ o.off < o.end
        /\ o.op \in Extended => /\ o.body \in Nat /\ o.len \in Nat /\ o.off < o.body /\ n < Mod32
    BY <1>1 DEF Laid, Onward, unit
  <1>4. off' = IF o.op \notin Extended THEN o.end ELSE IF to \in 0..sect.size THEN to ELSE o.end
    BY DEF Fetch, after
  <1> HIDE DEF o
  <1>5. ASSUME o.op \in Extended, to \in 0..sect.size PROVE off < to
    <2>1. n \in Nat /\ n < Mod32 /\ o.body <= n
      BY <1>3, <1>5
    <2> HIDE DEF n
    <2>2. n % Mod32 = n
      BY <2>1, Widths
    <2>3. to = n
      <3>1. to = IF n < Half32 THEN n ELSE n - Mod32
        BY <2>2 DEF AsInt
      <3>2. to >= 0
        BY <1>5
      <3> HIDE DEF to
      <3> QED
        BY <2>1, <3>1, <3>2, Widths
    <2> HIDE DEF to
    <2> QED
      BY <1>2, <1>3, <1>5, <2>1, <2>3
  <1> HIDE DEF to
  <1> QED
    BY <1>1, <1>2, <1>3, <1>4, <1>5

\* What is left is a pair of numbers.
LEMMA LeftType ==
  ASSUME TypeOK, Ahead, Onward(sect)
  PROVE  /\ sect.size \in Nat /\ off \in Nat /\ sect.size - off \in Nat
         /\ at = "program" => /\ unit.head \in Nat /\ unit.head < off
                              /\ sect.size - unit.head \in Nat /\ 0 < sect.size - unit.head
                              /\ Laid(sect, unit) /\ from \in DOMAIN sect.units
  <1>1. off \in 0..sect.size /\ sect.size \in Nat
    BY SectionsAssumption DEF TypeOK
  <1>2. ASSUME at = "program"
        PROVE  unit.head \in Nat /\ unit.head < off /\ Laid(sect, unit) /\ from \in DOMAIN sect.units
    <2>1. from \in DOMAIN sect.units
      BY <1>2 DEF TypeOK
    <2>2. Laid(sect, unit)
      BY <2>1, UnitShape DEF unit
    <2> QED
      BY <1>2, <2>1, <2>2 DEF Ahead, Laid
  <1> QED
    BY <1>1, <1>2

\* Where a unit starts its program and ends, if no length wraps.
LEMMA UnitLeads ==
  ASSUME TypeOK, Onward(sect), NEW n \in DOMAIN sect.units
  PROVE  /\ sect.units[n].head < programAt(sect, sect.units[n])
         /\ sect.units[n].head < endOf(sect.units[n])
         /\ programAt(sect, sect.units[n]) \in 0..sect.size /\ endOf(sect.units[n]) \in Nat
  <1> DEFINE u == sect.units[n]
             l == u.lead + u.headerLength
             e == u.body + u.length
  <1>1. /\ u.head \in Nat /\ u.body \in Nat /\ u.lead \in Nat /\ u.tables \in Nat
        /\ u.length \in Nat /\ u.headerLength \in Nat
        /\ u.head < u.body /\ u.body <= u.lead /\ u.lead <= u.tables
        /\ Laid(sect, u) /\ sect.size \in Nat
    BY UnitShape DEF Laid
  <1>2. l < Mod64 /\ e < Mod64
    BY DEF Onward
  <1>3. programAt(sect, u) \in 0..sect.size /\ endOf(u) \in Nat
    BY <1>1, ProgramInside
  <1>4. linesAt(u) = l % Mod64 /\ endOf(u) = e % Mod64
    BY DEF linesAt, endOf
  <1>5. programAt(sect, u) \in {linesAt(u), u.tables}
    BY DEF programAt
  <1> HIDE DEF u
  <1>6. l \in Nat /\ e \in Nat /\ u.lead <= l /\ u.body <= e
    BY <1>1
  <1> HIDE DEF l, e
  <1>7. l % Mod64 = l /\ e % Mod64 = e
    BY <1>2, <1>6, Widths
  <1>8. u.head < programAt(sect, u) /\ u.head < endOf(u)
    BY <1>1, <1>4, <1>5, <1>6, <1>7
  <1> QED
    BY <1>3, <1>8 DEF u

\* What a step does to the cursor.
LEMMA WhereItGoes ==
  ASSUME Next
  PROVE  \/ at \in {"unit", "program"} /\ at' \notin {"unit", "program"} /\ sect' = sect
         \/ ReadHeader /\ at' = "program"
         \/ FinishUnit
         \/ /\ at' = "program" /\ from' = from /\ sect' = sect /\ at = "program"
            /\ \E kinds : Fetch(kinds)
  <1>1. ASSUME NEW kinds, Fetch(kinds), at' \in {at, "program", "undefined"}
        PROVE  \/ at = "program" /\ at' = "undefined" /\ sect' = sect
               \/ /\ at' = "program" /\ from' = from /\ sect' = sect /\ at = "program"
                  /\ \E k : Fetch(k)
    BY <1>1 DEF Fetch, Running
  <1>2. CASE ReadHeader
    BY <1>2 DEF ReadHeader, addTable
  <1>3. CASE HeaderThrows \/ Built \/ ProgramThrows \/ DivideByZero
    BY <1>3 DEF HeaderThrows, Built, ProgramThrows, DivideByZero, Throw, Running
  <1>4. CASE Special \/ Copy \/ EndSequence
    <2>1. \E kinds : Fetch(kinds)
      BY <1>4 DEF Special, Copy, EndSequence
    <2>2. at' \in {at, "undefined"}
      BY <1>4 DEF Special, Copy, EndSequence, Records, recordLine
    <2> QED
      BY <1>1, <2>1, <2>2
  <1>5. CASE DefineFile
    BY <1>1, <1>5 DEF DefineFile, addTable
  <1>6. CASE \/ AdvancePC \/ ConstAddPC \/ FixedAdvancePC \/ SetAddress
             \/ AdvanceLine \/ SetFile \/ SetDiscriminator \/ SetRegister \/ NegateStmt \/ SetFlag
    <2>1. at' = at /\ \E kinds : Fetch(kinds)
      BY <1>6 DEF AdvancePC, ConstAddPC, FixedAdvancePC, SetAddress, AdvanceLine, SetFile,
                  SetDiscriminator, SetRegister, NegateStmt, SetFlag, Sets
    <2> QED
      BY <1>1, <2>1
  <1> QED
    BY <1>2, <1>3, <1>4, <1>5, <1>6 DEF Next

\* A header that is read, and a unit that is finished.
LEMMA HeaderLeads ==
  ASSUME TypeOK, Onward(sect), ReadHeader
  PROVE  at = "unit" /\ sect' = sect /\ unit'.head = off /\ unit'.head < off' /\ off' \in 0..sect.size
  <1>1. PICK n \in readable : from' = n /\ off' = programAt(sect, sect.units[n])
    BY DEF ReadHeader
  <1>2. at = "unit" /\ sect' = sect /\ unit' = sect.units[n] /\ n \in DOMAIN sect.units
    BY <1>1 DEF ReadHeader, unit, readable
  <1>3. sect.units[n].head = off
    BY <1>1 DEF readable
  <1> QED
    BY <1>1, <1>2, <1>3, UnitLeads

LEMMA UnitEnds ==
  ASSUME TypeOK, Ahead, Onward(sect), FinishUnit
  PROVE  at = "program" /\ at' = "unit" /\ sect' = sect /\ unit.head < off' /\ off' \in 0..sect.size
  <1>1. /\ at = "program" /\ at' = "unit" /\ sect' = sect
        /\ off' = IF endOf(unit) <= sect.size THEN endOf(unit) ELSE off
    BY DEF FinishUnit
  <1>2. unit.head < off /\ from \in DOMAIN sect.units /\ off \in 0..sect.size /\ sect.size \in Nat
    BY <1>1, LeftType DEF TypeOK
  <1>3. unit.head < endOf(unit) /\ endOf(unit) \in Nat
    BY <1>2, UnitLeads DEF unit
  <1> QED
    BY <1>1, <1>2, <1>3

LEMMA AheadStep == IInv /\ Ahead /\ [Next]_vars => Ahead'
  <1>1. ASSUME IInv, Ahead, UNCHANGED vars PROVE Ahead'
    BY <1>1 DEF vars, unit, Ahead
  <1>2. ASSUME IInv, Ahead, Next PROVE Ahead'
    <2> SUFFICES ASSUME at' = "program", Onward(sect') PROVE unit'.head < off'
      BY DEF Ahead
    <2>1. TypeOK
      BY <1>2 DEF IInv
    <2>2. CASE ReadHeader
      <3>1. sect' = sect
        BY <2>2 DEF ReadHeader
      <3> QED
        BY <2>1, <2>2, <3>1, HeaderLeads
    <2>3. CASE /\ at' = "program" /\ from' = from /\ sect' = sect /\ at = "program"
               /\ \E kinds : Fetch(kinds)
      <3>1. off < off' /\ off \in Nat /\ off' \in Nat
        BY <2>1, <2>3, LeadsOn
      <3>2. unit.head < off /\ unit.head \in Nat /\ unit' = unit
        BY <1>2, <2>1, <2>3, LeftType DEF unit
      <3> QED
        BY <3>1, <3>2
    <2>4. ~FinishUnit
      BY DEF FinishUnit
    <2> QED
      BY <1>2, <2>2, <2>3, <2>4, WhereItGoes
  <1> QED
    BY <1>1, <1>2

\* Each turn of the two loops leaves less to read, on any section whose lengths
\* do not wrap: readHeader() and runSM() take the cursor on, and no unit brings
\* it back behind its own header, wherever header_length, the lengths of the
\* opcodes and that of the unit lead.
THEOREM ReadingDescends == Spec => ReadingShrinks
  <1>1. ASSUME IInv, Ahead, Onward(sect), Next
        PROVE  Lowers(ReadingLeft', ReadingLeft)
    <2>1. TypeOK
      BY <1>1 DEF IInv
    <2>2. sect.size \in Nat /\ off \in Nat /\ sect.size - off \in Nat
      BY <1>1, <2>1, LeftType
    <2>3. CASE at \in {"unit", "program"} /\ at' \notin {"unit", "program"} /\ sect' = sect
      <3>1. ReadingLeft' = <<0, 0>>
        BY <2>3 DEF ReadingLeft
      <3>2. CASE at = "unit"
        <4>1. ReadingLeft = <<sect.size - off, sect.size + 1>>
          BY <3>2 DEF ReadingLeft
        <4>2. 0 < sect.size + 1 /\ (0 < sect.size - off \/ 0 = sect.size - off)
          BY <2>2
        <4> QED
          BY <3>1, <4>1, <4>2 DEF Lowers, Lower
      <3>3. CASE at = "program"
        <4>1. ReadingLeft = <<sect.size - unit.head, sect.size - off>>
          BY <3>3 DEF ReadingLeft
        <4>2. 0 < sect.size - unit.head
          BY <1>1, <2>1, <3>3, LeftType
        <4> QED
          BY <3>1, <4>1, <4>2 DEF Lowers, Lower
      <3> QED
        BY <2>3, <3>2, <3>3
    <2>4. CASE ReadHeader /\ at' = "program"
      <3>1. at = "unit" /\ sect' = sect /\ unit'.head = off /\ off' \in 0..sect.size
        BY <1>1, <2>1, <2>4, HeaderLeads
      <3>2. ReadingLeft = <<sect.size - off, sect.size + 1>>
        BY <3>1 DEF ReadingLeft
      <3>3. ReadingLeft' = <<sect.size - off, sect.size - off'>>
        BY <2>4, <3>1 DEF ReadingLeft
      <3>4. sect.size - off' \in Nat /\ sect.size - off' < sect.size + 1
        BY <2>2, <3>1
      <3> QED
        BY <2>2, <3>2, <3>3, <3>4 DEF Lowers, Lower
    <2>5. CASE FinishUnit
      <3>1. at = "program" /\ at' = "unit" /\ sect' = sect /\ unit.head < off' /\ off' \in 0..sect.size
        BY <1>1, <2>1, <2>5, UnitEnds
      <3>2. unit.head \in Nat
        BY <1>1, <2>1, <3>1, LeftType
      <3>3. ReadingLeft = <<sect.size - unit.head, sect.size - off>>
        BY <3>1 DEF ReadingLeft
      <3>4. ReadingLeft' = <<sect.size - off', sect.size + 1>>
        BY <3>1 DEF ReadingLeft
      <3>5. sect.size - off' \in Nat /\ sect.size + 1 \in Nat /\ sect.size - off' < sect.size - unit.head
        BY <2>2, <3>1, <3>2
      <3> QED
        BY <3>3, <3>4, <3>5 DEF Lowers, Lower
    <2>6. CASE /\ at' = "program" /\ from' = from /\ sect' = sect /\ at = "program"
               /\ \E kinds : Fetch(kinds)
      <3>1. off < off' /\ off' \in 0..sect.size
        BY <1>1, <2>1, <2>6, LeadsOn
      <3>2. unit' = unit /\ sect.size - unit.head \in Nat
        BY <1>1, <2>1, <2>6, LeftType DEF unit
      <3>3. ReadingLeft = <<sect.size - unit.head, sect.size - off>>
        BY <2>6 DEF ReadingLeft
      <3>4. ReadingLeft' = <<sect.size - unit.head, sect.size - off'>>
        BY <2>6, <3>2 DEF ReadingLeft
      <3>5. sect.size - off' \in Nat /\ sect.size - off' < sect.size - off
        BY <2>2, <3>1
      <3> QED
        BY <3>2, <3>3, <3>4, <3>5 DEF Lowers, Lower
    <2> QED
      BY <1>1, <2>3, <2>4, <2>5, <2>6, WhereItGoes
  <1>2. Init => Ahead
    BY DEF Init, Ahead
  <1>3. Spec => [](IInv /\ Ahead)
    BY <1>2, AheadStep, Invariance, PTL DEF Spec
  <1>4. IInv /\ Ahead /\ [Next]_vars => [Onward(sect) => Lowers(ReadingLeft', ReadingLeft)]_vars
    BY <1>1
  <1> QED
    BY <1>3, <1>4, PTL DEF ReadingShrinks, Spec
=============================================================================
