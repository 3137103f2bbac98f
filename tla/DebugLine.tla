----------------------------- MODULE DebugLine -----------------------------
(***************************************************************************)
(* The source-line tables of gel::DebugLine (gel_DebugLine.cpp), once they *)
(* are built, and the lookups in them.                                     *)
(*                                                                         *)
(* cus is the sequence of compilation units, each a record with the        *)
(* sequence `files` of its source files and the sequence `lines` of its    *)
(* rows; files maps each source file to the units of its list _units.      *)
(***************************************************************************)
EXTENDS Integers, Sequences, FiniteSets

baseAddress(cu) == cu.lines[1].addr
topAddress(cu) == cu.lines[Len(cu.lines)].addr

\* The least element of a set of naturals, as the singleton of it ({} for {}):
\* what a loop that returns at its first match returns.
First(S) == {x \in S : \A y \in S : x <= y}

\* Mutant: the loop stops one row too early.
rowsAtShort(cu, addr) ==
  {i \in 1..(Len(cu.lines) - 2) :
     cu.lines[i].addr <= addr /\ addr < cu.lines[i + 1].addr}

\* The rows of a unit whose code holds addr, CompilationUnit::lineAt() returning
\* the first one.
rowsAt(cu, addr) ==
  {i \in 1..(Len(cu.lines) - 1) :
     cu.lines[i].addr <= addr /\ addr < cu.lines[i + 1].addr}

\* baseAddress() and topAddress() read the first and last rows without asking
\* whether there are any.
LookupDefined(cus) == \A n \in DOMAIN cus : cus[n].lines # <<>>

unitsAt(cus, addr) ==
  {n \in DOMAIN cus : baseAddress(cus[n]) <= addr /\ addr < topAddress(cus[n])}

\* DebugLine::lineAt(): {<<unit, row>>}, or {} for the null pointer.
lineAt(cus, addr) ==
  UNION {{<<n, i>> : i \in First(rowsAt(cus[n], addr))} : n \in First(unitsAt(cus, addr))}

\* Mutant: the file is looked for in the next row.
findNext(cus, units, file, line) ==
  UNION {LET lines == cus[units[k]].lines IN
           {<<k, i>> : i \in {r \in 1..(Len(lines) - 1) :
                                lines[r + 1].file = file /\ lines[r].line = line}}
         : k \in DOMAIN units}

\* File::find(): the ranges added to addrs, each named by the position k of its
\* unit in _units and its row i.
find(cus, units, file, line) ==
  UNION {LET lines == cus[units[k]].lines IN
           {<<k, i>> : i \in {r \in 1..(Len(lines) - 1) :
                                lines[r].file = file /\ lines[r].line = line}}
         : k \in DOMAIN units}

(***************************************************************************)
(* What a lookup should mean.                                              *)
(***************************************************************************)
\* Rows of one sequence of instructions, in the order of their addresses.
Ascends(lines) == \A i, j \in DOMAIN lines : i <= j => lines[i].addr <= lines[j].addr

Covers(lines, i, addr) ==
  i + 1 \in DOMAIN lines /\ lines[i].addr <= addr /\ ~ lines[i + 1].addr <= addr
Covered(cus, addr) ==
  \E n \in DOMAIN cus : \E i \in DOMAIN cus[n].lines : Covers(cus[n].lines, i, addr)

\* lineAt() finds a row for the addresses that a row covers and for no other,
\* and this row is the only one of its unit that covers it.
LookupExactAt(cus, addr) ==
  /\ lineAt(cus, addr) # {} <=> Covered(cus, addr)
  /\ \A m \in lineAt(cus, addr) : \A i \in DOMAIN cus[m[1]].lines :
       Covers(cus[m[1]].lines, i, addr) <=> i = m[2]
=============================================================================
