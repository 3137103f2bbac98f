---------------------------- MODULE LineListing ----------------------------
(***************************************************************************)
(* What the command gel-line prints of the source-line tables of a file    *)
(* (gel-line.cpp): with -c the rows in the order of the code, and else,    *)
(* for each source file, its rows in the order of their lines.             *)
(***************************************************************************)
EXTENDS DwarfLine

IntMax == Half32 - 1    \* type_info<int>::max

\* listCode(): the rows printed, those before the last one of their unit.
listCode(us) == UNION {{n} \X (1..(Len(us[n].lines) - 1)) : n \in DOMAIN us}

\* The lines of the rows of a file in one unit, whose last row is the end of its
\* code, and in all its units in the order of _units.
linesOf(table, file) ==
  LET l[i \in 0..Len(table)] ==
        IF i = 0 THEN <<>>
        ELSE IF i < Len(table) /\ table[i].file = file THEN Append(l[i - 1], table[i].line)
        ELSE l[i - 1]
  IN l[Len(table)]
collected(us, units, file) ==
  LET c[k \in 0..Len(units)] ==
        IF k = 0 THEN <<>> ELSE c[k - 1] \o linesOf(us[units[k]].lines, file)
  IN c[Len(units)]

\* Mutant: a line equal to the lowest one so far does not raise the bound.
widenOrEqual(b, line) ==
  IF line <= b.min THEN [b EXCEPT !.min = line]
  ELSE IF line > b.max THEN [b EXCEPT !.max = line] ELSE b

\* The bounds of the lines: a line that lowers min is not compared with max.
widen(b, line) ==
  IF line < b.min THEN [b EXCEPT !.min = line]
  ELSE IF line > b.max THEN [b EXCEPT !.max = line] ELSE b

bounds(lines) ==
  LET b[n \in 0..Len(lines)] ==
        IF n = 0 THEN [min |-> IntMax, max |-> 0] ELSE widen(b[n - 1], lines[n])
  IN b[Len(lines)]

\* listFiles(): the lines of a file that are printed, each with all its rows.
listFiles(lines) ==
  {line \in {lines[i] : i \in DOMAIN lines} : bounds(lines).min <= line /\ line <= bounds(lines).max}

(***************************************************************************)
(* What the listing should mean.                                           *)
(***************************************************************************)
\* Every row from this line on is lower than all those before it.
OnlyDescends(lines, line) ==
  \A i \in DOMAIN lines : lines[i] >= line => \A j \in 1..(i - 1) : lines[j] > lines[i]

\* The lines of a file that are printed, and those that are not though they
\* have code: the ones above line 0 that the rows only ever descend to.
ListingMissesOf(lines) ==
  \A i \in DOMAIN lines :
    lines[i] \notin listFiles(lines) <=> lines[i] > 0 /\ OnlyDescends(lines, lines[i])

\* The loop up to the last line cannot count past the last integer.
Printable(lines) == \A i \in DOMAIN lines : lines[i] < IntMax

\* With -c, the row of any address is printed.
ListingHolds(us, addr) == lineAt(us, addr) \subseteq listCode(us)

\* gel-line -c prints the row of every address that has one.  gel-line -l prints
\* the lines of a source file, but not those that its rows only descend to
\* (gel-line.cpp:94), and those are the only ones it leaves out.
ListingMisses ==
  at = "built" =>
    /\ \A p \in DOMAIN files :
         LET lines == collected(cus, files[p], p) IN Printable(lines) => ListingMissesOf(lines)
    /\ LookupDefined(cus) => \A a \in Addresses : ListingHolds(cus, a)
=============================================================================
