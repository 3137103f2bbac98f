----------------------------- MODULE MCElfFile -----------------------------
(* Small ELF files for ElfFile (the reserved null entry of section tables is
   left out).  `Sound` is the file the compiler makes; the others are what the
   exceptions of the code are for.                                           *)
EXTENDS ElfFile, TLC

\* .symtab, .strtab (also the section names), .dynsym, .dynstr, .dynamic
Linked ==
  [headers |-> {0, 1}, loads |-> {0}, sections |-> 1..5, symtabs |-> {1, 3},
   garbage |-> {}, dynamics |-> {5}, link |-> (1 :> 2 @@ 3 :> 4),
   lost |-> {}, stray |-> {}, shstrndx |-> 2, debug |-> <<>>, badDebug |-> FALSE]

\* .debug_line, .strtab, .debug_str, no header but loads
WithDebug ==
  [headers |-> {0}, loads |-> {0}, sections |-> 1..4, symtabs |-> {4},
   garbage |-> {}, dynamics |-> {}, link |-> (4 :> 2),
   lost |-> {}, stray |-> {}, shstrndx |-> 2, debug |-> <<1, 3>>, badDebug |-> FALSE]

\* a second symbol table that ends in garbage, debug lines that do not decode
Broken ==
  [headers |-> {0}, loads |-> {}, sections |-> 1..4, symtabs |-> {1, 3},
   garbage |-> {3}, dynamics |-> {}, link |-> (1 :> 2 @@ 3 :> 2),
   lost |-> {}, stray |-> {}, shstrndx |-> 2, debug |-> <<4>>, badDebug |-> TRUE]

\* a symbol table whose string table is not in the section table, and .dynamic
BadLink ==
  [headers |-> {}, loads |-> {}, sections |-> 1..4, symtabs |-> {1, 3},
   garbage |-> {}, dynamics |-> {4}, link |-> (1 :> 2 @@ 3 :> 9),
   lost |-> {}, stray |-> {}, shstrndx |-> 2, debug |-> <<>>, badDebug |-> FALSE]

\* e_shstrndx out of the section table: the constructor throws
NoNames ==
  [headers |-> {}, loads |-> {}, sections |-> {1}, symtabs |-> {},
   garbage |-> {}, dynamics |-> {}, link |-> <<>>,
   lost |-> {}, stray |-> {}, shstrndx |-> 4, debug |-> <<>>, badDebug |-> FALSE]

\* the last name is past the section names, and so is one of a symbol
Unnamed == [Linked EXCEPT !.lost = {5}, !.stray = {3}]

\* the malformed symbol table has such a name too
HalfNamed == [Broken EXCEPT !.lost = {3}]

Sound == {Linked, WithDebug}
All == Sound \cup {Broken, BadLink, NoNames, Unnamed, HalfNamed}
Dynamic == {Linked}
=============================================================================
