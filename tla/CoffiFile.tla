----------------------------- MODULE CoffiFile -----------------------------
(***************************************************************************)
(* The lazy half of gel::coffi::File (coffi_File.cpp).  The COFFI library  *)
(* has read the whole file when the object is built: symbols() and         *)
(* debugLines() decode what is in memory, at the first call, and keep it.  *)
(*                                                                         *)
(* The objects made for a file are named by their sort, the opening of the *)
(* file they were made in and their index: the destructor leaves some.     *)
(***************************************************************************)
EXTENDS Naturals, Sequences

CONSTANTS
  CoffFiles,  \* the COFF files a behaviour may open
  MaxOpens    \* bound: how many times it is opened

SectionFlags == {"TEXT", "DATA", "BSS", "COPY"}

CoffShaped(f) ==
  /\ f.arch \in {"TI", "CEVA", "PE"}
  /\ f.sections \in Seq([flags : SUBSET SectionFlags, empty : BOOLEAN, debug : BOOLEAN])
  /\ f.symbols \in Seq([name : STRING, number : Nat, typed : BOOLEAN, label : BOOLEAN])
  /\ f.badDebug \in BOOLEAN                  \* .debug_line does not decode

VARIABLES
  coffFile,     \* what COFFI has read
  coffPhase,    \* "closed", "open", "aborted" (an ASSERT failed), "undefined"
  opens,        \* openings so far
  live,         \* objects that exist
  symNew,       \* _symtab # nullptr
  symtab,       \* *_symtab: the index of the symbol of each name
  keys,         \* the index of the symbol whose characters its key points to
  debugInit,    \* _debug_init
  debug,        \* _debug, as the index of its section; 0 for nullptr
  coffWatch,    \* history: the question whose answers are recorded, any one
  coffAnswers,  \* history: what this object answered to it
  raised        \* history: debugLines() has thrown

coffVars ==
  <<coffFile, coffPhase, opens, live, symNew, symtab, keys, debugInit, debug, coffWatch,
    coffAnswers, raised>>

Names(f) == {f.symbols[i].name : i \in DOMAIN f.symbols}
Questions(f) == ({"type"} \X Names(f)) \cup {<<"debugLines", "">>}

CoffInit ==
  /\ coffFile \in CoffFiles /\ CoffShaped(coffFile) /\ coffWatch \in Questions(coffFile)
  /\ coffPhase = "closed" /\ opens = 0 /\ live = {}
  /\ symNew = FALSE /\ symtab = <<>> /\ keys = <<>> /\ debugInit = FALSE /\ debug = 0
  /\ coffAnswers = {} /\ raised = FALSE

\* The objects of a sort and a set of indexes, in this opening.
Objects(sort, I) == {<<sort, opens, i>> : i \in I}

\* The constructor: a segment for each section that is neither empty nor of
\* another kind.
CoffOpen ==
  /\ coffPhase = "closed" /\ opens < MaxOpens
  /\ coffPhase' = "open" /\ opens' = opens + 1
  /\ live' = live
       \cup {<<"section", opens', i>> : i \in DOMAIN coffFile.sections}
       \cup {<<"segment", opens', i>> :
               i \in {j \in DOMAIN coffFile.sections :
                        /\ coffFile.sections[j].flags \cap {"TEXT", "DATA", "BSS"} # {}
                        /\ ~coffFile.sections[j].empty}}
  /\ UNCHANGED <<coffFile, symNew, symtab, keys, debugInit, debug, coffWatch, coffAnswers, raised>>

(***************************************************************************)
(* symbols().                                                              *)
(***************************************************************************)
\* Mutant: numbers count from 0.
containingFromZero(sym) ==
  IF sym.number + 1 \in DOMAIN coffFile.sections THEN coffFile.sections[sym.number + 1].flags ELSE {}

\* The flags of the section of a symbol; numbers count from 1, and the last one
\* is not less than the number of sections.
containing(sym) ==
  IF 0 < sym.number /\ sym.number < Len(coffFile.sections)
  THEN coffFile.sections[sym.number].flags ELSE {}

typeIn(sym, flags) ==
  CASE flags \cap {"DATA", "BSS", "COPY"} # {} -> "DATA"
    [] flags \cap {"DATA", "BSS", "COPY"} = {} /\ "TEXT" \in flags ->
         IF ~sym.typed THEN "OTHER_TYPE" ELSE IF sym.label THEN "LABEL" ELSE "FUNC"
    [] OTHER -> "NO_TYPE"

type(i) == typeIn(coffFile.symbols[i], containing(coffFile.symbols[i]))

CoffNamed(s) == {i \in DOMAIN coffFile.symbols : coffFile.symbols[i].name = s}
LastOf(s) == CHOOSE i \in CoffNamed(s) : \A j \in CoffNamed(s) : j <= i
FirstOf(s) == CHOOSE i \in CoffNamed(s) : \A j \in CoffNamed(s) : i <= j

\* Mutant: the symbol that is replaced is deleted.
putAllDeleting ==
  /\ symtab' = [s \in Names(coffFile) |-> LastOf(s)]
  /\ keys' = [s \in Names(coffFile) |-> FirstOf(s)]
  /\ live' = live \cup Objects("symbol", {LastOf(s) : s \in Names(coffFile)})

\* Mutant: symbols of no section are passed over.
putAllPlaced ==
  LET placed == {s \in Names(coffFile) : containing(coffFile.symbols[LastOf(s)]) # {}} IN
  /\ symtab' = [s \in placed |-> LastOf(s)]
  /\ keys' = [s \in placed |-> FirstOf(s)]
  /\ live' = live \cup Objects("symbol", DOMAIN coffFile.symbols)

\* _symtab->put() of each symbol in turn.  When the name is there the value is
\* replaced and the key stays, with the characters of the first symbol.
putAll ==
  /\ symtab' = [s \in Names(coffFile) |-> LastOf(s)]
  /\ keys' = [s \in Names(coffFile) |-> FirstOf(s)]
  /\ live' = live \cup Objects("symbol", DOMAIN coffFile.symbols)

CoffAnswer(q, val) == coffAnswers' = IF coffWatch = q THEN coffAnswers \cup {val} ELSE coffAnswers

\* A client looks its name up in the table that symbols() returns.
Lookup ==
  coffAnswers' = IF coffWatch[1] = "type" /\ coffWatch[2] \in DOMAIN symtab'
             THEN coffAnswers \cup {type(symtab'[coffWatch[2]])} ELSE coffAnswers

\* Section number 0 reads the section before the first: COFFI may give null.
BeforeFirst == \E i \in DOMAIN coffFile.symbols : coffFile.symbols[i].number = 0

CoffSymbols ==
  /\ coffPhase = "open"
  /\ symNew' = TRUE
  /\ \/ symNew /\ UNCHANGED <<coffPhase, live, symtab, keys>> /\ Lookup
     \/ /\ ~symNew /\ coffFile.arch = "TI"
        /\ putAll /\ UNCHANGED coffPhase /\ Lookup
     \/ /\ ~symNew /\ coffFile.arch = "TI" /\ BeforeFirst
        /\ coffPhase' = "undefined" /\ UNCHANGED <<live, symtab, keys, coffAnswers>>
     \/ /\ ~symNew /\ coffFile.arch # "TI"
        /\ coffPhase' = "aborted" /\ UNCHANGED <<live, symtab, keys, coffAnswers>>
  /\ UNCHANGED <<coffFile, opens, debugInit, debug, coffWatch, raised>>

(***************************************************************************)
(* debugLines().                                                           *)
(***************************************************************************)
\* findSection(".debug_line"): the first one, as a singleton.
debugSection ==
  LET found == {i \in DOMAIN coffFile.sections : coffFile.sections[i].debug}
  IN {i \in found : \A j \in found : i <= j}

\* _debug_init is set before the constructor that may throw.
DebugLines ==
  /\ coffPhase = "open"
  /\ debugInit' = TRUE
  /\ \/ debugInit /\ UNCHANGED <<debug, live, raised>> /\ CoffAnswer(<<"debugLines", "">>, debug)
     \/ /\ ~debugInit /\ debugSection = {}
        /\ UNCHANGED <<debug, live, raised>> /\ CoffAnswer(<<"debugLines", "">>, 0)
     \/ /\ ~debugInit /\ ~coffFile.badDebug
        /\ \E i \in debugSection : debug' = i /\ live' = live \cup Objects("debug", {i})
        /\ UNCHANGED raised /\ CoffAnswer(<<"debugLines", "">>, debug')
     \/ /\ ~debugInit /\ coffFile.badDebug /\ debugSection # {}
        /\ raised' = TRUE /\ UNCHANGED <<debug, live, coffAnswers>>
  /\ UNCHANGED <<coffFile, coffPhase, opens, symNew, symtab, keys, coffWatch>>

(***************************************************************************)
(* The destructor.                                                         *)
(***************************************************************************)
\* Mutant: the symbols are not deleted.
deletedNone == {}

\* The symbols that are values of the table.
deletedSymbols == Objects("symbol", {symtab[s] : s \in DOMAIN symtab})

CoffDelete ==
  /\ coffPhase = "open" /\ coffPhase' = "closed"
  /\ live' = live \ deletedSymbols
  /\ symNew' = FALSE /\ symtab' = <<>> /\ keys' = <<>> /\ debugInit' = FALSE /\ debug' = 0
  /\ coffAnswers' = {} /\ raised' = FALSE
  /\ UNCHANGED <<coffFile, opens, coffWatch>>

CoffNext == CoffOpen \/ CoffSymbols \/ DebugLines \/ CoffDelete

CoffSpec == CoffInit /\ [][CoffNext]_coffVars

(***************************************************************************)
(* Properties.                                                             *)
(***************************************************************************)
Types == {"NO_TYPE", "OTHER_TYPE", "FUNC", "DATA", "LABEL"}

\* Every variable has its type; the table has all the names or none.
CoffTypeOK ==
  /\ coffFile \in CoffFiles /\ coffPhase \in {"closed", "open", "aborted", "undefined"}
  /\ opens \in Nat
  /\ live \subseteq {"section", "segment", "symbol", "debug"} \X (1..opens) \X Nat
  /\ symNew \in BOOLEAN /\ debugInit \in BOOLEAN /\ raised \in BOOLEAN
  /\ DOMAIN symtab \in {{}, Names(coffFile)} /\ DOMAIN keys = DOMAIN symtab
  /\ \A s \in DOMAIN symtab : symtab[s] \in CoffNamed(s) /\ keys[s] \in CoffNamed(s)
  /\ debug \in Nat
  /\ coffWatch \in Questions(coffFile)
  /\ coffAnswers \subseteq IF coffWatch[1] = "type" THEN Types ELSE Nat

\* What the file says: the type a symbol has by the section of its number, and
\* the first section of debug lines.
trueType(i) ==
  LET sym == coffFile.symbols[i] IN
  typeIn(sym, IF sym.number \in DOMAIN coffFile.sections THEN coffFile.sections[sym.number].flags ELSE {})
Truth(q) ==
  IF q[1] = "type" THEN {trueType(LastOf(q[2]))}
  ELSE IF debugSection = {} THEN {0} ELSE debugSection

\* A wrong answer has one of two causes: the symbol is in the last section
\* (coffi_File.cpp compares its number, which counts from 1, with the number of
\* sections), or an earlier call of debugLines() has thrown and this one
\* answers null.
CoffWrongHasCause ==
  ~ coffAnswers \subseteq Truth(coffWatch) =>
    \/ coffWatch[1] = "type" /\ coffFile.symbols[LastOf(coffWatch[2])].number = Len(coffFile.sections)
    \/ coffWatch[1] = "debugLines" /\ raised

\* The table's keys are pointers into the names of symbols: these, and the
\* symbols found under them, exist as long as the table does.  A name that
\* occurs twice keeps the key of a symbol that is no longer in the table.
KeysAlive ==
  coffPhase = "open" =>
    \A s \in DOMAIN symtab : Objects("symbol", {keys[s], symtab[s]}) \subseteq live

\* When the object is gone, what stays of its symbols are those that a later
\* symbol of the same name had put out of the table.
HiddenOnly ==
  \A r \in live :
    r[1] = "symbol" /\ (r[2] < opens \/ coffPhase = "closed") =>
      r[3] \in DOMAIN coffFile.symbols /\ r[3] # LastOf(coffFile.symbols[r[3]].name)

\* Nothing of the table dangles while it is there, nothing in it is left behind.
CoffTableRight == KeysAlive /\ HiddenOnly
=============================================================================
