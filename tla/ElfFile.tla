------------------------------ MODULE ElfFile ------------------------------
(***************************************************************************)
(* The lazy half of gel::elf::File (elf_File.cpp, elf_File32.cpp; the      *)
(* 64-bit class is the same code with wider fields).  Opening a file reads *)
(* its header only.  Program headers, sections, segments, symbols, section *)
(* contents and debug lines are read from the stream at the first call     *)
(* that needs them and kept for the calls to come.  Any of these reads may *)
(* fail, and the call then ends with a gel::Exception: what the object     *)
(* keeps at that point decides what the next call answers.                 *)
(*                                                                         *)
(* A table is the set of its indexes, a piece of content is the singleton  *)
(* of the index it was read for ({} when the memory was never filled).     *)
(***************************************************************************)
EXTENDS Naturals, FiniteSets, Sequences

CONSTANTS
  Files,      \* the ELF files a behaviour may open, records satisfying WellShaped
  MaxFaults   \* bound: how many reads of the stream may fail

\* The fields of a file, and what the model takes for granted of one: symbol
\* tables link to string tables, and neither a string table nor a debug section
\* has a symbol-table type.
WellShaped(f) ==
  /\ f.headers \subseteq Nat                      \* program header table
  /\ f.loads \subseteq f.headers                  \* those of type PT_LOAD
  /\ f.sections \subseteq Nat                     \* section header table
  /\ f.symtabs \subseteq f.sections               \* SHT_SYMTAB, SHT_DYNSYM
  /\ f.garbage \subseteq f.symtabs                \* size no multiple of entsize
  /\ f.dynamics \subseteq f.sections              \* SHT_DYNAMIC
  /\ f.link \in [f.symtabs -> Nat \ f.symtabs]    \* sh_link
  /\ f.shstrndx \in Nat \ f.symtabs              \* section-name string table
  /\ f.lost \subseteq f.sections                 \* sh_name past the section names
  /\ f.stray \subseteq f.symtabs                 \* a st_name past the string table
  /\ f.debug \in Seq(f.sections \ f.symtabs)     \* .debug_line, .debug_str, .debug_line_str
  /\ f.badDebug \in BOOLEAN                       \* its programs do not decode

ASSUME FilesAssumption == \A f \in Files : WellShaped(f)
ASSUME MaxFaultsAssumption == MaxFaults \in Nat

VARIABLES
  file,        \* what is on the stream
  phase,       \* "closed", "open" or "aborted" (an ASSERT failed)
  faults,      \* reads that failed so far
  phBuf,       \* ph_buf # nullptr
  phLoaded,    \* ph_loaded
  phs,         \* phs
  phData,      \* ProgramHeader::_buf of each header: "null", "filled", ...
  segsInit,    \* segs_init
  segs,        \* segs
  sectsLoaded, \* sects_loaded
  sects,       \* sects
  secBufs,     \* section-table buffers allocated (the last one is sec_buf)
  secData,     \* Section::buf of each section
  symsNew,     \* syms # nullptr
  syms,        \* symbol tables whose symbols were put in *syms
  debugNew,    \* debug # nullptr
  debug,       \* debug sections decoded in *debug
  watch,       \* history: the question whose answers are recorded, any one
  answers,     \* history: what this object answered to it
  raised       \* history: "headers", "symbols": tables whose load has thrown

hdrVars == <<phBuf, phLoaded, phs>>
segVars == <<segsInit, segs>>
secVars == <<sectsLoaded, sects, secBufs>>
symVars == <<symsNew, syms>>
dbgVars == <<debugNew, debug>>
vars == <<file, phase, faults, hdrVars, phData, segVars, secVars, secData,
          symVars, dbgVars, watch, answers, raised>>

(***************************************************************************)
(* Outcomes of a call.                                                     *)
(***************************************************************************)
Works == UNCHANGED faults                                \* all reads succeed
Fault == faults < MaxFaults /\ faults' = faults + 1      \* one read fails

Answer(op, arg, val) ==
  /\ answers' = IF watch = <<op, arg>> THEN answers \cup {val} ELSE answers
  /\ UNCHANGED <<file, phase, watch, raised>>

Raise(tables) ==
  /\ raised' = raised \cup tables
  /\ UNCHANGED <<file, phase, watch, answers>>

\* stringAt() of an offset past its table: the ASSERT of Buffer::get() fails.
Abort ==
  /\ phase' = "aborted"
  /\ UNCHANGED <<file, faults, secVars, secData, symVars, dbgVars, watch, answers, raised>>

\* What a buffer holds.
BufState == {"null", "filled", "unfilled"}
Bytes(data, k) == IF data[k] = "filled" THEN {k} ELSE {}

\* Mutant: one buffer for all, overwritten by the next read.
sharedContent(data, K) ==
  [k \in DOMAIN data |-> IF data[k] # "null" THEN "unfilled"
                         ELSE IF k \in K THEN "filled" ELSE "null"]

\* The effect of content() on each key of K.
content(data, K) ==
  [k \in DOMAIN data |-> IF k \in K /\ data[k] = "null" THEN "filled" ELSE data[k]]

\* Mutant: the buffer is assigned before the read.
contentThrowsLate(data, k) == [data EXCEPT ![k] = "unfilled"]

\* A readBuf() that throws: content() assigns only after readBuf() returned.
contentThrows(data, k) == data

(***************************************************************************)
(* Construction and destruction.                                           *)
(***************************************************************************)
\* The questions a client may ask of file f, with their argument (0: none).
Questions(f) ==
  ({"programHeaders", "segments", "sections", "symbols", "debugLines", "dyns"} \X {0})
    \cup ({"headerContent"} \X f.headers)
    \cup ({"sectionContent", "findSection"} \X f.sections)

Init ==
  /\ file \in Files /\ watch \in Questions(file)
  /\ phase = "closed" /\ faults = 0
  /\ phBuf = FALSE /\ phLoaded = FALSE /\ phs = {}
  /\ segsInit = FALSE /\ segs = {}
  /\ sectsLoaded = FALSE /\ sects = {} /\ secBufs = 0
  /\ symsNew = FALSE /\ syms = {}
  /\ debugNew = FALSE /\ debug = {}
  /\ answers = {} /\ raised = {}
  /\ phData = [p \in file.headers |-> "null"]
  /\ secData = [s \in file.sections |-> "null"]

Open ==
  /\ phase = "closed"
  /\ file.shstrndx \in file.sections        \* else "malformed ELF"
  /\ phase' = "open"
  /\ Works
  /\ UNCHANGED <<file, hdrVars, phData, segVars, secVars, secData, symVars,
                 dbgVars, watch, answers, raised>>

\* readAt(0, h, ...) throws: no object is built.
OpenThrows ==
  /\ phase = "closed"
  /\ Fault
  /\ UNCHANGED <<file, phase, hdrVars, phData, segVars, secVars, secData,
                 symVars, dbgVars, watch, answers, raised>>

Delete ==
  /\ phase = "open"
  /\ phase' = "closed"
  /\ phBuf' = FALSE /\ phLoaded' = FALSE /\ phs' = {}
  /\ segsInit' = FALSE /\ segs' = {}
  /\ sectsLoaded' = FALSE /\ sects' = {} /\ secBufs' = 0
  /\ symsNew' = FALSE /\ syms' = {}
  /\ debugNew' = FALSE /\ debug' = {}
  /\ answers' = {} /\ raised' = {}
  /\ phData' = [p \in file.headers |-> "null"]
  /\ secData' = [s \in file.sections |-> "null"]
  /\ UNCHANGED <<file, faults, watch>>

(***************************************************************************)
(* Program headers and segments.  An operator with parameter ok is a       *)
(* function that returns (ok) or throws (~ok).                             *)
(***************************************************************************)
\* Mutant: the loop stops at the first header that is not to be loaded.
loadProgramHeadersShort(ok) ==
  /\ phBuf' = TRUE
  /\ \/ phBuf /\ ok /\ UNCHANGED phs
     \/ ~phBuf /\ phs' = IF ok THEN file.loads ELSE phs

\* ph_buf is assigned before the read that may throw, and guards the loading.
loadProgramHeaders(ok) ==
  /\ phBuf' = TRUE
  /\ \/ phBuf /\ ok /\ UNCHANGED phs
     \/ ~phBuf /\ phs' = IF ok THEN file.headers ELSE phs

programHeaders(ok) ==
  \/ phLoaded /\ ok /\ UNCHANGED hdrVars
  \/ ~phLoaded /\ loadProgramHeaders(ok) /\ phLoaded' = ok

initSegments(ok) ==
  \/ segsInit /\ ok /\ UNCHANGED <<hdrVars, segVars>>
  \/ /\ ~segsInit
     /\ programHeaders(ok)
     /\ segsInit' = ok
     /\ segs' = IF ok THEN phs' \cap file.loads ELSE segs

ProgramHeaders ==
  /\ phase = "open"
  /\ \/ programHeaders(TRUE) /\ Works /\ Answer("programHeaders", 0, phs')
     \/ programHeaders(FALSE) /\ Fault /\ Raise({"headers"})
  /\ UNCHANGED <<phData, segVars, secVars, secData, symVars, dbgVars>>

\* count() and segment(i): both start with initSegments().
Segments ==
  /\ phase = "open"
  /\ \/ initSegments(TRUE) /\ Works /\ Answer("segments", 0, segs')
     \/ initSegments(FALSE) /\ Fault /\ Raise({"headers"})
  /\ UNCHANGED <<phData, secVars, secData, symVars, dbgVars>>

\* ProgramHeader::content() and Segment::buffer() of a header of the table.
HeaderContent(p) ==
  /\ phase = "open" /\ p \in phs
  /\ \/ /\ phData' = content(phData, {p})
        /\ Works /\ Answer("headerContent", p, Bytes(phData', p))
     \/ /\ phData[p] = "null"
        /\ phData' = contentThrows(phData, p)
        /\ Fault /\ Raise({})
  /\ UNCHANGED <<hdrVars, segVars, secVars, secData, symVars, dbgVars>>

(***************************************************************************)
(* Sections.                                                               *)
(***************************************************************************)
\* sec_buf is allocated at every call; `sections` is set after the read.
loadSections(ok) ==
  /\ secBufs' = secBufs + 1
  /\ sects' = IF ok THEN file.sections ELSE sects

\* Mutants: the flag is never set, or is set before the load.
initSectionsAgain(ok) == loadSections(ok) /\ sectsLoaded' = FALSE

initSectionsEarly(ok) ==
  \/ sectsLoaded /\ ok /\ UNCHANGED secVars
  \/ ~sectsLoaded /\ loadSections(ok) /\ sectsLoaded' = TRUE

initSections(ok) ==
  \/ sectsLoaded /\ ok /\ UNCHANGED secVars
  \/ ~sectsLoaded /\ loadSections(ok) /\ sectsLoaded' = ok

SectionsTable ==
  /\ phase = "open"
  /\ \/ initSections(TRUE) /\ Works /\ Answer("sections", 0, sects')
     \/ initSections(FALSE) /\ Fault /\ Raise({})
  /\ UNCHANGED <<hdrVars, phData, segVars, secData, symVars, dbgVars>>

\* Section::name(): stringAt() in the section-name table, read if need be.
name(data) == content(data, {file.shstrndx})

\* Section::content().  A garbage symbol table throws after its read, with a
\* message that holds the section's name.
SectionContent(s) ==
  /\ phase = "open" /\ s \in sects
  /\ \/ /\ s \notin file.garbage
        /\ secData' = content(secData, {s})
        /\ Works /\ Answer("sectionContent", s, Bytes(secData', s))
     \/ /\ secData[s] = "null"
        /\ secData' = contentThrows(secData, s)
        /\ Fault /\ Raise({})
     \/ /\ s \in file.garbage
        /\ \/ s \notin file.lost /\ secData' = name(secData) /\ Works
           \/ /\ secData[file.shstrndx] = "null" /\ Fault
              /\ secData' = contentThrows(secData, file.shstrndx)
        /\ Raise({})
     \/ s \in file.garbage \cap file.lost /\ Abort
  /\ UNCHANGED <<hdrVars, phData, segVars, secVars, symVars, dbgVars>>

\* findSection() of the name of section s: the names it compares with are read
\* from the section-name table, up to that of s.
MeetsLost(s) == \E t \in file.lost : t <= s
FindSection(s) ==
  /\ phase = "open"
  /\ \/ /\ initSections(TRUE)
        /\ ~MeetsLost(s)
        /\ secData' = name(secData)
        /\ Works
        /\ Answer("findSection", s,
                  IF secData'[file.shstrndx] = "filled" THEN {s} ELSE {})
     \/ initSections(FALSE) /\ Fault /\ UNCHANGED secData /\ Raise({})
     \/ /\ initSections(TRUE)
        /\ secData[file.shstrndx] = "null"
        /\ secData' = contentThrows(secData, file.shstrndx)
        /\ Fault /\ Raise({})
     \/ MeetsLost(s) /\ Abort
  /\ UNCHANGED <<hdrVars, phData, segVars, symVars, dbgVars>>

\* dyns() looks for SHT_DYNAMIC in `sects` as it is, and asserts it found one.
Dyns ==
  /\ phase = "open"
  /\ IF sects \cap file.dynamics = {}
     THEN Abort
     ELSE \E s \in sects \cap file.dynamics :
            /\ \A t \in sects \cap file.dynamics : s <= t
            /\ \/ /\ secData' = content(secData, {s})
                  /\ Works /\ Answer("dyns", 0, Bytes(secData', s))
               \/ /\ secData[s] = "null"
                  /\ secData' = contentThrows(secData, s)
                  /\ Fault /\ Raise({})
  /\ UNCHANGED <<hdrVars, phData, segVars, secVars, symVars, dbgVars>>

(***************************************************************************)
(* Symbols.  *syms is assigned before the loop that may throw.             *)
(***************************************************************************)
Before(s) == {t \in file.symtabs : t < s}
StrTabs(S) == {file.link[t] : t \in S}

\* fillSymbolTable() puts every symbol of table s, or fails for sure.
Fillable(s) == s \notin file.garbage \cup file.stray /\ file.link[s] \in file.sections

\* Mutant: stringAt() does not compare the index of the string table.
AssertsLink(s) ==
  \/ s \in file.garbage \cap file.lost
  \/ s \in file.stray \ file.garbage \/ file.link[s] \notin file.sections

\* The name of the malformed table, or of a symbol, is past its string table.
Asserts(s) ==
  \/ s \in file.garbage \cap file.lost
  \/ s \in file.stray \ file.garbage /\ file.link[s] \in file.sections

\* fillSymbolTable() of table s throws; data is what the tables before s left.
fillSymbolTableThrows(s, data) ==
  \/ Fault /\ secData' = data                              \* sect->read()
  \/ /\ s \in file.garbage                                 \* thrown with name()
     /\ \/ s \notin file.lost /\ Works /\ secData' = name(data)
        \/ /\ data[file.shstrndx] = "null" /\ Fault
           /\ secData' = contentThrows(data, file.shstrndx)
  \/ /\ s \notin file.garbage                              \* stringAt()
     /\ \/ file.link[s] \notin file.sections /\ Works /\ secData' = data
        \/ /\ file.link[s] \in file.sections
           /\ data[file.link[s]] = "null" /\ Fault
           /\ secData' = contentThrows(data, file.link[s])

fillAll ==
  /\ \A s \in file.symtabs : Fillable(s)
  /\ syms' = file.symtabs
  /\ secData' = content(secData, StrTabs(file.symtabs))
  /\ Works

fillUpTo(s) ==
  /\ \A t \in Before(s) : Fillable(t)
  /\ syms' = Before(s)
  /\ fillSymbolTableThrows(s, content(secData, StrTabs(Before(s))))

Symbols ==
  /\ phase = "open"
  /\ \/ /\ symsNew
        /\ Works /\ UNCHANGED <<symVars, secVars, secData>>
        /\ Answer("symbols", 0, syms)
     \/ /\ ~symsNew /\ symsNew' = TRUE
        /\ initSections(FALSE) /\ Fault
        /\ UNCHANGED <<syms, secData>> /\ Raise({"symbols"})
     \/ /\ ~symsNew /\ symsNew' = TRUE
        /\ initSections(TRUE)
        /\ \/ fillAll /\ Answer("symbols", 0, syms')
           \/ \E s \in file.symtabs : fillUpTo(s) /\ Raise({"symbols"})
     \/ /\ ~symsNew
        /\ \E s \in file.symtabs : Asserts(s) /\ (\A t \in Before(s) : Fillable(t)) /\ Abort
  /\ UNCHANGED <<hdrVars, phData, segVars, dbgVars>>

(***************************************************************************)
(* Debug lines: the constructor of dwarf::DebugLine looks for its sections *)
(* by name, reads them in order and decodes them; `debug` is assigned when *)
(* it returned.                                                            *)
(***************************************************************************)
DebugSects(n) == {file.debug[i] : i \in 1..n}

\* The first n searches meet no name they cannot read; those for sections the
\* file does not have go through all names.
Named(n) ==
  /\ \A i \in 1..n : ~MeetsLost(file.debug[i])
  /\ n = Len(file.debug) /\ n < 3 => file.lost = {}

\* The constructor after initSections() and the section names.
buildDebug(data) ==
  \/ /\ ~file.badDebug /\ Named(Len(file.debug))
     /\ secData' = content(data, DebugSects(Len(file.debug)))
     /\ Works
     /\ debugNew' = TRUE /\ debug' = UNION {Bytes(secData', d) : d \in DebugSects(Len(file.debug))}
     /\ Answer("debugLines", 0, debug')
  \/ /\ file.badDebug /\ Named(Len(file.debug))
     /\ secData' = content(data, DebugSects(Len(file.debug)))
     /\ Works /\ UNCHANGED dbgVars /\ Raise({})
  \/ \E i \in 1..Len(file.debug) :
       /\ \A j \in 1..i : ~MeetsLost(file.debug[j])
       /\ data[file.debug[i]] = "null" /\ file.debug[i] \notin DebugSects(i - 1)
       /\ secData' = contentThrows(content(data, DebugSects(i - 1)), file.debug[i])
       /\ Fault /\ UNCHANGED dbgVars /\ Raise({})

DebugLines ==
  /\ phase = "open"
  /\ \/ /\ debugNew
        /\ Works /\ UNCHANGED <<dbgVars, secVars, secData>>
        /\ Answer("debugLines", 0, debug)
     \/ /\ ~debugNew /\ initSections(FALSE) /\ Fault
        /\ UNCHANGED <<dbgVars, secData>> /\ Raise({})
     \/ /\ ~debugNew /\ initSections(TRUE)
        /\ \/ buildDebug(name(secData))
           \/ /\ secData[file.shstrndx] = "null"
              /\ secData' = contentThrows(secData, file.shstrndx)
              /\ Fault /\ UNCHANGED dbgVars /\ Raise({})
     \/ ~debugNew /\ ~Named(Len(file.debug)) /\ Abort
  /\ UNCHANGED <<hdrVars, phData, segVars, symVars>>

(***************************************************************************)
(* Any client of the library may make any call, in any order.              *)
(***************************************************************************)
Next ==
  \/ Open \/ OpenThrows \/ Delete
  \/ ProgramHeaders \/ Segments \/ SectionsTable
  \/ \E p \in file.headers : HeaderContent(p)
  \/ \E s \in file.sections : SectionContent(s) \/ FindSection(s)
  \/ Dyns \/ Symbols \/ DebugLines

Spec == Init /\ [][Next]_vars

(***************************************************************************)
(* Properties.                                                             *)
(***************************************************************************)
\* Types of the fields of elf::File, File32, Section and ProgramHeader.
TypeOK ==
  /\ file \in Files /\ phase \in {"closed", "open", "aborted"}
  /\ faults \in 0..MaxFaults
  /\ phBuf \in BOOLEAN /\ phLoaded \in BOOLEAN /\ segsInit \in BOOLEAN
  /\ sectsLoaded \in BOOLEAN /\ symsNew \in BOOLEAN /\ debugNew \in BOOLEAN
  /\ phs \subseteq file.headers /\ segs \subseteq file.loads
  /\ sects \subseteq file.sections /\ syms \subseteq file.symtabs
  /\ debug \subseteq file.sections
  /\ secBufs \in Nat
  /\ phData \in [file.headers -> BufState]
  /\ secData \in [file.sections -> BufState]
  /\ watch \in Questions(file)
  /\ answers \subseteq SUBSET (file.headers \cup file.sections)
  /\ raised \subseteq {"headers", "symbols"}

\* What the file really holds for a question.
Truth(q) ==
  CASE q[1] = "programHeaders" -> file.headers
    [] q[1] = "segments"       -> file.loads
    [] q[1] = "sections"       -> file.sections
    [] q[1] = "symbols"        -> file.symtabs
    [] q[1] = "debugLines"     -> DebugSects(Len(file.debug))
    [] q[1] = "dyns"           -> {s \in file.dynamics : \A t \in file.dynamics : s <= t}
    [] OTHER                   -> {q[2]}

\* One object never gives two answers to one question: the caches filled by
\* the first answer (ph_loaded, segs_init, sects_loaded, syms, debug, buf) are
\* not disturbed by any later call, throwing or not.
AnswersStable == \A a, b \in answers : a = b

\* The questions whose loader may be called again after an exception.
RetrySafeQuestion == watch[1] \notin {"programHeaders", "segments", "symbols"}

\* Whatever was thrown before, sections, their contents, the contents of
\* headers, searches by name, dynamic entries and debug lines are answered as
\* the file has them: these loaders assign their cache after their last read.
RetrySafe ==
  RetrySafeQuestion => answers \subseteq {Truth(watch)}

\* A wrong answer is given only to a client that has seen the table's load
\* throw: without an exception, program headers, segments and symbols are the
\* file's.
WrongOnlyAfterThrow ==
  ~ answers \subseteq {Truth(watch)} =>
    \/ watch[1] \in {"programHeaders", "segments"} /\ "headers" \in raised
    \/ watch[1] = "symbols" /\ "symbols" \in raised

\* loadSections() allocates sec_buf at every attempt and the destructor frees
\* the last one: an attempt that failed costs one buffer, nothing else does.
SecBufsBounded == secBufs <= faults + 1

\* elf_File.cpp:144-148: programHeaders() returns the program headers, or
\* throws "if there is a file read error".
HeadersOrThrow == watch[1] = "programHeaders" => answers \subseteq {file.headers}

\* elf_File.cpp:633: the ASSERT(false) of dyns() is not reached by a file that
\* has a dynamic section.
DynsFinds == file.dynamics # {} => phase # "aborted"

\* An assertion ends the process only in a file with a name out of its string
\* table, which Buffer::get() asserts, or when dyns() has no dynamic section among
\* the sections loaded so far; every other malformation is thrown.
\* The code: stringAt() and Buffer::get(), dyns().
AbortsExplained ==
  phase = "aborted" => file.lost \cup file.stray # {} \/ sects \cap file.dynamics = {}

(***************************************************************************)
(* The promise of FileAnswers, kept for the questions whose loader may be  *)
(* called again after an exception; of the others nothing is shown.        *)
(***************************************************************************)
shown == IF phase = "open" /\ RetrySafeQuestion THEN answers ELSE {}

Promise == INSTANCE FileAnswers
  WITH truth <- Truth(watch), isOpen <- phase = "open", answers <- shown

\* Every step of elf::File is a step of FileAnswers or no step of it: an answer
\* is the file's, is not taken back while the object lives, and none survives it.
PromiseKept == Promise!Spec

(***************************************************************************)
(* The inductive invariant: what each flag says of the cache it guards,    *)
(* and that recorded answers are the cache's present value.                *)
(***************************************************************************)
HeadersInv ==
  /\ phLoaded => phBuf
  /\ phBuf /\ phs # file.headers => "headers" \in raised
  /\ segsInit => phLoaded /\ segs = phs \cap file.loads

SectionsInv ==
  /\ phase = "open" => file.shstrndx \in file.sections
  /\ sectsLoaded => sects = file.sections
  /\ ~sectsLoaded => sects = {} /\ secBufs <= faults
  /\ secBufs <= faults + 1

SymbolsInv == symsNew /\ syms # file.symtabs => "symbols" \in raised

DataInv ==
  /\ \A p \in file.headers : phData[p] # "unfilled"
  /\ \A s \in file.sections : secData[s] # "unfilled"
  /\ debugNew => debug = DebugSects(Len(file.debug))

\* The cache a question is answered from, once it was.
Cache(q) ==
  CASE q[1] = "programHeaders" -> phs
    [] q[1] = "segments"       -> segs
    [] q[1] = "symbols"        -> syms
    [] OTHER                   -> Truth(q)

AnswersInv ==
  /\ answers \subseteq {Cache(watch)}
  /\ answers # {} =>
       /\ watch[1] = "programHeaders" => phLoaded
       /\ watch[1] = "segments" => segsInit
       /\ watch[1] = "symbols" => symsNew
  /\ phase = "closed" => answers = {}

IInv ==
  TypeOK /\ HeadersInv /\ SectionsInv /\ SymbolsInv /\ DataInv /\ AnswersInv
=============================================================================
