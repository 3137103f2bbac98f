-------------------------- MODULE ElfFile_proofs --------------------------
(***************************************************************************)
(* Proofs about ElfFile, for any set of files and any number of faults.    *)
(***************************************************************************)
EXTENDS ElfFile, TLAPS

\* content() keeps a buffer array typed and never leaves a buffer unfilled.
LEMMA ContentLemma ==
  ASSUME NEW D, NEW data \in [D -> BufState], NEW K
  PROVE  /\ content(data, K) \in [D -> BufState]
         /\ (\A k \in D : data[k] # "unfilled") =>
               \A k \in D : content(data, K)[k] # "unfilled"
         /\ (\A k \in D : data[k] # "unfilled") =>
               \A k \in D \cap K : /\ content(data, K)[k] = "filled"
                                  /\ Bytes(content(data, K), k) = {k}
  BY DEF content, BufState, Bytes

\* The shape of a file, from the assumption on Files.
LEMMA ShapeLemma == TypeOK => WellShaped(file)
  BY FilesAssumption DEF TypeOK

\* What a file holds for a question is made of its headers and sections.
LEMMA TruthLemma ==
  TypeOK => Truth(watch) \subseteq file.headers \cup file.sections
  <1> SUFFICES ASSUME TypeOK PROVE Truth(watch) \subseteq file.headers \cup file.sections
    OBVIOUS
  <1>1. WellShaped(file)
    BY ShapeLemma
  <1>2. DebugSects(Len(file.debug)) \subseteq file.sections
    BY <1>1 DEF WellShaped, DebugSects
  <1>3. /\ file.loads \subseteq file.headers /\ file.symtabs \subseteq file.sections
        /\ file.dynamics \subseteq file.sections
    BY <1>1 DEF WellShaped
  <1>4. watch[1] \in {"programHeaders", "segments", "sections", "symbols",
                      "debugLines", "dyns"} \/ watch[2] \in file.headers \cup file.sections
    BY DEF TypeOK, Questions
  <1> QED
    BY <1>2, <1>3, <1>4 DEF Truth

\* A fresh object satisfies the invariant.
LEMMA InitInv == Init => IInv
  <1> SUFFICES ASSUME Init PROVE IInv
    OBVIOUS
  <1> USE DEF Init
  <1>1. TypeOK
    <2>1. faults \in 0..MaxFaults /\ secBufs \in Nat
      BY MaxFaultsAssumption
    <2>2. phData \in [file.headers -> BufState] /\ secData \in [file.sections -> BufState]
      BY DEF BufState
    <2> QED
      BY <2>1, <2>2, Zenon DEF TypeOK
  <1>2. HeadersInv /\ SectionsInv /\ SymbolsInv
    BY DEF HeadersInv, SectionsInv, SymbolsInv
  <1>3. DataInv /\ AnswersInv
    BY DEF DataInv, AnswersInv
  <1> QED
    BY <1>1, <1>2, <1>3 DEF IInv

(***************************************************************************)
(* What a call leaves alone keeps the parts of the invariant that speak of *)
(* it only.                                                                *)
(***************************************************************************)
LEMMA FaultLemma == TypeOK /\ (Works \/ Fault) => faults' \in 0..MaxFaults /\ faults' >= faults
  BY MaxFaultsAssumption DEF TypeOK, Works, Fault

LEMMA HeadersFrame ==
  ASSUME HeadersInv, UNCHANGED <<file, hdrVars, segVars>>, raised \subseteq raised'
  PROVE  HeadersInv'
  BY DEF HeadersInv, hdrVars, segVars

LEMMA SectionsFrame ==
  ASSUME TypeOK, SectionsInv, faults' \in 0..MaxFaults, faults' >= faults,
         UNCHANGED <<file, secVars>>, phase' \in {phase, "aborted"}
  PROVE  SectionsInv'
  <1>1. secBufs \in Nat /\ faults \in Nat /\ faults' \in Nat
    BY MaxFaultsAssumption DEF TypeOK
  <1>u. secBufs' = secBufs /\ sects' = sects /\ sectsLoaded' = sectsLoaded
    BY DEF secVars
  <1>2. secBufs' <= faults' + 1
    <2>1. secBufs <= faults + 1
      BY DEF SectionsInv
    <2>2. \A a, b, c \in Nat : a <= b + 1 /\ c >= b => a <= c + 1
      OBVIOUS
    <2> QED
      BY <1>1, <1>u, <2>1, <2>2
  <1>4. ~sectsLoaded => sects = {} /\ secBufs <= faults'
    BY <1>1 DEF SectionsInv
  <1>3. phase' = "open" => phase = "open"
    OBVIOUS
  <1> QED
    BY <1>u, <1>2, <1>3, <1>4 DEF SectionsInv

LEMMA SymbolsFrame ==
  ASSUME SymbolsInv, UNCHANGED <<file, symVars>>, raised \subseteq raised'
  PROVE  SymbolsInv'
  BY DEF SymbolsInv, symVars

LEMMA DataFrame ==
  ASSUME DataInv, UNCHANGED <<file, dbgVars>>,
         \A p \in file.headers : phData'[p] # "unfilled",
         \A s \in file.sections : secData'[s] # "unfilled"
  PROVE  DataInv'
  BY DEF DataInv, dbgVars, DebugSects

\* The flags that say the watched question was answered from its cache.
Answered ==
  /\ watch[1] = "programHeaders" => phLoaded
  /\ watch[1] = "segments" => segsInit
  /\ watch[1] = "symbols" => symsNew

\* A call records nothing, or the present value of the watched cache.
Records ==
  \/ answers' = answers
  \/ answers' = answers \cup {Cache(watch)'} /\ Answered'

LEMMA AnswerRecords ==
  ASSUME NEW op, NEW arg, NEW val, Answer(op, arg, val),
         watch = <<op, arg>> => val = Cache(watch)' /\ Answered'
  PROVE  Records /\ UNCHANGED <<file, phase, watch, raised>>
  BY DEF Answer, Records

LEMMA RaiseRecords ==
  ASSUME NEW tables, Raise(tables)
  PROVE  Records /\ UNCHANGED <<file, phase, watch>> /\ raised' = raised \cup tables
  BY DEF Raise, Records

\* A call keeps AnswersInv when it leaves the caches that were filled as they
\* are, and records nothing but the present value of the watched one.
LEMMA AnswersStep ==
  ASSUME AnswersInv, UNCHANGED <<file, watch>>, phase' # "closed",
         phLoaded => phLoaded' /\ phs' = phs,
         segsInit => segsInit' /\ segs' = segs,
         symsNew => symsNew' /\ syms' = syms,
         Records
  PROVE  AnswersInv'
  <1>1. Truth(watch)' = Truth(watch)
    BY DEF Truth, DebugSects
  <1>2. Answered => Cache(watch)' = Cache(watch) /\ Answered'
    BY <1>1 DEF Cache, Answered
  <1>3. answers # {} => Answered
    BY DEF AnswersInv, Answered
  <1>4. answers \subseteq {Cache(watch)'} /\ (answers # {} => Answered')
    BY <1>2, <1>3 DEF AnswersInv
  <1>5. answers' \subseteq {Cache(watch)'} /\ (answers' # {} => Answered')
    BY <1>4 DEF Records
  <1> QED
    BY <1>5 DEF AnswersInv, Answered

\* A call on an open object keeps the invariant when what it assigns is typed,
\* the flags agree with the caches, no filled cache is disturbed and what it
\* records is the watched cache.
LEMMA CallInv ==
  ASSUME IInv, phase = "open", UNCHANGED <<file, watch>>, phase' \in {phase, "aborted"},
         faults' \in 0..MaxFaults,
         phBuf' \in BOOLEAN, phLoaded' \in BOOLEAN, segsInit' \in BOOLEAN,
         sectsLoaded' \in BOOLEAN, symsNew' \in BOOLEAN, debugNew' \in BOOLEAN,
         phs' \subseteq file.headers, segs' \subseteq file.loads,
         sects' \subseteq file.sections, syms' \subseteq file.symtabs,
         debug' \subseteq file.sections, secBufs' \in Nat,
         phData' \in [file.headers -> BufState],
         secData' \in [file.sections -> BufState],
         raised' \subseteq {"headers", "symbols"},
         HeadersInv', SectionsInv', SymbolsInv', DataInv',
         phLoaded => phLoaded' /\ phs' = phs,
         segsInit => segsInit' /\ segs' = segs,
         symsNew => symsNew' /\ syms' = syms,
         Records
  PROVE  IInv'
  <1>1. AnswersInv'
    BY AnswersStep DEF IInv
  <1>2. Cache(watch)' \in {phs', segs', syms', Truth(watch)}
    BY DEF Cache, Truth, DebugSects
  <1>3. Cache(watch)' \subseteq file.headers \cup file.sections
    BY <1>2, ShapeLemma, TruthLemma DEF IInv, WellShaped
  <1>4. answers' \subseteq SUBSET (file.headers \cup file.sections)
    BY <1>3, <1>1 DEF AnswersInv
  <1>5. watch' \in Questions(file)'
    BY DEF Questions, IInv, TypeOK
  <1>6. file' \in Files /\ phase' \in {"closed", "open", "aborted"}
    BY DEF IInv, TypeOK
  <1>7. TypeOK'
    BY <1>4, <1>5, <1>6, Zenon DEF TypeOK
  <1> QED
    BY <1>1, <1>7, Zenon DEF IInv

(***************************************************************************)
(* Construction and destruction.                                           *)
(***************************************************************************)
LEMMA OpenInv == IInv /\ (Open \/ OpenThrows) => IInv'
  <1> SUFFICES ASSUME IInv, Open \/ OpenThrows PROVE IInv'
    OBVIOUS
  <1> USE DEF IInv, Open, OpenThrows, hdrVars, segVars, secVars, symVars, dbgVars
  <1>1. TypeOK'
    BY FaultLemma DEF TypeOK, Works, Fault
  <1>2. HeadersInv' /\ SymbolsInv'
    BY DEF HeadersInv, SymbolsInv
  <1>3. SectionsInv'
    BY MaxFaultsAssumption DEF SectionsInv, Works, Fault, TypeOK
  <1>4. DataInv'
    BY DEF DataInv, DebugSects
  <1>5. AnswersInv'
    BY DEF AnswersInv, Cache, Truth, DebugSects
  <1> QED
    BY <1>1, <1>2, <1>3, <1>4, <1>5

LEMMA DeleteInv == IInv /\ Delete => IInv'
  <1> SUFFICES ASSUME IInv, Delete PROVE IInv'
    OBVIOUS
  <1> USE DEF IInv, Delete
  <1>1. TypeOK'
    BY DEF TypeOK, BufState
  <1>2. HeadersInv' /\ SymbolsInv' /\ SectionsInv'
    BY DEF HeadersInv, SymbolsInv, SectionsInv, TypeOK
  <1>3. DataInv' /\ AnswersInv'
    BY DEF DataInv, AnswersInv
  <1> QED
    BY <1>1, <1>2, <1>3

(***************************************************************************)
(* Program headers and segments.                                           *)
(***************************************************************************)
LEMMA HeadersStep ==
  ASSUME TypeOK, HeadersInv, NEW ok \in BOOLEAN, programHeaders(ok)
  PROVE  /\ phBuf' = TRUE /\ phLoaded' \in BOOLEAN /\ phs' \subseteq file.headers
         /\ ok => phLoaded' = TRUE
         /\ phs' # file.headers => ~ok \/ "headers" \in raised
         /\ phLoaded => phs' = phs /\ phLoaded'
  BY DEF TypeOK, HeadersInv, programHeaders, loadProgramHeaders, hdrVars

LEMMA SegmentsStep ==
  ASSUME TypeOK, HeadersInv, NEW ok \in BOOLEAN, initSegments(ok)
  PROVE  /\ phBuf' \in BOOLEAN /\ phLoaded' \in BOOLEAN /\ phs' \subseteq file.headers
         /\ segsInit' \in BOOLEAN /\ segs' \subseteq file.loads
         /\ phLoaded' => phBuf'
         /\ segsInit' => phLoaded' /\ segs' = phs' \cap file.loads
         /\ phBuf' /\ phs' # file.headers => ~ok \/ "headers" \in raised
         /\ phLoaded => phs' = phs /\ phLoaded'
         /\ segsInit => segs' = segs /\ segsInit'
         /\ ok => segsInit'
  <1>1. CASE segsInit
    BY <1>1 DEF TypeOK, HeadersInv, initSegments, hdrVars, segVars
  <1>2. CASE ~segsInit
    <2>1. /\ programHeaders(ok) /\ segsInit' = ok
          /\ segs' = IF ok THEN phs' \cap file.loads ELSE segs
      BY <1>2 DEF initSegments
    <2> QED
      BY <1>2, <2>1, HeadersStep DEF TypeOK, HeadersInv
  <1> QED
    BY <1>1, <1>2 DEF TypeOK

\* A call that touches headers and segments only, as programHeaders() and
\* initSegments() may, keeps the invariant.
LEMMA HeadersCall ==
  ASSUME IInv, phase = "open", UNCHANGED <<file, phase, watch>>, Works \/ Fault,
         UNCHANGED <<phData, secVars, secData, symVars, dbgVars>>,
         phBuf' \in BOOLEAN, phLoaded' \in BOOLEAN, phs' \subseteq file.headers,
         segsInit' \in BOOLEAN, segs' \subseteq file.loads,
         HeadersInv', phLoaded => phs' = phs /\ phLoaded',
         segsInit => segs' = segs /\ segsInit',
         raised' \in {raised, raised \cup {"headers"}},
         Records
  PROVE  IInv'
  <1>1. faults' \in 0..MaxFaults /\ faults' >= faults
    BY FaultLemma DEF IInv
  <1>2. SectionsInv'
    BY <1>1, SectionsFrame DEF IInv
  <1>3. SymbolsInv' /\ DataInv'
    BY SymbolsFrame, DataFrame DEF IInv, DataInv
  <1>4. raised' \subseteq {"headers", "symbols"}
    BY DEF IInv, TypeOK
  <1>5. /\ sectsLoaded' \in BOOLEAN /\ symsNew' \in BOOLEAN /\ debugNew' \in BOOLEAN
        /\ sects' \subseteq file.sections /\ syms' \subseteq file.symtabs
        /\ debug' \subseteq file.sections /\ secBufs' \in Nat
        /\ phData' \in [file.headers -> BufState]
        /\ secData' \in [file.sections -> BufState]
        /\ symsNew' = symsNew /\ syms' = syms
    BY DEF IInv, TypeOK, secVars, symVars, dbgVars
  <1> QED
    BY <1>1, <1>2, <1>3, <1>4, <1>5, CallInv, Zenon

LEMMA ProgramHeadersInv == IInv /\ ProgramHeaders => IInv'
  <1> SUFFICES ASSUME IInv, ProgramHeaders PROVE IInv'
    OBVIOUS
  <1>0. /\ phase = "open" /\ TypeOK /\ HeadersInv /\ segsInit \in BOOLEAN
        /\ segs \subseteq file.loads
        /\ UNCHANGED <<phData, segVars, secVars, secData, symVars, dbgVars>>
    BY DEF ProgramHeaders, IInv, TypeOK
  <1>1. CASE programHeaders(TRUE) /\ Works /\ Answer("programHeaders", 0, phs')
    <2>1. UNCHANGED <<file, phase, watch, raised>>
      BY <1>1 DEF Answer
    <2>2. watch = <<"programHeaders", 0>> => phs' = Cache(watch)' /\ Answered'
      <3>1. phLoaded'
        BY <1>0, <1>1, HeadersStep
      <3>2. SUFFICES ASSUME watch' = <<"programHeaders", 0>>
                     PROVE  phs' = Cache(watch)' /\ Answered'
        BY <2>1
      <3>3. watch'[1] = "programHeaders"
        BY <3>2
      <3> QED
        BY <3>1, <3>3 DEF Cache, Answered
    <2>3. Records
      BY <1>1, <2>2, AnswerRecords
    <2>4. HeadersInv'
      BY <1>0, <1>1, <2>1, HeadersStep DEF HeadersInv, segVars
    <2> QED
      BY <1>0, <1>1, <2>1, <2>3, <2>4, HeadersStep, HeadersCall DEF segVars
  <1>2. CASE programHeaders(FALSE) /\ Fault /\ Raise({"headers"})
    <2>1. Records /\ UNCHANGED <<file, phase, watch>> /\ raised' = raised \cup {"headers"}
      BY <1>2, RaiseRecords
    <2>2. HeadersInv'
      BY <1>0, <1>2, <2>1, HeadersStep DEF HeadersInv, segVars
    <2> QED
      BY <1>0, <1>2, <2>1, <2>2, HeadersStep, HeadersCall DEF segVars
  <1> QED
    BY <1>1, <1>2 DEF ProgramHeaders

LEMMA SegmentsInv == IInv /\ Segments => IInv'
  <1> SUFFICES ASSUME IInv, Segments PROVE IInv'
    OBVIOUS
  <1>0. /\ phase = "open" /\ TypeOK /\ HeadersInv
        /\ UNCHANGED <<phData, secVars, secData, symVars, dbgVars>>
    BY DEF Segments, IInv
  <1>1. CASE initSegments(TRUE) /\ Works /\ Answer("segments", 0, segs')
    <2>1. UNCHANGED <<file, phase, watch, raised>>
      BY <1>1 DEF Answer
    <2>2. watch = <<"segments", 0>> => segs' = Cache(watch)' /\ Answered'
      <3>1. segsInit'
        BY <1>0, <1>1, SegmentsStep
      <3>2. SUFFICES ASSUME watch' = <<"segments", 0>>
                     PROVE  segs' = Cache(watch)' /\ Answered'
        BY <2>1
      <3>3. watch'[1] = "segments"
        BY <3>2
      <3> QED
        BY <3>1, <3>3 DEF Cache, Answered
    <2>3. Records
      BY <1>1, <2>2, AnswerRecords
    <2>4. HeadersInv'
      BY <1>0, <1>1, <2>1, SegmentsStep DEF HeadersInv
    <2> QED
      BY <1>0, <1>1, <2>1, <2>3, <2>4, SegmentsStep, HeadersCall
  <1>2. CASE initSegments(FALSE) /\ Fault /\ Raise({"headers"})
    <2>1. Records /\ UNCHANGED <<file, phase, watch>> /\ raised' = raised \cup {"headers"}
      BY <1>2, RaiseRecords
    <2>2. HeadersInv'
      BY <1>0, <1>2, <2>1, SegmentsStep DEF HeadersInv
    <2> QED
      BY <1>0, <1>2, <2>1, <2>2, SegmentsStep, HeadersCall
  <1> QED
    BY <1>1, <1>2 DEF Segments

(***************************************************************************)
(* Sections and what is read through them.                                 *)
(***************************************************************************)
\* Buffers are typed and none is left unfilled.
Sane(data, D) == data \in [D -> BufState] /\ \A k \in D : data[k] # "unfilled"

LEMMA SaneLemma ==
  ASSUME NEW D, NEW data, Sane(data, D), NEW K
  PROVE  /\ Sane(content(data, K), D)
         /\ \A k \in D \cap K : /\ content(data, K)[k] = "filled"
                               /\ Bytes(content(data, K), k) = {k}
  BY ContentLemma DEF Sane

LEMMA SaneNow == IInv => Sane(phData, file.headers) /\ Sane(secData, file.sections)
  BY DEF IInv, TypeOK, DataInv, Sane

\* A call that leaves headers and segments alone keeps the invariant.
LEMMA StoreCall ==
  ASSUME IInv, phase = "open", UNCHANGED <<file, watch>>, phase' \in {phase, "aborted"},
         Works \/ Fault, UNCHANGED <<hdrVars, segVars>>,
         sectsLoaded' \in BOOLEAN, sects' \subseteq file.sections, secBufs' \in Nat,
         SectionsInv',
         symsNew' \in BOOLEAN, syms' \subseteq file.symtabs, SymbolsInv',
         symsNew => symsNew' /\ syms' = syms,
         debugNew' \in BOOLEAN, debug' \subseteq file.sections,
         debugNew' => debug' = DebugSects(Len(file.debug)),
         Sane(phData', file.headers), Sane(secData', file.sections),
         raised \subseteq raised', raised' \subseteq {"headers", "symbols"},
         Records
  PROVE  IInv'
  <1>1. faults' \in 0..MaxFaults /\ faults' >= faults
    BY FaultLemma DEF IInv
  <1>2. HeadersInv'
    BY HeadersFrame DEF IInv
  <1>3. DataInv'
    BY DEF DataInv, Sane, DebugSects
  <1>4. /\ phBuf' \in BOOLEAN /\ phLoaded' \in BOOLEAN /\ segsInit' \in BOOLEAN
        /\ phs' \subseteq file.headers /\ segs' \subseteq file.loads
        /\ phs' = phs /\ segs' = segs /\ phLoaded' = phLoaded /\ segsInit' = segsInit
    BY DEF IInv, TypeOK, hdrVars, segVars
  <1>5. phData' \in [file.headers -> BufState] /\ secData' \in [file.sections -> BufState]
    BY DEF Sane
  <1> QED
    BY <1>1, <1>2, <1>3, <1>4, <1>5, CallInv, Zenon

\* What does not change stays typed and in the invariant.
LEMMA SymbolsKept ==
  ASSUME IInv, UNCHANGED <<file, symVars>>, raised \subseteq raised'
  PROVE  /\ symsNew' \in BOOLEAN /\ syms' \subseteq file.symtabs /\ SymbolsInv'
         /\ symsNew => symsNew' /\ syms' = syms
  <1>1. symsNew' = symsNew /\ syms' = syms
    BY DEF symVars
  <1> QED
    BY <1>1, SymbolsFrame DEF IInv, TypeOK

LEMMA DebugKept ==
  ASSUME IInv, UNCHANGED <<file, dbgVars>>
  PROVE  /\ debugNew' \in BOOLEAN /\ debug' \subseteq file.sections
         /\ debugNew' => debug' = DebugSects(Len(file.debug))
  BY DEF IInv, TypeOK, DataInv, dbgVars

LEMMA SectionsKept ==
  ASSUME IInv, UNCHANGED <<file, secVars>>, phase' \in {phase, "aborted"}, Works \/ Fault
  PROVE  /\ sectsLoaded' \in BOOLEAN /\ sects' \subseteq file.sections /\ secBufs' \in Nat
         /\ SectionsInv'
  <1>1. faults' \in 0..MaxFaults /\ faults' >= faults
    BY FaultLemma DEF IInv
  <1>2. SectionsInv'
    BY <1>1, SectionsFrame DEF IInv
  <1> QED
    BY <1>2 DEF IInv, TypeOK, secVars

\* initSections() either has the whole table, or has thrown and has nothing.
LEMMA SectionsStep ==
  ASSUME IInv, phase = "open", UNCHANGED <<file, phase>>, NEW ok \in BOOLEAN,
         initSections(ok), Works \/ Fault, ~ok => Fault
  PROVE  /\ sectsLoaded' \in BOOLEAN /\ sects' \subseteq file.sections /\ secBufs' \in Nat
         /\ SectionsInv'
         /\ ok => sects' = file.sections
  <1>0. /\ sectsLoaded \in BOOLEAN /\ sects \subseteq file.sections /\ secBufs \in Nat
        /\ faults \in Nat /\ faults' \in Nat /\ faults' >= faults
        /\ file.shstrndx \in file.sections
    BY FaultLemma, MaxFaultsAssumption DEF IInv, TypeOK, SectionsInv
  <1>1. CASE sectsLoaded
    <2>1. ok /\ UNCHANGED secVars
      BY <1>1 DEF initSections
    <2>2. sects = file.sections
      BY <1>1 DEF IInv, SectionsInv
    <2> QED
      BY <2>1, <2>2, SectionsKept DEF secVars
  <1>2. CASE ~sectsLoaded
    <2>1. /\ secBufs' = secBufs + 1 /\ sectsLoaded' = ok
          /\ sects' = IF ok THEN file.sections ELSE sects
      BY <1>2 DEF initSections, loadSections
    <2>2. sects = {} /\ secBufs <= faults
      BY <1>2 DEF IInv, SectionsInv
    <2>3. ~ok => faults' = faults + 1
      BY DEF Fault
    <2>4. /\ secBufs' <= faults' + 1 /\ secBufs' \in Nat
          /\ ~sectsLoaded' => sects' = {} /\ secBufs' <= faults'
          /\ sectsLoaded' => sects' = file.sections
      <3>1. \A b, m, n \in Nat : b <= m /\ n >= m => b + 1 <= n + 1 /\ (n = m + 1 => b + 1 <= n)
        OBVIOUS
      <3>2. secBufs + 1 <= faults' + 1 /\ (~ok => secBufs + 1 <= faults')
        BY <1>0, <2>2, <2>3, <3>1
      <3>3. secBufs + 1 \in Nat
        BY <1>0
      <3>4. CASE ok
        BY <2>1, <3>2, <3>3, <3>4
      <3>5. CASE ~ok
        BY <2>1, <2>2, <3>2, <3>3, <3>5
      <3> QED
        BY <3>4, <3>5
    <2>5. SectionsInv'
      BY <1>0, <2>4 DEF SectionsInv
    <2> QED
      BY <1>0, <2>1, <2>4, <2>5
  <1> QED
    BY <1>0, <1>1, <1>2

LEMMA SectionsTableInv == IInv /\ SectionsTable => IInv'
  <1> SUFFICES ASSUME IInv, SectionsTable PROVE IInv'
    OBVIOUS
  <1>0. phase = "open" /\ UNCHANGED <<hdrVars, phData, segVars, secData, symVars, dbgVars>>
    BY DEF SectionsTable
  <1>1. Sane(phData', file.headers) /\ Sane(secData', file.sections)
    BY <1>0, SaneNow
  <1>2. raised \subseteq {"headers", "symbols"}
    BY DEF IInv, TypeOK
  <1>3. CASE initSections(TRUE) /\ Works /\ Answer("sections", 0, sects')
    <2>1. UNCHANGED <<file, phase, watch, raised>>
      BY <1>3 DEF Answer
    <2>2. sects' = file.sections
      BY <1>0, <1>3, <2>1, SectionsStep
    <2>3. watch = <<"sections", 0>> => sects' = Cache(watch)' /\ Answered'
      BY <2>1, <2>2 DEF Cache, Truth, Answered
    <2>4. Records
      BY <1>3, <2>3, AnswerRecords
    <2> QED
      BY <1>0, <1>1, <1>2, <1>3, <2>1, <2>4, SectionsStep, SymbolsKept, DebugKept, StoreCall
  <1>4. CASE initSections(FALSE) /\ Fault /\ Raise({})
    <2>1. Records /\ UNCHANGED <<file, phase, watch, raised>>
      BY <1>4, RaiseRecords
    <2> QED
      BY <1>0, <1>1, <1>2, <1>4, <2>1, SectionsStep, SymbolsKept, DebugKept, StoreCall
  <1> QED
    BY <1>3, <1>4 DEF SectionsTable

\* A call that reads contents only: secData and phData are all it assigns.
LEMMA ReadCall ==
  ASSUME IInv, phase = "open", UNCHANGED <<file, watch>>, phase' \in {phase, "aborted"},
         Works \/ Fault, UNCHANGED <<hdrVars, segVars, secVars, symVars, dbgVars, raised>>,
         Sane(phData', file.headers), Sane(secData', file.sections), Records
  PROVE  IInv'
  <1>1. raised \subseteq raised' /\ raised' \subseteq {"headers", "symbols"}
    BY DEF IInv, TypeOK
  <1> QED
    BY <1>1, SectionsKept, SymbolsKept, DebugKept, StoreCall

\* A call that fails an assertion leaves every cache as it was.
LEMMA AbortInv ==
  ASSUME IInv, phase = "open", UNCHANGED <<hdrVars, phData, segVars>>, Abort
  PROVE  IInv'
  <1>1. Sane(secData', file.sections) /\ Sane(phData', file.headers)
    BY SaneNow DEF Abort
  <1> QED
    BY <1>1, ReadCall DEF Abort, Works, Records

LEMMA HeaderContentInv ==
  ASSUME IInv, NEW p \in file.headers, HeaderContent(p)
  PROVE  IInv'
  <1>0. phase = "open" /\ UNCHANGED <<hdrVars, segVars, secVars, secData, symVars, dbgVars>>
    BY DEF HeaderContent
  <1>1. Sane(phData, file.headers) /\ Sane(secData', file.sections)
    BY <1>0, SaneNow
  <1>2. CASE /\ phData' = content(phData, {p})
             /\ Works /\ Answer("headerContent", p, Bytes(phData', p))
    <2>1. UNCHANGED <<file, phase, watch, raised>>
      BY <1>2 DEF Answer
    <2>2. Sane(phData', file.headers) /\ Bytes(phData', p) = {p}
      BY <1>1, <1>2, SaneLemma
    <2>3. watch = <<"headerContent", p>> => Bytes(phData', p) = Cache(watch)' /\ Answered'
      BY <2>1, <2>2 DEF Cache, Truth, Answered
    <2>4. Records
      BY <1>2, <2>3, AnswerRecords
    <2> QED
      BY <1>0, <1>1, <1>2, <2>1, <2>2, <2>4, ReadCall
  <1>3. CASE phData' = contentThrows(phData, p) /\ Fault /\ Raise({})
    <2>1. Records /\ UNCHANGED <<file, phase, watch, raised>>
      BY <1>3, RaiseRecords
    <2> QED
      BY <1>0, <1>1, <1>3, <2>1, ReadCall DEF contentThrows
  <1> QED
    BY <1>2, <1>3 DEF HeaderContent

LEMMA SectionContentInv ==
  ASSUME IInv, NEW s \in file.sections, SectionContent(s)
  PROVE  IInv'
  <1>0. phase = "open" /\ UNCHANGED <<hdrVars, phData, segVars, secVars, symVars, dbgVars>>
    BY DEF SectionContent
  <1>1. Sane(secData, file.sections) /\ Sane(phData', file.headers)
    BY <1>0, SaneNow
  <1>2. CASE /\ secData' = content(secData, {s})
             /\ Works /\ Answer("sectionContent", s, Bytes(secData', s))
    <2>1. UNCHANGED <<file, phase, watch, raised>>
      BY <1>2 DEF Answer
    <2>2. Sane(secData', file.sections) /\ Bytes(secData', s) = {s}
      BY <1>1, <1>2, SaneLemma
    <2>3. watch = <<"sectionContent", s>> => Bytes(secData', s) = Cache(watch)' /\ Answered'
      BY <2>1, <2>2 DEF Cache, Truth, Answered
    <2>4. Records
      BY <1>2, <2>3, AnswerRecords
    <2> QED
      BY <1>0, <1>1, <1>2, <2>1, <2>2, <2>4, ReadCall
  <1>3. CASE (Works \/ Fault) /\ (secData' = secData \/ secData' = name(secData)) /\ Raise({})
    <2>1. Records /\ UNCHANGED <<file, phase, watch, raised>>
      BY <1>3, RaiseRecords
    <2>2. Sane(secData', file.sections)
      BY <1>1, <1>3, SaneLemma DEF name
    <2> QED
      BY <1>0, <1>1, <1>3, <2>1, <2>2, ReadCall
  <1>4. CASE Abort
    BY <1>0, <1>4, AbortInv
  <1> QED
    BY <1>2, <1>3, <1>4 DEF SectionContent, contentThrows

\* A call that starts with initSections() and may then read sections.
LEMMA SearchCall ==
  ASSUME IInv, phase = "open", NEW ok \in BOOLEAN, initSections(ok),
         UNCHANGED <<file, phase, watch, raised>>, Works \/ Fault, ~ok => Fault,
         UNCHANGED <<hdrVars, phData, segVars, symVars>>,
         debugNew' \in BOOLEAN, debug' \subseteq file.sections,
         debugNew' => debug' = DebugSects(Len(file.debug)),
         Sane(secData', file.sections), Records
  PROVE  IInv'
  <1>1. Sane(phData', file.headers)
    BY SaneNow
  <1>2. raised \subseteq raised' /\ raised' \subseteq {"headers", "symbols"}
    BY DEF IInv, TypeOK
  <1> QED
    BY <1>1, <1>2, SectionsStep, SymbolsKept, StoreCall

LEMMA NameLemma ==
  ASSUME IInv, phase = "open"
  PROVE  /\ Sane(name(secData), file.sections)
         /\ name(secData)[file.shstrndx] = "filled"
  <1>1. file.shstrndx \in file.sections
    BY DEF IInv, SectionsInv
  <1> QED
    BY <1>1, SaneNow, SaneLemma DEF name

LEMMA FindSectionInv ==
  ASSUME IInv, NEW s \in file.sections, FindSection(s)
  PROVE  IInv'
  <1>0. phase = "open" /\ UNCHANGED <<hdrVars, phData, segVars, symVars, dbgVars>>
    BY DEF FindSection
  <1>1. Sane(secData, file.sections)
    BY SaneNow
  <1>2. CASE /\ initSections(TRUE) /\ secData' = name(secData) /\ Works
             /\ Answer("findSection", s,
                       IF secData'[file.shstrndx] = "filled" THEN {s} ELSE {})
    <2>1. UNCHANGED <<file, phase, watch, raised>>
      BY <1>2 DEF Answer
    <2>2. Sane(secData', file.sections) /\ secData'[file.shstrndx] = "filled"
      BY <1>0, <1>2, NameLemma
    <2>3. Answer("findSection", s, {s})
      BY <1>2, <2>2
    <2>4. watch = <<"findSection", s>> => {s} = Cache(watch)' /\ Answered'
      BY <2>1 DEF Cache, Truth, Answered
    <2>5. Records
      BY <2>3, <2>4, AnswerRecords
    <2> QED
      BY <1>0, <1>2, <2>1, <2>2, <2>5, DebugKept, SearchCall
  <1>3. CASE /\ initSections(FALSE) \/ initSections(TRUE)
             /\ Fault /\ secData' = secData /\ Raise({})
    <2>1. Records /\ UNCHANGED <<file, phase, watch, raised>>
      BY <1>3, RaiseRecords
    <2>2. Sane(secData', file.sections)
      BY <1>1, <1>3
    <2>3. PICK ok \in BOOLEAN : initSections(ok)
      BY <1>3
    <2> QED
      BY <1>0, <1>3, <2>1, <2>2, <2>3, DebugKept, SearchCall
  <1>4. CASE Abort
    BY <1>0, <1>4, AbortInv
  <1> QED
    BY <1>2, <1>3, <1>4 DEF FindSection, contentThrows

LEMMA DynsInv == IInv /\ Dyns => IInv'
  <1> SUFFICES ASSUME IInv, Dyns PROVE IInv'
    OBVIOUS
  <1>0. phase = "open" /\ UNCHANGED <<hdrVars, phData, segVars, secVars, symVars, dbgVars>>
    BY DEF Dyns
  <1>1. Sane(secData, file.sections) /\ Sane(phData', file.headers)
    BY <1>0, SaneNow
  <1>2. CASE Abort
    BY <1>0, <1>2, AbortInv
  <1>3. ASSUME NEW s \in sects \cap file.dynamics,
               \A t \in sects \cap file.dynamics : s <= t,
               \/ /\ secData' = content(secData, {s})
                  /\ Works /\ Answer("dyns", 0, Bytes(secData', s))
               \/ /\ secData' = secData /\ Fault /\ Raise({})
        PROVE  IInv'
    <2>1. CASE /\ secData' = content(secData, {s})
               /\ Works /\ Answer("dyns", 0, Bytes(secData', s))
      <3>1. UNCHANGED <<file, phase, watch, raised>>
        BY <2>1 DEF Answer
      <3>2. sects = file.sections
        BY <1>3 DEF IInv, SectionsInv
      <3>3. Sane(secData', file.sections) /\ Bytes(secData', s) = {s}
        BY <1>1, <1>3, <2>1, <3>2, SaneLemma
      <3>4. {d \in file.dynamics : \A t \in file.dynamics : d <= t} = {s}
        <4>1. file.dynamics \subseteq sects /\ file.sections \subseteq Nat
          BY <3>2, ShapeLemma DEF IInv, WellShaped
        <4> QED
          BY <1>3, <3>2, <4>1
      <3>5. watch = <<"dyns", 0>> => Bytes(secData', s) = Cache(watch)' /\ Answered'
        BY <3>1, <3>3, <3>4 DEF Cache, Truth, Answered
      <3>6. Records
        BY <2>1, <3>5, AnswerRecords
      <3> QED
        BY <1>0, <1>1, <2>1, <3>1, <3>3, <3>6, ReadCall
    <2>2. CASE secData' = secData /\ Fault /\ Raise({})
      <3>1. Records /\ UNCHANGED <<file, phase, watch, raised>>
        BY <2>2, RaiseRecords
      <3> QED
        BY <1>0, <1>1, <2>2, <3>1, ReadCall
    <2> QED
      BY <1>3, <2>1, <2>2
  <1> QED
    BY <1>2, <1>3 DEF Dyns, contentThrows

(***************************************************************************)
(* Symbols and debug lines.                                                *)
(***************************************************************************)
LEMMA fillThrows ==
  ASSUME NEW s, NEW data, Sane(data, file.sections), fillSymbolTableThrows(s, data)
  PROVE  Sane(secData', file.sections) /\ (Works \/ Fault)
  BY SaneLemma DEF fillSymbolTableThrows, name, contentThrows

\* A call of symbols() that loads: what the load leaves in *syms is the whole
\* table, or the exception is on record.
LEMMA SymbolsCall ==
  ASSUME IInv, phase = "open", NEW ok \in BOOLEAN, initSections(ok),
         UNCHANGED <<file, phase, watch>>, Works \/ Fault, ~ok => Fault,
         UNCHANGED <<hdrVars, phData, segVars, dbgVars>>,
         ~symsNew, symsNew' = TRUE, syms' \subseteq file.symtabs,
         raised' = raised \/ raised' = raised \cup {"symbols"},
         syms' = file.symtabs \/ "symbols" \in raised',
         Sane(secData', file.sections), Records
  PROVE  IInv'
  <1>1. Sane(phData', file.headers)
    BY SaneNow
  <1>2. raised \subseteq raised' /\ raised' \subseteq {"headers", "symbols"}
    BY DEF IInv, TypeOK
  <1>3. SymbolsInv'
    BY DEF SymbolsInv
  <1> QED
    BY <1>1, <1>2, <1>3, SectionsStep, DebugKept, StoreCall

LEMMA SymbolsInvStep == IInv /\ Symbols => IInv'
  <1> SUFFICES ASSUME IInv, Symbols PROVE IInv'
    OBVIOUS
  <1>0. phase = "open" /\ UNCHANGED <<hdrVars, phData, segVars, dbgVars>>
    BY DEF Symbols
  <1>1. Sane(secData, file.sections) /\ Sane(phData', file.headers)
    BY <1>0, SaneNow
  <1>2. CASE /\ symsNew
             /\ Works /\ UNCHANGED <<symVars, secVars, secData>>
             /\ Answer("symbols", 0, syms)
    <2>1. UNCHANGED <<file, phase, watch, raised>>
      BY <1>2 DEF Answer
    <2>2. watch = <<"symbols", 0>> => syms = Cache(watch)' /\ Answered'
      BY <1>2, <2>1 DEF Cache, Answered, symVars
    <2>3. Records
      BY <1>2, <2>2, AnswerRecords
    <2> QED
      BY <1>0, <1>1, <1>2, <2>1, <2>3, ReadCall
  <1>3. CASE /\ ~symsNew /\ symsNew' = TRUE
             /\ initSections(FALSE) /\ Fault
             /\ UNCHANGED <<syms, secData>> /\ Raise({"symbols"})
    <2>1. Records /\ UNCHANGED <<file, phase, watch>> /\ raised' = raised \cup {"symbols"}
      BY <1>3, RaiseRecords
    <2>2. syms' \subseteq file.symtabs
      BY <1>3 DEF IInv, TypeOK
    <2> QED
      BY <1>0, <1>1, <1>3, <2>1, <2>2, SymbolsCall
  <1>4. CASE /\ ~symsNew /\ symsNew' = TRUE /\ initSections(TRUE)
             /\ fillAll /\ Answer("symbols", 0, syms')
    <2>1. UNCHANGED <<file, phase, watch, raised>>
      BY <1>4 DEF Answer
    <2>2. watch = <<"symbols", 0>> => syms' = Cache(watch)' /\ Answered'
      BY <1>4, <2>1 DEF Cache, Answered
    <2>3. Records
      BY <1>4, <2>2, AnswerRecords
    <2>4. syms' = file.symtabs /\ Works /\ Sane(secData', file.sections)
      BY <1>1, <1>4, SaneLemma DEF fillAll
    <2> QED
      BY <1>0, <1>4, <2>1, <2>3, <2>4, SymbolsCall
  <1>5. ASSUME ~symsNew, symsNew' = TRUE, initSections(TRUE),
               NEW s \in file.symtabs, fillUpTo(s), Raise({"symbols"})
        PROVE  IInv'
    <2>1. Records /\ UNCHANGED <<file, phase, watch>> /\ raised' = raised \cup {"symbols"}
      BY <1>5, RaiseRecords
    <2>2. syms' \subseteq file.symtabs
      BY <1>5 DEF fillUpTo, Before
    <2>3. Sane(secData', file.sections) /\ (Works \/ Fault)
      BY <1>1, <1>5, SaneLemma, fillThrows DEF fillUpTo
    <2> QED
      BY <1>0, <1>5, <2>1, <2>2, <2>3, SymbolsCall
  <1>6. CASE Abort
    BY <1>0, <1>6, AbortInv
  <1> QED
    BY <1>2, <1>3, <1>4, <1>5, <1>6 DEF Symbols

LEMMA buildDebugLemma ==
  ASSUME IInv, phase = "open", NEW data, Sane(data, file.sections), buildDebug(data)
  PROVE  /\ UNCHANGED <<file, phase, watch, raised>> /\ (Works \/ Fault)
         /\ Sane(secData', file.sections) /\ Records
         /\ debugNew' \in BOOLEAN /\ debug' \subseteq file.sections
         /\ debugNew' => debug' = DebugSects(Len(file.debug))
  <1> DEFINE all == DebugSects(Len(file.debug))
  <1>0. all \subseteq file.sections
    BY ShapeLemma DEF IInv, WellShaped, DebugSects
  <1>1. CASE /\ secData' = content(data, all) /\ Works /\ debugNew' = TRUE
             /\ debug' = UNION {Bytes(secData', d) : d \in all}
             /\ Answer("debugLines", 0, debug')
    <2>1. UNCHANGED <<file, phase, watch, raised>>
      BY <1>1 DEF Answer
    <2>2. Sane(secData', file.sections) /\ \A d \in all : Bytes(secData', d) = {d}
      BY <1>0, <1>1, SaneLemma
    <2>3. debug' = all
      <3> HIDE DEF all
      <3> QED
        BY <1>1, <2>2
    <2>4. watch = <<"debugLines", 0>> => debug' = Cache(watch)' /\ Answered'
      BY <2>1, <2>3 DEF Cache, Truth, Answered, DebugSects
    <2>5. Records
      BY <1>1, <2>4, AnswerRecords
    <2> QED
      BY <1>0, <1>1, <2>1, <2>2, <2>3, <2>5
  <1>2. CASE /\ \E K : secData' = content(data, K)
             /\ (Works \/ Fault) /\ UNCHANGED dbgVars /\ Raise({})
    <2>1. Records /\ UNCHANGED <<file, phase, watch, raised>>
      BY <1>2, RaiseRecords
    <2>2. Sane(secData', file.sections)
      BY <1>2, SaneLemma
    <2> QED
      BY <1>2, <2>1, <2>2, DebugKept
  <1> QED
    BY <1>1, <1>2 DEF buildDebug, contentThrows

LEMMA DebugLinesInv == IInv /\ DebugLines => IInv'
  <1> SUFFICES ASSUME IInv, DebugLines PROVE IInv'
    OBVIOUS
  <1>0. phase = "open" /\ UNCHANGED <<hdrVars, phData, segVars, symVars>>
    BY DEF DebugLines
  <1>1. Sane(secData, file.sections) /\ Sane(phData', file.headers)
    BY <1>0, SaneNow
  <1>2. CASE /\ debugNew
             /\ Works /\ UNCHANGED <<dbgVars, secVars, secData>>
             /\ Answer("debugLines", 0, debug)
    <2>1. UNCHANGED <<file, phase, watch, raised>>
      BY <1>2 DEF Answer
    <2>2. debug = DebugSects(Len(file.debug))
      BY <1>2 DEF IInv, DataInv
    <2>3. watch = <<"debugLines", 0>> => debug = Cache(watch)' /\ Answered'
      BY <2>1, <2>2 DEF Cache, Truth, Answered, DebugSects
    <2>4. Records
      BY <1>2, <2>3, AnswerRecords
    <2> QED
      BY <1>0, <1>1, <1>2, <2>1, <2>4, ReadCall
  <1>3. CASE /\ initSections(TRUE) \/ initSections(FALSE)
             /\ Fault /\ UNCHANGED dbgVars /\ secData' = secData /\ Raise({})
    <2>1. Records /\ UNCHANGED <<file, phase, watch, raised>>
      BY <1>3, RaiseRecords
    <2>2. PICK ok \in BOOLEAN : initSections(ok)
      BY <1>3
    <2>3. Sane(secData', file.sections)
      BY <1>1, <1>3
    <2> QED
      BY <1>0, <1>3, <2>1, <2>2, <2>3, DebugKept, SearchCall
  <1>4. CASE initSections(TRUE) /\ buildDebug(name(secData))
    BY <1>0, <1>4, NameLemma, buildDebugLemma, SearchCall
  <1>5. CASE Abort
    BY <1>0, <1>5, AbortInv
  <1> QED
    BY <1>2, <1>3, <1>4, <1>5 DEF DebugLines, contentThrows

(***************************************************************************)
(* The invariant, and what follows from it.                                *)
(***************************************************************************)
LEMMA StutterInv == IInv /\ UNCHANGED vars => IInv'
  <1> SUFFICES ASSUME IInv, UNCHANGED vars PROVE IInv'
    OBVIOUS
  <1> USE DEF vars, hdrVars, segVars, secVars, symVars, dbgVars
  <1>1. TypeOK'
    BY DEF IInv, TypeOK, Questions
  <1>2. HeadersInv' /\ SectionsInv' /\ SymbolsInv' /\ DataInv'
    BY DEF IInv, HeadersInv, SectionsInv, SymbolsInv, DataInv, DebugSects
  <1>3. AnswersInv'
    BY DEF IInv, AnswersInv, Cache, Truth, DebugSects
  <1> QED
    BY <1>1, <1>2, <1>3 DEF IInv

LEMMA NextInv == IInv /\ [Next]_vars => IInv'
  BY OpenInv, DeleteInv, ProgramHeadersInv, SegmentsInv, SectionsTableInv,
     HeaderContentInv, SectionContentInv, FindSectionInv, DynsInv,
     SymbolsInvStep, DebugLinesInv, StutterInv DEF Next

\* The flags of elf::File agree with the caches they guard, in every state.
THEOREM Invariance == Spec => []IInv
  BY InitInv, NextInv, PTL DEF Spec

\* The fields keep their types.
THEOREM TypeCorrect == Spec => []TypeOK
  <1>1. IInv => TypeOK
    BY DEF IInv
  <1> QED
    BY <1>1, Invariance, PTL

\* One object never gives two answers to one question.
THEOREM AnswersAreStable == Spec => []AnswersStable
  <1>1. IInv => AnswersStable
    BY DEF IInv, AnswersInv, AnswersStable
  <1> QED
    BY <1>1, Invariance, PTL

\* Failed reads never spoil sections, contents, names, dynamic entries and
\* debug lines.
THEOREM RetryIsSafe == Spec => []RetrySafe
  <1>1. IInv => RetrySafe
    BY DEF IInv, AnswersInv, RetrySafe, RetrySafeQuestion, Cache
  <1> QED
    BY <1>1, Invariance, PTL

\* Program headers, segments and symbols are wrong only after an exception.
THEOREM WrongAfterThrowOnly == Spec => []WrongOnlyAfterThrow
  <1>1. IInv => WrongOnlyAfterThrow
    <2> SUFFICES ASSUME IInv, ~ answers \subseteq {Truth(watch)}
                 PROVE  \/ watch[1] \in {"programHeaders", "segments"} /\ "headers" \in raised
                        \/ watch[1] = "symbols" /\ "symbols" \in raised
      BY DEF WrongOnlyAfterThrow
    <2>1. answers # {} /\ Cache(watch) # Truth(watch)
      BY DEF IInv, AnswersInv
    <2>2. CASE watch[1] = "programHeaders"
      BY <2>1, <2>2 DEF IInv, AnswersInv, HeadersInv, Cache, Truth
    <2>3. CASE watch[1] = "segments"
      <3>1. segs = phs \cap file.loads /\ phBuf /\ segs # file.loads
        BY <2>1, <2>3 DEF IInv, AnswersInv, HeadersInv, Cache, Truth
      <3>2. file.loads \subseteq file.headers
        BY ShapeLemma DEF IInv, WellShaped
      <3> QED
        BY <2>3, <3>1, <3>2 DEF IInv, HeadersInv
    <2>4. CASE watch[1] = "symbols"
      BY <2>1, <2>4 DEF IInv, AnswersInv, SymbolsInv, Cache, Truth
    <2> QED
      BY <2>1, <2>2, <2>3, <2>4 DEF Cache
  <1> QED
    BY <1>1, Invariance, PTL

\* loadSections() costs at most one buffer per failed read, and one more.
THEOREM SecBufsAreBounded == Spec => []SecBufsBounded
  <1>1. IInv => SecBufsBounded
    BY DEF IInv, SectionsInv, SecBufsBounded
  <1> QED
    BY <1>1, Invariance, PTL

(***************************************************************************)
(* Refinement of FileAnswers.                                              *)
(***************************************************************************)
\* What any step does to the history: a call on an open object adds answers,
\* and only Open makes an open object.
StepShape ==
  /\ UNCHANGED <<file, watch>>
  /\ phase = "open" /\ phase' = "open" => answers \subseteq answers'
  /\ phase # "open" /\ phase' = "open" => phase = "closed" /\ answers' = answers

LEMMA AnswerShape ==
  ASSUME NEW op, NEW arg, NEW val, Answer(op, arg, val)
  PROVE  UNCHANGED <<file, phase, watch>> /\ answers \subseteq answers'
  BY DEF Answer

LEMMA RaiseShape ==
  ASSUME NEW tables, Raise(tables)
  PROVE  UNCHANGED <<file, phase, watch>> /\ answers \subseteq answers'
  BY DEF Raise

LEMMA AbortShape ==
  ASSUME Abort
  PROVE  UNCHANGED <<file, watch>> /\ phase' # "open" /\ answers \subseteq answers'
  BY DEF Abort

LEMMA NextShape == [Next]_vars => StepShape
  <1> USE AnswerShape, RaiseShape, AbortShape DEF StepShape
  <1>1. Open \/ OpenThrows \/ Delete => StepShape
    BY DEF Open, OpenThrows, Delete
  <1>2. ProgramHeaders \/ Segments \/ SectionsTable => StepShape
    BY DEF ProgramHeaders, Segments, SectionsTable
  <1>3. (\E p \in file.headers : HeaderContent(p)) => StepShape
    BY DEF HeaderContent
  <1>4. (\E s \in file.sections : SectionContent(s) \/ FindSection(s)) => StepShape
    BY DEF SectionContent, FindSection
  <1>5. Dyns => StepShape
    BY DEF Dyns
  <1>6. Symbols => StepShape
    BY DEF Symbols
  <1>7. DebugLines => StepShape
    <2>1. ASSUME NEW data, buildDebug(data)
          PROVE  UNCHANGED <<file, phase, watch>> /\ answers \subseteq answers'
      BY <2>1 DEF buildDebug
    <2> QED
      BY <2>1 DEF DebugLines
  <1>8. UNCHANGED vars => StepShape
    BY DEF vars
  <1> QED
    BY <1>1, <1>2, <1>3, <1>4, <1>5, <1>6, <1>7, <1>8 DEF Next

\* Nothing is done after an assertion, and only those named fail.
THEOREM AbortsAreExplained == Spec => []AbortsExplained
  <1>1. Init => AbortsExplained
    BY DEF Init, AbortsExplained
  <1>2. AbortsExplained /\ [Next]_vars => AbortsExplained'
    <2> SUFFICES ASSUME AbortsExplained, [Next]_vars PROVE AbortsExplained'
      OBVIOUS
    <2>1. ASSUME Abort, file.lost \cup file.stray # {} \/ sects \cap file.dynamics = {}
          PROVE  AbortsExplained'
      BY <2>1 DEF Abort, AbortsExplained, secVars
    <2>2. ASSUME phase' = phase, phase = "open"
          PROVE  AbortsExplained'
      BY <2>2 DEF AbortsExplained
    <2> USE AnswerShape, RaiseShape
    <2>3. CASE Open \/ OpenThrows \/ Delete
      BY <2>3 DEF Open, OpenThrows, Delete, AbortsExplained
    <2>4. CASE ProgramHeaders \/ Segments \/ SectionsTable
      BY <2>2, <2>4 DEF ProgramHeaders, Segments, SectionsTable
    <2>5. CASE \E p \in file.headers : HeaderContent(p)
      BY <2>2, <2>5 DEF HeaderContent
    <2>6. ASSUME NEW s \in file.sections, SectionContent(s) \/ FindSection(s)
          PROVE  AbortsExplained'
      BY <2>1, <2>2, <2>6 DEF SectionContent, FindSection, MeetsLost
    <2>7. CASE Dyns
      BY <2>1, <2>2, <2>7 DEF Dyns
    <2>8. CASE Symbols
      BY <2>1, <2>2, <2>8 DEF Symbols, Asserts
    <2>9. CASE DebugLines
      <3>1. ASSUME NEW data, buildDebug(data) PROVE phase' = phase
        BY <3>1 DEF buildDebug
      <3>2. CASE ~Named(Len(file.debug)) /\ Abort
        BY <3>2, <2>1 DEF Named, MeetsLost
      <3> QED BY <2>2, <2>9, <3>1, <3>2 DEF DebugLines
    <2>10. CASE UNCHANGED vars
      BY <2>10 DEF vars, secVars, AbortsExplained
    <2> QED BY <2>3, <2>4, <2>5, <2>6, <2>7, <2>8, <2>9, <2>10 DEF Next
  <1> QED BY <1>1, <1>2, PTL DEF Spec

\* Every step of elf::File is a step of FileAnswers, or none, for a question
\* whose loader may be called again after an exception.
THEOREM KeepsPromise == Spec => PromiseKept
  <1>1. Init => Promise!Init
    BY DEF Init, Promise!Init, shown
  <1>2. /\ IInv /\ IInv' /\ [Next]_vars
        => [Promise!Next]_<<Truth(watch), phase = "open", shown>>
    <2> SUFFICES ASSUME IInv, IInv', [Next]_vars
                 PROVE  [Promise!Next]_<<Truth(watch), phase = "open", shown>>
      OBVIOUS
    <2>1. StepShape
      BY NextShape
    <2>2. Truth(watch)' = Truth(watch) /\ RetrySafeQuestion' = RetrySafeQuestion
      BY <2>1 DEF StepShape, Truth, DebugSects, RetrySafeQuestion
    <2>3. RetrySafeQuestion => answers \subseteq {Truth(watch)} /\ answers' \subseteq {Truth(watch)}
      BY <2>2 DEF IInv, AnswersInv, Cache, RetrySafeQuestion
    <2>4. phase = "closed" => answers = {}
      BY DEF IInv, AnswersInv
    <2> HIDE DEF IInv
    <2>5. CASE ~RetrySafeQuestion
      <3>1. shown = {} /\ shown' = {}
        BY <2>2, <2>5 DEF shown
      <3>2. CASE phase = "open" /\ phase' # "open"
        BY <2>2, <3>1, <3>2 DEF Promise!Next, Promise!Close
      <3>3. CASE phase # "open" /\ phase' = "open"
        BY <2>2, <3>1, <3>3 DEF Promise!Next, Promise!Open
      <3>4. CASE (phase = "open") = (phase' = "open")
        BY <2>2, <3>1, <3>4
      <3> QED
        BY <3>2, <3>3, <3>4
    <2>6. CASE RetrySafeQuestion /\ phase = "open" /\ phase' = "open"
      <3>1. shown = answers /\ shown' = answers' /\ (phase = "open") = (phase = "open")'
        BY <2>2, <2>6 DEF shown
      <3>2. answers' = answers \/ answers' = {Truth(watch)}
        BY <2>1, <2>3, <2>6 DEF StepShape
      <3> QED
        BY <2>2, <2>6, <3>1, <3>2 DEF Promise!Next, Promise!Ask
    <2>7. CASE phase = "open" /\ phase' # "open"
      BY <2>2, <2>7 DEF Promise!Next, Promise!Close, shown
    <2>8. CASE phase # "open" /\ phase' = "open"
      BY <2>1, <2>2, <2>4, <2>8 DEF StepShape, Promise!Next, Promise!Open, shown
    <2>9. CASE phase # "open" /\ phase' # "open"
      BY <2>2, <2>9 DEF shown
    <2> QED
      BY <2>5, <2>6, <2>7, <2>8, <2>9
  <1> QED
    BY <1>1, <1>2, InitInv, NextInv, PTL DEF Spec, PromiseKept, Promise!Spec
=============================================================================
