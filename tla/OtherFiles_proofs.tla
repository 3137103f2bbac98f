------------------------- MODULE OtherFiles_proofs -------------------------
(***************************************************************************)
(* Theorems of PecoffFile and CoffiFile, for any files and any number of   *)
(* failed calls of the stream and of openings.  The invariant of PE-COFF   *)
(* ties each recorded answer to the cache it came from, and each wrong     *)
(* cache to its cause; the one of COFF says which symbols exist while      *)
(* there is a table, and what each opening has left when it is over.       *)
(***************************************************************************)
EXTENDS PecoffFile, CoffiFile, FiniteSetTheorems, WellFoundedInduction, TLAPS

(***************************************************************************)
(* PE-COFF.                                                                *)
(***************************************************************************)
\* The cache the watched question is answered from.
Cache == IF watch[1] = "name" THEN name[watch[2]] ELSE buf[watch[2]]

\* Every answer is what the cache still holds.
FromCache == \A a \in answers : a = Cache

NamesCaused == \A s \in file.sections : name[s] = "wrong" => NameCaused(s)
BufsCaused ==
  \A s \in file.sections :
    buf[s] = "wrong" => <<"content", s>> \in causes \/ file.raw[s] < file.virtual[s]

Caused == /\ strings = "wrong" => StringTable \in causes
          /\ NamesCaused /\ BufsCaused

IInv == PeTypeOK /\ FromCache /\ Caused

(***************************************************************************)
(* What name() does to the caches, whether it returns or throws.           *)
(***************************************************************************)
\* A step that keeps what was kept, and finds a cause for what becomes wrong.
Keeping ==
  /\ peFaults' \in 0..MaxPeFaults
  /\ strings' \in {"null"} \cup Kept
  /\ name' \in [file.sections -> {"none"} \cup Kept]
  /\ \A s \in file.sections : name[s] # "none" => name'[s] = name[s]
  /\ causes \subseteq causes' /\ causes' \subseteq causes \cup {StringTable}
  /\ strings' = "wrong" => StringTable \in causes'
  /\ \A s \in file.sections :
       name'[s] = "wrong" => s \in file.far \cup file.full \/ (s \in file.long /\ StringTable \in causes')

LEMMA FaultsCount ==
  ASSUME PeTypeOK, NEW k \in Nat, Faults(k)
  PROVE  peFaults' \in 0..MaxPeFaults
BY MaxPeFaultsAssumption DEF PeTypeOK, Faults

LEMMA GetsStringKeeps ==
  ASSUME IInv, NEW k \in Nat, GetsString(k)
  PROVE  /\ peFaults' \in 0..MaxPeFaults /\ strings' \in Kept
         /\ causes \subseteq causes' /\ causes' \subseteq causes \cup {StringTable}
         /\ strings' = "wrong" => StringTable \in causes'
<1>1. peFaults' \in 0..MaxPeFaults
  BY FaultsCount DEF GetsString, IInv
<1>2. QED BY <1>1 DEF GetsString, IInv, PeTypeOK, Caused, Kept

LEMMA NamedKeeps ==
  ASSUME IInv, NEW s \in file.sections, NEW k \in Nat, Named(s, k)
  PROVE  Keeping /\ name'[s] \in Kept
<1>0. name \in [file.sections -> {"none"} \cup Kept]
  BY DEF IInv, PeTypeOK
<1>1. CASE name[s] # "none" /\ Faults(k) /\ UNCHANGED <<strings, causes, name>>
  <2>1. peFaults' \in 0..MaxPeFaults
    BY <1>1, FaultsCount DEF IInv
  <2>2. QED BY <1>0, <1>1, <2>1 DEF IInv, PeTypeOK, Caused, NamesCaused, NameCaused, Keeping, Kept
<1>2. CASE /\ name[s] = "none" /\ s \notin file.long /\ Faults(k) /\ naming(s)
           /\ UNCHANGED <<strings, causes>>
  <2>1. peFaults' \in 0..MaxPeFaults
    BY <1>2, FaultsCount DEF IInv
  <2>2. PICK n \in Kept : /\ name' = [name EXCEPT ![s] = n]
                          /\ n = "right" \/ s \in file.full
    <3>1. PICK n \in names(s) : name' = [name EXCEPT ![s] = n]
      BY <1>2 DEF naming
    <3>2. file.far \subseteq file.long
      BY PeFilesAssumption DEF IInv, PeTypeOK, WellShaped
    <3>3. QED BY <1>2, <3>1, <3>2 DEF names, Kept
  <2>3. name' \in [file.sections -> {"none"} \cup Kept] /\ name'[s] = n
    BY <1>0, <2>2
  <2>4. \A t \in file.sections : t # s => name'[t] = name[t]
    BY <1>0, <2>2
  <2>5. \A t \in file.sections : name'[t] = "wrong" => NameCaused(t)
    BY <2>2, <2>3, <2>4 DEF IInv, Caused, NamesCaused, NameCaused
  <2>6. QED BY <1>2, <2>1, <2>3, <2>4, <2>5 DEF IInv, PeTypeOK, Caused, NameCaused, Keeping, Kept
<1>3. CASE name[s] = "none" /\ s \in file.long /\ GetsString(k) /\ naming(s)
  <2>1. /\ peFaults' \in 0..MaxPeFaults /\ strings' \in Kept
        /\ causes \subseteq causes' /\ causes' \subseteq causes \cup {StringTable}
        /\ strings' = "wrong" => StringTable \in causes'
    BY <1>3, GetsStringKeeps
  <2>2. PICK n \in Kept : /\ name' = [name EXCEPT ![s] = n]
                          /\ n = strings' \/ s \in file.far \cup file.full
    <3>1. PICK n \in names(s) : name' = [name EXCEPT ![s] = n]
      BY <1>3 DEF naming
    <3>2. QED BY <1>3, <2>1, <3>1 DEF names, Kept
  <2>3. name' \in [file.sections -> {"none"} \cup Kept] /\ name'[s] = n
    BY <1>0, <2>2
  <2>4. \A t \in file.sections : t # s => name'[t] = name[t]
    BY <1>0, <2>2
  <2>5. ASSUME NEW t \in file.sections
        PROVE  name'[t] = "wrong" => t \in file.far \cup file.full \/ (t \in file.long /\ StringTable \in causes')
    <3>1. CASE t = s
      BY <1>3, <2>1, <2>2, <2>3, <3>1
    <3>2. CASE t # s
      BY <2>1, <2>4, <3>2 DEF IInv, Caused, NamesCaused, NameCaused
    <3>3. QED BY <3>1, <3>2
  <2>6. QED BY <1>3, <2>1, <2>3, <2>4, <2>5 DEF IInv, Keeping
<1>4. QED BY <1>1, <1>2, <1>3 DEF Named

LEMMA UnnamedKeeps ==
  ASSUME IInv, NEW s \in file.sections, NEW k \in Nat, Unnamed(s, k)
  PROVE  Keeping
<1>1. peFaults' \in 0..MaxPeFaults
  BY FaultsCount DEF Unnamed, SizeThrows, StringsThrow, IInv
<1>2. /\ strings' \in {"null"} \cup Kept
      /\ causes \subseteq causes' /\ causes' \subseteq causes \cup {StringTable}
      /\ strings' = "wrong" => StringTable \in causes'
  BY DEF Unnamed, SizeThrows, StringsThrow, IInv, PeTypeOK, Caused, Kept
<1>3. name' = name
  BY DEF Unnamed
<1>4. QED BY <1>1, <1>2, <1>3 DEF Keeping, IInv, PeTypeOK, Caused, NamesCaused, NameCaused

\* A call that keeps, and leaves the contents alone, keeps the invariant.
LEMMA KeepingKeeps ==
  ASSUME IInv, Keeping, UNCHANGED <<file, phase, buf, watch>>,
         \/ UNCHANGED answers
         \/ \E s \in file.sections : Answer("name", s, name'[s]) /\ name'[s] \in Kept
  PROVE  IInv'
<1>0. watch[1] \in {"name", "content"} /\ watch[2] \in file.sections
  BY DEF IInv, PeTypeOK
<1>1. PeTypeOK'
  <2>1. answers' \subseteq Kept
    BY DEF IInv, PeTypeOK, Answer
  <2>2. causes' \subseteq {StringTable} \cup ({"content"} \X file.sections)
    BY DEF IInv, PeTypeOK, Keeping
  <2>3. QED BY <2>1, <2>2 DEF IInv, PeTypeOK, Keeping
<1>2. FromCache'
  <2>1. SUFFICES ASSUME NEW a \in answers' PROVE a = Cache'
    BY DEF FromCache
  <2>2. CASE a \in answers
    <3>1. a = Cache /\ a \in Kept
      BY <2>2 DEF IInv, FromCache, PeTypeOK
    <3>2. CASE watch[1] = "name"
      BY <3>1, <3>2, <1>0 DEF Cache, Keeping, Kept
    <3>3. CASE watch[1] # "name"
      BY <3>1, <3>3 DEF Cache
    <3>4. QED BY <3>2, <3>3
  <2>3. CASE a \notin answers
    <3>1. PICK s \in file.sections : Answer("name", s, name'[s])
      BY <2>3
    <3>2. watch = <<"name", s>> /\ a = name'[s]
      BY <2>3, <3>1 DEF Answer
    <3>3. QED BY <3>2 DEF Cache
  <2>4. QED BY <2>2, <2>3
<1>3. Caused'
  BY DEF IInv, Caused, NamesCaused, NameCaused, BufsCaused, Keeping
<1>4. QED BY <1>1, <1>2, <1>3 DEF IInv

(***************************************************************************)
(* The actions.                                                            *)
(***************************************************************************)
LEMMA NameKeeps ==
  ASSUME IInv, NEW s \in file.sections, Name(s) \/ NameThrows(s) \/ MoveThrows(s)
  PROVE  IInv'
<1>1. CASE Name(s)
  BY <1>1, NamedKeeps, KeepingKeeps DEF Name
<1>2. CASE NameThrows(s)
  BY <1>2, UnnamedKeeps, KeepingKeeps DEF NameThrows
<1>3. CASE MoveThrows(s)
  BY <1>3, NamedKeeps, UnnamedKeeps, KeepingKeeps DEF MoveThrows
<1>4. QED BY <1>1, <1>2, <1>3

\* A step that fills at most the buffer of s, with a cause when it is wrong.
LEMMA BufKeeps ==
  ASSUME IInv, NEW s \in file.sections, NEW b \in Kept,
         buf' = [buf EXCEPT ![s] = b], buf[s] \in {"null", b},
         phase' \in {phase, "undefined"}, peFaults' \in 0..MaxPeFaults,
         UNCHANGED <<file, strings, name, watch>>,
         causes \subseteq causes' /\ causes' \subseteq causes \cup {<<"content", s>>},
         b = "wrong" => <<"content", s>> \in causes' \/ file.raw[s] < file.virtual[s],
         UNCHANGED answers \/ Answer("content", s, b)
  PROVE  IInv'
<1>0. buf \in [file.sections -> {"null"} \cup Kept] /\ watch \in {"name", "content"} \X file.sections
  BY DEF IInv, PeTypeOK
<1>b. /\ buf' \in [file.sections -> {"null"} \cup Kept] /\ buf'[s] = b
      /\ \A t \in file.sections : t # s => buf'[t] = buf[t]
  BY <1>0
<1>1. PeTypeOK'
  <2>1. answers' \subseteq Kept
    BY DEF IInv, PeTypeOK, Answer
  <2>2. causes' \subseteq {StringTable} \cup ({"content"} \X file.sections)
    BY DEF IInv, PeTypeOK
  <2>3. QED BY <1>b, <2>1, <2>2 DEF IInv, PeTypeOK
<1>2. FromCache'
  <2>1. SUFFICES ASSUME NEW a \in answers' PROVE a = Cache'
    BY DEF FromCache
  <2>2. CASE a \in answers
    <3>1. a = Cache /\ a # "null"
      BY <2>2 DEF IInv, FromCache, PeTypeOK, Kept
    <3>2. CASE watch[1] = "name"
      BY <3>1, <3>2 DEF Cache
    <3>3. CASE watch[1] # "name"
      <4>1. buf'[watch[2]] = buf[watch[2]]
        BY <3>1, <3>3, <1>0, <1>b DEF Cache
      <4>2. QED BY <3>1, <3>3, <4>1 DEF Cache
    <3>4. QED BY <3>2, <3>3
  <2>3. CASE a \notin answers
    <3>1. watch = <<"content", s>> /\ a = b
      BY <2>3 DEF Answer
    <3>2. QED BY <3>1, <1>b DEF Cache
  <2>4. QED BY <2>2, <2>3
<1>3. Caused'
  BY <1>b DEF IInv, Caused, NamesCaused, NameCaused, BufsCaused
<1>4. QED BY <1>1, <1>2, <1>3 DEF IInv

LEMMA BufferKeeps ==
  ASSUME IInv, NEW s \in file.sections, Buffer(s) \/ ContentThrows(s)
  PROVE  IInv'
<1>0. buf \in [file.sections -> {"null"} \cup Kept]
  BY DEF IInv, PeTypeOK
<1>1. CASE Buffer(s) /\ buf[s] # "null"
  <2>1. buf[s] \in Kept /\ buf' = [buf EXCEPT ![s] = buf[s]]
    BY <1>0, <1>1 DEF Buffer
  <2>2. buf[s] = "wrong" => <<"content", s>> \in causes \/ file.raw[s] < file.virtual[s]
    BY DEF IInv, Caused, BufsCaused
  <2>3. peFaults' \in 0..MaxPeFaults
    BY <1>1, FaultsCount DEF Buffer, IInv
  <2>4. Answer("content", s, buf[s]) /\ phase' = phase
    BY <1>1 DEF Buffer
  <2>5. UNCHANGED <<file, strings, name, watch, causes>>
    BY <1>1 DEF Buffer
  <2>6. QED BY <2>1, <2>2, <2>3, <2>4, <2>5, BufKeeps
<1>2. CASE Buffer(s) /\ buf[s] = "null"
  <2>1. PICK b \in filled(s) : buf' = [buf EXCEPT ![s] = b]
    BY <1>2 DEF Buffer
  <2>2. b \in Kept /\ (b = "wrong" => file.raw[s] < file.virtual[s])
    BY DEF filled, Kept
  <2>3. peFaults' \in 0..MaxPeFaults
    BY <1>2, FaultsCount DEF Buffer, IInv
  <2>4. phase' \in {phase, "undefined"}
    BY <1>2 DEF Buffer, PutBytes
  <2>5. Answer("content", s, b)
    BY <1>0, <1>2, <2>1 DEF Buffer
  <2>6. UNCHANGED <<file, strings, name, watch, causes>>
    BY <1>2 DEF Buffer
  <2>7. QED BY <1>2, <2>1, <2>2, <2>3, <2>4, <2>5, <2>6, BufKeeps
<1>3. CASE ContentThrows(s)
  <2>1. peFaults' \in 0..MaxPeFaults
    BY <1>3, FaultsCount DEF ContentThrows, IInv
  <2>2. phase' \in {phase, "undefined"}
    BY <1>3 DEF ContentThrows, PutBytes
  <2>3. "wrong" \in Kept /\ buf[s] = "null" /\ buf' = [buf EXCEPT ![s] = "wrong"]
    BY <1>3 DEF ContentThrows, Kept
  <2>4. causes' = causes \cup {<<"content", s>>} /\ UNCHANGED <<file, strings, name, watch, answers>>
    BY <1>3 DEF ContentThrows
  <2>5. QED BY <2>1, <2>2, <2>3, <2>4, BufKeeps
<1>4. QED BY <1>1, <1>2, <1>3

LEMMA LifeKeeps ==
  ASSUME IInv, PeOpen \/ Delete \/ Symbols
  PROVE  IInv'
<1>1. CASE PeOpen \/ Delete
  <2>1. PeTypeOK'
    BY <1>1 DEF IInv, PeTypeOK, PeOpen, Delete, Empty
  <2>2. FromCache' /\ Caused'
    BY <1>1 DEF PeOpen, Delete, Empty, FromCache, Caused, NamesCaused, NameCaused, BufsCaused
  <2>3. QED BY <2>1, <2>2 DEF IInv
<1>2. CASE Symbols
  BY <1>2 DEF Symbols, IInv, PeTypeOK, FromCache, Cache, Caused, NamesCaused, NameCaused, BufsCaused
<1>3. QED BY <1>1, <1>2

(***************************************************************************)
(* Theorems.                                                               *)
(***************************************************************************)
\* Answers come from caches that are never overwritten, and whatever is wrong
\* in a cache has a cause.
THEOREM Invariance == PeSpec => []IInv
<1>1. PeInit => IInv
  BY MaxPeFaultsAssumption DEF PeInit, IInv, PeTypeOK, FromCache, Caused, NamesCaused, NameCaused, BufsCaused
<1>2. IInv /\ [PeNext]_peVars => IInv'
  <2>1. SUFFICES ASSUME IInv, [PeNext]_peVars PROVE IInv'
    OBVIOUS
  <2>2. CASE PeOpen \/ Delete \/ Symbols
    BY <2>1, <2>2, LifeKeeps
  <2>3. ASSUME NEW s \in file.sections,
               Name(s) \/ NameThrows(s) \/ Buffer(s) \/ MoveThrows(s) \/ ContentThrows(s)
        PROVE  IInv'
    BY <2>1, <2>3, NameKeeps, BufferKeeps
  <2>4. CASE UNCHANGED peVars
    BY <2>1, <2>4 DEF peVars, IInv, PeTypeOK, FromCache, Cache, Caused, NamesCaused, NameCaused, BufsCaused
  <2>5. QED BY <2>1, <2>2, <2>3, <2>4 DEF PeNext
<1>3. QED BY <1>1, <1>2, PTL DEF PeSpec

\* The types of all variables.
THEOREM TypeCorrect == PeSpec => []PeTypeOK
<1>1. IInv => PeTypeOK
  BY DEF IInv
<1>2. QED BY <1>1, Invariance, PTL

\* Section::name() and Section::buffer() never change their mind.
THEOREM AnswersAreStable == PeSpec => []AnswersStable
<1>1. IInv => AnswersStable
  <2>1. SUFFICES ASSUME IInv PROVE Cardinality(answers) <= 1
    BY DEF AnswersStable
  <2>2. answers \subseteq {Cache}
    BY <2>1 DEF IInv, FromCache
  <2>3. CASE answers = {}
    BY <2>3, FS_EmptySet
  <2>4. CASE answers = {} \cup {Cache}
    BY <2>4, FS_EmptySet, FS_AddElement
  <2>5. QED BY <2>2, <2>3, <2>4
<1>2. QED BY <1>1, Invariance, PTL

\* What makes a name or a content wrong is a read that failed after its buffer
\* was kept, a move nobody checked, or a section the file holds only a part of.
THEOREM WrongAnswersHaveCauses == PeSpec => []WrongHasCause
<1>1. IInv => WrongHasCause
  <2>1. SUFFICES ASSUME IInv, "wrong" \in answers PROVE WrongHasCause
    BY DEF WrongHasCause
  <2>2. Cache = "wrong" /\ watch[1] \in {"name", "content"} /\ watch[2] \in file.sections
    BY <2>1 DEF IInv, FromCache, PeTypeOK
  <2>3. CASE watch[1] = "name"
    BY <2>1, <2>2, <2>3 DEF IInv, Cache, Caused, NamesCaused, NameCaused, WrongHasCause
  <2>4. CASE watch[1] = "content"
    BY <2>1, <2>2, <2>4 DEF IInv, Cache, Caused, BufsCaused, WrongHasCause
  <2>5. QED BY <2>2, <2>3, <2>4
<1>2. QED BY <1>1, Invariance, PTL

(***************************************************************************)
(* COFF.                                                                   *)
(***************************************************************************)
(***************************************************************************)
(* The first and the last symbol of a name.                                *)
(***************************************************************************)
LEMMA HasLeast ==
  ASSUME NEW T, T \subseteq Nat, T # {}
  PROVE  \E x \in T : \A y \in T : x <= y
  <1> DEFINE R == OpToRel(<, Nat)
  <1>1. IsWellFoundedOn(R, Nat)
    BY NatLessThanWellFounded
  <1>2. \A a, b \in Nat : <<a, b>> \in R <=> a < b
    BY DEF OpToRel
  <1> HIDE DEF R
  <1>3. PICK x \in T : \A y \in T : ~(<<y, x>> \in R)
    BY <1>1, WFMin
  <1>4. ASSUME NEW y \in T PROVE x <= y
    <2>1. x \in Nat /\ y \in Nat /\ ~(y < x)
      BY <1>2, <1>3
    <2>2. QED BY <2>1
  <1>5. QED BY <1>3, <1>4

LEMMA HasGreatest ==
  ASSUME NEW n \in Nat, NEW T, T \subseteq 1..n, T # {}
  PROVE  \E x \in T : \A y \in T : y <= x
  <1> DEFINE U == {n - i : i \in T}
  <1>1. U \subseteq Nat /\ U # {}
    <2>1. \A i \in T : i \in 1..n
      OBVIOUS
    <2>2. \A i \in T : n - i \in Nat
      BY <2>1
    <2>3. QED BY <2>2
  <1>2. PICK u \in U : \A v \in U : u <= v
    BY <1>1, HasLeast
  <1>3. PICK x \in T : u = n - x
    OBVIOUS
  <1>4. ASSUME NEW y \in T PROVE y <= x
    <2>1. n - x <= n - y
      BY <1>2, <1>3
    <2>2. x \in 1..n /\ y \in 1..n
      OBVIOUS
    <2>3. QED BY <2>1, <2>2
  <1>5. QED BY <1>4

LEMMA NamedOnes ==
  ASSUME CoffShaped(coffFile), NEW s \in Names(coffFile)
  PROVE  CoffNamed(s) # {} /\ CoffNamed(s) \subseteq 1..Len(coffFile.symbols) /\ Len(coffFile.symbols) \in Nat
BY DEF CoffShaped, Names, CoffNamed

LEMMA LastAndFirst ==
  ASSUME CoffShaped(coffFile), NEW s \in Names(coffFile)
  PROVE  LastOf(s) \in CoffNamed(s) /\ FirstOf(s) \in CoffNamed(s)
<1>1. /\ CoffNamed(s) # {} /\ CoffNamed(s) \subseteq 1..Len(coffFile.symbols)
      /\ Len(coffFile.symbols) \in Nat /\ CoffNamed(s) \subseteq Nat
  BY NamedOnes
<1>2. \E x \in CoffNamed(s) : \A y \in CoffNamed(s) : y <= x
  BY <1>1, HasGreatest
<1>3. \E x \in CoffNamed(s) : \A y \in CoffNamed(s) : x <= y
  BY <1>1, HasLeast
<1>4. QED BY <1>2, <1>3 DEF LastOf, FirstOf

(***************************************************************************)
(* The invariant.                                                          *)
(***************************************************************************)
\* The table has the last symbol of each name, and all the symbols put in it
\* exist; it is there only between symbols() and the destructor.
TableInv ==
  /\ ~symNew => symtab = <<>>
  /\ IF coffPhase = "closed" THEN ~symNew /\ symtab = <<>> ELSE opens # 0
  /\ \A s \in DOMAIN symtab : symtab[s] = LastOf(s)
  /\ DOMAIN symtab # {} => Objects("symbol", DOMAIN coffFile.symbols) \subseteq live

\* A symbol that exists is in use or hidden.
InUse(r) == coffPhase # "closed" /\ r[2] = opens /\ DOMAIN symtab = Names(coffFile)
Hidden(r) == r[3] # LastOf(coffFile.symbols[r[3]].name)
SymbolsInv ==
  \A r \in live : r[1] = "symbol" => r[3] \in DOMAIN coffFile.symbols /\ (InUse(r) \/ Hidden(r))

\* What is answered is what is kept; what is kept is the first section of debug
\* lines, unless the call that should have kept it threw.
AnswersInv ==
  /\ coffWatch[1] = "type" => coffAnswers \subseteq {type(LastOf(coffWatch[2]))}
  /\ coffWatch[1] = "debugLines" => coffAnswers \subseteq {debug} /\ (coffAnswers # {} => debugInit)
  /\ ~debugInit => debug = 0
  /\ debugInit /\ ~raised => IF debugSection = {} THEN debug = 0 ELSE debug \in debugSection

CoffIInv == CoffShaped(coffFile) /\ CoffTypeOK /\ TableInv /\ SymbolsInv /\ AnswersInv

LEMMA NoDomain == DOMAIN <<>> = {}
OBVIOUS

LEMMA InitInv == CoffInit => CoffIInv
<1>1. SUFFICES ASSUME CoffInit PROVE CoffIInv
  OBVIOUS
<1>0. DOMAIN symtab = {} /\ DOMAIN keys = {}
  BY <1>1, NoDomain DEF CoffInit
<1>2. CoffTypeOK /\ CoffShaped(coffFile)
  BY <1>0, <1>1 DEF CoffInit, CoffTypeOK
<1>3. TableInv /\ SymbolsInv /\ AnswersInv
  BY <1>0, <1>1 DEF CoffInit, TableInv, SymbolsInv, AnswersInv
<1>4. QED BY <1>2, <1>3 DEF CoffIInv

(***************************************************************************)
(* The actions.                                                            *)
(***************************************************************************)
\* What is read from the file does not change.
LEMMA SameFile ==
  ASSUME coffFile' = coffFile
  PROVE  /\ CoffShaped(coffFile)' <=> CoffShaped(coffFile)
         /\ Names(coffFile)' = Names(coffFile) /\ Questions(coffFile)' = Questions(coffFile)
         /\ \A s : CoffNamed(s)' = CoffNamed(s) /\ LastOf(s)' = LastOf(s)
         /\ \A i : type(i)' = type(i)
         /\ debugSection' = debugSection
<1>1. \A s : CoffNamed(s)' = CoffNamed(s)
  BY DEF CoffNamed
<1>2. \A s : LastOf(s)' = LastOf(s)
  BY <1>1 DEF LastOf
<1>3. \A i : type(i)' = type(i)
  BY DEF type, typeIn, containing
<1>4. QED BY <1>1, <1>2, <1>3 DEF CoffShaped, Names, Questions, debugSection

LEMMA OpenKeeps ==
  ASSUME CoffIInv, CoffOpen
  PROVE  CoffIInv'
<1>0. /\ coffFile' = coffFile /\ opens \in Nat /\ opens' = opens + 1 /\ coffPhase = "closed" /\ coffPhase' = "open"
      /\ UNCHANGED <<symNew, symtab, keys, debugInit, debug, coffWatch, coffAnswers, raised>>
  BY DEF CoffOpen, CoffIInv, CoffTypeOK
<1>n. DOMAIN coffFile.sections \subseteq Nat
  BY DEF CoffIInv, CoffShaped
<1>1. CoffTypeOK'
  <2>1. live' \subseteq {"section", "segment", "symbol", "debug"} \X (1..opens') \X Nat
    <3>1. \A i \in DOMAIN coffFile.sections : i \in Nat
      BY <1>n
    <3>2. opens' \in 1..opens' /\ 1..opens \subseteq 1..opens'
      BY <1>0
    <3>3. live \subseteq {"section", "segment", "symbol", "debug"} \X (1..opens') \X Nat
      BY <3>2 DEF CoffIInv, CoffTypeOK
    <3>4. QED BY <3>1, <3>2, <3>3 DEF CoffOpen
  <2>2. QED BY <1>0, <2>1, SameFile DEF CoffIInv, CoffTypeOK
<1>2. TableInv'
  BY <1>0, NoDomain DEF CoffIInv, TableInv
<1>3. SymbolsInv'
  <2>1. \A r \in live' : r[1] = "symbol" => r \in live
    BY DEF CoffOpen
  <2>2. \A r \in live : r[1] = "symbol" => r[3] \in DOMAIN coffFile.symbols /\ Hidden(r)
    BY <1>0 DEF CoffIInv, SymbolsInv, InUse
  <2>3. \A r : Hidden(r)' <=> Hidden(r)
    BY <1>0, SameFile DEF Hidden
  <2>4. QED BY <1>0, <2>1, <2>2, <2>3 DEF SymbolsInv
<1>4. AnswersInv'
  BY <1>0, SameFile DEF CoffIInv, AnswersInv
<1>5. QED BY <1>0, <1>1, <1>2, <1>3, <1>4, SameFile DEF CoffIInv

LEMMA DeleteKeeps ==
  ASSUME CoffIInv, CoffDelete
  PROVE  CoffIInv'
<1>0. /\ coffFile' = coffFile /\ coffPhase = "open" /\ coffPhase' = "closed" /\ live' = live \ deletedSymbols
      /\ symNew' = FALSE /\ symtab' = <<>> /\ keys' = <<>> /\ debugInit' = FALSE /\ debug' = 0
      /\ coffAnswers' = {} /\ raised' = FALSE /\ opens' = opens /\ coffWatch' = coffWatch
  BY DEF CoffDelete
<1>1. CoffTypeOK'
  BY <1>0, SameFile, NoDomain DEF CoffIInv, CoffTypeOK
<1>2. TableInv'
  BY <1>0, NoDomain DEF CoffIInv, TableInv
<1>3. SymbolsInv'
  <2>1. SUFFICES ASSUME NEW r \in live', r[1] = "symbol"
                 PROVE  r[3] \in DOMAIN coffFile.symbols /\ Hidden(r)
    BY <1>0, SameFile DEF SymbolsInv, Hidden
  <2>2. r \in live /\ r \notin deletedSymbols /\ r[3] \in DOMAIN coffFile.symbols
    BY <1>0, <2>1 DEF CoffIInv, SymbolsInv
  <2>3. ASSUME InUse(r) PROVE Hidden(r)
    <3>1. r = <<"symbol", opens, r[3]>>
      BY <2>1, <2>2, <2>3 DEF InUse, CoffIInv, CoffTypeOK
    <3>2. coffFile.symbols[r[3]].name \in DOMAIN symtab
      BY <2>2, <2>3 DEF InUse, Names
    <3>3. symtab[coffFile.symbols[r[3]].name] = LastOf(coffFile.symbols[r[3]].name)
      BY <3>2 DEF CoffIInv, TableInv
    <3>4. QED BY <2>2, <3>1, <3>2, <3>3 DEF Hidden, deletedSymbols, Objects
  <2>4. QED BY <2>1, <2>2, <2>3 DEF CoffIInv, SymbolsInv
<1>4. AnswersInv'
  BY <1>0 DEF CoffIInv, AnswersInv
<1>5. QED BY <1>0, <1>1, <1>2, <1>3, <1>4, SameFile DEF CoffIInv

\* The first call fills the table.
LEMMA PutAllKeeps ==
  ASSUME CoffIInv, coffPhase = "open", putAll, symNew' = TRUE,
         UNCHANGED <<coffFile, opens, coffPhase>>
  PROVE  /\ DOMAIN symtab' = Names(coffFile) /\ DOMAIN keys' = Names(coffFile)
         /\ \A s \in Names(coffFile) : symtab'[s] = LastOf(s) /\ keys'[s] = FirstOf(s)
         /\ live \subseteq live'
         /\ live' \subseteq {"section", "segment", "symbol", "debug"} \X (1..opens) \X Nat
         /\ TableInv' /\ SymbolsInv'
<1>1. /\ DOMAIN symtab' = Names(coffFile) /\ DOMAIN keys' = Names(coffFile)
      /\ \A s \in Names(coffFile) : symtab'[s] = LastOf(s) /\ keys'[s] = FirstOf(s)
      /\ live' = live \cup Objects("symbol", DOMAIN coffFile.symbols)
  BY DEF putAll
<1>2. live' \subseteq {"section", "segment", "symbol", "debug"} \X (1..opens) \X Nat
  <2>1. opens \in 1..opens
    BY DEF CoffIInv, CoffTypeOK, TableInv
  <2>2. DOMAIN coffFile.symbols \subseteq Nat
    BY DEF CoffIInv, CoffShaped
  <2>3. QED BY <1>1, <2>1, <2>2 DEF Objects, CoffIInv, CoffTypeOK
<1>3. TableInv'
  BY <1>1, SameFile DEF CoffIInv, TableInv, Objects
<1>4. SymbolsInv'
  <2>1. SUFFICES ASSUME NEW r \in live', r[1] = "symbol"
                 PROVE  r[3] \in DOMAIN coffFile.symbols /\ (InUse(r)' \/ Hidden(r))
    BY SameFile DEF SymbolsInv, Hidden
  <2>2. CASE r \in live
    <3>1. r[3] \in DOMAIN coffFile.symbols /\ (InUse(r) \/ Hidden(r))
      BY <2>1, <2>2 DEF CoffIInv, SymbolsInv
    <3>2. InUse(r) => InUse(r)'
      BY <1>1, SameFile DEF InUse
    <3>3. QED BY <3>1, <3>2
  <2>3. CASE r \in Objects("symbol", DOMAIN coffFile.symbols)
    BY <2>3, <1>1, SameFile DEF Objects, InUse
  <2>4. QED BY <1>1, <2>2, <2>3
<1>5. QED BY <1>1, <1>2, <1>3, <1>4

LEMMA TypesOfSymbols ==
  ASSUME NEW i
  PROVE  type(i) \in Types
BY DEF type, typeIn, Types

\* A client that looks its name up finds the type of the last symbol of the name.
LEMMA LookupAnswers ==
  ASSUME CoffIInv, Lookup, UNCHANGED <<coffFile, coffWatch, debug, debugInit, raised>>,
         \A s \in DOMAIN symtab' : symtab'[s] = LastOf(s)
  PROVE  AnswersInv' /\ coffAnswers' \subseteq (IF coffWatch[1] = "type" THEN Types ELSE Nat)
<1>1. CASE coffWatch[1] = "type" /\ coffWatch[2] \in DOMAIN symtab'
  <2>1. coffAnswers' = coffAnswers \cup {type(LastOf(coffWatch[2]))}
    BY <1>1, SameFile DEF Lookup
  <2>2. QED BY <1>1, <2>1, SameFile, TypesOfSymbols DEF CoffIInv, AnswersInv, CoffTypeOK
<1>2. CASE ~(coffWatch[1] = "type" /\ coffWatch[2] \in DOMAIN symtab')
  <2>1. coffAnswers' = coffAnswers
    BY <1>2 DEF Lookup
  <2>2. QED BY <2>1, SameFile DEF CoffIInv, AnswersInv, CoffTypeOK
<1>3. QED BY <1>1, <1>2

LEMMA SymbolsKeeps ==
  ASSUME CoffIInv, CoffSymbols
  PROVE  CoffIInv'
<1>0. /\ UNCHANGED <<coffFile, opens, debugInit, debug, coffWatch, raised>>
      /\ coffPhase = "open" /\ symNew' = TRUE
  BY DEF CoffSymbols
<1>1. CASE UNCHANGED <<coffPhase, live, symtab, keys>> /\ Lookup
  <2>1. \A s \in DOMAIN symtab' : symtab'[s] = LastOf(s)
    BY <1>1 DEF CoffIInv, TableInv
  <2>2. AnswersInv' /\ coffAnswers' \subseteq (IF coffWatch[1] = "type" THEN Types ELSE Nat)
    BY <1>0, <2>1, <1>1, LookupAnswers
  <2>3. CoffTypeOK'
    BY <1>0, <1>1, <2>2, SameFile DEF CoffIInv, CoffTypeOK
  <2>4. TableInv'
    BY <1>0, <1>1, SameFile DEF CoffIInv, TableInv, Objects
  <2>5. SymbolsInv'
    BY <1>0, <1>1, SameFile DEF CoffIInv, SymbolsInv, InUse, Hidden
  <2>6. QED BY <1>0, <2>2, <2>3, <2>4, <2>5, SameFile DEF CoffIInv
<1>2. CASE putAll /\ UNCHANGED coffPhase /\ Lookup
  <2>1. /\ DOMAIN symtab' = Names(coffFile) /\ DOMAIN keys' = Names(coffFile)
        /\ \A s \in Names(coffFile) : symtab'[s] = LastOf(s) /\ keys'[s] = FirstOf(s)
        /\ live' \subseteq {"section", "segment", "symbol", "debug"} \X (1..opens) \X Nat
        /\ TableInv' /\ SymbolsInv'
    BY <1>0, <1>2, PutAllKeeps
  <2>2. AnswersInv' /\ coffAnswers' \subseteq (IF coffWatch[1] = "type" THEN Types ELSE Nat)
    BY <1>0, <1>2, <2>1, LookupAnswers
  <2>3. \A s \in Names(coffFile) : LastOf(s) \in CoffNamed(s) /\ FirstOf(s) \in CoffNamed(s)
    BY LastAndFirst DEF CoffIInv
  <2>4. CoffTypeOK'
    BY <1>0, <1>2, <2>1, <2>2, <2>3, SameFile DEF CoffIInv, CoffTypeOK
  <2>5. QED BY <1>0, <2>1, <2>2, <2>4, SameFile DEF CoffIInv
<1>3. CASE coffPhase' \in {"undefined", "aborted"} /\ UNCHANGED <<live, symtab, keys, coffAnswers>>
  <2>1. CoffTypeOK'
    BY <1>0, <1>3, SameFile DEF CoffIInv, CoffTypeOK
  <2>2. TableInv'
    BY <1>0, <1>3, SameFile DEF CoffIInv, TableInv, Objects
  <2>3. SymbolsInv'
    BY <1>0, <1>3, SameFile DEF CoffIInv, SymbolsInv, InUse, Hidden
  <2>4. AnswersInv'
    BY <1>0, <1>3, SameFile DEF CoffIInv, AnswersInv
  <2>5. QED BY <1>0, <2>1, <2>2, <2>3, <2>4, SameFile DEF CoffIInv
<1>4. QED BY <1>1, <1>2, <1>3 DEF CoffSymbols

LEMMA Watched ==
  ASSUME CoffIInv
  PROVE  /\ coffWatch[1] \in {"type", "debugLines"}
         /\ coffWatch = <<"debugLines", "">> => coffWatch[1] = "debugLines"
         /\ coffWatch[1] # "type" => coffWatch = <<"debugLines", "">>
<1>1. CASE coffWatch \in {"type"} \X Names(coffFile)
  <2>1. coffWatch[1] = "type"
    BY <1>1
  <2>2. ASSUME coffWatch = <<"debugLines", "">> PROVE coffWatch[1] = "debugLines"
    BY <2>2
  <2>3. QED BY <2>1, <2>2
<1>2. CASE coffWatch = <<"debugLines", "">>
  <2>1. coffWatch[1] = "debugLines"
    BY <1>2
  <2>2. QED BY <1>2, <2>1
<1>3. QED BY <1>1, <1>2 DEF CoffIInv, CoffTypeOK, Questions

\* There is at most one first section of debug lines.
LEMMA OneDebugSection ==
  ASSUME CoffShaped(coffFile)
  PROVE  debugSection \subseteq Nat /\ \A i, j \in debugSection : i = j
<1>1. DOMAIN coffFile.sections \subseteq Nat
  BY DEF CoffShaped
<1>2. debugSection \subseteq Nat
  BY <1>1 DEF debugSection
<1>3. \A i, j \in debugSection : i <= j /\ j <= i
  BY DEF debugSection
<1>4. QED BY <1>2, <1>3

LEMMA DebugLinesKeeps ==
  ASSUME CoffIInv, DebugLines
  PROVE  CoffIInv'
<1>0. /\ UNCHANGED <<coffFile, coffPhase, opens, symNew, symtab, keys, coffWatch>>
      /\ coffPhase = "open" /\ debugInit' = TRUE
  BY DEF DebugLines
<1>d. /\ coffWatch[1] \in {"type", "debugLines"}
      /\ coffWatch = <<"debugLines", "">> => coffWatch[1] = "debugLines"
      /\ coffWatch[1] # "type" => coffWatch = <<"debugLines", "">>
  BY Watched
<1>1. CASE debugInit /\ UNCHANGED <<debug, live, raised>> /\ CoffAnswer(<<"debugLines", "">>, debug)
  <2>1. coffAnswers' \subseteq coffAnswers \cup {debug} /\ (coffWatch[1] = "type" => coffAnswers' = coffAnswers)
    BY <1>1, <1>d DEF CoffAnswer
  <2>2. CoffTypeOK'
    BY <1>0, <1>1, <1>d, <2>1, SameFile DEF CoffIInv, CoffTypeOK
  <2>3. TableInv' /\ SymbolsInv'
    BY <1>0, <1>1, SameFile DEF CoffIInv, TableInv, SymbolsInv, InUse, Hidden, Objects
  <2>4. AnswersInv'
    BY <1>0, <1>1, <2>1, SameFile DEF CoffIInv, AnswersInv
  <2>5. QED BY <1>0, <2>2, <2>3, <2>4, SameFile DEF CoffIInv
<1>2. CASE /\ ~debugInit /\ debugSection = {}
           /\ UNCHANGED <<debug, live, raised>> /\ CoffAnswer(<<"debugLines", "">>, 0)
  <2>1. /\ coffAnswers' \subseteq coffAnswers \cup {0} /\ (coffWatch[1] = "type" => coffAnswers' = coffAnswers)
        /\ debug = 0 /\ (coffWatch[1] = "debugLines" => coffAnswers = {})
    BY <1>2, <1>d DEF CoffAnswer, CoffIInv, AnswersInv
  <2>2. CoffTypeOK'
    BY <1>0, <1>2, <1>d, <2>1, SameFile DEF CoffIInv, CoffTypeOK
  <2>3. TableInv' /\ SymbolsInv'
    BY <1>0, <1>2, SameFile DEF CoffIInv, TableInv, SymbolsInv, InUse, Hidden, Objects
  <2>4. AnswersInv'
    BY <1>0, <1>2, <2>1, SameFile DEF CoffIInv, AnswersInv
  <2>5. QED BY <1>0, <2>2, <2>3, <2>4, SameFile DEF CoffIInv
<1>3. CASE /\ ~debugInit
           /\ \E i \in debugSection : debug' = i /\ live' = live \cup Objects("debug", {i})
           /\ UNCHANGED raised /\ CoffAnswer(<<"debugLines", "">>, debug')
  <2>0. PICK i \in debugSection : debug' = i /\ live' = live \cup Objects("debug", {i})
    BY <1>3
  <2>1. /\ coffAnswers' \subseteq coffAnswers \cup {debug'} /\ (coffWatch[1] = "type" => coffAnswers' = coffAnswers)
        /\ (coffWatch[1] = "debugLines" => coffAnswers = {}) /\ i \in Nat
    BY <1>3, <1>d, OneDebugSection DEF CoffAnswer, CoffIInv, AnswersInv
  <2>2. live' \subseteq {"section", "segment", "symbol", "debug"} \X (1..opens) \X Nat
    <3>1. opens \in 1..opens
      BY <1>0 DEF CoffIInv, CoffTypeOK, TableInv
    <3>2. QED BY <2>0, <2>1, <3>1 DEF Objects, CoffIInv, CoffTypeOK
  <2>3. CoffTypeOK'
    BY <1>0, <1>3, <1>d, <2>0, <2>1, <2>2, SameFile DEF CoffIInv, CoffTypeOK
  <2>4. TableInv' /\ SymbolsInv'
    BY <1>0, <2>0, SameFile DEF CoffIInv, TableInv, SymbolsInv, InUse, Hidden, Objects
  <2>5. AnswersInv'
    BY <1>0, <1>3, <2>0, <2>1, SameFile DEF CoffIInv, AnswersInv
  <2>6. QED BY <1>0, <2>3, <2>4, <2>5, SameFile DEF CoffIInv
<1>4. CASE ~debugInit /\ raised' = TRUE /\ UNCHANGED <<debug, live, coffAnswers>>
  <2>1. CoffTypeOK'
    BY <1>0, <1>4, SameFile DEF CoffIInv, CoffTypeOK
  <2>2. TableInv' /\ SymbolsInv'
    BY <1>0, <1>4, SameFile DEF CoffIInv, TableInv, SymbolsInv, InUse, Hidden, Objects
  <2>3. AnswersInv'
    BY <1>0, <1>4, SameFile DEF CoffIInv, AnswersInv
  <2>4. QED BY <1>0, <2>1, <2>2, <2>3, SameFile DEF CoffIInv
<1>5. QED BY <1>1, <1>2, <1>3, <1>4 DEF DebugLines

LEMMA NumbersAreNat ==
  ASSUME CoffShaped(coffFile)
  PROVE  /\ \A i \in DOMAIN coffFile.symbols : coffFile.symbols[i].number \in Nat
         /\ Len(coffFile.sections) \in Nat /\ DOMAIN coffFile.sections = 1..Len(coffFile.sections)
<1> DEFINE Record == [name : STRING, number : Nat, typed : BOOLEAN, label : BOOLEAN]
<1>1. coffFile.symbols \in Seq(Record)
  BY DEF CoffShaped
<1>2. \A i \in DOMAIN coffFile.symbols : coffFile.symbols[i] \in Record
  <2> HIDE DEF Record
  <2>1. QED BY <1>1
<1>3. \A x \in Record : x.number \in Nat
  OBVIOUS
<1>4. QED BY <1>2, <1>3 DEF CoffShaped

(***************************************************************************)
(* The theorems.                                                           *)
(***************************************************************************)
\* CoffIInv is an invariant: the table names living symbols, the last of each name,
\* and what exists beside them is hidden by them.
THEOREM CoffInvariance == CoffSpec => []CoffIInv
<1>1. CoffIInv /\ [CoffNext]_coffVars => CoffIInv'
  <2>1. SUFFICES ASSUME CoffIInv, [CoffNext]_coffVars PROVE CoffIInv'
    OBVIOUS
  <2>2. CASE UNCHANGED coffVars
    BY <2>1, <2>2, SameFile DEF coffVars, CoffIInv, CoffTypeOK, TableInv, SymbolsInv, InUse, Hidden, AnswersInv, Objects
  <2>3. QED BY <2>1, <2>2, OpenKeeps, SymbolsKeeps, DebugLinesKeeps, DeleteKeeps DEF CoffNext
<1>2. QED BY <1>1, InitInv, PTL DEF CoffSpec

\* The members of coffi::File keep their types.
THEOREM CoffTypeCorrect == CoffSpec => []CoffTypeOK
<1>1. CoffIInv => CoffTypeOK
  BY DEF CoffIInv
<1>2. QED BY <1>1, CoffInvariance, PTL

\* The keys of _symtab point into symbols that exist, and so do its values:
\* replacing a symbol does not free its name, and nothing else deletes one
\* before the table is gone.
THEOREM KeysAreAlive == CoffSpec => []KeysAlive
<1>1. CoffIInv => KeysAlive
  <2>1. SUFFICES ASSUME CoffIInv, NEW s \in DOMAIN symtab
                 PROVE  Objects("symbol", {keys[s], symtab[s]}) \subseteq live
    BY DEF KeysAlive
  <2>2. keys[s] \in DOMAIN coffFile.symbols /\ symtab[s] \in DOMAIN coffFile.symbols
    BY <2>1 DEF CoffIInv, CoffTypeOK, CoffNamed
  <2>3. Objects("symbol", DOMAIN coffFile.symbols) \subseteq live
    BY <2>1 DEF CoffIInv, TableInv
  <2>4. QED BY <2>2, <2>3 DEF Objects
<1>2. QED BY <1>1, CoffInvariance, PTL

\* ~File() leaves no symbol but those that another of the same name put out of
\* the table, however many times files are opened.
THEOREM LeaksAreHidden == CoffSpec => []HiddenOnly
<1>1. CoffIInv => HiddenOnly
  <2>1. SUFFICES ASSUME CoffIInv, NEW r \in live, r[1] = "symbol", r[2] < opens \/ coffPhase = "closed"
                 PROVE  r[3] \in DOMAIN coffFile.symbols /\ Hidden(r)
    BY DEF HiddenOnly, Hidden
  <2>2. opens \in Nat /\ r[2] \in Nat
    BY <2>1 DEF CoffIInv, CoffTypeOK
  <2>3. ~InUse(r)
    BY <2>1, <2>2 DEF InUse
  <2>4. QED BY <2>1, <2>3 DEF CoffIInv, SymbolsInv
<1>2. QED BY <1>1, CoffInvariance, PTL

\* A symbol of a section that is not the last has the type of its section, and
\* debugLines() is right as long as it has not thrown.
THEOREM CoffWrongAnswersHaveCauses == CoffSpec => []CoffWrongHasCause
<1>1. CoffIInv => CoffWrongHasCause
  <2>1. SUFFICES ASSUME CoffIInv, ~ coffAnswers \subseteq Truth(coffWatch) PROVE CoffWrongHasCause
    BY DEF CoffWrongHasCause
  <2>2. CASE coffWatch[1] = "type"
    <3> DEFINE i == LastOf(coffWatch[2])
    <3>1. i \in DOMAIN coffFile.symbols
      BY <2>1, <2>2, Watched, LastAndFirst DEF CoffIInv, CoffTypeOK, Questions, CoffNamed
    <3>2. coffFile.symbols[i].number \in Nat /\ Len(coffFile.sections) \in Nat
          /\ DOMAIN coffFile.sections = 1..Len(coffFile.sections)
      BY <2>1, <3>1, NumbersAreNat DEF CoffIInv
    <3>3. type(i) # trueType(i)
      BY <2>1, <2>2 DEF CoffIInv, AnswersInv, Truth
    <3>4. coffFile.symbols[i].number = Len(coffFile.sections)
      BY <3>2, <3>3 DEF type, trueType, containing
    <3>5. QED BY <2>2, <3>4 DEF CoffWrongHasCause
  <2>3. CASE coffWatch[1] = "debugLines"
    BY <2>1, <2>3 DEF CoffIInv, AnswersInv, Truth, CoffWrongHasCause, OneDebugSection
  <2>4. QED BY <2>1, <2>2, <2>3, Watched
<1>2. QED BY <1>1, CoffInvariance, PTL

\* The table of symbols neither dangles nor is forgotten by the destructor.
THEOREM TableIsRight == CoffSpec => []CoffTableRight
<1>1. KeysAlive /\ HiddenOnly => CoffTableRight
  BY DEF CoffTableRight
<1>2. QED BY <1>1, KeysAreAlive, LeaksAreHidden, PTL
=============================================================================
