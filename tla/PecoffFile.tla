----------------------------- MODULE PecoffFile -----------------------------
(***************************************************************************)
(* The lazy half of gel::pecoff::File (pecoff_File.cpp): the names and the *)
(* contents of sections, read at the first call that wants them and kept.  *)
(* A name of more than eight characters is in the string table of the      *)
(* file, which is read with the first such name.                           *)
(*                                                                         *)
(* The file holds size_of_raw_data bytes of a section, the memory          *)
(* virtual_size bytes; the buffer has virtual_size bytes, and what is      *)
(* written past its end may hit anything: such a write is without effect   *)
(* or ends the behaviour in phase "undefined".                             *)
(***************************************************************************)
EXTENDS Naturals, FiniteSets

CONSTANTS
  PeFiles,      \* the PE-COFF files a behaviour may open
  MaxPeFaults   \* bound: calls of the stream that fail

WellShaped(f) ==
  /\ f.sections \subseteq Nat
  /\ f.long \subseteq f.sections               \* name is '/' and an offset
  /\ f.far \subseteq f.long                    \* the offset is out of the string table
  /\ f.full \subseteq f.sections \ f.long      \* eight characters and no zero
  /\ f.raw \in [f.sections -> Nat]             \* size_of_raw_data
  /\ f.virtual \in [f.sections -> Nat]         \* virtual_size
  /\ f.cut \in BOOLEAN                         \* the file ends in the string table, or its size
                                               \* is below 4, which is taken off it

ASSUME PeFilesAssumption == \A f \in PeFiles : WellShaped(f)
ASSUME MaxPeFaultsAssumption == MaxPeFaults \in Nat

VARIABLES
  file,      \* what is on the stream
  phase,     \* "closed", "open", "undefined"
  peFaults,  \* calls of the stream that failed
  strings,   \* _string_table: "null", "right", "wrong"
  name,      \* Section::_name: "none", "right", "wrong"
  buf,       \* Section::_buf: "null", "right", "wrong"
  watch,     \* history: the question whose answers are recorded, any one
  answers,   \* history: what this object answered to it
  causes     \* history: what may have spoiled an answer: reads that left
             \* a buffer allocated and not filled

peVars == <<file, phase, peFaults, strings, name, buf, watch, answers, causes>>

Kept == {"right", "wrong"}
StringTable == <<"strings", 0>>

\* k calls of the stream fail.
Faults(k) == peFaults + k <= MaxPeFaults /\ peFaults' = peFaults + k

Empty(f) ==
  /\ strings' = "null" /\ name' = [s \in f.sections |-> "none"]
  /\ buf' = [s \in f.sections |-> "null"] /\ answers' = {} /\ causes' = {}

PeInit ==
  /\ file \in PeFiles
  /\ watch \in {"name", "content"} \X file.sections
  /\ phase = "closed" /\ peFaults = 0
  /\ strings = "null" /\ name = [s \in file.sections |-> "none"]
  /\ buf = [s \in file.sections |-> "null"] /\ answers = {} /\ causes = {}

\* The constructor, whose reads are those of Opening; the destructor.
PeOpen == phase = "closed" /\ phase' = "open" /\ Empty(file) /\ UNCHANGED <<file, peFaults, watch>>
Delete == phase = "open" /\ phase' = "closed" /\ Empty(file) /\ UNCHANGED <<file, peFaults, watch>>

Answer(op, s, val) ==
  answers' = IF watch = <<op, s>> THEN answers \cup {val} ELSE answers

(***************************************************************************)
(* getString(), called after k failures of the same call.                  *)
(***************************************************************************)
\* The table is there, filled or not; it is read; or moveTo() fails, nobody
\* asks, and a size and that many bytes are read from wherever the stream is.
GetsString(k) ==
  \/ strings # "null" /\ Faults(k) /\ UNCHANGED <<strings, causes>>
  \/ strings = "null" /\ ~file.cut /\ Faults(k) /\ strings' = "right" /\ UNCHANGED causes
  \/ strings = "null" /\ Faults(k + 1) /\ strings' = "wrong" /\ causes' = causes \cup {StringTable}

\* The size is not read: nothing is kept.
SizeThrows(k) == strings = "null" /\ Faults(k + 1) /\ UNCHANGED <<strings, causes>>

\* The bytes are not all read, because the stream fails, is misplaced, or the
\* file is cut: the table is kept.
StringsThrow(k) ==
  /\ strings = "null"
  /\ Faults(k + 1) \/ (file.cut /\ Faults(k))
  /\ strings' = "wrong" /\ causes' = causes \cup {StringTable}

(***************************************************************************)
(* Section::name().                                                        *)
(***************************************************************************)
\* What name() may leave in _name: nobody compares the offset with the table, nor
\* ends the copy of eight characters that is answered as a C string.
names(s) ==
  IF s \in file.full THEN Kept
  ELSE IF s \in file.far THEN {"wrong"}
  ELSE IF s \in file.long THEN {strings'} ELSE {"right"}
naming(s) == \E n \in names(s) : name' = [name EXCEPT ![s] = n]

\* name() returns.
Named(s, k) ==
  \/ name[s] # "none" /\ Faults(k) /\ UNCHANGED <<strings, causes, name>>
  \/ name[s] = "none" /\ s \notin file.long /\ Faults(k) /\ naming(s) /\ UNCHANGED <<strings, causes>>
  \/ name[s] = "none" /\ s \in file.long /\ GetsString(k) /\ naming(s)

\* name() throws.
Unnamed(s, k) ==
  /\ name[s] = "none" /\ s \in file.long
  /\ SizeThrows(k) \/ StringsThrow(k)
  /\ UNCHANGED name

Name(s) ==
  /\ phase = "open"
  /\ Named(s, 0)
  /\ Answer("name", s, name'[s])
  /\ UNCHANGED <<file, phase, buf, watch>>

NameThrows(s) ==
  /\ phase = "open"
  /\ Unnamed(s, 0)
  /\ UNCHANGED <<file, phase, buf, watch, answers>>

(***************************************************************************)
(* Section::buffer().                                                      *)
(***************************************************************************)
\* Writing w bytes from the start of the buffer, or clearing from its end on.
PutBytes(s, w) == IF w <= file.virtual[s] THEN phase' = phase ELSE phase' \in {phase, "undefined"}

\* What the first call writes: the raw bytes, and when they are fewer than the
\* virtual ones, as many zeros as are missing, from the end of the buffer on.
written(s) ==
  IF file.raw[s] < file.virtual[s] THEN file.virtual[s] + (file.virtual[s] - file.raw[s])
  ELSE file.raw[s]

\* The bytes above the raw ones are left as new[] gave them.
filled(s) == IF file.raw[s] < file.virtual[s] THEN Kept ELSE {"right"}

Buffer(s) ==
  /\ phase = "open"
  /\ \/ buf[s] # "null" /\ UNCHANGED <<buf, phase>>
     \/ buf[s] = "null" /\ PutBytes(s, written(s)) /\ \E b \in filled(s) : buf' = [buf EXCEPT ![s] = b]
  /\ Faults(0)
  /\ Answer("content", s, buf'[s])
  /\ UNCHANGED <<file, strings, name, watch, causes>>

\* Mutant: the buffer is not freed.
MoveThrowsKeeping(s) ==
  /\ phase = "open" /\ buf[s] = "null" /\ file.raw[s] # 0
  /\ Named(s, 1) \/ Unnamed(s, 1)
  /\ buf' = [buf EXCEPT ![s] = "wrong"]
  /\ UNCHANGED <<file, phase, watch, answers>>

\* moveTo() fails: the buffer is freed, and name() is called for the message.
MoveThrows(s) ==
  /\ phase = "open" /\ buf[s] = "null" /\ file.raw[s] # 0
  /\ Named(s, 1) \/ Unnamed(s, 1)
  /\ UNCHANGED <<file, phase, buf, watch, answers>>

\* Mutant: the content is read at each call.
ContentThrowsAgain(s) ==
  /\ phase = "open" /\ file.raw[s] # 0
  /\ Faults(1) /\ PutBytes(s, file.raw[s])
  /\ buf' = [buf EXCEPT ![s] = "wrong"]
  /\ causes' = causes \cup {<<"content", s>>}
  /\ UNCHANGED <<file, strings, name, watch, answers>>

\* The bytes are not all read: the buffer is kept.
ContentThrows(s) ==
  /\ phase = "open" /\ buf[s] = "null" /\ file.raw[s] # 0
  /\ Faults(1) /\ PutBytes(s, file.raw[s])
  /\ buf' = [buf EXCEPT ![s] = "wrong"]
  /\ causes' = causes \cup {<<"content", s>>}
  /\ UNCHANGED <<file, strings, name, watch, answers>>

(***************************************************************************)
(* symbols() returns without a value.                                      *)
(***************************************************************************)
Symbols ==
  /\ phase = "open"
  /\ phase' = "undefined"
  /\ UNCHANGED <<file, peFaults, strings, name, buf, watch, answers, causes>>

(***************************************************************************)
(* Specification.                                                          *)
(***************************************************************************)
PeNext ==
  \/ PeOpen \/ Delete \/ Symbols
  \/ \E s \in file.sections :
       Name(s) \/ NameThrows(s) \/ Buffer(s) \/ MoveThrows(s) \/ ContentThrows(s)

PeSpec == PeInit /\ [][PeNext]_peVars

(***************************************************************************)
(* Properties.                                                             *)
(***************************************************************************)
\* Every variable has its type; nothing is kept when no object exists.
PeTypeOK ==
  /\ file \in PeFiles
  /\ phase \in {"closed", "open", "undefined"}
  /\ peFaults \in 0..MaxPeFaults
  /\ strings \in {"null"} \cup Kept
  /\ name \in [file.sections -> {"none"} \cup Kept]
  /\ buf \in [file.sections -> {"null"} \cup Kept]
  /\ watch \in {"name", "content"} \X file.sections
  /\ answers \subseteq Kept
  /\ causes \subseteq {StringTable} \cup ({"content"} \X file.sections)

\* The name and the content of a section never change under a client, even
\* when they were kept by a call that threw.
AnswersStable == Cardinality(answers) <= 1

\* A long name is spoiled by its offset, by a read of the string table that
\* failed after its size or by a moveTo that failed unseen; a name of less than
\* eight characters by nothing.
NameCaused(s) == s \in file.far \cup file.full \/ (s \in file.long /\ StringTable \in causes)

\* A wrong answer has one of these causes, and no other call spoils it; those of
\* a content are a failed read of that very section (a failed moveTo is harmless)
\* and raw bytes fewer than the virtual ones.
\* The code: Section::name(), File::getString(), Section::buffer().
WrongHasCause ==
  "wrong" \in answers =>
    LET s == watch[2] IN
    CASE watch[1] = "content" ->
           <<"content", s>> \in causes \/ file.raw[s] < file.virtual[s]
      [] watch[1] = "name" -> NameCaused(s)
=============================================================================
