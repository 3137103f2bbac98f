------------------------------ MODULE Opening ------------------------------
(***************************************************************************)
(* Opening and deleting files: gel::Manager::openFile (gel_Manager.cpp),   *)
(* the constructors it ends in and their destructors (elf_File32.cpp,      *)
(* elf_File64.cpp, pecoff_File.cpp, coffi_File.cpp).                       *)
(*                                                                         *)
(* A constructor reads the file in stages; any read may fail and any stage *)
(* may find the content wrong, and the call then ends with a               *)
(* gel::Exception.  What a call has acquired at that point goes back only  *)
(* if some destructor runs: C++ runs those of the base classes that are    *)
(* complete, not the one of the class under construction.                  *)
(*                                                                         *)
(* A file is its magic number and the set of the stages its content passes.*)
(***************************************************************************)
EXTENDS Naturals, FiniteSets

\* The stages of the calls, each a read of the stream and a check of what it got.
Stages == {"magic", "ident", "header",                            \* ELF
           "offset", "signature", "fields", "windows",            \* PE-COFF
           "directories", "table",
           "load"}                                                \* COFF
Magics == {"ELF", "COFF", "PE", "other"}
Kinds == {"ELF", "COFF", "PE"}

CONSTANTS
  Files,       \* records [magic, valid]
  HasCoffi,    \* the library is built with COFFI
  MaxStreams,  \* streams the process may have open
  MaxCalls,    \* bound: calls of openFile and openELFFile
  MaxFaults    \* bound: system calls that fail

ASSUME FilesAssumption ==
  \A f \in Files : /\ f.magic \in Magics /\ f.valid \subseteq Stages
                   /\ f.magic # "ELF" => "ident" \notin f.valid
ASSUME ConstantsAssumption ==
  HasCoffi \in BOOLEAN /\ MaxStreams \in Nat /\ MaxCalls \in Nat /\ MaxFaults \in Nat

VARIABLES
  calls,    \* calls so far; the last one is the call under way, if any
  stage,    \* the stage the call is at, "idle" outside a call
  file,     \* the file each call opens
  live,     \* resources acquired and not released: pairs <<sort, call>>
  kind,     \* class of the object each call has built
  faults,   \* system calls that failed
  slips,    \* those nobody noticed: pairs <<what, call>>
  deleted,  \* history: calls whose object was deleted
  threw     \* history: calls that threw

openingVars == <<calls, stage, file, live, kind, faults, slips, deleted, threw>>

Sorts == {"stream", "ehdr", "directories", "table", "sections", "reader"}
OpenStreams == {r \in live : r[1] = "stream"}
Objects == DOMAIN kind \ deleted

Works == UNCHANGED <<faults, slips>>
Fault == faults < MaxFaults /\ faults' = faults + 1 /\ UNCHANGED slips
Slip(what) ==
  faults < MaxFaults /\ faults' = faults + 1 /\ slips' = slips \cup {<<what, calls>>}

\* The magic number of the call was not read; its stream was not moved back after
\* it; nor before the PE32+ fields, which are read four bytes too far.
Slips == {"magic", "reset", "back"}
Unread(n) == <<"magic", n>> \in slips
Misplaced(n) == <<"reset", n>> \in slips
Shifted(n) == <<"back", n>> \in slips

OpeningInit ==
  /\ calls = 0 /\ stage = "idle" /\ file = <<>>
  /\ live = {} /\ kind = <<>> /\ faults = 0 /\ slips = {}
  /\ deleted = {} /\ threw = {}

\* A function that also has value v at n.
With(f, n, v) == [m \in DOMAIN f \cup {n} |-> IF m = n THEN v ELSE f[m]]

(***************************************************************************)
(* The end of a call.                                                      *)
(***************************************************************************)
\* What the unwinding of the stack releases: ~elf::File(), the base class of
\* File32 and File64, deletes the stream.  Nothing else has an owner yet.
unwound(n) == IF stage = "header" THEN {<<"stream", n>>} ELSE {}

CallThrows ==
  /\ stage' = "idle"
  /\ live' = live \ unwound(calls)
  /\ threw' = threw \cup {calls}
  /\ UNCHANGED <<calls, file, kind, deleted>>

Return(k, acquired) ==
  /\ stage' = "idle"
  /\ kind' = With(kind, calls, k)
  /\ live' = live \cup {<<s, calls>> : s \in acquired}
  /\ UNCHANGED <<calls, file, deleted, threw>>

Goto(st, acquired) ==
  /\ stage' = st
  /\ live' = live \cup {<<s, calls>> : s \in acquired}
  /\ UNCHANGED <<calls, file, kind, deleted, threw>>

(***************************************************************************)
(* Stages.                                                                 *)
(***************************************************************************)
\* The stream has what the stage needs and the content is right.
Passes(st) == stage = st /\ st \in file[calls].valid /\ Works

\* A read fails or is short, or the content is not what the stage wants.
Fails(st) == stage = st /\ (Fault \/ (st \notin file[calls].valid /\ Works))

\* System::openRandomFile.
Call(f, st, opened) ==
  /\ stage = "idle" /\ calls < MaxCalls
  /\ calls' = calls + 1 /\ file' = With(file, calls + 1, f)
  /\ IF opened THEN /\ stage' = st /\ live' = live \cup {<<"stream", calls + 1>>}
                    /\ UNCHANGED threw
               ELSE /\ threw' = threw \cup {calls + 1}
                    /\ UNCHANGED <<stage, live>>
  /\ UNCHANGED <<kind, deleted>>

Room == Cardinality(OpenStreams) < MaxStreams

openFile(f) == Room /\ Works /\ Call(f, "magic", TRUE)
openELFFile(f) == Room /\ Works /\ Call(f, "ident", TRUE)

\* The file does not open.
CannotOpen(f) == Fault /\ Call(f, "magic", FALSE)

\* No stream is left for it.
Refused(f) == ~Room /\ Works /\ Call(f, "magic", FALSE)

\* The class of the object is chosen on four bytes of the stack.
Dispatch(m) ==
  CASE m = "ELF" -> Goto("ident", {})
    [] m = "COFF" /\ HasCoffi -> Goto("load", {"reader"})
    [] m = "PE" -> Goto("offset", {})
    [] OTHER -> CallThrows

ReadMagic == Passes("magic") /\ Dispatch(file[calls].magic)

\* The count is stored in an unsigned: -1 is not less than four, and the bytes
\* that were not read decide.
MagicNotRead == stage = "magic" /\ Slip("magic") /\ \E m \in Magics : Dispatch(m)

ShortMagic == stage = "magic" /\ "magic" \notin file[calls].valid /\ Works /\ CallThrows

\* s->resetPos() fails and nobody asks: the stream stays after the magic number.
ResetFails ==
  /\ stage = "magic" /\ "magic" \in file[calls].valid
  /\ Slip("reset")
  /\ Dispatch(file[calls].magic)

\* Mutant: openELFFile deletes the stream it has read the head from.
ReadIdentClosing ==
  /\ ~Misplaced(calls) /\ Passes("ident")
  /\ stage' = "header"
  /\ live' = (live \ {<<"stream", calls>>}) \cup {<<"ehdr", calls>>}
  /\ UNCHANGED <<calls, file, kind, deleted, threw>>

\* openELFFile(path, stream): the head is read where the stream is and checked.
ReadIdent == ~Misplaced(calls) /\ Passes("ident") /\ Goto("header", {"ehdr"})

IdentThrows ==
  \/ Fails("ident") /\ CallThrows
  \/ stage = "ident" /\ Misplaced(calls) /\ Works /\ CallThrows

\* File32(), File64().
ReadElf == Passes("header") /\ Return("ELF", {})
ElfThrows == Fails("header") /\ CallThrows

\* pecoff::File(): its own destructor does not run when it throws.
ReadOffset == Passes("offset") /\ Goto("signature", {})

\* Mutant: the signature is not looked at.
ReadSignatureUnchecked == stage = "signature" /\ Works /\ Goto("fields", {})

ReadSignature == Passes("signature") /\ Goto("fields", {})
ReadFields == Passes("fields") /\ Goto("windows", {})
ReadWindows == Passes("windows") /\ Goto("directories", {"directories"})

\* The result of moveBackward() is ignored: the number of directories is then
\* another one, and the stages that follow read anything.
BackFails ==
  /\ stage = "windows" /\ "windows" \in file[calls].valid
  /\ Slip("back")
  /\ Goto("directories", {"directories"})
Astray(st) == stage = st /\ Shifted(calls) /\ Works

\* A read passes with the bytes it asks for, a number of bytes cut to an int.
ReadDirectories == (Passes("directories") \/ Astray("directories")) /\ Goto("table", {"table"})
ReadTable == (Passes("table") \/ Astray("table")) /\ Return("PE", {"sections"})

PecoffThrows ==
  \/ \E st \in {"offset", "signature", "fields", "windows", "directories", "table"} :
       Fails(st) /\ CallThrows
  \/ \E st \in {"directories", "table"} : Astray(st) /\ CallThrows

\* coffi::File(): the reader opens the path itself, for the time of load().
Load == Room /\ Passes("load") /\ Return("COFF", {"sections"})
LoadThrows ==
  \/ Fails("load") /\ CallThrows
  \/ stage = "load" /\ ~Room /\ Works /\ CallThrows

(***************************************************************************)
(* Destructors.                                                            *)
(***************************************************************************)
\* Mutant: a table the destructor forgets.
releasedButTable(k) ==
  CASE k = "ELF" -> {"stream", "ehdr"}
    [] k = "PE" -> {"stream", "directories", "sections"}
    [] k = "COFF" -> {"reader"}

\* Mutant: ~File() of the base class is not virtual.
releasedButBase(k) ==
  CASE k = "ELF" -> {"ehdr"}
    [] k = "PE" -> {"stream", "directories", "table", "sections"}
    [] k = "COFF" -> {"reader"}

released(k) ==
  CASE k = "ELF" -> {"stream", "ehdr"}
    [] k = "PE" -> {"stream", "directories", "table", "sections"}
    [] k = "COFF" -> {"reader"}

Delete(n) ==
  /\ n \in Objects
  /\ live' = live \ {<<s, n>> : s \in released(kind[n])}
  /\ deleted' = deleted \cup {n}
  /\ UNCHANGED <<calls, stage, file, kind, faults, slips, threw>>

(***************************************************************************)
(* Specification.  A call runs to its end on the thread of its caller; the *)
(* objects of earlier calls may be deleted meanwhile by other threads.     *)
(***************************************************************************)
Step ==
  \/ ReadMagic \/ MagicNotRead \/ ShortMagic \/ ResetFails
  \/ ReadIdent \/ IdentThrows \/ ReadElf \/ ElfThrows
  \/ ReadOffset \/ ReadSignature \/ ReadFields \/ ReadWindows
  \/ BackFails \/ ReadDirectories \/ ReadTable \/ PecoffThrows
  \/ Load \/ LoadThrows

OpeningNext ==
  \/ \E f \in Files : openFile(f) \/ openELFFile(f) \/ CannotOpen(f) \/ Refused(f)
  \/ Step
  \/ \E n \in Objects : Delete(n)

OpeningSpec == OpeningInit /\ [][OpeningNext]_openingVars

(***************************************************************************)
(* Properties.                                                             *)
(***************************************************************************)
\* Every variable has its type; objects are made by calls and deleted once.
OpeningTypeOK ==
  /\ calls \in 0..MaxCalls
  /\ stage \in Stages \cup {"idle"}
  /\ DOMAIN file = 1..calls /\ \A n \in 1..calls : file[n] \in Files
  /\ live \subseteq Sorts \X (1..calls)
  /\ DOMAIN kind \subseteq 1..calls /\ \A n \in DOMAIN kind : kind[n] \in Kinds
  /\ faults \in 0..MaxFaults
  /\ slips \subseteq Slips \X (1..calls)
  /\ deleted \subseteq DOMAIN kind
  /\ threw \subseteq 1..calls

\* What a constructor of the class has found in the file.
Evidence(k) == CASE k = "ELF" -> "ident" [] k = "COFF" -> "load" [] k = "PE" -> "signature"

\* An object is of a class whose marks its constructor found in the file, even
\* when the class was chosen on bytes that were never read (gel_Manager.cpp:61),
\* and of the class of the magic number whenever that was read.
KindTruthful ==
  \A n \in DOMAIN kind : /\ Evidence(kind[n]) \in file[n].valid
                         /\ ~Unread(n) => kind[n] = file[n].magic

\* Deleting an object releases resources that are still there: what another
\* call does, throws or releases never takes them.
DeletesWhatItHolds ==
  \A n \in Objects : {<<s, n>> : s \in released(kind[n])} \subseteq live

\* Nothing stays behind without a cause: what no object and no running call
\* holds was acquired by a call that threw (openFile, openELFFile and the
\* constructor of pecoff::File delete nothing) or by coffi::File.
LeaksExplained ==
  \A r \in live :
    LET n == r[2] IN
    \/ n \in Objects
    \/ stage # "idle" /\ n = calls
    \/ n \in threw
    \/ n \in DOMAIN kind /\ kind[n] = "COFF"

\* A file is refused for want of a stream only when that many ELF and PE-COFF
\* objects live, or after a call that threw, or that opened a COFF file, kept
\* its stream.
RefusedWithCause ==
  [][ \A f \in Files : Refused(f) =>
        \/ Cardinality({n \in Objects : kind[n] # "COFF"}) = MaxStreams
        \/ threw # {}
        \/ \E n \in DOMAIN kind : kind[n] = "COFF" ]_openingVars
=============================================================================
