----------------------------- MODULE ElfTables -----------------------------
(***************************************************************************)
(* Where and in what widths the classes File32 and File64 read tables and  *)
(* contents of an ELF file, and the walks over what was read: headers of a *)
(* table (elf_File32.cpp, elf_File64.cpp), symbols of a symbol table,      *)
(* entries of a dynamic section (DynIter), notes of a segment (NoteIter).  *)
(*                                                                         *)
(* A behaviour is one job, of the fields the file gives.  An entry that is *)
(* handed out is the place in the file its bytes come from, Junk when they *)
(* are no bytes of the file.                                               *)
(***************************************************************************)
EXTENDS Integers, Sequences, Descent

CONSTANTS
  Jobs,      \* what is read, records satisfying Asked
  IntTop,    \* 2^31
  Mod32,     \* 2^32
  Memory,    \* what operator new can give
  Word,      \* 4
  SizeOf,    \* the structures of the code: size for each operation and class
  NoteSizes  \* the sizes read where no note starts

Tables == {"headers", "sections"}
Contents == {"symbols", "dynamics", "notes"}

roundup(x) == Word * ((x + Word - 1) \div Word)

\* Notes follow each other from the start of their segment to its end.
NotesPlaced(j) ==
  /\ j.notes = <<>> => j.size = 0
  /\ \A i \in 1..Len(j.notes) :
       LET n == j.notes[i]
           top == n.at + 3 * Word + roundup(n.namesz) + roundup(n.descsz)
       IN /\ i = 1 => n.at = 0
          /\ top = (IF i = Len(j.notes) THEN j.size ELSE j.notes[i + 1].at)

\* offset, entsize, num, size, filesz: e_phoff, e_phentsize, e_phnum for headers
\* and the like for sections; sh_offset, sh_entsize, sh_size for symbols and
\* dynamic entries; p_offset, p_memsz, p_filesz for notes.  badName: the symbol
\* whose name is out of the string table (0: none).  notes: as they were
\* written, names and descriptors filled up to words.
Asked(j) ==
  /\ j.op \in Tables \cup Contents /\ j.class \in {32, 64} /\ j.length \in Nat
  /\ j.offset \in Nat /\ j.entsize \in Nat /\ j.num \in Nat
  /\ j.size \in Nat /\ j.filesz \in Nat /\ j.badName \in Nat
  /\ j.op \in Tables => j.entsize * j.num < Mod32         \* 16 bits each
  /\ j.class = 32 => j.offset < Mod32 /\ j.size < Mod32 /\ j.filesz < Mod32
  /\ j.notes \in Seq([at : Nat, namesz : Nat, descsz : Nat])
  /\ j.op = "notes" => NotesPlaced(j)

Widths ==
  /\ IntTop \in Nat \ {0} /\ Mod32 = 2 * IntTop /\ Word \in Nat \ {0}
  /\ Memory \in Nat /\ NoteSizes \subseteq Nat
  /\ SizeOf \in [(Tables \cup Contents) \X {32, 64} -> Nat \ {0}]

VARIABLES
  job,
  at,      \* "asked", "read", "walk"; then "done", "threw" (gel::Exception),
           \* "killed" (another exception, a signal), "aborted" (an ASSERT)
  buf,     \* size of the buffer
  filled,  \* how many bytes of it were read
  off,     \* offset of the cursor in it
  got,     \* the entries handed out
  again,   \* one was handed out a second time
  beyond   \* bytes out of the buffer were read or written

tablesVars == <<job, at, buf, filled, off, got, again, beyond>>

Junk == -1
sizeOf == SizeOf[<<job.op, job.class>>]

TablesInit ==
  /\ Widths /\ job \in Jobs /\ Asked(job) /\ at = "asked"
  /\ buf = 0 /\ filled = 0 /\ off = 0 /\ got = <<>> /\ again = FALSE /\ beyond = FALSE

(***************************************************************************)
(* The buffer.                                                             *)
(***************************************************************************)
AsInt(n) == IF n < IntTop THEN n ELSE n - Mod32     \* a product of two int

\* The bytes of a table or of a section.  A negative product is converted to
\* size_t, but in the section table of File32 where the size has 32 bits.
product == job.entsize * job.num
bytes ==
  IF job.op \notin Tables THEN job.size
  ELSE IF job.op = "sections" /\ job.class = 32 THEN AsInt(product) % Mod32
  ELSE AsInt(product)

\* Mutant: room for the structures the code knows.
neededKnown == IF job.op \in Tables THEN sizeOf * job.num ELSE bytes
\* The argument of operator new.
needed == bytes

\* What is read in it.
wanted == IF job.op = "notes" THEN job.filesz ELSE bytes

Allocate ==
  /\ at = "asked"
  /\ IF needed \in 0..Memory THEN at' = "read" /\ buf' = needed
                             ELSE at' = "killed" /\ buf' = buf
  /\ UNCHANGED <<job, filled, off, got, again, beyond>>

\* Mutant: the position has 31 bits.
positionShort == job.offset % IntTop
\* readAt(): both arguments have 32 bits.
position == job.offset % Mod32
count == wanted % Mod32

\* What may happen after an access that is out of the buffer: the program goes
\* on, or it is killed.
Beyond(o, n) == o < 0 \/ o + n > buf
Goes(next, o, n) ==
  /\ beyond' = (beyond \/ Beyond(o, n))
  /\ at' \in {next} \cup (IF Beyond(o, n) THEN {"killed"} ELSE {})

\* A segment of no bytes in the file is not read.
Read ==
  /\ at = "read" /\ (count = 0 \/ position + count <= job.length)
  /\ filled' = count
  /\ Goes("walk", 0, count)
  /\ UNCHANGED <<job, buf, off, got, again>>

ReadThrows ==
  /\ at = "read" /\ count # 0 /\ position + count > job.length
  /\ at' = "threw"
  /\ UNCHANGED <<job, buf, filled, off, got, again, beyond>>

\* What a header has in memory and not in the file is set to 0, at the start.
zeroed == IF job.op = "notes" /\ job.filesz < job.size THEN job.size - job.filesz ELSE 0

\* The place in the file of n bytes at offset o.
place(o, n) == IF zeroed <= o /\ o + n <= filled /\ o + n <= buf THEN position + o ELSE Junk

\* The n bytes at the cursor are those the file has for them.
Genuine(n) == place(off, n) = job.offset + off

(***************************************************************************)
(* Tables: structures sizeOf long, entsize apart.                          *)
(***************************************************************************)
\* i * e_shentsize is a product of two int: past 2^31 it is negative, or what the
\* compiler that goes from one header to the next has instead.
TakeHeader ==
  /\ at = "walk" /\ job.op \in Tables /\ Len(got) < job.num
  /\ \E here \in {off, AsInt(off)} :
       got' = Append(got, place(here, sizeOf)) /\ Goes("walk", here, sizeOf)
  /\ off' = off + job.entsize
  /\ UNCHANGED <<job, buf, filled, again>>

HeadersEnd ==
  /\ at = "walk" /\ job.op \in Tables /\ Len(got) = job.num
  /\ at' = "done"
  /\ UNCHANGED <<job, buf, filled, off, got, again, beyond>>

(***************************************************************************)
(* Symbols: fillSymbolTable().                                             *)
(***************************************************************************)
avail(n) == off + n <= buf
Garbage == (job.size \div job.entsize) * job.entsize # job.size

\* The division by the size of an entry, then the test of its result.
SymbolsRefused ==
  /\ at = "walk" /\ job.op = "symbols"
  /\ \/ job.entsize = 0 /\ at' = "killed"
     \/ job.entsize # 0 /\ Garbage /\ at' = "threw"
  /\ UNCHANGED <<job, buf, filled, off, got, again, beyond>>

Walkable == job.entsize # 0 /\ ~Garbage

\* A structure longer than its entry shares bytes with the next one, which fix()
\* turns twice; other bytes are not the symbol's.  Any name may come out of them.
AnyName == job.entsize < sizeOf \/ ~Genuine(sizeOf)

\* stringAt() finds the name or reaches the ASSERT of Buffer::get().
TakeSymbol ==
  /\ at = "walk" /\ job.op = "symbols" /\ Walkable /\ avail(job.entsize)
  /\ got' = Append(got, place(off, sizeOf))
  /\ off' = off + job.entsize
  /\ \/ /\ Len(got') # job.badName \/ AnyName
        /\ Goes("walk", off, sizeOf)
     \/ /\ Len(got') = job.badName \/ AnyName
        /\ at' = "aborted" /\ beyond' = (beyond \/ Beyond(off, sizeOf))
  /\ UNCHANGED <<job, buf, filled, again>>

SymbolsEnd ==
  /\ at = "walk" /\ job.op = "symbols" /\ Walkable /\ ~avail(job.entsize)
  /\ at' = "done"
  /\ UNCHANGED <<job, buf, filled, off, got, again, beyond>>

(***************************************************************************)
(* Dynamic entries: for(auto d: dyns(sect)).                               *)
(***************************************************************************)
\* Mutant: the bytes skipped must be followed by others.
skippedShort(n) == IF off + n < buf THEN off + n ELSE off
\* Cursor::skip(), whose answer EntryIter::next() ignores.
skipped(n) == IF avail(n) THEN off + n ELSE off

\* The entry is fetched when the iterator comes to it, and the loop is left when
\* the iterator equals the one made at the end of the buffer.
TakeDyn ==
  /\ at = "walk" /\ job.op = "dynamics" /\ off # buf
  /\ off' = skipped(job.entsize)
  /\ again' = (again \/ off' = off)
  /\ got' = IF again THEN got ELSE Append(got, place(off, sizeOf))
  /\ Goes("walk", off, sizeOf)
  /\ UNCHANGED <<job, buf, filled>>

DynsEnd ==
  /\ at = "walk" /\ job.op = "dynamics" /\ off = buf
  /\ at' = "done"
  /\ UNCHANGED <<job, buf, filled, off, got, again, beyond>>

(***************************************************************************)
(* Notes: NoteIter::next().                                                *)
(***************************************************************************)
\* The sizes that are read at the cursor.
Sizes ==
  LET here == {i \in DOMAIN job.notes :
                 job.notes[i].at = off /\ Genuine(3 * Word)}
  IN IF here # {} THEN {<<job.notes[i].namesz, job.notes[i].descsz>> : i \in here}
     ELSE IF off + 3 * Word <= zeroed THEN {<<0, 0>>}
     ELSE NoteSizes \X NoteSizes

\* Mutant: what is skipped starts with the note, not after its sizes.
skipFromNote(start, sizes) == start - 3 * Word + sizes[1] + sizes[2]
\* Name and descriptor are skipped as they are, without what fills them up.
skip(start, sizes) == start + sizes[1] + sizes[2]

\* Cursor::read(size, p) asks Buffer::at() for the place, which asserts that
\* there are bytes left, also when none is asked for.
AtEnd(start, sizes) == start = buf \/ (start + sizes[1] = buf /\ sizes[2] = 0)

TakeNote ==
  /\ at = "walk" /\ job.op = "notes" /\ off < buf /\ avail(3 * Word)
  /\ \E sizes \in Sizes :
       LET start == off + 3 * Word IN
         /\ skip(start, sizes) <= buf /\ ~AtEnd(start, sizes)
         /\ got' = Append(got, place(off, 3 * Word))
         /\ off' = skip(start, sizes)
  /\ UNCHANGED <<job, at, buf, filled, again, beyond>>

NoteAborts ==
  /\ at = "walk" /\ job.op = "notes" /\ off < buf /\ avail(3 * Word)
  /\ \E sizes \in Sizes :
       LET start == off + 3 * Word IN start + sizes[1] <= buf /\ AtEnd(start, sizes)
  /\ at' = "aborted"
  /\ UNCHANGED <<job, buf, filled, off, got, again, beyond>>

NoteThrows ==
  /\ at = "walk" /\ job.op = "notes" /\ off < buf
  /\ \/ ~avail(3 * Word)
     \/ \E sizes \in Sizes : skip(off + 3 * Word, sizes) > buf
  /\ at' = "threw"
  /\ UNCHANGED <<job, buf, filled, off, got, again, beyond>>

NotesEnd ==
  /\ at = "walk" /\ job.op = "notes" /\ off >= buf
  /\ at' = "done"
  /\ UNCHANGED <<job, buf, filled, off, got, again, beyond>>

(***************************************************************************)
(* The specification.  Nothing runs but the job: it goes on as long as it  *)
(* has a next statement.                                                   *)
(***************************************************************************)
TablesNext ==
  \/ Allocate \/ Read \/ ReadThrows
  \/ TakeHeader \/ HeadersEnd
  \/ SymbolsRefused \/ TakeSymbol \/ SymbolsEnd
  \/ TakeDyn \/ DynsEnd
  \/ TakeNote \/ NoteAborts \/ NoteThrows \/ NotesEnd

TablesSpec == TablesInit /\ [][TablesNext]_tablesVars /\ WF_tablesVars(TablesNext)

TablesTypeOK ==
  /\ job \in Jobs /\ Asked(job)
  /\ at \in {"asked", "read", "walk", "done", "threw", "killed", "aborted"}
  /\ buf \in Nat /\ filled \in Nat /\ off \in Nat
  /\ got \in Seq(Nat \cup {Junk}) /\ again \in BOOLEAN /\ beyond \in BOOLEAN

(***************************************************************************)
(* Properties.                                                             *)
(***************************************************************************)
Divides(n, total) == n # 0 /\ (total \div n) * n = total

\* Notes as the writer made them are read as they are only if there was nothing
\* to fill up.
NotesWhole ==
  /\ job.filesz = job.size
  /\ \A i \in DOMAIN job.notes :
       Divides(Word, job.notes[i].namesz) /\ Divides(Word, job.notes[i].descsz)
\* An offset or a size the 32 bits of readAt() cannot hold.
Cut == job.offset >= Mod32 \/ job.size >= Mod32

EmptyDescriptor == job.notes # <<>> /\ job.notes[Len(job.notes)].descsz = 0

\* A section table of more than 2^31 bytes, which only File32 allocates.
Overflows == job.op \in Tables /\ product > IntTop

\* A job leaves its buffer, ends the program or fails an assertion only for one of
\* these fields, and is refused only for one of those.
\* The code: the allocations and the casts of File32 and File64, the divisions by
\* sh_entsize, Buffer::at() and Buffer::get().
TroubleHasCause ==
  /\ beyond =>
       IF job.op = "notes" THEN job.filesz > job.size
       ELSE \/ job.entsize < sizeOf \/ Overflows
            \/ job.op = "dynamics" /\ ~Divides(job.entsize, job.size)
  /\ at = "killed" =>
       \/ beyond \/ needed \notin 0..Memory
       \/ job.op = "symbols" /\ job.entsize = 0
  /\ at = "aborted" =>
       \/ job.op = "symbols" /\ (job.badName # 0 \/ job.entsize < sizeOf \/ Cut)
       \/ job.op = "notes" /\ (~NotesWhole \/ EmptyDescriptor \/ Cut)
  /\ at = "threw" =>
       \/ position + count > job.length
       \/ job.op = "symbols" /\ ~Divides(job.entsize, job.size)
       \/ job.op = "notes" /\ (~NotesWhole \/ Cut)

\* The fields the widths of the code and of the structures are enough for, but
\* for the offset of a table.
Trusted ==
  /\ ~Overflows
  /\ IF job.op = "notes" THEN NotesWhole /\ ~Cut ELSE job.entsize >= sizeOf /\ job.size < Mod32
Declared ==
  LET first == job.offset % Mod32 IN
    CASE job.op \in Tables   -> [i \in 1..job.num |-> first + (i - 1) * job.entsize]
      [] job.op = "notes"    -> [i \in 1..Len(job.notes) |-> job.offset + job.notes[i].at]
      [] OTHER               -> [i \in 1..(job.size \div job.entsize) |->
                                   first + (i - 1) * job.entsize]

\* A job that ends well has handed out each entry the file declares, once, in
\* order, from the bytes at the offset the file gives modulo 2^32: those that
\* hold it if the offset has 32 bits, and if it has more the ones whose place in
\* the file is as many times 2^32 below, which nobody notices (elf_File.cpp:201).
\* The code: readAt() and the casts and walks on the buffers it fills.
ReadWhereDeclared == at = "done" /\ Trusted => got = Declared /\ ~again

\* The walk of a dynamic section never equals its end when its last entry is cut.
Stuck == job.op = "dynamics" /\ job.size # 0 /\ ~Divides(job.entsize, job.size)

\* What is left of a job: its stages, then headers, or bytes after the cursor.
JobLeft ==
  CASE at = "asked" -> <<3, 0>>
    [] at = "read"  -> <<2, 0>>
    [] at = "walk"  -> <<1, IF job.op \in Tables THEN job.num - Len(got) ELSE buf - off>>
    [] OTHER        -> <<0, 0>>

\* Each turn of a walk leaves less of the buffer, but in such a section, and the
\* cursor never passes the end of what was allocated.
\* The code: EntryIter::next() and equals(), Cursor::skip(), NoteIter::next().
WalkShrinks == [][Stuck \/ Lowers(JobLeft', JobLeft)]_tablesVars

\* Every job ends, but for such a dynamic section.
\* The code: EntryIter::next() and equals(), Cursor::skip(), NoteIter::next().
WalkEnds == <>(Stuck \/ at \in {"done", "threw", "killed", "aborted"})
=============================================================================
