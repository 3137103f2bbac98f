# gel++ in TLA+

TLA+ modules that model the generic executable loader gel++ (`src/`), TLC
configurations that check them on small instances, and proofs for every value
of the constants.  Paths below are relative to the repository.

## 1. Inventory

gel++ is a C++ library.  It starts no thread, takes no lock and registers no
callback: a client opens a file, asks questions of the object it gets, builds
images of the program in it, and deletes everything.  The library is a
sequential program, and what is hard in it comes from elsewhere:

* **laziness** - nearly every table is read from the stream by the first call
  that needs it, and kept.  The state of an object is *which caches are filled*,
  and the order of calls is the client's;
* **exceptions** - every read may fail.  A call that throws leaves some members
  assigned and others not, and the client may call again.  Constructors that
  throw run no destructor of their own;
* **decoding machines** - the DWARF line program is a state machine run on
  content nobody has checked;
* **layouts computed twice** - the stack of a Unix process is first measured,
  then pointed into, then written, by three pieces of code that must agree;
* **numbers** - addresses of 64 bits kept in 32, indexes that count from one,
  ranges whose last address wraps.

| component | source | state | operations | properties it needs |
|---|---|---|---|---|
| Manager and construction | `gel_Manager.cpp`, constructors and destructors of the three file classes | the open streams and the memory each call has acquired | `openFile`, `openELFFile`, `openPECOFFFile`, `delete` | the class of the object is the file's; a destructor releases what is there; what a throw leaks is known |
| ELF file | `elf_File.cpp`, `elf_File32.cpp`, `elf_File64.cpp` | ten caches (program headers, segments, sections, names, contents, symbols, debug lines) | `programHeaders`, `count`/`segment`, `sections`, `content`, `findSection`, `dyns`, `symbols`, `debugLines` | one answer per question; the file's answer, or an exception |
| PE-COFF file | `pecoff_File.cpp` | string table, name and buffer of each section | `name`, `buffer`, `symbols` | the same, with buffers of another size than what is read into them |
| COFF file | `coffi_File.cpp`, over the COFFI library | symbol table, debug lines | `symbols`, `debugLines` | as above; a symbol has the type of its section |
| DWARF lines | `dwarf_DebugLine.cpp` | state machine, rows, file tables | the constructor | the rows are what the programs declare; the reading goes on |
| Line lookups | `gel_DebugLine.cpp` | units, files, rows | `lineAt`, `find` | an address is found when a row covers it, and leads back to itself |
| Unix image builder | `elf_UnixBuilder.cpp` | list of units, image, stack under construction | `build`, `Unit::load`, `buildStack` | headers where they ask to be, units apart, a stack its program can read |
| Simple image builder, images | `gel_Image.cpp`, `make()` of the file classes | segments, files given as libraries, who deletes what | `SimpleBuilder::build`, `add`, `at`, `clean`, destructors | an image has every segment of its program; a segment can be read as long as its file is there; each file is deleted once |
| Memory access | `base.h`, `gel_LittleDecoder.cpp` | a cursor's offset | reads and writes of words and strings | no access out of the buffer |
| Tables and their iterators | `elf_File32.cpp`, `elf_File64.cpp`, `NoteIter` and `DynIter` of `elf_File.cpp` | the bytes read, the cursor of a walk | the reads of tables and contents, the walks over symbols, dynamic entries and notes | an entry handed out is the one the file declares; every walk ends |
| Command-line tools | `bin/` | the words of a command, the file that is open | the eight commands | every file is shown or told about, the status says so, files are deleted |
| File interface, plug-ins, constants | `gel_File.cpp`, `elf_ArchPlugin.cpp`, `elf/common.h` | - | defaults, tables of codes | - |

Interactions: the manager chooses the class of the file; `elf::File` gives
program headers and their contents to the builders, section contents to
`dwarf::DebugLine`; `DebugLine` holds names that point into those contents;
an image built by `UnixBuilder` points into buffers its file owns, and so do the
segments of an image made by `SimpleBuilder`, which also deletes the files that
are given to it.  The commands are clients of all of these.

`PROJECT.json` lists the same components with what is left out of each, and the
hazards, each at its line.

## 2. Modules

| module | what it is |
|---|---|
| `ElfFile` | the lazy half of `elf::File` |
| `FileAnswers` | the abstract specification of a file object, implemented by `ElfFile` |
| `PecoffFile` | the lazy half of `pecoff::File` |
| `CoffiFile` | the lazy half of `coffi::File` |
| `Opening` | `openFile`, `openELFFile`, constructors, destructors |
| `DebugLine` | line tables and lookups, as operators |
| `DwarfLine` | the constructor of `dwarf::DebugLine`; extends `DebugLine` |
| `ElfTables` | where and in what widths an ELF file is read; walks over what was read |
| `UnixImage` | `UnixBuilder::build` and `Image::at` |
| `SimpleImage` | `SimpleBuilder::build`, images, what they own |
| `LineListing` | what `gel-line` prints; extends `DwarfLine` |
| `Descent` | pairs of what is left of two nested loops, lowered by each turn |
| `Tools` | the eight commands |
| `MC*` | instances for TLC, of one module or of several side by side |
| `*_proofs` | the theorems, checked by TLAPS |

### ElfFile

One object on one file.  Each cache of the class is a variable with its flag
(`ph_buf`, `ph_loaded`, `phs`: `phBuf`, `phLoaded`, `phs`, and so on).  A table
is the set of its indexes and a content is the index it was read for, so a
wrong answer is a wrong set.  An action is a public function with all it calls:
`Symbols` is `symbols()` with `initSections()`, each `fillSymbolTable()`, the
string tables it reads and the name it wants for the message of an exception.
An operator with a parameter `ok` is a function that returns or throws.

Histories: `watch` is one question, chosen at the start and never looked at by
the actions; `answers` collects what the object said to it; `raised` the tables
whose load has thrown.  A property of `watch` is a property of every question.
`Truth(q)` is what the file holds.

Files are records satisfying `WellShaped`: garbage symbol tables, links out of
the section table, a bad name-table index and debug lines that do not decode
are files like others.  So are names at offsets past their string table: `lost`
are the sections and `stray` the symbol tables that have one, on which the
`ASSERT` of `Buffer::get()` ends the process (`Abort`) when the name is wanted, by
`findSection()`, by the symbols, by the search of the debug sections.

### FileAnswers

Open, ask, close: an answer is what the file holds.  `PromiseKept` says that
`ElfFile` implements it for the questions whose loader may be called again
after an exception; for program headers, segments and symbols it does not, and
the finding on `programHeaders()` below is why.

### PecoffFile

`strings`, `name` and `buf` are `_string_table`, `Section::_name` and `_buf`.
The code allocates a buffer of `virtual_size` bytes and writes
`size_of_raw_data` bytes in it, then clears from its end: a write past the end
either has no effect or leaves the behaviour in the phase "undefined", where no
action but none is possible, since nothing can be said of the program any more.
`moveTo()` fails in three ways in the code (noticed with the buffer freed,
unnoticed in `getString()`, and turned into an exception whose message needs
the section's name, hence possibly a second failing read): each is an action or
a disjunct.  `far` are the sections whose long name lies past the string table,
with which the code does not compare it, and `full` those whose name fills its eight
characters and has no zero: their names are wrong, or undefined.

### Opening

A call is a sequence of stages, each a read and a check of what was read;
`stage` is where the call is, `live` the set of resources acquired and not
released, each with the call that acquired it.  `CallThrows` releases what unwinding
releases: only the base class `elf::File`, complete when the constructors of
`File32` and `File64` throw, gives the stream back.  `slips` are the three
failures that the code does not notice: `stream->read` returning -1 is stored
in an unsigned and compared with 4 (the class is then chosen on bytes that were
not read), `resetPos()` is not tested, and neither is the `moveBackward()` that
goes back over the header of a PE32+ file (its directories and sections are then
read from elsewhere, and anything may come out of them).  Between the steps of a call, objects
of earlier calls may be deleted: clients with several threads do that.

### DebugLine, DwarfLine

A section is what its bytes hold, at the byte offsets where the cursor may come:
the headers, each with the opcodes of its unit, and at any other offset nothing the
code knows.  `off` is the cursor.  What moves it is what the code moves it by:
`header_length` leads from the header to the program (`programAt`), the length of an
extended opcode, cut to an `int`, to the next opcode (`after`), and `unit_length` to
the next unit (`endOf`, modulo 2^64).  None of these is compared with what
it measures, so the cursor may come into an opcode, skip some, or go back to a
unit that was read; `c.move()` out of the section fails and leaves it where it is.
Numbers keep their widths (`Half32` is 2^31): addresses wrap at 2^64, lines and
file registers at 2^32.

There is an action for each case of the switch of `runSM()`, one for the header, one
for the end of a unit, and one for each way out by an exception.  `sm` is
`StateMachine`.  Entries of tables read out of their bounds (a file register past
the file table, a directory past the directories in versions before 5) and divisions
by a `line_range` or a number of operations of 0 lead to `at = "undefined"`.
`MaxUnits` and `MaxRows` bound the units and rows of sections that are read for ever.
`lineAt` and `find` of `DebugLine` return positions, and `First` stands for the loop
that stops at its first match.

### UnixImage

One builder, on one program, with one set of parameters; `build()` may be
called again, after an exception too.  `at` is where the call is, and each turn
of a loop and each write to the stack is an action.  Addresses are computed
modulo `Mod32` and `Mod64` where the code keeps them in 32 or 64 bits, and the
stack's memory `mem` holds bytes that know what they are: byte `j` of the word
`v`, character `j` of the argument `i`.  `Buffer::set()` stores a word in the order of the
host (`digit`), and the properties read this memory as the program would, in its own
order: `Foreign` are the programs whose order is the other one, and `place` where they
look for a byte.

### CoffiFile

The COFFI library has decoded the file when the object exists, so its lazy calls
read nothing and have one way to fail each: an assertion on the architecture,
debug lines that do not decode, and section number 0, for which the code indexes
the entry before the first (COFFI may give null or anything else: one successor
of each kind).  What makes the component hard is who owns what: the keys of
`symtab` (`_symtab`) are pointers into the names of the symbols it holds.  Objects are
therefore named, by their sort, the opening they were made in and their index;
`live` says which exist, `keys` whose characters a key is.

### ElfTables

A behaviour is one job: a table of headers, the content of a section or of a
segment, or a walk over symbols, dynamic entries or notes, with the fields the
file gives.  Numbers are cut where the code cuts them (`Cut`: 32-bit positions
of `readAt()`; `Overflows`: products of two fields kept in an `int`, which the compiler
may also have carried on in 64 bits), an allocation that is
too large is refused, and `Cursor::read`, `skip` and the assertions of the
iterators are the guards of the actions.  An entry that is handed out is the
place in the file its bytes come from, `Junk` when they are no bytes of the file.
`TroubleHasCause` names, for each trouble, the relations between fields that explain
it: nothing else does.

### SimpleImage

Several files and images of one client, which may delete any of them at any
time.  A segment of an image is named by its file and its index; whether its
bytes are the file's or its own is what `SegmentsReadable` depends on.  `given`
is the history of the files that were handed over to an image.

### Tools and LineListing

A command is parsed, then runs over its arguments one by one; a file is the
record of what the library answers when it is asked (done, refused, thrown,
assertion failed, undefined), because the other modules say when it does so.
What a command asks of a file is the list of these outcomes (`todo`), in the order
of its calls, and the actions go through it: open, an answer, an exception and its
handler (which deletes the file, or goes on, or stops), an abort, the end of a file.
An exception that is no `gel::Exception` passes the handlers and ends the process like
a failed assertion: that of `gel-sect -e -f` on an address no section holds is one,
and `SearchEnds` says that it is the only one on files that are read well.
`LineListing` is the
selection of rows of `gel-line -c` and `-l`, over the tables `DwarfLine` builds;
`IntMax` (2^31 - 1) is `type_info<int>::max`, where the minimum starts.  `ListingMisses` speaks
of files whose lines are below it (`Printable`): the loop that prints them counts
up to the last one and could not count past `IntMax`.

## 3. Runs

A run whose module composes several modules checks each from its initial states: in
a behaviour one of them moves (`active` says which) and the others stay at their initial
states.  They do not interact in the code at this level (the other side is abstracted by
outcomes), so the runs are shared and each module keeps its own questions.

Every configuration says `CHECK_DEADLOCK FALSE`: a client may make no further
call, and every behaviour ends at a bound or in an undefined state.

| run | question | bounds, and why they are enough |
|---|---|---|
| `elf_caches` | which caches an exception spoils; whether two answers differ; refinement of `FileAnswers`; what jobs of `ElfTables` read, and why they fail | seven files (sound, with debug lines, with garbage, with a bad link, with a bad name table, with names past their tables); 2 failing reads: one to spoil a cache, one to fail again on the next attempt. Jobs: fields of at most 5 bits with `Mod32` 16, structures of 2 bytes: every sum, product and cut goes over its width for some field. |
| `opening_and_lines`: `Opening` | is the class the file's, do destructors release what is there, what leaks | eight files, failing at an early stage, at a late one, or nowhere; two streams, three calls, one system call that fails: enough for an object, a leak, and a refusal between them |
| `opening_and_lines`: `Tools` | what a command has shown, said and left open; which searches end by an exception nobody takes | every command, with each set of options that changes its course, on up to three files of eight sorts: the one that throws may be first, between two others, or last |
| `opening_and_lines`: `DwarfLine`, `LineListing` | are the rows those declared, do lookups find them, does the reading go on, what does `gel-line` leave out | every program of three opcodes and an end over ten opcodes, for one operation per instruction and for two (VLIW); the other opcodes in pairs; all pairs of units from a set where code overlaps, touches and is apart. Three opcodes give two rows and a change between them, which is what `record` and `lineAt` compare. Operands of 64 bits in both formats and byte orders, and divisors of 0. Lengths too short and too long, by a byte, by a unit, by the section, and up to where they wrap: in an extended opcode, in a header, in a unit before and after another. `Half32` 256 stands for 2^31; four units and six rows are more than any section has that is not read twice. |
| `images_and_others`: `UnixImage` | are headers all there, units apart, the stack laid out as its pointers say | up to two strings in each list, of 0 to 3 characters; stacks that are absent, too small, just fit, or placed under 0; two builds with one failing read; a program that ends over the top of the addresses; one of the other byte order. `StackTop`, `Mod32`, `Mod64` are scaled so that wrapping happens. |
| `images_and_others`: `SimpleImage` | what images hold and own | three files, two images, two failing reads: a file can be given to two images, and an image can lose one file and keep another |
| `images_and_others`: `PecoffFile`, `CoffiFile` | causes of wrong answers; ownership of COFF symbols | files with sizes equal, larger, smaller, names past the string table and names of eight characters; 2 failing calls (the second one while the message of the first is built); COFF objects with a name twice, symbols of the last section, of none and of number 0, opened twice |

Sizes, in distinct states: `elf_caches` 556 016, `opening_and_lines` 108 363,
`images_and_others` 157 620.

What these runs say of the code, beyond "it works":

* `AnswersStable`, `RetrySafe`, `WrongOnlyAfterThrow`: no order of calls makes an
  `elf::File` contradict itself.  After an exception, sections, contents, names
  and debug lines may be asked for again; program headers, segments and symbols
  may not: their guard is set before they are complete.
* `AbortsExplained`: an assertion ends the process only for a name out of its string table
  and in `dyns()` before the sections are loaded; other malformations are thrown.
* `SecBufsBounded`: a failed load of the section table leaks at most one buffer
  for each failure.
* `RowsDeclared`: a row runs from one `copy` or special opcode to the next, as the
  program declares it, but for the flags: those the code leaves are what
  `FlagsAfter` says, and not those of the program (see `dwarf_flags` below).
* `LookupExact`, `FindsBack`: `lineAt` finds the row of each address that has one, in
  units whose rows ascend, and `find` leads back to each row that `lineAt` finds.
* `ReadingShrinks`, `BuildShrinks`, `WalkShrinks`: each turn of the nested loops leaves
  less of the outer one, or as much of it and less of the inner one, though `build()`
  adds a unit to a list it never empties and a program moves its own cursor.  The
  walk of a dynamic section whose last entry is cut is one exception (`Stuck`).  The
  other is a line section one of whose lengths wraps: only then (`Onward` names it)
  may the cursor go back, and then the constructor may not return (`dwarf_endless`).
* `WrongHasCause` (PE-COFF): a wrong name or content comes from the string table
  kept before it is read, from a buffer kept before it is read, from an offset nobody compares, or from the
  ignored result of `moveTo`; a size that differs is the undefined behaviour.
* `CoffWrongHasCause`: a symbol is of no type when it is in the last section, and
  debug lines are answered "none" after they have thrown; `CoffTableRight`: no key and
  no value of the symbol table dangles, because a symbol that is replaced is not
  deleted, and these are all the destructor forgets.
* `DeletesWhatItHolds`, `LeaksExplained`, `RefusedWithCause`: no destructor
  releases what it has not; resources leak only through calls that throw and
  through COFF objects; and a file is refused for want of streams only when
  objects hold them all or something has leaked.
* `ImageWhole`, `WritesFit`, `StackTables`, `FindsStack`: the three computations of
  the stack agree on where the tables are, and no write is refused; a string is
  found whole when it is the only one.  This is what a program of the host's byte order
  reads; one of the other order reads `argc` only if it is 0.
* `UnitsApart`: a unit is above those before it only as long as none of these
  rounds up to 2^32 or more: the top of a unit is returned in 32 bits, and the
  next unit then starts again from the bottom.  The condition `Fit` names it.
* `TroubleHasCause`, `ReadWhereDeclared`, `WalkEnds`: a read out of a buffer, a
  failed assertion, a refused allocation or a wrong place has one of the causes
  the fields of the file can have (an entry shorter than its structure, an entry
  size of 0, a product over an `int`, an offset over 32 bits, notes that end early or
  are not filled up to words); without these, what is handed out is what the file declares, for a
  table at the offset modulo 2^32.  Walks end, but for
  that of a dynamic section whose last entry is cut: the iterator never equals its
  end.
* `ImageHolds`, `SegmentsReadable`, `FilesOwned`: an image that is handed out has all
  the segments with bytes of its program; a segment can be read until its client
  deletes the file or `clean()` deletes the library it points into; an image
  deletes the files given to it, once.
* `ShownOrTold`, `LeftOpen`: which commands go on after an exception, which stop,
  which statuses promise something (those of `gel-sym` and `gel-sect`), and which
  files stay open.  `SearchEnds`: on files that are read well, only a search that finds
  nothing ends `gel-sect` by an exception nobody takes.
* `ListingMisses`: `gel-line -l` leaves out exactly the lines that the rows of a file
  only descend to.

### Disagreements with what the repository says

| run | property | where | what happens |
|---|---|---|---|
| `dwarf_rows` | `RowsComplete` | `dwarf_DebugLine.cpp:268` | `runSM()` stops at the first end of sequence and `readCU()` skips to the end of the unit: the other sequences are lost |
| `dwarf_files` | `FileOfRow` | `dwarf_DebugLine.cpp:385` | the file register counts from 1 in every version; version 5 counts from 0 |
| `dwarf_empty` | `LookupsDefined` | `gel_DebugLine.cpp:171` | `lineAt()` reads the first row of a unit that has none |
| `dwarf_flags` | `FlagsDeclared` | `dwarf_DebugLine.cpp:396` | the flags that fall back after a row are set instead: each row but the first of a unit begins a block, ends a prologue and begins an epilogue |
| `dwarf_endless` | `EndlessRefused` | `dwarf_DebugLine.cpp:338` | an extended opcode whose length leads back to it is run for ever |
| `elf_headers_after_throw` | `HeadersOrThrow` | `elf_File32.cpp:83` | `programHeaders()` after a failed read answers an empty table and does not throw |
| `elf_dyns_first` | `DynsFinds` | `elf_File.cpp:633` | `dyns()` before any question on sections reaches `ASSERT(false)` |
| `unix_argv` | `ArgumentsPassed` | `base.h:211` | the zero that ends a string is counted by the pointers and not by the writes |
| `unix_bss` | `ReadyToLoad` | `elf_File64.cpp:437` | zeroes are put over the start of the data |

Each is the shortest behaviour TLC finds, with the constants of the run, from a
well-formed file or, for `dwarf_endless`, from one that is not; the passing runs
state what holds all the same.

Other differences, which the modules follow and no run singles out; a property that
has one for a cause is named with it:

* `elf_File.cpp:201`: the offset of `readAt()` is 32 bits wide: what lies at 2^32 or more
  is read from elsewhere, or refused (`ReadWhereDeclared`, `TroubleHasCause`).
* `elf_File.cpp:571-577`: what fills the name and the descriptor of a note up to words is
  not skipped: the notes behind are misread (`TroubleHasCause`).
* `elf_File.cpp:161-179`: a name past its string table ends the process by the assertion
  of `Buffer::get()` where an exception is announced (`AbortsExplained`).
* `dwarf_DebugLine.cpp:554`: the width of an address is that of the format of the section,
  so that an address of eight bytes is cut to four in the 32-bit format.
* `base.h:128-139`: `Buffer::set()` stores in the order of the host what `get()` reads in
  the order of the program (`StackTables`).
* `gel-sect.cpp:60`: an address no section holds throws an `elm::MessageException`, the
  base of `gel::Exception`, which no handler of `main()` takes (`SearchEnds`).
* `gel_Image.cpp:117` says that `ImageSegment::clean()` cleans up "any link with the
  original file"; the buffer of the segment keeps the file as its decoder.
* `gel_File.cpp:406-413` says that the Unix image builder is used by `make()`; it is
  `SimpleBuilder`.
* `gel-sect -f` needs `-e`, `gel-seg -f` is read and not used; `gel-file`, `gel-im`
  and `gel-seg` end with status 0 whatever happens; the messages of `gel-dyn` and
  `gel-prog` name `argv[i]`, where `i` counts the files from 0 and not the words of the
  command; `gel-sym` prints the whole symbol table once for each section of symbols
  or of dynamic entries.
* `pecoff_File.cpp:772-775`: `alignment()` masks with `IMAGE_SCN_ALIGN_1BYTES >> 20`, the
  shift binding more tightly than `&`; `symbols()` of PE-COFF files has no symbol.

## 4. Fairness

`DwarfLine` has weak fairness of `Next` and `ElfTables` of its next-state relation
(`MCElfTables` restates it for the part that moves): the steps of one call, on the
caller's thread, which takes no lock and waits for nobody; only reads of a file
stand between them, which return.  Calls of the client have no fairness: it need not
make one.  Two liveness properties use it: `WalkEnds`, that every job ends but for
the dynamic section that `Stuck` names, and `EndlessRefused`, which the code violates:
the behaviour TLC prints is an infinite one of the constructor, not one that stops.

That each turn of a loop leaves less to do is an action property (`ReadingShrinks`,
`BuildShrinks`, `WalkShrinks`), proved for every value of the constants.  Where a loop
could block or stay, it is not stated that it ends: the loops of `build()` and the
stages of `openFile()` have nothing to wait for.
`ElfFile`, `PecoffFile`, `CoffiFile` and `SimpleImage` have one step for each call,
and `Tools` one for each thing asked: they state no liveness.

## 5. Proofs

TLAPS checks each theorem for every value of the constants that satisfies the
named assumptions: `FilesAssumption` and `PeFilesAssumption` (files are `WellShaped`), bounds that are
natural numbers, `SectionsAssumption` (headers, tables and opcodes lie in the section,
each one's end behind its start, with fields in the range of their bytes; lengths are
any), `Half32` positive, addresses natural numbers, `MaxStreams`
natural, and for `UnixImage` headers no larger in the file than in memory, pages
that are not empty and `Mod32 <= Mod64`.  `ElfTables`, `SimpleImage` and `CoffiFile`
say the same in their initial states (`Widths`, `Asked`; `Apart`, `Shaped`;
`CoffShaped`), and `Tools` of its invocations.  There is no assumption on the order of calls, the number of failures,
or the size of files.

**ElfFile_proofs.**  `IInv` is `TypeOK` with `HeadersInv`, `SectionsInv`,
`SymbolsInv`, `DataInv` and `AnswersInv`.  None of the properties is inductive:
that an answer is stable depends on the cache being unable to change once
answered, hence on each flag (`phBuf`, `phLoaded`, ...) implying a state of the
cache it guards, whether or not a load has thrown.  `AnswersInv` is the link: the
recorded answers are `{}` or the present value of the cache.  `AnswersAreStable`,
`RetryIsSafe`, `WrongAfterThrowOnly`, `SecBufsAreBounded` follow, and
`KeepsPromise` is the refinement of `FileAnswers`: initial states map to initial
states, and each action to `Ask`, `Open`, `Close` or a stutter.

**DwarfLine_proofs.**  `IInv` is `TypeOK`, `Idle` (between two units nothing is under
way), `LinkedNow` and `Linked` (the source file of a row lists the row's unit).  `TypeOK`
says more than types: the cursor stays in the section, which each of the three
kinds of length may lead it out of, and the operation index in the instruction.
`UnitsAreListed` needs `Counted`, which compares the two lists while a unit is still
being read, and which says that no file lists a number that is not of a unit.
`LookupsAreExact` and `FindLeadsBack` are about the operators of `DebugLine`, the second
under `Linked`; they rest on `FirstExists`, the loop that stops at the first match.

`RowsDeclared` compares the rows with a reference that has no machine: the last opcode
that sets a register, and sums of advances, taken modulo the width of the register at
the end only.  It needs `Decoded`, which says of a unit under way, whose first
`pc - 1` opcodes have run, that each register is what these opcodes declare (`Runs`,
and `FlagsAfter` for the flags), that the operations since the last address add up
(`Additive`), that the discriminator is the one pending (`Pending`), and that the rows are
those of the opcodes that make rows, by rank (`rowsTo`).  The hard step is
`OperationsStep`: the code adds quotients and keeps a remainder at each advance, the
reference divides the sum once (`CutQuotient`, and `Wraps` for the cut to 64 bits).
`Straight` names the programs it is about: their opcodes follow each other to the cursor
(`Ordered`), and the sum of an advance and an operation index does not wrap, since
the remainder of one that did would be another.  Sums are recursive functions; that
one exists, and what it is at the next index, is `Loop`, whose induction is by the
least index where it would fail (`HasLeast`, `Upward`), since theorems with an
operator for parameter are out of reach.

`ListingMisses` rests on the same lemmas: `BoundsLemma` says what the two bounds are after
each line of a file, for any number of lines (`Bounded`: the minimum is the least
line so far, the maximum is the highest that did not lower it), and `MissesLemma` that the
lines left out are those `OnlyDescends` names.  `ListedUnits` and `CollectedLines` bring this
to the files of a section, by `Counted`.

`ReadingDescends` is about the byte cursor.  It needs `Ahead`: the header of the unit
under way lies behind the cursor, so that the end of the unit, wherever `unit_length`
puts it, is not before that header, and what is left of the section is less than what
was left when the header was read.  Inside a unit `LeadsOn` says that the end of an
opcode, by its bytes or by its length, lies behind its start.

**Opening_proofs.**  `IInv` says, for each `stage`, what has been acquired by the
call under way and what its reads have established (`Current`), and what each
object holds.  `RefusalsHaveCause` is a counting argument for any number of
streams: the open streams are in bijection with the objects and the leaks, so a
refusal means that objects hold all the streams, or that one leaked.

**OtherFiles_proofs.**  For PE-COFF, `IInv` is `TypeOK`, `FromCache` (answers are what
the cache holds) and `Caused` (what is wrong in a cache has one of the causes).
For COFF, `CoffIInv` is `CoffTypeOK`, `TableInv` (values are the last symbol of each
name; while there is a table, all the symbols exist), `SymbolsInv` (a symbol that
exists is of the present opening with a table over all names, or is hidden by
another) and `AnswersInv`.  `CoffTableRight` is the conjunction of `KeysAlive`, not
inductive without the second, and `HiddenOnly`, not without the third: what the
destructor forgets was decided when the table was filled.  That a name has a
first and a last symbol is `LastAndFirst`, from the well-foundedness of the
naturals.

**ElfTables_proofs.**  `IInv` relates the cursor to what was handed out: `Fresh`
before a buffer is read, `Filled` when it is, and `Walks`, that the cursor of a walk
is at a multiple of the size of an entry, or at the note after the last one.  The
multiples need lemmas about products (`Products` and those after it), since every
number is a constant.  Proving it found a cause that the first statement of
`TroubleHasCause` missed: the offset that is cut to 32 bits also puts symbols and
notes out of their place.  `WalksDescend` needs that the walk of a dynamic section is
inside its buffer when it has stopped moving (`off < buf` in `OnDynamics`), and
`WholeEntry`: between two multiples of the size of an entry there is room for one.

**SimpleImage_proofs.**  `IInv` says whose each file is: `Listed` and `Own` (an image
lists the files given to it, and they are dropped by no other), `Segment` (a
segment's bytes are its own or those of a file that was alive when it was made),
`Given` (a file has been given once).

**Tools_proofs.**  `IInv` is `Types`, `Accounted` (every argument before the present
one is shown or told about), `Naming` (which messages name their file), `Ended`
(how a command that is over did end) and `OpenNow` (the files that are open).

**UnixImage_proofs.**  Seven invariants, each on the ones before.  `IInv` has
`BuiltWhole`, which ties the headers read so far to the segments of the image under
way, and `Stacked`, which carries the order of the units through the base and the
top that `build()` and `load()` keep: none of `ImageWhole` and `UnitsApart` mentions
them.  `StackInv` gives the place of the cursor in each phase of `buildStack()`
(`Placed`), among them the byte that each string leaves behind, so that what was
measured is compared with what is left to write.  `Topmost` says that the stack is
the last segment, `Known` that every segment is of a header or of the stack.
`StackTables` reads words back from single bytes, in the order of the program, and needs three more: `Laid`, that every
word of the tables the cursor has passed is still there, byte for byte (the cursor
only goes up, and no later write goes below it); `Pointing`, that the pointer to be
written next is the sum of the strings before it, cut to 32 bits at each addition as
if it were cut once (`CutSum`); and `Lone`, that a string that is alone is there with its
zero.  That `room` of two strings are apart then follows from `SumsGrow`.
`BuildDescends` takes the place of the cursor in the phases from `Placed`: the index of a
loop never passes its end.  Sums
over strings are a recursive function: its existence and its growth (`SumsLemma`,
`SumsGrow`) are proved from the least index where they would fail.

| theorem | of | establishes |
|---|---|---|
| `TypeCorrect`, `CoffTypeCorrect`, `TablesTypes`, `ImageTypes` | all but `Tools` | the type invariants |
| `AnswersAreStable` | ElfFile, PecoffFile | `AnswersStable` |
| `RetryIsSafe`, `WrongAfterThrowOnly`, `SecBufsAreBounded`, `AbortsAreExplained` | ElfFile | `RetrySafe`, `WrongOnlyAfterThrow`, `SecBufsBounded`, `AbortsExplained` |
| `KeepsPromise` | ElfFile | `PromiseKept`, the refinement |
| `TroubleIsCaused`, `EntriesAreDeclared`, `WalksDescend` | ElfTables | `TroubleHasCause`, `ReadWhereDeclared`, `WalkShrinks` |
| `LookupsAreExact`, `FindLeadsBack`, `UnitsAreListed` | DwarfLine | `LookupExact`, `FindsBack`, `UnitsListed` |
| `RowsAreDeclared`, `ReadingDescends` | DwarfLine | `RowsDeclared`, `ReadingShrinks` |
| `ListingIsKnown` | LineListing (in `DwarfLine_proofs`) | `ListingMisses` |
| `KindIsTruthful`, `DestructorsAreSafe`, `LeaksAreExplained`, `RefusalsHaveCause` | Opening | `KindTruthful`, `DeletesWhatItHolds`, `LeaksExplained`, `RefusedWithCause` |
| `WrongAnswersHaveCauses` | PecoffFile | `WrongHasCause` |
| `CoffWrongAnswersHaveCauses`, `TableIsRight` | CoffiFile | `CoffWrongHasCause`, `CoffTableRight` |
| `ImagesAreWhole`, `UnitsAreApart`, `WritesAreFit`, `StackIsFound` | UnixImage | `ImageWhole`, `UnitsApart`, `WritesFit`, `FindsStack` |
| `TablesAreRight`, `BuildDescends` | UnixImage | `StackTables`, `BuildShrinks` |
| `ImagesHold`, `SegmentsRead`, `FilesAreOwned` | SimpleImage | `ImageHolds`, `SegmentsReadable`, `FilesOwned` |
| `CommandsAnswer`, `FilesLeftOpen` | Tools | `ShownOrTold`, `LeftOpen` |

Every invariant and every action property the passing runs check is proved, but for
`SearchEnds`, and so is the refinement.  The type invariants of `ElfFile`, `Opening`, `PecoffFile`, `CoffiFile`,
`ElfTables` and `SimpleImage` are proved and no run checks them; those of
`DwarfLine` and `UnixImage`, which say more than types, are both.  Only model-checked: `SearchEnds`, and the liveness
property `WalkEnds`, as liveness under fairness and `ENABLED` are out of the prover's
reach.
What the runs find violated is shown by the behaviour TLC prints.

## 6. Not modelled

* Bytes: LEB128, forms of version 5, the swaps of `Decoder`, layouts of records.  Their
  failures are (a program that is cut, an entry that does not decode), their
  arithmetic is not.  In a line section the bytes at offsets where it lists neither a
  header nor an opcode are taken for something the code refuses.
* Operands of four bytes for `DW_LNE_set_address` in the 64-bit format of line tables
  (a 32-bit program), from which the code would read eight; the high bits of the
  discriminator, which a row does not keep; columns and instruction sets, which
  nothing in the machine depends on.
* What the COFFI library does, except where `coffi::File` relies on it.
  `ASSERT` is taken to abort, as it does unless `NDEBUG` is defined.
* Code of the Unix builder that nothing calls: `Unit::link`, `resolve`, `get`,
  `expand`, `retrieve`, `open`.  The list of units holds the program alone.
* `SimpleBuilder::retrieve`, which always throws and is called by nothing.
* The plug-ins of `elf_ArchPlugin.cpp`: they are loaded by ELM, and what they do is
  to name tags.
* Accessors, names of machines and systems, tables of constants, swaps of bytes,
  formatting, `std::bad_alloc`.

No property speaks of: a PE-COFF section with more raw bytes than virtual ones, which
is undefined behaviour and where the model says no more (`pecoff_File.cpp:803`); parameters
whose `abi()` is not "unix", of which nothing in the repository speaks; addresses of four
bytes in the 64-bit format of line tables (`dwarf_DebugLine.cpp:554`).

## 7. Plan

What is modelled first is what earlier plans put first: caches, line tables,
construction, images, tools.  What is left, in order:

1. Composition of `Opening` with `ElfFile` and `PecoffFile`, and of `SimpleImage` with
   the caches: the object that a call returns is the one the caches are of.
2. Theorems: a variant of `Opening`, whose calls go through stages of other calls; that the
   parts of `PecoffFile` and `CoffiFile` whose loaders may be called again implement
   `FileAnswers`, as `ElfFile` does.
