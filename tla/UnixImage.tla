----------------------------- MODULE UnixImage -----------------------------
(***************************************************************************)
(* Images of ELF programs: elf::UnixBuilder::build() over the units to     *)
(* load, Unit::load() over the headers of one, and buildStack(), write by  *)
(* write; Image::at() on the result.                                       *)
(*                                                                         *)
(* One builder object, of one program and one set of parameters; build()   *)
(* may be called again, after an exception too.  A string is its length,   *)
(* its k-th character being known by the string and k.                     *)
(***************************************************************************)
EXTENDS Integers, Sequences, FiniteSets, Descent

CONSTANTS
  Programs,    \* program-header tables
  Foreign,     \* those whose byte order is not the host's
  Parameters,  \* what a client may ask for
  Null,        \* UnixParameter::null
  StackTop,    \* 0x80000000
  Mod32,       \* 2^32
  Mod64,       \* 2^64
  MaxBuilds, MaxFaults   \* bounds: calls of build(), and reads that fail

Header(h) ==
  /\ h.type \in {"PT_LOAD", "PT_DYNAMIC", "other"}
  /\ h.vaddr \in Nat /\ h.memsz \in Nat /\ h.filesz \in 0..h.memsz
Asked(p) ==
  /\ p.abi \in {"gen", "unix"} /\ p.stack_alloc \in BOOLEAN /\ p.stack_at \in BOOLEAN
  /\ p.arg \in Seq(Nat) /\ p.env \in Seq(Nat) /\ p.auxv \in Nat
  /\ p.stack_addr \in Nat /\ p.stack_size \in Nat /\ p.page_size \in Nat \ {0}

ASSUME ProgramsAssumption ==
  \A pr \in Programs : pr \in Seq({pr[h] : h \in DOMAIN pr}) /\ \A h \in DOMAIN pr : Header(pr[h])
ASSUME ForeignAssumption == Foreign \subseteq Programs
ASSUME ParametersAssumption == \A p \in Parameters \cup {Null} : Asked(p)
ASSUME SizesAssumption ==
  /\ Mod32 \in Nat \ {0} /\ Mod64 \in Nat \ {0} /\ Mod32 <= Mod64
  /\ StackTop \in 0..(Mod32 - 1) /\ MaxBuilds \in Nat /\ MaxFaults \in Nat

VARIABLES
  prog, params,   \* the builder's program and parameters
  at,             \* what build() is doing; "idle" outside of it
  table, cached,  \* the program's headers: "unread", "read", "failed"; the contents read
  faults,         \* reads that have failed
  todo,           \* todo: the bases of the units, all of them the program
  images,         \* the images created, the last one being _im
  unit, h, base, top,     \* variables of the loops of build() and load()
  stack, off, k, p, mem   \* of buildStack(): segment, cursor, loop index, pointer, bytes

fileVars == <<table, cached, faults>>
loadVars == <<todo, unit, h, base, top>>
stackVars == <<stack, off, k, p, mem>>
vars == <<prog, params, at, fileVars, images, loadVars, stackVars>>

NoStack == [base |-> 0, size |-> 0]

\* The constructor keeps the client's parameters only when their abi() says so.
\* UnixParameter does not redefine abi().
uparams == IF params.abi = "unix" THEN params ELSE Null

roundup(x, n) == n * ((x + n - 1) \div n)

(***************************************************************************)
(* The loop over the units.                                                *)
(***************************************************************************)
im == Len(images)
AddSegment(s) == images' = [images EXCEPT ![im].segs = Append(@, s)]

\* Mutant: the base goes on from the last call.
BuildAfter ==
  /\ at = "idle" /\ im < MaxBuilds
  /\ images' = Append(images, [segs |-> <<>>, built |-> FALSE])
  /\ todo' = Append(todo, 0)
  /\ unit' = 1 /\ at' = "units"
  /\ UNCHANGED <<prog, params, fileVars, h, base, top, stackVars>>

\* build(): a new image, and one more unit in a list that is never emptied.
Build ==
  /\ at = "idle" /\ im < MaxBuilds
  /\ images' = Append(images, [segs |-> <<>>, built |-> FALSE])
  /\ todo' = Append(todo, 0)
  /\ unit' = 1 /\ base' = 0 /\ at' = "units"
  /\ UNCHANGED <<prog, params, fileVars, h, top, stackVars>>

\* Unit::load() up to its loop.  Headers whose reading failed once are an empty
\* table afterwards (ElfFile shows it).
LoadUnit ==
  /\ at = "units" /\ unit <= Len(todo)
  /\ todo' = [todo EXCEPT ![unit] = base % Mod32]
  /\ top' = base % Mod32 /\ h' = 1 /\ at' = "headers"
  /\ table' = IF table = "unread" THEN "read" ELSE table
  /\ UNCHANGED <<prog, params, cached, faults, images, unit, base, stackVars>>

Fails == faults < MaxFaults /\ faults' = faults + 1

LoadUnitThrows ==
  /\ at = "units" /\ unit <= Len(todo) /\ table = "unread"
  /\ Fails /\ table' = "failed"
  /\ todo' = [todo EXCEPT ![unit] = base % Mod32]
  /\ at' = "idle"
  /\ UNCHANGED <<prog, params, cached, images, unit, h, base, top, stackVars>>

headers == IF table = "failed" THEN <<>> ELSE prog

\* Mutant: a byte too many.
readBufLong(hd) ==
  [j \in 0..hd.memsz |->
     IF j < hd.memsz - hd.filesz THEN "zero"
     ELSE IF j < hd.filesz THEN "file" ELSE "junk"]

\* ProgramHeader::readBuf(): what the file holds, then zeroes, put at the start
\* of the buffer.
readBuf(hd) ==
  [j \in 0..(hd.memsz - 1) |->
     IF j < hd.memsz - hd.filesz THEN "zero"
     ELSE IF j < hd.filesz THEN "file" ELSE "junk"]

\* Mutant: the top is the last header's.
topLast(t, hd) == todo[unit] + hd.vaddr + hd.memsz
topWith(t, hd) ==
  LET end == todo[unit] + hd.vaddr + hd.memsz IN IF t < end THEN end ELSE t

LoadHeader ==
  /\ at = "headers" /\ h <= Len(headers)
  /\ LET hd == headers[h] IN
       IF hd.type = "PT_LOAD"
       THEN /\ AddSegment([base |-> todo[unit] + hd.vaddr, size |-> hd.memsz, unit |-> unit,
                           header |-> h, bytes |-> readBuf(hd)])
            /\ top' = topWith(top, hd)
            /\ cached' = cached \cup {h}
       ELSE UNCHANGED <<images, top, cached>>
  /\ h' = h + 1
  /\ UNCHANGED <<prog, params, at, table, faults, todo, unit, base, stackVars>>

LoadHeaderThrows ==
  /\ at = "headers" /\ h <= Len(headers) /\ headers[h].type = "PT_LOAD"
  /\ h \notin cached /\ headers[h].filesz # 0
  /\ Fails /\ at' = "idle"
  /\ UNCHANGED <<prog, params, table, cached, images, loadVars, stackVars>>

\* The top is returned in 32 bits.
LoadReturns ==
  /\ at = "headers" /\ h > Len(headers)
  /\ base' = roundup(top % Mod32, uparams.page_size)
  /\ unit' = unit + 1 /\ at' = "units"
  /\ UNCHANGED <<prog, params, fileVars, images, todo, h, top, stackVars>>

(***************************************************************************)
(* The stack.                                                              *)
(***************************************************************************)
W == 4
argc == Len(params.arg)
envc == Len(params.env)

\* Bytes of the first n strings, with the zero that ends each of them.
upTo(strings) ==
  LET sum[n \in 0..Len(strings)] == IF n = 0 THEN 0 ELSE sum[n - 1] + strings[n] + 1 IN sum
Bytes(strings) == upTo(strings)[Len(strings)]

\* Offsets from the stack pointer.
arg_a == 3 * W
env_a == arg_a + (argc + 1) * W
arg_s == env_a + (envc + 1) * W + (uparams.auxv * 2 + 1) * W
env_s == arg_s + Bytes(params.arg)
\* Mutant: the size of the environment is left out.
isizeArgs == roundup(env_s, W)
isize == roundup(env_s + Bytes(params.env), W)

size == params.stack_size
sp == stack.base + size - isize

Return == images' = [images EXCEPT ![im].built = TRUE] /\ at' = "idle"

StackSkipped ==
  /\ at = "units" /\ unit > Len(todo) /\ ~uparams.stack_alloc
  /\ Return
  /\ stack' = NoStack /\ mem' = <<>>
  /\ UNCHANGED <<prog, params, fileVars, loadVars, off, k, p>>

StackTooSmall ==
  /\ at = "units" /\ unit > Len(todo) /\ uparams.stack_alloc /\ size < isize
  /\ at' = "idle"
  /\ UNCHANGED <<prog, params, fileVars, images, loadVars, stackVars>>

StackAllocated ==
  /\ at = "units" /\ unit > Len(todo) /\ uparams.stack_alloc /\ size >= isize
  /\ LET addr == ((IF params.stack_at THEN params.stack_addr ELSE StackTop) + Mod64 - size) % Mod64
     IN /\ stack' = [base |-> addr, size |-> size]
        /\ AddSegment([base |-> addr, size |-> size, unit |-> 0, header |-> 0, bytes |-> <<>>])
  /\ off' = size - isize /\ mem' = <<>> /\ k' = 1 /\ at' = "main"
  /\ UNCHANGED <<prog, params, fileVars, loadVars, p>>

\* Cursor::write(): refused, and not noticed, when the bytes are not there.
avail(n) == off + n <= stack.size
Store(bytes, advance) ==
  IF avail(Len(bytes))
  THEN /\ mem' = [o \in DOMAIN mem \cup {off + j - 1 : j \in DOMAIN bytes} |->
                    IF o >= off /\ o < off + Len(bytes) THEN bytes[o - off + 1] ELSE mem[o]]
       /\ off' = off + advance
  ELSE UNCHANGED <<mem, off>>
\* A byte: which one it is, of which word or string; those of 0 are all the same.
byte(kind, v, j) == [of |-> kind, n |-> v, j |-> j]
digit(v, j) == byte("word", v, IF v = 0 THEN 1 ELSE j)

\* Buffer::set() stores a word in the order of the host, without the decoder.
word(v) == [j \in 1..W |-> digit(v % Mod32, j)]
string(kind, i, n) == [j \in 1..(n + 1) |-> IF j <= n THEN byte(kind, i, j) ELSE byte("nul", 0, 0)]

\* Mutant: a byte of the word is left where the next one starts.
WriteShort(v) == Store(word(v), W - 1)
Write(v) == Store(word(v), W)
\* Of a string, its length is counted but not the byte that ends it.
WriteString(kind, i, n) == Store(string(kind, i, n), n)

InStack(phase) == at = phase /\ UNCHANGED <<prog, params, fileVars, loadVars, stack>>
Turn == at' = at /\ k' = k + 1
Leave(next) == at' = next /\ k' = 1

MainWords == <<argc, sp + arg_a, sp + env_a>>
MainWord ==
  /\ InStack("main") /\ k <= 3
  /\ Write(MainWords[k]) /\ Turn
  /\ UNCHANGED <<images, p>>
MainEnds ==
  /\ InStack("main") /\ k > 3
  /\ p' = (sp + arg_s) % Mod32 /\ Leave("argv")
  /\ UNCHANGED <<images, off, mem>>

\* Mutant: the zero of a string is not counted in the pointers.
afterShort(q, n) == (q + n) % Mod32
after(q, n) == (q + n + 1) % Mod32

ArgPointer ==
  /\ InStack("argv") /\ k <= argc
  /\ Write(p) /\ p' = after(p, params.arg[k]) /\ Turn
  /\ UNCHANGED images
ArgvEnds ==
  /\ InStack("argv") /\ k > argc
  /\ Write(0) /\ p' = (sp + env_s) % Mod32 /\ Leave("envp")
  /\ UNCHANGED images
EnvPointer ==
  /\ InStack("envp") /\ k <= envc
  /\ Write(p) /\ p' = after(p, params.env[k]) /\ Turn
  /\ UNCHANGED images
EnvpEnds ==
  /\ InStack("envp") /\ k > envc
  /\ Write(0) /\ Leave("auxv")
  /\ UNCHANGED <<images, p>>

\* type and val of each pair.  Mutant: the same one again.
AuxWordAgain ==
  /\ InStack("auxv") /\ k <= uparams.auxv * 2
  /\ Write(1) /\ UNCHANGED <<at, k, images, p>>
AuxWord ==
  /\ InStack("auxv") /\ k <= uparams.auxv * 2
  /\ Write(1) /\ Turn
  /\ UNCHANGED <<images, p>>
AuxvEnds ==
  /\ InStack("auxv") /\ k > uparams.auxv * 2
  /\ Write(0) /\ Leave("args")
  /\ UNCHANGED <<images, p>>

ArgString ==
  /\ InStack("args") /\ k <= argc
  /\ WriteString("arg", k, params.arg[k]) /\ Turn
  /\ UNCHANGED <<images, p>>
ArgsEnd ==
  /\ InStack("args") /\ k > argc
  /\ Leave("envs")
  /\ UNCHANGED <<images, off, mem, p>>
EnvString ==
  /\ InStack("envs") /\ k <= envc
  /\ WriteString("env", k, params.env[k]) /\ Turn
  /\ UNCHANGED <<images, p>>
EnvsEnd ==
  /\ InStack("envs") /\ k > envc
  /\ Return
  /\ UNCHANGED <<off, mem, k, p>>

Init ==
  /\ prog \in Programs /\ params \in Parameters
  /\ at = "idle" /\ table = "unread" /\ cached = {} /\ faults = 0
  /\ images = <<>> /\ todo = <<>> /\ unit = 1 /\ h = 1 /\ base = 0 /\ top = 0
  /\ stack = NoStack /\ off = 0 /\ k = 1 /\ p = 0 /\ mem = <<>>

Steps ==
  \/ LoadUnit \/ LoadUnitThrows \/ LoadHeader \/ LoadHeaderThrows \/ LoadReturns
  \/ StackSkipped \/ StackTooSmall \/ StackAllocated
  \/ MainWord \/ MainEnds \/ ArgPointer \/ ArgvEnds \/ EnvPointer \/ EnvpEnds
  \/ AuxWord \/ AuxvEnds \/ ArgString \/ ArgsEnd \/ EnvString \/ EnvsEnd

Next == Build \/ Steps

Spec == Init /\ [][Next]_vars

(***************************************************************************)
(* The image.                                                              *)
(***************************************************************************)
\* Mutant: the address after the last one is inside.
containsTop(s, a) == s.base <= a /\ a <= s.base + s.size
\* range_t::contains(), whose last() wraps for an empty range at 0.
contains(s, a) == s.base <= a /\ a <= (s.base + s.size + Mod64 - 1) % Mod64

\* Image::at(): the index of the first segment, 0 for null.
imageAt(segs, a) ==
  LET found == {n \in DOMAIN segs : contains(segs[n], a)}
  IN IF found = {} THEN 0 ELSE CHOOSE n \in found : \A m \in found : n <= m

(***************************************************************************)
(* Properties.                                                             *)
(***************************************************************************)
Content(n) == [0..(n - 1) -> {"file", "zero", "junk"}]
Segment(s) ==
  /\ s.base \in Nat /\ s.size \in Nat
  /\ \/ s.unit = 0 /\ s.header = 0 /\ s.bytes = <<>>
     \/ /\ s.unit \in 1..Len(todo) /\ s.header \in DOMAIN prog
        /\ s.size = prog[s.header].memsz /\ s.bytes \in Content(s.size)

\* Types; a builder never has more units than calls, nor a cursor past its stack.
TypeOK ==
  /\ prog \in Programs /\ params \in Parameters
  /\ at \in {"idle", "units", "headers", "main", "argv", "envp", "auxv", "args", "envs"}
  /\ table \in {"unread", "read", "failed"} /\ cached \subseteq DOMAIN prog
  /\ faults \in 0..MaxFaults
  /\ \A n \in DOMAIN images : /\ images[n].built \in BOOLEAN
                              /\ \A m \in DOMAIN images[n].segs : Segment(images[n].segs[m])
  /\ todo \in Seq(0..(Mod32 - 1)) /\ Len(todo) = Len(images)
  /\ unit \in 1..(Len(todo) + 1) /\ h \in Nat /\ base \in Nat /\ top \in Nat
  /\ stack.base \in Nat /\ off \in 0..stack.size /\ k \in Nat /\ p \in 0..(Mod32 - 1)
  /\ DOMAIN mem \subseteq 0..(stack.size - 1)

\* While the headers are read, an image that is returned holds every loadable
\* header where the header asks to be, whatever failed in the calls before it.
ImageWhole ==
  table = "read" =>
    \A n \in DOMAIN images : images[n].built =>
      \A i \in DOMAIN prog : prog[i].type = "PT_LOAD" =>
        \E m \in DOMAIN images[n].segs :
          LET s == images[n].segs[m] IN
            s.header = i /\ s.base = prog[i].vaddr /\ s.size = prog[i].memsz

\* A unit is loaded above all the units before it, unless one of them ends so high
\* that the next multiple of the page is not an address of 32 bits: the base of
\* what follows is then cut, and starts again from the bottom of the memory.
\* The code: the base of build(), Unit::load() and the top it returns.
Above(segs, i, j) == segs[i].base + segs[i].size <= segs[j].base
Before(segs, u) == {i \in DOMAIN segs : 0 < segs[i].unit /\ segs[i].unit < u}
Fit(segs, u) ==
  \A i \in Before(segs, u) : roundup(segs[i].base + segs[i].size, uparams.page_size) < Mod32
UnitsApart ==
  \A n \in DOMAIN images : LET segs == images[n].segs IN
    \A j \in DOMAIN segs : Fit(segs, segs[j].unit) =>
      \A i \in Before(segs, segs[j].unit) : Above(segs, i, j)

\* No write to the stack is refused: the sizes that are summed first are those
\* that are written.
WritesFit ==
  /\ at \in {"main", "argv", "envp", "auxv"} /\ ~(at = "main" /\ k > 3) => avail(W)
  /\ at = "args" /\ k <= argc => avail(params.arg[k] + 1)
  /\ at = "envs" /\ k <= envc => avail(params.env[k] + 1)

\* The stack of the last image, read in the order of the program, as Buffer::get()
\* does with its decoder.
native == prog \notin Foreign
place(j) == IF native THEN j ELSE W + 1 - j
Ready ==
  at = "idle" /\ im > 0 /\ images[im].built /\ stack # NoStack /\ stack.base + stack.size <= Mod32
byteAt(a) == IF a - stack.base \in DOMAIN mem THEN mem[a - stack.base] ELSE byte("junk", 0, 0)
wordAt(a) ==
  IF \A j \in 1..W : byteAt(a + j - 1) = digit(byteAt(a).n, place(j)) THEN byteAt(a).n ELSE -1
argv == wordAt(sp + W)
envp == wordAt(sp + 2 * W)

Strings == ({"arg"} \X (1..argc)) \cup ({"env"} \X (1..envc))
pointer(s) == IF s[1] = "arg" THEN wordAt(argv + W * (s[2] - 1)) ELSE wordAt(envp + W * (s[2] - 1))
length(s) == IF s[1] = "arg" THEN params.arg[s[2]] ELSE params.env[s[2]]
room(s) == pointer(s)..(pointer(s) + length(s))
endOfTables == envp + W * (envc + 1 + 2 * uparams.auxv)

isString(s) ==
  /\ \A j \in 1..length(s) : byteAt(pointer(s) + j - 1) = byte(s[1], s[2], j)
  /\ byteAt(pointer(s) + length(s)).of = "nul"

TablesRight ==
  /\ wordAt(argv + W * argc) = 0 /\ wordAt(envp + W * envc) = 0 /\ wordAt(endOfTables) = 0
  /\ \A s \in Strings : room(s) \subseteq (endOfTables + W)..(stack.base + stack.size - 1)
  /\ \A s, t \in Strings : s # t => room(s) \cap room(t) = {}
  /\ \A s \in Strings : Cardinality(Strings) = 1 => isString(s)

\* A program of the host's order reads argc, and one of the other order only when
\* it is 0.  For the former, argv and envp lead to tables that end with a null
\* pointer; the pointers before it leave to each string the bytes it needs, above
\* the tables, inside the stack and apart from the other strings.
StackTables ==
  Ready => (wordAt(sp) = argc <=> native \/ argc = 0) /\ (native => TablesRight)

\* The stack pointer is found in the stack, when no segment of the program lies
\* there and none is empty at address 0.
FindsStack ==
  Ready =>
    LET segs == images[im].segs
        inside(n) == segs[n].base <= sp /\ sp < segs[n].base + segs[n].size
    IN \/ imageAt(segs, sp) = Len(segs)
       \/ \E n \in DOMAIN segs : n # Len(segs) /\ (inside(n) \/ segs[n].base + segs[n].size = 0)

\* What is left of a call: units and phases of the stack, then headers of the
\* unit, or turns of the phase.
BuildLeft ==
  CASE at = "units"   -> <<2 * (Len(todo) + 1 - unit) + 7, 0>>
    [] at = "headers" -> <<2 * (Len(todo) + 1 - unit) + 6, Len(headers) + 1 - h>>
    [] at = "main"    -> <<6, 4 - k>>
    [] at = "argv"    -> <<5, argc + 1 - k>>
    [] at = "envp"    -> <<4, envc + 1 - k>>
    [] at = "auxv"    -> <<3, uparams.auxv * 2 + 1 - k>>
    [] at = "args"    -> <<2, argc + 1 - k>>
    [] at = "envs"    -> <<1, envc + 1 - k>>
    [] OTHER          -> <<0, 0>>

\* Each turn of the loops of build(), load() and buildStack() leaves less to do,
\* though a call adds a unit to a list that only grows.
BuildShrinks == [][at # "idle" => Lowers(BuildLeft', BuildLeft)]_vars

(***************************************************************************)
(* What the documentation says.                                            *)
(***************************************************************************)
\* gel_Image.cpp:262: arg is "the list of command line arguments passed to the
\* program, one for each array entry".
ArgumentsPassed == Ready => \A s \in Strings : isString(s)

\* elf_File64.cpp:403: a program header is an "area of memory ready to be loaded
\* into the program image": the bytes of the file, then zeroes.
ReadyToLoad ==
  \A n \in DOMAIN images : \A m \in DOMAIN images[n].segs :
    LET s == images[n].segs[m] IN
      \A j \in DOMAIN s.bytes :
        s.unit > 0 => s.bytes[j] = IF j < prog[s.header].filesz THEN "file" ELSE "zero"
=============================================================================
