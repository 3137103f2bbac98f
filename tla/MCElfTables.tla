---------------------------- MODULE MCElfTables ----------------------------
(* A behaviour of ElfFile on a file of MCElfFile, or one job of ElfTables, the
   other module not moving.                                                  *)
EXTENDS MCElfFile, ElfTables

(* Jobs for ElfTables, with small fields for tables, whose product may pass the
   int, and 4-bit ones for the rest of 32-bit files: an offset of 18 and a size
   of 18 need more.                                                          *)
Few == {0, 1, 3}
Structures == [k \in ({"headers", "sections", "symbols", "dynamics", "notes"} \X {32, 64}) |-> 2]
blank == [op |-> "none", class |-> 32, length |-> 48, offset |-> 10, entsize |-> 0, num |-> 0,
          size |-> 0, filesz |-> 0, badName |-> 0, notes |-> <<>>]
TableJobs ==
  {[blank EXCEPT !.op = o, !.class = c, !.length = l, !.offset = f, !.entsize = e, !.num = n] :
     o \in {"headers", "sections"}, c \in {32, 64}, l \in {14, 48}, f \in {10, 18},
     e \in 0..3, n \in 0..4}
EntryJobs ==
  {[blank EXCEPT !.op = o, !.class = c, !.length = l, !.offset = f, !.entsize = e, !.size = s,
                 !.badName = b] :
     o \in {"symbols", "dynamics"}, c \in {32, 64}, l \in {14, 48}, f \in {10, 18},
     e \in 0..3, s \in {0, 2, 3, 5, 6, 18, 30}, b \in {0, 2}}
note(a, n, d) == [at |-> a, namesz |-> n, descsz |-> d]
Placed ==                                      \* notes and the size they take
  {<<<<note(0, 0, 2)>>, 8>>, <<<<note(0, 1, 2), note(10, 2, 2)>>, 20>>,
   <<<<note(0, 2, 0), note(8, 0, 0)>>, 14>>, <<<<note(0, 0, 2), note(8, 0, 0)>>, 14>>,
   <<<<note(0, 0, 3), note(10, 0, 2)>>, 18>>,
   <<<<note(0, 2, 2), note(10, 2, 2)>>, 20>>, <<<<>>, 0>>,
   <<<<note(0, 0, 1), note(8, 0, 0)>>, 14>>, <<<<note(0, 0, 1)>>, 8>>}
NoteJobs ==
  {[blank EXCEPT !.op = "notes", !.class = c, !.offset = f, !.notes = n[1], !.size = n[2],
                 !.filesz = z] :
     c \in {32, 64}, f \in {10, 18}, z \in {0, 6, 8, 14, 18, 20, 34}, n \in Placed}
AllJobs == {j \in TableJobs \cup EntryJobs \cup NoteJobs :
           j.class = 64 \/ (j.offset < Mod32 /\ j.size < Mod32 /\ j.filesz < Mod32)}
noJob == [blank EXCEPT !.op = "headers"]

\* A job of no header, done.
NoTables ==
  /\ job = noJob /\ at = "done" /\ buf = 0 /\ filled = 0 /\ off = 0 /\ got = <<>>
  /\ again = FALSE /\ beyond = FALSE
NoFile ==
  /\ file = Linked /\ watch = <<"programHeaders", 0>> /\ phase = "aborted" /\ faults = 0
  /\ phBuf = FALSE /\ phLoaded = FALSE /\ phs = {} /\ segsInit = FALSE /\ segs = {}
  /\ sectsLoaded = FALSE /\ sects = {} /\ secBufs = 0 /\ symsNew = FALSE /\ syms = {}
  /\ debugNew = FALSE /\ debug = {} /\ answers = {} /\ raised = {}
  /\ phData = [p \in file.headers |-> "null"] /\ secData = [s \in file.sections |-> "null"]

\* Which of the two moves.
VARIABLE active
BothInit ==
  \/ active = "file" /\ Init /\ NoTables
  \/ active = "tables" /\ NoFile /\ TablesInit
TablesStep == active = "tables" /\ TablesNext /\ UNCHANGED <<vars, active>>
BothNext ==
  \/ active = "file" /\ Next /\ UNCHANGED <<tablesVars, active>>
  \/ TablesStep
BothSpec ==
  BothInit /\ [][BothNext]_<<vars, tablesVars, active>> /\ WF_<<vars, tablesVars, active>>(TablesStep)
=============================================================================
