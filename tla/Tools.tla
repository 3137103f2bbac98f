------------------------------- MODULE Tools -------------------------------
(***************************************************************************)
(* The eight commands of the directory bin (gel-dyn, gel-file, gel-im,     *)
(* gel-line, gel-prog, gel-sect, gel-seg and gel-sym): each parses its     *)
(* words, then for every file argument opens the file, asks the library    *)
(* what it prints and deletes the file, in a try of its own.  They differ  *)
(* in what they ask, in what they do after an exception and in what they   *)
(* say of it.                                                              *)
(*                                                                         *)
(* What the library answers is the business of the other modules: here a   *)
(* file is the record of the outcomes of what may be asked of it.          *)
(***************************************************************************)
EXTENDS Naturals, Sequences, FiniteSets
LOCAL INSTANCE SequencesExt

Commands == {"dyn", "file", "im", "line", "prog", "sect", "seg", "sym"}

\* A question is answered, ends with a gel::Exception, ends the process (an
\* assertion, or an exception no handler takes), or has no defined outcome: the
\* process may go on with any value, or end.
Outcomes == {"done", "throws", "aborts", "undefined"}

\* sections: records [type, alloc, here, name, entries], here being whether the
\* section holds the address of option -f, name and the entries' string the
\* outcomes of reading them; entries: records [tag, string]; headers: [type, notes];
\* symbols: the section index of each; says: the outcomes of the other questions.
Questions == {"sections", "dynamic", "headers", "symbols", "segments", "image", "lines"}
File(f) ==
  /\ f.format \in {"ELF", "PE", "COFF", "none"}
  /\ f.elfType \in Nat
  /\ f.says \in [Questions -> Outcomes]
  /\ \A k \in DOMAIN f.sections : f.sections[k].name \in Outcomes
  /\ \A k \in DOMAIN f.headers : f.headers[k].notes \in Outcomes

CONSTANT Invocations   \* records satisfying Invoked

\* The words of a command: its options, then a sequence of files.
Invoked(c) ==
  /\ c.tool \in Commands /\ IsFiniteSet(c.opts)
  /\ Len(c.args) \in Nat /\ DOMAIN c.args = 1..Len(c.args)
  /\ \A k \in DOMAIN c.args : File(c.args[k])

VARIABLES
  call,     \* the invocation
  point,    \* "parse", "open", "work"; then "exit" or "crashed"
  i,        \* index of the argument
  todo,     \* outcomes of the questions that are left for this file
  open,     \* arguments whose file object lives
  shown,    \* history: arguments printed to their end
  told,     \* history: the error messages
  status    \* what run() returns

toolsVars == <<call, point, i, todo, open, shown, told, status>>

ToolsInit ==
  /\ call \in Invocations /\ Invoked(call)
  /\ point = "parse" /\ i = 1 /\ todo = <<>>
  /\ open = {} /\ shown = {} /\ told = <<>> /\ status = 0

(***************************************************************************)
(* What each command asks, in order.                                       *)
(***************************************************************************)
\* The outcomes of what is asked of each element of a sequence.
Each(q, ask(_)) == FlattenSeq([k \in DOMAIN q |-> ask(q[k])])

\* gel-dyn: the labels of the tags end at DT_COUNT and start at 0.
dynEntry(e) ==
  CASE e.tag = "negative" -> <<"undefined">>
    [] e.tag = "string" -> <<e.string>>
    [] OTHER -> <<>>
dynAsks(f, opts) ==
  IF f.format # "ELF" THEN <<>> ELSE
    <<f.says["sections"]>> \o
      Each(f.sections, LAMBDA s : IF s.type # "DYNAMIC" THEN <<>>
                                  ELSE <<f.says["dynamic"]>> \o Each(s.entries, dynEntry))

\* gel-file: the table of get_type() has five names, and 5 is let through.
typeName(t) == IF t = 5 THEN <<"undefined">> ELSE <<>>
fileAsks(f, opts) ==
  IF f.format = "ELF" /\ opts \cap {"-a", "-e"} # {} THEN typeName(f.elfType) ELSE <<>>

\* gel-im: pecoff::File::make() returns a null pointer, which nobody looks at.
\* The image is deleted with the file; the bytes of its segments are there.
imAsks(f, opts) == IF f.format = "PE" THEN <<"aborts">> ELSE <<f.says["image"]>>

\* gel-line asserts that there are debugging lines: File::debugLines() of a
\* format without them, and coffi's of a file without them, return null.
lineAsks(f, opts) == IF f.format = "PE" THEN <<"aborts">> ELSE <<f.says["lines"]>>

\* gel-prog.
print_note(h) == IF h.type = "NOTE" THEN <<h.notes>> ELSE <<>>
progAsks(f, opts) ==
  <<f.says["headers"]>> \o (IF "-n" \in opts THEN Each(f.headers, print_note) ELSE <<>>)

\* Mutant: the search leaves a section more out.
sectFindsLate(f) == {k \in 3..Len(f.sections) : f.sections[k].alloc /\ f.sections[k].here}

\* gel-sect with -e.  The search for an address leaves section 0 out; when it finds
\* nothing it throws an elm::MessageException, the base class of gel::Exception,
\* which neither handler of run() takes.
sectFinds(f) == {k \in 2..Len(f.sections) : f.sections[k].alloc /\ f.sections[k].here}
sectELFAsks(f, opts) ==
  <<f.says["sections"]>> \o
    (IF "-f" \notin opts THEN Each(f.sections, LAMBDA s : <<s.name>>)
     ELSE FlattenSeq([k \in DOMAIN f.sections |->
                        IF k \in sectFinds(f) THEN <<f.sections[k].name>> ELSE <<>>])
          \o (IF sectFinds(f) = {} THEN <<"aborts">> ELSE <<>>))

\* gel-sect without it: option -f has no effect.
sectAsks(f, opts) ==
  IF "-e" \in opts THEN sectELFAsks(f, opts)
  ELSE <<f.says["sections"]>> \o Each(f.sections, LAMBDA s : <<s.name>>)

\* gel-seg: option -f has no effect.
segAsks(f, opts) == <<f.says["segments"]>>

\* gel-sym prints all the symbols once for each section of these types.
get_section_index(f, shndx) ==
  IF shndx \in 1..(Len(f.sections) - 1) THEN <<f.sections[shndx + 1].name>> ELSE <<>>
symELFAsks(f, opts) ==
  LET whole(x) == IF "-F" \in opts THEN <<>> ELSE x IN
    <<f.says["sections"]>> \o
      Each(f.sections, LAMBDA s :
        IF s.type \notin {"SYMTAB", "DYNAMIC"} THEN <<>>
        ELSE whole(<<s.name>>) \o <<f.says["symbols"]>> \o
               whole(Each(f.symbols, LAMBDA x : get_section_index(f, x))))

\* pecoff::File::symbols() returns nothing where it should return a table.
symAsks(f, opts) ==
  CASE f.format = "ELF" -> symELFAsks(f, opts)
    [] f.format = "PE" -> <<"undefined">>
    [] OTHER -> <<f.says["symbols"]>>

(***************************************************************************)
(* How each command runs: the least number of arguments, the formats it    *)
(* opens, whether it deletes the files, whether it goes on after an        *)
(* exception, what its message names and what run() returns after one.     *)
(***************************************************************************)
Formats == {"ELF", "PE", "COFF"}

dynRun == [least |-> 0, opens |-> Formats, deletes |-> TRUE,
           goesOn |-> TRUE, names |-> "word", failure |-> 0]
fileRun == [least |-> 1, opens |-> Formats, deletes |-> TRUE,
            goesOn |-> FALSE, names |-> "nothing", failure |-> 1]
imRun == [least |-> 1, opens |-> Formats, deletes |-> TRUE,
          goesOn |-> FALSE, names |-> "nothing", failure |-> 1]
lineRun == [least |-> 0, opens |-> Formats, deletes |-> TRUE,
            goesOn |-> TRUE, names |-> "argument", failure |-> 0]
progRun == [least |-> 0, opens |-> {"ELF"}, deletes |-> TRUE,
            goesOn |-> TRUE, names |-> "word", failure |-> 0]
sectRun(opts) == [least |-> 1, opens |-> IF "-e" \in opts THEN {"ELF"} ELSE Formats,
                  deletes |-> "-e" \in opts,
                  goesOn |-> FALSE, names |-> "nothing", failure |-> 1]
segRun == [least |-> 1, opens |-> Formats, deletes |-> FALSE,
           goesOn |-> FALSE, names |-> "nothing", failure |-> 1]
symRun == [least |-> 1, opens |-> Formats, deletes |-> TRUE,
           goesOn |-> FALSE, names |-> "argument", failure |-> 2]

run(t, opts) ==
  CASE t = "dyn" -> dynRun [] t = "file" -> fileRun [] t = "im" -> imRun
    [] t = "line" -> lineRun [] t = "prog" -> progRun [] t = "sect" -> sectRun(opts)
    [] t = "seg" -> segRun [] t = "sym" -> symRun
asks(t, f, opts) ==
  CASE t = "dyn" -> dynAsks(f, opts) [] t = "file" -> fileAsks(f, opts)
    [] t = "im" -> imAsks(f, opts) [] t = "line" -> lineAsks(f, opts)
    [] t = "prog" -> progAsks(f, opts) [] t = "sect" -> sectAsks(f, opts)
    [] t = "seg" -> segAsks(f, opts) [] t = "sym" -> symAsks(f, opts)

me == run(call.tool, call.opts)

\* Mutant: gel-sym too ends without a return.
exitStatusDropped(t, st) == IF t \in {"file", "im", "seg", "sym"} THEN 0 ELSE st

\* The status of the process: these main() drop what run() returns.
exitStatus(t, st) == IF t \in {"file", "im", "seg"} THEN 0 ELSE st

(***************************************************************************)
(* The steps of a command.                                                 *)
(***************************************************************************)
\* The options are wrong, or there are not enough arguments.
Usage ==
  /\ point = "parse"
  /\ "wrong" \in call.opts \/ Len(call.args) < me.least
  /\ point' = "exit" /\ status' = 1
  /\ UNCHANGED <<call, i, todo, open, shown, told>>

Parse ==
  /\ point = "parse"
  /\ ~("wrong" \in call.opts \/ Len(call.args) < me.least)
  /\ point' = "open"
  /\ UNCHANGED <<call, i, todo, open, shown, told, status>>

\* The argument a message names, 0 for none of them.  args holds the arguments
\* and argv all the words, the name of the command the first: argv[i] is the
\* word before args[i], and further back when there are options.
named ==
  CASE me.names = "argument" -> i
    [] me.names = "word" -> IF i - 1 > Cardinality(call.opts) THEN i - 1 - Cardinality(call.opts)
                                                              ELSE 0
    [] me.names = "nothing" -> 0

\* Mutant: the file is deleted by the handler.
CatchDeleting ==
  /\ told' = Append(told, [failed |-> i, names |-> named, opened |-> point = "work"])
  /\ IF me.goesOn THEN point' = "open" /\ i' = i + 1 /\ UNCHANGED status
                  ELSE point' = "exit" /\ status' = me.failure /\ UNCHANGED i
  /\ todo' = <<>> /\ open' = open \ {i}
  /\ UNCHANGED <<call, shown>>

\* The handler of gel::Exception; the file, if there is one, is in no variable
\* that it sees.
Catch ==
  /\ told' = Append(told, [failed |-> i, names |-> named, opened |-> point = "work"])
  /\ IF me.goesOn THEN point' = "open" /\ i' = i + 1 /\ UNCHANGED status
                  ELSE point' = "exit" /\ status' = me.failure /\ UNCHANGED i
  /\ todo' = <<>>
  /\ UNCHANGED <<call, open, shown>>

Open ==
  /\ point = "open" /\ i <= Len(call.args)
  /\ call.args[i].format \in me.opens
  /\ point' = "work" /\ todo' = asks(call.tool, call.args[i], call.opts)
  /\ open' = open \cup {i}
  /\ UNCHANGED <<call, i, shown, told, status>>
OpenThrows ==
  /\ point = "open" /\ i <= Len(call.args)
  /\ call.args[i].format \notin me.opens
  /\ Catch

Ask(outcomes) == point = "work" /\ todo # <<>> /\ Head(todo) \in outcomes
Answered ==
  /\ Ask({"done", "undefined"})
  /\ todo' = Tail(todo)
  /\ UNCHANGED <<call, point, i, open, shown, told, status>>
AskThrows == Ask({"throws"}) /\ Catch
Crash ==
  /\ Ask({"aborts", "undefined"})
  /\ point' = "crashed"
  /\ UNCHANGED <<call, i, todo, open, shown, told, status>>

\* The file is printed and, but for some commands, deleted.
Done ==
  /\ point = "work" /\ todo = <<>>
  /\ point' = "open" /\ i' = i + 1
  /\ shown' = shown \cup {i}
  /\ open' = IF me.deletes THEN open \ {i} ELSE open
  /\ UNCHANGED <<call, todo, told, status>>

RunReturns ==
  /\ point = "open" /\ i > Len(call.args)
  /\ point' = "exit"
  /\ UNCHANGED <<call, i, todo, open, shown, told, status>>

ToolsNext ==
  \/ Usage \/ Parse \/ Open \/ OpenThrows
  \/ Answered \/ AskThrows \/ Crash \/ Done \/ RunReturns

ToolsSpec == ToolsInit /\ [][ToolsNext]_toolsVars

(***************************************************************************)
(* Properties.                                                             *)
(***************************************************************************)
\* A file of which the library answers all that gel-sect asks.
Readable(f) ==
  f.says["sections"] = "done" /\ \A k \in DOMAIN f.sections : f.sections[k].name = "done"

\* Every argument of a command that ends is printed to its end, or the subject
\* of a message, or after one that was and that ended the command.  For gel-sym
\* and gel-sect an exit status of 0 means that all were printed; for the others
\* it says nothing (gel-file.cpp:236).  gel-line and gel-sym name the file that
\* failed, the other commands never do (gel-dyn.cpp:71 and gel-prog.cpp:99 name
\* another word).
ShownOrTold ==
  point = "exit" /\ "wrong" \notin call.opts =>
    /\ \A k \in DOMAIN call.args \ shown :
         \E m \in DOMAIN told : \/ told[m].failed = k
                                \/ told[m].failed < k /\ m = Len(told) /\ i = told[m].failed
    /\ call.tool \in {"sect", "sym"} /\ exitStatus(call.tool, status) = 0 =>
         DOMAIN call.args \subseteq shown
    /\ \A m \in DOMAIN told :
         told[m].names = told[m].failed <=> call.tool \in {"line", "sym"}

\* On files the library reads well, gel-sect ends otherwise than by its return only
\* in a search (-f with -e) for an address no section has, whose message
\* (gel-sect.cpp:60) then nobody sees; one that returns has found every address.
SearchEnds ==
  call.tool = "sect" /\ (\A k \in DOMAIN call.args : Readable(call.args[k])) =>
    LET Has(f) == \E k \in DOMAIN f.sections \ {1} : f.sections[k].alloc /\ f.sections[k].here IN
      /\ point = "crashed" => {"-e", "-f"} \subseteq call.opts /\ ~Has(call.args[i])
      /\ {"-e", "-f"} \subseteq call.opts => \A k \in shown : Has(call.args[k])

\* What is still open when a command ends: the files an exception was about,
\* since the handlers cannot delete them, and all those of gel-seg and of gel-sect
\* without -e, which never do.
LeftOpen ==
  point = "exit" =>
    open = {told[m].failed : m \in {m \in DOMAIN told : told[m].opened}}
             \cup (IF me.deletes THEN {} ELSE shown)
=============================================================================
