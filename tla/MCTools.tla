------------------------------ MODULE MCTools ------------------------------
(* A behaviour of Opening on the files of MCOpening, one command of Tools on up
   to three files, or one line section of MCDwarfLine that DwarfLine reads and
   gel-line lists, the other modules not moving.                             *)
EXTENDS MCOpening, Tools, MCDwarfLine, LineListing

Fine == [k \in {"sections", "dynamic", "headers", "symbols", "segments", "image", "lines"} |-> "done"]
part(t, n, e) == [type |-> t, alloc |-> t = "PROGBITS", here |-> n = "done", name |-> n, entries |-> e]
entry(t, o) == [tag |-> t, string |-> o]
header(t, o) == [type |-> t, notes |-> o]

sound ==
  [format |-> "ELF", elfType |-> 2, says |-> Fine,
   sections |-> <<part("NULL", "done", <<>>), part("PROGBITS", "done", <<>>),
                  part("DYNAMIC", "done", <<entry("string", "done"), entry("value", "done")>>),
                  part("SYMTAB", "done", <<>>)>>,
   headers |-> <<header("LOAD", "done"), header("NOTE", "done")>>,
   symbols |-> <<0, 1, 9>>]
\* Its names are not in the table of names; its notes are cut; of no known type.
nameless ==
  [sound EXCEPT !.sections[2].name = "throws", !.sections[3].entries[1].string = "throws",
                !.headers[2].notes = "throws", !.elfType = 5]
\* No section and no header table can be read, and no debugging lines.
cutShort == [sound EXCEPT !.says = [q \in DOMAIN Fine |-> "throws"]]
odd ==
  [sound EXCEPT !.sections[3].entries[2].tag = "negative", !.headers[2].notes = "aborts",
                !.sections[4].name = "aborts"]
portable == [sound EXCEPT !.format = "PE"]
objects == [sound EXCEPT !.format = "COFF"]
missing == [sound EXCEPT !.format = "none"]
\* No section holds the address that is searched for.
elsewhere == [sound EXCEPT !.sections[2].here = FALSE]
AllWords == {sound, elsewhere, nameless, cutShort, odd, portable, objects, missing}

OptionSets ==
  [dyn |-> {{}}, file |-> {{}, {"-e"}, {"-a", "-e"}}, im |-> {{}}, line |-> {{}, {"-c"}},
   prog |-> {{}, {"-n"}}, sect |-> {{}, {"-e"}, {"-f"}, {"-e", "-f"}}, seg |-> {{}},
   sym |-> {{}, {"-F"}}]
Words == {<<>>} \cup {<<f>> : f \in AllWords} \cup {<<f, g>> : f, g \in AllWords}
           \cup {<<sound, f, g>> : f, g \in AllWords}
Calls ==
  UNION {{[tool |-> t, opts |-> o, args |-> w] : o \in OptionSets[t], w \in Words} : t \in DOMAIN OptionSets}
    \cup {[tool |-> t, opts |-> {"wrong"}, args |-> <<>>] : t \in DOMAIN OptionSets \ {"line"}}

\* The modules that do not move.
NoCommand ==
  /\ call = [tool |-> "dyn", opts |-> {}, args |-> <<>>] /\ point = "parse" /\ i = 1
  /\ todo = <<>> /\ open = {} /\ shown = {} /\ told = <<>> /\ status = 0
NoLines == Init /\ sect = section(FALSE, <<>>)

\* Which of the three moves.
VARIABLE active
ThreeInit ==
  \/ active = "opening" /\ OpeningInit /\ NoCommand /\ NoLines
  \/ active = "command" /\ OpeningInit /\ ToolsInit /\ NoLines
  \/ active = "lines" /\ OpeningInit /\ NoCommand /\ Init
ThreeNext ==
  \/ active = "opening" /\ OpeningNext /\ UNCHANGED <<toolsVars, vars, active>>
  \/ active = "command" /\ ToolsNext /\ UNCHANGED <<openingVars, vars, active>>
  \/ active = "lines" /\ Next /\ UNCHANGED <<openingVars, toolsVars, active>>
ThreeSpec == ThreeInit /\ [][ThreeNext]_<<openingVars, toolsVars, vars, active>>
=============================================================================
