--------------------------- MODULE MCOtherFiles ---------------------------
(* The files that are not ELF, for PecoffFile and for CoffiFile, and how each
   of the two modules stands when it does not move.                          *)
EXTENDS PecoffFile, CoffiFile, TLC

(* PE-COFF sections whose raw bytes are as many as, fewer and more than their
   virtual ones, or none (.bss); two with long names, one of them lost; a name
   of eight characters; a file cut in its strings.                           *)
even == [sections |-> 1..3, long |-> {2, 3}, far |-> {3}, full |-> {}, cut |-> FALSE,
         raw |-> (1 :> 4 @@ 2 :> 4 @@ 3 :> 8), virtual |-> (1 :> 4 @@ 2 :> 4 @@ 3 :> 8)]
uneven == [sections |-> 1..3, long |-> {1, 2}, far |-> {}, full |-> {3}, cut |-> FALSE,
           raw |-> (1 :> 4 @@ 2 :> 8 @@ 3 :> 0), virtual |-> (1 :> 6 @@ 2 :> 5 @@ 3 :> 2)]
short == [sections |-> 1..2, long |-> {2}, far |-> {}, full |-> {}, cut |-> TRUE,
          raw |-> (1 :> 4 @@ 2 :> 4), virtual |-> (1 :> 4 @@ 2 :> 4)]
Some == {even, uneven, short}

(* COFF sections of text, data, bss and debug lines; symbols in each, in no
   section, and twice under one name.                                        *)
sect(flags) == [flags |-> flags, empty |-> FALSE, debug |-> FALSE]
lines == [flags |-> {"COPY"}, empty |-> FALSE, debug |-> TRUE]
nothing == [flags |-> {"BSS"}, empty |-> TRUE, debug |-> FALSE]
sym(s, n, t, l) == [name |-> s, number |-> n, typed |-> t, label |-> l]
object ==
  [arch |-> "TI", badDebug |-> FALSE,
   sections |-> <<sect({"TEXT"}), nothing, lines, lines, sect({"DATA"})>>,
   symbols |-> <<sym("f", 1, TRUE, FALSE), sym("x", 5, TRUE, FALSE), sym("f", 1, TRUE, TRUE),
                 sym("y", 2, FALSE, FALSE), sym("l", 1, FALSE, FALSE), sym("a", 65535, TRUE, FALSE)>>]
common == [object EXCEPT !.symbols = <<sym("u", 0, FALSE, FALSE), sym("v", 1, TRUE, FALSE)>>]
garbage == [object EXCEPT !.badDebug = TRUE, !.symbols = <<sym("f", 1, TRUE, FALSE)>>]
stripped == [object EXCEPT !.sections = <<sect({"TEXT"})>>]
ceva == [object EXCEPT !.arch = "CEVA", !.sections = <<lines, sect({"TEXT"})>>]
AllObjects == {object, common, garbage, stripped, ceva}

one == CHOOSE f \in Some : TRUE
NoPe ==
  /\ file = one /\ watch = <<"name", 1>> /\ phase = "closed" /\ peFaults = 0
  /\ strings = "null" /\ name = [s \in file.sections |-> "none"]
  /\ buf = [s \in file.sections |-> "null"] /\ answers = {} /\ causes = {}
NoCoff ==
  /\ coffFile = object /\ coffWatch = <<"debugLines", "">> /\ coffPhase = "none" /\ opens = 0
  /\ live = {} /\ symNew = FALSE /\ symtab = <<>> /\ keys = <<>> /\ debugInit = FALSE /\ debug = 0
  /\ coffAnswers = {} /\ raised = FALSE
=============================================================================
