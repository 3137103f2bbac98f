----------------------------- MODULE MCOpening -----------------------------
(* One sound file of each format and files that are wrong at a late stage,
   an early one, or everywhere.                                              *)
EXTENDS Opening

elf == [magic |-> "ELF", valid |-> {"magic", "ident", "header"}]
noNames == [magic |-> "ELF", valid |-> {"magic", "ident"}]    \* e_shstrndx out of range
pe == [magic |-> "PE",
       valid |-> {"magic", "offset", "signature", "fields", "windows", "directories", "table",
                  "load"}]                                    \* COFFI reads PE too
msdos == [magic |-> "PE",                                     \* no PE signature
          valid |-> {"magic", "offset", "fields", "windows", "directories", "table"}]
cut == [magic |-> "PE",
        valid |-> {"magic", "offset", "signature", "fields", "windows", "directories"}]
coff == [magic |-> "COFF", valid |-> {"magic", "load"}]
text == [magic |-> "other", valid |-> {"magic"}]
empty == [magic |-> "other", valid |-> {}]

Some == {elf, noNames, pe, msdos, cut, coff, text, empty}
=============================================================================
