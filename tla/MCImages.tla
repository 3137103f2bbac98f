----------------------------- MODULE MCImages -----------------------------
(* A behaviour of UnixImage on a program of MCUnixImage, one of SimpleImage on
   three files and two images, or one of PecoffFile or CoffiFile on a file of
   MCOtherFiles, the other modules not moving.                               *)
EXTENDS MCUnixImage, SimpleImage, MCOtherFiles

\* A segment of no bytes among others; one that is not in the file, one without
\* data; a file of one segment.
Elf == [format |-> "elf", count |-> 3, segs |-> <<"bytes", "empty", "bytes">>]
Coff == [format |-> "coff", count |-> 3, segs |-> <<"uninitialised", "absent", "bytes">>]
CONSTANTS f1, f2, f3, i1, i2, nullptr
ElfAndCoff == {Elf, Coff}

NoSimple == ImagesInit /\ \A f \in Files : kind[f] = Elf
NoUnix == Init /\ prog = (CHOOSE q \in Programs : TRUE) /\ params = (CHOOSE q \in Parameters : TRUE)

\* Which of the four moves.
VARIABLE active
FourInit ==
  \/ active = "unix" /\ Init /\ NoSimple /\ NoPe /\ NoCoff
  \/ active = "simple" /\ NoUnix /\ ImagesInit /\ NoPe /\ NoCoff
  \/ active = "pe" /\ NoUnix /\ NoSimple /\ PeInit /\ NoCoff
  \/ active = "coff" /\ NoUnix /\ NoSimple /\ NoPe /\ CoffInit
FourNext ==
  \/ active = "unix" /\ Next /\ UNCHANGED <<imagesVars, peVars, coffVars, active>>
  \/ active = "simple" /\ ImagesNext /\ UNCHANGED <<vars, peVars, coffVars, active>>
  \/ active = "pe" /\ PeNext /\ UNCHANGED <<vars, imagesVars, coffVars, active>>
  \/ active = "coff" /\ CoffNext /\ UNCHANGED <<vars, imagesVars, peVars, active>>
FourSpec == FourInit /\ [][FourNext]_<<vars, imagesVars, peVars, coffVars, active>>
=============================================================================
