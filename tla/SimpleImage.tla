---------------------------- MODULE SimpleImage ----------------------------
(***************************************************************************)
(* Images and what they own: SimpleBuilder::build(), which File::make() of *)
(* ELF and COFF files runs, Image and ImageSegment (gel_Image.cpp), with   *)
(* the files a client opens, gives to an image as libraries and deletes.   *)
(* File::make() of PE-COFF files answers nullptr and changes nothing.      *)
(*                                                                         *)
(* A segment of an image is named by the file and the index of the segment *)
(* it was made from; their order in the image is in UnixImage.             *)
(***************************************************************************)
EXTENDS Naturals, FiniteSets

CONSTANTS
  Files, Images,  \* objects that may be made
  NoFile,         \* nullptr
  Kinds,          \* what files may hold, records satisfying Shaped
  MaxFailures     \* bound: reads that fail

\* The segments of a file by index: none is read (empty), COFFI has no data for
\* it (absent), the data is not in the file (uninitialised), or it is.
Shaped(kd) ==
  /\ kd.count \in Nat /\ kd.format \in {"elf", "coff"}
  /\ kd.segs \in [1..kd.count -> {"empty", "absent", "uninitialised", "bytes"}]
  /\ kd.format = "elf" => \A k \in 1..kd.count : kd.segs[k] \in {"empty", "bytes"}

VARIABLES
  kind,         \* the files on the disk
  state,        \* of the objects: "unused", "live", "freed" (by the client), "dropped" (by an image)
  headerTable,  \* headers of the ELF files: "unread", "read", "failed"
  buffered,     \* ProgramHeader::_buf of the ELF files: the indexes that are read
  image,        \* the images
  given,        \* history: the image a file was given to as a library
  twice,        \* history: delete was called on a deleted file
  failures      \* reads that have failed

diskVars == <<headerTable, buffered, failures>>
imagesVars == <<kind, state, diskVars, image, given, twice>>

\* An image: "unused", "held" by the client, "lost" (nobody has it) or "deleted".
NoImage == [state |-> "unused", prog |-> NoFile, links |-> {}, segs |-> <<>>]
None == "none"

\* What no object is.
Apart == NoFile \notin Files /\ None \notin Images /\ MaxFailures \in Nat

ImagesInit ==
  /\ Apart /\ kind \in [Files -> Kinds] /\ \A f \in Files : Shaped(kind[f])
  /\ state = [f \in Files |-> "unused"] /\ headerTable = [f \in Files |-> "unread"]
  /\ buffered = [f \in Files |-> {}] /\ failures = 0
  /\ image = [i \in Images |-> NoImage]
  /\ given = [f \in Files |-> None] /\ twice = FALSE

Open(f) ==
  /\ state[f] = "unused"
  /\ state' = [state EXCEPT ![f] = "live"]
  /\ UNCHANGED <<kind, diskVars, image, given, twice>>

(***************************************************************************)
(* SimpleBuilder::build().                                                 *)
(***************************************************************************)
\* An ELF file whose headers could not be read once has none later (ElfFile).
count(f) == IF headerTable[f] = "failed" THEN 0 ELSE kind[f].count

\* The segments that are neither of size 0 nor without bytes.
kept(f) == {k \in 1..count(f) : kind[f].segs[k] \notin {"empty", "absent"}}

\* ImageSegment(file, segment, ...): a copy, or zeroes, in memory of its own; the
\* decoder of an ELF file is the file, the one of a COFF file a static object.
copyOf(f, k) ==
  [file |-> f, bytes |-> IF kind[f].segs[k] = "uninitialised" THEN "zeroes" ELSE "copy",
   decoder |-> IF kind[f].format = "elf" THEN f ELSE NoFile]

Copies(f, K) == [e \in {f} \X K |-> copyOf(f, e[2])]
NewImage(st, f, K) == [state |-> st, prog |-> f, links |-> {f}, segs |-> Copies(f, K)]

\* A file that was given to an image as a library is no longer the client's.
Program(f) == state[f] = "live" /\ given[f] = None

Loaded(f) == [headerTable EXCEPT ![f] = IF @ = "unread" THEN "read" ELSE @]

Make(i, f) ==
  /\ image[i].state = "unused" /\ Program(f)
  /\ image' = [image EXCEPT ![i] = NewImage("held", f, kept(f))]
  /\ headerTable' = Loaded(f) /\ buffered' = [buffered EXCEPT ![f] = @ \cup kept(f)]
  /\ UNCHANGED <<kind, state, failures, given, twice>>

ReadFails(f) == kind[f].format = "elf" /\ failures < MaxFailures /\ failures' = failures + 1

\* An exception in build() leaves the image to nobody: count() throws, or the
\* buffer() of a segment that was not read before.
MakeThrows(i, f) ==
  /\ image[i].state = "unused" /\ Program(f) /\ headerTable[f] = "unread" /\ ReadFails(f)
  /\ image' = [image EXCEPT ![i] = NewImage("lost", f, {})]
  /\ headerTable' = [headerTable EXCEPT ![f] = "failed"]
  /\ UNCHANGED <<kind, state, buffered, given, twice>>

\* Mutant: the image is given to the client as it is.
BufferThrowsHeld(i, f) ==
  /\ image[i].state = "unused" /\ Program(f) /\ ReadFails(f)
  /\ \E k \in kept(f) \ buffered[f] :
       LET before == {j \in kept(f) : j < k} IN
         /\ image' = [image EXCEPT ![i] = NewImage("held", f, before)]
         /\ buffered' = [buffered EXCEPT ![f] = @ \cup before]
  /\ headerTable' = Loaded(f)
  /\ UNCHANGED <<kind, state, given, twice>>

BufferThrows(i, f) ==
  /\ image[i].state = "unused" /\ Program(f) /\ ReadFails(f)
  /\ \E k \in kept(f) \ buffered[f] :
       LET before == {j \in kept(f) : j < k} IN
         /\ image' = [image EXCEPT ![i] = NewImage("lost", f, before)]
         /\ buffered' = [buffered EXCEPT ![f] = @ \cup before]
  /\ headerTable' = Loaded(f)
  /\ UNCHANGED <<kind, state, given, twice>>

(***************************************************************************)
(* Image.  What a builder with libraries does with it: add() of a file and *)
(* of the segments of Unit::load(), which borrow the bytes of their file.  *)
(***************************************************************************)
Held(i) == image[i].state = "held"

\* A file is given once, and is the program of no image.
AddFile(i, f) ==
  /\ Held(i) /\ Program(f)
  /\ \A j \in Images : image[j].state # "unused" => image[j].prog # f
  /\ image' = [image EXCEPT ![i].links = @ \cup {f}]
  /\ given' = [given EXCEPT ![f] = i]
  /\ UNCHANGED <<kind, state, diskVars, twice>>

borrowed(f) == [file |-> f, bytes |-> "borrowed", decoder |-> f]

AddLoaded(i, f) ==
  /\ Held(i) /\ state[f] = "live" /\ f \in image[i].links /\ kind[f].format = "elf"
  /\ \E k \in kept(f) :
       /\ <<f, k>> \notin DOMAIN image[i].segs
       /\ image' = [image EXCEPT ![i].segs =
                      [e \in DOMAIN @ \cup {<<f, k>>} |->
                         IF e = <<f, k>> THEN borrowed(f) ELSE @[e]]]
       /\ buffered' = [buffered EXCEPT ![f] = @ \cup {k}]
  /\ headerTable' = Loaded(f)
  /\ UNCHANGED <<kind, state, failures, given, twice>>

\* Mutants: the list of files is not emptied; the program is deleted as well.
unlinkedKept(im) == im.links
librariesAll(im) == im.links
\* Image::clean(): what it deletes, and what is left of the list.
unlinked(im) == {}
libraries(im) == im.links \ {im.prog}

\* The segments of other files forget them: ImageSegment::clean().
forgotten(im) ==
  [e \in DOMAIN im.segs |->
     IF im.segs[e].file # im.prog THEN [im.segs[e] EXCEPT !.file = NoFile] ELSE im.segs[e]]

CleanedAs(i, st) ==
  /\ state' = [f \in Files |-> IF f \in libraries(image[i]) THEN "dropped" ELSE state[f]]
  /\ twice' = (twice \/ \E f \in libraries(image[i]) : state[f] # "live")
  /\ image' = [image EXCEPT ![i] = [state |-> st, prog |-> @.prog, links |-> unlinked(@),
                                    segs |-> forgotten(@)]]
  /\ UNCHANGED <<kind, diskVars, given>>

Clean(i) == Held(i) /\ CleanedAs(i, "held")

\* ~Image() is clean(): the segments and their bytes stay.
DeleteImage(i) == Held(i) /\ CleanedAs(i, "deleted")

\* The client deletes the files that are its own, programs of images or not.
DeleteFile(f) ==
  /\ Program(f)
  /\ state' = [state EXCEPT ![f] = "freed"]
  /\ UNCHANGED <<kind, diskVars, image, given, twice>>

ImagesNext ==
  \/ \E f \in Files : Open(f) \/ DeleteFile(f)
  \/ \E i \in Images : Clean(i) \/ DeleteImage(i)
  \/ \E i \in Images, f \in Files :
       Make(i, f) \/ MakeThrows(i, f) \/ BufferThrows(i, f) \/ AddFile(i, f) \/ AddLoaded(i, f)

ImagesSpec == ImagesInit /\ [][ImagesNext]_imagesVars

SegmentRecords ==
  [file : Files \cup {NoFile}, bytes : {"copy", "zeroes", "borrowed"},
   decoder : Files \cup {NoFile}]
ImagesTypeOK ==
  /\ kind \in [Files -> Kinds]
  /\ state \in [Files -> {"unused", "live", "freed", "dropped"}]
  /\ headerTable \in [Files -> {"unread", "read", "failed"}]
  /\ buffered \in [Files -> SUBSET Nat] /\ failures \in 0..MaxFailures
  /\ given \in [Files -> Images \cup {None}] /\ twice \in BOOLEAN
  /\ \A i \in Images :
       /\ image[i].state \in {"unused", "held", "lost", "deleted"}
       /\ image[i].prog \in Files \cup {NoFile} /\ image[i].links \subseteq Files
       /\ DOMAIN image[i].segs \subseteq Files \X Nat
       /\ \A e \in DOMAIN image[i].segs : image[i].segs[e] \in SegmentRecords

(***************************************************************************)
(* Properties.                                                             *)
(***************************************************************************)
\* An image a client was given has every segment of its program that has bytes,
\* those without content zeroed, or none at all when the headers of the file
\* could not be read once: an exception never leaves it with a part of them.
\* The code: SimpleBuilder::build(), ImageSegment::ImageSegment().
ImageHolds ==
  \A i \in Images : Held(i) =>
    LET p == image[i].prog
        own == {k \in 1..kind[p].count : <<p, k>> \in DOMAIN image[i].segs}
    IN IF headerTable[p] = "failed" THEN own = {}
       ELSE /\ own = {k \in 1..kind[p].count : kind[p].segs[k] \in {"uninitialised", "bytes"}}
            /\ \A k \in own : image[i].segs[<<p, k>>].bytes = "copy" <=> kind[p].segs[k] = "bytes"

\* The bytes of a segment, or the object that decodes them, are gone.
Readable(e, s) ==
  /\ s.decoder # NoFile => state[s.decoder] = "live"
  /\ s.bytes = "borrowed" => state[e[1]] = "live"

\* A segment an image holds can be read unless clean() has cut it from its file or
\* the client has deleted its file: one that still names a file is readable, and
\* one that names none is not.
\* The code: Image::clean(), ImageSegment::clean(), the decoders of the buffers.
SegmentsReadable ==
  \A i \in Images : Held(i) =>
    \A e \in DOMAIN image[i].segs :
      LET s == image[i].segs[e] IN
        Readable(e, s) <=> \/ s.decoder = NoFile
                           \/ s.file # NoFile /\ state[s.file] # "freed"

\* A file given to an image is deleted once, by the time the image is, and never
\* before the image is cleaned; no file is deleted twice.
\* The code: Image::clean(), Image::~Image(), File *Image::program().
FilesOwned ==
  /\ ~twice
  /\ \A f \in Files : given[f] # None =>
       (state[f] = "live" <=> Held(given[f]) /\ f \in image[given[f]].links)
=============================================================================
