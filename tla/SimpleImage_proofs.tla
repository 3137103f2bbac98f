------------------------- MODULE SimpleImage_proofs -------------------------
(***************************************************************************)
(* Proofs about SimpleImage, for any files, images and failures.  The      *)
(* inductive invariant says whose each file is: the client's, as programs  *)
(* of images are, or the one image's it was given to, which still lists it *)
(* or has dropped it.                                                      *)
(***************************************************************************)
EXTENDS SimpleImage, TLAPS

(***************************************************************************)
(* The inductive invariant.                                                *)
(***************************************************************************)
SegmentMaps == UNION {[D -> SegmentRecords] : D \in SUBSET (Files \X Nat)}
ImageRecords ==
  [state : {"unused", "held", "lost", "deleted"}, prog : Files \cup {NoFile},
   links : SUBSET Files, segs : SegmentMaps]

Types ==
  /\ Apart /\ kind \in [Files -> Kinds] /\ \A f \in Files : Shaped(kind[f])
  /\ state \in [Files -> {"unused", "live", "freed", "dropped"}]
  /\ headerTable \in [Files -> {"unread", "read", "failed"}]
  /\ buffered \in [Files -> SUBSET Nat] /\ failures \in 0..MaxFailures
  /\ given \in [Files -> Images \cup {None}] /\ twice = FALSE
  /\ image \in [Images -> ImageRecords]

\* The files an image lists, and its program.
Listed(i) ==
  /\ \A f \in image[i].links : f = image[i].prog \/ given[f] = i
  /\ image[i].state # "unused" =>
       /\ image[i].prog \in Files /\ given[image[i].prog] = None
       /\ state[image[i].prog] \in {"live", "freed"}
  /\ image[i].state = "unused" => DOMAIN image[i].segs = {}

\* A file given to an image.
Given(f) ==
  given[f] # None =>
    /\ image[given[f]].state \in {"held", "deleted"} /\ state[f] \in {"live", "dropped"}
    /\ state[f] = "live" <=> Held(given[f]) /\ f \in image[given[f]].links

\* A segment, the file it was made from being e[1].
Segment(i, e) ==
  LET s == image[i].segs[e] IN
    /\ s.file \in {NoFile, e[1]} /\ s.decoder \in {NoFile, e[1]}
    /\ s.bytes = "borrowed" => s.decoder = e[1]
    /\ s.file = NoFile => state[e[1]] = "dropped"
    /\ s.file # NoFile => s.file = image[i].prog \/ s.file \in image[i].links

\* The segments of the program of an image.
Own(i) ==
  LET p == image[i].prog IN
    Held(i) =>
      /\ headerTable[p] # "unread"
      /\ \A k \in 1..kind[p].count :
           /\ <<p, k>> \in DOMAIN image[i].segs <=>
                headerTable[p] = "read" /\ kind[p].segs[k] \in {"uninitialised", "bytes"}
           /\ <<p, k>> \in DOMAIN image[i].segs =>
                (image[i].segs[<<p, k>>].bytes = "copy" <=> kind[p].segs[k] = "bytes")

IInv ==
  /\ Types
  /\ \A i \in Images : Listed(i) /\ Own(i) /\ \A e \in DOMAIN image[i].segs : Segment(i, e)
  /\ \A f \in Files : Given(f)

(***************************************************************************)
(* Records and segments.                                                   *)
(***************************************************************************)
\* A function from pairs to segments is one of the maps.
LEMMA MapLemma ==
  ASSUME NEW D \in SUBSET (Files \X Nat), NEW m \in [D -> SegmentRecords]
  PROVE  m \in SegmentMaps
  BY DEF SegmentMaps

\* An image and its segments have the types they should.
LEMMA ImageLemma ==
  ASSUME Types, NEW i \in Images
  PROVE  /\ image[i] \in ImageRecords
         /\ image[i].state \in {"unused", "held", "lost", "deleted"}
         /\ image[i].prog \in Files \cup {NoFile} /\ image[i].links \subseteq Files
         /\ DOMAIN image[i].segs \subseteq Files \X Nat
         /\ image[i].segs \in [DOMAIN image[i].segs -> SegmentRecords]
         /\ \A e \in DOMAIN image[i].segs :
              /\ image[i].segs[e] \in SegmentRecords /\ e[1] \in Files
              /\ image[i].segs[e].file \in Files \cup {NoFile}
              /\ image[i].segs[e].decoder \in Files \cup {NoFile}
  <1>1. image[i] \in ImageRecords
    BY DEF Types
  <1>2. /\ image[i].state \in {"unused", "held", "lost", "deleted"}
        /\ image[i].prog \in Files \cup {NoFile} /\ image[i].links \subseteq Files
        /\ image[i].segs \in SegmentMaps
    BY <1>1 DEF ImageRecords
  <1>3. PICK D \in SUBSET (Files \X Nat) : image[i].segs \in [D -> SegmentRecords]
    BY <1>2 DEF SegmentMaps
  <1>4. DOMAIN image[i].segs = D
    BY <1>3
  <1>5. \A e \in D : image[i].segs[e] \in SegmentRecords /\ e[1] \in Files
    BY <1>3
  <1> QED BY <1>1, <1>2, <1>3, <1>4, <1>5 DEF SegmentRecords

\* An image built anew from segments of one file.
LEMMA NewLemma ==
  ASSUME Types, NEW f \in Files, NEW K \in SUBSET Nat, NEW st \in {"held", "lost"}
  PROVE  LET im == NewImage(st, f, K) IN
           /\ im \in ImageRecords /\ im.state = st /\ im.prog = f /\ im.links = {f}
           /\ DOMAIN im.segs = {f} \X K
           /\ \A e \in {f} \X K : im.segs[e] = copyOf(f, e[2])
  <1> DEFINE im == NewImage(st, f, K)
  <1>1. /\ im.state = st /\ im.prog = f /\ im.links = {f} /\ im.segs = Copies(f, K)
        /\ im = [state |-> st, prog |-> f, links |-> {f}, segs |-> Copies(f, K)]
    BY DEF NewImage
  <1>2. /\ DOMAIN Copies(f, K) = {f} \X K
        /\ \A e \in {f} \X K : Copies(f, K)[e] = copyOf(f, e[2])
    BY DEF Copies
  <1>3. \A k \in K : copyOf(f, k) \in SegmentRecords
    BY DEF copyOf, SegmentRecords
  <1>4. Copies(f, K) \in [{f} \X K -> SegmentRecords]
    BY <1>3 DEF Copies
  <1>5. {f} \X K \in SUBSET (Files \X Nat)
    OBVIOUS
  <1>6. Copies(f, K) \in SegmentMaps
    BY <1>4, <1>5, MapLemma
  <1>7. im \in ImageRecords
    BY <1>1, <1>6 DEF ImageRecords
  <1> HIDE DEF im
  <1> QED BY <1>1, <1>2, <1>7 DEF im

\* One image changes.
LEMMA UpdateLemma ==
  ASSUME image \in [Images -> ImageRecords], NEW i \in Images, NEW im \in ImageRecords,
         image' = [image EXCEPT ![i] = im]
  PROVE  /\ image' \in [Images -> ImageRecords] /\ image'[i] = im
         /\ \A j \in Images \ {i} : image'[j] = image[j]
  OBVIOUS

\* What build() keeps are indexes of segments with bytes, known to the file.
LEMMA KeptLemma ==
  ASSUME Types, NEW f \in Files
  PROVE  /\ kept(f) \subseteq 1..kind[f].count /\ kept(f) \subseteq Nat
         /\ headerTable[f] = "failed" => kept(f) = {}
         /\ headerTable[f] # "failed" =>
              kept(f) = {k \in 1..kind[f].count : kind[f].segs[k] \in {"uninitialised", "bytes"}}
  <1>1. Shaped(kind[f])
    BY DEF Types
  <1>2. kind[f].count \in Nat
    BY <1>1 DEF Shaped
  <1>3. \A k \in 1..kind[f].count :
          kind[f].segs[k] \in {"empty", "absent", "uninitialised", "bytes"}
    BY <1>1 DEF Shaped
  <1>4. headerTable[f] = "failed" => count(f) = 0
    BY DEF count
  <1>5. headerTable[f] # "failed" => count(f) = kind[f].count
    BY DEF count
  <1> QED BY <1>2, <1>3, <1>4, <1>5 DEF kept

(***************************************************************************)
(* The steps, by what they do to an image.                                 *)
(***************************************************************************)
\* What an image says of its files and segments depends on the image, and on the
\* states of files only as far as they are given, freed or dropped.
LEMMA SameImage ==
  ASSUME IInv, NEW j \in Images, image'[j] = image[j], kind' = kind,
         \A g \in Files : given[g] # None => given'[g] = given[g],
         \A g \in Files : given[g] = None /\ state[g] \in {"live", "freed"} =>
           state'[g] \in {"live", "freed"},
         \A g \in Files : state[g] = "dropped" => state'[g] = "dropped",
         \A g \in Files : headerTable[g] # "unread" => headerTable'[g] = headerTable[g],
         image[j].state # "unused" => given'[image[j].prog] = None
  PROVE  (Listed(j) /\ Own(j) /\ \A e \in DOMAIN image[j].segs : Segment(j, e))'
  <1>1. /\ Listed(j) /\ Own(j) /\ \A e \in DOMAIN image[j].segs : Segment(j, e)
        /\ image[j].links \subseteq Files /\ None \notin Images
        /\ \A e \in DOMAIN image[j].segs : e[1] \in Files
    BY ImageLemma DEF IInv, Types, Apart
  <1>2. Listed(j)'
    BY <1>1 DEF Listed
  <1>3. Own(j)'
    <2> SUFFICES ASSUME Held(j)' PROVE Own(j)'
      BY DEF Own
    <2>1. Held(j) /\ image[j].prog \in Files
      BY <1>1 DEF Held, Listed
    <2>2. headerTable'[image[j].prog] = headerTable[image[j].prog]
      BY <1>1, <2>1 DEF Own
    <2> QED BY <1>1, <2>1, <2>2 DEF Own
  <1>4. ASSUME NEW e \in DOMAIN image'[j].segs
        PROVE  Segment(j, e)'
    BY <1>1, <1>4 DEF Segment
  <1> QED BY <1>2, <1>3, <1>4

\* build() makes an image of a program, or leaves one to nobody.
LEMMA BuildInv ==
  ASSUME IInv, NEW i \in Images, NEW f \in Files, NEW K \in SUBSET Nat, NEW st \in {"held", "lost"},
         image[i].state = "unused", Program(f),
         image' = [image EXCEPT ![i] = NewImage(st, f, K)],
         headerTable' \in [Files -> {"unread", "read", "failed"}],
         \A g \in Files : headerTable[g] # "unread" => headerTable'[g] = headerTable[g],
         st = "held" => headerTable'[f] # "unread" /\
           K = {k \in 1..kind[f].count :
                  headerTable'[f] = "read" /\ kind[f].segs[k] \in {"uninitialised", "bytes"}},
         buffered' \in [Files -> SUBSET Nat], failures' \in 0..MaxFailures,
         UNCHANGED <<kind, state, given, twice>>
  PROVE  IInv'
  <1> DEFINE im == NewImage(st, f, K)
  <1>1. /\ Types /\ NoFile \notin Files /\ None \notin Images
        /\ state[f] = "live" /\ given[f] = None
    BY DEF IInv, Types, Apart, Program
  <1>2. /\ im \in ImageRecords /\ im.state = st /\ im.prog = f /\ im.links = {f}
        /\ DOMAIN im.segs = {f} \X K /\ \A e \in {f} \X K : im.segs[e] = copyOf(f, e[2])
    BY <1>1, NewLemma
  <1> HIDE DEF im
  <1>3. /\ image' \in [Images -> ImageRecords] /\ image'[i] = im
        /\ \A j \in Images \ {i} : image'[j] = image[j]
    <2>1. image \in [Images -> ImageRecords] /\ image' = [image EXCEPT ![i] = im]
      BY <1>1 DEF im, Types
    <2> QED BY <2>1, <1>2, UpdateLemma
  <1>4. Types'
    BY <1>1, <1>3 DEF Types
  <1>5. Listed(i)'
    BY <1>1, <1>2, <1>3 DEF Listed
  <1>6. Own(i)'
    <2> SUFFICES ASSUME Held(i)' PROVE Own(i)'
      BY DEF Own
    <2>1. st = "held"
      BY <1>2, <1>3 DEF Held
    <2>2. \A k \in 1..kind[f].count :
            /\ <<f, k>> \in DOMAIN im.segs <=>
                 headerTable'[f] = "read" /\ kind[f].segs[k] \in {"uninitialised", "bytes"}
            /\ <<f, k>> \in DOMAIN im.segs =>
                 (im.segs[<<f, k>>].bytes = "copy" <=> kind[f].segs[k] = "bytes")
      <3> TAKE k \in 1..kind[f].count
      <3>1. <<f, k>> \in DOMAIN im.segs <=> k \in K
        BY <1>2
      <3>2. ASSUME k \in K
            PROVE  im.segs[<<f, k>>].bytes = "copy" <=> kind[f].segs[k] = "bytes"
        <4>1. im.segs[<<f, k>>] = copyOf(f, k)
          BY <1>2, <3>2
        <4>2. kind[f].segs[k] \in {"uninitialised", "bytes"}
          BY <2>1, <3>2
        <4> QED BY <4>1, <4>2 DEF copyOf
      <3> QED BY <2>1, <3>1, <3>2
    <2> QED BY <1>2, <1>3, <2>1, <2>2 DEF Own
  <1>7. ASSUME NEW e \in DOMAIN image'[i].segs
        PROVE  Segment(i, e)'
    <2>1. e \in {f} \X K /\ image'[i].segs[e] = copyOf(f, e[2]) /\ e[1] = f
      BY <1>2, <1>3
    <2> QED BY <1>1, <1>2, <1>3, <2>1 DEF Segment, copyOf
  <1>8. ASSUME NEW j \in Images \ {i}
        PROVE  (Listed(j) /\ Own(j) /\ \A e \in DOMAIN image[j].segs : Segment(j, e))'
    <2>1. image[j].state # "unused" => given'[image[j].prog] = None
      BY DEF IInv, Listed
    <2> QED BY <1>3, <2>1, SameImage
  <1>9. ASSUME NEW g \in Files
        PROVE  Given(g)'
    <2>1. Given(g) /\ (given[g] # None => given[g] \in Images)
      BY <1>1 DEF IInv, Types
    <2>2. given[g] # None => given[g] # i
      BY <2>1 DEF Given
    <2> QED BY <2>1, <2>2, <1>3 DEF Given, Held
  <1> QED BY <1>4, <1>5, <1>6, <1>7, <1>8, <1>9 DEF IInv

\* clean(): what the image still lists, but for its program, is deleted.
LEMMA CleanedInv ==
  ASSUME IInv, NEW i \in Images, NEW st \in {"held", "deleted"}, Held(i), CleanedAs(i, st)
  PROVE  IInv'
  <1> DEFINE im == [state |-> st, prog |-> image[i].prog, links |-> {},
                    segs |-> forgotten(image[i])]
  <1>1. /\ Types /\ NoFile \notin Files /\ None \notin Images
        /\ Listed(i) /\ Own(i) /\ image[i].state = "held" /\ image[i].prog \in Files
        /\ given[image[i].prog] = None /\ image[i].links \subseteq Files
    BY ImageLemma DEF IInv, Types, Apart, Listed, Held
  <1>2. /\ libraries(image[i]) = image[i].links \ {image[i].prog}
        /\ \A f \in libraries(image[i]) : given[f] = i /\ state[f] = "live"
    <2>1. libraries(image[i]) = image[i].links \ {image[i].prog}
      BY DEF libraries
    <2>2. \A f \in libraries(image[i]) : given[f] = i
      BY <2>1, <1>1 DEF Listed
    <2>3. \A f \in libraries(image[i]) : Given(f) /\ f \in image[i].links
      BY <2>1, <1>1 DEF IInv
    <2> QED BY <2>1, <2>2, <2>3, <1>1 DEF Given, Held
  <1>3. /\ UNCHANGED <<kind, headerTable, buffered, failures, given>> /\ twice' = FALSE
        /\ state' = [f \in Files |-> IF f \in libraries(image[i]) THEN "dropped" ELSE state[f]]
        /\ image' = [image EXCEPT ![i] = im]
    BY <1>1, <1>2 DEF CleanedAs, Types, diskVars, unlinked
  <1>4. /\ DOMAIN im.segs = DOMAIN image[i].segs
        /\ \A e \in DOMAIN image[i].segs :
             im.segs[e] = IF image[i].segs[e].file # image[i].prog
                          THEN [image[i].segs[e] EXCEPT !.file = NoFile] ELSE image[i].segs[e]
    BY DEF forgotten
  <1>5. \A e \in DOMAIN image[i].segs :
          /\ im.segs[e] \in SegmentRecords
          /\ im.segs[e].bytes = image[i].segs[e].bytes
          /\ im.segs[e].decoder = image[i].segs[e].decoder
          /\ im.segs[e].file = IF image[i].segs[e].file # image[i].prog
                               THEN NoFile ELSE image[i].segs[e].file
    <2> TAKE e \in DOMAIN image[i].segs
    <2>1. image[i].segs[e] \in SegmentRecords
      BY <1>1, ImageLemma
    <2> QED BY <1>4, <2>1 DEF SegmentRecords
  <1>6. im \in ImageRecords
    <2>1. im.segs \in [DOMAIN image[i].segs -> SegmentRecords]
      BY <1>4, <1>5 DEF forgotten
    <2>2. DOMAIN image[i].segs \in SUBSET (Files \X Nat)
      BY <1>1, ImageLemma
    <2>3. im.segs \in SegmentMaps
      BY <2>1, <2>2, MapLemma
    <2> QED BY <2>3, <1>1 DEF ImageRecords
  <1>7. im.state = st /\ im.prog = image[i].prog /\ im.links = {}
    OBVIOUS
  <1> HIDE DEF im
  <1>8. /\ image' \in [Images -> ImageRecords] /\ image'[i] = im
        /\ \A j \in Images \ {i} : image'[j] = image[j]
    <2>1. image \in [Images -> ImageRecords]
      BY <1>1 DEF Types
    <2> QED BY <2>1, <1>3, <1>6, UpdateLemma
  <1>9. \A f \in Files : state'[f] = IF f \in libraries(image[i]) THEN "dropped" ELSE state[f]
    BY <1>3
  <1>10. Types'
    <2>1. state' \in [Files -> {"unused", "live", "freed", "dropped"}]
      BY <1>1, <1>3 DEF Types
    <2> QED BY <2>1, <1>1, <1>3, <1>8 DEF Types
  <1>11. Listed(i)'
    BY <1>1, <1>2, <1>3, <1>7, <1>8, <1>9 DEF Listed
  <1>12. Own(i)'
    <2>1. \A k \in 1..kind[im.prog].count :
            <<im.prog, k>> \in DOMAIN im.segs =>
              im.segs[<<im.prog, k>>].bytes = image[i].segs[<<im.prog, k>>].bytes
      BY <1>4, <1>5
    <2> QED BY <2>1, <1>1, <1>3, <1>4, <1>7, <1>8 DEF Own, Held
  <1>13. ASSUME NEW e \in DOMAIN image'[i].segs
         PROVE  Segment(i, e)'
    <2>1. e \in DOMAIN image[i].segs /\ e[1] \in Files /\ Segment(i, e)
      BY <1>1, <1>4, <1>8, <1>13, ImageLemma DEF IInv
    <2>2. ASSUME im.segs[e].file = NoFile
          PROVE  state'[e[1]] = "dropped"
      <3>1. CASE image[i].segs[e].file = NoFile
        BY <3>1, <2>1, <1>9 DEF Segment
      <3>2. CASE image[i].segs[e].file # NoFile
        <4>1. image[i].segs[e].file = e[1] /\ e[1] # image[i].prog
          BY <3>2, <2>1, <2>2, <1>1, <1>5 DEF Segment
        <4>2. e[1] \in libraries(image[i])
          BY <4>1, <3>2, <2>1, <1>2 DEF Segment
        <4> QED BY <4>2, <2>1, <1>9
      <3> QED BY <3>1, <3>2
    <2> QED BY <2>1, <2>2, <1>1, <1>5, <1>7, <1>8 DEF Segment
  <1>14. ASSUME NEW j \in Images \ {i}
         PROVE  (Listed(j) /\ Own(j) /\ \A e \in DOMAIN image[j].segs : Segment(j, e))'
    <2>1. image[j].state # "unused" => given'[image[j].prog] = None
      BY <1>3 DEF IInv, Listed
    <2> QED BY <1>1, <1>2, <1>3, <1>8, <1>9, <2>1, SameImage
  <1>15. ASSUME NEW g \in Files
         PROVE  Given(g)'
    <2> SUFFICES ASSUME given[g] # None PROVE Given(g)'
      BY <1>3 DEF Given
    <2>1. Given(g) /\ given[g] \in Images
      BY <1>1 DEF IInv, Types
    <2>2. CASE given[g] = i
      <3>1. g # image[i].prog
        BY <2>2, <1>1
      <3> QED BY <2>1, <2>2, <3>1, <1>1, <1>2, <1>3, <1>7, <1>8, <1>9 DEF Given, Held
    <2>3. CASE given[g] # i
      <3>1. g \notin libraries(image[i])
        BY <2>3, <1>2
      <3> QED BY <2>1, <2>3, <3>1, <1>3, <1>8, <1>9 DEF Given, Held
    <2> QED BY <2>2, <2>3
  <1> QED BY <1>10, <1>11, <1>12, <1>13, <1>14, <1>15 DEF IInv

LEMMA AddFileInv ==
  ASSUME IInv, NEW i \in Images, NEW f \in Files, AddFile(i, f)
  PROVE  IInv'
  <1> DEFINE im == [image[i] EXCEPT !.links = @ \cup {f}]
  <1>1. /\ Types /\ NoFile \notin Files /\ None \notin Images
        /\ Listed(i) /\ Own(i) /\ image[i].state = "held" /\ image[i] \in ImageRecords
        /\ image[i].links \subseteq Files /\ state[f] = "live" /\ given[f] = None
    BY ImageLemma DEF IInv, Types, Apart, AddFile, Held, Program
  <1>2. /\ image' = [image EXCEPT ![i] = im] /\ given' = [given EXCEPT ![f] = i]
        /\ UNCHANGED <<kind, state, headerTable, buffered, failures, twice>>
        /\ \A j \in Images : image[j].state # "unused" => image[j].prog # f
    BY <1>1 DEF AddFile, Types, diskVars
  <1>3. /\ im \in ImageRecords /\ im.state = "held" /\ im.prog = image[i].prog
        /\ im.links = image[i].links \cup {f} /\ im.segs = image[i].segs
    BY <1>1 DEF ImageRecords
  <1> HIDE DEF im
  <1>4. /\ image' \in [Images -> ImageRecords] /\ image'[i] = im
        /\ \A j \in Images \ {i} : image'[j] = image[j]
    <2>1. image \in [Images -> ImageRecords]
      BY <1>1 DEF Types
    <2> QED BY <2>1, <1>2, <1>3, UpdateLemma
  <1>5. /\ given' \in [Files -> Images \cup {None}] /\ given'[f] = i
        /\ \A g \in Files \ {f} : given'[g] = given[g]
    BY <1>1, <1>2 DEF Types
  <1>6. Types'
    BY <1>1, <1>2, <1>4, <1>5 DEF Types
  <1>7. Listed(i)'
    BY <1>1, <1>2, <1>3, <1>4, <1>5 DEF Listed
  <1>8. Own(i)'
    BY <1>1, <1>2, <1>3, <1>4 DEF Own, Held
  <1>9. ASSUME NEW e \in DOMAIN image'[i].segs
        PROVE  Segment(i, e)'
    <2>1. Segment(i, e)
      BY <1>3, <1>4, <1>9 DEF IInv
    <2> QED BY <2>1, <1>2, <1>3, <1>4 DEF Segment
  <1>10. ASSUME NEW j \in Images \ {i}
         PROVE  (Listed(j) /\ Own(j) /\ \A e \in DOMAIN image[j].segs : Segment(j, e))'
    <2>1. image[j].state # "unused" => given'[image[j].prog] = None
      <3>1. image[j].state # "unused" => image[j].prog \in Files \ {f} /\ given[image[j].prog] = None
        BY <1>2 DEF IInv, Listed
      <3> QED BY <3>1, <1>5
    <2> QED BY <1>1, <1>2, <1>4, <1>5, <2>1, SameImage
  <1>11. ASSUME NEW g \in Files
         PROVE  Given(g)'
    <2>1. Given(g) /\ (given[g] # None => given[g] \in Images)
      BY <1>1 DEF IInv, Types
    <2>2. CASE g = f
      BY <2>2, <1>1, <1>2, <1>3, <1>4, <1>5 DEF Given, Held
    <2>3. CASE g # f
      BY <2>1, <2>3, <1>1, <1>2, <1>3, <1>4, <1>5 DEF Given, Held
    <2> QED BY <2>2, <2>3
  <1> QED BY <1>6, <1>7, <1>8, <1>9, <1>10, <1>11 DEF IInv

\* The program of an image has no segment left that could be added.
LEMMA AddSegmentInv ==
  ASSUME IInv, NEW i \in Images, NEW f \in Files, AddLoaded(i, f)
  PROVE  IInv'
  <1>1. /\ Types /\ NoFile \notin Files /\ None \notin Images
        /\ Listed(i) /\ Own(i) /\ image[i].state = "held" /\ image[i] \in ImageRecords
        /\ state[f] = "live" /\ f \in image[i].links /\ kind[f].format = "elf"
    BY ImageLemma DEF IInv, Types, Apart, AddLoaded, Held
  <1>2. PICK k \in kept(f) :
          /\ <<f, k>> \notin DOMAIN image[i].segs
          /\ image' = [image EXCEPT ![i].segs =
                         [e \in DOMAIN @ \cup {<<f, k>>} |->
                            IF e = <<f, k>> THEN borrowed(f) ELSE @[e]]]
          /\ buffered' = [buffered EXCEPT ![f] = @ \cup {k}]
    BY DEF AddLoaded
  <1> DEFINE D == DOMAIN image[i].segs \cup {<<f, k>>}
             m == [e \in D |-> IF e = <<f, k>> THEN borrowed(f) ELSE image[i].segs[e]]
             im == [image[i] EXCEPT !.segs = m]
  <1>3. /\ image' = [image EXCEPT ![i] = im] /\ headerTable' = Loaded(f)
        /\ UNCHANGED <<kind, state, failures, given, twice>>
    BY <1>1, <1>2 DEF AddLoaded, Types
  <1>4. /\ k \in 1..kind[f].count /\ k \in Nat /\ headerTable[f] # "failed"
        /\ kind[f].segs[k] \in {"uninitialised", "bytes"}
    BY <1>1, KeptLemma
  <1>5. /\ DOMAIN image[i].segs \in SUBSET (Files \X Nat)
        /\ \A e \in DOMAIN image[i].segs : image[i].segs[e] \in SegmentRecords
    BY <1>1, ImageLemma
  <1>6. borrowed(f) \in SegmentRecords
    BY DEF borrowed, SegmentRecords
  <1>7. m \in SegmentMaps
    <2>1. D \in SUBSET (Files \X Nat)
      BY <1>4, <1>5
    <2>2. m \in [D -> SegmentRecords]
      BY <1>5, <1>6
    <2> HIDE DEF D, m
    <2> QED BY <2>1, <2>2, MapLemma
  <1>8. /\ DOMAIN m = D /\ m[<<f, k>>] = borrowed(f)
        /\ \A e \in DOMAIN image[i].segs : m[e] = image[i].segs[e]
    BY <1>2
  <1> HIDE DEF m
  <1>9. /\ im \in ImageRecords /\ im.state = "held" /\ im.prog = image[i].prog
        /\ im.links = image[i].links /\ im.segs = m
    BY <1>1, <1>7 DEF ImageRecords
  <1> HIDE DEF im
  <1>10. /\ image' \in [Images -> ImageRecords] /\ image'[i] = im
         /\ \A j \in Images \ {i} : image'[j] = image[j]
    <2>1. image \in [Images -> ImageRecords]
      BY <1>1 DEF Types
    <2> QED BY <2>1, <1>3, <1>9, UpdateLemma
  <1>11. /\ headerTable' \in [Files -> {"unread", "read", "failed"}]
         /\ \A g \in Files : headerTable[g] # "unread" => headerTable'[g] = headerTable[g]
    BY <1>1, <1>3 DEF Types, Loaded
  <1>12. f # image[i].prog
    <2>1. ASSUME f = image[i].prog PROVE FALSE
      <3>1. headerTable[f] = "read"
        BY <2>1, <1>1, <1>4 DEF Own, Held, Types
      <3> QED BY <3>1, <2>1, <1>1, <1>2, <1>4 DEF Own, Held
    <2> QED BY <2>1
  <1>13. Types'
    <2>1. buffered' \in [Files -> SUBSET Nat]
      BY <1>1, <1>2, <1>4 DEF Types
    <2> QED BY <2>1, <1>1, <1>3, <1>10, <1>11 DEF Types
  <1>14. Listed(i)'
    BY <1>1, <1>3, <1>9, <1>10 DEF Listed
  <1>15. Own(i)'
    <2>1. headerTable[image[i].prog] # "unread" /\ image[i].prog \in Files
      BY <1>1 DEF Own, Held, Listed
    <2>2. headerTable'[im.prog] = headerTable[im.prog]
      BY <2>1, <1>9, <1>11
    <2>3. \A l \in 1..kind[im.prog].count :
            /\ <<im.prog, l>> \in DOMAIN im.segs <=> <<im.prog, l>> \in DOMAIN image[i].segs
            /\ <<im.prog, l>> \in DOMAIN image[i].segs =>
                 im.segs[<<im.prog, l>>] = image[i].segs[<<im.prog, l>>]
      BY <1>8, <1>9, <1>12
    <2> QED BY <2>1, <2>2, <2>3, <1>1, <1>3, <1>9, <1>10 DEF Own, Held
  <1>16. ASSUME NEW e \in DOMAIN image'[i].segs
         PROVE  Segment(i, e)'
    <2>1. CASE e = <<f, k>>
      BY <2>1, <1>1, <1>8, <1>9, <1>10 DEF Segment, borrowed
    <2>2. CASE e \in DOMAIN image[i].segs
      <3>1. Segment(i, e) /\ image'[i].segs[e] = image[i].segs[e]
        BY <2>2, <1>8, <1>9, <1>10 DEF IInv
      <3> QED BY <3>1, <1>3, <1>9, <1>10 DEF Segment
    <2> QED BY <2>1, <2>2, <1>8, <1>9, <1>10
  <1>17. ASSUME NEW j \in Images \ {i}
         PROVE  (Listed(j) /\ Own(j) /\ \A e \in DOMAIN image[j].segs : Segment(j, e))'
    <2>1. image[j].state # "unused" => given'[image[j].prog] = None
      BY <1>3 DEF IInv, Listed
    <2> QED BY <1>3, <1>10, <1>11, <2>1, SameImage
  <1>18. ASSUME NEW g \in Files
         PROVE  Given(g)'
    <2>1. Given(g) /\ (given[g] # None => given[g] \in Images)
      BY <1>1 DEF IInv, Types
    <2> QED BY <2>1, <1>1, <1>3, <1>9, <1>10 DEF Given, Held
  <1> QED BY <1>13, <1>14, <1>15, <1>16, <1>17, <1>18 DEF IInv

(***************************************************************************)
(* The invariant is inductive.                                             *)
(***************************************************************************)
LEMMA InitInv == ImagesInit => IInv
  <1> SUFFICES ASSUME ImagesInit PROVE IInv
    OBVIOUS
  <1>1. /\ NoImage.state = "unused" /\ NoImage.prog = NoFile /\ NoImage.links = {}
        /\ NoImage.segs = <<>> /\ DOMAIN NoImage.segs = {}
        /\ NoImage = [state |-> "unused", prog |-> NoFile, links |-> {}, segs |-> <<>>]
    BY DEF NoImage
  <1>2. NoImage \in ImageRecords
    <2>1. {} \in SUBSET (Files \X Nat) /\ NoImage.segs \in [{} -> SegmentRecords]
      BY <1>1
    <2>2. NoImage.segs \in SegmentMaps
      BY <2>1, MapLemma
    <2> HIDE DEF NoImage
    <2> QED BY <2>2, <1>1 DEF ImageRecords
  <1>3. \A i \in Images : image[i] = NoImage
    BY DEF ImagesInit
  <1>4. Types
    BY <1>2 DEF ImagesInit, Types, Apart
  <1>5. \A i \in Images : Listed(i) /\ Own(i) /\ \A e \in DOMAIN image[i].segs : Segment(i, e)
    BY <1>1, <1>3 DEF Listed, Own, Held
  <1>6. \A f \in Files : Given(f)
    BY DEF ImagesInit, Given
  <1> QED BY <1>4, <1>5, <1>6 DEF IInv

\* A file is opened, or deleted by the client: the images stay.
LEMMA FileInv ==
  ASSUME IInv, NEW f \in Files, Open(f) \/ DeleteFile(f)
  PROVE  IInv'
  <1>1. /\ Types /\ UNCHANGED <<kind, headerTable, buffered, failures, image, given, twice>>
        /\ state' \in [Files -> {"unused", "live", "freed", "dropped"}]
        /\ \A g \in Files \ {f} : state'[g] = state[g]
        /\ \/ state[f] = "unused" /\ state'[f] = "live"
           \/ state[f] = "live" /\ state'[f] = "freed" /\ given[f] = None
    BY DEF IInv, Types, Open, DeleteFile, Program, diskVars
  <1>2. Types'
    BY <1>1 DEF Types
  <1>3. ASSUME NEW j \in Images
        PROVE  (Listed(j) /\ Own(j) /\ \A e \in DOMAIN image[j].segs : Segment(j, e))'
    <2>1. image[j].state # "unused" => given'[image[j].prog] = None
      BY <1>1 DEF IInv, Listed
    <2> QED BY <1>1, <2>1, SameImage
  <1>4. ASSUME NEW g \in Files
        PROVE  Given(g)'
    <2>1. Given(g)
      BY DEF IInv
    <2> QED BY <2>1, <1>1 DEF Given, Held
  <1> QED BY <1>2, <1>3, <1>4 DEF IInv

\* build(), to its end or to an exception.
LEMMA MakeInv ==
  ASSUME IInv, NEW i \in Images, NEW f \in Files,
         Make(i, f) \/ MakeThrows(i, f) \/ BufferThrows(i, f)
  PROVE  IInv'
  <1>1. Types
    BY DEF IInv
  <1>2. /\ kept(f) \subseteq Nat /\ Loaded(f) \in [Files -> {"unread", "read", "failed"}]
        /\ Loaded(f)[f] # "unread" /\ (Loaded(f)[f] = "read" <=> headerTable[f] # "failed")
        /\ \A g \in Files : headerTable[g] # "unread" => Loaded(f)[g] = headerTable[g]
    BY <1>1, KeptLemma DEF Types, Loaded
  <1>3. MaxFailures \in Nat /\ failures \in 0..MaxFailures
    BY <1>1 DEF Types, Apart
  <1>4. CASE Make(i, f)
    <2>1. kept(f) = {k \in 1..kind[f].count :
                       Loaded(f)[f] = "read" /\ kind[f].segs[k] \in {"uninitialised", "bytes"}}
      BY <1>1, <1>2, KeptLemma
    <2>2. /\ image' = [image EXCEPT ![i] = NewImage("held", f, kept(f))]
          /\ headerTable' = Loaded(f) /\ image[i].state = "unused" /\ Program(f)
          /\ buffered' \in [Files -> SUBSET Nat] /\ failures' \in 0..MaxFailures
          /\ UNCHANGED <<kind, state, given, twice>>
      BY <1>1, <1>2, <1>3, <1>4 DEF Make, Types
    <2> QED BY <1>2, <2>1, <2>2, BuildInv
  <1>5. CASE MakeThrows(i, f)
    <2>1. /\ image' = [image EXCEPT ![i] = NewImage("lost", f, {})]
          /\ image[i].state = "unused" /\ Program(f)
          /\ headerTable' = [headerTable EXCEPT ![f] = "failed"] /\ headerTable[f] = "unread"
          /\ buffered' \in [Files -> SUBSET Nat] /\ failures' \in 0..MaxFailures
          /\ UNCHANGED <<kind, state, given, twice>>
      BY <1>1, <1>3, <1>5 DEF MakeThrows, ReadFails, Types
    <2>2. /\ headerTable' \in [Files -> {"unread", "read", "failed"}]
          /\ \A g \in Files : headerTable[g] # "unread" => headerTable'[g] = headerTable[g]
      BY <2>1, <1>1 DEF Types
    <2> QED BY <2>1, <2>2, BuildInv
  <1>6. CASE BufferThrows(i, f)
    <2>1. PICK k \in kept(f) \ buffered[f] :
            LET before == {j \in kept(f) : j < k} IN
              /\ image' = [image EXCEPT ![i] = NewImage("lost", f, before)]
              /\ buffered' = [buffered EXCEPT ![f] = @ \cup before]
      BY <1>6 DEF BufferThrows
    <2> DEFINE before == {j \in kept(f) : j < k}
    <2>2. before \in SUBSET Nat
      BY <1>2
    <2> HIDE DEF before
    <2>3. /\ image' = [image EXCEPT ![i] = NewImage("lost", f, before)]
          /\ buffered' = [buffered EXCEPT ![f] = @ \cup before]
      BY <2>1 DEF before
    <2>4. /\ headerTable' = Loaded(f) /\ image[i].state = "unused" /\ Program(f)
          /\ failures' \in 0..MaxFailures /\ UNCHANGED <<kind, state, given, twice>>
      BY <1>3, <1>6 DEF BufferThrows, ReadFails
    <2>5. buffered' \in [Files -> SUBSET Nat]
      BY <2>2, <2>3, <1>1 DEF Types
    <2> QED BY <1>2, <2>2, <2>3, <2>4, <2>5, BuildInv
  <1> QED BY <1>4, <1>5, <1>6

LEMMA StepInv == IInv /\ [ImagesNext]_imagesVars => IInv'
  <1> SUFFICES ASSUME IInv, [ImagesNext]_imagesVars PROVE IInv'
    OBVIOUS
  <1>1. ASSUME NEW f \in Files, Open(f) \/ DeleteFile(f) PROVE IInv'
    BY <1>1, FileInv
  <1>2. ASSUME NEW i \in Images, Clean(i) \/ DeleteImage(i) PROVE IInv'
    BY <1>2, CleanedInv DEF Clean, DeleteImage
  <1>3. ASSUME NEW i \in Images, NEW f \in Files,
               Make(i, f) \/ MakeThrows(i, f) \/ BufferThrows(i, f)
        PROVE  IInv'
    BY <1>3, MakeInv
  <1>4. ASSUME NEW i \in Images, NEW f \in Files, AddFile(i, f) \/ AddLoaded(i, f)
        PROVE  IInv'
    BY <1>4, AddFileInv, AddSegmentInv
  <1>5. CASE UNCHANGED imagesVars
    <2>1. UNCHANGED <<kind, state, headerTable, buffered, failures, image, given, twice>>
      BY <1>5 DEF imagesVars, diskVars
    <2>2. Types'
      BY <2>1 DEF IInv, Types
    <2>3. \A i \in Images : (Listed(i) /\ Own(i) /\ \A e \in DOMAIN image[i].segs : Segment(i, e))'
      BY <2>1 DEF IInv, Listed, Own, Held, Segment
    <2>4. \A f \in Files : Given(f)'
      BY <2>1 DEF IInv, Given, Held
    <2> QED BY <2>2, <2>3, <2>4 DEF IInv
  <1> QED BY <1>1, <1>2, <1>3, <1>4, <1>5 DEF ImagesNext

LEMMA Invariant == ImagesSpec => []IInv
  BY InitInv, StepInv, PTL DEF ImagesSpec

(***************************************************************************)
(* The theorems.                                                           *)
(***************************************************************************)
\* The variables of SimpleImage keep their types, and no file is deleted twice.
THEOREM ImageTypes == ImagesSpec => []ImagesTypeOK
  <1>1. IInv => ImagesTypeOK
    <2> SUFFICES ASSUME IInv PROVE ImagesTypeOK
      OBVIOUS
    <2>1. Types
      BY DEF IInv
    <2>2. \A i \in Images :
            /\ image[i].state \in {"unused", "held", "lost", "deleted"}
            /\ image[i].prog \in Files \cup {NoFile} /\ image[i].links \subseteq Files
            /\ DOMAIN image[i].segs \subseteq Files \X Nat
            /\ \A e \in DOMAIN image[i].segs : image[i].segs[e] \in SegmentRecords
      BY <2>1, ImageLemma
    <2> QED BY <2>1, <2>2 DEF ImagesTypeOK, Types
  <1> QED BY <1>1, Invariant, PTL

\* An image the client has holds all the segments with bytes of its program, or
\* none; an exception in build() never hands out a part of them.
\* The code: SimpleBuilder::build(), ImageSegment::ImageSegment().
THEOREM ImagesHold == ImagesSpec => []ImageHolds
  <1>1. IInv => ImageHolds
    <2> SUFFICES ASSUME IInv, NEW i \in Images, Held(i)
                 PROVE  LET p == image[i].prog
                            own == {k \in 1..kind[p].count : <<p, k>> \in DOMAIN image[i].segs}
                        IN IF headerTable[p] = "failed" THEN own = {}
                           ELSE /\ own = {k \in 1..kind[p].count :
                                            kind[p].segs[k] \in {"uninitialised", "bytes"}}
                                /\ \A k \in own : image[i].segs[<<p, k>>].bytes = "copy"
                                                    <=> kind[p].segs[k] = "bytes"
      BY DEF ImageHolds
    <2>1. Own(i) /\ Listed(i) /\ Types
      BY DEF IInv
    <2>2. image[i].prog \in Files /\ headerTable[image[i].prog] \in {"read", "failed"}
      BY <2>1 DEF Own, Listed, Held, Types
    <2> QED BY <2>1, <2>2 DEF Own
  <1> QED BY <1>1, Invariant, PTL

\* A segment of an image the client has can be read exactly as long as it names a
\* file that the client has not deleted, or needs none.
\* The code: Image::clean(), ImageSegment::clean(), the decoders of the buffers.
THEOREM SegmentsRead == ImagesSpec => []SegmentsReadable
  <1>1. IInv => SegmentsReadable
    <2> SUFFICES ASSUME IInv, NEW i \in Images, Held(i), NEW e \in DOMAIN image[i].segs
                 PROVE  Readable(e, image[i].segs[e]) <=>
                          \/ image[i].segs[e].decoder = NoFile
                          \/ /\ image[i].segs[e].file # NoFile
                             /\ state[image[i].segs[e].file] # "freed"
      BY DEF SegmentsReadable
    <2> DEFINE s == image[i].segs[e]
    <2>1. /\ Types /\ Segment(i, e) /\ Listed(i) /\ e[1] \in Files /\ NoFile \notin Files
          /\ image[i].links \subseteq Files
      BY ImageLemma DEF IInv, Types, Apart
    <2>2. CASE s.decoder = NoFile
      <3>1. s.bytes # "borrowed"
        BY <2>1, <2>2 DEF Segment
      <3> QED BY <3>1, <2>2 DEF Readable
    <2>3. CASE s.decoder # NoFile /\ s.file = NoFile
      <3>1. s.decoder = e[1] /\ state[e[1]] = "dropped"
        BY <2>1, <2>3 DEF Segment
      <3> QED BY <3>1, <2>3 DEF Readable
    <2>4. CASE s.decoder # NoFile /\ s.file # NoFile
      <3>1. s.decoder = e[1] /\ s.file = e[1]
        BY <2>1, <2>4 DEF Segment
      <3>2. state[e[1]] \in {"live", "freed"}
        <4>1. CASE e[1] = image[i].prog
          BY <4>1, <2>1 DEF Listed, Held
        <4>2. CASE e[1] # image[i].prog
          <5>1. e[1] \in image[i].links
            BY <4>2, <3>1, <2>1, <2>4 DEF Segment
          <5>2. given[e[1]] = i /\ i # None
            BY <5>1, <4>2, <2>1 DEF Listed, Types, Apart
          <5>3. Given(e[1])
            BY <2>1 DEF IInv
          <5> QED BY <5>1, <5>2, <5>3 DEF Given
        <4> QED BY <4>1, <4>2
      <3> QED BY <3>1, <3>2, <2>4 DEF Readable
    <2> QED BY <2>2, <2>3, <2>4
  <1> QED BY <1>1, Invariant, PTL

\* A file given to an image lives as long as the image lists it, and no file is
\* deleted twice.
\* The code: Image::clean(), Image::~Image(), File *Image::program().
THEOREM FilesAreOwned == ImagesSpec => []FilesOwned
  <1>1. IInv => FilesOwned
    BY DEF IInv, Types, Given, FilesOwned
  <1> QED BY <1>1, Invariant, PTL
=============================================================================
