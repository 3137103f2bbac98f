-------------------------- MODULE UnixImage_proofs --------------------------
(***************************************************************************)
(* Theorems of UnixImage: the types, the units apart, the images whole,    *)
(* the writes that fit the stack, the tables of the stack and its strings, *)
(* and the stack found by Image::at().                                     *)
(*                                                                         *)
(* Invariants, each kept with the help of those before it:                 *)
(*   IInv      Types; BuiltWhole, because an image is only returned after  *)
(*             its first unit, which is the program at 0; Stacked, because *)
(*             the order of the segments rests on the base and the top     *)
(*             that build() and load() hold between two steps              *)
(*   StackInv  where the cursor of buildStack() is, phase by phase: the    *)
(*             sizes summed first are compared with what is left to write  *)
(*   Topmost   the stack is the last segment of the image                  *)
(*   Known     every segment is the stack or of a header                   *)
(*   Laid      every word that the cursor has passed is in the memory, as  *)
(*             one function of its index (Word) says; Pointing, the pointer*)
(*             that is written next; Lone, the string that is alone        *)
(* The sums over strings are a recursive function; their facts are proved  *)
(* from the least index where they would fail.                             *)
(***************************************************************************)
EXTENDS UnixImage, WellFoundedInduction, FiniteSetTheorems, TLAPS

\* The least multiple of a page that is no less.
LEMMA RoundLemma ==
  ASSUME NEW x \in Nat, NEW n \in Nat \ {0}
  PROVE  /\ roundup(x, n) \in Nat /\ x <= roundup(x, n) /\ roundup(0, n) = 0
         /\ roundup(roundup(x, n), n) = roundup(x, n)
  <1> DEFINE y == x + n - 1
             q == y \div n
  <1>1. y \in Nat /\ q \in Nat /\ n * q <= y /\ y < n * q + n
    <2>1. y \in Nat
      OBVIOUS
    <2> HIDE DEF y
    <2> QED
      BY <2>1
  <1>2. ASSUME NEW z \in Nat, NEW l \in Nat, n * l <= z, z < n * l + n
        PROVE  z \div n = l
    <2> DEFINE r == z \div n
    <2>1. r \in Nat /\ n * r <= z /\ z < n * r + n
      OBVIOUS
    <2> HIDE DEF r
    <2>2. ASSUME NEW a \in Nat, NEW b \in Nat, a < b
          PROVE  n * a + n <= n * b
      <3> DEFINE d == b - a - 1
      <3>1. d \in Nat /\ b = a + 1 + d
        BY <2>2
      <3>2. n * d \in Nat
        BY <3>1
      <3> HIDE DEF d
      <3>3. n * b = n * a + n + n * d
        BY <3>1
      <3> QED
        BY <3>2, <3>3
    <2>3. ~(r < l) /\ ~(l < r)
      <3> DEFINE R == n * r
                 L == n * l
      <3>1. R \in Nat /\ L \in Nat
        BY <2>1
      <3>2. r < l => R + n <= L
        BY <2>1, <2>2
      <3>3. l < r => L + n <= R
        BY <2>1, <2>2
      <3>4. R <= z /\ z < R + n /\ L <= z /\ z < L + n
        BY <2>1, <1>2
      <3> HIDE DEF R, L
      <3> QED
        BY <3>1, <3>2, <3>3, <3>4
    <2>4. r = l
      BY <2>1, <2>3
    <2> QED
      BY <2>4 DEF r
  <1>3. roundup(x, n) = n * q
    BY DEF roundup
  <1>4. n * q \in Nat /\ x <= n * q
    <2>1. n * q \in Nat
      BY <1>1
    <2> DEFINE z == n * q
    <2>2. y < z + n /\ z \in Nat
      BY <1>1, <2>1
    <2>3. y = x + n - 1
      OBVIOUS
    <2> HIDE DEF y, z
    <2>4. x <= z
      BY <2>2, <2>3
    <2> QED
      BY <2>1, <2>4 DEF z
  <1>5. roundup(n * q, n) = n * q
    <2> DEFINE z == n * q
    <2>1. z \in Nat /\ z + n - 1 \in Nat /\ z <= z + n - 1 /\ z + n - 1 < z + n
      <3>1. z \in Nat
        BY <1>4
      <3> HIDE DEF z
      <3> QED
        BY <3>1
    <2>2. (z + n - 1) \div n = q
      <3> HIDE DEF q
      <3>1. q \in Nat /\ z = n * q /\ z + n - 1 \in Nat
        BY <1>1, <2>1
      <3> HIDE DEF z
      <3> QED
        BY <2>1, <3>1, <1>2
    <2> HIDE DEF q
    <2> QED
      BY <2>2 DEF roundup
  <1>6. roundup(0, n) = 0
    <2>1. n - 1 \in Nat /\ 0 + n - 1 = n - 1 /\ n * 0 = 0 /\ n - 1 < 0 + n
      OBVIOUS
    <2>2. (n - 1) \div n = 0
      BY <2>1, <1>2
    <2> QED
      BY <2>1, <2>2 DEF roundup
  <1> QED
    BY <1>3, <1>4, <1>5, <1>6

(***************************************************************************)
(* The inductive invariant.                                                *)
(***************************************************************************)
\* The phases of build() while the headers are loaded, and while the stack is
\* written.
Loading == {"units", "headers"}
Stacking == {"main", "argv", "envp", "auxv", "args", "envs"}

Contents == {<<>>} \cup {readBuf(prog[n]) : n \in DOMAIN prog}
SegmentRecords == [base : Nat, size : Nat, unit : Nat, header : Nat, bytes : Contents]
ImageRecords == [segs : Seq(SegmentRecords), built : BOOLEAN]

Types ==
  /\ prog \in Programs /\ params \in Parameters
  /\ at \in {"idle"} \cup Loading \cup Stacking
  /\ table \in {"unread", "read", "failed"}
  /\ images \in Seq(ImageRecords)
  /\ todo \in Seq(0..(Mod32 - 1)) /\ Len(todo) = Len(images)
  /\ at # "idle" => Len(images) > 0
  /\ unit \in 1..(Len(todo) + 1) /\ (at = "headers" => unit <= Len(todo))
  /\ h \in Nat \ {0} /\ base \in Nat /\ top \in Nat

\* The headers before the one of index n have each their segment.
Holds(pr, segs, n) ==
  \A i \in DOMAIN pr : i < n /\ pr[i].type = "PT_LOAD" =>
    \E m \in DOMAIN segs :
      segs[m].header = i /\ segs[m].base = pr[i].vaddr /\ segs[m].size = pr[i].memsz
Whole(pr, segs) == Holds(pr, segs, Len(pr) + 1)

\* An image that is built while the headers are read: its first unit, at 0, has
\* all of them as soon as the second one is begun.
BuiltWhole ==
  /\ table = "unread" => /\ at \in {"idle", "units"} /\ (at = "units" => unit = 1)
                         /\ \A n \in DOMAIN images : ~images[n].built
  /\ at \in Loading /\ unit = 1 => base = 0
  /\ at = "headers" => todo[unit] = base % Mod32
  /\ table = "read" => \A n \in DOMAIN images : images[n].built => Whole(prog, images[n].segs)
  /\ table = "read" /\ at = "headers" /\ unit = 1 => Holds(prog, images[im].segs, h)
  /\ table = "read" /\ at \in Loading /\ unit > 1 => Whole(prog, images[im].segs)
  /\ table = "read" /\ at \in Stacking => Whole(prog, images[im].segs)

End(s) == s.base + s.size
page == uparams.page_size

\* The units of an image, for pages of size pg.
FitAt(pg, segs, u) == \A i \in Before(segs, u) : roundup(End(segs[i]), pg) < Mod32
Sorted(pg, segs) ==
  \A j \in DOMAIN segs : FitAt(pg, segs, segs[j].unit) =>
    \A i \in Before(segs, segs[j].unit) : End(segs[i]) <= segs[j].base

\* The units of the image under way are below the base of the next one.
Below(pg, segs, u, b) ==
  FitAt(pg, segs, u) => b < Mod32 /\ \A i \in Before(segs, u) : End(segs[i]) <= b

\* The top is the end of one of the segments of the present one.
Topped(segs, u, b, t) ==
  /\ \A i \in DOMAIN segs : segs[i].unit = u => b <= segs[i].base /\ End(segs[i]) <= t
  /\ t = b \/ \E i \in DOMAIN segs : segs[i].unit = u /\ End(segs[i]) = t

Stacked ==
  /\ \A n \in DOMAIN images : Sorted(page, images[n].segs)
  /\ at \in Loading =>
       /\ roundup(base, page) = base
       /\ \A i \in DOMAIN images[im].segs :
            images[im].segs[i].unit \in 1..(IF at = "units" THEN unit - 1 ELSE unit)
       /\ Below(page, images[im].segs, unit, base)
  /\ at = "headers" => Topped(images[im].segs, unit, base % Mod32, top)

IInv == Types /\ BuiltWhole /\ Stacked

LEMMA InitInv == Init => IInv
  <1> SUFFICES ASSUME Init PROVE IInv
    OBVIOUS
  <1>1. /\ prog \in Programs /\ params \in Parameters /\ at = "idle" /\ table = "unread"
        /\ images = <<>> /\ todo = <<>> /\ unit = 1 /\ h = 1 /\ base = 0 /\ top = 0
    BY DEF Init
  <1>2. Types
    BY <1>1 DEF Types
  <1>3. BuiltWhole
    BY <1>1 DEF BuiltWhole, Loading, Stacking
  <1>4. Stacked
    BY <1>1 DEF Stacked, Loading, Stacking
  <1> QED
    BY <1>2, <1>3, <1>4 DEF IInv

\* Parameters.
LEMMA PageLemma ==
  ASSUME Types
  PROVE  /\ page \in Nat \ {0} /\ Mod32 \in Nat \ {0} /\ uparams \in Parameters \cup {Null}
         /\ params.stack_size \in Nat /\ params.stack_addr \in Nat
  BY ParametersAssumption, SizesAssumption DEF Types, page, uparams, Asked

\* Another sequence of segments in the same image.
LEMMA RecordLemma ==
  ASSUME NEW S, NEW r \in [segs : S, built : BOOLEAN], NEW w \in S
  PROVE  /\ [r EXCEPT !.segs = w] \in [segs : S, built : BOOLEAN]
         /\ [r EXCEPT !.segs = w].segs = w /\ [r EXCEPT !.segs = w].built = r.built
  OBVIOUS

\* What of the state the loading of a segment changes.
LEMMA AddLemma ==
  ASSUME Types, Len(images) > 0, NEW s \in SegmentRecords, AddSegment(s), prog' = prog
  PROVE  /\ images' \in Seq(ImageRecords) /\ Len(images') = Len(images)
         /\ \A n \in DOMAIN images :
              /\ images'[n].built = images[n].built
              /\ n # im => images'[n].segs = images[n].segs
         /\ images[im].segs \in Seq(SegmentRecords)
         /\ images'[im].segs = Append(images[im].segs, s)
         /\ DOMAIN images' = DOMAIN images /\ im \in DOMAIN images
  <1>1. /\ images \in Seq(ImageRecords) /\ im \in 1..Len(images)
        /\ images[im] \in ImageRecords /\ DOMAIN images = 1..Len(images)
    BY DEF Types, im
  <1> DEFINE new == [images[im] EXCEPT !.segs = Append(images[im].segs, s)]
  <1>2. images' = [images EXCEPT ![im] = new]
    BY DEF AddSegment
  <1>3. /\ images[im].segs \in Seq(SegmentRecords) /\ new \in ImageRecords
        /\ new.segs = Append(images[im].segs, s) /\ new.built = images[im].built
    <2>1. images[im] \in [segs : Seq(SegmentRecords), built : BOOLEAN]
      BY <1>1 DEF ImageRecords
    <2>2. images[im].segs \in Seq(SegmentRecords) /\ Append(images[im].segs, s) \in Seq(SegmentRecords)
      BY <2>1
    <2> QED
      BY <2>1, <2>2, RecordLemma DEF ImageRecords
  <1> HIDE DEF new
  <1>4. images' \in Seq(ImageRecords) /\ Len(images') = Len(images)
    BY <1>1, <1>2, <1>3
  <1>5. \A n \in 1..Len(images) : images'[n] = IF n = im THEN new ELSE images[n]
    BY <1>1, <1>2
  <1> QED
    BY <1>1, <1>3, <1>4, <1>5

\* A segment at the end of an image that is of no unit or of the last one.
LEMMA Appended ==
  ASSUME NEW segs \in Seq(SegmentRecords), NEW s \in SegmentRecords, NEW v \in Nat, NEW pg,
         s.unit = 0 \/ v <= s.unit
  PROVE  /\ Before(Append(segs, s), v) = Before(segs, v)
         /\ \A i \in DOMAIN segs : Append(segs, s)[i] = segs[i] /\ segs[i] \in SegmentRecords
         /\ DOMAIN Append(segs, s) = DOMAIN segs \cup {Len(segs) + 1}
         /\ Append(segs, s)[Len(segs) + 1] = s
         /\ Before(segs, v) \subseteq DOMAIN segs
         /\ FitAt(pg, Append(segs, s), v) <=> FitAt(pg, segs, v)
  <1> DEFINE q == Append(segs, s)
  <1>1. /\ DOMAIN q = DOMAIN segs \cup {Len(segs) + 1} /\ q[Len(segs) + 1] = s
        /\ \A i \in DOMAIN segs : q[i] = segs[i] /\ segs[i] \in SegmentRecords
    OBVIOUS
  <1>2. s.unit \in Nat
    BY DEF SegmentRecords
  <1> HIDE DEF q
  <1>3. Before(q, v) = Before(segs, v)
    BY <1>1, <1>2 DEF Before
  <1>4. Before(segs, v) \subseteq DOMAIN segs
    BY DEF Before
  <1>5. FitAt(pg, q, v) <=> FitAt(pg, segs, v)
    BY <1>1, <1>3, <1>4 DEF FitAt
  <1> QED
    BY <1>1, <1>3, <1>4, <1>5 DEF q

LEMMA SortedAdd ==
  ASSUME NEW segs \in Seq(SegmentRecords), NEW s \in SegmentRecords, NEW pg,
         Sorted(pg, segs),
         \/ s.unit = 0
         \/ /\ \A i \in DOMAIN segs : segs[i].unit <= s.unit
            /\ FitAt(pg, segs, s.unit) => \A i \in Before(segs, s.unit) : End(segs[i]) <= s.base
  PROVE  Sorted(pg, Append(segs, s))
  <1> DEFINE q == Append(segs, s)
  <1> SUFFICES ASSUME NEW j \in DOMAIN q, FitAt(pg, q, q[j].unit), NEW i \in Before(q, q[j].unit)
               PROVE  End(q[i]) <= q[j].base
    BY DEF Sorted
  <1>1. s.unit \in Nat /\ \A e \in DOMAIN segs : segs[e].unit \in Nat /\ segs[e] \in SegmentRecords
    <2>1. \A e \in DOMAIN segs : segs[e] \in SegmentRecords
      OBVIOUS
    <2> QED
      BY <2>1 DEF SegmentRecords
  <1>2. DOMAIN q = DOMAIN segs \cup {Len(segs) + 1} /\ q[Len(segs) + 1] = s
        /\ \A e \in DOMAIN segs : q[e] = segs[e]
    OBVIOUS
  <1>3. CASE j \in DOMAIN segs
    <2>1. q[j] = segs[j] /\ segs[j].unit \in Nat /\ (s.unit = 0 \/ segs[j].unit <= s.unit)
      BY <1>1, <1>2, <1>3
    <2>2. Before(q, q[j].unit) = Before(segs, segs[j].unit) /\ i \in DOMAIN segs
          /\ FitAt(pg, segs, segs[j].unit)
      BY <2>1, Appended
    <2> QED
      BY <1>2, <1>3, <2>1, <2>2 DEF Sorted
  <1>4. CASE j = Len(segs) + 1
    <2>1. q[j] = s /\ Before(q, s.unit) = Before(segs, s.unit) /\ i \in DOMAIN segs
          /\ FitAt(pg, segs, s.unit) /\ i \in Before(segs, s.unit)
      BY <1>1, <1>2, <1>4, Appended
    <2>2. s.unit # 0
      BY <2>1, <1>1 DEF Before
    <2> QED
      BY <1>2, <2>1, <2>2
  <1> QED
    BY <1>2, <1>3, <1>4

(***************************************************************************)
(* The steps.                                                              *)
(***************************************************************************)
\* The last image and the table of its units.
LEMMA LastLemma ==
  ASSUME Types
  PROVE  /\ Len(images) \in Nat /\ DOMAIN images = 1..Len(images) /\ DOMAIN todo = 1..Len(images)
         /\ im = Len(images) /\ unit \in Nat /\ (at # "idle" => im \in DOMAIN images)
         /\ \A n \in DOMAIN images : images[n].segs \in Seq(SegmentRecords) /\ images[n].built \in BOOLEAN
         /\ \A n \in DOMAIN images : \A i \in DOMAIN images[n].segs :
              images[n].segs[i] \in SegmentRecords
         /\ Len(prog) \in Nat /\ DOMAIN prog = 1..Len(prog) /\ \A i \in DOMAIN prog : Header(prog[i])
  <1>1. Len(images) \in Nat /\ DOMAIN images = 1..Len(images) /\ DOMAIN todo = 1..Len(images)
        /\ \A n \in DOMAIN images : images[n] \in ImageRecords
    BY DEF Types
  <1>2. \A n \in DOMAIN images : images[n].segs \in Seq(SegmentRecords) /\ images[n].built \in BOOLEAN
    BY <1>1 DEF ImageRecords
  <1>3. ASSUME NEW q \in Seq(SegmentRecords), NEW i \in DOMAIN q PROVE q[i] \in SegmentRecords
    BY <1>3
  <1>4. Len(prog) \in Nat /\ DOMAIN prog = 1..Len(prog) /\ \A i \in DOMAIN prog : Header(prog[i])
    <2>1. prog \in Seq({prog[n] : n \in DOMAIN prog}) /\ \A n \in DOMAIN prog : Header(prog[n])
      BY ProgramsAssumption DEF Types
    <2> QED
      BY <2>1
  <1>5. im = Len(images) /\ unit \in Nat /\ (at # "idle" => Len(images) > 0)
    BY <1>1 DEF im, Types
  <1> QED
    BY <1>1, <1>2, <1>3, <1>4, <1>5

LEMMA BuildInv == IInv /\ Build => IInv'
  <1> SUFFICES ASSUME IInv, Build PROVE IInv'
    OBVIOUS
  <1> DEFINE new == [segs |-> <<>>, built |-> FALSE]
  <1>1. /\ Types /\ at = "idle" /\ images' = Append(images, new) /\ todo' = Append(todo, 0)
        /\ unit' = 1 /\ base' = 0 /\ at' = "units" /\ prog' = prog /\ params' = params
        /\ table' = table /\ h' = h /\ top' = top
    BY DEF IInv, Build, fileVars
  <1>2. new \in ImageRecords /\ new.segs = <<>> /\ new.built = FALSE
    BY DEF ImageRecords
  <1> HIDE DEF new
  <1>3. /\ images \in Seq(ImageRecords) /\ todo \in Seq(0..(Mod32 - 1)) /\ 0 \in 0..(Mod32 - 1)
        /\ Len(todo) = Len(images)
    BY <1>1, PageLemma DEF Types
  <1>4. /\ images' \in Seq(ImageRecords) /\ Len(images') = Len(images) + 1
        /\ todo' \in Seq(0..(Mod32 - 1)) /\ Len(todo') = Len(images)+ 1
        /\ DOMAIN images' = DOMAIN images \cup {Len(images) + 1} /\ Len(images) \in Nat
        /\ images'[Len(images) + 1] = new /\ \A n \in DOMAIN images : images'[n] = images[n]
    BY <1>1, <1>2, <1>3
  <1>5. Types'
    BY <1>1, <1>4 DEF Types, Loading, ImageRecords, SegmentRecords, Contents, readBuf
  <1>6. BuiltWhole'
    BY <1>1, <1>2, <1>4 DEF IInv, BuiltWhole, Loading, Stacking
  <1>7. page' = page /\ page \in Nat \ {0} /\ Mod32 \in Nat \ {0} /\ roundup(0, page) = 0
    BY <1>1, PageLemma, RoundLemma DEF page, uparams
  <1>8. im' = Len(images) + 1
    BY <1>4 DEF im
  <1>9. Stacked'
    BY <1>1, <1>2, <1>4, <1>7, <1>8 DEF IInv, Stacked, Sorted, Below, Before, Loading
  <1> QED
    BY <1>5, <1>6, <1>9 DEF IInv

\* One unit gets its base.
LEMMA BaseLemma ==
  ASSUME Types, NEW b \in Nat, unit \in 1..Len(todo), todo' = [todo EXCEPT ![unit] = b % Mod32]
  PROVE  /\ b % Mod32 \in 0..(Mod32 - 1) /\ todo' \in Seq(0..(Mod32 - 1)) /\ Len(todo') = Len(todo)
         /\ todo'[unit] = b % Mod32
  <1>1. Mod32 \in Nat \ {0} /\ todo \in Seq(0..(Mod32 - 1))
    BY PageLemma DEF Types
  <1> DEFINE c == b % Mod32
  <1>2. c \in 0..(Mod32 - 1)
    BY <1>1
  <1> HIDE DEF c
  <1>3. todo' \in Seq(0..(Mod32 - 1)) /\ Len(todo') = Len(todo) /\ todo'[unit] = c
    BY <1>1, <1>2 DEF c
  <1> QED
    BY <1>2, <1>3 DEF c

\* A call that ends by an exception keeps images and headers as they are.
LEMMA ThrowInv ==
  ASSUME IInv, prog' = prog, params' = params, images' = images, at' = "idle",
         table' \in {table, "failed"}, unit' = unit, h' = h, base' = base, top' = top,
         todo' \in Seq(0..(Mod32 - 1)), Len(todo') = Len(todo)
  PROVE  IInv'
  <1>1. Types'
    BY DEF IInv, Types, Loading, ImageRecords, SegmentRecords, Contents, readBuf
  <1>2. BuiltWhole'
    BY DEF IInv, BuiltWhole, Loading, Stacking
  <1>3. page' = page
    BY DEF page, uparams
  <1>4. Stacked'
    BY <1>3 DEF IInv, Stacked, Loading
  <1> QED
    BY <1>1, <1>2, <1>4 DEF IInv

LEMMA LoadUnitInv == IInv /\ LoadUnit => IInv'
  <1> SUFFICES ASSUME IInv, LoadUnit PROVE IInv'
    OBVIOUS
  <1>1. /\ Types /\ at = "units" /\ unit <= Len(todo) /\ todo' = [todo EXCEPT ![unit] = base % Mod32]
        /\ top' = base % Mod32 /\ h' = 1 /\ at' = "headers"
        /\ table' = (IF table = "unread" THEN "read" ELSE table)
        /\ prog' = prog /\ params' = params /\ images' = images /\ unit' = unit /\ base' = base
    BY DEF IInv, LoadUnit
  <1>2. base \in Nat /\ unit \in 1..Len(todo) /\ Mod32 \in Nat \ {0}
    BY <1>1, PageLemma DEF Types
  <1>3. /\ base % Mod32 \in 0..(Mod32 - 1) /\ todo' \in Seq(0..(Mod32 - 1)) /\ Len(todo') = Len(todo)
        /\ todo'[unit] = base % Mod32
    BY <1>1, <1>2, BaseLemma
  <1>4. Types'
    BY <1>1, <1>2, <1>3 DEF Types, Loading, ImageRecords, SegmentRecords, Contents, readBuf
  <1>5. /\ Len(prog) \in Nat /\ DOMAIN prog = 1..Len(prog) /\ im' = im
        /\ \A n \in DOMAIN images : \A i \in DOMAIN images[n].segs : images[n].segs[i] \in SegmentRecords
        /\ im \in DOMAIN images
    BY <1>1, LastLemma DEF im
  <1>6. Holds(prog, images[im].segs, 1)
    BY <1>5 DEF Holds
  <1>7. BuiltWhole'
    BY <1>1, <1>3, <1>5, <1>6 DEF IInv, BuiltWhole, Loading, Stacking
  <1>8. page' = page
    BY <1>1 DEF page, uparams
  <1>9. /\ \A i \in DOMAIN images[im].segs : images[im].segs[i].unit \in 1..(unit - 1)
        /\ Below(page, images[im].segs, unit, base) /\ roundup(base, page) = base
        /\ \A n \in DOMAIN images : Sorted(page, images[n].segs)
    BY <1>1 DEF IInv, Stacked, Loading
  <1>10. Topped(images[im].segs, unit, base % Mod32, base % Mod32)
    BY <1>2, <1>9 DEF Topped
  <1>11. \A i \in DOMAIN images[im].segs : images[im].segs[i].unit \in 1..unit
    BY <1>2, <1>9
  <1>12. Stacked'
    BY <1>1, <1>5, <1>8, <1>9, <1>10, <1>11 DEF Stacked, Loading
  <1> QED
    BY <1>4, <1>7, <1>12 DEF IInv

LEMMA LoadThrowsInv == IInv /\ (LoadUnitThrows \/ LoadHeaderThrows \/ StackTooSmall) => IInv'
  <1> SUFFICES ASSUME IInv, LoadUnitThrows \/ LoadHeaderThrows \/ StackTooSmall PROVE IInv'
    OBVIOUS
  <1>1. Types
    BY DEF IInv
  <1>2. todo \in Seq(0..(Mod32 - 1)) /\ base \in Nat /\ unit \in 1..(Len(todo) + 1) /\ Len(todo) \in Nat
    BY <1>1, LastLemma DEF Types
  <1>3. CASE LoadUnitThrows
    <2>1. /\ unit <= Len(todo) /\ todo' = [todo EXCEPT ![unit] = base % Mod32] /\ prog' = prog
          /\ params' = params /\ images' = images /\ at' = "idle" /\ table' = "failed"
          /\ unit' = unit /\ h' = h /\ base' = base /\ top' = top
      BY <1>3 DEF LoadUnitThrows
    <2>2. unit \in 1..Len(todo)
      BY <1>2, <2>1
    <2>3. todo' \in Seq(0..(Mod32 - 1)) /\ Len(todo') = Len(todo)
      BY <1>1, <1>2, <2>1, <2>2, BaseLemma
    <2> QED
      BY <2>1, <2>3, ThrowInv
  <1>4. CASE LoadHeaderThrows
    <2>1. /\ prog' = prog /\ params' = params /\ images' = images /\ at' = "idle" /\ table' = table
          /\ unit' = unit /\ h' = h /\ base' = base /\ top' = top /\ todo' = todo
      BY <1>4 DEF LoadHeaderThrows, loadVars
    <2> QED
      BY <1>2, <2>1, ThrowInv
  <1>5. CASE StackTooSmall
    <2>1. /\ prog' = prog /\ params' = params /\ images' = images /\ at' = "idle" /\ table' = table
          /\ unit' = unit /\ h' = h /\ base' = base /\ top' = top /\ todo' = todo
      BY <1>5 DEF StackTooSmall, loadVars, fileVars
    <2> QED
      BY <1>2, <2>1, ThrowInv
  <1> QED
    BY <1>3, <1>4, <1>5

\* More segments hold no less.
LEMMA HoldsMore ==
  ASSUME NEW pr, NEW segs \in Seq(SegmentRecords), NEW s \in SegmentRecords, NEW n \in Nat,
         Holds(pr, segs, n)
  PROVE  Holds(pr, Append(segs, s), n)
  <1> DEFINE q == Append(segs, s)
  <1>1. DOMAIN segs \subseteq DOMAIN q /\ \A i \in DOMAIN segs : q[i] = segs[i]
    OBVIOUS
  <1> HIDE DEF q
  <1>2. Holds(pr, q, n)
    BY <1>1 DEF Holds
  <1> QED
    BY <1>2 DEF q

LEMMA UncutLemma ==
  ASSUME NEW x \in Nat, NEW m \in Nat \ {0}, x < m
  PROVE  x % m = x
  OBVIOUS

LEMMA EndLemma ==
  ASSUME NEW s \in SegmentRecords
  PROVE  End(s) \in Nat /\ s.base \in Nat /\ s.unit \in Nat /\ s.base <= End(s)
  BY DEF End, SegmentRecords

\* A header that is loaded.
LEMMA LoadSegmentInv ==
  ASSUME IInv, at = "headers", h <= Len(headers), LoadHeader, headers[h].type = "PT_LOAD"
  PROVE  IInv'
  <1> DEFINE hd == prog[h]
             s == [base |-> todo[unit] + hd.vaddr, size |-> hd.memsz, unit |-> unit,
                   header |-> h, bytes |-> readBuf(hd)]
             segs == images[im].segs
             b == base % Mod32
             t == topWith(top, hd)
  <1>1. Types /\ BuiltWhole /\ Stacked
    BY DEF IInv
  <1>2. table = "read" /\ headers = prog
    <2>1. table # "failed"
      BY <1>1, LastLemma DEF headers, Types
    <2>2. table # "unread"
      BY <1>1 DEF BuiltWhole
    <2> QED
      BY <1>1, <2>1, <2>2 DEF headers, Types
  <1>3. /\ AddSegment(s) /\ top' = t /\ h' = h + 1 /\ at' = "headers"
        /\ prog' = prog /\ params' = params /\ table' = table /\ todo' = todo /\ unit' = unit
        /\ base' = base
    BY <1>2 DEF LoadHeader
  <1>4. /\ h \in DOMAIN prog /\ Header(hd) /\ Len(prog) \in Nat /\ h \in 1..Len(prog)
        /\ h \in Nat \ {0} /\ base \in Nat /\ top \in Nat /\ unit \in 1..Len(todo) /\ Mod32 \in Nat \ {0}
        /\ im \in DOMAIN images /\ segs \in Seq(SegmentRecords) /\ Len(images) > 0
        /\ \A i \in DOMAIN segs : segs[i] \in SegmentRecords
        /\ hd.type = "PT_LOAD"
    BY <1>1, <1>2, LastLemma, PageLemma DEF Types
  <1>5. b \in 0..(Mod32 - 1) /\ todo[unit] = b
    BY <1>1, <1>4 DEF BuiltWhole
  <1>6. hd.vaddr \in Nat /\ hd.memsz \in Nat
    BY <1>4 DEF Header
  <1>7. readBuf(hd) \in Contents
    BY <1>4 DEF Contents
  <1> HIDE DEF b
  <1>8. /\ s \in SegmentRecords /\ s.unit = unit /\ s.base = b + hd.vaddr /\ s.size = hd.memsz
        /\ s.header = h
    BY <1>4, <1>5, <1>6, <1>7 DEF SegmentRecords
  <1>9. /\ t \in Nat /\ top <= t /\ End(s) <= t /\ t \in {top, End(s)} /\ b <= s.base /\ s.base \in Nat
        /\ End(s) \in Nat
    <2>1. End(s) = todo[unit] + hd.vaddr + hd.memsz /\ End(s) \in Nat
      BY <1>5, <1>6, <1>8 DEF End
    <2> HIDE DEF s, hd
    <2>2. t = IF top < End(s) THEN End(s) ELSE top
      BY <2>1 DEF topWith
    <2> HIDE DEF t
    <2>3. b <= s.base /\ s.base \in Nat
      BY <1>5, <1>6, <1>8
    <2> QED
      BY <1>4, <2>1, <2>2, <2>3
  <1> HIDE DEF s, t, hd
  <1>10. /\ images' \in Seq(ImageRecords) /\ Len(images') = Len(images)
         /\ \A n \in DOMAIN images :
              /\ images'[n].built = images[n].built
              /\ n # im => images'[n].segs = images[n].segs
         /\ images'[im].segs = Append(segs, s)
         /\ DOMAIN images' = DOMAIN images /\ im' = im
    BY <1>1, <1>3, <1>4, <1>8, AddLemma DEF im
  <1> DEFINE new == Append(segs, s)
  <1>11. /\ DOMAIN new = DOMAIN segs \cup {Len(segs) + 1} /\ new[Len(segs) + 1] = s
         /\ \A i \in DOMAIN segs : new[i] = segs[i]
    BY <1>4, <1>8
  <1> HIDE DEF new, segs
  <1>12. segs \in Seq(SegmentRecords) /\ s \in SegmentRecords /\ unit \in Nat /\ s.unit = unit
    <2>1. unit \in Nat
      BY <1>4
    <2> QED
      BY <1>4, <1>8, <2>1 DEF segs
  <1>13. Types'
    BY <1>1, <1>3, <1>4, <1>9, <1>10 DEF Types, Loading, ImageRecords, SegmentRecords, Contents, readBuf
  <1>14. BuiltWhole'
    <2>1. \A n \in DOMAIN images : images[n].built => Whole(prog, images'[n].segs)
      <3> SUFFICES ASSUME NEW n \in DOMAIN images, images[n].built
                   PROVE  Whole(prog, images'[n].segs)
        OBVIOUS
      <3>1. Whole(prog, images[n].segs)
        BY <1>1, <1>2 DEF BuiltWhole
      <3>2. n = im => Whole(prog, new)
        BY <1>4, <1>8, <3>1, HoldsMore DEF Whole, new, segs
      <3> QED
        BY <1>10, <3>1, <3>2 DEF new
    <2>2. unit > 1 => Whole(prog, new)
      <3>1. unit > 1 => Whole(prog, segs)
        BY <1>1, <1>2 DEF BuiltWhole, Loading, segs
      <3> QED
        BY <1>4, <1>8, <3>1, HoldsMore DEF Whole, new
    <2>3. ASSUME unit = 1 PROVE Holds(prog, new, h + 1)
      <3>1. Holds(prog, segs, h) /\ b = 0
        BY <1>1, <1>2, <1>4, <2>3 DEF BuiltWhole, Loading, segs, b
      <3>2. Holds(prog, new, h)
        BY <1>4, <1>8, <3>1, HoldsMore DEF new
      <3>3. s.header = h /\ s.base = prog[h].vaddr /\ s.size = prog[h].memsz
        BY <1>6, <1>8, <3>1 DEF hd
      <3>4. ASSUME NEW i \in DOMAIN prog, i < h + 1 PROVE i < h \/ i = h
        BY <1>4, <3>4, LastLemma, <1>1
      <3> QED
        BY <1>11, <3>2, <3>3, <3>4 DEF Holds
    <2>4. todo'[unit'] = base' % Mod32 /\ (unit' = 1 => base' = 0)
      BY <1>1, <1>3, <1>5 DEF b, BuiltWhole, Loading
    <2> QED
      BY <1>2, <1>3, <1>10, <2>1, <2>2, <2>3, <2>4 DEF BuiltWhole, Loading, Stacking, new
  <1>15. page' = page
    BY <1>3 DEF page, uparams
  <1>16. /\ \A i \in DOMAIN segs : segs[i].unit \in 1..unit
         /\ Below(page, segs, unit, base) /\ roundup(base, page) = base
         /\ \A n \in DOMAIN images : Sorted(page, images[n].segs)
         /\ Sorted(page, segs) /\ Topped(segs, unit, b, top)
    BY <1>1, <1>4 DEF Stacked, Loading, segs, b
  <1>17. FitAt(page, segs, unit) => \A i \in Before(segs, unit) : End(segs[i]) <= s.base
    <2> SUFFICES ASSUME FitAt(page, segs, unit), NEW i \in Before(segs, unit)
                 PROVE  End(segs[i]) <= s.base
      OBVIOUS
    <2>1. base < Mod32 /\ End(segs[i]) <= base
      BY <1>16 DEF Below
    <2>2. b = base
      BY <1>4, <2>1, UncutLemma DEF b
    <2>3. i \in DOMAIN segs
      BY DEF Before
    <2>4. End(segs[i]) \in Nat
      BY <1>4, <2>3, EndLemma
    <2> QED
      BY <1>4, <1>9, <2>1, <2>2, <2>4
  <1>18. \A i \in DOMAIN segs : segs[i].unit <= s.unit
    BY <1>16, <1>12
  <1>19. Sorted(page, new)
    BY <1>16, <1>17, <1>12, <1>18, SortedAdd DEF new
  <1>20. \A i \in DOMAIN new : new[i].unit \in 1..unit
    <2>1. s.unit \in 1..unit
      <3>1. unit \in Nat \ {0}
        BY <1>4
      <3> QED
        BY <1>8, <3>1
    <2>2. ASSUME NEW i \in DOMAIN new PROVE new[i] = s \/ (i \in DOMAIN segs /\ new[i] = segs[i])
      BY <1>11
    <2>3. \A i \in DOMAIN segs : segs[i].unit \in 1..unit
      BY <1>16
    <2> QED
      BY <2>1, <2>2, <2>3
  <1>21. Below(page, new, unit, base)
    <2>1. /\ Before(new, unit) = Before(segs, unit)
          /\ FitAt(page, new, unit) <=> FitAt(page, segs, unit)
          /\ Before(segs, unit) \subseteq DOMAIN segs
      BY <1>12, Appended DEF new
    <2> QED
      BY <1>11, <1>16, <2>1 DEF Below
  <1>22. Topped(new, unit, b, t)
    <2>1. \A i \in DOMAIN segs : End(segs[i]) \in Nat /\ segs[i].base \in Nat
      BY <1>4, EndLemma
    <2>2. ASSUME NEW i \in DOMAIN new, new[i].unit = unit
          PROVE  b <= new[i].base /\ End(new[i]) <= t
      <3>1. CASE i = Len(segs) + 1
        BY <1>9, <1>11, <3>1
      <3>2. CASE i \in DOMAIN segs
        <4>1. b <= segs[i].base /\ End(segs[i]) <= top
          BY <1>11, <1>16, <2>2, <3>2 DEF Topped
        <4> QED
          BY <1>4, <1>9, <1>11, <2>1, <3>2, <4>1
      <3> QED
        BY <1>11, <3>1, <3>2
    <2>3. t = b \/ \E i \in DOMAIN new : new[i].unit = unit /\ End(new[i]) = t
      BY <1>8, <1>9, <1>11, <1>16 DEF Topped
    <2> QED
      BY <2>2, <2>3 DEF Topped
  <1>23. Stacked'
    BY <1>3, <1>10, <1>15, <1>16, <1>19, <1>20, <1>21, <1>22 DEF Stacked, Loading, new, b
  <1> QED
    BY <1>13, <1>14, <1>23 DEF IInv

LEMMA LoadHeaderInv == IInv /\ LoadHeader => IInv'
  <1> SUFFICES ASSUME IInv, LoadHeader PROVE IInv'
    OBVIOUS
  <1>1. at = "headers" /\ h <= Len(headers)
    BY DEF LoadHeader
  <1>2. CASE headers[h].type = "PT_LOAD"
    BY <1>1, <1>2, LoadSegmentInv
  <1>3. CASE headers[h].type # "PT_LOAD"
    <2>1. /\ prog' = prog /\ params' = params /\ images' = images /\ at' = "headers"
          /\ table' = table /\ unit' = unit /\ h' = h + 1 /\ base' = base /\ top' = top
          /\ todo' = todo
      BY <1>1, <1>3 DEF LoadHeader
    <2>2. Types /\ BuiltWhole /\ Stacked
      BY DEF IInv
    <2>3. Types'
      BY <1>1, <2>1, <2>2 DEF Types, ImageRecords, SegmentRecords, Contents, readBuf
    <2>4. page' = page
      BY <2>1 DEF page, uparams
    <2>5. table = "read" => headers = prog
      BY DEF headers
    <2>6. ASSUME Holds(prog, images[im].segs, h), table = "read"
          PROVE  Holds(prog, images[im].segs, h + 1)
      <3>1. h \in Nat /\ \A i \in DOMAIN prog : i < h + 1 => i < h \/ i = h
        BY <2>2, LastLemma DEF Types
      <3> QED
        BY <1>3, <2>5, <2>6, <3>1 DEF Holds
    <2>7. BuiltWhole'
      BY <1>1, <2>1, <2>2, <2>6 DEF BuiltWhole, Loading, Stacking, im
    <2>8. Stacked'
      BY <1>1, <2>1, <2>2, <2>4 DEF Stacked, Loading, im
    <2> QED
      BY <2>3, <2>7, <2>8 DEF IInv
  <1> QED
    BY <1>2, <1>3

\* The base of the next unit is above the present one when it fits.
LEMMA NextBase ==
  ASSUME NEW segs \in Seq(SegmentRecords), NEW u \in Nat \ {0}, NEW b \in Nat, NEW t \in Nat,
         NEW pg \in Nat \ {0}, Mod32 \in Nat \ {0}, roundup(b, pg) = b,
         Below(pg, segs, u, b), Topped(segs, u, b % Mod32, t)
  PROVE  Below(pg, segs, u + 1, roundup(t % Mod32, pg))
  <1> DEFINE c == roundup(t % Mod32, pg)
  <1> SUFFICES ASSUME FitAt(pg, segs, u + 1)
               PROVE  c < Mod32 /\ \A i \in Before(segs, u + 1) : End(segs[i]) <= c
    BY DEF Below
  <1>1. \A i \in DOMAIN segs : /\ End(segs[i]) \in Nat /\ segs[i].base \in Nat /\ segs[i].unit \in Nat
                               /\ segs[i].base <= End(segs[i])
    <2>1. \A i \in DOMAIN segs : segs[i] \in SegmentRecords
      OBVIOUS
    <2> QED
      BY <2>1, EndLemma
  <1>2. /\ Before(segs, u) \subseteq Before(segs, u + 1)
        /\ \A i \in DOMAIN segs : segs[i].unit = u => i \in Before(segs, u + 1)
        /\ \A i \in Before(segs, u + 1) : i \in DOMAIN segs /\ (i \in Before(segs, u) \/ segs[i].unit = u)
    BY <1>1 DEF Before
  <1>3. FitAt(pg, segs, u)
    BY <1>2 DEF FitAt
  <1>4. b < Mod32 /\ \A i \in Before(segs, u) : End(segs[i]) <= b
    BY <1>3 DEF Below
  <1>5. b % Mod32 = b
    BY <1>4, UncutLemma
  <1>6. /\ \A i \in DOMAIN segs : segs[i].unit = u => b <= segs[i].base /\ End(segs[i]) <= t
        /\ t = b \/ \E i \in DOMAIN segs : segs[i].unit = u /\ End(segs[i]) = t
    BY <1>5 DEF Topped
  <1>7. b <= t /\ c = roundup(t, pg) /\ t <= c /\ c < Mod32 /\ c \in Nat
    <2>1. CASE t = b
      <3>1. t % Mod32 = b
        BY <1>5, <2>1
      <3> QED
        BY <1>4, <2>1, <3>1
    <2>2. CASE t # b
      <3>1. PICK i \in DOMAIN segs : segs[i].unit = u /\ End(segs[i]) = t
        BY <1>6, <2>2
      <3>2. roundup(t, pg) < Mod32
        BY <1>2, <3>1 DEF FitAt
      <3>3. t <= roundup(t, pg) /\ roundup(t, pg) \in Nat
        BY RoundLemma
      <3>4. t < Mod32
        BY <3>2, <3>3
      <3>5. t % Mod32 = t
        BY <3>4, UncutLemma
      <3>6. b <= segs[i].base /\ segs[i].base <= t
        BY <1>1, <1>6, <3>1
      <3>7. b <= t
        BY <1>1, <3>6
      <3> QED
        BY <3>2, <3>3, <3>5, <3>7
    <2> QED
      BY <2>1, <2>2
  <1> HIDE DEF c
  <1>8. ASSUME NEW i \in Before(segs, u + 1) PROVE End(segs[i]) <= c
    <2>1. i \in DOMAIN segs /\ End(segs[i]) \in Nat
      BY <1>1, <1>2
    <2>2. End(segs[i]) <= t
      BY <1>2, <1>4, <1>6, <1>7, <2>1
    <2> QED
      BY <1>7, <2>1, <2>2
  <1> QED
    BY <1>7, <1>8

LEMMA LoadReturnsInv == IInv /\ LoadReturns => IInv'
  <1> SUFFICES ASSUME IInv, LoadReturns PROVE IInv'
    OBVIOUS
  <1> DEFINE segs == images[im].segs
             c == roundup(top % Mod32, page)
  <1>1. /\ Types /\ BuiltWhole /\ Stacked /\ at = "headers" /\ h > Len(headers)
        /\ base' = c /\ unit' = unit + 1 /\ at' = "units"
        /\ prog' = prog /\ params' = params /\ images' = images /\ table' = table /\ h' = h /\ top' = top
        /\ todo' = todo
    BY DEF IInv, LoadReturns, fileVars, page
  <1>2. /\ h \in Nat \ {0} /\ base \in Nat /\ top \in Nat /\ unit \in 1..Len(todo) /\ Mod32 \in Nat \ {0}
        /\ page \in Nat \ {0} /\ segs \in Seq(SegmentRecords) /\ Len(prog) \in Nat
        /\ DOMAIN prog = 1..Len(prog) /\ unit \in Nat \ {0} /\ Len(todo) \in Nat
        /\ \A i \in DOMAIN segs : segs[i] \in SegmentRecords
    BY <1>1, LastLemma, PageLemma DEF Types
  <1>3. top % Mod32 \in Nat
    BY <1>2
  <1>4. c \in Nat /\ roundup(c, page) = c
    BY <1>2, <1>3, RoundLemma
  <1>5. page' = page
    BY <1>1 DEF page, uparams
  <1>6. /\ \A i \in DOMAIN segs : segs[i].unit \in 1..unit
        /\ Below(page, segs, unit, base) /\ roundup(base, page) = base
        /\ \A n \in DOMAIN images : Sorted(page, images[n].segs)
        /\ Topped(segs, unit, base % Mod32, top)
    BY <1>1 DEF Stacked, Loading
  <1>7. Below(page, segs, unit + 1, c)
    BY <1>2, <1>6, NextBase
  <1> HIDE DEF c
  <1>8. Types'
    BY <1>1, <1>2, <1>4 DEF Types, Loading, ImageRecords, SegmentRecords, Contents, readBuf
  <1>9. table = "read" => Whole(prog, segs)
    <2> SUFFICES ASSUME table = "read" PROVE Whole(prog, segs)
      OBVIOUS
    <2>1. h > Len(prog)
      BY <1>1 DEF headers
    <2>2. CASE unit = 1
      <3>1. Holds(prog, segs, h)
        BY <1>1, <2>2 DEF BuiltWhole
      <3>2. \A i \in DOMAIN prog : i < h
        BY <1>2, <2>1
      <3> HIDE DEF segs
      <3> QED
        BY <3>1, <3>2 DEF Whole, Holds
    <2>3. CASE unit > 1
      BY <1>1, <2>3 DEF BuiltWhole, Loading
    <2> QED
      BY <1>2, <2>2, <2>3
  <1>10. BuiltWhole'
    <2>1. unit' # 1 /\ table # "unread"
      BY <1>1, <1>2 DEF BuiltWhole
    <2> QED
      BY <1>1, <1>9, <2>1 DEF BuiltWhole, Loading, Stacking, im
  <1>11. Stacked'
    <2>1. unit' - 1 = unit
      BY <1>1, <1>2
    <2> QED
      BY <1>1, <1>4, <1>5, <1>6, <1>7, <2>1 DEF Stacked, Loading, im
  <1> QED
    BY <1>8, <1>10, <1>11 DEF IInv

\* The image is returned: no segment moves.
LEMMA ReturnLemma ==
  ASSUME IInv, Len(images) > 0, Return, prog' = prog, params' = params, table' = table,
         unit' = unit, h' = h, base' = base, top' = top, todo' = todo,
         table = "read" => Whole(prog, images[im].segs), table # "unread"
  PROVE  IInv'
  <1> DEFINE new == [images[im] EXCEPT !.built = TRUE]
  <1>1. /\ Types /\ BuiltWhole /\ Stacked /\ images' = [images EXCEPT ![im] = new] /\ at' = "idle"
        /\ im \in DOMAIN images /\ images \in Seq(ImageRecords) /\ DOMAIN images = 1..Len(images)
    BY LastLemma DEF IInv, Return, Types
  <1>2. images[im] \in ImageRecords
    BY <1>1
  <1>3. new \in ImageRecords /\ new.segs = images[im].segs
    BY <1>2 DEF ImageRecords
  <1> HIDE DEF new
  <1>4. /\ images' \in Seq(ImageRecords) /\ Len(images') = Len(images) /\ DOMAIN images' = DOMAIN images
        /\ \A n \in DOMAIN images : images'[n] = IF n = im THEN new ELSE images[n]
    BY <1>1, <1>3
  <1>5. \A n \in DOMAIN images : images'[n].segs = images[n].segs
    BY <1>3, <1>4
  <1>6. Types'
    BY <1>1, <1>4 DEF Types, Loading, ImageRecords, SegmentRecords, Contents, readBuf
  <1>7. BuiltWhole'
    <2>1. \A n \in DOMAIN images : table = "read" /\ images'[n].built => Whole(prog, images[n].segs)
      BY <1>1, <1>4 DEF BuiltWhole
    <2> QED
      BY <1>1, <1>4, <1>5, <2>1 DEF BuiltWhole, Loading, Stacking
  <1>8. page' = page
    BY DEF page, uparams
  <1>9. Stacked'
    BY <1>1, <1>4, <1>5, <1>8 DEF Stacked, Loading
  <1> QED
    BY <1>6, <1>7, <1>9 DEF IInv

\* When the last unit is loaded, the image is whole.
LEMMA LoadedLemma ==
  ASSUME IInv, at = "units", unit > Len(todo)
  PROVE  /\ Len(images) > 0 /\ table # "unread" /\ (table = "read" => Whole(prog, images[im].segs))
  <1>1. Types /\ BuiltWhole /\ Len(todo) > 0 /\ Len(todo) \in Nat /\ unit \in Nat /\ Len(images) = Len(todo)
    BY LastLemma DEF IInv, Types
  <1>2. unit > 1
    BY <1>1
  <1> QED
    BY <1>1, <1>2 DEF BuiltWhole, Loading

LEMMA StackSkippedInv == IInv /\ StackSkipped => IInv'
  <1> SUFFICES ASSUME IInv, StackSkipped PROVE IInv'
    OBVIOUS
  <1>1. /\ at = "units" /\ unit > Len(todo) /\ Return /\ prog' = prog /\ params' = params
        /\ table' = table /\ unit' = unit /\ h' = h /\ base' = base /\ top' = top /\ todo' = todo
    BY DEF StackSkipped, fileVars, loadVars
  <1> QED
    BY <1>1, LoadedLemma, ReturnLemma

LEMMA StackAllocatedInv == IInv /\ StackAllocated => IInv'
  <1> SUFFICES ASSUME IInv, StackAllocated PROVE IInv'
    OBVIOUS
  <1> DEFINE addr == ((IF params.stack_at THEN params.stack_addr ELSE StackTop) + Mod64 - size) % Mod64
             s == [base |-> addr, size |-> size, unit |-> 0, header |-> 0, bytes |-> <<>>]
             segs == images[im].segs
             new == Append(segs, s)
  <1>1. /\ at = "units" /\ unit > Len(todo) /\ AddSegment(s) /\ at' = "main" /\ prog' = prog
        /\ params' = params /\ table' = table /\ unit' = unit /\ h' = h /\ base' = base /\ top' = top
        /\ todo' = todo
    BY DEF StackAllocated, fileVars, loadVars
  <1>2. /\ Types /\ BuiltWhole /\ Stacked /\ Len(images) > 0 /\ table # "unread"
        /\ (table = "read" => Whole(prog, segs))
    BY <1>1, LoadedLemma DEF IInv
  <1>3. addr \in Nat /\ size \in Nat
    <2>1. params.stack_size \in Nat /\ params.stack_addr \in Nat /\ StackTop \in Nat /\ Mod64 \in Nat \ {0}
      BY <1>2, PageLemma, SizesAssumption
    <2> QED
      BY <2>1 DEF size
  <1>4. s \in SegmentRecords /\ s.unit = 0
    BY <1>3 DEF SegmentRecords, Contents
  <1> HIDE DEF s
  <1>5. /\ images' \in Seq(ImageRecords) /\ Len(images') = Len(images)
        /\ \A n \in DOMAIN images :
              /\ images'[n].built = images[n].built
              /\ n # im => images'[n].segs = images[n].segs
        /\ images'[im].segs = new
        /\ DOMAIN images' = DOMAIN images /\ im' = im /\ segs \in Seq(SegmentRecords)
        /\ im \in DOMAIN images
    BY <1>1, <1>2, <1>4, AddLemma DEF im
  <1>6. Types'
    BY <1>1, <1>2, <1>5 DEF Types, Loading, Stacking, ImageRecords, SegmentRecords, Contents, readBuf
  <1>7. Whole(prog, segs) => Whole(prog, new)
    <2>1. Len(prog) \in Nat
      BY <1>2, LastLemma
    <2> QED
      BY <1>4, <1>5, <2>1, HoldsMore DEF Whole
  <1>8. page' = page
    BY <1>1 DEF page, uparams
  <1>9. Sorted(page, segs) => Sorted(page, new)
    BY <1>4, <1>5, SortedAdd
  <1> HIDE DEF new, segs
  <1>10. BuiltWhole'
    BY <1>1, <1>2, <1>5, <1>7 DEF BuiltWhole, Loading, Stacking, segs
  <1>11. Stacked'
    BY <1>1, <1>2, <1>5, <1>8, <1>9 DEF Stacked, Loading, segs
  <1> QED
    BY <1>6, <1>10, <1>11 DEF IInv

LEMMA EnvsEndInv == IInv /\ EnvsEnd => IInv'
  <1> SUFFICES ASSUME IInv, EnvsEnd PROVE IInv'
    OBVIOUS
  <1>1. /\ at = "envs" /\ Return /\ prog' = prog /\ params' = params
        /\ table' = table /\ unit' = unit /\ h' = h /\ base' = base /\ top' = top /\ todo' = todo
    BY DEF EnvsEnd, InStack, fileVars, loadVars
  <1>2. /\ Len(images) > 0 /\ table # "unread" /\ (table = "read" => Whole(prog, images[im].segs))
    BY <1>1 DEF IInv, Types, BuiltWhole, Stacking
  <1> QED
    BY <1>1, <1>2, ReturnLemma

\* What is written to the stack moves no segment.
LEMMA WriteInv ==
  ASSUME IInv, NEW phase \in Stacking, InStack(phase), images' = images, at' \in Stacking
  PROVE  IInv'
  <1>1. /\ at \in Stacking /\ prog' = prog /\ params' = params /\ images' = images /\ table' = table
        /\ unit' = unit /\ h' = h /\ base' = base /\ top' = top /\ todo' = todo
    BY DEF InStack, fileVars, loadVars
  <1>2. at \notin Loading /\ at' \notin Loading /\ at # "idle" /\ at' # "idle"
    BY <1>1 DEF Stacking, Loading
  <1>3. Types'
    BY <1>1, <1>2 DEF IInv, Types, Loading, ImageRecords, SegmentRecords, Contents, readBuf
  <1>4. BuiltWhole'
    BY <1>1, <1>2 DEF IInv, BuiltWhole, Loading, im
  <1>5. page' = page
    BY <1>1 DEF page, uparams
  <1>6. Stacked'
    BY <1>1, <1>2, <1>5 DEF IInv, Stacked, Loading
  <1> QED
    BY <1>3, <1>4, <1>6 DEF IInv

WriteSteps ==
  \/ MainWord \/ MainEnds \/ ArgPointer \/ ArgvEnds \/ EnvPointer \/ EnvpEnds
  \/ AuxWord \/ AuxvEnds \/ ArgString \/ ArgsEnd \/ EnvString

LEMMA WriteStepsInv == IInv /\ WriteSteps => IInv'
  <1> SUFFICES ASSUME IInv, WriteSteps PROVE IInv'
    OBVIOUS
  <1>1. CASE MainWord \/ MainEnds
    BY <1>1, WriteInv DEF MainWord, MainEnds, InStack, Turn, Leave, Stacking
  <1>2. CASE ArgPointer \/ ArgvEnds
    BY <1>2, WriteInv DEF ArgPointer, ArgvEnds, InStack, Turn, Leave, Stacking
  <1>3. CASE EnvPointer \/ EnvpEnds
    BY <1>3, WriteInv DEF EnvPointer, EnvpEnds, InStack, Turn, Leave, Stacking
  <1>4. CASE AuxWord \/ AuxvEnds
    BY <1>4, WriteInv DEF AuxWord, AuxvEnds, InStack, Turn, Leave, Stacking
  <1>5. CASE ArgString \/ ArgsEnd
    BY <1>5, WriteInv DEF ArgString, ArgsEnd, InStack, Turn, Leave, Stacking
  <1>6. CASE EnvString
    BY <1>6, WriteInv DEF EnvString, InStack, Turn, Leave, Stacking
  <1> QED
    BY <1>1, <1>2, <1>3, <1>4, <1>5, <1>6 DEF WriteSteps

LEMMA StepInv == IInv /\ [Next]_vars => IInv'
  <1> SUFFICES ASSUME IInv, [Next]_vars PROVE IInv'
    OBVIOUS
  <1>1. CASE UNCHANGED vars
    BY <1>1 DEF IInv, Types, BuiltWhole, Stacked, im, page, uparams, vars, fileVars, loadVars,
                ImageRecords, SegmentRecords, Contents, readBuf
  <1>2. CASE Build
    BY <1>2, BuildInv
  <1>3. CASE Steps
    BY <1>3, LoadUnitInv, LoadThrowsInv, LoadHeaderInv, LoadReturnsInv, StackSkippedInv,
       StackAllocatedInv, EnvsEndInv, WriteStepsInv DEF Steps, WriteSteps
  <1> QED
    BY <1>1, <1>2, <1>3 DEF Next

LEMMA Invariant == Spec => []IInv
  BY InitInv, StepInv, PTL DEF Spec

(***************************************************************************)
(* The sizes of the stack.                                                 *)
(***************************************************************************)
LEMMA HasLeast ==
  ASSUME NEW T, T \subseteq Nat, T # {}
  PROVE  \E x \in T : \A y \in T : x <= y
  <1> DEFINE R == OpToRel(<, Nat)
  <1>1. IsWellFoundedOn(R, Nat)
    BY NatLessThanWellFounded
  <1>2. \A x, y \in Nat : <<x, y>> \in R <=> x < y
    BY DEF OpToRel
  <1> HIDE DEF R
  <1>3. PICK x \in T : \A y \in T : ~(<<y, x>> \in R)
    BY <1>1, WFMin
  <1>4. ASSUME NEW y \in T PROVE x <= y
    <2>1. x \in Nat /\ y \in Nat /\ ~(y < x)
      BY <1>2, <1>3
    <2> QED
      BY <2>1
  <1> QED
    BY <1>3, <1>4

\* The sums are those that add up one string after the other.
LEMMA SumsLemma ==
  ASSUME NEW q \in Seq(Nat)
  PROVE  /\ \A n \in 0..Len(q) : upTo(q)[n] \in Nat
         /\ upTo(q)[0] = 0 /\ \A n \in 1..Len(q) : upTo(q)[n] = upTo(q)[n - 1] + q[n] + 1
  <1> DEFINE N == Len(q)
             Sums(n, g) == /\ g \in [0..n -> Nat]
                           /\ \A m \in 0..n : g[m] = IF m = 0 THEN 0 ELSE g[m - 1] + q[m] + 1
             Missing == {n \in 0..N : ~\E g : Sums(n, g)}
  <1>1. N \in Nat /\ \A n \in 1..N : q[n] \in Nat
    OBVIOUS
  <1>2. Missing = {}
    <2> SUFFICES ASSUME Missing # {} PROVE FALSE
      OBVIOUS
    <2>1. PICK n \in Missing : \A m \in Missing : n <= m
      <3>1. Missing \subseteq Nat
        BY <1>1
      <3> HIDE DEF Missing
      <3> QED
        BY <3>1, HasLeast
    <2>2. n # 0
      <3>1. Sums(0, [m \in 0..0 |-> 0])
        OBVIOUS
      <3> QED
        BY <2>1, <3>1
    <2>3. n - 1 \in 0..N /\ n - 1 \notin Missing /\ n \in 1..N
      <3>1. n \in 0..N
        OBVIOUS
      <3> HIDE DEF Missing, N
      <3>2. n - 1 \in 0..N /\ n \in 1..N /\ ~(n <= n - 1)
        BY <1>1, <2>2, <3>1
      <3> QED
        BY <2>1, <3>2
    <2>4. PICK g : Sums(n - 1, g)
      BY <2>3
    <2> DEFINE f == [m \in 0..n |-> IF m = n THEN g[n - 1] + q[n] + 1 ELSE g[m]]
    <2>5. n - 1 \in 0..(n - 1) /\ \A m \in 0..n : m = n \/ m \in 0..(n - 1)
      BY <2>3
    <2>6. \A m \in 0..(n - 1) : g[m] \in Nat
      BY <2>4
    <2>7. f \in [0..n -> Nat]
      BY <1>1, <2>3, <2>5, <2>6
    <2>8. ASSUME NEW m \in 0..n PROVE f[m] = IF m = 0 THEN 0 ELSE f[m - 1] + q[m] + 1
      <3>1. CASE m = n
        BY <2>3, <2>5, <3>1
      <3>2. CASE m \in 0..(n - 1)
        <4>1. m # n /\ f[m] = g[m] /\ (m # 0 => m - 1 \in 0..n /\ m - 1 # n /\ f[m - 1] = g[m - 1])
          BY <2>3, <3>2
        <4> QED
          BY <2>4, <3>2, <4>1
      <3> QED
        BY <2>5, <3>1, <3>2
    <2>9. Sums(n, f)
      <3> HIDE DEF f
      <3> QED
        BY <2>7, <2>8
    <2> QED
      BY <2>1, <2>9
  <1>3. PICK g : Sums(N, g)
    <2>1. N \in 0..N
      BY <1>1
    <2>2. N \notin Missing
      BY <1>2, Zenon
    <2> HIDE DEF N, Sums
    <2> QED
      BY <2>1, <2>2
  <1>4. g = [n \in 0..N |-> IF n = 0 THEN 0 ELSE g[n - 1] + q[n] + 1]
    BY <1>3
  <1> DEFINE s == upTo(q)
  <1>5. s = [n \in 0..N |-> IF n = 0 THEN 0 ELSE s[n - 1] + q[n] + 1]
    BY <1>4, Zenon DEF upTo
  <1> HIDE DEF s
  <1>6. s[0] = 0 /\ \A n \in 1..N : s[n] = s[n - 1] + q[n] + 1
    BY <1>1, <1>5
  <1>7. \A n \in 0..N : s[n] \in Nat
    <2> DEFINE Bad == {n \in 0..N : s[n] \notin Nat}
    <2> SUFFICES ASSUME Bad # {} PROVE FALSE
      OBVIOUS
    <2>1. PICK n \in Bad : \A m \in Bad : n <= m
      <3>1. Bad \subseteq Nat
        BY <1>1
      <3> HIDE DEF Bad
      <3> QED
        BY <3>1, HasLeast
    <2>2. n \in 0..N /\ s[n] \notin Nat
      BY <2>1
    <2>3. n # 0
      BY <1>6, <2>2
    <2>4. n - 1 \in 0..N /\ n \in 1..N /\ n - 1 \notin Bad
      <3> HIDE DEF Bad
      <3>1. n - 1 \in 0..N /\ n \in 1..N /\ ~(n <= n - 1)
        BY <1>1, <2>2, <2>3
      <3> QED
        BY <2>1, <3>1
    <2>5. s[n - 1] \in Nat
      BY <2>4
    <2>6. s[n] = s[n - 1] + q[n] + 1 /\ q[n] \in Nat
      BY <1>1, <1>6, <2>4
    <2>7. \A x, y \in Nat : x + y + 1 \in Nat
      OBVIOUS
    <2> QED
      BY <2>2, <2>5, <2>6, <2>7, Zenon
  <1> QED
    BY <1>6, <1>7 DEF s

\* Sums grow from a string to any other after it.
LEMMA SumsRise ==
  ASSUME NEW q \in Seq(Nat), NEW m \in 0..Len(q), NEW n \in 0..Len(q), m <= n
  PROVE  upTo(q)[m] <= upTo(q)[n]
  <1> DEFINE s == upTo(q)
             Bad == {d \in m..Len(q) : ~(s[m] <= s[d])}
  <1>1. /\ Len(q) \in Nat /\ \A i \in 0..Len(q) : s[i] \in Nat
        /\ \A i \in 1..Len(q) : s[i] = s[i - 1] + q[i] + 1 /\ q[i] \in Nat
    BY SumsLemma
  <1> HIDE DEF s
  <1>2. ASSUME Bad # {} PROVE FALSE
    <2>1. PICK d \in Bad : \A x \in Bad : d <= x
      <3>1. Bad \subseteq Nat
        BY <1>1
      <3> HIDE DEF Bad
      <3> QED
        BY <1>2, <3>1, HasLeast
    <2>2. d \in m..Len(q) /\ ~(s[m] <= s[d])
      BY <2>1
    <2>3. d # m
      <3>1. s[m] \in Nat
        BY <1>1
      <3> QED
        BY <2>2, <3>1
    <2>4. d - 1 \in m..Len(q) /\ d \in 1..Len(q) /\ ~(d <= d - 1) /\ d - 1 \in 0..Len(q)
      BY <1>1, <2>2, <2>3
    <2>5. s[m] <= s[d - 1]
      <3> HIDE DEF Bad
      <3>1. d - 1 \notin Bad
        BY <2>1, <2>4
      <3> QED
        BY <2>4, <3>1 DEF Bad
    <2>6. s[d] = s[d - 1] + q[d] + 1 /\ q[d] \in Nat /\ s[d - 1] \in Nat /\ s[m] \in Nat
      BY <1>1, <2>4
    <2> QED
      BY <2>2, <2>5, <2>6
  <1>3. n \in m..Len(q)
    BY <1>1
  <1> QED
    BY <1>2, <1>3 DEF s

LEMMA SumsGrow ==
  ASSUME NEW q \in Seq(Nat), NEW n \in 0..Len(q)
  PROVE  upTo(q)[n] <= upTo(q)[Len(q)]
  <1>1. Len(q) \in 0..Len(q) /\ n <= Len(q)
    OBVIOUS
  <1> QED
    BY <1>1, SumsRise

\* What is measured: the tables, then the strings.
LEMMA SizesLemma ==
  ASSUME Types
  PROVE  /\ argc \in Nat /\ envc \in Nat /\ uparams.auxv \in Nat /\ size \in Nat
         /\ params.arg \in Seq(Nat) /\ params.env \in Seq(Nat)
         /\ arg_a = 12 /\ env_a = 16 + 4 * argc
         /\ arg_s = 24 + 4 * argc + 4 * envc + 8 * uparams.auxv /\ arg_s \in Nat
         /\ env_s = arg_s + upTo(params.arg)[argc] /\ env_s \in Nat
         /\ isize \in Nat /\ isize > 0 /\ env_s + upTo(params.env)[envc] <= isize
  <1>1. Asked(params) /\ Asked(uparams)
    BY ParametersAssumption, PageLemma DEF Types
  <1>2. /\ params.arg \in Seq(Nat) /\ params.env \in Seq(Nat) /\ uparams.auxv \in Nat /\ size \in Nat
    BY <1>1 DEF Asked, size
  <1>3. argc \in Nat /\ envc \in Nat
    BY <1>2 DEF argc, envc
  <1>4. W = 4 /\ arg_a = 12
    BY DEF W, arg_a
  <1> DEFINE aux == uparams.auxv
  <1>5. env_a = 16 + 4 * argc
    BY <1>3, <1>4 DEF env_a
  <1>6. arg_s = 24 + 4 * argc + 4 * envc + 8 * aux
    <2>1. arg_s = env_a + (envc + 1) * 4 + (aux * 2 + 1) * 4
      BY <1>4 DEF arg_s
    <2>2. aux \in Nat
      BY <1>2
    <2> HIDE DEF aux
    <2> QED
      BY <1>3, <1>5, <2>1, <2>2
  <1>7. arg_s \in Nat
    <2>1. aux \in Nat
      BY <1>2
    <2> HIDE DEF aux
    <2> QED
      BY <1>3, <1>6, <2>1
  <1> HIDE DEF aux
  <1> DEFINE A == upTo(params.arg)[argc]
             E == upTo(params.env)[envc]
  <1>8. A \in Nat /\ E \in Nat
    <2>1. argc \in 0..Len(params.arg) /\ envc \in 0..Len(params.env)
      BY <1>3 DEF argc, envc
    <2> QED
      BY <1>2, <2>1, SumsLemma
  <1>9. Bytes(params.arg) = A /\ Bytes(params.env) = E
    BY DEF Bytes, argc, envc
  <1> HIDE DEF A, E
  <1>10. env_s = arg_s + A /\ env_s \in Nat /\ isize = roundup(env_s + E, 4)
    BY <1>4, <1>7, <1>8, <1>9 DEF env_s, isize
  <1>11. env_s + E \in Nat /\ env_s + E > 0
    <2>1. arg_s > 0
      <3>1. aux \in Nat
        BY <1>2 DEF aux
      <3> QED
        BY <1>3, <1>6, <3>1
    <2> QED
      BY <1>7, <1>8, <1>10, <2>1
  <1>12. isize \in Nat /\ env_s + E <= isize
    BY <1>10, <1>11, RoundLemma
  <1> QED
    BY <1>2, <1>3, <1>4, <1>5, <1>6, <1>7, <1>8, <1>10, <1>11, <1>12 DEF A, E, aux

(***************************************************************************)
(* The stack: where the cursor is.                                         *)
(***************************************************************************)
start == size - isize

Placed ==
  /\ at = "main" => k \in 1..4 /\ off = start + 4 * (k - 1)
  /\ at = "argv" => k \in 1..(argc + 1) /\ off = start + 12 + 4 * (k - 1)
  /\ at = "envp" => k \in 1..(envc + 1) /\ off = start + 16 + 4 * argc + 4 * (k - 1)
  /\ at = "auxv" => /\ k \in 1..(2 * uparams.auxv + 1)
                    /\ off = start + 20 + 4 * argc + 4 * envc + 4 * (k - 1)
  /\ at = "args" => k \in 1..(argc + 1) /\ off = start + arg_s + upTo(params.arg)[k - 1] - (k - 1)
  /\ at = "envs" => /\ k \in 1..(envc + 1)
                    /\ off = start + env_s - argc + upTo(params.env)[k - 1] - (k - 1)

StackInv ==
  /\ stack \in [base : Nat, size : Nat] /\ k \in Nat \ {0} /\ p \in 0..(Mod32 - 1)
  /\ off \in 0..stack.size /\ DOMAIN mem \subseteq 0..(stack.size - 1)
  /\ ~uparams.stack_alloc => stack = NoStack /\ off = 0
  /\ at \in Stacking => isize <= size /\ stack.size = size /\ uparams.stack_alloc
  /\ Placed

\* From where it is, what comes next fits.
LEMMA FitsLemma ==
  ASSUME Types, StackInv
  PROVE  WritesFit
  <1> DEFINE aux == uparams.auxv
             S == upTo(params.arg)
             E == upTo(params.env)
  <1>1. /\ argc \in Nat /\ envc \in Nat /\ aux \in Nat /\ size \in Nat /\ isize \in Nat
        /\ arg_s = 24 + 4 * argc + 4 * envc + 8 * aux /\ arg_s \in Nat
        /\ env_s = arg_s + S[argc] /\ env_s \in Nat /\ env_s + E[envc] <= isize
        /\ params.arg \in Seq(Nat) /\ params.env \in Seq(Nat)
        /\ argc = Len(params.arg) /\ envc = Len(params.env)
    BY SizesLemma DEF argc, envc
  <1>2. /\ \A n \in 0..argc : S[n] \in Nat /\ S[n] <= S[argc]
        /\ \A n \in 0..envc : E[n] \in Nat /\ E[n] <= E[envc]
        /\ \A n \in 1..argc : S[n] = S[n - 1] + params.arg[n] + 1 /\ params.arg[n] \in Nat
        /\ \A n \in 1..envc : E[n] = E[n - 1] + params.env[n] + 1 /\ params.env[n] \in Nat
    <2>1. argc = Len(params.arg) /\ envc = Len(params.env)
      BY <1>1
    <2>2. /\ \A n \in 1..Len(params.arg) : params.arg[n] \in Nat
          /\ \A n \in 1..Len(params.env) : params.env[n] \in Nat
      BY <1>1
    <2>3. /\ \A n \in 0..argc : S[n] \in Nat
          /\ \A n \in 1..argc : S[n] = S[n - 1] + params.arg[n] + 1 /\ params.arg[n] \in Nat
      BY <1>1, <2>1, <2>2, SumsLemma
    <2>4. /\ \A n \in 0..envc : E[n] \in Nat
          /\ \A n \in 1..envc : E[n] = E[n - 1] + params.env[n] + 1 /\ params.env[n] \in Nat
      BY <1>1, <2>1, <2>2, SumsLemma
    <2>5. /\ \A n \in 0..argc : S[n] <= S[argc]
          /\ \A n \in 0..envc : E[n] <= E[envc]
      BY <1>1, <2>1, SumsGrow
    <2> QED
      BY <2>3, <2>4, <2>5
  <1> DEFINE a == S[argc]
             e == E[envc]
  <1>3. a \in Nat /\ e \in Nat
    BY <1>1, <1>2
  <1> HIDE DEF aux, S, E, a, e
  <1>4. /\ argc \in Nat /\ envc \in Nat /\ aux \in Nat /\ size \in Nat /\ isize \in Nat
        /\ arg_s = 24 + 4 * argc + 4 * envc + 8 * aux /\ arg_s \in Nat
        /\ env_s = arg_s + a /\ env_s \in Nat /\ env_s + e <= isize
    BY <1>1 DEF a, e
  <1>5. Placed /\ (at \in Stacking => isize <= size /\ stack.size = size) /\ k \in Nat \ {0}
    BY DEF StackInv
  <1>6. arg_s <= isize
    BY <1>3, <1>4
  <1>7. ASSUME at \in {"main", "argv", "envp", "auxv"}, ~(at = "main" /\ k > 3) PROVE avail(W)
    <2>1. isize <= size /\ stack.size = size /\ W = 4
      BY <1>5, <1>7 DEF Stacking, W
    <2>2. CASE at = "main"
      BY <1>4, <1>5, <1>6, <1>7, <2>1, <2>2 DEF Placed, avail, start
    <2>3. CASE at = "argv"
      BY <1>4, <1>5, <1>6, <2>1, <2>3 DEF Placed, avail, start
    <2>4. CASE at = "envp"
      BY <1>4, <1>5, <1>6, <2>1, <2>4 DEF Placed, avail, start
    <2>5. CASE at = "auxv"
      <3>1. k \in 1..(2 * aux + 1) /\ off = start + 20 + 4 * argc + 4 * envc + 4 * (k - 1)
        BY <1>5, <2>5 DEF Placed, aux
      <3> QED
        BY <1>4, <1>6, <2>1, <3>1 DEF avail, start
    <2> QED
      BY <1>7, <2>2, <2>3, <2>4, <2>5
  <1>8. ASSUME at = "args", k <= argc PROVE avail(params.arg[k] + 1)
    <2>1. isize <= size /\ stack.size = size
      BY <1>5, <1>8 DEF Stacking
    <2>2. off = start + arg_s + S[k - 1] - (k - 1) /\ k \in 1..argc
      BY <1>1, <1>5, <1>8 DEF Placed, S
    <2>3. S[k] = S[k - 1] + params.arg[k] + 1 /\ params.arg[k] \in Nat /\ S[k] <= S[argc]
          /\ S[k] \in Nat /\ S[k - 1] \in Nat
      <3>1. k \in 0..argc /\ k - 1 \in 0..argc
        BY <1>1, <2>2
      <3> QED
        BY <1>2, <2>2, <3>1
    <2>4. arg_s + a <= isize
      BY <1>3, <1>4
    <2> DEFINE n == params.arg[k]
               x == S[k - 1]
               y == S[k]
    <2>5. /\ off = start + arg_s + x - (k - 1) /\ y = x + n + 1 /\ n \in Nat /\ y <= a /\ a \in Nat
          /\ x \in Nat /\ arg_s + a <= isize
      BY <1>3, <2>2, <2>3, <2>4 DEF a
    <2> HIDE DEF n, x, y
    <2>6. off + n + 1 <= stack.size
      BY <1>4, <2>1, <2>2, <2>5 DEF start
    <2> QED
      BY <2>5, <2>6, <1>4, <2>2, <2>1 DEF avail, n, start
  <1>9. ASSUME at = "envs", k <= envc PROVE avail(params.env[k] + 1)
    <2>1. isize <= size /\ stack.size = size
      BY <1>5, <1>9 DEF Stacking
    <2>2. off = start + env_s - argc + E[k - 1] - (k - 1) /\ k \in 1..envc
      BY <1>1, <1>5, <1>9 DEF Placed, E
    <2>3. E[k] = E[k - 1] + params.env[k] + 1 /\ params.env[k] \in Nat /\ E[k] <= E[envc]
          /\ E[k] \in Nat /\ E[k - 1] \in Nat
      <3>1. k \in 0..envc /\ k - 1 \in 0..envc
        BY <1>1, <2>2
      <3> QED
        BY <1>2, <2>2, <3>1
    <2> DEFINE n == params.env[k]
               x == E[k - 1]
               y == E[k]
    <2>4. /\ off = start + env_s - argc + x - (k - 1) /\ y = x + n + 1 /\ n \in Nat /\ y <= e /\ e \in Nat
          /\ x \in Nat /\ env_s + e <= isize
      BY <1>3, <1>4, <2>2, <2>3 DEF e
    <2> HIDE DEF n, x, y
    <2>5. off + n + 1 <= stack.size
      BY <1>4, <2>1, <2>2, <2>4 DEF start
    <2> QED
      BY <2>4, <2>5, <1>4, <2>2, <2>1 DEF avail, n, start
  <1> QED
    BY <1>7, <1>8, <1>9 DEF WritesFit

\* The sizes depend on the parameters alone.
LEMMA SameSizes ==
  ASSUME params' = params
  PROVE  /\ argc' = argc /\ envc' = envc /\ size' = size /\ uparams' = uparams
         /\ arg_s' = arg_s /\ env_s' = env_s /\ isize' = isize /\ start' = start
  <1>1. argc' = argc /\ envc' = envc /\ size' = size /\ uparams' = uparams
    BY DEF argc, envc, size, uparams
  <1>2. arg_s' = arg_s
    BY <1>1 DEF arg_s, env_a, arg_a
  <1>3. env_s' = env_s
    BY <1>2 DEF env_s
  <1>4. isize' = isize
    BY <1>3 DEF isize
  <1> QED
    BY <1>1, <1>2, <1>3, <1>4 DEF start

\* A write that fits.
LEMMA StoreLemma ==
  ASSUME StackInv, NEW n \in Nat, NEW bytes, Len(bytes) = n, DOMAIN bytes = 1..n, NEW d \in 0..n,
         avail(n), Store(bytes, d)
  PROVE  /\ off' = off + d /\ off' \in 0..stack.size /\ DOMAIN mem' \subseteq 0..(stack.size - 1)
  <1>1. /\ stack.size \in Nat /\ off \in 0..stack.size /\ off + n <= stack.size
        /\ DOMAIN mem \subseteq 0..(stack.size - 1)
    BY DEF StackInv, avail
  <1>2. off' = off + d /\ DOMAIN mem' = DOMAIN mem \cup {off + j - 1 : j \in 1..n}
    BY DEF Store
  <1>3. {off + j - 1 : j \in 1..n} \subseteq 0..(stack.size - 1)
    BY <1>1
  <1>4. off' \in 0..stack.size
    BY <1>1, <1>2
  <1> QED
    BY <1>1, <1>2, <1>3, <1>4

LEMMA WordLemma ==
  ASSUME StackInv, avail(W), NEW v, Write(v)
  PROVE  off' = off + 4 /\ off' \in 0..stack.size /\ DOMAIN mem' \subseteq 0..(stack.size - 1)
  <1>1. W = 4 /\ Store(word(v), 4) /\ avail(4)
    BY DEF Write, W
  <1>2. Len(word(v)) = 4 /\ DOMAIN word(v) = 1..4
    BY DEF word, W
  <1>3. 4 \in 0..4 /\ 4 \in Nat
    OBVIOUS
  <1> QED
    BY <1>1, <1>2, <1>3, StoreLemma

LEMMA StringLemma ==
  ASSUME StackInv, NEW n \in Nat, avail(n + 1), NEW kind, NEW i, WriteString(kind, i, n)
  PROVE  off' = off + n /\ off' \in 0..stack.size /\ DOMAIN mem' \subseteq 0..(stack.size - 1)
  <1> DEFINE bytes == string(kind, i, n)
  <1>1. Store(bytes, n) /\ n \in 0..(n + 1) /\ n + 1 \in Nat
    BY DEF WriteString
  <1>2. Len(bytes) = n + 1 /\ DOMAIN bytes = 1..(n + 1)
    BY DEF string
  <1> HIDE DEF bytes
  <1> QED
    BY <1>1, <1>2, StoreLemma

\* Out of buildStack().
LEMMA ElsewhereStack ==
  ASSUME StackInv, params' = params, stackVars' = stackVars, at' \notin Stacking
  PROVE  StackInv'
  <1>1. uparams' = uparams /\ stack' = stack /\ off' = off /\ k' = k /\ p' = p /\ mem' = mem
    BY SameSizes DEF stackVars
  <1>2. Placed'
    BY DEF Placed, Stacking
  <1> QED
    BY <1>1, <1>2 DEF StackInv

\* A step of buildStack() keeps what is not the cursor's.
LEMMA InStackInv ==
  ASSUME StackInv, NEW phase \in Stacking, InStack(phase), at' \in Stacking,
         k' \in Nat \ {0}, p' \in 0..(Mod32 - 1), off' \in 0..stack.size,
         DOMAIN mem' \subseteq 0..(stack.size - 1), Placed'
  PROVE  StackInv'
  <1>1. stack' = stack /\ params' = params /\ at \in Stacking
    BY DEF InStack
  <1>2. isize' = isize /\ size' = size /\ uparams' = uparams
    BY <1>1, SameSizes
  <1> QED
    BY <1>1, <1>2 DEF StackInv

LEMMA StackInit == Init => StackInv
  <1> SUFFICES ASSUME Init PROVE StackInv
    OBVIOUS
  <1>1. Mod32 \in Nat \ {0}
    BY SizesAssumption
  <1> QED
    BY <1>1 DEF Init, StackInv, Placed, NoStack, Stacking

LEMMA StackBegins == IInv /\ StackInv /\ (StackSkipped \/ StackAllocated) => StackInv'
  <1> SUFFICES ASSUME IInv, StackInv, StackSkipped \/ StackAllocated PROVE StackInv'
    OBVIOUS
  <1>1. Types /\ size \in Nat /\ isize \in Nat
    BY SizesLemma DEF IInv
  <1>2. CASE StackSkipped
    <2>1. /\ ~uparams.stack_alloc /\ at' = "idle" /\ stack' = NoStack /\ mem' = <<>> /\ off' = off
          /\ k' = k /\ p' = p /\ params' = params
      BY <1>2 DEF StackSkipped, Return
    <2>2. uparams' = uparams /\ off = 0 /\ stack = NoStack
      BY <2>1, SameSizes DEF StackInv
    <2>3. Placed' /\ at' \notin Stacking
      BY <2>1 DEF Placed, Stacking
    <2> QED
      BY <2>1, <2>2, <2>3 DEF StackInv, NoStack
  <1>3. CASE StackAllocated
    <2> DEFINE addr == ((IF params.stack_at THEN params.stack_addr ELSE StackTop) + Mod64 - size) % Mod64
    <2>1. /\ uparams.stack_alloc /\ size >= isize /\ stack' = [base |-> addr, size |-> size]
          /\ off' = size - isize /\ mem' = <<>> /\ k' = 1 /\ at' = "main" /\ params' = params /\ p' = p
      BY <1>3 DEF StackAllocated
    <2>2. addr \in Nat
      <3>1. params.stack_addr \in Nat /\ StackTop \in Nat /\ Mod64 \in Nat \ {0}
        BY <1>1, PageLemma, SizesAssumption
      <3> QED
        BY <1>1, <3>1
    <2> HIDE DEF addr
    <2>3. uparams' = uparams /\ size' = size /\ isize' = isize /\ start' = start
      BY <2>1, SameSizes
    <2>4. Placed'
      BY <1>1, <2>1, <2>3 DEF Placed, start
    <2>5. off' \in 0..size /\ DOMAIN mem' = {}
      BY <1>1, <2>1
    <2> QED
      BY <1>1, <2>1, <2>2, <2>3, <2>4, <2>5 DEF StackInv, Stacking
  <1> QED
    BY <1>2, <1>3

\* The addresses of strings have 32 bits.
LEMMA PointerLemma ==
  ASSUME Types, StackInv
  PROVE  /\ \A x \in Int : x % Mod32 \in 0..(Mod32 - 1)
         /\ \A n \in Nat : after(p, n) \in 0..(Mod32 - 1)
         /\ sp + arg_s \in Int /\ sp + env_s \in Int
  <1>1. Mod32 \in Nat \ {0} /\ p \in Nat /\ stack.base \in Nat
    BY PageLemma DEF StackInv
  <1>2. \A x \in Int : x % Mod32 \in 0..(Mod32 - 1)
    BY <1>1
  <1>3. \A n \in Nat : after(p, n) \in 0..(Mod32 - 1)
    BY <1>1, <1>2 DEF after
  <1>4. size \in Nat /\ isize \in Nat /\ arg_s \in Nat /\ env_s \in Nat
    BY SizesLemma
  <1>5. sp + arg_s \in Int /\ sp + env_s \in Int
    BY <1>1, <1>4 DEF sp
  <1> QED
    BY <1>2, <1>3, <1>5

LEMMA TablesWritten ==
  ASSUME IInv, StackInv,
         MainWord \/ MainEnds \/ ArgPointer \/ ArgvEnds \/ EnvPointer \/ EnvpEnds \/ AuxWord \/ AuxvEnds
  PROVE  StackInv'
  <1> DEFINE aux == uparams.auxv
  <1>1. /\ Types /\ argc \in Nat /\ envc \in Nat /\ aux \in Nat /\ size \in Nat /\ isize \in Nat
        /\ arg_s = 24 + 4 * argc + 4 * envc + 8 * aux /\ k \in Nat \ {0} /\ W = 4
        /\ p \in 0..(Mod32 - 1) /\ start \in Int
        /\ params.arg \in Seq(Nat) /\ params.env \in Seq(Nat)
        /\ \A n \in 1..argc : params.arg[n] \in Nat
        /\ \A n \in 1..envc : params.env[n] \in Nat
        /\ upTo(params.arg)[0] = 0
    <2>1. Types
      BY DEF IInv
    <2>2. /\ argc \in Nat /\ envc \in Nat /\ aux \in Nat /\ size \in Nat /\ isize \in Nat
          /\ arg_s = 24 + 4 * argc + 4 * envc + 8 * aux
          /\ params.arg \in Seq(Nat) /\ params.env \in Seq(Nat)
      BY <2>1, SizesLemma
    <2>3. upTo(params.arg)[0] = 0
      BY <2>2, SumsLemma
    <2>4. /\ \A n \in 1..argc : params.arg[n] \in Nat
          /\ \A n \in 1..envc : params.env[n] \in Nat
      BY <2>2 DEF argc, envc
    <2>5. k \in Nat \ {0} /\ W = 4 /\ p \in 0..(Mod32 - 1)
      BY DEF StackInv, W
    <2>6. start \in Int
      BY <2>2 DEF start
    <2> QED
      BY <2>1, <2>2, <2>3, <2>4, <2>5, <2>6
  <1>2. WritesFit /\ Placed
    BY <1>1, FitsLemma DEF StackInv
  <1>3. /\ \A x \in Int : x % Mod32 \in 0..(Mod32 - 1)
        /\ \A n \in Nat : after(p, n) \in 0..(Mod32 - 1)
        /\ sp + arg_s \in Int /\ sp + env_s \in Int
    BY <1>1, PointerLemma
  <1>4. params' = params => /\ argc' = argc /\ envc' = envc /\ uparams' = uparams
                            /\ start' = start /\ arg_s' = arg_s
    BY SameSizes
  <1>5. params' = params => uparams'.auxv = aux
    BY <1>4
  <1> HIDE DEF aux
  <1>6. aux \in Nat /\ k \in Nat \ {0} /\ k + 1 \in Nat \ {0} /\ p \in 0..(Mod32 - 1)
    BY <1>1
  <1>7. CASE MainWord
    <2>1. /\ InStack("main") /\ k <= 3 /\ at' = "main" /\ k' = k + 1 /\ p' = p /\ params' = params
          /\ at = "main" /\ Write(MainWords[k])
      BY <1>7 DEF MainWord, Turn, InStack
    <2>2. avail(W)
      BY <1>1, <1>2, <2>1 DEF WritesFit
    <2>3. off' = off + 4 /\ off' \in 0..stack.size /\ DOMAIN mem' \subseteq 0..(stack.size - 1)
      BY <2>1, <2>2, WordLemma
    <2>4. Placed'
      BY <1>1, <1>2, <1>4, <2>1, <2>3 DEF Placed
    <2> QED
      BY <1>1, <2>1, <2>3, <2>4, InStackInv DEF Stacking
  <1>8. CASE MainEnds
    <2>1. /\ InStack("main") /\ k > 3 /\ at' = "argv" /\ k' = 1 /\ p' = (sp + arg_s) % Mod32
          /\ params' = params /\ at = "main" /\ off' = off /\ mem' = mem
      BY <1>8 DEF MainEnds, Leave, InStack
    <2>2. Placed'
      BY <1>1, <1>2, <1>4, <2>1 DEF Placed
    <2>3. off' \in 0..stack.size /\ DOMAIN mem' \subseteq 0..(stack.size - 1)
      BY <2>1 DEF StackInv
    <2> QED
      BY <1>3, <2>1, <2>2, <2>3, InStackInv DEF Stacking
  <1>9. CASE ArgPointer
    <2>1. /\ InStack("argv") /\ k <= argc /\ at' = "argv" /\ k' = k + 1
          /\ p' = after(p, params.arg[k]) /\ params' = params /\ at = "argv" /\ Write(p)
      BY <1>9 DEF ArgPointer, Turn, InStack
    <2>2. avail(W)
      BY <1>2, <2>1 DEF WritesFit
    <2>3. off' = off + 4 /\ off' \in 0..stack.size /\ DOMAIN mem' \subseteq 0..(stack.size - 1)
      BY <2>1, <2>2, WordLemma
    <2>4. Placed'
      BY <1>1, <1>2, <1>4, <2>1, <2>3 DEF Placed
    <2>5. p' \in 0..(Mod32 - 1)
      <3>1. k \in 1..argc
        BY <1>1, <2>1
      <3>2. params.arg[k] \in Nat
        BY <1>1, <3>1
      <3> QED
        BY <1>3, <2>1, <3>2
    <2> QED
      BY <1>1, <2>1, <2>3, <2>4, <2>5, InStackInv DEF Stacking
  <1>10. CASE ArgvEnds
    <2>1. /\ InStack("argv") /\ k > argc /\ at' = "envp" /\ k' = 1 /\ p' = (sp + env_s) % Mod32
          /\ params' = params /\ at = "argv" /\ Write(0)
      BY <1>10 DEF ArgvEnds, Leave, InStack
    <2>2. avail(W)
      BY <1>2, <2>1 DEF WritesFit
    <2>3. off' = off + 4 /\ off' \in 0..stack.size /\ DOMAIN mem' \subseteq 0..(stack.size - 1)
      BY <2>1, <2>2, WordLemma
    <2>4. Placed'
      BY <1>1, <1>2, <1>4, <2>1, <2>3 DEF Placed
    <2> QED
      BY <1>3, <2>1, <2>3, <2>4, InStackInv DEF Stacking
  <1>11. CASE EnvPointer
    <2>1. /\ InStack("envp") /\ k <= envc /\ at' = "envp" /\ k' = k + 1
          /\ p' = after(p, params.env[k]) /\ params' = params /\ at = "envp" /\ Write(p)
      BY <1>11 DEF EnvPointer, Turn, InStack
    <2>2. avail(W)
      BY <1>2, <2>1 DEF WritesFit
    <2>3. off' = off + 4 /\ off' \in 0..stack.size /\ DOMAIN mem' \subseteq 0..(stack.size - 1)
      BY <2>1, <2>2, WordLemma
    <2>4. Placed'
      BY <1>1, <1>2, <1>4, <2>1, <2>3 DEF Placed
    <2>5. p' \in 0..(Mod32 - 1)
      <3>1. k \in 1..envc
        BY <1>1, <2>1
      <3>2. params.env[k] \in Nat
        BY <1>1, <3>1
      <3> QED
        BY <1>3, <2>1, <3>2
    <2> QED
      BY <1>1, <2>1, <2>3, <2>4, <2>5, InStackInv DEF Stacking
  <1>12. CASE EnvpEnds
    <2>1. /\ InStack("envp") /\ k > envc /\ at' = "auxv" /\ k' = 1 /\ p' = p
          /\ params' = params /\ at = "envp" /\ Write(0)
      BY <1>12 DEF EnvpEnds, Leave, InStack
    <2>2. avail(W)
      BY <1>2, <2>1 DEF WritesFit
    <2>3. off' = off + 4 /\ off' \in 0..stack.size /\ DOMAIN mem' \subseteq 0..(stack.size - 1)
      BY <2>1, <2>2, WordLemma
    <2>4. Placed'
      <3>1. k = envc + 1 /\ off = start + 16 + 4 * argc + 4 * (k - 1)
        BY <1>1, <1>2, <2>1 DEF Placed
      <3>2. k' \in 1..(2 * aux + 1) /\ off' = start + 20 + 4 * argc + 4 * envc + 4 * (k' - 1)
        BY <1>1, <2>1, <2>3, <3>1
      <3> QED
        BY <1>4, <1>5, <2>1, <3>2, Zenon DEF Placed
    <2> QED
      BY <1>1, <2>1, <2>3, <2>4, InStackInv DEF Stacking
  <1>13. CASE AuxWord
    <2>1. /\ InStack("auxv") /\ k <= aux * 2 /\ at' = "auxv" /\ k' = k + 1 /\ p' = p
          /\ params' = params /\ at = "auxv" /\ Write(1)
      BY <1>13 DEF AuxWord, Turn, InStack, aux
    <2>2. avail(W)
      BY <1>2, <2>1 DEF WritesFit
    <2>3. off' = off + 4 /\ off' \in 0..stack.size /\ DOMAIN mem' \subseteq 0..(stack.size - 1)
      BY <2>1, <2>2, WordLemma
    <2>4. Placed'
      <3>1. /\ k \in 1..(2 * aux + 1)
            /\ off = start + 20 + 4 * argc + 4 * envc + 4 * (k - 1)
        BY <1>2, <2>1 DEF Placed, aux
      <3>2. k' \in 1..(2 * aux + 1) /\ off' = start + 20 + 4 * argc + 4 * envc + 4 * (k' - 1)
        BY <1>1, <2>1, <2>3, <3>1
      <3> QED
        BY <1>4, <1>5, <2>1, <3>2, Zenon DEF Placed
    <2> QED
      BY <1>6, <2>1, <2>3, <2>4, InStackInv DEF Stacking
  <1>14. CASE AuxvEnds
    <2>1. /\ InStack("auxv") /\ k > aux * 2 /\ at' = "args" /\ k' = 1 /\ p' = p
          /\ params' = params /\ at = "auxv" /\ Write(0)
      BY <1>14 DEF AuxvEnds, Leave, InStack, aux
    <2>2. avail(W)
      BY <1>2, <2>1 DEF WritesFit
    <2>3. off' = off + 4 /\ off' \in 0..stack.size /\ DOMAIN mem' \subseteq 0..(stack.size - 1)
      BY <2>1, <2>2, WordLemma
    <2>4. Placed'
      <3>1. /\ k \in 1..(2 * aux + 1)
            /\ off = start + 20 + 4 * argc + 4 * envc + 4 * (k - 1)
        BY <1>2, <2>1 DEF Placed, aux
      <3>2. k = 2 * aux + 1
        BY <1>6, <2>1, <3>1
      <3>3. k' - 1 = 0 /\ upTo(params.arg)[k' - 1] = 0 /\ params'.arg = params.arg
        BY <1>1, <2>1
      <3>4. k' \in 1..(argc + 1) /\ off' = start + arg_s + 0 - 0
        <4>1. off' = start + 24 + 4 * argc + 4 * envc + 8 * aux
          BY <1>1, <2>3, <3>1, <3>2
        <4> QED
          BY <1>1, <2>1, <4>1
      <3> QED
        BY <1>4, <2>1, <3>3, <3>4 DEF Placed
    <2> QED
      BY <1>1, <2>1, <2>3, <2>4, InStackInv DEF Stacking
  <1> QED
    BY <1>7, <1>8, <1>9, <1>10, <1>11, <1>12, <1>13, <1>14

\* Of a string that is written, the cursor leaves the byte that ends it behind:
\* it is k - 1 bytes below what is summed.
LEMMA StringsWritten ==
  ASSUME IInv, StackInv, ArgString \/ ArgsEnd \/ EnvString \/ EnvsEnd
  PROVE  StackInv'
  <1> DEFINE S == upTo(params.arg)
             E == upTo(params.env)
  <1>1. /\ Types /\ argc \in Nat /\ envc \in Nat /\ arg_s \in Nat /\ env_s \in Nat /\ start \in Int
        /\ env_s = arg_s + S[argc]
        /\ params.arg \in Seq(Nat) /\ params.env \in Seq(Nat)
    <2>1. Types
      BY DEF IInv
    <2>2. size \in Nat /\ isize \in Nat
      BY <2>1, SizesLemma
    <2> QED
      BY <2>1, <2>2, SizesLemma DEF start
  <1>2. /\ \A n \in 0..argc : S[n] \in Nat
        /\ \A n \in 0..envc : E[n] \in Nat
        /\ \A n \in 1..argc : S[n] = S[n - 1] + params.arg[n] + 1 /\ params.arg[n] \in Nat
        /\ \A n \in 1..envc : E[n] = E[n - 1] + params.env[n] + 1 /\ params.env[n] \in Nat
        /\ E[0] = 0
    <2>1. argc = Len(params.arg) /\ envc = Len(params.env)
      BY DEF argc, envc
    <2>2. /\ \A n \in 1..Len(params.arg) : params.arg[n] \in Nat
          /\ \A n \in 1..Len(params.env) : params.env[n] \in Nat
      BY <1>1
    <2>3. /\ \A n \in 0..argc : S[n] \in Nat
          /\ \A n \in 1..argc : S[n] = S[n - 1] + params.arg[n] + 1 /\ params.arg[n] \in Nat
      BY <1>1, <2>1, <2>2, SumsLemma
    <2>4. /\ \A n \in 0..envc : E[n] \in Nat
          /\ \A n \in 1..envc : E[n] = E[n - 1] + params.env[n] + 1 /\ params.env[n] \in Nat
          /\ E[0] = 0
      BY <1>1, <2>1, <2>2, SumsLemma
    <2> QED
      BY <2>3, <2>4
  <1>3. WritesFit /\ Placed /\ k \in Nat \ {0} /\ p \in 0..(Mod32 - 1)
    BY <1>1, FitsLemma DEF StackInv
  <1>4. params' = params => /\ argc' = argc /\ envc' = envc /\ upTo(params'.arg) = S
                            /\ upTo(params'.env) = E
                            /\ start' = start /\ arg_s' = arg_s /\ env_s' = env_s
    BY SameSizes
  <1>5. k + 1 \in Nat \ {0} /\ 1 \in Nat \ {0}
    BY <1>3
  <1>6. CASE ArgString
    <2>1. /\ InStack("args") /\ k <= argc /\ at' = "args" /\ k' = k + 1 /\ p' = p
          /\ params' = params /\ at = "args" /\ WriteString("arg", k, params.arg[k])
      BY <1>6 DEF ArgString, Turn, InStack
    <2>2. k \in 1..argc /\ k - 1 \in 0..argc /\ k \in 0..argc
      BY <1>1, <1>3, <2>1
    <2>3. avail(params.arg[k] + 1) /\ params.arg[k] \in Nat
      BY <1>2, <1>3, <2>1, <2>2 DEF WritesFit
    <2>4. /\ off' = off + params.arg[k] /\ off' \in 0..stack.size
          /\ DOMAIN mem' \subseteq 0..(stack.size - 1)
      BY <2>1, <2>3, StringLemma
    <2>5. off = start + arg_s + S[k - 1] - (k - 1)
      BY <1>3, <2>1 DEF Placed
    <2>6. S[k] = S[k - 1] + params.arg[k] + 1 /\ S[k] \in Nat /\ S[k - 1] \in Nat
      BY <1>2, <2>2
    <2> DEFINE n == params.arg[k]
               x == S[k - 1]
               y == S[k]
    <2>7. /\ off' = off + n /\ off = start + arg_s + x - (k - 1) /\ y = x + n + 1
          /\ n \in Nat /\ x \in Nat /\ y \in Nat
      BY <2>3, <2>4, <2>5, <2>6
    <2> HIDE DEF n, x, y
    <2>8. off' = start + arg_s + y - k
      <3>1. /\ start \in Int /\ arg_s \in Nat /\ k \in Nat
        BY <1>1, <1>3
      <3> QED
        BY <2>7, <3>1
    <2>9. k' - 1 = k /\ k' \in 1..(argc + 1)
      BY <1>1, <2>1, <2>2
    <2> HIDE DEF S, E
    <2>10. Placed'
      BY <1>4, <2>1, <2>8, <2>9, Zenon DEF Placed, y
    <2> QED
      BY <1>3, <1>5, <2>1, <2>4, <2>10, InStackInv DEF Stacking
  <1>7. CASE ArgsEnd
    <2>1. /\ InStack("args") /\ k > argc /\ at' = "envs" /\ k' = 1 /\ p' = p
          /\ params' = params /\ at = "args" /\ off' = off /\ mem' = mem
      BY <1>7 DEF ArgsEnd, Leave, InStack
    <2>2. k = argc + 1 /\ k - 1 = argc /\ off = start + arg_s + S[k - 1] - (k - 1)
      BY <1>1, <1>3, <2>1 DEF Placed
    <2> DEFINE a == S[argc]
    <2>3. a \in Nat /\ env_s = arg_s + a /\ off = start + arg_s + a - argc
      <3>1. argc \in 0..argc
        BY <1>1
      <3> QED
        BY <1>1, <1>2, <2>2, <3>1
    <2> HIDE DEF a
    <2>4. off' = start + env_s - argc + 0 - 0
      BY <1>1, <2>1, <2>3
    <2>5. k' - 1 = 0 /\ E[k' - 1] = 0 /\ k' \in 1..(envc + 1)
      BY <1>1, <1>2, <2>1
    <2> HIDE DEF S, E
    <2>6. Placed'
      BY <1>4, <2>1, <2>4, <2>5 DEF Placed
    <2>7. off' \in 0..stack.size /\ DOMAIN mem' \subseteq 0..(stack.size - 1)
      BY <2>1 DEF StackInv
    <2> QED
      BY <1>3, <1>5, <2>1, <2>6, <2>7, InStackInv DEF Stacking
  <1>8. CASE EnvString
    <2>1. /\ InStack("envs") /\ k <= envc /\ at' = "envs" /\ k' = k + 1 /\ p' = p
          /\ params' = params /\ at = "envs" /\ WriteString("env", k, params.env[k])
      BY <1>8 DEF EnvString, Turn, InStack
    <2>2. k \in 1..envc /\ k - 1 \in 0..envc /\ k \in 0..envc
      BY <1>1, <1>3, <2>1
    <2>3. avail(params.env[k] + 1) /\ params.env[k] \in Nat
      BY <1>2, <1>3, <2>1, <2>2 DEF WritesFit
    <2>4. /\ off' = off + params.env[k] /\ off' \in 0..stack.size
          /\ DOMAIN mem' \subseteq 0..(stack.size - 1)
      BY <2>1, <2>3, StringLemma
    <2>5. off = start + env_s - argc + E[k - 1] - (k - 1)
      BY <1>3, <2>1 DEF Placed
    <2>6. E[k] = E[k - 1] + params.env[k] + 1 /\ E[k] \in Nat /\ E[k - 1] \in Nat
      BY <1>2, <2>2
    <2> DEFINE n == params.env[k]
               x == E[k - 1]
               y == E[k]
    <2>7. /\ off' = off + n /\ off = start + env_s - argc + x - (k - 1) /\ y = x + n + 1
          /\ n \in Nat /\ x \in Nat /\ y \in Nat
      BY <2>3, <2>4, <2>5, <2>6
    <2> HIDE DEF n, x, y
    <2>8. off' = start + env_s - argc + y - k
      <3>1. /\ start \in Int /\ env_s \in Nat /\ argc \in Nat /\ k \in Nat
        BY <1>1, <1>3
      <3> QED
        BY <2>7, <3>1
    <2>9. k' - 1 = k /\ k' \in 1..(envc + 1)
      BY <1>1, <2>1, <2>2
    <2> HIDE DEF S, E
    <2>10. Placed'
      BY <1>4, <2>1, <2>8, <2>9, Zenon DEF Placed, y
    <2> QED
      BY <1>3, <1>5, <2>1, <2>4, <2>10, InStackInv DEF Stacking
  <1>9. CASE EnvsEnd
    <2>1. /\ at' = "idle" /\ params' = params /\ stackVars' = stackVars
      BY <1>9 DEF EnvsEnd, InStack, Return, stackVars
    <2> QED
      BY <2>1, ElsewhereStack DEF Stacking
  <1> QED
    BY <1>6, <1>7, <1>8, <1>9

LEMMA StackStep == IInv /\ StackInv /\ [Next]_vars => StackInv'
  <1> SUFFICES ASSUME IInv, StackInv, [Next]_vars PROVE StackInv'
    OBVIOUS
  <1>1. CASE UNCHANGED vars
    <2>1. /\ params' = params /\ at' = at /\ stack' = stack /\ off' = off /\ k' = k /\ p' = p /\ mem' = mem
      BY <1>1 DEF vars, stackVars
    <2>2. /\ argc' = argc /\ envc' = envc /\ size' = size /\ uparams' = uparams
          /\ arg_s' = arg_s /\ env_s' = env_s /\ isize' = isize /\ start' = start
      BY <2>1, SameSizes
    <2>3. Placed'
      BY <2>1, <2>2 DEF StackInv, Placed
    <2> QED
      BY <2>1, <2>2, <2>3 DEF StackInv
  <1>2. CASE Build \/ LoadUnit \/ LoadUnitThrows \/ LoadHeader \/ LoadHeaderThrows \/ LoadReturns
             \/ StackTooSmall
    <2>1. params' = params /\ stackVars' = stackVars
      BY <1>2 DEF Build, LoadUnit, LoadUnitThrows, LoadHeader, LoadHeaderThrows, LoadReturns,
                  StackTooSmall
    <2>2. at' \in {"idle", "units", "headers"}
      BY <1>2 DEF Build, LoadUnit, LoadUnitThrows, LoadHeader, LoadHeaderThrows, LoadReturns,
                  StackTooSmall
    <2> QED
      BY <2>1, <2>2, ElsewhereStack DEF Stacking
  <1>3. CASE StackSkipped \/ StackAllocated
    BY <1>3, StackBegins
  <1>4. CASE MainWord \/ MainEnds \/ ArgPointer \/ ArgvEnds \/ EnvPointer \/ EnvpEnds \/ AuxWord
             \/ AuxvEnds
    BY <1>4, TablesWritten
  <1>5. CASE ArgString \/ ArgsEnd \/ EnvString \/ EnvsEnd
    BY <1>5, StringsWritten
  <1> QED
    BY <1>1, <1>2, <1>3, <1>4, <1>5 DEF Next, Steps

(***************************************************************************)
(* The stack in its image.                                                 *)
(***************************************************************************)
\* The stack is the last segment of the image under way, and of the one returned.
Stacks ==
  \/ at \in Stacking
  \/ at = "idle" /\ im > 0 /\ images[im].built /\ stack # NoStack
Last(segs) ==
  /\ segs # <<>> /\ segs[Len(segs)].base = stack.base /\ segs[Len(segs)].size = stack.size
  /\ isize <= stack.size /\ size = stack.size
Topmost ==
  /\ Stacks => Last(images[im].segs)
  /\ at # "idle" => im > 0 /\ ~images[im].built

LEMMA EditLemma ==
  ASSUME NEW r \in ImageRecords, NEW w, NEW b
  PROVE  /\ [r EXCEPT !.segs = w].built = r.built /\ [r EXCEPT !.segs = w].segs = w
         /\ [r EXCEPT !.built = b].segs = r.segs /\ r.segs \in Seq(SegmentRecords)
  BY DEF ImageRecords

LEMMA TopmostWritten ==
  ASSUME StackInv, Topmost, WriteSteps
  PROVE  Topmost'
  <1>1. /\ at \in Stacking /\ at' \in Stacking /\ images' = images /\ stack' = stack /\ params' = params
    <2>1. CASE MainWord \/ MainEnds \/ ArgPointer \/ ArgvEnds \/ EnvPointer \/ EnvpEnds
      BY <2>1 DEF MainWord, MainEnds, ArgPointer, ArgvEnds, EnvPointer, EnvpEnds, InStack, Turn, Leave,
                  Stacking
    <2>2. CASE AuxWord \/ AuxvEnds \/ ArgString \/ ArgsEnd \/ EnvString
      BY <2>2 DEF AuxWord, AuxvEnds, ArgString, ArgsEnd, EnvString, InStack, Turn, Leave, Stacking
    <2> QED
      BY <2>1, <2>2 DEF WriteSteps
  <1>2. im' = im /\ isize' = isize /\ size' = size /\ at # "idle" /\ at' # "idle"
    BY <1>1, SameSizes DEF im, Stacking
  <1>3. Last(images[im].segs)
    BY <1>1 DEF Topmost, Stacks
  <1>4. Last(images[im].segs)'
    BY <1>1, <1>2, <1>3 DEF Last
  <1> QED
    BY <1>1, <1>2, <1>4 DEF Topmost

\* Before the stack is there.
LEMMA TopmostLoads ==
  ASSUME IInv, Topmost,
         Build \/ LoadUnit \/ LoadUnitThrows \/ LoadHeader \/ LoadHeaderThrows \/ LoadReturns \/ StackTooSmall
  PROVE  Topmost'
  <1>1. CASE Build
    <2>1. /\ images \in Seq(ImageRecords) /\ images' = Append(images, [segs |-> <<>>, built |-> FALSE])
          /\ at' = "units"
      BY <1>1 DEF IInv, Types, Build
    <2> DEFINE empty == [segs |-> <<>>, built |-> FALSE]
    <2>2. empty.built = FALSE
      OBVIOUS
    <2> HIDE DEF empty
    <2>3. im' = im + 1 /\ im \in Nat /\ images'[im + 1] = empty
      BY <2>1 DEF im, empty
    <2>4. im' > 0 /\ ~images'[im'].built
      BY <2>2, <2>3
    <2> QED
      BY <2>1, <2>4 DEF Topmost, Stacks, Stacking
  <1>2. CASE LoadUnit \/ LoadReturns \/ LoadUnitThrows \/ LoadHeaderThrows \/ StackTooSmall
    <2>1. at # "idle" /\ at' \in {"idle", "units", "headers"} /\ images' = images
      BY <1>2 DEF LoadUnit, LoadReturns, LoadUnitThrows, LoadHeaderThrows, StackTooSmall
    <2> QED
      BY <2>1 DEF Topmost, Stacks, Stacking, im
  <1>3. CASE LoadHeader
    <2>1. at = "headers" /\ at' = "headers" /\ prog' = prog
      BY <1>3 DEF LoadHeader
    <2>2. im' = im /\ im > 0 /\ ~images'[im].built
      <3>1. CASE images' = images
        BY <2>1, <3>1 DEF Topmost, im
      <3>2. CASE images' # images
        <4>1. /\ Types /\ h \in DOMAIN headers /\ headers[h].type = "PT_LOAD" /\ im > 0 /\ ~images[im].built
              /\ h \in DOMAIN prog /\ headers[h] = prog[h] /\ table # "failed"
          <5>1. Types /\ h \in Nat \ {0} /\ h <= Len(headers) /\ im > 0 /\ ~images[im].built
            BY <1>3, <2>1 DEF IInv, Types, Topmost, LoadHeader
          <5>2. headers = IF table = "failed" THEN <<>> ELSE prog
            BY DEF headers
          <5>3. table # "failed" /\ DOMAIN prog = 1..Len(prog) /\ Len(prog) \in Nat
            BY <5>1, <5>2, LastLemma
          <5>4. headers[h].type = "PT_LOAD"
            BY <1>3, <3>2 DEF LoadHeader
          <5> QED
            BY <5>1, <5>2, <5>3, <5>4
        <4>2. PICK s : AddSegment(s) /\ s = [base |-> todo[unit] + headers[h].vaddr, size |-> headers[h].memsz,
                         unit |-> unit, header |-> h, bytes |-> readBuf(headers[h])]
          BY <1>3, <4>1 DEF LoadHeader
        <4>3. images' = [images EXCEPT ![im] = [images[im] EXCEPT !.segs = Append(images[im].segs, s)]]
          BY <4>2 DEF AddSegment
        <4>4. images \in Seq(ImageRecords) /\ im \in DOMAIN images /\ images[im] \in ImageRecords
          BY <4>1 DEF Types, im
        <4>5. images'[im].built = images[im].built /\ Len(images') = Len(images)
          <5> DEFINE new == [images[im] EXCEPT !.segs = Append(images[im].segs, s)]
          <5>1. new.built = images[im].built
            BY <4>4, EditLemma
          <5> HIDE DEF new
          <5>2. images' = [images EXCEPT ![im] = new]
            BY <4>3 DEF new
          <5> QED
            BY <4>4, <5>1, <5>2
        <4> QED
          BY <4>1, <4>5 DEF im
      <3> QED
        BY <3>1, <3>2
    <2> QED
      BY <2>1, <2>2 DEF Topmost, Stacks, Stacking
  <1> QED
    BY <1>1, <1>2, <1>3

LEMMA TopmostAllocated ==
  ASSUME IInv, StackInv, Topmost, StackAllocated
  PROVE  Topmost'
  <1> DEFINE addr == ((IF params.stack_at THEN params.stack_addr ELSE StackTop) + Mod64 - size) % Mod64
             s == [base |-> addr, size |-> size, unit |-> 0, header |-> 0, bytes |-> <<>>]
             segs == images[im].segs
             new == [images[im] EXCEPT !.segs = Append(segs, s)]
  <1>1. /\ at = "units" /\ at' = "main" /\ AddSegment(s) /\ stack' = [base |-> addr, size |-> size]
        /\ size >= isize /\ params' = params
    BY DEF StackAllocated
  <1>2. /\ images \in Seq(ImageRecords) /\ im \in DOMAIN images /\ ~images[im].built
        /\ images[im] \in ImageRecords /\ size \in Nat /\ isize \in Nat
    <2>1. Types /\ im > 0 /\ ~images[im].built
      BY <1>1 DEF IInv, Topmost
    <2>2. size \in Nat /\ isize \in Nat
      BY <2>1, SizesLemma
    <2>3. images \in Seq(ImageRecords)
      BY <2>1 DEF Types
    <2> QED
      BY <2>1, <2>2, <2>3 DEF im
  <1>3. images' = [images EXCEPT ![im] = new]
    BY <1>1 DEF AddSegment
  <1> HIDE DEF s
  <1>4. new.segs = Append(segs, s) /\ ~new.built /\ segs \in Seq(SegmentRecords)
    BY <1>2, EditLemma
  <1> HIDE DEF new
  <1>5. im' = im /\ images'[im] = new
    BY <1>2, <1>3 DEF im
  <1>6. new.segs # <<>> /\ new.segs[Len(new.segs)] = s
    <2> HIDE DEF segs
    <2>1. Len(Append(segs, s)) = Len(segs) + 1 /\ Len(segs) \in Nat
      BY <1>4
    <2>2. Append(segs, s)[Len(segs) + 1] = s
      BY <1>4
    <2> QED
      BY <1>4, <2>1, <2>2
  <1>7. isize' = isize /\ size' = size
    BY <1>1, SameSizes
  <1>8. s.base = stack'.base /\ s.size = stack'.size /\ isize <= stack'.size /\ stack'.size = size
    BY <1>1, <1>2 DEF s
  <1>9. Last(images[im].segs)'
    BY <1>5, <1>6, <1>7, <1>8 DEF Last
  <1> QED
    BY <1>1, <1>2, <1>4, <1>5, <1>9 DEF Topmost, im

LEMMA TopmostStep == IInv /\ StackInv /\ Topmost /\ [Next]_vars => Topmost'
  <1> SUFFICES ASSUME IInv, StackInv, Topmost, [Next]_vars PROVE Topmost'
    OBVIOUS
  <1>1. CASE UNCHANGED vars
    <2>1. params' = params /\ at' = at /\ stack' = stack /\ images' = images
      BY <1>1 DEF vars, stackVars
    <2>2. isize' = isize /\ size' = size /\ im' = im
      BY <2>1, SameSizes DEF im
    <2> QED
      BY <2>1, <2>2 DEF Topmost, Stacks, Last
  <1>2. CASE Build \/ LoadUnit \/ LoadUnitThrows \/ LoadHeader \/ LoadHeaderThrows \/ LoadReturns
             \/ StackTooSmall
    BY <1>2, TopmostLoads
  <1>3. CASE StackSkipped
    <2>1. at' = "idle" /\ stack' = NoStack
      BY <1>3 DEF StackSkipped, Return
    <2> QED
      BY <2>1 DEF Topmost, Stacks, Stacking
  <1>4. CASE StackAllocated
    BY <1>4, TopmostAllocated
  <1>5. CASE WriteSteps
    BY <1>5, TopmostWritten
  <1>6. CASE EnvsEnd
    <2>1. /\ at = "envs" /\ at' = "idle" /\ stack' = stack /\ params' = params
          /\ images' = [images EXCEPT ![im] = [images[im] EXCEPT !.built = TRUE]]
      BY <1>6 DEF EnvsEnd, InStack, Return
    <2>2. Last(images[im].segs) /\ im > 0
      BY <2>1 DEF Topmost, Stacks, Stacking
    <2>3. images \in Seq(ImageRecords) /\ im \in DOMAIN images /\ images[im] \in ImageRecords
      BY <2>2 DEF IInv, Types, im
    <2>4. images'[im].segs = images[im].segs /\ im' = im
      BY <2>1, <2>3 DEF ImageRecords, im
    <2>5. isize' = isize /\ size' = size
      BY <2>1, SameSizes
    <2>6. Last(images[im].segs)'
      BY <2>1, <2>2, <2>4, <2>5 DEF Last
    <2> QED
      BY <2>1, <2>6 DEF Topmost
  <1> QED
    BY <1>1, <1>2, <1>3, <1>4, <1>5, <1>6 DEF Next, Steps, WriteSteps

\* A segment that contains an address and does not end at 0 holds it.
LEMMA ContainsLemma ==
  ASSUME NEW s, s.base \in Nat, s.size \in Nat, s.base + s.size # 0, NEW a \in Nat
  PROVE  /\ contains(s, a) => s.base <= a /\ a < s.base + s.size
         /\ s.base <= a /\ a < s.base + s.size /\ s.base + s.size <= Mod64 => contains(s, a)
  <1> DEFINE x == s.base + s.size - 1
  <1>1. x \in Nat /\ Mod64 \in Nat \ {0}
    BY SizesAssumption
  <1>2. contains(s, a) <=> s.base <= a /\ a <= (x + Mod64) % Mod64
    BY <1>1 DEF contains
  <1>3. (x + Mod64) % Mod64 <= x /\ (x < Mod64 => (x + Mod64) % Mod64 = x)
    <2> HIDE DEF x
    <2>1. /\ x \in Nat /\ Mod64 \in Nat \ {0}
      BY <1>1
    <2> DEFINE r == (x + Mod64) % Mod64
               q == (x + Mod64) \div Mod64
    <2>2. /\ r \in 0..(Mod64 - 1) /\ q \in Nat /\ x + Mod64 = Mod64 * q + r
      BY <2>1
    <2> HIDE DEF r, q
    <2>3. q >= 1
      <3>1. q = 0 => Mod64 * q = 0
        BY <2>1
      <3> QED
        BY <2>1, <2>2, <3>1
    <2> DEFINE d == q - 1
    <2>4. d \in Nat /\ q = 1 + d /\ Mod64 * q = Mod64 + Mod64 * d /\ Mod64 * d \in Nat
      BY <2>1, <2>2, <2>3
    <2> HIDE DEF d
    <2>5. x = Mod64 * d + r
      BY <2>1, <2>2, <2>4
    <2>6. d = 0 \/ Mod64 * d >= Mod64
      <3>1. CASE d >= 1
        <4> DEFINE e == d - 1
        <4>1. e \in Nat /\ d = e + 1
          BY <2>4, <3>1
        <4> HIDE DEF e
        <4>2. Mod64 * d = Mod64 * e + Mod64 /\ Mod64 * e \in Nat
          BY <2>1, <4>1
        <4> QED
          BY <2>1, <4>2
      <3> QED
        BY <2>4, <3>1
    <2>7. d = 0 => Mod64 * d = 0
      BY <2>1
    <2> QED
      BY <2>1, <2>2, <2>4, <2>5, <2>6, <2>7 DEF r
  <1> QED
    BY <1>1, <1>2, <1>3

(***************************************************************************)
(* The segments, each of a header or of the stack.                         *)
(***************************************************************************)
SegmentOf(pr, units, s) ==
  /\ s.base \in Nat /\ s.size \in Nat
  /\ \/ s.unit = 0 /\ s.header = 0 /\ s.bytes = <<>>
     \/ /\ s.unit \in 1..units /\ s.header \in DOMAIN pr
        /\ s.size = pr[s.header].memsz /\ s.bytes \in Content(s.size)

Known ==
  /\ cached \subseteq DOMAIN prog /\ faults \in 0..MaxFaults
  /\ \A n \in DOMAIN images : \A m \in DOMAIN images[n].segs :
       SegmentOf(prog, Len(todo), images[n].segs[m])

\* What is read for a header is as long as the header is in memory.
LEMMA BufLemma ==
  ASSUME NEW hd, Header(hd)
  PROVE  hd.memsz \in Nat /\ readBuf(hd) \in Content(hd.memsz)
  BY DEF Header, readBuf, Content

\* One segment more in some images, or none.
LEMMA KnownMore ==
  ASSUME Types, Known, prog' = prog, Len(todo') = Len(todo),
         cached' \subseteq DOMAIN prog, faults' \in 0..MaxFaults, DOMAIN images' = DOMAIN images,
         \A n \in DOMAIN images :
           \/ images'[n].segs = images[n].segs
           \/ \E s \in SegmentRecords : /\ images'[n].segs = Append(images[n].segs, s)
                                        /\ SegmentOf(prog, Len(todo), s)
  PROVE  Known'
  <1>1. ASSUME NEW n \in DOMAIN images, NEW m \in DOMAIN images'[n].segs
        PROVE  SegmentOf(prog, Len(todo), images'[n].segs[m])
    <2>1. CASE images'[n].segs = images[n].segs
      BY <1>1, <2>1 DEF Known
    <2>2. CASE images'[n].segs # images[n].segs
      <3> DEFINE segs == images[n].segs
      <3>1. PICK s \in SegmentRecords : /\ images'[n].segs = Append(segs, s)
                                        /\ SegmentOf(prog, Len(todo), s)
        BY <2>2
      <3>2. segs \in Seq(SegmentRecords)
        BY LastLemma
      <3>3. \A i \in DOMAIN segs : SegmentOf(prog, Len(todo), segs[i])
        BY DEF Known
      <3> HIDE DEF segs
      <3>4. m \in DOMAIN Append(segs, s)
        BY <1>1, <3>1
      <3>5. /\ m \in DOMAIN segs /\ Append(segs, s)[m] = segs[m]
            \/ Append(segs, s)[m] = s
        BY <3>2, <3>4
      <3> QED
        BY <3>1, <3>3, <3>5
    <2> QED
      BY <2>1, <2>2
  <1> QED
    BY <1>1 DEF Known

LEMMA KnownLoads == IInv /\ Known /\ (LoadHeader \/ StackAllocated) => Known'
  <1> SUFFICES ASSUME IInv, Known, LoadHeader \/ StackAllocated PROVE Known'
    OBVIOUS
  <1>1. Types /\ BuiltWhole
    BY DEF IInv
  <1>2. CASE LoadHeader
    <2>1. /\ at = "headers" /\ h <= Len(headers) /\ prog' = prog /\ todo' = todo /\ faults' = faults
      BY <1>2 DEF LoadHeader
    <2>2. /\ headers = prog /\ h \in DOMAIN prog /\ Header(prog[h]) /\ im \in DOMAIN images
          /\ Len(images) > 0 /\ unit \in 1..Len(todo) /\ todo[unit] \in Nat
      <3>1. h \in Nat \ {0} /\ Len(images) > 0 /\ im \in DOMAIN images /\ unit \in 1..Len(todo)
        BY <1>1, <2>1, LastLemma DEF Types
      <3>2. todo \in Seq(0..(Mod32 - 1)) /\ Mod32 \in Nat
        BY <1>1, PageLemma DEF Types
      <3>3. todo[unit] \in Nat
        BY <3>1, <3>2
      <3>4. table # "failed"
        BY <2>1, <3>1 DEF headers
      <3> QED
        BY <1>1, <2>1, <3>1, <3>3, <3>4, LastLemma DEF headers
    <2> DEFINE hd == prog[h]
               s == [base |-> todo[unit] + hd.vaddr, size |-> hd.memsz, unit |-> unit,
                     header |-> h, bytes |-> readBuf(hd)]
    <2>3. CASE hd.type = "PT_LOAD"
      <3>1. AddSegment(s) /\ cached' = cached \cup {h}
        BY <1>2, <2>2, <2>3 DEF LoadHeader
      <3>2. hd.vaddr \in Nat /\ hd.memsz \in Nat /\ readBuf(hd) \in Content(hd.memsz)
        BY <2>2, BufLemma DEF Header
      <3>3. readBuf(hd) \in Contents
        BY <2>2 DEF Contents
      <3>4. unit \in Nat /\ h \in Nat
        BY <1>1 DEF Types
      <3>5. s \in SegmentRecords
        BY <2>2, <3>2, <3>3, <3>4 DEF SegmentRecords
      <3>6. SegmentOf(prog, Len(todo), s)
        <4>1. s.base \in Nat
          BY <2>2, <3>2
        <4> QED
          BY <2>2, <3>2, <4>1 DEF SegmentOf
      <3> HIDE DEF s
      <3>7. /\ DOMAIN images' = DOMAIN images /\ images'[im].segs = Append(images[im].segs, s)
            /\ \A n \in DOMAIN images : n # im => images'[n].segs = images[n].segs
        BY <1>1, <2>1, <2>2, <3>1, <3>5, AddLemma
      <3>8. cached' \subseteq DOMAIN prog
        BY <2>2, <3>1 DEF Known
      <3>9. faults' \in 0..MaxFaults
        BY <2>1 DEF Known
      <3> QED
        BY <1>1, <2>1, <3>5, <3>6, <3>7, <3>8, <3>9, KnownMore
    <2>4. CASE hd.type # "PT_LOAD"
      <3>1. images' = images /\ cached' = cached
        BY <1>2, <2>2, <2>4 DEF LoadHeader
      <3> QED
        BY <2>1, <3>1 DEF Known
    <2> QED
      BY <2>3, <2>4
  <1>3. CASE StackAllocated
    <2> DEFINE addr == ((IF params.stack_at THEN params.stack_addr ELSE StackTop) + Mod64 - size) % Mod64
               s == [base |-> addr, size |-> size, unit |-> 0, header |-> 0, bytes |-> <<>>]
    <2>1. /\ at = "units" /\ AddSegment(s) /\ prog' = prog /\ todo' = todo /\ cached' = cached
          /\ faults' = faults
      BY <1>3 DEF StackAllocated, fileVars, loadVars
    <2>2. addr \in Nat /\ size \in Nat
      <3>1. size \in Nat /\ params.stack_addr \in Nat /\ StackTop \in Nat /\ Mod64 \in Nat \ {0}
        BY <1>1, PageLemma, SizesAssumption DEF size
      <3> QED
        BY <3>1
    <2> HIDE DEF addr
    <2>3. s \in SegmentRecords /\ SegmentOf(prog, Len(todo), s)
      BY <2>2 DEF SegmentRecords, Contents, SegmentOf
    <2> HIDE DEF s
    <2>4. Len(images) > 0 /\ im \in DOMAIN images
      BY <1>1, <2>1, LastLemma DEF Types
    <2>5. /\ DOMAIN images' = DOMAIN images /\ images'[im].segs = Append(images[im].segs, s)
          /\ \A n \in DOMAIN images : n # im => images'[n].segs = images[n].segs
      BY <1>1, <2>1, <2>3, <2>4, AddLemma
    <2>6. cached' \subseteq DOMAIN prog /\ faults' \in 0..MaxFaults
      BY <2>1 DEF Known
    <2> QED
      BY <1>1, <2>1, <2>3, <2>5, <2>6, KnownMore
  <1> QED
    BY <1>2, <1>3

LEMMA KnownStep == IInv /\ Known /\ [Next]_vars => Known'
  <1> SUFFICES ASSUME IInv, Known, [Next]_vars PROVE Known'
    OBVIOUS
  <1>1. Types
    BY DEF IInv
  <1>2. CASE Build
    <2> DEFINE new == [segs |-> <<>>, built |-> FALSE]
    <2>1. /\ images' = Append(images, new) /\ todo' = Append(todo, 0) /\ prog' = prog
          /\ cached' = cached /\ faults' = faults
      BY <1>2 DEF Build, fileVars
    <2>2. new.segs = <<>>
      OBVIOUS
    <2> HIDE DEF new
    <2>3. /\ DOMAIN images' = DOMAIN images \cup {Len(images) + 1}
          /\ images'[Len(images) + 1] = new /\ \A n \in DOMAIN images : images'[n] = images[n]
      BY <1>1, <2>1 DEF Types
    <2>4. Len(todo') = Len(todo) + 1 /\ Len(todo) \in Nat
      BY <1>1, <2>1 DEF Types
    <2>5. ASSUME NEW s, SegmentOf(prog, Len(todo), s) PROVE SegmentOf(prog, Len(todo) + 1, s)
      BY <2>4, <2>5 DEF SegmentOf
    <2> QED
      BY <2>1, <2>2, <2>3, <2>4, <2>5 DEF Known
  <1>3. CASE LoadUnit
    <2>1. /\ prog' = prog /\ images' = images /\ cached' = cached /\ faults' = faults
          /\ Len(todo') = Len(todo)
      BY <1>1, <1>3 DEF LoadUnit, Types
    <2> QED
      BY <2>1 DEF Known
  <1>4. CASE LoadUnitThrows \/ LoadHeaderThrows
    <2>1. /\ prog' = prog /\ images' = images /\ cached' = cached /\ Len(todo') = Len(todo) /\ Fails
      BY <1>1, <1>4 DEF LoadUnitThrows, LoadHeaderThrows, loadVars, Types
    <2>2. faults' \in 0..MaxFaults
      BY <2>1, SizesAssumption DEF Fails, Known
    <2> QED
      BY <2>1, <2>2 DEF Known
  <1>5. CASE LoadHeader \/ StackAllocated
    BY <1>5, KnownLoads
  <1>6. CASE LoadReturns \/ StackTooSmall \/ UNCHANGED vars
    <2>1. prog' = prog /\ images' = images /\ cached' = cached /\ faults' = faults /\ todo' = todo
      BY <1>6 DEF LoadReturns, StackTooSmall, vars, fileVars, loadVars
    <2> QED
      BY <2>1 DEF Known
  <1>7. CASE WriteSteps
    <2>1. prog' = prog /\ images' = images /\ cached' = cached /\ faults' = faults /\ todo' = todo
      <3>1. CASE MainWord \/ MainEnds \/ ArgPointer \/ ArgvEnds \/ EnvPointer \/ EnvpEnds
        BY <3>1 DEF MainWord, MainEnds, ArgPointer, ArgvEnds, EnvPointer, EnvpEnds, InStack, fileVars,
                    loadVars
      <3>2. CASE AuxWord \/ AuxvEnds \/ ArgString \/ ArgsEnd \/ EnvString
        BY <3>2 DEF AuxWord, AuxvEnds, ArgString, ArgsEnd, EnvString, InStack, fileVars, loadVars
      <3> QED
        BY <1>7, <3>1, <3>2 DEF WriteSteps
    <2> QED
      BY <2>1 DEF Known
  <1>8. CASE StackSkipped \/ EnvsEnd
    <2>1. /\ prog' = prog /\ cached' = cached /\ faults' = faults /\ todo' = todo
          /\ images' = [images EXCEPT ![im] = [images[im] EXCEPT !.built = TRUE]]
      BY <1>8 DEF StackSkipped, EnvsEnd, InStack, Return, fileVars, loadVars
    <2>2. images \in Seq(ImageRecords) /\ \A n \in DOMAIN images : images[n] \in ImageRecords
      BY <1>1 DEF Types
    <2>3. DOMAIN images' = DOMAIN images /\ \A n \in DOMAIN images : images'[n].segs = images[n].segs
      BY <2>1, <2>2, EditLemma
    <2> QED
      BY <2>1, <2>3 DEF Known
  <1> QED
    BY <1>2, <1>3, <1>4, <1>5, <1>6, <1>7, <1>8 DEF Next, Steps, WriteSteps

(***************************************************************************)
(* The stack as its program reads it.                                      *)
(***************************************************************************)
\* The words of the tables, from the stack pointer up.
Words == 6 + argc + envc + 2 * uparams.auxv
Word(i) ==
  IF i <= 2 THEN MainWords[i + 1]
  ELSE IF i < 3 + argc THEN sp + arg_s + upTo(params.arg)[i - 3]
  ELSE IF i = 3 + argc THEN 0
  ELSE IF i < 4 + argc + envc THEN sp + env_s + upTo(params.env)[i - 4 - argc]
  ELSE IF i = 4 + argc + envc \/ i = Words - 1 THEN 0
  ELSE 1

Held(m, o, bytes) == \A j \in DOMAIN bytes : o + j - 1 \in DOMAIN m /\ m[o + j - 1] = bytes[j]

\* The pointer that is written next.
Pointing ==
  /\ at = "argv" => p = (sp + arg_s + upTo(params.arg)[k - 1]) % Mod32
  /\ at = "envp" => p = (sp + env_s + upTo(params.env)[k - 1]) % Mod32

\* The phases that write the tables.
Tabling == {"main", "argv", "envp", "auxv"}

\* Every word of the tables that the cursor has passed is still there.
Laid ==
  stack # NoStack =>
    /\ stack.size = size /\ isize <= size
    /\ at \notin Tabling => start + arg_s <= off
    /\ \A i \in 0..(Words - 1) : start + 4 * i + 4 <= off => Held(mem, start + 4 * i, word(Word(i)))

\* So is a string that is alone.
Past(phase) == at \notin Stacking \/ (at = "envs" /\ phase = "args") \/ (at = phase /\ k = 2)
Lone ==
  stack # NoStack =>
    /\ (argc = 1 /\ envc = 0 /\ Past("args")) =>
         Held(mem, start + arg_s, string("arg", 1, params.arg[1]))
    /\ (argc = 0 /\ envc = 1 /\ Past("envs")) =>
         Held(mem, start + env_s, string("env", 1, params.env[1]))

\* A sum may be cut before the next term or after it.
LEMMA CutSum ==
  ASSUME NEW M \in Nat \ {0}, NEW x \in Int, NEW c \in Int
  PROVE  ((x % M) + c) % M = (x + c) % M
  <1> DEFINE q == x \div M
             r == x % M
             a == (r + c) \div M
             s == (r + c) % M
             b == (x + c) \div M
             t == (x + c) % M
  <1>0. ASSUME NEW y \in Int
        PROVE  y \div M \in Int /\ y % M \in 0..(M - 1) /\ y = M * (y \div M) + (y % M)
    OBVIOUS
  <1>1. q \in Int /\ r \in 0..(M - 1) /\ x = M * q + r
    BY <1>0
  <1>2. r + c \in Int /\ x + c \in Int
    BY <1>1
  <1>3. a \in Int /\ s \in 0..(M - 1) /\ r + c = M * a + s
    BY <1>0, <1>2, Zenon DEF a, s
  <1>4. b \in Int /\ t \in 0..(M - 1) /\ x + c = M * b + t
    BY <1>0, <1>2, Zenon DEF b, t
  <1> HIDE DEF q, r, a, s, b, t
  <1>5. M * (q + a - b) = t - s
    <2>1. M * (q + a - b) = M * q + M * a - M * b
      BY <1>1, <1>3, <1>4
    <2> DEFINE mq == M * q
               ma == M * a
               mb == M * b
    <2>2. mq \in Int /\ ma \in Int /\ mb \in Int
      BY <1>1, <1>3, <1>4
    <2>3. x = mq + r /\ r + c = ma + s /\ x + c = mb + t /\ M * (q + a - b) = mq + ma - mb
      BY <1>1, <1>3, <1>4, <2>1
    <2> HIDE DEF mq, ma, mb
    <2> QED
      BY <1>1, <1>3, <1>4, <2>2, <2>3
  <1>6. ASSUME NEW d \in Int, M * d < M, 0 - M < M * d
        PROVE  d = 0
    <2>1. ASSUME d >= 1 PROVE FALSE
      <3>1. M * (d - 1) >= 0 /\ M * d = M * (d - 1) + M
        BY <2>1
      <3> DEFINE z == M * (d - 1)
      <3>2. z \in Int /\ z >= 0 /\ M * d = z + M
        BY <3>1
      <3> HIDE DEF z
      <3> QED
        BY <1>6, <3>2
    <2>2. ASSUME d <= -1 PROVE FALSE
      <3>1. M * (0 - d - 1) >= 0 /\ M * d = 0 - (M * (0 - d - 1)) - M
        BY <2>2
      <3> DEFINE z == M * (0 - d - 1)
      <3>2. z \in Int /\ z >= 0 /\ M * d = 0 - z - M
        BY <3>1
      <3> HIDE DEF z
      <3> QED
        BY <1>6, <3>2
    <2> QED
      BY <2>1, <2>2
  <1>7. q + a - b = 0
    <2>1. t - s < M /\ 0 - M < t - s /\ q + a - b \in Int
      BY <1>1, <1>3, <1>4
    <2> QED
      BY <1>5, <1>6, <2>1
  <1>8. t - s = 0
    BY <1>5, <1>7
  <1> QED
    BY <1>3, <1>4, <1>8 DEF s, t, r

\* A write that fits puts its bytes there, and leaves those below the cursor.
LEMMA StoreHolds ==
  ASSUME StackInv, NEW n \in Nat, NEW bytes, Len(bytes) = n, DOMAIN bytes = 1..n,
         NEW d, avail(n), Store(bytes, d)
  PROVE  /\ Held(mem', off, bytes)
         /\ \A o \in DOMAIN mem : o < off => o \in DOMAIN mem' /\ mem'[o] = mem[o]
  <1>1. off \in Nat /\ DOMAIN mem \subseteq Int
    BY DEF StackInv
  <1> DEFINE D == DOMAIN mem \cup {off + j - 1 : j \in 1..n}
  <1>2. mem' = [o \in D |-> IF o >= off /\ o < off + n THEN bytes[o - off + 1] ELSE mem[o]]
    BY DEF Store
  <1>3. ASSUME NEW j \in 1..n
        PROVE  off + j - 1 \in DOMAIN mem' /\ mem'[off + j - 1] = bytes[j]
    <2>1. off + j - 1 \in D /\ off + j - 1 >= off /\ off + j - 1 < off + n /\ (off + j - 1) - off + 1 = j
      BY <1>1
    <2> HIDE DEF D
    <2> QED
      BY <1>2, <2>1
  <1>4. ASSUME NEW o \in DOMAIN mem, o < off
        PROVE  o \in DOMAIN mem' /\ mem'[o] = mem[o]
    <2>1. o \in D /\ ~(o >= off)
      BY <1>1, <1>4
    <2> HIDE DEF D
    <2> QED
      BY <1>2, <2>1
  <1> QED
    BY <1>3, <1>4 DEF Held

\* What is held below the cursor stays.
LEMMA HeldStays ==
  ASSUME NEW n \in Nat, NEW bytes, DOMAIN bytes = 1..n, NEW o \in Int, Held(mem, o, bytes),
         off \in Int, o + n <= off,
         \A x \in DOMAIN mem : x < off => x \in DOMAIN mem' /\ mem'[x] = mem[x]
  PROVE  Held(mem', o, bytes)
  <1>1. ASSUME NEW j \in 1..n
        PROVE  o + j - 1 \in DOMAIN mem' /\ mem'[o + j - 1] = bytes[j]
    <2>1. o + j - 1 < off
      OBVIOUS
    <2> QED
      BY <2>1 DEF Held
  <1> QED
    BY <1>1 DEF Held

LEMMA WordBytes ==
  ASSUME NEW v
  PROVE  Len(word(v)) = 4 /\ DOMAIN word(v) = 1..4 /\ 4 \in Nat
  BY DEF word, W

LEMMA SameWords ==
  ASSUME params' = params, stack' = stack
  PROVE  /\ argc' = argc /\ envc' = envc /\ size' = size /\ uparams' = uparams /\ arg_s' = arg_s
         /\ env_s' = env_s /\ isize' = isize /\ start' = start /\ sp' = sp /\ Words' = Words
         /\ \A i : Word(i)' = Word(i)
  <1>1. /\ argc' = argc /\ envc' = envc /\ size' = size /\ uparams' = uparams /\ arg_s' = arg_s
        /\ env_s' = env_s /\ isize' = isize /\ start' = start
    BY SameSizes
  <1>2. sp' = sp /\ Words' = Words
    BY <1>1 DEF sp, Words
  <1>3. env_a' = env_a /\ arg_a' = arg_a
    BY <1>1 DEF env_a, arg_a
  <1>4. MainWords' = MainWords
    BY <1>1, <1>2, <1>3 DEF MainWords
  <1>5. \A i : Word(i)' = Word(i)
    BY <1>1, <1>2, <1>4 DEF Word
  <1> QED
    BY <1>1, <1>2, <1>5

\* A step that leaves the stack alone.
LEMMA LaidSame ==
  ASSUME Laid, params' = params, stack' = stack, mem' = mem, off' = off,
         at' \in Tabling \/ at \notin Tabling
  PROVE  Laid'
  <1>1. start' = start /\ Words' = Words /\ (\A i : Word(i)' = Word(i))
        /\ size' = size /\ isize' = isize /\ arg_s' = arg_s
    BY SameWords
  <1>2. NoStack' = NoStack
    BY DEF NoStack
  <1> QED
    BY <1>1, <1>2 DEF Laid

\* The next word of the tables is written.
LEMMA LaidWord ==
  ASSUME Types, StackInv, Laid, at \in Tabling, NEW m \in 0..(Words - 1), off = start + 4 * m,
         NEW v, word(v) = word(Word(m)), avail(W), Write(v), params' = params, stack' = stack,
         at' \in Tabling \/ m = Words - 1
  PROVE  Laid'
  <1>1. /\ start' = start /\ Words' = Words /\ (\A i : Word(i)' = Word(i))
        /\ size' = size /\ isize' = isize /\ arg_s' = arg_s
    BY SameWords
  <1>2. /\ size \in Nat /\ isize \in Nat /\ start \in Int /\ argc \in Nat /\ envc \in Nat
        /\ uparams.auxv \in Nat /\ arg_s = 4 * Words /\ Words \in Nat
    <2>1. size \in Nat /\ isize \in Nat /\ argc \in Nat /\ envc \in Nat /\ uparams.auxv \in Nat
          /\ arg_s = 24 + 4 * argc + 4 * envc + 8 * uparams.auxv
      BY SizesLemma
    <2>2. start \in Int
      BY <2>1 DEF start
    <2>3. \A x \in Nat : /\ 24 + 4 * argc + 4 * envc + 8 * x = 4 * (6 + argc + envc + 2 * x)
                        /\ 6 + argc + envc + 2 * x \in Nat
      BY <2>1
    <2> QED
      BY <2>1, <2>2, <2>3 DEF Words
  <1>3. /\ Held(mem', off, word(v)) /\ off' = off + 4
        /\ \A o \in DOMAIN mem : o < off => o \in DOMAIN mem' /\ mem'[o] = mem[o]
    <2>1. Store(word(v), 4) /\ avail(4)
      BY DEF Write, W
    <2> QED
      BY <2>1, WordBytes, StoreHolds, WordLemma
  <1>4. ASSUME stack # NoStack, NEW i \in 0..(Words - 1), start + 4 * i + 4 <= off'
        PROVE  Held(mem', start + 4 * i, word(Word(i)))
    <2>1. CASE i = m
      BY <1>3, <2>1
    <2>2. CASE i # m
      <3>1. start + 4 * i + 4 <= off
        BY <1>2, <1>3, <1>4, <2>2
      <3>2. Held(mem, start + 4 * i, word(Word(i)))
        BY <1>4, <3>1 DEF Laid
      <3>3. start + 4 * i \in Int /\ off \in Int
        BY <1>2
      <3> QED
        BY <1>3, <3>1, <3>2, <3>3, WordBytes, HeldStays
    <2> QED
      BY <2>1, <2>2
  <1>5. m = Words - 1 => start + arg_s <= off'
    BY <1>2, <1>3
  <1>6. NoStack' = NoStack
    BY DEF NoStack
  <1> QED
    BY <1>1, <1>4, <1>5, <1>6 DEF Laid

\* A string is written over the tables.
LEMMA LaidString ==
  ASSUME Types, StackInv, Laid, at \notin Tabling, NEW n \in Nat, NEW kind, NEW i, avail(n + 1),
         WriteString(kind, i, n), params' = params, stack' = stack
  PROVE  Laid'
  <1>1. /\ start' = start /\ Words' = Words /\ (\A x : Word(x)' = Word(x))
        /\ size' = size /\ isize' = isize /\ arg_s' = arg_s
    BY SameWords
  <1>2. start \in Int /\ arg_s \in Nat /\ off \in Nat
    <2>1. size \in Nat /\ isize \in Nat /\ arg_s \in Nat
      BY SizesLemma
    <2> QED
      BY <2>1 DEF start, StackInv
  <1>3. /\ off' = off + n
        /\ \A o \in DOMAIN mem : o < off => o \in DOMAIN mem' /\ mem'[o] = mem[o]
    <2> DEFINE bytes == string(kind, i, n)
    <2>1. Store(bytes, n) /\ Len(bytes) = n + 1 /\ DOMAIN bytes = 1..(n + 1) /\ n + 1 \in Nat
      BY DEF WriteString, string
    <2> HIDE DEF bytes
    <2>2. \A o \in DOMAIN mem : o < off => o \in DOMAIN mem' /\ mem'[o] = mem[o]
      BY <2>1, StoreHolds
    <2> QED
      BY <2>2, StringLemma
  <1>4. ASSUME stack # NoStack, NEW x \in 0..(Words - 1), start + 4 * x + 4 <= off'
        PROVE  Held(mem', start + 4 * x, word(Word(x)))
    <2>1. arg_s = 4 * Words /\ Words \in Nat /\ start + arg_s <= off
      <3>1. argc \in Nat /\ envc \in Nat /\ uparams.auxv \in Nat
            /\ arg_s = 24 + 4 * argc + 4 * envc + 8 * uparams.auxv
        BY SizesLemma
      <3>2. \A y \in Nat : /\ 24 + 4 * argc + 4 * envc + 8 * y = 4 * (6 + argc + envc + 2 * y)
                          /\ 6 + argc + envc + 2 * y \in Nat
        BY <3>1
      <3>3. start + arg_s <= off
        BY <1>4 DEF Laid
      <3> QED
        BY <3>1, <3>2, <3>3 DEF Words
    <2>2. start + 4 * x + 4 <= off
      BY <1>2, <2>1
    <2>3. Held(mem, start + 4 * x, word(Word(x)))
      BY <1>4, <2>2 DEF Laid
    <2>4. start + 4 * x \in Int /\ off \in Int
      BY <1>2
    <2> QED
      BY <1>3, <2>2, <2>3, <2>4, WordBytes, HeldStays
  <1>5. stack # NoStack => start + arg_s <= off'
    <2>1. stack # NoStack => start + arg_s <= off
      BY DEF Laid
    <2> QED
      BY <1>2, <1>3, <2>1
  <1>6. NoStack' = NoStack
    BY DEF NoStack
  <1> QED
    BY <1>1, <1>4, <1>5, <1>6 DEF Laid

\* What each phase writes is the next word, and the pointers go from string to string.
LEMMA TablesLaid ==
  ASSUME Types, StackInv, Laid, Pointing,
         MainWord \/ MainEnds \/ ArgPointer \/ ArgvEnds \/ EnvPointer \/ EnvpEnds \/ AuxWord \/ AuxvEnds
  PROVE  Laid' /\ Pointing'
  <1> DEFINE aux == uparams.auxv
             S == upTo(params.arg)
             E == upTo(params.env)
  <1>1. /\ argc \in Nat /\ envc \in Nat /\ aux \in Nat /\ k \in Nat \ {0}
        /\ Words = 6 + argc + envc + 2 * aux /\ start \in Int
        /\ Mod32 \in Nat \ {0} /\ p \in 0..(Mod32 - 1)
        /\ sp + arg_s \in Int /\ sp + env_s \in Int
        /\ argc = Len(params.arg) /\ envc = Len(params.env)
        /\ params.arg \in Seq(Nat) /\ params.env \in Seq(Nat)
    <2>1. /\ argc \in Nat /\ envc \in Nat /\ aux \in Nat /\ size \in Nat /\ isize \in Nat
          /\ params.arg \in Seq(Nat) /\ params.env \in Seq(Nat)
      BY SizesLemma
    <2>2. start \in Int
      BY <2>1 DEF start
    <2>3. Mod32 \in Nat \ {0} /\ sp + arg_s \in Int /\ sp + env_s \in Int
      BY PointerLemma, SizesAssumption
    <2> QED
      BY <2>1, <2>2, <2>3 DEF Words, StackInv, argc, envc
  <1>2. /\ S[0] = 0 /\ E[0] = 0
        /\ \A n \in 1..argc : S[n] = S[n - 1] + params.arg[n] + 1 /\ params.arg[n] \in Nat
        /\ \A n \in 1..envc : E[n] = E[n - 1] + params.env[n] + 1 /\ params.env[n] \in Nat
        /\ \A n \in 0..argc : S[n] \in Nat
        /\ \A n \in 0..envc : E[n] \in Nat
    <2>1. /\ \A n \in 1..Len(params.arg) : params.arg[n] \in Nat
          /\ \A n \in 1..Len(params.env) : params.env[n] \in Nat
      BY <1>1
    <2> QED
      BY <1>1, <2>1, SumsLemma
  <1>3. /\ at \in Tabling /\ ~(at = "main" /\ k > 3) => avail(W)
        /\ at = "main" => off = start + 4 * (k - 1)
        /\ at = "argv" => k <= argc + 1 /\ off = start + 12 + 4 * (k - 1)
        /\ at = "envp" => k <= envc + 1 /\ off = start + 16 + 4 * argc + 4 * (k - 1)
        /\ at = "auxv" => k <= 2 * aux + 1 /\ off = start + 20 + 4 * argc + 4 * envc + 4 * (k - 1)
    <2>1. at \in Tabling /\ ~(at = "main" /\ k > 3) => avail(W)
      BY FitsLemma DEF WritesFit, Tabling
    <2>2. /\ at = "main" => off = start + 4 * (k - 1)
          /\ at = "argv" => k \in 1..(argc + 1) /\ off = start + 12 + 4 * (k - 1)
          /\ at = "envp" => k \in 1..(envc + 1) /\ off = start + 16 + 4 * argc + 4 * (k - 1)
          /\ at = "auxv" => /\ k \in 1..(2 * aux + 1)
                            /\ off = start + 20 + 4 * argc + 4 * envc + 4 * (k - 1)
      BY DEF StackInv, Placed
    <2>3. \A n : k \in 1..n => k <= n
      OBVIOUS
    <2> HIDE DEF aux
    <2> QED
      BY <2>1, <2>2, <2>3
  <1>4. params' = params => /\ argc' = argc /\ envc' = envc /\ arg_s' = arg_s /\ env_s' = env_s
    BY SameSizes
  <1>5. params' = params /\ stack' = stack => sp' = sp
    BY SameWords
  <1> HIDE DEF aux, S, E
  <1>0. /\ argc \in Nat /\ envc \in Nat /\ aux \in Nat /\ k \in Nat /\ k >= 1
        /\ Words = 6 + argc + envc + 2 * aux /\ start \in Int
    BY <1>1
  <1>6. W = 4 /\ 1 \in Nat
    BY DEF W
  <1>7. p % Mod32 = p /\ p \in Nat /\ Mod32 \in Nat \ {0}
    BY <1>1
  <1>8. CASE MainWord
    <2>1. /\ at = "main" /\ k \in 1..3 /\ Write(MainWords[k]) /\ at' = "main"
          /\ params' = params /\ stack' = stack
      BY <1>1, <1>8 DEF MainWord, InStack, Turn
    <2>2. k - 1 \in 0..(Words - 1) /\ off = start + 4 * (k - 1) /\ avail(W)
      BY <1>0, <1>3, <2>1 DEF Tabling
    <2>3. Word(k - 1) = MainWords[k]
      <3>1. k - 1 <= 2 /\ (k - 1) + 1 = k
        BY <2>1
      <3> QED
        BY <3>1 DEF Word
    <2>4. Laid'
      BY <2>1, <2>2, <2>3, LaidWord DEF Tabling
    <2> QED
      BY <2>1, <2>4 DEF Pointing
  <1>9. CASE MainEnds
    <2>1. /\ at' = "argv" /\ params' = params /\ stack' = stack /\ mem' = mem /\ off' = off
          /\ k' = 1 /\ p' = (sp + arg_s) % Mod32
      BY <1>9 DEF MainEnds, InStack, Leave
    <2>2. Laid'
      BY <2>1, LaidSame DEF Tabling
    <2>3. upTo(params.arg)[k' - 1] = 0
      BY <1>2, <2>1 DEF S
    <2>4. Pointing'
      BY <1>1, <1>4, <1>5, <2>1, <2>3 DEF Pointing
    <2> QED
      BY <2>2, <2>4
  <1>10. CASE ArgPointer
    <2>1. /\ at = "argv" /\ k \in 1..argc /\ Write(p) /\ at' = "argv" /\ k' = k + 1
          /\ params' = params /\ stack' = stack /\ p' = (p + params.arg[k] + 1) % Mod32
      BY <1>1, <1>10 DEF ArgPointer, InStack, Turn, after
    <2>2. k + 2 \in 0..(Words - 1) /\ off = start + 4 * (k + 2) /\ avail(W)
      BY <1>0, <1>3, <2>1 DEF Tabling
    <2>3. p = (sp + arg_s + S[k - 1]) % Mod32
      BY <2>1 DEF Pointing, S
    <2>4. word(p) = word(Word(k + 2))
      <3>1. ~(k + 2 <= 2) /\ k + 2 < 3 + argc /\ (k + 2) - 3 = k - 1
        BY <1>0, <2>1
      <3>2. Word(k + 2) = sp + arg_s + S[k - 1]
        BY <3>1 DEF Word, S
      <3> QED
        BY <1>7, <2>3, <3>2 DEF word
    <2>5. Laid'
      BY <2>1, <2>2, <2>4, LaidWord DEF Tabling
    <2>6. p' = (sp + arg_s + S[k]) % Mod32
      <3> DEFINE x == sp + arg_s + S[k - 1]
                 c == params.arg[k] + 1
      <3>1. k - 1 \in 0..argc
        BY <1>1, <2>1
      <3>2. S[k] = S[k - 1] + params.arg[k] + 1 /\ S[k - 1] \in Nat /\ params.arg[k] \in Nat
        BY <1>2, <2>1, <3>1
      <3>3. sp + arg_s + S[k] = x + c /\ x \in Int /\ c \in Int
        <4>1. sp + arg_s \in Int
          BY <1>1
        <4> DEFINE y == sp + arg_s
        <4> HIDE DEF y
        <4>2. y \in Int
          BY <4>1 DEF y
        <4>3. y + S[k] = (y + S[k - 1]) + (params.arg[k] + 1)
          BY <3>2, <4>2
        <4> QED
          BY <3>2, <4>2, <4>3 DEF y
      <3>4. p' = (p + c) % Mod32
        <4>1. p + params.arg[k] + 1 = p + c
          BY <1>7, <3>2
        <4> QED
          BY <2>1, <4>1
      <3> HIDE DEF x, c
      <3>5. p' = ((x % Mod32) + c) % Mod32
        BY <2>3, <3>4 DEF x
      <3> QED
        BY <1>7, <3>3, <3>5, CutSum, Zenon
    <2>7. Pointing'
      <3>1. k' - 1 = k
        BY <1>1, <2>1
      <3> QED
        BY <1>4, <1>5, <2>1, <2>6, <3>1 DEF Pointing, S
    <2> QED
      BY <2>5, <2>7
  <1>11. CASE ArgvEnds
    <2>1. /\ at = "argv" /\ k > argc /\ Write(0) /\ at' = "envp" /\ k' = 1
          /\ params' = params /\ stack' = stack /\ p' = (sp + env_s) % Mod32
      BY <1>11 DEF ArgvEnds, InStack, Leave
    <2>2. 3 + argc \in 0..(Words - 1) /\ off = start + 4 * (3 + argc) /\ avail(W)
      <3>1. k = argc + 1 /\ off = start + 12 + 4 * (k - 1)
        BY <1>0, <1>3, <2>1
      <3> QED
        BY <1>0, <1>3, <2>1, <3>1 DEF Tabling
    <2>3. Word(3 + argc) = 0
      <3>1. ~(3 + argc <= 2) /\ ~(3 + argc < 3 + argc)
        BY <1>1
      <3> QED
        BY <3>1 DEF Word
    <2>4. Laid'
      BY <2>1, <2>2, <2>3, LaidWord DEF Tabling
    <2>5. upTo(params.env)[k' - 1] = 0
      BY <1>2, <2>1 DEF E
    <2>6. Pointing'
      BY <1>1, <1>4, <1>5, <2>1, <2>5 DEF Pointing
    <2> QED
      BY <2>4, <2>6
  <1>12. CASE EnvPointer
    <2>1. /\ at = "envp" /\ k \in 1..envc /\ Write(p) /\ at' = "envp" /\ k' = k + 1
          /\ params' = params /\ stack' = stack /\ p' = (p + params.env[k] + 1) % Mod32
      BY <1>1, <1>12 DEF EnvPointer, InStack, Turn, after
    <2> DEFINE m == 3 + argc + k
    <2>2. m \in 0..(Words - 1) /\ off = start + 4 * m /\ avail(W)
      BY <1>0, <1>3, <2>1 DEF Tabling
    <2>3. p = (sp + env_s + E[k - 1]) % Mod32
      BY <2>1 DEF Pointing, E
    <2>4. word(p) = word(Word(m))
      <3>1. ~(m <= 2) /\ ~(m < 3 + argc) /\ m # 3 + argc /\ m < 4 + argc + envc /\ m - 4 - argc = k - 1
        BY <1>0, <2>1
      <3>2. Word(m) = sp + env_s + E[k - 1]
        BY <3>1 DEF Word, E
      <3> QED
        BY <1>7, <2>3, <3>2 DEF word
    <2>5. Laid'
      BY <2>1, <2>2, <2>4, LaidWord DEF Tabling
    <2>6. p' = (sp + env_s + E[k]) % Mod32
      <3> DEFINE x == sp + env_s + E[k - 1]
                 c == params.env[k] + 1
      <3>1. k - 1 \in 0..envc
        BY <1>1, <2>1
      <3>2. E[k] = E[k - 1] + params.env[k] + 1 /\ E[k - 1] \in Nat /\ params.env[k] \in Nat
        BY <1>2, <2>1, <3>1
      <3>3. sp + env_s + E[k] = x + c /\ x \in Int /\ c \in Int
        <4>1. sp + env_s \in Int
          BY <1>1
        <4> DEFINE y == sp + env_s
        <4> HIDE DEF y
        <4>2. y \in Int
          BY <4>1 DEF y
        <4>3. y + E[k] = (y + E[k - 1]) + (params.env[k] + 1)
          BY <3>2, <4>2
        <4> QED
          BY <3>2, <4>2, <4>3 DEF y
      <3>4. p' = (p + c) % Mod32
        <4>1. p + params.env[k] + 1 = p + c
          BY <1>7, <3>2
        <4> QED
          BY <2>1, <4>1
      <3> HIDE DEF x, c
      <3>5. p' = ((x % Mod32) + c) % Mod32
        BY <2>3, <3>4 DEF x
      <3> QED
        BY <1>7, <3>3, <3>5, CutSum, Zenon
    <2>7. Pointing'
      <3>1. k' - 1 = k
        BY <1>1, <2>1
      <3> QED
        BY <1>4, <1>5, <2>1, <2>6, <3>1 DEF Pointing, E
    <2> QED
      BY <2>5, <2>7
  <1>13. CASE EnvpEnds
    <2>1. /\ at = "envp" /\ k > envc /\ Write(0) /\ at' = "auxv"
          /\ params' = params /\ stack' = stack
      BY <1>13 DEF EnvpEnds, InStack, Leave
    <2> DEFINE m == 4 + argc + envc
    <2>2. m \in 0..(Words - 1) /\ off = start + 4 * m /\ avail(W)
      <3>1. k = envc + 1 /\ off = start + 16 + 4 * argc + 4 * (k - 1)
        BY <1>0, <1>3, <2>1
      <3> QED
        BY <1>0, <1>3, <2>1, <3>1 DEF Tabling
    <2>3. Word(m) = 0
      <3>1. ~(m <= 2) /\ ~(m < 3 + argc) /\ ~(m < 4 + argc + envc)
        BY <1>0
      <3> QED
        BY <3>1 DEF Word
    <2>4. Laid'
      BY <2>1, <2>2, <2>3, LaidWord DEF Tabling
    <2> QED
      BY <2>1, <2>4 DEF Pointing
  <1>14. CASE AuxWord
    <2>1. /\ at = "auxv" /\ k <= aux * 2 /\ Write(1) /\ at' = "auxv"
          /\ params' = params /\ stack' = stack
      BY <1>14 DEF AuxWord, InStack, Turn, aux
    <2> DEFINE m == 4 + argc + envc + k
    <2>2. m \in 0..(Words - 1) /\ off = start + 4 * m /\ avail(W)
      BY <1>0, <1>3, <2>1 DEF Tabling
    <2>3. Word(m) = 1
      <3>1. /\ ~(m <= 2) /\ ~(m < 3 + argc) /\ m # 3 + argc /\ ~(m < 4 + argc + envc)
            /\ m # 4 + argc + envc /\ m # Words - 1
        BY <1>0, <2>1
      <3> QED
        BY <3>1 DEF Word
    <2>4. Laid'
      BY <2>1, <2>2, <2>3, LaidWord DEF Tabling
    <2> QED
      BY <2>1, <2>4 DEF Pointing
  <1>15. CASE AuxvEnds
    <2>1. /\ at = "auxv" /\ k > aux * 2 /\ Write(0) /\ at' = "args"
          /\ params' = params /\ stack' = stack
      BY <1>15 DEF AuxvEnds, InStack, Leave, aux
    <2> DEFINE m == Words - 1
    <2>2. m \in 0..(Words - 1) /\ off = start + 4 * m /\ avail(W)
      <3>1. k = 2 * aux + 1 /\ off = start + 20 + 4 * argc + 4 * envc + 4 * (k - 1)
        BY <1>0, <1>3, <2>1
      <3> QED
        BY <1>0, <1>3, <2>1, <3>1 DEF Tabling
    <2>3. Word(m) = 0
      <3>1. ~(m <= 2) /\ ~(m < 3 + argc) /\ ~(m < 4 + argc + envc)
        BY <1>0
      <3> QED
        BY <3>1 DEF Word
    <2>4. Laid'
      BY <2>1, <2>2, <2>3, LaidWord DEF Tabling
    <2> QED
      BY <2>1, <2>4 DEF Pointing
  <1> QED
    BY <1>8, <1>9, <1>10, <1>11, <1>12, <1>13, <1>14, <1>15

LEMMA StringsLaid ==
  ASSUME Types, StackInv, Laid, ArgString \/ ArgsEnd \/ EnvString \/ EnvsEnd
  PROVE  Laid' /\ Pointing'
  <1>1. at \in {"args", "envs"} /\ at' \in {"args", "envs", "idle"} /\ params' = params /\ stack' = stack
    BY DEF ArgString, ArgsEnd, EnvString, EnvsEnd, InStack, Turn, Leave, Return
  <1>2. Pointing'
    BY <1>1 DEF Pointing
  <1>3. /\ argc = Len(params.arg) /\ envc = Len(params.env) /\ k \in Nat \ {0}
        /\ params.arg \in Seq(Nat) /\ params.env \in Seq(Nat)
    BY SizesLemma DEF StackInv, argc, envc
  <1>4. WritesFit
    BY FitsLemma
  <1>5. CASE ArgString
    <2>1. at = "args" /\ k <= argc /\ WriteString("arg", k, params.arg[k])
      BY <1>5 DEF ArgString, InStack
    <2>2. params.arg[k] \in Nat
      BY <1>3, <2>1
    <2>3. avail(params.arg[k] + 1)
      BY <1>4, <2>1 DEF WritesFit
    <2>4. Laid'
      BY <1>1, <2>1, <2>2, <2>3, LaidString DEF Tabling
    <2> QED
      BY <1>2, <2>4
  <1>6. CASE EnvString
    <2>1. at = "envs" /\ k <= envc /\ WriteString("env", k, params.env[k])
      BY <1>6 DEF EnvString, InStack
    <2>2. params.env[k] \in Nat
      BY <1>3, <2>1
    <2>3. avail(params.env[k] + 1)
      BY <1>4, <2>1 DEF WritesFit
    <2>4. Laid'
      BY <1>1, <2>1, <2>2, <2>3, LaidString DEF Tabling
    <2> QED
      BY <1>2, <2>4
  <1>7. CASE ArgsEnd \/ EnvsEnd
    <2>1. mem' = mem /\ off' = off
      BY <1>7 DEF ArgsEnd, EnvsEnd
    <2>2. Laid'
      BY <1>1, <2>1, LaidSame DEF Tabling
    <2> QED
      BY <1>2, <2>2
  <1> QED
    BY <1>5, <1>6, <1>7

\* The steps of build() out of the stack.
Loads ==
  \/ Build \/ LoadUnit \/ LoadUnitThrows \/ LoadHeader \/ LoadHeaderThrows \/ LoadReturns
  \/ StackTooSmall \/ UNCHANGED vars

LEMMA LoadsAlone ==
  ASSUME Loads
  PROVE  /\ params' = params /\ stack' = stack /\ mem' = mem /\ off' = off /\ p' = p /\ k' = k
         /\ at' = at \/ (at \in {"idle", "units", "headers"} /\ at' \in {"idle", "units", "headers"})
  <1>1. CASE UNCHANGED vars
    BY <1>1 DEF vars, stackVars
  <1>2. CASE ~UNCHANGED vars
    <2>1. params' = params /\ stackVars' = stackVars
      BY <1>2 DEF Loads, Build, LoadUnit, LoadUnitThrows, LoadHeader, LoadHeaderThrows, LoadReturns,
                  StackTooSmall
    <2>2. at \in {"idle", "units", "headers"} /\ at' \in {"idle", "units", "headers"}
      BY <1>2 DEF Loads, Build, LoadUnit, LoadUnitThrows, LoadHeader, LoadHeaderThrows, LoadReturns,
                  StackTooSmall
    <2> QED
      BY <2>1, <2>2 DEF stackVars
  <1> QED
    BY <1>1, <1>2

LEMMA LaidStep == IInv /\ StackInv /\ Laid /\ Pointing /\ [Next]_vars => Laid' /\ Pointing'
  <1> SUFFICES ASSUME IInv, StackInv, Laid, Pointing, [Next]_vars PROVE Laid' /\ Pointing'
    OBVIOUS
  <1>1. Types
    BY DEF IInv
  <1>2. CASE Loads
    <2>1. /\ params' = params /\ stack' = stack /\ mem' = mem /\ off' = off /\ p' = p /\ k' = k
          /\ at' = at \/ (at \in {"idle", "units", "headers"} /\ at' \in {"idle", "units", "headers"})
      BY <1>2, LoadsAlone
    <2>2. Laid'
      BY <2>1, LaidSame DEF Tabling
    <2>3. /\ argc' = argc /\ envc' = envc /\ arg_s' = arg_s /\ env_s' = env_s /\ sp' = sp
      BY <2>1, SameWords
    <2>4. Pointing'
      BY <2>1, <2>3 DEF Pointing
    <2> QED
      BY <2>2, <2>4
  <1>3. CASE StackSkipped
    <2>1. stack' = NoStack /\ at' = "idle"
      BY <1>3 DEF StackSkipped, Return
    <2> QED
      BY <2>1 DEF Laid, Pointing, NoStack
  <1>4. CASE StackAllocated
    <2>1. /\ size >= isize /\ stack'.size = size /\ off' = size - isize /\ at' = "main"
          /\ params' = params
      BY <1>4 DEF StackAllocated
    <2>2. /\ size' = size /\ isize' = isize /\ start' = start /\ off' = start
      BY <2>1, SameSizes DEF start
    <2>3. start \in Int
      BY <1>1, SizesLemma DEF start
    <2>4. \A i \in Nat : ~(start' + 4 * i + 4 <= off')
      BY <2>2, <2>3
    <2>5. \A n : \A i \in 0..n : i \in Nat
      OBVIOUS
    <2>6. \A i \in 0..(Words' - 1) : ~(start' + 4 * i + 4 <= off')
      BY <2>4, <2>5, Zenon
    <2>7. isize <= size
      BY <1>1, <2>1, SizesLemma
    <2> QED
      BY <2>1, <2>2, <2>6, <2>7 DEF Laid, Pointing, Tabling
  <1>5. CASE MainWord \/ MainEnds \/ ArgPointer \/ ArgvEnds \/ EnvPointer \/ EnvpEnds \/ AuxWord
             \/ AuxvEnds
    BY <1>1, <1>5, TablesLaid
  <1>6. CASE ArgString \/ ArgsEnd \/ EnvString \/ EnvsEnd
    BY <1>1, <1>6, StringsLaid
  <1> QED
    BY <1>2, <1>3, <1>4, <1>5, <1>6 DEF Next, Steps, Loads

\* A string that is alone is written where its pointer says, and nothing after it.
LEMMA LoneSame ==
  ASSUME Lone, params' = params, stack' = stack, mem' = mem,
         argc = 1 /\ envc = 0 /\ Past("args")' => Past("args"),
         argc = 0 /\ envc = 1 /\ Past("envs")' => Past("envs")
  PROVE  Lone'
  <1>1. argc' = argc /\ envc' = envc /\ start' = start /\ arg_s' = arg_s /\ env_s' = env_s
    BY SameSizes
  <1>2. NoStack' = NoStack
    BY DEF NoStack
  <1> QED
    BY <1>1, <1>2 DEF Lone

LEMMA LoneStrings ==
  ASSUME Types, StackInv, Lone, ArgString \/ EnvString
  PROVE  Lone'
  <1>1. at \in {"args", "envs"} /\ at' = at /\ params' = params /\ stack' = stack /\ k' = k + 1
    BY DEF ArgString, EnvString, InStack, Turn
  <1>2. argc' = argc /\ envc' = envc /\ start' = start /\ arg_s' = arg_s /\ env_s' = env_s
    BY <1>1, SameSizes
  <1>3. /\ argc = Len(params.arg) /\ envc = Len(params.env) /\ k \in Nat \ {0}
        /\ params.arg \in Seq(Nat) /\ params.env \in Seq(Nat) /\ argc \in Nat /\ envc \in Nat
        /\ arg_s \in Nat /\ env_s \in Nat /\ start \in Int
    <2>1. /\ size \in Nat /\ isize \in Nat /\ argc \in Nat /\ envc \in Nat
          /\ params.arg \in Seq(Nat) /\ params.env \in Seq(Nat) /\ arg_s \in Nat /\ env_s \in Nat
      BY SizesLemma
    <2>2. start \in Int
      BY <2>1 DEF start
    <2>3. k \in Nat \ {0} /\ argc = Len(params.arg) /\ envc = Len(params.env)
      BY DEF StackInv, argc, envc
    <2> QED
      BY <2>1, <2>2, <2>3
  <1>4. WritesFit /\ Placed
    BY FitsLemma DEF StackInv
  <1>5. upTo(params.arg)[0] = 0 /\ upTo(params.env)[0] = 0
    BY <1>3, SumsLemma
  <1>6. ASSUME NEW kind, NEW n \in Nat, avail(n + 1), WriteString(kind, k, n)
        PROVE  Held(mem', off, string(kind, k, n))
    <2> DEFINE bytes == string(kind, k, n)
    <2>1. Store(bytes, n) /\ Len(bytes) = n + 1 /\ DOMAIN bytes = 1..(n + 1) /\ n + 1 \in Nat
      BY <1>6 DEF WriteString, string
    <2> HIDE DEF bytes
    <2>2. avail(n + 1)
      BY <1>6
    <2>3. Held(mem', off, bytes)
      BY <2>1, <2>2, StoreHolds
    <2> QED
      BY <2>3 DEF bytes
  <1>7. CASE ArgString
    <2>1. at = "args" /\ k <= argc /\ WriteString("arg", k, params.arg[k])
      BY <1>7 DEF ArgString, InStack
    <2>2. params.arg[k] \in Nat
      BY <1>3, <2>1
    <2>3. avail(params.arg[k] + 1)
      BY <1>4, <2>1 DEF WritesFit
    <2>4. Held(mem', off, string("arg", k, params.arg[k]))
      BY <1>6, <2>1, <2>2, <2>3
    <2>5. argc # 0
      BY <1>3, <2>1
    <2>6. argc = 1 => k = 1 /\ off = start + arg_s
      <3>1. ASSUME argc = 1 PROVE k = 1
        BY <1>3, <2>1, <3>1
      <3>2. off = start + arg_s + upTo(params.arg)[k - 1] - (k - 1)
        BY <1>4, <2>1 DEF Placed
      <3>3. ASSUME argc = 1 PROVE off = start + arg_s + 0 - 0
        <4>1. k = 1 /\ k - 1 = 0
          BY <3>1, <3>3
        <4> QED
          BY <1>5, <3>2, <4>1
      <3> QED
        BY <1>3, <3>1, <3>3
    <2> QED
      BY <1>1, <1>2, <2>4, <2>5, <2>6 DEF Lone
  <1>8. CASE EnvString
    <2>1. at = "envs" /\ k <= envc /\ WriteString("env", k, params.env[k])
      BY <1>8 DEF EnvString, InStack
    <2>2. params.env[k] \in Nat
      BY <1>3, <2>1
    <2>3. avail(params.env[k] + 1)
      BY <1>4, <2>1 DEF WritesFit
    <2>4. Held(mem', off, string("env", k, params.env[k]))
      BY <1>6, <2>1, <2>2, <2>3
    <2>5. envc # 0
      BY <1>3, <2>1
    <2>6. argc = 0 /\ envc = 1 => k = 1 /\ off = start + env_s
      <3>1. ASSUME envc = 1 PROVE k = 1
        BY <1>3, <2>1, <3>1
      <3>2. off = start + env_s - argc + upTo(params.env)[k - 1] - (k - 1)
        BY <1>4, <2>1 DEF Placed
      <3>3. ASSUME argc = 0, envc = 1 PROVE off = start + env_s - 0 + 0 - 0
        <4>1. k = 1 /\ k - 1 = 0
          BY <3>1, <3>3
        <4> QED
          BY <1>5, <3>2, <3>3, <4>1
      <3> QED
        BY <1>3, <3>1, <3>3
    <2> QED
      BY <1>1, <1>2, <2>4, <2>5, <2>6 DEF Lone
  <1> QED
    BY <1>7, <1>8

LEMMA LoneStep == IInv /\ StackInv /\ Lone /\ [Next]_vars => Lone'
  <1> SUFFICES ASSUME IInv, StackInv, Lone, [Next]_vars PROVE Lone'
    OBVIOUS
  <1>1. Types
    BY DEF IInv
  <1>2. CASE Loads
    <2>1. /\ params' = params /\ stack' = stack /\ mem' = mem /\ k' = k
          /\ at' = at \/ (at \in {"idle", "units", "headers"} /\ at' \in {"idle", "units", "headers"})
      BY <1>2, LoadsAlone
    <2>2. (Past("args")' => Past("args")) /\ (Past("envs")' => Past("envs"))
      BY <2>1 DEF Past, Stacking
    <2> QED
      BY <2>1, <2>2, LoneSame
  <1>3. CASE StackSkipped
    <2>1. stack' = NoStack
      BY <1>3 DEF StackSkipped
    <2> QED
      BY <2>1 DEF Lone, NoStack
  <1>4. CASE StackAllocated \/ MainWord \/ MainEnds \/ ArgPointer \/ ArgvEnds \/ EnvPointer \/ EnvpEnds
             \/ AuxWord \/ AuxvEnds
    <2>1. at' \in Tabling \/ (at' = "args" /\ k' = 1)
      BY <1>4 DEF StackAllocated, MainWord, MainEnds, ArgPointer, ArgvEnds, EnvPointer, EnvpEnds,
                  AuxWord, AuxvEnds, InStack, Turn, Leave, Tabling
    <2>2. ~Past("args")' /\ ~Past("envs")'
      BY <2>1 DEF Past, Stacking, Tabling
    <2> QED
      BY <2>2 DEF Lone
  <1>5. CASE ArgString \/ EnvString
    BY <1>1, <1>5, LoneStrings
  <1>6. CASE ArgsEnd
    <2>1. /\ at = "args" /\ at' = "envs" /\ k' = 1 /\ k > argc
          /\ params' = params /\ stack' = stack /\ mem' = mem
      BY <1>6 DEF ArgsEnd, InStack, Leave
    <2>2. k \in 1..(argc + 1)
      BY <2>1 DEF StackInv, Placed
    <2>3. argc = 1 => k = 2
      BY <2>1, <2>2
    <2>4. (argc = 1 => Past("args")) /\ ~Past("envs")'
      BY <2>1, <2>3 DEF Past, Stacking
    <2> QED
      BY <2>1, <2>4, LoneSame
  <1>7. CASE EnvsEnd
    <2>1. /\ at = "envs" /\ k > envc /\ params' = params /\ stack' = stack /\ mem' = mem
      BY <1>7 DEF EnvsEnd, InStack
    <2>2. k \in 1..(envc + 1)
      BY <2>1 DEF StackInv, Placed
    <2>3. envc = 1 => k = 2
      BY <2>1, <2>2
    <2>4. Past("args") /\ (envc = 1 => Past("envs"))
      BY <2>1, <2>3 DEF Past
    <2> QED
      BY <2>1, <2>4, LoneSame
  <1> QED
    BY <1>2, <1>3, <1>4, <1>5, <1>6, <1>7 DEF Next, Steps, Loads

\* Where the strings are, in numbers.
LEMMA Places ==
  ASSUME Types, StackInv, Laid, Ready
  PROVE  LET S == upTo(params.arg)
             E == upTo(params.env)
         IN /\ sp \in Nat /\ start \in Int /\ sp = stack.base + start
            /\ argc \in Nat /\ envc \in Nat /\ uparams.auxv \in Nat /\ arg_s \in Nat /\ env_s \in Nat
            /\ arg_s = 24 + 4 * argc + 4 * envc + 8 * uparams.auxv
            /\ Words = 6 + argc + envc + 2 * uparams.auxv
            /\ env_s = arg_s + S[argc]
            /\ sp + env_s + E[envc] <= stack.base + stack.size /\ stack.base + stack.size <= Mod32
            /\ stack.base \in Nat /\ stack.size \in Nat /\ Mod32 \in Nat \ {0}
            /\ \A n \in 0..argc : S[n] \in Nat
            /\ \A n \in 0..envc : E[n] \in Nat
            /\ \A m, n \in 0..argc : m <= n => S[m] <= S[n]
            /\ \A m, n \in 0..envc : m <= n => E[m] <= E[n]
            /\ \A n \in 1..argc : S[n] = S[n - 1] + params.arg[n] + 1 /\ params.arg[n] \in Nat
            /\ \A n \in 1..envc : E[n] = E[n - 1] + params.env[n] + 1 /\ params.env[n] \in Nat
  <1> DEFINE S == upTo(params.arg)
             E == upTo(params.env)
  <1>1. /\ argc \in Nat /\ envc \in Nat /\ uparams.auxv \in Nat /\ arg_s \in Nat /\ env_s \in Nat
        /\ size \in Nat /\ isize \in Nat
        /\ arg_s = 24 + 4 * argc + 4 * envc + 8 * uparams.auxv
        /\ env_s = arg_s + S[argc] /\ env_s + E[envc] <= isize
        /\ params.arg \in Seq(Nat) /\ params.env \in Seq(Nat)
    BY SizesLemma
  <1>2. argc = Len(params.arg) /\ envc = Len(params.env)
    BY DEF argc, envc
  <1>3. /\ \A n \in 1..Len(params.arg) : params.arg[n] \in Nat
        /\ \A n \in 1..Len(params.env) : params.env[n] \in Nat
    <2>1. params.arg \in Seq(Nat) /\ params.env \in Seq(Nat)
      BY <1>1
    <2> QED
      BY <2>1
  <1>4. /\ \A n \in 0..argc : S[n] \in Nat
        /\ \A n \in 1..argc : S[n] = S[n - 1] + params.arg[n] + 1 /\ params.arg[n] \in Nat
    BY <1>1, <1>2, <1>3, SumsLemma
  <1>5. /\ \A n \in 0..envc : E[n] \in Nat
        /\ \A n \in 1..envc : E[n] = E[n - 1] + params.env[n] + 1 /\ params.env[n] \in Nat
    BY <1>1, <1>2, <1>3, SumsLemma
  <1>6. /\ \A m, n \in 0..argc : m <= n => S[m] <= S[n]
        /\ \A m, n \in 0..envc : m <= n => E[m] <= E[n]
    BY <1>1, <1>2, SumsRise
  <1>7. /\ stack.size = size /\ isize <= size /\ stack.base \in Nat
        /\ stack.base + stack.size <= Mod32
    BY DEF Ready, Laid, StackInv
  <1>8. E[envc] \in Nat
    <2>1. envc \in 0..envc
      BY <1>1
    <2> QED
      BY <1>5, <2>1
  <1>9. /\ start \in Int /\ sp = stack.base + start /\ sp \in Nat
        /\ sp + isize = stack.base + stack.size
    <2>1. size \in Nat /\ isize \in Nat
      BY <1>1
    <2> QED
      BY <1>7, <2>1 DEF start, sp
  <1>10. sp + env_s + E[envc] <= stack.base + stack.size
    <2> DEFINE e == E[envc]
    <2>1. e \in Nat /\ env_s + e <= isize
      BY <1>1, <1>8
    <2> HIDE DEF e
    <2>2. sp + env_s + e <= sp + isize
      BY <1>1, <1>9, <2>1
    <2> QED
      BY <1>9, <2>2 DEF e
  <1>11. Mod32 \in Nat \ {0}
    BY SizesAssumption
  <1> QED
    BY <1>1, <1>4, <1>5, <1>6, <1>7, <1>9, <1>10, <1>11 DEF Words

\* The bytes of a word of the tables.
LEMMA ReadsBytes ==
  ASSUME Types, StackInv, Laid, Ready
  PROVE  \A i \in 0..(Words - 1) :
           \A j \in 1..4 : byteAt((sp + 4 * i) + j - 1) = digit(Word(i) % Mod32, j)
  <1>1. /\ at = "idle" /\ stack # NoStack /\ stack.size = size /\ start + arg_s <= off
        /\ stack.base \in Nat
    BY DEF Ready, Laid, Tabling, StackInv
  <1>2. /\ start \in Int /\ arg_s = 4 * Words /\ Words \in Nat /\ sp = stack.base + start
        /\ off \in Nat
    <2>1. /\ argc \in Nat /\ envc \in Nat /\ uparams.auxv \in Nat /\ size \in Nat /\ isize \in Nat
          /\ arg_s = 24 + 4 * argc + 4 * envc + 8 * uparams.auxv
      BY SizesLemma
    <2>2. \A x \in Nat : /\ 24 + 4 * argc + 4 * envc + 8 * x = 4 * (6 + argc + envc + 2 * x)
                        /\ 6 + argc + envc + 2 * x \in Nat
      BY <2>1
    <2>3. arg_s = 4 * Words /\ Words \in Nat
      BY <2>1, <2>2 DEF Words
    <2>4. start \in Int /\ sp = stack.base + start
      BY <1>1, <2>1 DEF start, sp
    <2>5. off \in Nat
      BY <1>1 DEF StackInv
    <2> QED
      BY <2>3, <2>4, <2>5
  <1>3. ASSUME NEW i \in 0..(Words - 1)
        PROVE  \A j \in 1..4 : byteAt((sp + 4 * i) + j - 1) = digit(Word(i) % Mod32, j)
    <2> DEFINE a == sp + 4 * i
               o == start + 4 * i
    <2>1. o + 4 <= off
      BY <1>1, <1>2
    <2>2. Held(mem, o, word(Word(i)))
      BY <1>1, <2>1 DEF Laid
    <2>3. \A j \in 1..4 : o + j - 1 \in DOMAIN mem /\ mem[o + j - 1] = digit(Word(i) % Mod32, j)
      BY <2>2 DEF Held, word, W
    <2>4. \A j \in 1..4 : (a + j - 1) - stack.base = o + j - 1
      BY <1>1, <1>2
    <2> HIDE DEF a, o
    <2>5. \A j \in 1..4 : byteAt(a + j - 1) = digit(Word(i) % Mod32, j)
      BY <2>3, <2>4 DEF byteAt
    <2> QED
      BY <2>5 DEF a
  <1> QED
    BY <1>3

\* What a program of the host's order reads at a word of the tables.
LEMMA ReadsWords ==
  ASSUME Types, StackInv, Laid, Ready, native
  PROVE  \A i \in 0..(Words - 1) : wordAt(sp + 4 * i) = Word(i) % Mod32
  <1>1. sp \in Nat
    BY Places
  <1>2. ASSUME NEW i \in 0..(Words - 1)
        PROVE  wordAt(sp + 4 * i) = Word(i) % Mod32
    <2> DEFINE a == sp + 4 * i
               v == Word(i) % Mod32
    <2>1. a + 1 - 1 = a /\ 1 \in 1..4
      BY <1>1
    <2>2. \A j \in 1..4 : byteAt(a + j - 1) = digit(v, j)
      BY ReadsBytes
    <2> HIDE DEF a, v
    <2>3. byteAt(a) = digit(v, 1)
      BY <2>1, <2>2
    <2>4. byteAt(a).n = v
      BY <2>3 DEF digit, byte
    <2>5. wordAt(a) = v
      BY <2>2, <2>4 DEF wordAt, W, place
    <2> QED
      BY <2>5 DEF a, v
  <1> QED
    BY <1>2

\* The word at the stack pointer, read in the other order: its bytes are those of
\* argc from the last to the first, which are the same bytes only for 0.
LEMMA ReadsOther ==
  ASSUME Types, StackInv, Laid, Ready, ~native
  PROVE  wordAt(sp) = argc <=> argc = 0
  <1>1. /\ sp \in Nat /\ argc \in Nat /\ 0 \in 0..(Words - 1) /\ argc % Mod32 = argc
        /\ sp + 4 * 0 = sp /\ sp + 1 - 1 = sp /\ -1 \notin Nat
    <2> DEFINE S == upTo(params.arg)
               E == upTo(params.env)
    <2>1. /\ sp \in Nat /\ argc \in Nat /\ envc \in Nat /\ uparams.auxv \in Nat
          /\ arg_s = 24 + 4 * argc + 4 * envc + 8 * uparams.auxv /\ arg_s \in Nat
          /\ Words = 6 + argc + envc + 2 * uparams.auxv /\ env_s = arg_s + S[argc]
          /\ sp + env_s + E[envc] <= stack.base + stack.size /\ stack.base + stack.size <= Mod32
          /\ stack.base \in Nat /\ stack.size \in Nat /\ Mod32 \in Nat \ {0}
          /\ \A n \in 0..argc : S[n] \in Nat
          /\ \A n \in 0..envc : E[n] \in Nat
      BY Places
    <2>2. S[argc] \in Nat /\ E[envc] \in Nat
      BY <2>1
    <2> DEFINE sa == S[argc]
               ee == E[envc]
               aux == uparams.auxv
               limit == stack.base + stack.size
    <2>3. sa \in Nat /\ ee \in Nat /\ aux \in Nat /\ limit \in Nat /\ limit <= Mod32
          /\ sp + (arg_s + sa) + ee <= limit /\ arg_s = 24 + 4 * argc + 4 * envc + 8 * aux
          /\ Words = 6 + argc + envc + 2 * aux
      BY <2>1, <2>2
    <2> HIDE DEF S, E, sa, ee, aux, limit
    <2>4. argc < Mod32 /\ 0 \in 0..(Words - 1)
      BY <2>1, <2>3
    <2>5. argc % Mod32 = argc
      BY <2>1, <2>4
    <2> QED
      BY <2>1, <2>4, <2>5
  <1>2. Word(0) = argc
    BY DEF Word, MainWords
  <1>3. \A j \in 1..4 : byteAt(sp + j - 1) = digit(argc, j)
    <2>1. \A j \in 1..4 : byteAt((sp + 4 * 0) + j - 1) = digit(Word(0) % Mod32, j)
      BY <1>1, ReadsBytes
    <2> QED
      BY <1>1, <1>2, <2>1
  <1>4. byteAt(sp) = digit(argc, 1) /\ byteAt(sp).n = argc
    <2>1. 1 \in 1..4
      OBVIOUS
    <2>2. byteAt(sp) = digit(argc, 1)
      BY <1>1, <1>3, <2>1
    <2> QED
      BY <2>2 DEF digit, byte
  <1>5. CASE argc = 0
    <2>1. \A j \in 1..4 : digit(argc, j) = digit(argc, 4 + 1 - j)
      BY <1>5 DEF digit
    <2>2. \A j \in 1..W : byteAt(sp + j - 1) = digit(byteAt(sp).n, place(j))
      BY <1>3, <1>4, <2>1 DEF W, place
    <2> QED
      BY <1>4, <1>5, <2>2 DEF wordAt
  <1>6. CASE argc # 0
    <2>1. digit(argc, 1) # digit(argc, 4)
      BY <1>6 DEF digit, byte
    <2>2. 1 \in 1..W /\ place(1) = 4
      BY DEF W, place
    <2>3. byteAt(sp + 1 - 1) = digit(argc, 1)
      BY <1>1, <1>4
    <2>4. wordAt(sp) = -1
      BY <1>4, <2>1, <2>2, <2>3 DEF wordAt
    <2> QED
      BY <1>1, <1>6, <2>4
  <1> QED
    BY <1>5, <1>6

\* Where the program finds them.
LEMMA Pointers ==
  ASSUME Types, StackInv, Laid, Ready, native
  PROVE  /\ wordAt(sp) = argc /\ argv = sp + 12 /\ envp = sp + 16 + 4 * argc
         /\ wordAt(argv + W * argc) = 0 /\ wordAt(envp + W * envc) = 0 /\ wordAt(endOfTables) = 0
         /\ endOfTables + W = sp + arg_s
         /\ \A i \in 1..argc : pointer(<<"arg", i>>) = sp + arg_s + upTo(params.arg)[i - 1]
         /\ \A i \in 1..envc : pointer(<<"env", i>>) = sp + env_s + upTo(params.env)[i - 1]
  <1> DEFINE aux == uparams.auxv
             S == upTo(params.arg)
             E == upTo(params.env)
             limit == stack.base + stack.size
  <1>1. /\ sp \in Nat /\ argc \in Nat /\ envc \in Nat /\ aux \in Nat /\ arg_s \in Nat /\ env_s \in Nat
        /\ arg_s = 24 + 4 * argc + 4 * envc + 8 * aux /\ Words = 6 + argc + envc + 2 * aux
        /\ env_s = arg_s + S[argc]
        /\ sp + env_s + E[envc] <= limit /\ limit <= Mod32 /\ limit \in Nat /\ Mod32 \in Nat \ {0}
    BY Places
  <1>2. /\ \A n \in 0..argc : S[n] \in Nat
        /\ \A n \in 0..envc : E[n] \in Nat
        /\ \A n \in 1..argc : S[n] = S[n - 1] + params.arg[n] + 1 /\ params.arg[n] \in Nat
        /\ \A n \in 1..envc : E[n] = E[n - 1] + params.env[n] + 1 /\ params.env[n] \in Nat
        /\ \A m, n \in 0..argc : m <= n => S[m] <= S[n]
        /\ \A m, n \in 0..envc : m <= n => E[m] <= E[n]
    BY Places
  <1>3. \A i \in 0..(Words - 1) : wordAt(sp + 4 * i) = Word(i) % Mod32
    BY ReadsWords
  <1>4. S[argc] \in Nat /\ E[envc] \in Nat
    <2>1. argc \in 0..argc /\ envc \in 0..envc
      BY <1>1
    <2> QED
      BY <1>2, <2>1
  <1>5. W = 4 /\ arg_a = 12 /\ env_a = 16 + 4 * argc
    BY SizesLemma DEF W
  <1> HIDE DEF aux, S, E, limit
  <1>6. sp + env_s <= Mod32 /\ sp + arg_s <= Mod32
    BY <1>1, <1>4
  <1>7. \A x \in Nat : x < Mod32 => x % Mod32 = x
    BY <1>1
  <1>8. wordAt(sp) = argc
    <2>1. 0 \in 0..(Words - 1) /\ sp + 4 * 0 = sp /\ argc < Mod32
      BY <1>1, <1>6
    <2>2. Word(0) = argc
      BY DEF Word, MainWords
    <2> QED
      BY <1>1, <1>3, <1>7, <2>1, <2>2
  <1>9. argv = sp + 12
    <2>1. 1 \in 0..(Words - 1) /\ sp + 4 * 1 = sp + W /\ sp + 12 < Mod32 /\ sp + 12 \in Nat
      BY <1>1, <1>5, <1>6
    <2>2. Word(1) = sp + 12
      BY <1>5 DEF Word, MainWords
    <2> QED
      BY <1>3, <1>7, <2>1, <2>2 DEF argv
  <1>10. envp = sp + 16 + 4 * argc
    <2> DEFINE x == sp + (16 + 4 * argc)
    <2>1. 2 \in 0..(Words - 1) /\ sp + 4 * 2 = sp + 2 * W /\ x < Mod32 /\ x \in Nat
          /\ x = sp + 16 + 4 * argc
      BY <1>1, <1>5, <1>6
    <2>2. Word(2) = x
      BY <1>5 DEF Word, MainWords
    <2> HIDE DEF x
    <2>3. envp = x
      BY <1>3, <1>7, <2>1, <2>2 DEF envp
    <2> QED
      BY <2>1, <2>3
  <1>11. 0 % Mod32 = 0
    BY <1>1
  <1>12. wordAt(argv + W * argc) = 0
    <2> DEFINE m == 3 + argc
    <2>1. m \in 0..(Words - 1) /\ sp + 4 * m = argv + W * argc
      BY <1>1, <1>5, <1>9
    <2>2. Word(m) = 0
      <3>1. ~(m <= 2) /\ ~(m < 3 + argc) /\ m = 3 + argc
        BY <1>1
      <3> QED
        BY <3>1 DEF Word
    <2> HIDE DEF m
    <2>3. wordAt(sp + 4 * m) = 0
      BY <1>3, <1>11, <2>1, <2>2
    <2> QED
      BY <2>1, <2>3
  <1>13. wordAt(envp + W * envc) = 0
    <2> DEFINE m == 4 + argc + envc
    <2>1. m \in 0..(Words - 1) /\ sp + 4 * m = envp + W * envc
      BY <1>1, <1>5, <1>10
    <2>2. Word(m) = 0
      <3>1. ~(m <= 2) /\ ~(m < 3 + argc) /\ ~(m < 4 + argc + envc) /\ m = 4 + argc + envc
        BY <1>1
      <3> QED
        BY <3>1 DEF Word
    <2> HIDE DEF m
    <2>3. wordAt(sp + 4 * m) = 0
      BY <1>3, <1>11, <2>1, <2>2
    <2> QED
      BY <2>1, <2>3
  <1>14. endOfTables = sp + 20 + 4 * argc + 4 * envc + 8 * aux
    <2>1. endOfTables = envp + 4 * (envc + 1 + 2 * aux)
      BY <1>5 DEF endOfTables, aux
    <2> QED
      BY <1>1, <1>10, <2>1
  <1>15. wordAt(endOfTables) = 0
    <2> DEFINE m == Words - 1
    <2>1. m \in 0..(Words - 1) /\ sp + 4 * m = endOfTables
      BY <1>1, <1>14
    <2>2. Word(m) = 0
      <3>1. ~(m <= 2) /\ ~(m < 3 + argc) /\ ~(m < 4 + argc + envc) /\ m # 3 + argc
        BY <1>1
      <3> QED
        BY <3>1 DEF Word
    <2> HIDE DEF m
    <2>3. wordAt(sp + 4 * m) = 0
      BY <1>3, <1>11, <2>1, <2>2
    <2> QED
      BY <2>1, <2>3
  <1>16. endOfTables + W = sp + arg_s
    BY <1>1, <1>5, <1>14
  <1>17. ASSUME NEW i \in 1..argc
         PROVE  pointer(<<"arg", i>>) = sp + arg_s + upTo(params.arg)[i - 1]
    <2> DEFINE m == 2 + i
               x == sp + arg_s + S[i - 1]
    <2>1. m \in 0..(Words - 1) /\ sp + 4 * m = argv + W * (i - 1)
      BY <1>1, <1>5, <1>9
    <2>2. Word(m) = x
      <3>1. ~(m <= 2) /\ m < 3 + argc /\ m - 3 = i - 1
        BY <1>1
      <3> QED
        BY <3>1 DEF Word, S
    <2>3. x < Mod32 /\ x \in Nat
      <3>1. /\ S[i] = S[i - 1] + params.arg[i] + 1 /\ params.arg[i] \in Nat
            /\ S[i - 1] \in Nat /\ S[i] <= S[argc]
        <4>1. i - 1 \in 0..argc /\ i \in 0..argc /\ argc \in 0..argc /\ i <= argc
          BY <1>1
        <4> QED
          BY <1>2, <4>1
      <3>2. S[i - 1] < S[argc]
        BY <1>4, <3>1
      <3> QED
        BY <1>1, <1>4, <1>6, <3>1, <3>2
    <2> HIDE DEF m, x
    <2>4. wordAt(sp + 4 * m) = x
      BY <1>3, <1>7, <2>1, <2>2, <2>3
    <2>5. pointer(<<"arg", i>>) = wordAt(argv + W * (i - 1))
      BY DEF pointer
    <2> QED
      BY <2>1, <2>4, <2>5 DEF x, S
  <1>18. ASSUME NEW i \in 1..envc
         PROVE  pointer(<<"env", i>>) = sp + env_s + upTo(params.env)[i - 1]
    <2> DEFINE m == 3 + argc + i
               x == sp + env_s + E[i - 1]
    <2>1. m \in 0..(Words - 1) /\ sp + 4 * m = envp + W * (i - 1)
      BY <1>1, <1>5, <1>10
    <2>2. Word(m) = x
      <3>1. /\ ~(m <= 2) /\ ~(m < 3 + argc) /\ m # 3 + argc /\ m < 4 + argc + envc
            /\ m - 4 - argc = i - 1
        BY <1>1
      <3> QED
        BY <3>1 DEF Word, E
    <2>3. x < Mod32 /\ x \in Nat
      <3>1. /\ E[i] = E[i - 1] + params.env[i] + 1 /\ params.env[i] \in Nat
            /\ E[i - 1] \in Nat /\ E[i] <= E[envc]
        <4>1. i - 1 \in 0..envc /\ i \in 0..envc /\ envc \in 0..envc /\ i <= envc
          BY <1>1
        <4> QED
          BY <1>2, <4>1
      <3>2. E[i - 1] < E[envc]
        BY <1>4, <3>1
      <3> QED
        BY <1>1, <1>4, <3>1, <3>2
    <2> HIDE DEF m, x
    <2>4. wordAt(sp + 4 * m) = x
      BY <1>3, <1>7, <2>1, <2>2, <2>3
    <2>5. pointer(<<"env", i>>) = wordAt(envp + W * (i - 1))
      BY DEF pointer
    <2> QED
      BY <2>1, <2>4, <2>5 DEF x, E
  <1> QED
    BY <1>8, <1>9, <1>10, <1>12, <1>13, <1>15, <1>16, <1>17, <1>18

\* A room for each string.
LEMMA Rooms ==
  ASSUME Types, StackInv, Laid, Ready, native
  PROVE  /\ \A s \in Strings : room(s) \subseteq (endOfTables + W)..(stack.base + stack.size - 1)
         /\ \A s, t \in Strings : s # t => room(s) \cap room(t) = {}
  <1> DEFINE S == upTo(params.arg)
             E == upTo(params.env)
             limit == stack.base + stack.size
             low(s) == IF s[1] = "arg" THEN sp + arg_s + S[s[2] - 1] ELSE sp + env_s + E[s[2] - 1]
             high(s) == IF s[1] = "arg" THEN sp + arg_s + S[s[2]] ELSE sp + env_s + E[s[2]]
  <1>1. /\ sp \in Nat /\ argc \in Nat /\ envc \in Nat /\ arg_s \in Nat /\ env_s \in Nat
        /\ env_s = arg_s + S[argc] /\ sp + env_s + E[envc] <= limit /\ limit \in Nat
    BY Places
  <1>2. /\ \A n \in 0..argc : S[n] \in Nat
        /\ \A n \in 0..envc : E[n] \in Nat
        /\ \A n \in 1..argc : S[n] = S[n - 1] + params.arg[n] + 1 /\ params.arg[n] \in Nat
        /\ \A n \in 1..envc : E[n] = E[n - 1] + params.env[n] + 1 /\ params.env[n] \in Nat
        /\ \A m, n \in 0..argc : m <= n => S[m] <= S[n]
        /\ \A m, n \in 0..envc : m <= n => E[m] <= E[n]
    BY Places
  <1>3. endOfTables + W = sp + arg_s
    BY Pointers
  <1>4. /\ \A i \in 1..argc : pointer(<<"arg", i>>) = sp + arg_s + S[i - 1]
        /\ \A i \in 1..envc : pointer(<<"env", i>>) = sp + env_s + E[i - 1]
    BY Pointers
  <1>5. ASSUME NEW s \in Strings
        PROVE  \/ s[1] = "arg" /\ s[2] \in 1..argc /\ s = <<"arg", s[2]>>
               \/ s[1] = "env" /\ s[2] \in 1..envc /\ s = <<"env", s[2]>>
    BY DEF Strings
  <1> HIDE DEF S, E, limit
  <1>6. ASSUME NEW i \in 1..argc
        PROVE  /\ S[i - 1] \in Nat /\ S[i] \in Nat /\ S[i] = S[i - 1] + params.arg[i] + 1
               /\ params.arg[i] \in Nat /\ S[i] <= S[argc] /\ S[argc] \in Nat
    <2>1. i - 1 \in 0..argc /\ i \in 0..argc /\ argc \in 0..argc /\ i <= argc
      BY <1>1
    <2> QED
      BY <1>2, <2>1
  <1>7. ASSUME NEW i \in 1..envc
        PROVE  /\ E[i - 1] \in Nat /\ E[i] \in Nat /\ E[i] = E[i - 1] + params.env[i] + 1
               /\ params.env[i] \in Nat /\ E[i] <= E[envc] /\ E[envc] \in Nat
    <2>1. i - 1 \in 0..envc /\ i \in 0..envc /\ envc \in 0..envc /\ i <= envc
      BY <1>1
    <2> QED
      BY <1>2, <2>1
  <1>8. E[envc] \in Nat /\ S[argc] \in Nat
    <2>1. argc \in 0..argc /\ envc \in 0..envc
      BY <1>1
    <2> QED
      BY <1>2, <2>1
  <1>9. sp + arg_s <= sp + env_s /\ sp + env_s <= limit
    BY <1>1, <1>8
  <1>10. ASSUME NEW s \in Strings
         PROVE  /\ low(s) \in Nat /\ high(s) \in Nat /\ room(s) = low(s)..(high(s) - 1)
                /\ sp + arg_s <= low(s) /\ high(s) <= limit
                /\ s[1] = "arg" => high(s) <= sp + env_s
                /\ s[1] = "env" => sp + env_s <= low(s)
    <2>1. CASE s[1] = "arg"
      <3> DEFINE i == s[2]
                 n == params.arg[i]
                 x == S[i - 1]
                 y == S[i]
      <3>1. i \in 1..argc /\ s = <<"arg", i>>
        BY <1>5, <2>1
      <3>2. pointer(s) = sp + arg_s + x /\ length(s) = n
        BY <1>4, <2>1, <3>1 DEF length
      <3>3. x \in Nat /\ y \in Nat /\ n \in Nat /\ y = x + n + 1 /\ y <= S[argc]
        BY <1>6, <3>1
      <3>4. low(s) = sp + arg_s + x /\ high(s) = sp + arg_s + y
        BY <2>1
      <3> HIDE DEF i, n, x, y, low, high
      <3>5. /\ low(s) \in Nat /\ high(s) \in Nat /\ pointer(s) = low(s)
            /\ pointer(s) + length(s) = high(s) - 1 /\ sp + arg_s <= low(s)
        BY <1>1, <3>2, <3>3, <3>4
      <3>6. high(s) <= sp + env_s /\ high(s) <= limit
        BY <1>1, <1>8, <1>9, <3>3, <3>4
      <3> QED
        BY <2>1, <3>5, <3>6 DEF room
    <2>2. CASE s[1] = "env"
      <3> DEFINE i == s[2]
                 n == params.env[i]
                 x == E[i - 1]
                 y == E[i]
      <3>1. i \in 1..envc /\ s = <<"env", i>>
        BY <1>5, <2>2
      <3>2. pointer(s) = sp + env_s + x /\ length(s) = n
        BY <1>4, <2>2, <3>1 DEF length
      <3>3. x \in Nat /\ y \in Nat /\ n \in Nat /\ y = x + n + 1 /\ y <= E[envc]
        BY <1>7, <3>1
      <3>4. low(s) = sp + env_s + x /\ high(s) = sp + env_s + y
        BY <2>2
      <3> HIDE DEF i, n, x, y, low, high
      <3>5. /\ low(s) \in Nat /\ high(s) \in Nat /\ pointer(s) = low(s)
            /\ pointer(s) + length(s) = high(s) - 1 /\ sp + env_s <= low(s)
        BY <1>1, <3>2, <3>3, <3>4
      <3>6. high(s) <= limit /\ sp + arg_s <= low(s)
        BY <1>1, <1>8, <1>9, <3>3, <3>4, <3>5
      <3> QED
        BY <2>2, <3>5, <3>6 DEF room
    <2> QED
      BY <1>5, <2>1, <2>2
  <1>11. ASSUME NEW s \in Strings, NEW t \in Strings, s # t
         PROVE  high(s) <= low(t) \/ high(t) <= low(s)
    <2>1. CASE s[1] # t[1]
      <3>1. (s[1] = "arg" /\ t[1] = "env") \/ (s[1] = "env" /\ t[1] = "arg")
        BY <1>5, <2>1
      <3> HIDE DEF low, high
      <3> QED
        BY <1>1, <1>10, <3>1
    <2>2. CASE s[1] = "arg" /\ t[1] = "arg"
      <3> DEFINE i == s[2]
                 j == t[2]
      <3>1. i \in 1..argc /\ j \in 1..argc /\ i # j
        BY <1>5, <1>11, <2>2
      <3>2. (i <= j - 1 \/ j <= i - 1) /\ i \in 0..argc /\ j \in 0..argc /\ i - 1 \in 0..argc /\ j - 1 \in 0..argc
        BY <1>1, <3>1
      <3>3. S[i] <= S[j - 1] \/ S[j] <= S[i - 1]
        BY <1>2, <3>2
      <3>4. /\ high(s) = sp + arg_s + S[i] /\ low(s) = sp + arg_s + S[i - 1]
            /\ high(t) = sp + arg_s + S[j] /\ low(t) = sp + arg_s + S[j - 1]
        BY <2>2
      <3>5. S[i] \in Nat /\ S[j] \in Nat /\ S[i - 1] \in Nat /\ S[j - 1] \in Nat
        BY <1>6, <3>1
      <3> HIDE DEF i, j, low, high
      <3>6. \A x, y \in Nat : x <= y => sp + arg_s + x <= sp + arg_s + y
        BY <1>1
      <3> QED
        BY <3>3, <3>4, <3>5, <3>6
    <2>3. CASE s[1] = "env" /\ t[1] = "env"
      <3> DEFINE i == s[2]
                 j == t[2]
      <3>1. i \in 1..envc /\ j \in 1..envc /\ i # j
        BY <1>5, <1>11, <2>3
      <3>2. (i <= j - 1 \/ j <= i - 1) /\ i \in 0..envc /\ j \in 0..envc /\ i - 1 \in 0..envc /\ j - 1 \in 0..envc
        BY <1>1, <3>1
      <3>3. E[i] <= E[j - 1] \/ E[j] <= E[i - 1]
        BY <1>2, <3>2
      <3>4. /\ high(s) = sp + env_s + E[i] /\ low(s) = sp + env_s + E[i - 1]
            /\ high(t) = sp + env_s + E[j] /\ low(t) = sp + env_s + E[j - 1]
        BY <2>3
      <3>5. E[i] \in Nat /\ E[j] \in Nat /\ E[i - 1] \in Nat /\ E[j - 1] \in Nat
        BY <1>7, <3>1
      <3> HIDE DEF i, j, low, high
      <3>6. \A x, y \in Nat : x <= y => sp + env_s + x <= sp + env_s + y
        BY <1>1
      <3> QED
        BY <3>3, <3>4, <3>5, <3>6
    <2> QED
      BY <1>5, <2>1, <2>2, <2>3
  <1> HIDE DEF low, high
  <1>12. ASSUME NEW s \in Strings
         PROVE  room(s) \subseteq (endOfTables + W)..(stack.base + stack.size - 1)
    <2>1. room(s) \subseteq (endOfTables + W)..(limit - 1)
      BY <1>1, <1>3, <1>10
    <2>2. limit - 1 = stack.base + stack.size - 1
      <3>1. stack.base \in Nat /\ stack.size \in Nat
        BY Places
      <3> QED
        BY <3>1 DEF limit
    <2> QED
      BY <2>1, <2>2
  <1>13. ASSUME NEW s \in Strings, NEW t \in Strings, s # t
         PROVE  room(s) \cap room(t) = {}
    <2>1. low(s) \in Nat /\ high(s) \in Nat /\ low(t) \in Nat /\ high(t) \in Nat
      BY <1>10
    <2>2. high(s) <= low(t) \/ high(t) <= low(s)
      BY <1>11, <1>13
    <2>3. \A x \in low(s)..(high(s) - 1) : x \notin low(t)..(high(t) - 1)
      BY <2>1, <2>2
    <2> QED
      BY <1>10, <2>3
  <1> QED
    BY <1>12, <1>13

\* The string of a list of one, when the other list is empty.
LEMMA Alone ==
  ASSUME Types, StackInv, Laid, Lone, Ready, native, NEW s \in Strings, Cardinality(Strings) = 1
  PROVE  isString(s)
  <1>1. argc \in Nat /\ envc \in Nat /\ sp \in Nat /\ start \in Int /\ sp = stack.base + start
        /\ stack.base \in Nat /\ arg_s \in Nat /\ env_s \in Nat
    BY Places
  <1>2. \A t \in Strings : t = s
    <2>1. IsFiniteSet(1..argc) /\ IsFiniteSet(1..envc)
      <3>1. 1 \in Int /\ argc \in Int /\ envc \in Int
        BY <1>1
      <3> QED
        BY <3>1, FS_Interval
    <2>2. IsFiniteSet({"arg"}) /\ IsFiniteSet({"env"})
      BY FS_Singleton
    <2>3. IsFiniteSet({"arg"} \X (1..argc)) /\ IsFiniteSet({"env"} \X (1..envc))
      BY <2>1, <2>2, FS_Product
    <2>4. IsFiniteSet(Strings)
      BY <2>3, FS_Union DEF Strings
    <2>5. PICK x : Strings = {x}
      BY <2>4, FS_Singleton
    <2> QED
      BY <2>5
  <1>3. \A i \in 1..argc : <<"arg", i>> \in Strings
    BY DEF Strings
  <1>4. \A i \in 1..envc : <<"env", i>> \in Strings
    BY DEF Strings
  <1>5. \/ s[1] = "arg" /\ s[2] \in 1..argc /\ s = <<"arg", s[2]>>
        \/ s[1] = "env" /\ s[2] \in 1..envc /\ s = <<"env", s[2]>>
    BY DEF Strings
  <1>6. ASSUME NEW o \in Int, NEW n \in Nat, NEW kind, NEW i, Held(mem, o, string(kind, i, n)),
               s = <<kind, i>>, pointer(s) = stack.base + o, length(s) = n
        PROVE  isString(s)
    <2>1. \A j \in 1..(n + 1) : o + j - 1 \in DOMAIN mem /\ mem[o + j - 1] = string(kind, i, n)[j]
      BY <1>6 DEF Held, string
    <2>2. \A j \in 1..(n + 1) : (pointer(s) + j - 1) - stack.base = o + j - 1
      BY <1>1, <1>6
    <2>3. \A j \in 1..(n + 1) : byteAt(pointer(s) + j - 1) = string(kind, i, n)[j]
      BY <2>1, <2>2 DEF byteAt
    <2>4. \A j \in 1..n : byteAt(pointer(s) + j - 1) = byte(kind, i, j)
      <3>1. \A j \in 1..n : j \in 1..(n + 1) /\ j <= n
        BY <1>6
      <3>2. \A j \in 1..n : string(kind, i, n)[j] = byte(kind, i, j)
        BY <3>1 DEF string
      <3> QED
        BY <2>3, <3>1, <3>2
    <2>5. byteAt(pointer(s) + n).of = "nul"
      <3>1. n + 1 \in 1..(n + 1) /\ ~(n + 1 <= n) /\ pointer(s) + (n + 1) - 1 = pointer(s) + n
        BY <1>1, <1>6
      <3>2. string(kind, i, n)[n + 1] = byte("nul", 0, 0)
        BY <3>1 DEF string
      <3>3. byteAt(pointer(s) + n) = byte("nul", 0, 0)
        BY <2>3, <3>1, <3>2
      <3> QED
        BY <3>3 DEF byte
    <2> QED
      BY <1>6, <2>4, <2>5 DEF isString
  <1>7. stack # NoStack /\ Past("args") /\ Past("envs")
    BY DEF Ready, Past, Stacking
  <1>8. CASE s[1] = "arg"
    <2>1. s = <<"arg", s[2]>> /\ s[2] \in 1..argc
      BY <1>5, <1>8
    <2>2. argc = 1 /\ s[2] = 1
      <3>1. 1 \in 1..argc /\ argc \in 1..argc
        BY <1>1, <2>1
      <3>2. <<"arg", 1>> = s /\ <<"arg", argc>> = s
        BY <1>2, <1>3, <3>1
      <3> QED
        BY <3>2
    <2>3. envc = 0
      <3>1. ASSUME envc # 0 PROVE FALSE
        <4>1. 1 \in 1..envc
          BY <1>1, <3>1
        <4>2. <<"env", 1>> = s
          BY <1>2, <1>4, <4>1
        <4> QED
          BY <1>8, <4>2
      <3> QED
        BY <3>1
    <2>4. Held(mem, start + arg_s, string("arg", 1, params.arg[1]))
      BY <1>7, <2>2, <2>3 DEF Lone
    <2>5. pointer(s) = sp + arg_s + upTo(params.arg)[1 - 1]
      BY <2>1, <2>2, Pointers
    <2>6. upTo(params.arg)[0] = 0 /\ params.arg[1] \in Nat
      <3>1. params.arg \in Seq(Nat)
        BY SizesLemma
      <3>2. params.arg[1] \in Nat
        BY <2>2, Places
      <3> QED
        BY <3>1, <3>2, SumsLemma
    <2>7. pointer(s) = stack.base + (start + arg_s) /\ start + arg_s \in Int
      <3>1. pointer(s) = sp + arg_s + 0
        BY <2>5, <2>6
      <3> QED
        BY <1>1, <3>1
    <2>8. s = <<"arg", 1>> /\ length(s) = params.arg[1]
      BY <1>8, <2>1, <2>2 DEF length
    <2> QED
      BY <1>6, <2>4, <2>6, <2>7, <2>8
  <1>9. CASE s[1] = "env"
    <2>1. s = <<"env", s[2]>> /\ s[2] \in 1..envc
      BY <1>5, <1>9
    <2>2. envc = 1 /\ s[2] = 1
      <3>1. 1 \in 1..envc /\ envc \in 1..envc
        BY <1>1, <2>1
      <3>2. <<"env", 1>> = s /\ <<"env", envc>> = s
        BY <1>2, <1>4, <3>1
      <3> QED
        BY <3>2
    <2>3. argc = 0
      <3>1. ASSUME argc # 0 PROVE FALSE
        <4>1. 1 \in 1..argc
          BY <1>1, <3>1
        <4>2. <<"arg", 1>> = s
          BY <1>2, <1>3, <4>1
        <4> QED
          BY <1>9, <4>2
      <3> QED
        BY <3>1
    <2>4. Held(mem, start + env_s, string("env", 1, params.env[1]))
      BY <1>7, <2>2, <2>3 DEF Lone
    <2>5. pointer(s) = sp + env_s + upTo(params.env)[1 - 1]
      BY <2>1, <2>2, Pointers
    <2>6. upTo(params.env)[0] = 0 /\ params.env[1] \in Nat
      <3>1. params.env \in Seq(Nat)
        BY SizesLemma
      <3>2. params.env[1] \in Nat
        BY <2>2, Places
      <3> QED
        BY <3>1, <3>2, SumsLemma
    <2>7. pointer(s) = stack.base + (start + env_s) /\ start + env_s \in Int
      <3>1. pointer(s) = sp + env_s + 0
        BY <2>5, <2>6
      <3> QED
        BY <1>1, <3>1
    <2>8. s = <<"env", 1>> /\ length(s) = params.env[1]
      BY <1>9, <2>1, <2>2 DEF length
    <2> QED
      BY <1>6, <2>4, <2>6, <2>7, <2>8
  <1> QED
    BY <1>5, <1>8, <1>9

(***************************************************************************)
(* Theorems.                                                               *)
(***************************************************************************)
\* Whatever the programs, the page and the width of addresses: units are above
\* each other as long as none ends too high.
\* The code: the base of build(), Unit::load() and the top it returns.
THEOREM UnitsAreApart == Spec => []UnitsApart
  <1>1. IInv => UnitsApart
    <2> SUFFICES ASSUME IInv, NEW n \in DOMAIN images PROVE
          LET segs == images[n].segs IN
            \A j \in DOMAIN segs : Fit(segs, segs[j].unit) =>
              \A i \in Before(segs, segs[j].unit) : Above(segs, i, j)
      BY DEF UnitsApart
    <2>1. Sorted(page, images[n].segs)
      BY DEF IInv, Stacked
    <2> QED
      BY <2>1 DEF Sorted, FitAt, Fit, Above, End, page
  <1> QED
    BY <1>1, Invariant, PTL

\* Whatever the program and the reads that fail: an image that is returned holds
\* every loadable header, where the header asks to be.
\* The code: Unit::load() and build(), whose first unit is the program, at 0.
THEOREM ImagesAreWhole == Spec => []ImageWhole
  <1>1. IInv => ImageWhole
    <2> SUFFICES ASSUME IInv, table = "read", NEW n \in DOMAIN images, images[n].built,
                        NEW i \in DOMAIN prog, prog[i].type = "PT_LOAD"
                 PROVE  \E m \in DOMAIN images[n].segs :
                          LET s == images[n].segs[m] IN
                            s.header = i /\ s.base = prog[i].vaddr /\ s.size = prog[i].memsz
      BY DEF ImageWhole
    <2>1. Whole(prog, images[n].segs)
      BY DEF IInv, BuiltWhole
    <2>2. i < Len(prog) + 1
      BY LastLemma DEF IInv
    <2> QED
      BY <2>1, <2>2 DEF Whole, Holds
  <1> QED
    BY <1>1, Invariant, PTL

\* Whatever the arguments, the environment, the auxiliary vector and the size of the
\* stack: no write of buildStack() is refused.
\* The code: the sizes buildStack() sums against what its loops write.
THEOREM WritesAreFit == Spec => []WritesFit
  <1>1. Init => IInv /\ StackInv
    BY InitInv, StackInit
  <1>2. IInv /\ StackInv /\ [Next]_vars => (IInv /\ StackInv)'
    BY StepInv, StackStep
  <1>3. IInv /\ StackInv => WritesFit
    BY FitsLemma DEF IInv
  <1> QED
    BY <1>1, <1>2, <1>3, PTL DEF Spec

\* Whatever the program and the parameters: the stack pointer is in the segment of
\* the stack, the last one, or a segment before it lies there or is empty at 0.
\* The code: buildStack(), the list of segments, and Image::at().
THEOREM StackIsFound == Spec => []FindsStack
  <1>1. Init => IInv /\ StackInv /\ Topmost
    <2>1. Init => Topmost
      BY DEF Init, Topmost, Stacks, Stacking, im
    <2> QED
      BY <2>1, InitInv, StackInit
  <1>2. IInv /\ StackInv /\ Topmost /\ [Next]_vars => (IInv /\ StackInv /\ Topmost)'
    BY StepInv, StackStep, TopmostStep
  <1>3. IInv /\ StackInv /\ Topmost => FindsStack
    <2> SUFFICES ASSUME IInv, StackInv, Topmost, Ready PROVE FindsStack
      BY DEF FindsStack
    <2> DEFINE segs == images[im].segs
               last == Len(segs)
               inside(n) == segs[n].base <= sp /\ sp < segs[n].base + segs[n].size
    <2>1. /\ at = "idle" /\ im > 0 /\ images[im].built /\ stack # NoStack
          /\ stack.base + stack.size <= Mod32
      BY DEF Ready
    <2>2. Last(segs)
      BY <2>1 DEF Topmost, Stacks
    <2>3. segs \in Seq(SegmentRecords) /\ last \in DOMAIN segs
      <3>1. images \in Seq(ImageRecords) /\ im \in DOMAIN images /\ images[im] \in ImageRecords
        BY <2>1 DEF IInv, Types, im
      <3>2. segs \in Seq(SegmentRecords)
        BY <3>1, EditLemma
      <3> HIDE DEF segs
      <3>3. segs # <<>>
        BY <2>2 DEF Last
      <3> QED
        BY <3>2, <3>3
    <2>4. \A n \in DOMAIN segs : n \in Nat /\ segs[n].base \in Nat /\ segs[n].size \in Nat
      <3> HIDE DEF segs
      <3>1. \A n \in DOMAIN segs : n \in Nat /\ segs[n] \in SegmentRecords
        BY <2>3
      <3> QED
        BY <3>1 DEF SegmentRecords
    <2> HIDE DEF segs, last
    <2>5. /\ stack.base \in Nat /\ stack.size \in Nat /\ isize \in Nat /\ isize > 0
          /\ isize <= stack.size /\ sp = stack.base + stack.size - isize
          /\ segs[last].base = stack.base /\ segs[last].size = stack.size
      <3>1. isize \in Nat /\ isize > 0
        BY SizesLemma DEF IInv
      <3> QED
        BY <2>2, <3>1 DEF StackInv, Last, sp, last
    <2>6. sp \in Nat /\ stack.base <= sp /\ sp < stack.base + stack.size
      BY <2>5
    <2>7. stack.base + stack.size <= Mod64 /\ stack.base + stack.size # 0
      BY <2>1, <2>5, SizesAssumption
    <2>8. contains(segs[last], sp)
      BY <2>5, <2>6, <2>7, ContainsLemma
    <2>9. ASSUME NEW n \in DOMAIN segs, contains(segs[n], sp)
          PROVE  inside(n) \/ segs[n].base + segs[n].size = 0
      BY <2>4, <2>6, <2>9, ContainsLemma
    <2> DEFINE found == {n \in DOMAIN segs : contains(segs[n], sp)}
               first == imageAt(segs, sp)
    <2>10. first \in found
      <3>1. last \in found /\ found \subseteq Nat
        BY <2>3, <2>4, <2>8
      <3>2. first = CHOOSE n \in found : \A m \in found : n <= m
        BY <3>1 DEF imageAt
      <3> HIDE DEF found, first
      <3>3. \E n \in found : \A m \in found : n <= m
        BY <3>1, HasLeast
      <3> QED
        BY <3>2, <3>3
    <2>11. first \in DOMAIN segs /\ (inside(first) \/ segs[first].base + segs[first].size = 0)
      BY <2>9, <2>10
    <2> HIDE DEF first
    <2>12. first # last =>
             \E n \in DOMAIN segs : n # last /\ (inside(n) \/ segs[n].base + segs[n].size = 0)
      BY <2>11
    <2> QED
      BY <2>12 DEF FindsStack, first, segs, last
  <1> QED
    BY <1>1, <1>2, <1>3, PTL DEF Spec

\* For every list of arguments and of variables, and every place and size of the
\* stack: from the stack pointer, a program of the host's order, and only such a
\* one when there are arguments, finds its argument count; the former finds its two
\* tables and their ends, and for each string an address with the room it needs,
\* out of the tables and of the room of any other; a string that is alone is there.
\* The code: buildStack(), the three computations of its layout.
THEOREM TablesAreRight == Spec => []StackTables
  <1> DEFINE Inv == IInv /\ StackInv /\ Laid /\ Pointing /\ Lone
  <1>1. Init => Inv
    <2>1. Init => Laid /\ Pointing /\ Lone
      BY DEF Init, Laid, Pointing, Lone
    <2> QED
      BY <2>1, InitInv, StackInit
  <1>2. Inv /\ [Next]_vars => Inv'
    BY StepInv, StackStep, LaidStep, LoneStep
  <1>3. Inv => StackTables
    <2> SUFFICES ASSUME Inv, Ready PROVE StackTables
      BY DEF StackTables
    <2>1. Types
      BY DEF IInv
    <2>2. CASE native
      <3>1. \A s \in Strings : Cardinality(Strings) = 1 => isString(s)
        BY <2>1, <2>2, Alone
      <3>2. TablesRight
        BY <2>1, <2>2, <3>1, Pointers, Rooms DEF TablesRight
      <3>3. wordAt(sp) = argc
        BY <2>1, <2>2, Pointers
      <3> QED
        BY <2>2, <3>2, <3>3 DEF StackTables
    <2>3. CASE ~native
      <3>1. wordAt(sp) = argc <=> argc = 0
        BY <2>1, <2>3, ReadsOther
      <3> QED
        BY <2>3, <3>1 DEF StackTables
    <2> QED
      BY <2>2, <2>3
  <1> QED
    BY <1>1, <1>2, <1>3, PTL DEF Spec

\* Types, for every value of the constants: segments are those of headers, with as
\* many bytes as the header has in memory, or the stack.
\* The code: the members of UnixBuilder and Image.
THEOREM TypeCorrect == Spec => []TypeOK
  <1>1. Init => IInv /\ StackInv /\ Known
    <2>1. Init => Known
      BY SizesAssumption DEF Init, Known
    <2> QED
      BY <2>1, InitInv, StackInit
  <1>2. IInv /\ StackInv /\ Known /\ [Next]_vars => (IInv /\ StackInv /\ Known)'
    BY StepInv, StackStep, KnownStep
  <1>3. IInv /\ StackInv /\ Known => TypeOK
    <2> SUFFICES ASSUME IInv, StackInv, Known PROVE TypeOK
      OBVIOUS
    <2>1. \A n \in DOMAIN images : images[n].built \in BOOLEAN
      BY LastLemma DEF IInv
    <2>2. \A n \in DOMAIN images : \A m \in DOMAIN images[n].segs : Segment(images[n].segs[m])
      BY DEF Known, SegmentOf, Segment
    <2> QED
      BY <2>1, <2>2 DEF TypeOK, IInv, Types, StackInv, Known, Loading, Stacking
  <1> QED
    BY <1>1, <1>2, <1>3, PTL DEF Spec

(***************************************************************************)
(* A call of build() goes on to its end.                                   *)
(***************************************************************************)
\* What is left in a phase of r, of t turns, at the k-th.
LeftIs(r, t) ==
  /\ t \in Nat /\ k <= t + 1
  /\ BuildLeft = <<r, t + 1 - k>>

LEMMA PhaseLeft ==
  ASSUME IInv, StackInv
  PROVE  /\ k \in Nat \ {0} /\ argc \in Nat /\ envc \in Nat /\ uparams.auxv * 2 \in Nat
         /\ at = "main" => LeftIs(6, 3)
         /\ at = "argv" => LeftIs(5, argc)
         /\ at = "envp" => LeftIs(4, envc)
         /\ at = "auxv" => LeftIs(3, uparams.auxv * 2)
         /\ at = "args" => LeftIs(2, argc)
         /\ at = "envs" => LeftIs(1, envc)
  <1>1. argc \in Nat /\ envc \in Nat /\ uparams.auxv \in Nat /\ k \in Nat \ {0}
    BY SizesLemma DEF IInv, StackInv
  <1>2. uparams.auxv * 2 \in Nat /\ 2 * uparams.auxv = uparams.auxv * 2
    BY <1>1
  <1>3. Placed
    BY DEF StackInv
  <1>4. at = "main" => LeftIs(6, 3)
    <2> SUFFICES ASSUME at = "main" PROVE LeftIs(6, 3)
      OBVIOUS
    <2>1. k \in 1..4 /\ BuildLeft = <<6, 4 - k>> /\ 4 - k = 3 + 1 - k
      BY <1>3 DEF Placed, BuildLeft
    <2> QED
      BY <2>1 DEF LeftIs
  <1>5. at = "argv" => LeftIs(5, argc)
    <2> SUFFICES ASSUME at = "argv" PROVE LeftIs(5, argc)
      OBVIOUS
    <2>1. k \in 1..(argc + 1)
      BY <1>3 DEF Placed
    <2>2. BuildLeft = <<5, argc + 1 - k>>
      BY DEF BuildLeft
    <2> QED
      BY <1>1, <1>2, <2>1, <2>2 DEF LeftIs
  <1>6. at = "envp" => LeftIs(4, envc)
    <2> SUFFICES ASSUME at = "envp" PROVE LeftIs(4, envc)
      OBVIOUS
    <2>1. k \in 1..(envc + 1)
      BY <1>3 DEF Placed
    <2>2. BuildLeft = <<4, envc + 1 - k>>
      BY DEF BuildLeft
    <2> QED
      BY <1>1, <1>2, <2>1, <2>2 DEF LeftIs
  <1>7. at = "auxv" => LeftIs(3, uparams.auxv * 2)
    <2> SUFFICES ASSUME at = "auxv" PROVE LeftIs(3, uparams.auxv * 2)
      OBVIOUS
    <2>1. k \in 1..(uparams.auxv * 2 + 1)
      BY <1>3, <1>2 DEF Placed
    <2>2. BuildLeft = <<3, uparams.auxv * 2 + 1 - k>>
      BY DEF BuildLeft
    <2> QED
      BY <1>1, <1>2, <2>1, <2>2 DEF LeftIs
  <1>8. at = "args" => LeftIs(2, argc)
    <2> SUFFICES ASSUME at = "args" PROVE LeftIs(2, argc)
      OBVIOUS
    <2>1. k \in 1..(argc + 1)
      BY <1>3 DEF Placed
    <2>2. BuildLeft = <<2, argc + 1 - k>>
      BY DEF BuildLeft
    <2> QED
      BY <1>1, <1>2, <2>1, <2>2 DEF LeftIs
  <1>9. at = "envs" => LeftIs(1, envc)
    <2> SUFFICES ASSUME at = "envs" PROVE LeftIs(1, envc)
      OBVIOUS
    <2>1. k \in 1..(envc + 1)
      BY <1>3 DEF Placed
    <2>2. BuildLeft = <<1, envc + 1 - k>>
      BY DEF BuildLeft
    <2> QED
      BY <1>1, <1>2, <2>1, <2>2 DEF LeftIs
  <1> QED
    BY <1>1, <1>2, <1>4, <1>5, <1>6, <1>7, <1>8, <1>9

\* A turn of a phase, of t turns.
LEMMA TurnLowers ==
  ASSUME NEW r \in Nat, NEW t \in Nat, k \in Nat \ {0}, k <= t, LeftIs(r, t),
         BuildLeft' = <<r, t + 1 - k'>>, k' = k + 1
  PROVE  Lowers(BuildLeft', BuildLeft)
  <1>1. BuildLeft = <<r, t + 1 - k>> /\ BuildLeft' = <<r, t + 1 - (k + 1)>>
    BY DEF LeftIs
  <1>2. t + 1 - (k + 1) \in Nat /\ t + 1 - (k + 1) < t + 1 - k
    OBVIOUS
  <1> QED
    BY <1>1, <1>2 DEF Lowers, Lower

\* The end of one, and the start of the next.
LEMMA EndLowers ==
  ASSUME NEW r \in Nat, NEW t, LeftIs(r, t), NEW q \in Nat, NEW s \in Nat, q < r,
         BuildLeft' = <<q, s>>
  PROVE  Lowers(BuildLeft', BuildLeft)
  <1>1. BuildLeft[1] = r
    BY DEF LeftIs
  <1> QED
    BY <1>1 DEF Lowers, Lower

LEMMA StepLowers ==
  ASSUME IInv, StackInv, Next, at # "idle"
  PROVE  Lowers(BuildLeft', BuildLeft)
  <1> DEFINE n == Len(todo)
             l == Len(headers)
  <1>1. /\ n \in Nat /\ unit \in 1..(n + 1) /\ h \in Nat \ {0} /\ l \in Nat
        /\ at \in Loading \cup Stacking
    <2>1. Len(prog) \in Nat
      BY ProgramsAssumption DEF IInv, Types
    <2> QED
      BY <2>1 DEF IInv, Types, headers
  <1>2. argc \in Nat /\ envc \in Nat /\ uparams.auxv * 2 \in Nat /\ k \in Nat \ {0}
    BY PhaseLeft
  <1>3. ASSUME at \in Loading, at' = "idle" PROVE Lowers(BuildLeft', BuildLeft)
    <2> DEFINE a == 2 * (n + 1 - unit)
    <2>1. a \in Nat
      BY <1>1
    <2>2. BuildLeft' = <<0, 0>> /\ BuildLeft[1] \in {a + 7, a + 6}
      BY <1>3 DEF BuildLeft, Loading
    <2> HIDE DEF a
    <2>3. BuildLeft[1] > 0
      BY <2>1, <2>2
    <2> QED
      BY <2>2, <2>3 DEF Lowers, Lower
  <1>4. CASE LoadUnitThrows \/ LoadHeaderThrows \/ StackSkipped \/ StackTooSmall
    BY <1>3, <1>4 DEF LoadUnitThrows, LoadHeaderThrows, StackSkipped, StackTooSmall, Return, Loading
  <1>5. CASE LoadUnit
    <2>1. /\ at = "units" /\ unit <= n /\ at' = "headers" /\ h' = 1 /\ unit' = unit
          /\ Len(todo') = n /\ Len(headers') \in Nat
      <3>1. /\ at = "units" /\ unit <= n /\ at' = "headers" /\ h' = 1 /\ unit' = unit /\ prog' = prog
            /\ todo' = [todo EXCEPT ![unit] = base % Mod32]
        BY <1>5 DEF LoadUnit
      <3>2. Len(todo') = n
        BY <3>1 DEF IInv, Types
      <3>3. Len(prog') \in Nat
        BY <3>1, ProgramsAssumption DEF IInv, Types
      <3> QED
        BY <3>1, <3>2, <3>3 DEF headers
    <2> DEFINE m == Len(headers')
    <2>2. BuildLeft = <<2 * (n + 1 - unit) + 7, 0>> /\ BuildLeft' = <<2 * (n + 1 - unit) + 6, m + 1 - 1>>
      BY <2>1 DEF BuildLeft
    <2>3. m \in Nat
      BY <2>1
    <2> HIDE DEF n, m
    <2> QED
      BY <1>1, <2>2, <2>3 DEF Lowers, Lower
  <1>6. CASE LoadHeader
    <2>1. /\ at = "headers" /\ at' = "headers" /\ h <= l /\ h' = h + 1 /\ unit' = unit
          /\ todo' = todo /\ headers' = headers
      BY <1>6 DEF LoadHeader, headers
    <2> DEFINE a == 2 * (n + 1 - unit) + 6
    <2>2. BuildLeft = <<a, l + 1 - h>> /\ BuildLeft' = <<a, l + 1 - (h + 1)>>
      BY <2>1 DEF BuildLeft
    <2>3. a \in Nat
      BY <1>1
    <2> HIDE DEF a, l
    <2> QED
      BY <1>1, <2>1, <2>2, <2>3 DEF Lowers, Lower
  <1>7. CASE LoadReturns
    <2>1. /\ at = "headers" /\ at' = "units" /\ unit' = unit + 1 /\ todo' = todo
          /\ unit <= n
      BY <1>7 DEF LoadReturns, IInv, Types
    <2> DEFINE b == l + 1 - h
    <2>2. BuildLeft = <<2 * (n + 1 - unit) + 6, b>> /\ BuildLeft' = <<2 * (n + 1 - (unit + 1)) + 7, 0>>
      BY <2>1 DEF BuildLeft
    <2>3. unit \in Nat /\ n \in Nat
      BY <1>1
    <2> HIDE DEF n, b
    <2> QED
      BY <2>1, <2>2, <2>3 DEF Lowers, Lower
  <1>8. CASE StackAllocated
    <2>1. at = "units" /\ at' = "main" /\ k' = 1
      BY <1>8 DEF StackAllocated
    <2> DEFINE a == 2 * (n + 1 - unit)
    <2>2. BuildLeft = <<a + 7, 0>> /\ BuildLeft' = <<6, 3>>
      BY <2>1 DEF BuildLeft
    <2>3. a \in Nat
      BY <1>1
    <2> HIDE DEF a
    <2> QED
      BY <2>2, <2>3 DEF Lowers, Lower
  <1>9. CASE MainWord
    <2>1. at = "main" /\ at' = "main" /\ k <= 3 /\ k' = k + 1 /\ params' = params
      BY <1>9 DEF MainWord, InStack, Turn
    <2>2. BuildLeft' = <<6, 4 - k'>> /\ 4 - k' = 3 + 1 - k'
      BY <1>2, <2>1 DEF BuildLeft
    <2> QED
      BY <1>2, <2>1, <2>2, PhaseLeft, TurnLowers
  <1>10. CASE MainEnds
    <2>1. at = "main" /\ at' = "argv" /\ k' = 1 /\ params' = params
      BY <1>10 DEF MainEnds, InStack, Leave
    <2>2. BuildLeft' = <<5, argc + 1 - 1>>
      BY <2>1 DEF BuildLeft, argc, envc, uparams
    <2>3. argc + 1 - 1 \in Nat
      BY <1>2
    <2> QED
      BY <2>1, <2>2, <2>3, PhaseLeft, EndLowers
  <1>11. CASE ArgPointer
    <2>1. at = "argv" /\ at' = "argv" /\ k <= argc /\ k' = k + 1 /\ params' = params
      BY <1>11 DEF ArgPointer, InStack, Turn
    <2>2. BuildLeft' = <<5, argc + 1 - k'>>
      BY <2>1 DEF BuildLeft, argc, envc, uparams
    <2> QED
      BY <1>2, <2>1, <2>2, PhaseLeft, TurnLowers
  <1>12. CASE ArgvEnds
    <2>1. at = "argv" /\ at' = "envp" /\ k' = 1 /\ params' = params
      BY <1>12 DEF ArgvEnds, InStack, Leave
    <2>2. BuildLeft' = <<4, envc + 1 - 1>>
      BY <2>1 DEF BuildLeft, argc, envc, uparams
    <2>3. envc + 1 - 1 \in Nat
      BY <1>2
    <2> QED
      BY <2>1, <2>2, <2>3, PhaseLeft, EndLowers
  <1>13. CASE EnvPointer
    <2>1. at = "envp" /\ at' = "envp" /\ k <= envc /\ k' = k + 1 /\ params' = params
      BY <1>13 DEF EnvPointer, InStack, Turn
    <2>2. BuildLeft' = <<4, envc + 1 - k'>>
      BY <2>1 DEF BuildLeft, argc, envc, uparams
    <2> QED
      BY <1>2, <2>1, <2>2, PhaseLeft, TurnLowers
  <1>14. CASE EnvpEnds
    <2>1. at = "envp" /\ at' = "auxv" /\ k' = 1 /\ params' = params
      BY <1>14 DEF EnvpEnds, InStack, Leave
    <2>2. BuildLeft' = <<3, uparams.auxv * 2 + 1 - 1>>
      BY <2>1 DEF BuildLeft, argc, envc, uparams
    <2>3. uparams.auxv * 2 + 1 - 1 \in Nat
      BY <1>2
    <2> QED
      BY <2>1, <2>2, <2>3, PhaseLeft, EndLowers
  <1>15. CASE AuxWord
    <2>1. at = "auxv" /\ at' = "auxv" /\ k <= uparams.auxv * 2 /\ k' = k + 1 /\ params' = params
      BY <1>15 DEF AuxWord, InStack, Turn
    <2>2. BuildLeft' = <<3, uparams.auxv * 2 + 1 - k'>>
      BY <2>1 DEF BuildLeft, argc, envc, uparams
    <2> QED
      BY <1>2, <2>1, <2>2, PhaseLeft, TurnLowers
  <1>16. CASE AuxvEnds
    <2>1. at = "auxv" /\ at' = "args" /\ k' = 1 /\ params' = params
      BY <1>16 DEF AuxvEnds, InStack, Leave
    <2>2. BuildLeft' = <<2, argc + 1 - 1>>
      BY <2>1 DEF BuildLeft, argc, envc, uparams
    <2>3. argc + 1 - 1 \in Nat
      BY <1>2
    <2> QED
      BY <2>1, <2>2, <2>3, PhaseLeft, EndLowers
  <1>17. CASE ArgString
    <2>1. at = "args" /\ at' = "args" /\ k <= argc /\ k' = k + 1 /\ params' = params
      BY <1>17 DEF ArgString, InStack, Turn
    <2>2. BuildLeft' = <<2, argc + 1 - k'>>
      BY <2>1 DEF BuildLeft, argc, envc, uparams
    <2> QED
      BY <1>2, <2>1, <2>2, PhaseLeft, TurnLowers
  <1>18. CASE ArgsEnd
    <2>1. at = "args" /\ at' = "envs" /\ k' = 1 /\ params' = params
      BY <1>18 DEF ArgsEnd, InStack, Leave
    <2>2. BuildLeft' = <<1, envc + 1 - 1>>
      BY <2>1 DEF BuildLeft, argc, envc, uparams
    <2>3. envc + 1 - 1 \in Nat
      BY <1>2
    <2> QED
      BY <2>1, <2>2, <2>3, PhaseLeft, EndLowers
  <1>19. CASE EnvString
    <2>1. at = "envs" /\ at' = "envs" /\ k <= envc /\ k' = k + 1 /\ params' = params
      BY <1>19 DEF EnvString, InStack, Turn
    <2>2. BuildLeft' = <<1, envc + 1 - k'>>
      BY <2>1 DEF BuildLeft, argc, envc, uparams
    <2> QED
      BY <1>2, <2>1, <2>2, PhaseLeft, TurnLowers
  <1>20. CASE EnvsEnd
    <2>1. at = "envs" /\ at' = "idle"
      BY <1>20 DEF EnvsEnd, InStack, Return
    <2>2. BuildLeft' = <<0, 0>>
      BY <2>1 DEF BuildLeft
    <2> QED
      BY <2>1, <2>2, PhaseLeft, EndLowers
  <1> QED
    BY <1>4, <1>5, <1>6, <1>7, <1>8, <1>9, <1>10, <1>11, <1>12, <1>13, <1>14, <1>15, <1>16, <1>17, <1>18, <1>19, <1>20
       DEF Next, Steps, Build

\* Each turn of a call leaves less of it, for any number of units, headers, strings
\* and pairs, and whatever throws.
\* The code: the loops of build(), Unit::load() and buildStack().
THEOREM BuildDescends == Spec => BuildShrinks
  <1>1. ASSUME IInv, StackInv, [Next]_vars
        PROVE  [at # "idle" => Lowers(BuildLeft', BuildLeft)]_vars
    BY <1>1, StepLowers
  <1>2. Spec => [](IInv /\ StackInv)
    BY InitInv, StackInit, StepInv, StackStep, PTL DEF Spec
  <1> QED
    BY <1>1, <1>2, PTL DEF BuildShrinks, Spec
=============================================================================
