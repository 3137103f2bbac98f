-------------------------- MODULE ElfTables_proofs --------------------------
(***************************************************************************)
(* Proofs about ElfTables, for any jobs, any widths of words and integers  *)
(* and any amount of memory.  The inductive invariant relates the cursor   *)
(* to the entries already handed out: it is at a multiple of the size of   *)
(* an entry, or at the note after the last one.                            *)
(***************************************************************************)
EXTENDS ElfTables, WellFoundedInduction, TLAPS

(***************************************************************************)
(* Arithmetic.                                                             *)
(***************************************************************************)
\* Products of naturals.
LEMMA Products ==
  ASSUME NEW a \in Nat, NEW b \in Nat, NEW e \in Nat
  PROVE  /\ a * e \in Nat /\ (a + 1) * e = a * e + e
         /\ a < b => (a + 1) * e <= b * e
         /\ a <= b => a * e <= b * e
  <1>1. a * e \in Nat /\ (a + 1) * e = a * e + e
    OBVIOUS
  <1>2. ASSUME a <= b PROVE a * e <= b * e
    <2> DEFINE d == b - a
    <2>1. d \in Nat /\ b = a + d
      BY <1>2
    <2>2. d * e \in Nat
      BY <2>1
    <2>3. b * e = a * e + d * e
      BY <2>1
    <2> HIDE DEF d
    <2> QED BY <1>1, <2>2, <2>3
  <1>3. ASSUME a < b PROVE (a + 1) * e <= b * e
    <2> DEFINE d == b - (a + 1)
    <2>1. d \in Nat /\ b = (a + 1) + d
      BY <1>3
    <2>2. d * e \in Nat /\ (a + 1) * e \in Nat
      BY <2>1
    <2>3. b * e = (a + 1) * e + d * e
      BY <2>1
    <2> HIDE DEF d
    <2> QED BY <2>2, <2>3
  <1> QED BY <1>1, <1>2, <1>3

\* The quotient is the one number of whole entries.
LEMMA Quotient ==
  ASSUME NEW s \in Nat, NEW e \in Nat \ {0}
  PROVE  /\ s \div e \in Nat
         /\ (s \div e) * e <= s /\ s < (s \div e) * e + e
         /\ \A l \in Nat : l * e <= s /\ s < l * e + e => s \div e = l
  <1> DEFINE q == s \div e
  <1>1. q \in Nat
    OBVIOUS
  <1>2. e * q <= s
    OBVIOUS
  <1>3. s < e * q + e
    OBVIOUS
  <1> HIDE DEF q
  <1>5. q * e <= s /\ s < q * e + e
    BY <1>1, <1>2, <1>3
  <1>4. ASSUME NEW l \in Nat, l * e <= s, s < l * e + e
        PROVE  q = l
    <2>1. CASE q < l
      <3>1. (q + 1) * e <= l * e /\ (q + 1) * e = q * e + e /\ l * e \in Nat /\ q * e \in Nat
        BY <2>1, <1>1, Products
      <3> QED BY <3>1, <1>5, <1>4
    <2>2. CASE l < q
      <3>1. (l + 1) * e <= q * e /\ (l + 1) * e = l * e + e /\ l * e \in Nat /\ q * e \in Nat
        BY <2>2, <1>1, Products
      <3> QED BY <3>1, <1>5, <1>4
    <2> QED BY <2>1, <2>2, <1>1
  <1> QED BY <1>1, <1>5, <1>4 DEF q

\* A remainder.
LEMMA Remainder ==
  ASSUME NEW n \in Nat, NEW m \in Nat \ {0}
  PROVE  n % m \in Nat /\ n % m <= n /\ n % m < m /\ (n < m => n % m = n)
  <1>1. n % m \in 0..(m - 1)
    OBVIOUS
  <1>2. n < m => n % m = n
    OBVIOUS
  <1> QED BY <1>1, <1>2

\* Among naturals there is a least one.
LEMMA Least ==
  ASSUME NEW T \in SUBSET Nat, T # {}
  PROVE  \E t \in T : \A u \in T : t <= u
  <1> DEFINE R == OpToRel(<, Nat)
  <1>1. IsWellFoundedOn(R, Nat)
    BY NatLessThanWellFounded
  <1>2. \A x, y \in Nat : <<x, y>> \in R <=> x < y
    BY DEF OpToRel
  <1> HIDE DEF R
  <1>3. \E t \in T : \A u \in T : ~(<<u, t>> \in R)
    BY <1>1, WFMin
  <1>4. PICK t \in T : \A u \in T : ~(<<u, t>> \in R)
    BY <1>3
  <1>5. ASSUME NEW u \in T PROVE t <= u
    <2>1. t \in Nat /\ u \in Nat /\ ~(u < t)
      BY <1>2, <1>4
    <2> QED BY <2>1
  <1> QED BY <1>5

(***************************************************************************)
(* The inductive invariant.                                                *)
(***************************************************************************)
\* Before the walk.
Fresh ==
  at \in {"asked", "read"} => off = 0 /\ got = <<>> /\ ~again /\ ~beyond

\* The buffer that was allocated and what was read in it.
Filled ==
  /\ at \in {"read", "walk"} => buf = needed
  /\ at = "walk" => filled = count

\* The entries of the same size that were handed out, those of a job that is
\* trusted from the places the file has for them.
Regular ==
  /\ off = Len(got) * job.entsize
  /\ Trusted => \A i \in 1..Len(got) : got[i] = position + (i - 1) * job.entsize

OnTables == at = "walk" /\ job.op \in Tables => Len(got) <= job.num /\ Regular
OnSymbols == at = "walk" /\ job.op = "symbols" => off <= buf /\ Regular

\* Once an entry has come twice, the cursor is before the end for ever.
OnDynamics ==
  at = "walk" /\ job.op = "dynamics" =>
    IF again THEN /\ off < buf /\ ~Divides(job.entsize, job.size)
                  /\ job.entsize = 0 \/ ~avail(job.entsize)
             ELSE off <= buf /\ Regular

\* Where the note k starts, or the segment ends.
Where(k) == IF k > Len(job.notes) THEN job.size ELSE job.notes[k].at

OnNotes ==
  at = "walk" /\ job.op = "notes" /\ NotesWhole /\ ~Cut =>
    /\ Len(got) <= Len(job.notes) /\ off = Where(Len(got) + 1)
    /\ \A i \in 1..Len(got) : got[i] = job.offset + job.notes[i].at

\* Only the walk of a dynamic section comes twice to an entry.
Once == job.op # "dynamics" => ~again

Walks == OnTables /\ OnSymbols /\ OnDynamics /\ OnNotes /\ Once

IInv ==
  /\ Widths /\ TablesTypeOK /\ Fresh /\ Filled /\ Walks
  /\ TroubleHasCause /\ ReadWhereDeclared

(***************************************************************************)
(* What the fields of a job imply.                                         *)
(***************************************************************************)
LEMMA Fields ==
  ASSUME Widths, TablesTypeOK
  PROVE  /\ job.op \in Tables \cup Contents /\ job.class \in {32, 64} /\ job.length \in Nat
         /\ job.offset \in Nat /\ job.entsize \in Nat /\ job.num \in Nat
         /\ job.size \in Nat /\ job.filesz \in Nat /\ job.badName \in Nat
         /\ sizeOf \in Nat \ {0} /\ Word \in Nat \ {0} /\ IntTop \in Nat \ {0}
         /\ Mod32 \in Nat \ {0} /\ Mod32 = 2 * IntTop /\ position \in Nat /\ zeroed \in Nat
         /\ buf \in Nat /\ filled \in Nat /\ off \in Nat
         /\ got \in Seq(Nat \cup {Junk}) /\ Len(got) \in Nat
         /\ job.notes \in Seq([at : Nat, namesz : Nat, descsz : Nat]) /\ Len(job.notes) \in Nat
  <1>1. Asked(job)
    BY DEF TablesTypeOK
  <1>2. <<job.op, job.class>> \in (Tables \cup Contents) \X {32, 64}
    BY <1>1 DEF Asked
  <1>3. sizeOf \in Nat \ {0}
    BY <1>2 DEF Widths, sizeOf
  <1>4. Mod32 \in Nat \ {0} /\ Mod32 = 2 * IntTop /\ IntTop \in Nat \ {0}
    BY DEF Widths
  <1>5. position \in Nat
    BY <1>1, <1>4, Remainder DEF Asked, position
  <1>6. zeroed \in Nat
    BY <1>1 DEF Asked, zeroed
  <1>7. Len(got) \in Nat /\ Len(job.notes) \in Nat
    BY <1>1 DEF Asked, TablesTypeOK
  <1> QED BY <1>1, <1>3, <1>4, <1>5, <1>6, <1>7 DEF Asked, Widths, TablesTypeOK

\* What depends on the job alone stays.
LEMMA SameJob ==
  ASSUME job' = job
  PROVE  /\ needed' = needed /\ count' = count /\ position' = position /\ sizeOf' = sizeOf
         /\ (Trusted' <=> Trusted) /\ (NotesWhole' <=> NotesWhole) /\ (Cut' <=> Cut)
         /\ Declared' = Declared /\ (EmptyDescriptor' <=> EmptyDescriptor)
         /\ \A k : Where(k)' = Where(k) /\ (Overflows' <=> Overflows)
  <1>0. Overflows' <=> Overflows
    BY DEF Overflows, product
  <1>1. needed' = needed /\ count' = count
    BY DEF needed, count, wanted, bytes, product, sizeOf
  <1>2. position' = position /\ sizeOf' = sizeOf
    BY DEF position, sizeOf
  <1>3. (NotesWhole' <=> NotesWhole) /\ (Cut' <=> Cut) /\ (EmptyDescriptor' <=> EmptyDescriptor)
    BY DEF NotesWhole, Cut, EmptyDescriptor
  <1>4. Trusted' <=> Trusted
    BY <1>2, <1>3, <1>0 DEF Trusted
  <1>5. Declared' = Declared
    BY DEF Declared
  <1>6. \A k : Where(k)' = Where(k)
    BY DEF Where
  <1> QED BY <1>0, <1>1, <1>2, <1>3, <1>4, <1>5, <1>6

\* The size of a table in the buffer is the size of the table.
LEMMA TableBytes ==
  ASSUME Widths, TablesTypeOK, job.op \in Tables, bytes \in Nat
  PROVE  bytes = job.entsize * job.num /\ bytes < Mod32
  <1>1. /\ job.entsize \in Nat /\ job.num \in Nat /\ Mod32 = 2 * IntTop
        /\ IntTop \in Nat \ {0} /\ Mod32 \in Nat \ {0}
    BY Fields
  <1>2. job.entsize * job.num < Mod32
    BY DEF TablesTypeOK, Asked
  <1>3. product \in Nat /\ product < Mod32 /\ product = job.entsize * job.num
    BY <1>1, <1>2, Products DEF product
  <1> HIDE DEF product
  <1>4. AsInt(product) = IF product < IntTop THEN product ELSE product - Mod32
    BY DEF AsInt
  <1>5. CASE job.op = "sections" /\ job.class = 32
    <2>1. bytes = AsInt(product) % Mod32
      BY <1>5 DEF bytes
    <2>2. CASE product < IntTop
      BY <2>1, <2>2, <1>1, <1>3, <1>4, Remainder
    <2>3. CASE ~(product < IntTop)
      <3>1. (product - Mod32) % Mod32 = product
        BY <1>1, <1>3
      <3> QED BY <3>1, <2>1, <2>3, <1>3, <1>4
    <2> QED BY <2>2, <2>3
  <1>6. CASE ~(job.op = "sections" /\ job.class = 32)
    <2>1. bytes = AsInt(product)
      BY <1>6 DEF bytes
    <2> QED BY <2>1, <1>1, <1>3, <1>4
  <1> QED BY <1>5, <1>6

\* What is allocated and read for entries of one size: all of it, if trusted.
LEMMA EntryBytes ==
  ASSUME IInv, at = "walk", job.op # "notes"
  PROVE  /\ buf = IF job.op \in Tables THEN job.entsize * job.num ELSE job.size
         /\ Trusted => filled = buf
         /\ Trusted => \A n \in Nat : off + n <= buf => place(off, n) = position + off
  <1>1. /\ Widths /\ TablesTypeOK /\ buf = needed /\ filled = count /\ Mod32 \in Nat \ {0}
        /\ buf \in Nat /\ off \in Nat /\ job.offset \in Nat /\ job.size \in Nat
    BY Fields DEF IInv, Filled
  <1>2. buf = bytes /\ filled = bytes % Mod32
    BY <1>1 DEF needed, count, wanted
  <1>3. buf = IF job.op \in Tables THEN job.entsize * job.num ELSE job.size
    <2>1. CASE job.op \in Tables
      BY <2>1, <1>1, <1>2, TableBytes
    <2>2. CASE job.op \notin Tables
      BY <2>2, <1>2 DEF bytes
    <2> QED BY <2>1, <2>2
  <1>4. Trusted => filled = buf
    <2> SUFFICES ASSUME Trusted PROVE filled = buf
      OBVIOUS
    <2>1. job.size < Mod32
      BY <1>1 DEF Trusted
    <2>2. buf < Mod32
      BY <2>1, <1>1, <1>2, <1>3, TableBytes
    <2> QED BY <2>1, <2>2, <1>1, <1>2, Remainder
  <1>5. zeroed = 0
    BY DEF zeroed
  <1> QED BY <1>1, <1>3, <1>4, <1>5 DEF place

\* One entry more, of the same size.
LEMMA RegularStep ==
  ASSUME IInv, Regular, NEW x \in Nat \cup {Junk}, Trusted => x = position + off,
         job' = job, got' = Append(got, x), off' = off + job.entsize
  PROVE  Regular' /\ Len(got') = Len(got) + 1 /\ got' \in Seq(Nat \cup {Junk})
  <1>1. /\ job.entsize \in Nat /\ position \in Nat /\ off \in Nat /\ Len(got) \in Nat
        /\ got \in Seq(Nat \cup {Junk}) /\ off = Len(got) * job.entsize
    BY Fields DEF IInv, Regular
  <1>2. /\ Len(got') = Len(got) + 1 /\ got'[Len(got) + 1] = x /\ got' \in Seq(Nat \cup {Junk})
        /\ \A i \in 1..Len(got) : got'[i] = got[i]
    BY <1>1
  <1>3. off' = Len(got') * job.entsize
    BY <1>1, <1>2, Products
  <1>4. ASSUME Trusted, NEW i \in 1..Len(got')
        PROVE  got'[i] = position + (i - 1) * job.entsize
    <2>1. CASE i \in 1..Len(got)
      BY <2>1, <1>2, <1>4 DEF Regular
    <2>2. CASE i = Len(got) + 1
      <3>1. i - 1 = Len(got)
        BY <2>2, <1>1
      <3> QED BY <3>1, <2>2, <1>1, <1>2, <1>4
    <2> QED BY <2>1, <2>2, <1>1, <1>2
  <1>5. (Trusted' <=> Trusted) /\ position' = position
    BY SameJob
  <1> QED BY <1>2, <1>3, <1>4, <1>5 DEF Regular

(***************************************************************************)
(* Notes.                                                                  *)
(***************************************************************************)
LEMMA Elements ==
  ASSUME NEW S, NEW q \in Seq(S)
  PROVE  DOMAIN q = 1..Len(q) /\ \A k \in 1..Len(q) : q[k] \in S
  OBVIOUS

\* A number of whole words is not rounded.
LEMMA Rounded ==
  ASSUME Widths, NEW n \in Nat
  PROVE  roundup(n) \in Nat /\ (Divides(Word, n) => roundup(n) = n)
  <1>1. Word \in Nat \ {0} /\ n + Word - 1 \in Nat
    BY DEF Widths
  <1>2. roundup(n) \in Nat
    <2>1. (n + Word - 1) \div Word \in Nat
      BY <1>1, Quotient
    <2> QED BY <2>1, <1>1, Products DEF roundup
  <1>3. ASSUME Divides(Word, n) PROVE roundup(n) = n
    <2> DEFINE q == n \div Word
    <2>1. q \in Nat /\ q * Word = n
      BY <1>1, <1>3, Quotient DEF Divides
    <2>2. q * Word <= n + Word - 1 /\ n + Word - 1 < q * Word + Word
      BY <1>1, <2>1
    <2>3. (n + Word - 1) \div Word = q
      <3> HIDE DEF q
      <3> QED BY <1>1, <2>1, <2>2, Quotient
    <2>4. Word * q = n
      <3> HIDE DEF q
      <3> QED BY <1>1, <2>1
    <2> HIDE DEF q
    <2> QED BY <2>3, <2>4 DEF roundup
  <1> QED BY <1>2, <1>3

\* The notes of a job of whole words: each ends where the next one starts, at
\* later and later places, and no two start at the same one.
LEMMA NotesLemma ==
  ASSUME Widths, TablesTypeOK, job.op = "notes", NotesWhole
  PROVE  /\ Where(1) = 0
         /\ \A k \in 1..Len(job.notes) :
              LET n == job.notes[k] IN
                /\ Where(k) = n.at /\ n.at \in Nat /\ n.namesz \in Nat /\ n.descsz \in Nat
                /\ Where(k + 1) = n.at + 3 * Word + n.namesz + n.descsz
                /\ Where(k + 1) <= job.size
                /\ k < Len(job.notes) => Where(k + 1) + 3 * Word <= job.size
                /\ \A l \in 1..Len(job.notes) : job.notes[l].at = n.at => l = k
  <1> DEFINE N == Len(job.notes)
             note(k) == job.notes[k]
  <1>1. /\ N \in Nat /\ DOMAIN job.notes = 1..N /\ job.size \in Nat /\ Word \in Nat \ {0} /\ NotesPlaced(job)
        /\ \A k \in 1..N : note(k).at \in Nat /\ note(k).namesz \in Nat /\ note(k).descsz \in Nat
    <2>1. job.notes \in Seq([at : Nat, namesz : Nat, descsz : Nat]) /\ NotesPlaced(job)
      BY DEF TablesTypeOK, Asked
    <2>2. /\ DOMAIN job.notes = 1..N
          /\ \A k \in 1..N : job.notes[k] \in [at : Nat, namesz : Nat, descsz : Nat]
      BY <2>1, Elements
    <2>3. \A k \in 1..N : note(k).at \in Nat /\ note(k).namesz \in Nat /\ note(k).descsz \in Nat
      BY <2>2
    <2> QED BY <2>1, <2>2, <2>3, Fields
  <1>2. Where(1) = 0
    <2>1. CASE N = 0
      <3>1. job.notes = <<>>
        BY <2>1, <1>1, Fields
      <3> QED BY <3>1, <2>1, <1>1 DEF NotesPlaced, Where
    <2>2. CASE N # 0
      BY <2>2, <1>1 DEF NotesPlaced, Where
    <2> QED BY <2>1, <2>2
  <1>3. \A k \in 1..N : /\ Where(k) = note(k).at /\ Where(k) \in Nat
                        /\ Where(k + 1) = note(k).at + 3 * Word + note(k).namesz + note(k).descsz
    <2> TAKE k \in 1..N
    <2>1. note(k).at + 3 * Word + roundup(note(k).namesz) + roundup(note(k).descsz)
            = (IF k = N THEN job.size ELSE note(k + 1).at)
      BY <1>1 DEF NotesPlaced
    <2>2. Divides(Word, note(k).namesz) /\ Divides(Word, note(k).descsz)
      BY <1>1 DEF NotesWhole
    <2>3. roundup(note(k).namesz) = note(k).namesz /\ roundup(note(k).descsz) = note(k).descsz
      BY <2>2, <1>1, Rounded
    <2> QED BY <2>1, <2>3, <1>1 DEF Where
  <1> HIDE DEF N, note
  <1>4. \A k \in 1..N : Where(k) + 3 * Word <= Where(k + 1) /\ Where(k + 1) \in Nat
    BY <1>1, <1>3
  <1>5. Where(N + 1) = job.size
    BY <1>1 DEF Where, N
  \* The last note that would end after the segment.
  <1>6. \A k \in 1..N : Where(k + 1) <= job.size
    <2> DEFINE T == {d \in 0..(N - 1) : ~(Where(N - d + 1) <= job.size)}
    <2>1. ASSUME T # {} PROVE FALSE
      <3>1. T \in SUBSET Nat
        BY <1>1
      <3>2. PICK d \in T : \A u \in T : d <= u
        BY <2>1, <3>1, Least
      <3>3. d # 0
        BY <1>1, <1>5, <3>2
      <3>4. d \in 0..(N - 1)
        BY <3>2
      <3>5. d - 1 \notin T
        <4> HIDE DEF T
        <4> QED BY <3>2, <3>4, <1>1
      <3>6. d - 1 \in 0..(N - 1) /\ d - 1 \notin T /\ N - d + 1 \in 1..N
        BY <1>1, <3>3, <3>4, <3>5
      <3>7. Where(N - (d - 1) + 1) <= job.size
        BY <3>6
      <3>8. N - (d - 1) + 1 = (N - d + 1) + 1
        BY <1>1, <3>2
      <3>9. Where(N - d + 1) + 3 * Word <= Where((N - d + 1) + 1) /\ Where(N - d + 1) \in Nat
        BY <1>3, <1>4, <3>6
      <3>10. Where((N - d + 1) + 1) \in Nat
        BY <1>4, <3>6
      <3> QED BY <3>2, <3>7, <3>8, <3>9, <3>10, <1>1
    <2>2. ASSUME NEW k \in 1..N PROVE Where(k + 1) <= job.size
      <3>1. N - k \in 0..(N - 1) /\ N - (N - k) + 1 = k + 1
        BY <1>1
      <3> QED BY <2>1, <3>1
    <2> QED BY <2>2
  <1>7. \A k \in 1..N : k < N => Where(k + 1) + 3 * Word <= job.size
    <2> TAKE k \in 1..N
    <2> SUFFICES ASSUME k < N PROVE Where(k + 1) + 3 * Word <= job.size
      OBVIOUS
    <2>1. k + 1 \in 1..N
      BY <1>1
    <2>2. Where(k + 1) + 3 * Word <= Where((k + 1) + 1) /\ Where((k + 1) + 1) <= job.size
      BY <2>1, <1>4, <1>6
    <2> QED BY <2>1, <2>2, <1>1, <1>3, <1>4
  \* The first note after k that would start no later.
  <1>8. \A k, l \in 1..N : k < l => Where(k) < Where(l)
    <2> TAKE k \in 1..N
    <2> DEFINE T == {l \in 1..N : k < l /\ ~(Where(k) < Where(l))}
    <2>1. ASSUME T # {} PROVE FALSE
      <3>1. T \in SUBSET Nat
        BY <1>1
      <3>2. PICK l \in T : \A u \in T : l <= u
        BY <2>1, <3>1, Least
      <3>3. l - 1 \in 1..N /\ l - 1 \notin T /\ (l - 1) + 1 = l
        BY <1>1, <3>2
      <3>4. l - 1 = k \/ Where(k) < Where(l - 1)
        BY <3>2, <3>3, <1>1
      <3>5. Where(l - 1) + 3 * Word <= Where(l) /\ Where(l - 1) \in Nat /\ Where(l) \in Nat
        BY <3>2, <3>3, <1>3, <1>4
      <3>6. Where(k) \in Nat /\ ~(Where(k) < Where(l))
        BY <3>2, <1>3
      <3>7. CASE l - 1 = k
        <4>1. Where(l - 1) = Where(k)
          BY <3>7
        <4> QED BY <4>1, <3>5, <3>6, <1>1
      <3>8. CASE Where(k) < Where(l - 1)
        BY <3>8, <3>5, <3>6, <1>1
      <3> QED BY <3>4, <3>7, <3>8
    <2> QED BY <2>1
  <1>9. \A k, l \in 1..N : note(l).at = note(k).at => l = k
    <2> TAKE k, l \in 1..N
    <2>1. k < l \/ l < k \/ l = k
      BY <1>1
    <2>2. Where(k) = note(k).at /\ Where(l) = note(l).at /\ Where(k) \in Nat /\ Where(l) \in Nat
      BY <1>3
    <2> QED BY <2>1, <2>2, <1>8
  <1> QED BY <1>1, <1>2, <1>3, <1>6, <1>7, <1>9 DEF N, note

\* At a note of a job of whole words, read from its place: its sizes are those of
\* the note, it fits in the buffer, and it is at the end of it only if it is the
\* last one and has no descriptor.
LEMMA NoteHere ==
  ASSUME IInv, at = "walk", job.op = "notes", NotesWhole, ~Cut, off < buf
  PROVE  LET k == Len(got) + 1
             n == job.notes[k]
         IN /\ k \in 1..Len(job.notes) /\ off = n.at /\ n.namesz \in Nat /\ n.descsz \in Nat
            /\ Sizes = {<<n.namesz, n.descsz>>} /\ place(off, 3 * Word) = job.offset + n.at
            /\ Where(k + 1) = off + 3 * Word + n.namesz + n.descsz /\ Where(k + 1) <= buf
            /\ AtEnd(off + 3 * Word, <<n.namesz, n.descsz>>) => EmptyDescriptor
  <1> DEFINE N == Len(job.notes)
             k == Len(got) + 1
             n == job.notes[k]
  <1>1. /\ Widths /\ TablesTypeOK /\ Mod32 \in Nat \ {0} /\ Word \in Nat \ {0} /\ N \in Nat
        /\ Len(got) \in Nat /\ off \in Nat /\ job.size \in Nat /\ job.offset \in Nat
        /\ DOMAIN job.notes = 1..N
    BY Fields, Elements DEF IInv
  <1>2. buf = job.size /\ filled = job.size /\ position = job.offset /\ zeroed = 0
    <2>1. buf = bytes /\ filled = job.filesz % Mod32
      BY DEF IInv, Filled, needed, count, wanted
    <2>2. bytes = job.size /\ job.filesz = job.size
      BY DEF bytes, Tables, NotesWhole
    <2>3. job.size < Mod32 /\ job.offset < Mod32
      BY <1>1 DEF Cut
    <2>4. job.size % Mod32 = job.size /\ job.offset % Mod32 = job.offset
      BY <2>3, <1>1, Remainder
    <2>5. zeroed = 0
      BY <2>2, <1>1 DEF zeroed
    <2> QED BY <2>1, <2>2, <2>4, <2>5 DEF position
  <1>3. Len(got) <= N /\ off = Where(k)
    BY DEF IInv, Walks, OnNotes
  <1>4. k \in 1..N
    <2>1. Where(N + 1) = job.size
      BY <1>1 DEF Where
    <2>2. Len(got) # N
      BY <2>1, <1>1, <1>2, <1>3
    <2> QED BY <2>2, <1>1, <1>3
  <1>5. /\ Where(k) = n.at /\ n.at \in Nat /\ n.namesz \in Nat /\ n.descsz \in Nat
        /\ Where(k + 1) = n.at + 3 * Word + n.namesz + n.descsz
        /\ Where(k + 1) <= job.size
        /\ k < N => Where(k + 1) + 3 * Word <= job.size
        /\ \A l \in 1..N : job.notes[l].at = n.at => l = k
    BY <1>1, <1>4, NotesLemma
  <1> HIDE DEF N, k, n
  <1>6. place(off, 3 * Word) = job.offset + off
    BY <1>1, <1>2, <1>3, <1>5 DEF place
  <1>7. {i \in DOMAIN job.notes : job.notes[i].at = off /\ Genuine(3 * Word)} = {k}
    BY <1>1, <1>3, <1>4, <1>5, <1>6 DEF Genuine, n
  <1>8. Sizes = {<<n.namesz, n.descsz>>}
    BY <1>7 DEF Sizes, n
  <1>9. AtEnd(off + 3 * Word, <<n.namesz, n.descsz>>) => EmptyDescriptor
    <2> SUFFICES ASSUME AtEnd(off + 3 * Word, <<n.namesz, n.descsz>>) PROVE EmptyDescriptor
      OBVIOUS
    <2>1. \/ off + 3 * Word = job.size
          \/ (off + 3 * Word) + n.namesz = job.size /\ n.descsz = 0
      BY <1>2 DEF AtEnd
    <2>2. n.descsz = 0 /\ Where(k + 1) = job.size
      BY <2>1, <1>1, <1>3, <1>5
    <2>3. k = N
      <3>1. ~(k < N)
        BY <2>2, <1>1, <1>5
      <3> QED BY <3>1, <1>1, <1>4
    <2>4. job.notes # <<>>
      BY <1>1, <1>4
    <2> QED BY <2>2, <2>3, <2>4 DEF EmptyDescriptor, N, n
  <1> QED BY <1>2, <1>3, <1>4, <1>5, <1>6, <1>8, <1>9 DEF N, k, n

(***************************************************************************)
(* The steps.                                                              *)
(***************************************************************************)
\* A job that stops, for a cause or with the entries of the file.
LEMMA StopInv ==
  ASSUME IInv, UNCHANGED <<job, buf, filled, off, got, again>>, beyond' \in BOOLEAN,
         at' \in {"done", "threw", "killed", "aborted"},
         TroubleHasCause', at' = "done" /\ Trusted => got = Declared /\ ~again
  PROVE  IInv'
  <1>1. Widths' /\ TablesTypeOK'
    BY DEF IInv, Widths, TablesTypeOK
  <1>2. Fresh' /\ Filled'
    BY DEF IInv, Fresh, Filled
  <1>3. Walks'
    BY DEF IInv, Walks, OnTables, OnSymbols, OnDynamics, OnNotes, Once
  <1>4. ReadWhereDeclared'
    BY SameJob DEF ReadWhereDeclared
  <1> QED BY <1>1, <1>2, <1>3, <1>4 DEF IInv

\* A job that goes on, or is killed for having left its buffer.
LEMMA GoesTrouble ==
  ASSUME IInv, job' = job, at' \in {"walk", "killed"}, beyond' \in BOOLEAN,
         beyond' => beyond \/ IF job.op = "notes" THEN job.filesz > job.size
                              ELSE \/ job.entsize < sizeOf \/ Overflows
                                   \/ job.op = "dynamics" /\ ~Divides(job.entsize, job.size),
         at' = "killed" => beyond'
  PROVE  TroubleHasCause' /\ ReadWhereDeclared'
  <1>1. beyond => IF job.op = "notes" THEN job.filesz > job.size
                  ELSE \/ job.entsize < sizeOf \/ Overflows
                       \/ job.op = "dynamics" /\ ~Divides(job.entsize, job.size)
    BY DEF IInv, TroubleHasCause
  <1>2. sizeOf' = sizeOf /\ (Overflows' <=> Overflows)
    BY SameJob
  <1>3. TroubleHasCause'
    BY <1>1, <1>2 DEF TroubleHasCause, Divides
  <1>4. ReadWhereDeclared'
    BY DEF ReadWhereDeclared
  <1> QED BY <1>3, <1>4

LEMMA GoesLemma ==
  ASSUME TablesTypeOK, NEW o, NEW n, Goes("walk", o, n)
  PROVE  /\ at' \in {"walk", "killed"} /\ beyond' \in BOOLEAN
         /\ beyond' => beyond \/ Beyond(o, n)
         /\ at' = "killed" => beyond'
  <1>1. beyond \in BOOLEAN
    BY DEF TablesTypeOK
  <1>2. Beyond(o, n) \in BOOLEAN
    BY DEF Beyond
  <1>3. beyond' = (beyond \/ Beyond(o, n)) /\ at' \in {"walk"} \cup (IF Beyond(o, n) THEN {"killed"} ELSE {})
    BY DEF Goes
  <1> HIDE DEF Beyond
  <1> QED BY <1>1, <1>2, <1>3

LEMMA AllocateInv == ASSUME IInv, Allocate PROVE IInv'
  <1>1. /\ at = "asked" /\ UNCHANGED <<job, filled, off, got, again, beyond>>
        /\ Widths /\ TablesTypeOK /\ off = 0 /\ got = <<>> /\ ~again /\ ~beyond
    BY DEF IInv, Fresh, Allocate
  <1>2. needed' = needed /\ Memory \in Nat
    BY <1>1, SameJob DEF Widths
  <1>3. CASE needed \in 0..Memory
    <2>1. at' = "read" /\ buf' = needed /\ needed \in Nat
      BY <1>2, <1>3 DEF Allocate
    <2>2. Widths' /\ TablesTypeOK'
      BY <1>1, <2>1 DEF Widths, TablesTypeOK
    <2>3. Fresh' /\ Filled' /\ Walks'
      BY <1>1, <1>2, <2>1
         DEF Fresh, Filled, Walks, OnTables, OnSymbols, OnDynamics, OnNotes, Once
    <2>4. TroubleHasCause' /\ ReadWhereDeclared'
      BY <1>1, <2>1 DEF TroubleHasCause, ReadWhereDeclared
    <2> QED BY <2>2, <2>3, <2>4 DEF IInv
  <1>4. CASE needed \notin 0..Memory
    <2>1. at' = "killed" /\ buf' = buf
      BY <1>4 DEF Allocate
    <2>2. TroubleHasCause'
      BY <1>1, <1>2, <1>4, <2>1 DEF TroubleHasCause, Widths
    <2> QED BY <1>1, <2>1, <2>2, StopInv DEF TablesTypeOK
  <1> QED BY <1>3, <1>4

LEMMA ReadInv == ASSUME IInv, Read PROVE IInv'
  <1>1. /\ at = "read" /\ UNCHANGED <<job, buf, off, got, again>> /\ filled' = count
        /\ Widths /\ TablesTypeOK /\ off = 0 /\ got = <<>> /\ ~again /\ ~beyond /\ buf = needed
        /\ Goes("walk", 0, count)
    BY DEF IInv, Fresh, Filled, Read
  <1>2. /\ buf \in Nat /\ job.filesz \in Nat /\ job.size \in Nat /\ job.entsize \in Nat
        /\ job.num \in Nat /\ Mod32 \in Nat \ {0}
    BY <1>1, Fields
  <1>3. IF job.op = "notes" THEN count = job.filesz % Mod32 /\ buf = job.size
        ELSE count = buf % Mod32
    BY <1>1 DEF count, wanted, needed, bytes, Tables
  <1>4. /\ count \in Nat
        /\ count > buf => job.op = "notes" /\ job.filesz > job.size
    BY <1>2, <1>3, Remainder
  <1>5. /\ at' \in {"walk", "killed"} /\ beyond' \in BOOLEAN
        /\ beyond' => beyond \/ Beyond(0, count)
        /\ at' = "killed" => beyond'
    BY <1>1, GoesLemma
  <1>6. beyond' => job.op = "notes" /\ job.filesz > job.size
    <2>1. Beyond(0, count) => count > buf
      BY <1>2, <1>4 DEF Beyond
    <2> QED BY <2>1, <1>1, <1>4, <1>5
  <1>7. TroubleHasCause' /\ ReadWhereDeclared'
    BY <1>1, <1>5, <1>6, GoesTrouble
  <1>8. Widths' /\ TablesTypeOK'
    BY <1>1, <1>4, <1>5 DEF Widths, TablesTypeOK
  <1>9. needed' = needed /\ count' = count
    BY <1>1, SameJob
  <1>10. Fresh' /\ Filled'
    BY <1>1, <1>5, <1>9 DEF Fresh, Filled
  <1>11. Len(got) = 0 /\ 0 * job.entsize = 0
    BY <1>1, <1>2
  <1>12. Regular'
    BY <1>1, <1>11 DEF Regular
  <1>13. OnNotes'
    <2> SUFFICES ASSUME job.op = "notes", NotesWhole PROVE OnNotes'
      BY <1>1, SameJob DEF OnNotes
    <2>1. Where(1) = 0 /\ Len(job.notes) \in Nat
      BY <1>1, NotesLemma, Fields
    <2>2. Where(Len(got) + 1)' = Where(1)
      BY <1>1, <1>11, SameJob
    <2> QED BY <1>1, <1>11, <2>1, <2>2 DEF OnNotes
  <1>14. Walks'
    BY <1>1, <1>2, <1>11, <1>12, <1>13 DEF Walks, OnTables, OnSymbols, OnDynamics, Once
  <1> QED BY <1>7, <1>8, <1>10, <1>14 DEF IInv

\* The places of entries.
LEMMA PlaceType ==
  ASSUME Widths, TablesTypeOK, NEW o \in Int, NEW n
  PROVE  place(o, n) \in Nat \cup {Junk}
  <1>1. position \in Nat /\ zeroed \in Nat
    BY Fields
  <1>2. zeroed <= o => position + o \in Nat
    BY <1>1
  <1> QED BY <1>2 DEF place

LEMMA TakeHeaderInv == ASSUME IInv, TakeHeader PROVE IInv'
  <1>0. PICK here \in {off, AsInt(off)} :
          got' = Append(got, place(here, sizeOf)) /\ Goes("walk", here, sizeOf)
    BY DEF TakeHeader
  <1>1. /\ at = "walk" /\ job.op \in Tables /\ Len(got) < job.num
        /\ got' = Append(got, place(here, sizeOf)) /\ off' = off + job.entsize
        /\ Goes("walk", here, sizeOf) /\ UNCHANGED <<job, buf, filled, again>>
        /\ Widths /\ TablesTypeOK /\ Regular
    BY <1>0 DEF IInv, Walks, OnTables, TakeHeader
  <1>2. /\ buf \in Nat /\ off \in Nat /\ job.entsize \in Nat /\ job.num \in Nat /\ Len(got) \in Nat
        /\ sizeOf \in Nat \ {0} /\ IntTop \in Nat \ {0} /\ Mod32 \in Nat \ {0} /\ job.op \notin {"notes", "symbols", "dynamics"}
    BY <1>1, Fields DEF Tables
  <1>3. off + job.entsize <= buf
    <2>1. buf = job.entsize * job.num
      BY <1>1, <1>2, EntryBytes
    <2>2. (Len(got) + 1) * job.entsize <= job.num * job.entsize
      BY <1>1, <1>2, Products
    <2>3. (Len(got) + 1) * job.entsize = off + job.entsize
      BY <1>1, <1>2, Products DEF Regular
    <2>4. job.num * job.entsize = job.entsize * job.num
      BY <1>2
    <2> QED BY <2>1, <2>2, <2>3, <2>4
  <1>13. here \in Int /\ (here = off \/ Overflows)
    <2>1. here = off \/ (here = off - Mod32 /\ off >= IntTop)
      BY <1>0, <1>2 DEF AsInt
    <2>2. CASE off >= IntTop
      <3>1. buf = product
        BY <1>1, <1>2, EntryBytes DEF product
      <3>2. job.entsize # 0
        <4>1. job.entsize = 0 => off = 0
          BY <1>1, <1>2 DEF Regular
        <4> QED BY <4>1, <2>2, <1>2
      <3>3. buf > IntTop
        BY <3>2, <1>2, <1>3, <2>2
      <3> QED BY <2>1, <3>1, <3>3, <1>1, <1>2 DEF Overflows
    <2> QED BY <2>1, <2>2, <1>2
  <1>4. Beyond(here, sizeOf) => job.entsize < sizeOf \/ Overflows
    <2>1. here = off => (Beyond(here, sizeOf) => job.entsize < sizeOf)
      BY <1>2, <1>3 DEF Beyond
    <2> QED BY <2>1, <1>13
  <1>5. /\ at' \in {"walk", "killed"} /\ beyond' \in BOOLEAN
        /\ beyond' => beyond \/ Beyond(here, sizeOf)
        /\ at' = "killed" => beyond'
    BY <1>1, GoesLemma
  <1>6. TroubleHasCause' /\ ReadWhereDeclared'
    BY <1>1, <1>2, <1>4, <1>5, GoesTrouble
  <1>7. place(here, sizeOf) \in Nat \cup {Junk}
    BY <1>1, <1>13, PlaceType
  <1>8. Trusted => place(here, sizeOf) = position + off
    <2>1. Trusted => off + sizeOf <= buf /\ here = off
      BY <1>2, <1>3, <1>13 DEF Trusted
    <2> QED BY <2>1, <1>1, <1>2, EntryBytes
  <1>9. Regular' /\ Len(got') = Len(got) + 1 /\ got' \in Seq(Nat \cup {Junk})
    BY <1>1, <1>7, <1>8, RegularStep
  <1>10. Widths' /\ TablesTypeOK'
    <2>1. off' \in Nat /\ job' \in Jobs /\ Asked(job)'
      BY <1>1, <1>2 DEF TablesTypeOK
    <2> QED BY <2>1, <1>1, <1>5, <1>9 DEF Widths, TablesTypeOK
  <1>11. Fresh' /\ Filled'
    BY <1>1, <1>5, SameJob DEF IInv, Fresh, Filled
  <1>12. Walks'
    BY <1>1, <1>2, <1>9 DEF IInv, Walks, OnTables, OnSymbols, OnDynamics, OnNotes, Once
  <1> QED BY <1>6, <1>10, <1>11, <1>12 DEF IInv

LEMMA TakeSymbolInv == ASSUME IInv, TakeSymbol PROVE IInv'
  <1>1. /\ at = "walk" /\ job.op = "symbols" /\ off + job.entsize <= buf
        /\ got' = Append(got, place(off, sizeOf)) /\ off' = off + job.entsize
        /\ UNCHANGED <<job, buf, filled, again>>
        /\ Widths /\ TablesTypeOK /\ Regular
    BY DEF IInv, Walks, OnSymbols, TakeSymbol, avail
  <1>2. /\ buf \in Nat /\ off \in Nat /\ job.entsize \in Nat /\ Len(got) \in Nat
        /\ sizeOf \in Nat \ {0} /\ job.op \notin Tables
    BY <1>1, Fields DEF Tables
  <1>4. Beyond(off, sizeOf) => job.entsize < sizeOf
    BY <1>1, <1>2 DEF Beyond
  <1>7. place(off, sizeOf) \in Nat \cup {Junk}
    BY <1>1, <1>2, PlaceType
  <1>8. Trusted => job.entsize >= sizeOf /\ place(off, sizeOf) = position + off
    <2>1. Trusted => off + sizeOf <= buf /\ job.entsize >= sizeOf
      BY <1>1, <1>2 DEF Trusted
    <2> QED BY <2>1, <1>1, <1>2, EntryBytes
  <1>9. Regular' /\ Len(got') = Len(got) + 1 /\ got' \in Seq(Nat \cup {Junk})
    BY <1>1, <1>7, <1>8, RegularStep
  <1>11. CASE Goes("walk", off, sizeOf)
    <2>1. /\ at' \in {"walk", "killed"} /\ beyond' \in BOOLEAN
          /\ beyond' => beyond \/ Beyond(off, sizeOf)
          /\ at' = "killed" => beyond'
      BY <1>1, <1>11, GoesLemma
    <2>2. TroubleHasCause' /\ ReadWhereDeclared'
      BY <1>1, <1>2, <1>4, <2>1, GoesTrouble
    <2>3. Widths' /\ TablesTypeOK'
      BY <1>1, <1>2, <1>9, <2>1 DEF Widths, TablesTypeOK
    <2>4. Fresh' /\ Filled'
      BY <1>1, <2>1, SameJob DEF IInv, Fresh, Filled
    <2>5. Walks'
      BY <1>1, <1>2, <1>9 DEF IInv, Walks, OnTables, OnSymbols, OnDynamics, OnNotes, Once
    <2> QED BY <2>2, <2>3, <2>4, <2>5 DEF IInv
  <1>12. CASE /\ Len(got') = job.badName \/ AnyName
              /\ at' = "aborted" /\ beyond' = (beyond \/ Beyond(off, sizeOf))
    <2>1. job.badName # 0 \/ job.entsize < sizeOf \/ Cut
      <3>1. CASE Len(got') = job.badName
        BY <3>1, <1>2, <1>9
      <3>2. CASE AnyName
        <4>1. job.entsize >= sizeOf /\ ~Cut => Trusted /\ position = job.offset
          <5>1. /\ job.op = "symbols" /\ Mod32 \in Nat \ {0}
                /\ job.offset \in Nat /\ job.size \in Nat
            BY <1>1, <1>2, Fields
          <5>2. ~Cut => job.size < Mod32 /\ job.offset < Mod32
            BY <5>1 DEF Cut
          <5>3. ~Cut => position = job.offset
            BY <5>1, <5>2, Remainder DEF position
          <5> QED BY <5>1, <5>2, <5>3 DEF Trusted, Overflows, Tables
        <4> QED BY <4>1, <3>2, <1>2, <1>8 DEF AnyName, Genuine
      <3> QED BY <3>1, <3>2, <1>12
    <2>2. beyond' \in BOOLEAN /\ (beyond' => beyond \/ Beyond(off, sizeOf))
      <3>1. beyond \in BOOLEAN
        BY <1>1 DEF TablesTypeOK
      <3> HIDE DEF Beyond
      <3> QED BY <3>1, <1>12
    <2>3. beyond' => job.entsize < sizeOf
      BY <2>2, <1>1, <1>2, <1>4 DEF IInv, TroubleHasCause, Overflows
    <2>4. TroubleHasCause' /\ ReadWhereDeclared'
      BY <1>1, <1>12, <2>1, <2>3, SameJob DEF TroubleHasCause, ReadWhereDeclared
    <2>5. Widths' /\ TablesTypeOK'
      BY <1>1, <1>2, <1>9, <1>12, <2>2 DEF Widths, TablesTypeOK
    <2>6. Fresh' /\ Filled' /\ Walks'
      BY <1>1, <1>12 DEF IInv, Fresh, Filled, Walks, OnTables, OnSymbols, OnDynamics, OnNotes, Once
    <2> QED BY <2>4, <2>5, <2>6 DEF IInv
  <1> QED BY <1>11, <1>12 DEF TakeSymbol

\* A multiple of the size of an entry, before another one.
LEMMA WholeEntry ==
  ASSUME IInv, at = "walk", job.op = "dynamics", off # buf, Divides(job.entsize, job.size)
  PROVE  ~again /\ off + job.entsize <= buf
  <1>1. /\ buf \in Nat /\ off \in Nat /\ job.entsize \in Nat /\ Len(got) \in Nat
        /\ buf = job.size /\ OnDynamics
    BY Fields, EntryBytes DEF IInv, Walks, Tables
  <1> DEFINE q == job.size \div job.entsize
  <1>2. q \in Nat /\ q * job.entsize = buf /\ job.entsize # 0
    BY <1>1, Quotient DEF Divides
  <1> HIDE DEF q
  <1>3. ~again
    BY <1>1 DEF OnDynamics
  <1>4. off <= buf /\ off = Len(got) * job.entsize
    BY <1>3, <1>1 DEF OnDynamics, Regular
  <1>5. Len(got) < q
    <2>1. q <= Len(got) => q * job.entsize <= Len(got) * job.entsize
      BY <1>1, <1>2, Products
    <2> QED BY <2>1, <1>1, <1>2, <1>4
  <1>6. (Len(got) + 1) * job.entsize <= q * job.entsize
    BY <1>1, <1>2, <1>5, Products
  <1>7. (Len(got) + 1) * job.entsize = Len(got) * job.entsize + job.entsize
    BY <1>1, Products
  <1> QED BY <1>2, <1>3, <1>4, <1>6, <1>7

LEMMA TakeDynInv == ASSUME IInv, TakeDyn PROVE IInv'
  <1>1. /\ at = "walk" /\ job.op = "dynamics" /\ off # buf /\ off' = skipped(job.entsize)
        /\ again' = (again \/ off' = off)
        /\ got' = IF again THEN got ELSE Append(got, place(off, sizeOf))
        /\ Goes("walk", off, sizeOf) /\ UNCHANGED <<job, buf, filled>>
        /\ Widths /\ TablesTypeOK /\ OnDynamics
    BY DEF IInv, Walks, TakeDyn
  <1>2. /\ buf \in Nat /\ off \in Nat /\ job.entsize \in Nat /\ Len(got) \in Nat
        /\ sizeOf \in Nat \ {0} /\ job.op \notin Tables /\ job.op # "notes" /\ buf = job.size
        /\ again \in BOOLEAN /\ got \in Seq(Nat \cup {Junk})
    BY <1>1, Fields, EntryBytes DEF Tables, TablesTypeOK
  <1>3. off' = IF off + job.entsize <= buf THEN off + job.entsize ELSE off
    BY <1>1 DEF skipped, avail
  <1>4. Divides(job.entsize, job.size) => ~again /\ off + job.entsize <= buf
    BY <1>1, WholeEntry
  <1>5. Beyond(off, sizeOf) =>
          \/ job.entsize < sizeOf
          \/ job.op = "dynamics" /\ ~Divides(job.entsize, job.size)
    <2>1. ASSUME job.entsize >= sizeOf, Divides(job.entsize, job.size)
          PROVE  ~Beyond(off, sizeOf)
      BY <2>1, <1>2, <1>4 DEF Beyond
    <2>2. job.entsize < sizeOf \/ job.entsize >= sizeOf
      BY <1>2
    <2>3. job.op = "dynamics"
      BY <1>1
    <2>4. CASE job.entsize >= sizeOf /\ Divides(job.entsize, job.size)
      BY <2>1, <2>4
    <2> QED BY <2>2, <2>3, <2>4
  <1>6. /\ at' \in {"walk", "killed"} /\ beyond' \in BOOLEAN
        /\ beyond' => beyond \/ Beyond(off, sizeOf)
        /\ at' = "killed" => beyond'
    BY <1>1, GoesLemma
  <1>7. TroubleHasCause' /\ ReadWhereDeclared'
    BY <1>1, <1>2, <1>5, <1>6, GoesTrouble
  <1>8. place(off, sizeOf) \in Nat \cup {Junk}
    BY <1>1, <1>2, PlaceType
  <1>9. got' \in Seq(Nat \cup {Junk}) /\ again' \in BOOLEAN /\ off' \in Nat
    BY <1>1, <1>2, <1>3, <1>8
  <1>10. Widths' /\ TablesTypeOK'
    BY <1>1, <1>6, <1>9 DEF Widths, TablesTypeOK
  <1>11. Fresh' /\ Filled'
    BY <1>1, <1>6, SameJob DEF IInv, Fresh, Filled
  <1>12. OnDynamics'
    <2>1. CASE again'
      <3>1. off' = off
        BY <2>1, <1>1, <1>2, <1>3 DEF OnDynamics, avail
      <3>2. ~Divides(job.entsize, job.size)
        <4>1. Divides(job.entsize, job.size) => job.entsize # 0
          BY DEF Divides
        <4> QED BY <4>1, <3>1, <1>2, <1>3, <1>4
      <3>3. job.entsize = 0 \/ ~(off + job.entsize <= buf)
        BY <3>1, <1>2, <1>3
      <3>4. off < buf
        BY <1>1, <1>2 DEF OnDynamics
      <3> QED BY <2>1, <3>1, <3>2, <3>3, <3>4, <1>1 DEF OnDynamics, avail, Divides
    <2>2. CASE ~again'
      <3>1. ~again /\ off' = off + job.entsize /\ off + job.entsize <= buf
        BY <2>2, <1>1, <1>3
      <3>2. Trusted => off + sizeOf <= buf
        BY <3>1, <1>1, <1>2 DEF Trusted
      <3>3. Trusted => place(off, sizeOf) = position + off
        BY <3>2, <1>1, <1>2, EntryBytes
      <3>4. Regular
        BY <3>1, <1>1 DEF OnDynamics
      <3>5. Regular'
        BY <3>1, <3>3, <3>4, <1>1, <1>8, RegularStep
      <3> QED BY <2>2, <3>1, <3>5, <1>1 DEF OnDynamics
    <2> QED BY <2>1, <2>2
  <1>13. Walks'
    BY <1>1, <1>2, <1>12 DEF Walks, OnTables, OnSymbols, OnNotes, Once
  <1> QED BY <1>7, <1>10, <1>11, <1>13 DEF IInv

LEMMA TakeNoteInv == ASSUME IInv, TakeNote PROVE IInv'
  <1>1. /\ at = "walk" /\ job.op = "notes" /\ off < buf
        /\ UNCHANGED <<job, at, buf, filled, again, beyond>>
        /\ Widths /\ TablesTypeOK
    BY DEF IInv, TakeNote
  <1>2. PICK sizes \in Sizes :
          LET start == off + 3 * Word IN
            /\ skip(start, sizes) <= buf /\ ~AtEnd(start, sizes)
            /\ got' = Append(got, place(off, 3 * Word))
            /\ off' = skip(start, sizes)
    BY DEF TakeNote
  <1>3. /\ off \in Nat /\ Len(got) \in Nat /\ got \in Seq(Nat \cup {Junk}) /\ Word \in Nat \ {0}
        /\ place(off, 3 * Word) \in Nat \cup {Junk}
        /\ job.notes \in Seq([at : Nat, namesz : Nat, descsz : Nat])
    BY <1>1, Fields, PlaceType
  <1>4. sizes[1] \in Nat /\ sizes[2] \in Nat
    <2>1. \A i \in DOMAIN job.notes : job.notes[i] \in [at : Nat, namesz : Nat, descsz : Nat]
      BY <1>3, Elements
    <2>2. \A i \in DOMAIN job.notes : job.notes[i].namesz \in Nat /\ job.notes[i].descsz \in Nat
      BY <2>1
    <2>3. NoteSizes \subseteq Nat
      BY <1>1 DEF Widths
    <2>4. Sizes \subseteq Nat \X Nat
      <3>1. NoteSizes \X NoteSizes \subseteq Nat \X Nat /\ <<0, 0>> \in Nat \X Nat
        BY <2>3
      <3>2. \A i \in DOMAIN job.notes : <<job.notes[i].namesz, job.notes[i].descsz>> \in Nat \X Nat
        BY <2>2
      <3> QED BY <3>1, <3>2 DEF Sizes
    <2> QED BY <2>4
  <1>5. /\ off' = off + 3 * Word + sizes[1] + sizes[2] /\ off' \in Nat
        /\ got' = Append(got, place(off, 3 * Word))
    BY <1>2, <1>3, <1>4 DEF skip
  <1>6. /\ got' \in Seq(Nat \cup {Junk}) /\ Len(got') = Len(got) + 1
        /\ got'[Len(got) + 1] = place(off, 3 * Word)
        /\ \A i \in 1..Len(got) : got'[i] = got[i]
    BY <1>3, <1>5
  <1>7. Widths' /\ TablesTypeOK'
    BY <1>1, <1>5, <1>6 DEF Widths, TablesTypeOK
  <1>8. Fresh' /\ Filled' /\ TroubleHasCause' /\ ReadWhereDeclared'
    BY <1>1, SameJob DEF IInv, Fresh, Filled, TroubleHasCause, ReadWhereDeclared, Divides
  <1>9. OnNotes'
    <2> SUFFICES ASSUME NotesWhole, ~Cut PROVE OnNotes'
      BY <1>1, SameJob DEF OnNotes
    <2> DEFINE k == Len(got) + 1
               n == job.notes[k]
    <2>1. /\ k \in 1..Len(job.notes) /\ Sizes = {<<n.namesz, n.descsz>>}
          /\ place(off, 3 * Word) = job.offset + n.at
          /\ Where(k + 1) = off + 3 * Word + n.namesz + n.descsz
      BY <1>1, NoteHere
    <2>2. off' = Where(k + 1)
      BY <2>1, <1>2, <1>5
    <2>3. Len(got') = k /\ k \in Nat
      BY <1>3, <1>6
    <2>4. Where(Len(got) + 1)' = Where(k + 1)
      <3>1. Where(Len(got) + 1)' = Where(Len(got') + 1)
        BY <1>1 DEF Where
      <3> QED BY <3>1, <2>3
    <2>5. \A i \in 1..Len(got') : got'[i] = job.offset + job.notes[i].at
      <3> TAKE i \in 1..Len(got')
      <3>1. CASE i \in 1..Len(got)
        BY <3>1, <1>1, <1>6 DEF IInv, Walks, OnNotes
      <3>2. CASE i = k
        BY <3>2, <2>1, <1>6
      <3> QED BY <3>1, <3>2, <2>3, <1>3
    <2> HIDE DEF n
    <2> QED BY <2>1, <2>2, <2>3, <2>4, <2>5, <1>1 DEF OnNotes
  <1>10. Walks'
    BY <1>1, <1>9 DEF IInv, Walks, OnTables, OnSymbols, OnDynamics, Once, Tables
  <1> QED BY <1>7, <1>8, <1>10 DEF IInv

\* A job that ends.
LEMMA EndInv ==
  ASSUME IInv, HeadersEnd \/ SymbolsEnd \/ DynsEnd \/ NotesEnd
  PROVE  IInv'
  <1>1. /\ at = "walk" /\ at' = "done" /\ UNCHANGED <<job, buf, filled, off, got, again, beyond>>
        /\ Widths /\ TablesTypeOK
    BY DEF IInv, HeadersEnd, SymbolsEnd, DynsEnd, NotesEnd
  <1>2. beyond' \in BOOLEAN
    BY <1>1 DEF TablesTypeOK
  <1>3. TroubleHasCause'
    BY <1>1, SameJob DEF IInv, TroubleHasCause, Divides
  <1>4. /\ job.entsize \in Nat /\ job.num \in Nat /\ job.size \in Nat /\ Len(got) \in Nat
        /\ sizeOf \in Nat \ {0} /\ off \in Nat /\ buf \in Nat /\ got \in Seq(Nat \cup {Junk})
        /\ Len(job.notes) \in Nat
    BY <1>1, Fields
  <1>5. ASSUME Trusted PROVE got = Declared /\ ~again
    <2>1. CASE HeadersEnd
      <3>1. job.op \in Tables /\ job.op # "dynamics" /\ Len(got) = job.num /\ Regular
        BY <2>1, <1>1 DEF HeadersEnd, Tables, IInv, Walks, OnTables
      <3>2. Declared = [i \in 1..job.num |-> position + (i - 1) * job.entsize]
        BY <3>1 DEF Declared, Tables, position
      <3>3. got = Declared
        BY <3>1, <3>2, <1>4, <1>5 DEF Regular
      <3> QED BY <3>1, <3>3 DEF IInv, Walks, Once
    <2>2. ASSUME SymbolsEnd \/ DynsEnd
          PROVE  got = Declared /\ ~again
      <3>1. job.op \in {"symbols", "dynamics"} /\ job.entsize \in Nat \ {0}
        BY <2>2, <1>4, <1>5 DEF SymbolsEnd, DynsEnd, Trusted
      <3>2. ~again /\ Regular /\ off <= buf /\ off + job.entsize > buf
        <4>1. CASE SymbolsEnd
          BY <4>1, <1>1, <1>4 DEF SymbolsEnd, IInv, Walks, OnSymbols, Once, avail
        <4>2. CASE DynsEnd
          BY <4>2, <3>1, <1>1, <1>4 DEF DynsEnd, IInv, Walks, OnDynamics
        <4> QED BY <2>2, <4>1, <4>2
      <3>3. buf = job.size
        BY <3>1, <1>1, EntryBytes DEF Tables
      <3>4. job.size \div job.entsize = Len(got)
        BY <3>1, <3>2, <3>3, <1>4, Quotient DEF Regular
      <3>5. Declared = [i \in 1..Len(got) |-> position + (i - 1) * job.entsize]
        BY <3>1, <3>4 DEF Declared, Tables, position
      <3>6. got = Declared
        BY <3>2, <3>5, <1>4, <1>5 DEF Regular
      <3> QED BY <3>2, <3>6
    <2>3. CASE NotesEnd
      <3>1. job.op = "notes" /\ off >= buf /\ NotesWhole /\ ~Cut
        BY <2>3, <1>5 DEF NotesEnd, Trusted
      <3>2. /\ Len(got) <= Len(job.notes) /\ off = Where(Len(got) + 1)
            /\ \A i \in 1..Len(got) : got[i] = job.offset + job.notes[i].at
        BY <3>1, <1>1 DEF IInv, Walks, OnNotes
      <3>3. buf = job.size
        BY <3>1, <1>1 DEF IInv, Filled, needed, bytes, Tables
      <3>4. Len(got) = Len(job.notes)
        <4> SUFFICES ASSUME Len(got) < Len(job.notes) PROVE FALSE
          BY <3>2, <1>4
        <4> DEFINE k == Len(got) + 1
        <4>1. k \in 1..Len(job.notes)
          BY <1>4
        <4>2. /\ Where(k) = job.notes[k].at /\ job.notes[k].at \in Nat
              /\ job.notes[k].namesz \in Nat /\ job.notes[k].descsz \in Nat
              /\ Where(k + 1) = job.notes[k].at + 3 * Word + job.notes[k].namesz + job.notes[k].descsz
              /\ Where(k + 1) <= job.size
          BY <4>1, <3>1, <1>1, NotesLemma
        <4>3. Word \in Nat \ {0}
          BY <1>1, Fields
        <4>4. off = Where(k)
          BY <3>2
        <4> HIDE DEF k
        <4>5. Where(k) < Where(k + 1) /\ Where(k) \in Nat /\ Where(k + 1) \in Nat
          BY <4>2, <4>3
        <4> QED BY <4>2, <4>4, <4>5, <3>1, <3>3, <1>4
      <3>5. Declared = [i \in 1..Len(job.notes) |-> job.offset + job.notes[i].at]
        BY <3>1 DEF Declared, Tables
      <3>6. got = Declared
        BY <3>2, <3>4, <3>5, <1>4
      <3> QED BY <3>1, <3>6 DEF IInv, Walks, Once
    <2> QED BY <2>1, <2>2, <2>3
  <1> QED BY <1>1, <1>2, <1>3, <1>5, StopInv

\* A job that is refused or that fails an assertion.
LEMMA RefusedInv ==
  ASSUME IInv, ReadThrows \/ SymbolsRefused \/ NoteAborts \/ NoteThrows
  PROVE  IInv'
  <1>1. /\ UNCHANGED <<job, buf, filled, off, got, again, beyond>> /\ Widths /\ TablesTypeOK
        /\ at' \in {"threw", "killed", "aborted"}
    BY DEF IInv, ReadThrows, SymbolsRefused, NoteAborts, NoteThrows
  <1>2. beyond' \in BOOLEAN
    BY <1>1 DEF TablesTypeOK
  <1>3. /\ at' = "killed" => job.op = "symbols" /\ job.entsize = 0
        /\ at' = "aborted" => job.op = "notes" /\ (~NotesWhole \/ EmptyDescriptor \/ Cut)
        /\ at' = "threw" => \/ position + count > job.length
                            \/ job.op = "symbols" /\ ~Divides(job.entsize, job.size)
                            \/ job.op = "notes" /\ (~NotesWhole \/ Cut)
    <2>1. CASE ReadThrows
      BY <2>1 DEF ReadThrows
    <2>2. CASE SymbolsRefused
      BY <2>2 DEF SymbolsRefused, Garbage, Divides
    <2>3. CASE NoteAborts
      <3>1. at = "walk" /\ job.op = "notes" /\ off < buf /\ at' = "aborted"
        BY <2>3 DEF NoteAborts
      <3>2. PICK sizes \in Sizes : AtEnd(off + 3 * Word, sizes)
        BY <2>3 DEF NoteAborts
      <3>3. NotesWhole /\ ~Cut => EmptyDescriptor
        BY <3>1, <3>2, NoteHere
      <3> QED BY <3>1, <3>3
    <2>4. CASE NoteThrows
      <3>1. at = "walk" /\ job.op = "notes" /\ off < buf /\ at' = "threw"
        BY <2>4 DEF NoteThrows
      <3>2. ASSUME NotesWhole, ~Cut PROVE FALSE
        <4> DEFINE k == Len(got) + 1
                   n == job.notes[k]
        <4>1. /\ n.namesz \in Nat /\ n.descsz \in Nat /\ Sizes = {<<n.namesz, n.descsz>>}
              /\ Where(k + 1) = off + 3 * Word + n.namesz + n.descsz /\ Where(k + 1) <= buf
          BY <3>1, <3>2, NoteHere
        <4> HIDE DEF n, k
        <4>2. off \in Nat /\ Word \in Nat /\ buf \in Nat
          BY <1>1, Fields
        <4>3. avail(3 * Word)
          BY <4>1, <4>2 DEF avail
        <4>4. \A sizes \in Sizes : ~(skip(off + 3 * Word, sizes) > buf)
          BY <4>1, <4>2 DEF skip
        <4> QED BY <4>3, <4>4, <2>4 DEF NoteThrows
      <3> QED BY <3>1, <3>2
    <2> QED BY <2>1, <2>2, <2>3, <2>4
  <1>4. TroubleHasCause'
    BY <1>1, <1>3, SameJob DEF IInv, TroubleHasCause, Divides
  <1> QED BY <1>1, <1>2, <1>4, StopInv

LEMMA InitInv == TablesInit => IInv
  <1> SUFFICES ASSUME TablesInit PROVE IInv
    OBVIOUS
  <1>1. Widths /\ TablesTypeOK
    <2>1. got \in Seq(Nat \cup {Junk})
      BY DEF TablesInit
    <2> QED BY <2>1 DEF TablesInit, TablesTypeOK
  <1>2. Fresh /\ Filled /\ Walks /\ TroubleHasCause /\ ReadWhereDeclared
    BY DEF TablesInit, Fresh, Filled, Walks, OnTables, OnSymbols, OnDynamics, OnNotes, Once,
           TroubleHasCause, ReadWhereDeclared
  <1> QED BY <1>1, <1>2 DEF IInv

LEMMA StepInv == IInv /\ [TablesNext]_tablesVars => IInv'
  <1> SUFFICES ASSUME IInv, [TablesNext]_tablesVars PROVE IInv'
    OBVIOUS
  <1>1. CASE UNCHANGED tablesVars
    <2>1. UNCHANGED <<job, at, buf, filled, off, got, again, beyond>>
      BY <1>1 DEF tablesVars
    <2>2. Widths' /\ TablesTypeOK' /\ Fresh' /\ Filled'
      BY <2>1, SameJob DEF IInv, Widths, TablesTypeOK, Fresh, Filled
    <2>3. Regular' <=> Regular
      BY <2>1, SameJob DEF Regular
    <2>4. Walks'
      BY <2>1, <2>3, SameJob
         DEF IInv, Walks, OnTables, OnSymbols, OnDynamics, OnNotes, Once, avail, Divides
    <2>5. TroubleHasCause' /\ ReadWhereDeclared'
      BY <2>1, SameJob DEF IInv, TroubleHasCause, ReadWhereDeclared, Divides
    <2> QED BY <2>2, <2>4, <2>5 DEF IInv
  <1>2. CASE TablesNext
    BY <1>2, AllocateInv, ReadInv, TakeHeaderInv, TakeSymbolInv, TakeDynInv, TakeNoteInv,
       EndInv, RefusedInv DEF TablesNext
  <1> QED BY <1>1, <1>2

LEMMA Invariant == TablesSpec => []IInv
  BY InitInv, StepInv, PTL DEF TablesSpec

(***************************************************************************)
(* The theorems.                                                           *)
(***************************************************************************)
\* The variables of ElfTables keep their types.
THEOREM TablesTypes == TablesSpec => []TablesTypeOK
  <1>1. IInv => TablesTypeOK
    BY DEF IInv
  <1> QED BY <1>1, Invariant, PTL

\* Reads out of the buffer, failed assertions, exceptions and signals have a cause
\* in the fields of the file, for any widths of words and integers.
\* The code: the allocations and casts of File32 and File64, Buffer::at().
THEOREM TroubleIsCaused == TablesSpec => []TroubleHasCause
  <1>1. IInv => TroubleHasCause
    BY DEF IInv
  <1> QED BY <1>1, Invariant, PTL

\* Whatever the number and the sizes of entries, a job that ends has handed out
\* those the file declares, from the bytes that hold them.
\* The code: readAt(), the loops on the buffers it fills, NoteIter and DynIter.
THEOREM EntriesAreDeclared == TablesSpec => []ReadWhereDeclared
  <1>1. IInv => ReadWhereDeclared
    BY DEF IInv
  <1> QED BY <1>1, Invariant, PTL

(***************************************************************************)
(* The walks go on.                                                        *)
(***************************************************************************)
LEMMA TakesLower ==
  ASSUME IInv, ~Stuck, at = "walk", job' = job, buf' = buf, at' # "walk" => JobLeft' = <<0, 0>>,
         \/ job.op \in Tables /\ Len(got) < job.num /\ Len(got') = Len(got) + 1
         \/ job.op \notin Tables /\ off' \in Nat /\ off < off' /\ off' <= buf
  PROVE  Lowers(JobLeft', JobLeft)
  <1>1. job.num \in Nat /\ buf \in Nat /\ off \in Nat /\ Len(got) \in Nat
    BY Fields DEF IInv
  <1> DEFINE l == IF job.op \in Tables THEN job.num - Len(got) ELSE buf - off
  <1>2. l \in Nat /\ l' \in Nat /\ l' < l
    BY <1>1
  <1>3. JobLeft = <<1, l>>
    BY DEF JobLeft
  <1>4. at' = "walk" => JobLeft' = <<1, l'>>
    BY DEF JobLeft
  <1> HIDE DEF l
  <1> QED BY <1>2, <1>3, <1>4 DEF Lowers, Lower

LEMMA StepLowers ==
  ASSUME IInv, IInv', TablesNext, ~Stuck
  PROVE  Lowers(JobLeft', JobLeft)
  <1>1. /\ job.num \in Nat /\ job.entsize \in Nat /\ job.size \in Nat /\ Word \in Nat \ {0}
        /\ buf \in Nat /\ off \in Nat /\ Len(got) \in Nat
        /\ Widths /\ TablesTypeOK
    BY Fields DEF IInv
  <1>2. at' \notin {"asked", "read", "walk"} => JobLeft' = <<0, 0>>
    BY DEF JobLeft
  <1>3. CASE Allocate
    <2>1. at = "asked" /\ at' \in {"read", "killed"}
      BY <1>3 DEF Allocate
    <2> QED BY <2>1 DEF JobLeft, Lowers, Lower
  <1>4. CASE Read
    <2>1. /\ at = "read" /\ at' \in {"walk", "killed"} /\ UNCHANGED <<job, buf, off, got>>
          /\ off = 0 /\ got = <<>>
      BY <1>4 DEF Read, Goes, IInv, Fresh
    <2>2. Len(got) = 0 /\ job.num - 0 \in Nat /\ buf - 0 \in Nat
      BY <1>1, <2>1
    <2> QED BY <2>1, <2>2 DEF JobLeft, Lowers, Lower
  <1>5. CASE ReadThrows
    BY <1>5 DEF ReadThrows, JobLeft, Lowers, Lower
  <1>6. ASSUME at = "walk", at' \notin {"asked", "read", "walk"}
        PROVE  Lowers(JobLeft', JobLeft)
    <2>1. JobLeft[1] = 1
      BY <1>6 DEF JobLeft
    <2> QED BY <1>2, <1>6, <2>1 DEF Lowers, Lower
  <1>7. CASE HeadersEnd \/ SymbolsRefused \/ SymbolsEnd \/ DynsEnd \/ NoteAborts \/ NoteThrows
             \/ NotesEnd
    BY <1>6, <1>7
       DEF HeadersEnd, SymbolsRefused, SymbolsEnd, DynsEnd, NoteAborts, NoteThrows, NotesEnd
  <1>8. CASE TakeHeader
    <2>1. /\ at = "walk" /\ job.op \in Tables /\ Len(got) < job.num /\ job' = job /\ buf' = buf
          /\ at' \in {"walk", "killed"} /\ \E x : got' = Append(got, x)
      BY <1>8 DEF TakeHeader, Goes
    <2>2. Len(got') = Len(got) + 1
      BY <1>1, <2>1 DEF TablesTypeOK
    <2> QED BY <1>2, <2>1, <2>2, TakesLower
  <1>9. CASE TakeSymbol
    <2>1. /\ at = "walk" /\ job.op = "symbols" /\ Walkable /\ avail(job.entsize)
          /\ job' = job /\ buf' = buf /\ off' = off + job.entsize
          /\ at' \in {"walk", "killed", "aborted"}
      BY <1>9 DEF TakeSymbol, Goes
    <2>2. job.op \notin Tables /\ off' \in Nat /\ off < off' /\ off' <= buf
      BY <1>1, <2>1 DEF Walkable, avail, Tables
    <2> QED BY <1>2, <2>1, <2>2, TakesLower
  <1>10. CASE TakeDyn
    <2>1. /\ at = "walk" /\ job.op = "dynamics" /\ off # buf /\ job' = job /\ buf' = buf
          /\ off' = skipped(job.entsize) /\ at' \in {"walk", "killed"}
      BY <1>10 DEF TakeDyn, Goes
    <2>2. buf = job.size /\ OnDynamics
      BY <2>1, EntryBytes DEF IInv, Walks, Tables
    <2>3. off <= buf
      BY <1>1, <2>1, <2>2 DEF OnDynamics
    <2>4. Divides(job.entsize, job.size)
      BY <1>1, <2>1, <2>2, <2>3 DEF Stuck
    <2>5. off + job.entsize <= buf /\ job.entsize # 0
      BY <2>1, <2>4, WholeEntry DEF Divides
    <2>6. job.op \notin Tables /\ off' \in Nat /\ off < off' /\ off' <= buf
      BY <1>1, <2>1, <2>5 DEF skipped, avail, Tables
    <2> QED BY <1>2, <2>1, <2>6, TakesLower
  <1>11. CASE TakeNote
    <2>1. /\ at = "walk" /\ job.op = "notes" /\ job' = job /\ buf' = buf /\ at' = at
          /\ \E sizes \in Sizes : /\ off' = skip(off + 3 * Word, sizes)
                                 /\ skip(off + 3 * Word, sizes) <= buf
      BY <1>11 DEF TakeNote
    <2>2. PICK sizes \in Sizes : off' = skip(off + 3 * Word, sizes) /\ off' <= buf
      BY <2>1
    <2>3. sizes[1] \in Nat /\ sizes[2] \in Nat
      <3>1. \A i \in DOMAIN job.notes : job.notes[i].namesz \in Nat /\ job.notes[i].descsz \in Nat
        <4> DEFINE T == [at : Nat, namesz : Nat, descsz : Nat]
        <4>1. job.notes \in Seq(T)
          BY <1>1, Fields
        <4>2. \A i \in DOMAIN job.notes : job.notes[i] \in T
          <5> HIDE DEF T
          <5> QED BY <4>1, Elements
        <4> QED BY <4>2
      <3>2. NoteSizes \subseteq Nat
        BY <1>1 DEF Widths
      <3>3. sizes \in {<<job.notes[i].namesz, job.notes[i].descsz>> : i \in DOMAIN job.notes}
              \cup {<<0, 0>>} \cup (NoteSizes \X NoteSizes)
        BY DEF Sizes
      <3>4. CASE \E i \in DOMAIN job.notes : sizes = <<job.notes[i].namesz, job.notes[i].descsz>>
        <4>1. PICK i \in DOMAIN job.notes : sizes = <<job.notes[i].namesz, job.notes[i].descsz>>
          BY <3>4
        <4>2. sizes[1] = job.notes[i].namesz /\ sizes[2] = job.notes[i].descsz
          BY <4>1
        <4> QED BY <3>1, <4>2
      <3>5. CASE sizes = <<0, 0>>
        BY <3>5
      <3>6. CASE sizes \in NoteSizes \X NoteSizes
        BY <3>2, <3>6
      <3> QED BY <3>3, <3>4, <3>5, <3>6
    <2>4. job.op \notin Tables /\ off' \in Nat /\ off < off' /\ off' <= buf
      BY <1>1, <2>1, <2>2, <2>3 DEF skip, Tables
    <2> QED BY <1>2, <2>1, <2>4, TakesLower
  <1> QED BY <1>3, <1>4, <1>5, <1>7, <1>8, <1>9, <1>10, <1>11 DEF TablesNext

\* Each step of a job leaves less of it, for all fields but those of a dynamic
\* section whose last entry is cut.
\* The code: EntryIter::next() and equals(), Cursor::skip(), NoteIter::next().
THEOREM WalksDescend == TablesSpec => WalkShrinks
  BY StepLowers, Invariant, PTL DEF TablesSpec, WalkShrinks
=============================================================================
