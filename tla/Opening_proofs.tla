--------------------------- MODULE Opening_proofs ---------------------------
(***************************************************************************)
(* Proofs about Opening, for any files, any number of streams, calls and   *)
(* failures.  The inductive invariant says what the call under way holds   *)
(* and has found in the file at each stage; a step of a stage is then one  *)
(* of three kinds: it throws, it goes on, or it returns an object.         *)
(***************************************************************************)
EXTENDS Opening, FiniteSetTheorems, TLAPS

(***************************************************************************)
(* The inductive invariant.                                                *)
(***************************************************************************)
PeStages == {"offset", "signature", "fields", "windows", "directories", "table"}

\* What the call under way has acquired when it comes to a stage.
Acquired(st) ==
  {"stream"} \cup (IF st = "header" THEN {"ehdr"} ELSE {})
             \cup (IF st \in {"directories", "table"} THEN {"directories"} ELSE {})
             \cup (IF st = "table" THEN {"table"} ELSE {})
             \cup (IF st = "load" THEN {"reader"} ELSE {})

\* What it has found in the file.
Found(st, f, unread) ==
  /\ st = "header" => "ident" \in f.valid
  /\ st \in {"fields", "windows", "directories", "table"} => "signature" \in f.valid
  /\ st \in PeStages /\ ~unread => f.magic = "PE"
  /\ st = "load" /\ ~unread => f.magic = "COFF"

Current ==
  stage # "idle" =>
    /\ calls \in 1..calls /\ calls \notin DOMAIN kind
    /\ {<<s, calls>> : s \in Acquired(stage)} \subseteq live
    /\ \A x \in live : x[2] = calls => x[1] \in Acquired(stage)
    /\ Found(stage, file[calls], Unread(calls))

\* An object but COFF's holds nothing its destructor does not know.
NothingMore ==
  \A x \in live : x[2] \in DOMAIN kind /\ kind[x[2]] # "COFF" => x[1] \in released(kind[x[2]])

IInv == /\ OpeningTypeOK /\ Current /\ KindTruthful
        /\ DeletesWhatItHolds /\ NothingMore /\ LeaksExplained

(***************************************************************************)
(* System calls.                                                           *)
(***************************************************************************)
Counted == faults' \in 0..MaxFaults
Grown == slips \subseteq slips' /\ slips' \subseteq Slips \X (1..calls)

LEMMA SystemCall ==
  ASSUME OpeningTypeOK, Works \/ Fault \/ (calls \in 1..calls /\ \E w \in Slips : Slip(w))
  PROVE  Counted /\ Grown
<1>1. CASE Works
  BY <1>1 DEF Works, OpeningTypeOK, Counted, Grown
<1>2. CASE Fault
  BY <1>2, ConstantsAssumption DEF Fault, OpeningTypeOK, Counted, Grown
<1>3. ASSUME calls \in 1..calls, NEW w \in Slips, Slip(w)
      PROVE  Counted /\ Grown
  BY <1>3, ConstantsAssumption DEF Slip, OpeningTypeOK, Counted, Grown
<1>4. QED BY <1>1, <1>2, <1>3

(***************************************************************************)
(* The three ends of a stage.                                              *)
(***************************************************************************)
LEMMA ThrowKeeps ==
  ASSUME IInv, stage # "idle", CallThrows, Counted, Grown
  PROVE  IInv'
<1>1. OpeningTypeOK'
  BY DEF IInv, OpeningTypeOK, Current, CallThrows, Counted, Grown
<1>2. Current'
  BY DEF Current, CallThrows
<1>3. KindTruthful'
  BY DEF IInv, KindTruthful, CallThrows, Grown, Unread
<1>4. DeletesWhatItHolds'
  <2>1. SUFFICES ASSUME NEW n \in Objects, NEW s \in released(kind[n])
                 PROVE  <<s, n>> \in live'
    BY DEF DeletesWhatItHolds, CallThrows, Objects
  <2>2. <<s, n>> \in live
    BY DEF IInv, DeletesWhatItHolds
  <2>3. n # calls
    BY DEF IInv, Current, Objects
  <2>4. QED BY <2>2, <2>3 DEF CallThrows, unwound
<1>5. LeaksExplained'
  <2>1. SUFFICES ASSUME NEW r \in live'
                 PROVE  \/ r[2] \in Objects'
                        \/ stage' # "idle" /\ r[2] = calls'
                        \/ r[2] \in threw'
                        \/ r[2] \in DOMAIN kind' /\ kind'[r[2]] = "COFF"
    BY DEF LeaksExplained
  <2>2. r \in live
    BY DEF CallThrows
  <2>3. QED BY <2>2 DEF IInv, LeaksExplained, CallThrows, Objects
<1>6. NothingMore'
  BY DEF IInv, NothingMore, CallThrows
<1>7. QED BY <1>1, <1>2, <1>3, <1>4, <1>5, <1>6 DEF IInv

LEMMA GotoKeeps ==
  ASSUME IInv, stage # "idle", Counted, Grown,
         NEW st \in Stages, NEW acq \in SUBSET Sorts, Goto(st, acq),
         Acquired(st) = Acquired(stage) \cup acq,
         Found(st, file[calls], Unread(calls)')
  PROVE  IInv'
<1>0. st # "idle"
  BY DEF Stages
<1>1. OpeningTypeOK'
  <2>1. calls \in 1..calls
    BY DEF IInv, Current
  <2>2. {<<s, calls>> : s \in acq} \subseteq Sorts \X (1..calls)
    BY <2>1
  <2>3. QED BY <2>2 DEF IInv, OpeningTypeOK, Goto, Counted, Grown
<1>2. Current'
  <2>1. {<<s, calls>> : s \in Acquired(st)} \subseteq live'
    BY DEF IInv, Current, Goto
  <2>2. \A x \in live' : x[2] = calls => x[1] \in Acquired(st)
    BY DEF IInv, Current, Goto
  <2>3. QED BY <2>1, <2>2 DEF IInv, Current, Goto, Unread
<1>3. KindTruthful'
  BY DEF IInv, KindTruthful, Goto, Grown, Unread
<1>4. DeletesWhatItHolds'
  BY DEF IInv, DeletesWhatItHolds, Goto, Objects
<1>5. LeaksExplained'
  <2>1. SUFFICES ASSUME NEW r \in live'
                 PROVE  \/ r[2] \in Objects'
                        \/ stage' # "idle" /\ r[2] = calls'
                        \/ r[2] \in threw'
                        \/ r[2] \in DOMAIN kind' /\ kind'[r[2]] = "COFF"
    BY DEF LeaksExplained
  <2>2. CASE r \in live
    BY <2>2, <1>0 DEF IInv, LeaksExplained, Goto, Objects
  <2>3. CASE r \notin live
    BY <2>3, <1>0 DEF Goto
  <2>4. QED BY <2>2, <2>3
<1>6. NothingMore'
  <2>1. SUFFICES ASSUME NEW x \in live', x[2] \in DOMAIN kind, kind[x[2]] # "COFF"
                 PROVE  x[1] \in released(kind[x[2]])
    BY DEF NothingMore, Goto
  <2>2. x[2] # calls
    BY <2>1 DEF IInv, Current
  <2>3. x \in live
    BY <2>2 DEF Goto
  <2>4. QED BY <2>1, <2>3 DEF IInv, NothingMore
<1>7. QED BY <1>1, <1>2, <1>3, <1>4, <1>5, <1>6 DEF IInv

LEMMA ReturnKeeps ==
  ASSUME IInv, stage # "idle", Counted, Grown,
         NEW k \in Kinds, NEW acq \in SUBSET Sorts, Return(k, acq),
         released(k) \subseteq Acquired(stage) \cup acq,
         k # "COFF" => Acquired(stage) \cup acq \subseteq released(k),
         Evidence(k) \in file[calls].valid,
         ~Unread(calls)' => k = file[calls].magic
  PROVE  IInv'
<1>0. calls \in 1..calls /\ calls \notin DOMAIN kind
  BY DEF IInv, Current
<1>k. /\ DOMAIN kind' = DOMAIN kind \cup {calls} /\ kind'[calls] = k
      /\ \A n \in DOMAIN kind : kind'[n] = kind[n]
  BY <1>0 DEF Return, With
<1>o. Objects' = Objects \cup {calls}
  BY <1>0, <1>k DEF IInv, OpeningTypeOK, Objects, Return
<1>1. OpeningTypeOK'
  <2>2. {<<s, calls>> : s \in acq} \subseteq Sorts \X (1..calls)
    BY <1>0
  <2>3. QED BY <2>2, <1>0, <1>k DEF IInv, OpeningTypeOK, Return, Counted, Grown
<1>2. Current'
  BY DEF Current, Return
<1>3. KindTruthful'
  BY <1>k DEF IInv, KindTruthful, Return, Grown, Unread
<1>4. DeletesWhatItHolds'
  <2>1. SUFFICES ASSUME NEW n \in Objects', NEW s \in released(kind'[n])
                 PROVE  <<s, n>> \in live'
    BY DEF DeletesWhatItHolds
  <2>2. CASE n \in Objects
    BY <2>2, <1>k DEF IInv, DeletesWhatItHolds, Return, Objects
  <2>3. CASE n = calls
    BY <2>3, <1>k DEF IInv, Current, Return
  <2>4. QED BY <2>2, <2>3, <1>o
<1>5. LeaksExplained'
  <2>1. SUFFICES ASSUME NEW r \in live'
                 PROVE  \/ r[2] \in Objects'
                        \/ stage' # "idle" /\ r[2] = calls'
                        \/ r[2] \in threw'
                        \/ r[2] \in DOMAIN kind' /\ kind'[r[2]] = "COFF"
    BY DEF LeaksExplained
  <2>2. CASE r \in live
    BY <2>2, <1>o, <1>k DEF IInv, LeaksExplained, Return
  <2>3. CASE r \notin live
    BY <2>3, <1>o DEF Return
  <2>4. QED BY <2>2, <2>3
<1>6. NothingMore'
  <2>1. SUFFICES ASSUME NEW x \in live', x[2] \in DOMAIN kind', kind'[x[2]] # "COFF"
                 PROVE  x[1] \in released(kind'[x[2]])
    BY DEF NothingMore
  <2>2. CASE x[2] = calls
    <3>1. x[1] \in Acquired(stage) \cup acq
      BY <2>2 DEF IInv, Current, Return
    <3>2. QED BY <3>1, <2>1, <2>2, <1>k
  <2>3. CASE x[2] # calls
    <3>1. x \in live /\ x[2] \in DOMAIN kind /\ kind'[x[2]] = kind[x[2]]
      BY <2>1, <2>3, <1>k DEF Return
    <3>2. QED BY <3>1, <2>1 DEF IInv, NothingMore
  <2>4. QED BY <2>2, <2>3
<1>7. QED BY <1>1, <1>2, <1>3, <1>4, <1>5, <1>6 DEF IInv

(***************************************************************************)
(* The start of a call, and the destructors.                               *)
(***************************************************************************)
LEMMA CallKeeps ==
  ASSUME IInv, NEW f \in Files, NEW st \in {"magic", "ident"}, NEW opened \in BOOLEAN,
         Call(f, st, opened), Works \/ Fault
  PROVE  IInv'
<1>0. /\ calls \in Nat /\ calls' = calls + 1 /\ calls' \in 0..MaxCalls
      /\ kind' = kind /\ deleted' = deleted /\ Objects' = Objects
  BY ConstantsAssumption DEF IInv, OpeningTypeOK, Call, Objects
<1>c. calls + 1 \notin DOMAIN kind
  BY <1>0 DEF IInv, OpeningTypeOK
<1>f. /\ DOMAIN file' = 1..calls' /\ file'[calls'] = f
      /\ \A n \in 1..calls : file'[n] = file[n]
  BY <1>0 DEF IInv, OpeningTypeOK, Call, With
<1>s. slips' = slips /\ faults' \in 0..MaxFaults
  BY ConstantsAssumption DEF IInv, OpeningTypeOK, Works, Fault
<1>l. live \subseteq live' /\ live' \subseteq live \cup {<<"stream", calls + 1>>}
  BY DEF Call
<1>t. threw \subseteq threw' /\ threw' \subseteq threw \cup {calls + 1}
  BY DEF Call
<1>1. OpeningTypeOK'
  <2>1. 1..calls \subseteq 1..(calls + 1) /\ calls + 1 \in 1..(calls + 1)
    BY <1>0
  <2>2. stage' \in Stages \cup {"idle"}
    BY DEF IInv, OpeningTypeOK, Call, Stages
  <2>3. \A n \in 1..calls' : file'[n] \in Files
    BY <1>f, <1>0 DEF IInv, OpeningTypeOK
  <2>4. live' \subseteq Sorts \X (1..calls')
    BY <1>l, <1>0, <2>1 DEF IInv, OpeningTypeOK, Sorts
  <2>5. slips' \subseteq Slips \X (1..calls')
    BY <1>s, <1>0, <2>1 DEF IInv, OpeningTypeOK
  <2>6. QED BY <1>0, <1>f, <1>s, <1>t, <2>1, <2>2, <2>3, <2>4, <2>5 DEF IInv, OpeningTypeOK
<1>2. Current'
  <2>1. SUFFICES ASSUME stage' # "idle" PROVE Current'
    BY DEF Current
  <2>2. opened = TRUE /\ stage' = st
    BY <2>1 DEF Call
  <2>3. Acquired(st) = {"stream"} /\ Found(st, f, Unread(calls)')
    BY DEF Acquired, Found, PeStages
  <2>4. <<"stream", calls + 1>> \in live'
    BY <2>2 DEF Call
  <2>5. \A x \in live' : x[2] = calls + 1 => x[1] = "stream"
    BY <1>l, <1>0 DEF IInv, OpeningTypeOK
  <2>6. QED BY <1>0, <1>c, <1>f, <2>2, <2>3, <2>4, <2>5 DEF Current, Unread, Found, PeStages
<1>3. KindTruthful'
  BY <1>0, <1>f, <1>s DEF IInv, OpeningTypeOK, KindTruthful, Unread
<1>4. DeletesWhatItHolds'
  BY <1>0, <1>l DEF IInv, DeletesWhatItHolds
<1>5. LeaksExplained'
  <2>1. SUFFICES ASSUME NEW r \in live'
                 PROVE  \/ r[2] \in Objects'
                        \/ stage' # "idle" /\ r[2] = calls'
                        \/ r[2] \in threw'
                        \/ r[2] \in DOMAIN kind' /\ kind'[r[2]] = "COFF"
    BY DEF LeaksExplained
  <2>2. CASE r \in live
    BY <2>2, <1>0, <1>t DEF IInv, LeaksExplained, Call
  <2>3. CASE r \notin live
    <3>1. opened = TRUE /\ r = <<"stream", calls + 1>> /\ stage' = st
      BY <2>3 DEF Call
    <3>2. QED BY <3>1, <1>0
  <2>4. QED BY <2>2, <2>3
<1>6. NothingMore'
  BY <1>0, <1>c, <1>l DEF IInv, NothingMore
<1>7. QED BY <1>1, <1>2, <1>3, <1>4, <1>5, <1>6 DEF IInv

LEMMA DeleteKeeps ==
  ASSUME IInv, NEW n \in Objects, Delete(n)
  PROVE  IInv'
<1>k. kind[n] \in Kinds /\ n \in DOMAIN kind
  BY DEF IInv, OpeningTypeOK, Objects
<1>o. Objects' = Objects \ {n} /\ kind' = kind /\ live' \subseteq live
  BY DEF Objects, Delete
<1>1. OpeningTypeOK'
  BY <1>k, <1>o DEF IInv, OpeningTypeOK, Delete
<1>2. Current'
  BY <1>k DEF IInv, Current, Delete, Unread
<1>3. KindTruthful'
  BY DEF IInv, KindTruthful, Delete, Unread
<1>4. DeletesWhatItHolds'
  BY <1>o DEF IInv, DeletesWhatItHolds, Delete
<1>5. LeaksExplained'
  <2>1. SUFFICES ASSUME NEW r \in live'
                 PROVE  \/ r[2] \in Objects'
                        \/ stage' # "idle" /\ r[2] = calls'
                        \/ r[2] \in threw'
                        \/ r[2] \in DOMAIN kind' /\ kind'[r[2]] = "COFF"
    BY DEF LeaksExplained
  <2>2. CASE r[2] # n
    BY <2>2, <1>o DEF IInv, LeaksExplained, Delete
  <2>3. CASE r[2] = n
    <3>1. r = <<r[1], n>> /\ r \in live
      BY <2>3, <1>o DEF IInv, OpeningTypeOK
    <3>2. r[1] \notin released(kind[n])
      BY <3>1 DEF Delete
    <3>3. QED BY <3>1, <3>2, <2>3, <1>o, <1>k DEF IInv, NothingMore
  <2>4. QED BY <2>2, <2>3
<1>6. NothingMore'
  BY <1>o DEF IInv, NothingMore
<1>7. QED BY <1>1, <1>2, <1>3, <1>4, <1>5, <1>6 DEF IInv

(***************************************************************************)
(* The stages.                                                             *)
(***************************************************************************)
\* Whatever the magic number was taken for, when it says what is not so only if
\* the read of it has failed.
LEMMA DispatchKeeps ==
  ASSUME IInv, stage = "magic", Counted, Grown, NEW m \in Magics, Dispatch(m),
         ~Unread(calls)' => m = file[calls].magic
  PROVE  IInv'
<1>0. Acquired("magic") = {"stream"}
  BY DEF Acquired
<1>1. CASE m = "ELF"
  <2>1. Goto("ident", {})
    BY <1>1 DEF Dispatch
  <2>2. Acquired("ident") = {"stream"} /\ Found("ident", file[calls], Unread(calls)')
    BY DEF Acquired, Found, PeStages
  <2>3. "ident" \in Stages /\ {} \in SUBSET Sorts
    BY DEF Stages
  <2>4. QED BY <1>0, <2>1, <2>2, <2>3, GotoKeeps
<1>2. CASE m = "COFF" /\ HasCoffi
  <2>1. Goto("load", {"reader"})
    BY <1>2 DEF Dispatch
  <2>2. Acquired("load") = {"stream"} \cup {"reader"} /\ Found("load", file[calls], Unread(calls)')
    BY <1>2 DEF Acquired, Found, PeStages
  <2>3. "load" \in Stages /\ {"reader"} \in SUBSET Sorts
    BY DEF Stages, Sorts
  <2>4. QED BY <1>0, <2>1, <2>2, <2>3, GotoKeeps
<1>3. CASE m = "PE"
  <2>1. Goto("offset", {})
    BY <1>3 DEF Dispatch
  <2>2. Acquired("offset") = {"stream"} /\ Found("offset", file[calls], Unread(calls)')
    BY <1>3 DEF Acquired, Found, PeStages
  <2>3. "offset" \in Stages /\ {} \in SUBSET Sorts
    BY DEF Stages
  <2>4. QED BY <1>0, <2>1, <2>2, <2>3, GotoKeeps
<1>4. CASE m # "ELF" /\ ~(m = "COFF" /\ HasCoffi) /\ m # "PE"
  <2>1. CallThrows
    BY <1>4 DEF Dispatch
  <2>2. QED BY <2>1, ThrowKeeps
<1>5. QED BY <1>1, <1>2, <1>3, <1>4

LEMMA MagicKeeps ==
  ASSUME IInv, ReadMagic \/ MagicNotRead \/ ShortMagic \/ ResetFails
  PROVE  IInv'
<1>0. /\ stage = "magic" /\ OpeningTypeOK /\ calls \in 1..calls
      /\ file[calls] \in Files /\ file[calls].magic \in Magics
  BY FilesAssumption DEF IInv, Current, OpeningTypeOK, ReadMagic, MagicNotRead, ShortMagic,
     ResetFails, Passes
<1>1. CASE ReadMagic
  <2>1. Works /\ Dispatch(file[calls].magic)
    BY <1>1 DEF ReadMagic, Passes
  <2>2. QED BY <2>1, <1>0, SystemCall, DispatchKeeps
<1>2. CASE MagicNotRead
  <2>1. PICK m \in Magics : Slip("magic") /\ Dispatch(m)
    BY <1>2 DEF MagicNotRead
  <2>2. Counted /\ Grown
    BY <2>1, <1>0, SystemCall DEF Slips
  <2>3. calls' = calls
    BY <2>1 DEF Dispatch, Goto, CallThrows
  <2>4. Unread(calls)'
    BY <2>1, <2>3 DEF Slip, Unread
  <2>5. QED BY <2>1, <2>2, <2>4, <1>0, DispatchKeeps
<1>3. CASE ShortMagic
  BY <1>3, <1>0, SystemCall, ThrowKeeps DEF ShortMagic
<1>4. CASE ResetFails
  <2>1. Slip("reset") /\ Dispatch(file[calls].magic)
    BY <1>4 DEF ResetFails
  <2>2. QED BY <2>1, <1>0, SystemCall, DispatchKeeps DEF Slips
<1>5. QED BY <1>1, <1>2, <1>3, <1>4

\* A stage that fails ends the call.
LEMMA FailsKeeps ==
  ASSUME IInv, NEW st \in Stages, Fails(st), CallThrows
  PROVE  IInv'
<1>1. stage = st /\ st # "idle" /\ (Works \/ Fault) /\ OpeningTypeOK
  BY DEF Fails, Stages, IInv
<1>2. Counted /\ Grown
  BY <1>1, SystemCall
<1>3. QED BY <1>1, <1>2, ThrowKeeps

\* A stage that passes leads to the next one.
LEMMA PassesKeeps ==
  ASSUME IInv, NEW st \in Stages, Passes(st), NEW next \in Stages,
         NEW acq \in SUBSET Sorts, Goto(next, acq),
         Acquired(next) = Acquired(st) \cup acq,
         Found(st, file[calls], Unread(calls)) /\ st \in file[calls].valid
           => Found(next, file[calls], Unread(calls))
  PROVE  IInv'
<1>1. stage = st /\ st # "idle" /\ Works /\ OpeningTypeOK /\ st \in file[calls].valid
  BY DEF Passes, Stages, IInv
<1>2. Counted /\ Grown
  BY <1>1, SystemCall
<1>3. Unread(calls)' = Unread(calls)
  BY <1>1 DEF Works, Goto, Unread
<1>4. Found(next, file[calls], Unread(calls))
  BY <1>1 DEF IInv, Current
<1>5. QED BY <1>1, <1>2, <1>3, <1>4, GotoKeeps

\* The last stage of a constructor makes the object.
LEMMA LastKeeps ==
  ASSUME IInv, NEW st \in Stages, Passes(st), NEW k \in Kinds,
         NEW acq \in SUBSET Sorts, Return(k, acq),
         released(k) \subseteq Acquired(st) \cup acq,
         k # "COFF" => Acquired(st) \cup acq \subseteq released(k),
         Found(st, file[calls], Unread(calls)) /\ st \in file[calls].valid
           => /\ Evidence(k) \in file[calls].valid
              /\ ~Unread(calls) => k = file[calls].magic
  PROVE  IInv'
<1>1. stage = st /\ st # "idle" /\ Works /\ OpeningTypeOK /\ st \in file[calls].valid
  BY DEF Passes, Stages, IInv
<1>2. Counted /\ Grown
  BY <1>1, SystemCall
<1>3. Unread(calls)' = Unread(calls)
  BY <1>1 DEF Works, Return, Unread
<1>4. Found(st, file[calls], Unread(calls))
  BY <1>1 DEF IInv, Current
<1>5. QED BY <1>1, <1>2, <1>3, <1>4, ReturnKeeps

\* The stages of the PE-COFF fields that are read four bytes too far.
LEMMA AstrayKeeps ==
  ASSUME IInv, \/ BackFails
               \/ Astray("directories") /\ Goto("table", {"table"})
               \/ Astray("table") /\ Return("PE", {"sections"})
               \/ \E st \in {"directories", "table"} : Astray(st) /\ CallThrows
  PROVE  IInv'
<1>0. OpeningTypeOK /\ stage \in Stages \cup {"idle"}
  BY DEF IInv, OpeningTypeOK
<1>1. stage # "idle" => Found(stage, file[calls], Unread(calls)) /\ calls \in 1..calls
  BY DEF IInv, Current
<1>2. CASE BackFails
  <2>1. stage = "windows" /\ stage # "idle" /\ Slip("back") /\ Goto("directories", {"directories"})
    BY <1>2 DEF BackFails
  <2>2. "back" \in Slips /\ "directories" \in Stages /\ {"directories"} \in SUBSET Sorts
    BY DEF Slips, Stages, Sorts
  <2>3. Counted /\ Grown
    BY <1>0, <1>1, <2>1, <2>2, SystemCall
  <2>4. Unread(calls)' = Unread(calls)
    BY <2>1 DEF Slip, Goto, Unread
  <2>5. Found("directories", file[calls], Unread(calls)')
    BY <1>1, <2>1, <2>4 DEF Found, PeStages
  <2>6. Acquired("directories") = Acquired(stage) \cup {"directories"}
    BY <2>1 DEF Acquired
  <2> QED BY <2>1, <2>2, <2>3, <2>5, <2>6, GotoKeeps
<1>3. CASE Astray("directories") /\ Goto("table", {"table"})
  <2>1. stage = "directories" /\ stage # "idle" /\ Works /\ Goto("table", {"table"})
    BY <1>3 DEF Astray
  <2>2. "table" \in Stages /\ {"table"} \in SUBSET Sorts
    BY DEF Stages, Sorts
  <2>3. Counted /\ Grown
    BY <1>0, <2>1, SystemCall
  <2>4. Unread(calls)' = Unread(calls)
    BY <2>1 DEF Works, Goto, Unread
  <2>5. Found("table", file[calls], Unread(calls)')
    BY <1>1, <2>1, <2>4 DEF Found, PeStages
  <2>6. Acquired("table") = Acquired(stage) \cup {"table"}
    BY <2>1 DEF Acquired
  <2> QED BY <2>1, <2>2, <2>3, <2>5, <2>6, GotoKeeps
<1>4. CASE Astray("table") /\ Return("PE", {"sections"})
  <2>1. stage = "table" /\ stage # "idle" /\ Works /\ Return("PE", {"sections"})
    BY <1>4 DEF Astray
  <2>2. "PE" \in Kinds /\ {"sections"} \in SUBSET Sorts
    BY DEF Kinds, Sorts
  <2>3. Counted /\ Grown
    BY <1>0, <2>1, SystemCall
  <2>4. Unread(calls)' = Unread(calls)
    BY <2>1 DEF Works, Return, Unread
  <2>5. Evidence("PE") \in file[calls].valid /\ (~Unread(calls)' => "PE" = file[calls].magic)
    BY <1>1, <2>1, <2>4 DEF Found, PeStages, Evidence
  <2>6. Acquired(stage) \cup {"sections"} = released("PE")
    BY <2>1 DEF Acquired, released
  <2> QED BY <2>1, <2>2, <2>3, <2>5, <2>6, ReturnKeeps
<1>5. ASSUME NEW st \in {"directories", "table"}, Astray(st), CallThrows
      PROVE  IInv'
  <2>1. stage # "idle" /\ Works
    BY <1>5 DEF Astray
  <2> QED BY <1>0, <1>5, <2>1, SystemCall, ThrowKeeps
<1> QED BY <1>2, <1>3, <1>4, <1>5

LEMMA ElfKeeps ==
  ASSUME IInv, ReadIdent \/ IdentThrows \/ ReadElf \/ ElfThrows
  PROVE  IInv'
<1>1. CASE ReadIdent
  <2>1. Acquired("header") = Acquired("ident") \cup {"ehdr"}
    BY DEF Acquired
  <2>2. "ident" \in file[calls].valid => Found("header", file[calls], Unread(calls))
    BY DEF Found, PeStages
  <2>3. "ident" \in Stages /\ "header" \in Stages /\ {"ehdr"} \in SUBSET Sorts
    BY DEF Stages, Sorts
  <2>4. Passes("ident") /\ Goto("header", {"ehdr"})
    BY <1>1 DEF ReadIdent
  <2>5. QED BY <2>1, <2>2, <2>3, <2>4, PassesKeeps
<1>2. CASE IdentThrows
  <2>1. CASE Fails("ident") /\ CallThrows
    BY <2>1, FailsKeeps DEF Stages
  <2>2. CASE stage = "ident" /\ Works /\ CallThrows
    BY <2>2, SystemCall, ThrowKeeps DEF IInv
  <2>3. QED BY <1>2, <2>1, <2>2 DEF IdentThrows
<1>3. CASE ReadElf
  <2>0. Passes("header") /\ Return("ELF", {})
    BY <1>3 DEF ReadElf
  <2>1. Acquired("header") = released("ELF")
    BY DEF Acquired, released
  <2>2. calls \in 1..calls /\ file[calls] \in Files
    BY <2>0 DEF IInv, Current, OpeningTypeOK, Passes
  <2>3. Found("header", file[calls], Unread(calls))
          => Evidence("ELF") \in file[calls].valid /\ file[calls].magic = "ELF"
    BY <2>2, FilesAssumption DEF Found, Evidence
  <2>4. "header" \in Stages /\ "ELF" \in Kinds /\ {} \in SUBSET Sorts
    BY DEF Stages, Kinds
  <2>5. QED BY <2>0, <2>1, <2>3, <2>4, LastKeeps
<1>4. CASE ElfThrows
  BY <1>4, FailsKeeps DEF ElfThrows, Stages
<1>5. QED BY <1>1, <1>2, <1>3, <1>4

LEMMA PeKeeps ==
  ASSUME IInv, \/ ReadOffset \/ ReadSignature \/ ReadFields \/ ReadWindows
               \/ BackFails \/ ReadDirectories \/ ReadTable \/ PecoffThrows
  PROVE  IInv'
<1>0. {} \in SUBSET Sorts /\ {"directories"} \in SUBSET Sorts /\ {"table"} \in SUBSET Sorts
  BY DEF Sorts
<1>s. PeStages \subseteq Stages
  BY DEF PeStages, Stages
<1>f. \A st, next \in PeStages :
        /\ Found(st, file[calls], Unread(calls)) /\ st \in file[calls].valid
        /\ st \in {"signature", "fields", "windows", "directories"}
           \/ next = "signature"
        => Found(next, file[calls], Unread(calls))
  BY DEF Found, PeStages
<1>1. CASE ReadOffset
  <2>1. Acquired("signature") = Acquired("offset") \cup {}
    BY DEF Acquired
  <2>2. QED BY <1>1, <2>1, <1>0, <1>s, <1>f, PassesKeeps DEF ReadOffset, PeStages
<1>2. CASE ReadSignature
  <2>1. Acquired("fields") = Acquired("signature") \cup {}
    BY DEF Acquired
  <2>2. QED BY <1>2, <2>1, <1>0, <1>s, <1>f, PassesKeeps DEF ReadSignature, PeStages
<1>3. CASE ReadFields
  <2>1. Acquired("windows") = Acquired("fields") \cup {}
    BY DEF Acquired
  <2>2. QED BY <1>3, <2>1, <1>0, <1>s, <1>f, PassesKeeps DEF ReadFields, PeStages
<1>4. CASE ReadWindows
  <2>1. Acquired("directories") = Acquired("windows") \cup {"directories"}
    BY DEF Acquired
  <2>2. QED BY <1>4, <2>1, <1>0, <1>s, <1>f, PassesKeeps DEF ReadWindows, PeStages
<1>5. CASE ReadDirectories
  <2>1. Acquired("table") = Acquired("directories") \cup {"table"}
    BY DEF Acquired
  <2>2. CASE Passes("directories")
    BY <1>5, <2>1, <2>2, <1>0, <1>s, <1>f, PassesKeeps DEF ReadDirectories, PeStages
  <2>3. CASE Astray("directories")
    BY <1>5, <2>3, AstrayKeeps DEF ReadDirectories
  <2>4. QED BY <1>5, <2>2, <2>3 DEF ReadDirectories
<1>6. CASE ReadTable
  <2>1. Acquired("table") \cup {"sections"} = released("PE")
    BY DEF Acquired, released
  <2>2. Found("table", file[calls], Unread(calls))
          => /\ Evidence("PE") \in file[calls].valid
             /\ ~Unread(calls) => file[calls].magic = "PE"
    BY DEF Found, PeStages, Evidence
  <2>3. "table" \in Stages /\ "PE" \in Kinds /\ {"sections"} \in SUBSET Sorts
    BY DEF Stages, Kinds, Sorts
  <2>4. CASE Passes("table")
    BY <1>6, <2>1, <2>2, <2>3, <2>4, LastKeeps DEF ReadTable
  <2>5. CASE Astray("table")
    BY <1>6, <2>5, AstrayKeeps DEF ReadTable
  <2>6. QED BY <1>6, <2>4, <2>5 DEF ReadTable
<1>7. CASE PecoffThrows
  <2>1. CASE \E st \in {"directories", "table"} : Astray(st) /\ CallThrows
    BY <2>1, AstrayKeeps
  <2>2. QED BY <1>7, <2>1, <1>s, FailsKeeps DEF PecoffThrows, PeStages
<1>8. CASE BackFails
  BY <1>8, AstrayKeeps
<1>9. QED BY <1>1, <1>2, <1>3, <1>4, <1>5, <1>6, <1>7, <1>8

LEMMA CoffKeeps ==
  ASSUME IInv, Load \/ LoadThrows
  PROVE  IInv'
<1>1. CASE Load
  <2>1. released("COFF") \subseteq Acquired("load") \cup {"sections"}
    BY DEF Acquired, released
  <2>2. Found("load", file[calls], Unread(calls)) /\ "load" \in file[calls].valid
          => /\ Evidence("COFF") \in file[calls].valid
             /\ ~Unread(calls) => file[calls].magic = "COFF"
    BY DEF Found, Evidence
  <2>3. "load" \in Stages /\ "COFF" \in Kinds /\ {"sections"} \in SUBSET Sorts
    BY DEF Stages, Kinds, Sorts
  <2>4. Passes("load") /\ Return("COFF", {"sections"})
    BY <1>1 DEF Load
  <2>5. QED BY <2>1, <2>2, <2>3, <2>4, LastKeeps
<1>2. CASE LoadThrows
  <2>1. CASE Fails("load") /\ CallThrows
    BY <2>1, FailsKeeps DEF Stages
  <2>2. CASE stage = "load" /\ Works /\ CallThrows
    BY <2>2, SystemCall, ThrowKeeps DEF IInv
  <2>3. QED BY <1>2, <2>1, <2>2 DEF LoadThrows
<1>3. QED BY <1>1, <1>2

(***************************************************************************)
(* Theorems.                                                               *)
(***************************************************************************)
\* The inductive invariant holds: the manager, the constructors and the
\* destructors keep the books of what was acquired.
THEOREM Invariance == OpeningSpec => []IInv
<1>1. OpeningInit => IInv
  BY ConstantsAssumption DEF OpeningInit, IInv, OpeningTypeOK, Stages, Current, KindTruthful,
     DeletesWhatItHolds, NothingMore, LeaksExplained, Objects
<1>2. IInv /\ [OpeningNext]_openingVars => IInv'
  <2>1. SUFFICES ASSUME IInv, [OpeningNext]_openingVars PROVE IInv'
    OBVIOUS
  <2>2. ASSUME NEW f \in Files, openFile(f) PROVE IInv'
    BY <2>1, <2>2, CallKeeps DEF openFile
  <2>3. ASSUME NEW f \in Files, openELFFile(f) PROVE IInv'
    BY <2>1, <2>3, CallKeeps DEF openELFFile
  <2>4. ASSUME NEW f \in Files, CannotOpen(f) PROVE IInv'
    BY <2>1, <2>4, CallKeeps DEF CannotOpen
  <2>5. ASSUME NEW f \in Files, Refused(f) PROVE IInv'
    BY <2>1, <2>5, CallKeeps DEF Refused
  <2>6. CASE Step
    BY <2>1, <2>6, MagicKeeps, ElfKeeps, PeKeeps, CoffKeeps DEF Step
  <2>7. ASSUME NEW n \in Objects, Delete(n) PROVE IInv'
    BY <2>1, <2>7, DeleteKeeps
  <2>8. CASE UNCHANGED openingVars
    BY <2>1, <2>8 DEF openingVars, IInv, OpeningTypeOK, Current, Unread, KindTruthful,
       DeletesWhatItHolds, NothingMore, LeaksExplained, Objects
  <2>9. QED BY <2>1, <2>2, <2>3, <2>4, <2>5, <2>6, <2>7, <2>8 DEF OpeningNext
<1>3. QED BY <1>1, <1>2, PTL DEF OpeningSpec

\* The types of all variables.
THEOREM TypeCorrect == OpeningSpec => []OpeningTypeOK
<1>1. IInv => OpeningTypeOK
  BY DEF IInv
<1>2. QED BY <1>1, Invariance, PTL

\* Manager::openFile never makes an object of a class the file is not of, even
\* when it dispatched on bytes it did not read.
THEOREM KindIsTruthful == OpeningSpec => []KindTruthful
<1>1. IInv => KindTruthful
  BY DEF IInv
<1>2. QED BY <1>1, Invariance, PTL

\* The destructors release what is there.
THEOREM DestructorsAreSafe == OpeningSpec => []DeletesWhatItHolds
<1>1. IInv => DeletesWhatItHolds
  BY DEF IInv
<1>2. QED BY <1>1, Invariance, PTL

\* Only calls that threw and COFF objects leave resources behind.
THEOREM LeaksAreExplained == OpeningSpec => []LeaksExplained
<1>1. IInv => LeaksExplained
  BY DEF IInv
<1>2. QED BY <1>1, Invariance, PTL

(***************************************************************************)
(* Streams are counted.                                                    *)
(***************************************************************************)
Bounded == IsFiniteSet(OpenStreams) /\ Cardinality(OpenStreams) <= MaxStreams

LEMMA StreamsBounded ==
  ASSUME IInv, Bounded, OpeningNext
  PROVE  Bounded'
<1>1. CASE OpenStreams' \subseteq OpenStreams
  <2>1. IsFiniteSet(OpenStreams') /\ Cardinality(OpenStreams') <= Cardinality(OpenStreams)
    BY <1>1, FS_Subset DEF Bounded
  <2>2. Cardinality(OpenStreams') \in Nat /\ Cardinality(OpenStreams) \in Nat
    BY <2>1, FS_CardinalityType DEF Bounded
  <2>3. QED BY <2>1, <2>2, ConstantsAssumption DEF Bounded
<1>2. ASSUME NEW f \in Files, NEW st, Room, Call(f, st, TRUE)
      PROVE  Bounded'
  <2>1. OpenStreams' = OpenStreams \cup {<<"stream", calls + 1>>}
    BY <1>2 DEF Call, OpenStreams
  <2>2. /\ IsFiniteSet(OpenStreams')
        /\ \/ Cardinality(OpenStreams') = Cardinality(OpenStreams)
           \/ Cardinality(OpenStreams') = Cardinality(OpenStreams) + 1
    BY <2>1, FS_AddElement DEF Bounded
  <2>3. Cardinality(OpenStreams) \in Nat
    BY FS_CardinalityType DEF Bounded
  <2>4. QED BY <1>2, <2>2, <2>3, ConstantsAssumption DEF Bounded, Room
<1>3. ASSUME NEW st, NEW acq, Goto(st, acq), "stream" \notin acq
      PROVE  OpenStreams' \subseteq OpenStreams
  BY <1>3 DEF Goto, OpenStreams
<1>4. ASSUME NEW k, NEW acq, Return(k, acq), "stream" \notin acq
      PROVE  OpenStreams' \subseteq OpenStreams
  BY <1>4 DEF Return, OpenStreams
<1>5. CallThrows => OpenStreams' \subseteq OpenStreams
  BY DEF CallThrows, OpenStreams
<1>6. ASSUME NEW m, Dispatch(m)
      PROVE  OpenStreams' \subseteq OpenStreams
  BY <1>3, <1>5, <1>6 DEF Dispatch
<1>7. ASSUME Step
      PROVE  OpenStreams' \subseteq OpenStreams
  <2>1. CASE ReadMagic \/ MagicNotRead \/ ShortMagic \/ ResetFails
    BY <2>1, <1>5, <1>6 DEF ReadMagic, MagicNotRead, ShortMagic, ResetFails
  <2>2. CASE ReadIdent \/ IdentThrows \/ ReadElf \/ ElfThrows
    BY <2>2, <1>3, <1>4, <1>5 DEF ReadIdent, IdentThrows, ReadElf, ElfThrows
  <2>3. CASE ReadOffset \/ ReadSignature \/ ReadFields \/ ReadWindows \/ BackFails
    BY <2>3, <1>3 DEF ReadOffset, ReadSignature, ReadFields, ReadWindows, BackFails
  <2>4. CASE ReadDirectories \/ ReadTable \/ PecoffThrows
    BY <2>4, <1>3, <1>4, <1>5 DEF ReadDirectories, ReadTable, PecoffThrows
  <2>5. CASE Load \/ LoadThrows
    BY <2>5, <1>4, <1>5 DEF Load, LoadThrows
  <2>6. QED BY <1>7, <2>1, <2>2, <2>3, <2>4, <2>5 DEF Step
<1>8. ASSUME NEW f \in Files, openFile(f) \/ openELFFile(f) PROVE Bounded'
  BY <1>2, <1>8 DEF openFile, openELFFile
<1>9. ASSUME NEW f \in Files, CannotOpen(f) \/ Refused(f)
      PROVE  OpenStreams' \subseteq OpenStreams
  BY <1>9 DEF CannotOpen, Refused, Call, OpenStreams
<1>10. ASSUME NEW n \in Objects, Delete(n)
       PROVE  OpenStreams' \subseteq OpenStreams
  BY <1>10 DEF Delete, OpenStreams
<1>11. QED BY <1>1, <1>7, <1>8, <1>9, <1>10 DEF OpeningNext

\* When nothing has leaked, the streams are those of the objects, one each.
LEMMA StreamsAreObjects ==
  ASSUME IInv, Bounded, stage = "idle", threw = {}, \A n \in DOMAIN kind : kind[n] # "COFF"
  PROVE  Cardinality(Objects) = Cardinality(OpenStreams)
<1> DEFINE g == [r \in OpenStreams |-> r[2]]
<1>1. \A r \in OpenStreams : r = <<"stream", r[2]>> /\ r[2] \in Objects
  BY DEF OpenStreams, IInv, OpeningTypeOK, LeaksExplained
<1>2. \A n \in Objects : <<"stream", n>> \in OpenStreams
  <2>1. SUFFICES ASSUME NEW n \in Objects PROVE <<"stream", n>> \in live
    BY DEF OpenStreams
  <2>2. "stream" \in released(kind[n])
    BY DEF IInv, OpeningTypeOK, Objects, Kinds, released
  <2>3. QED BY <2>2 DEF IInv, DeletesWhatItHolds
<1>3. g \in Bijection(OpenStreams, Objects)
  <2>1. g \in [OpenStreams -> Objects]
    BY <1>1
  <2>2. \A a, b \in OpenStreams : g[a] = g[b] => a = b
    BY <1>1
  <2>3. \A n \in Objects : \E r \in OpenStreams : g[r] = n
    BY <1>2
  <2>4. DOMAIN g = OpenStreams
    OBVIOUS
  <2>5. IsInjective(g)
    BY <2>2, <2>4 DEF IsInjective
  <2> HIDE DEF g
  <2>6. QED BY <2>1, <2>3, <2>5 DEF Bijection, Injection, Surjection
<1>4. ExistsBijection(OpenStreams, Objects)
  BY <1>3 DEF ExistsBijection
<1>5. QED BY <1>4, FS_Bijection DEF Bounded

\* The manager refuses a file for want of a stream only when objects hold them
\* all, or when a call that threw or a COFF file has kept one.
THEOREM RefusalsHaveCause == OpeningSpec => RefusedWithCause
<1>1. OpeningInit => Bounded
  <2>1. OpeningInit => OpenStreams = {}
    BY DEF OpeningInit, OpenStreams
  <2>2. QED BY <2>1, FS_EmptySet, ConstantsAssumption DEF Bounded
<1>2. IInv /\ Bounded /\ [OpeningNext]_openingVars => Bounded'
  <2>1. ASSUME Bounded, UNCHANGED openingVars PROVE Bounded'
    BY <2>1 DEF Bounded, OpenStreams, openingVars
  <2>2. QED BY <2>1, StreamsBounded
<1>3. ASSUME IInv, Bounded, NEW f \in Files, Refused(f)
      PROVE  \/ Cardinality({n \in Objects : kind[n] # "COFF"}) = MaxStreams
             \/ threw # {}
             \/ \E n \in DOMAIN kind : kind[n] = "COFF"
  <2>1. SUFFICES ASSUME threw = {}, \A n \in DOMAIN kind : kind[n] # "COFF"
                 PROVE  Cardinality({n \in Objects : kind[n] # "COFF"}) = MaxStreams
    OBVIOUS
  <2>2. stage = "idle" /\ ~Room
    BY <1>3 DEF Refused, Call
  <2>3. {n \in Objects : kind[n] # "COFF"} = Objects
    BY <2>1 DEF Objects
  <2>4. Cardinality(OpenStreams) \in Nat
    BY <1>3, FS_CardinalityType DEF Bounded
  <2>5. Cardinality(OpenStreams) = MaxStreams
    BY <1>3, <2>2, <2>4, ConstantsAssumption DEF Bounded, Room
  <2>6. QED BY <1>3, <2>1, <2>2, <2>3, <2>5, StreamsAreObjects
<1>4. IInv /\ Bounded =>
        [\A f \in Files : Refused(f) =>
            \/ Cardinality({n \in Objects : kind[n] # "COFF"}) = MaxStreams
            \/ threw # {}
            \/ \E n \in DOMAIN kind : kind[n] = "COFF"]_openingVars
  BY <1>3
<1>5. QED BY <1>1, <1>2, <1>4, Invariance, PTL DEF OpeningSpec, RefusedWithCause
=============================================================================
