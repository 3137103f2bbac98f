---------------------------- MODULE Tools_proofs ----------------------------
(***************************************************************************)
(* Proofs about Tools, for any invocations.  The inductive invariant says  *)
(* what has become of the arguments before the current one, and how a      *)
(* command that has ended did end: by a message on its words, after the    *)
(* last argument, or by an exception it does not survive.                  *)
(***************************************************************************)
EXTENDS Tools, FiniteSetTheorems, TLAPS

(***************************************************************************)
(* The inductive invariant.                                                *)
(***************************************************************************)
Messages == [failed : Nat \ {0}, names : Nat, opened : BOOLEAN]

Types ==
  /\ Invoked(call)
  /\ point \in {"parse", "open", "work", "exit", "crashed"}
  /\ i \in Nat \ {0} /\ told \in Seq(Messages)
  /\ point = "parse" => i = 1 /\ told = <<>>
  /\ point = "work" => i <= Len(call.args)

\* The arguments before the current one.
Accounted ==
  /\ shown \subseteq 1..(i - 1)
  /\ \A k \in 1..(i - 1) : k \in shown \/ \E m \in DOMAIN told : told[m].failed = k
  /\ point \in {"open", "work"} => \A m \in DOMAIN told : told[m].failed < i
  /\ told # <<>> /\ ~me.goesOn => point = "exit" /\ status = me.failure

Naming == \A m \in DOMAIN told : told[m].names = told[m].failed <=> me.names = "argument"

\* How a command has ended.
Ended ==
  point = "exit" =>
    \/ status = 1 /\ ("wrong" \in call.opts \/ DOMAIN call.args = {})
    \/ i > Len(call.args)
    \/ told # <<>> /\ told[Len(told)].failed = i /\ ~me.goesOn

OpenNow ==
  point \in {"parse", "open", "work", "exit"} =>
    open = {told[m].failed : m \in {m \in DOMAIN told : told[m].opened}}
             \cup (IF me.deletes THEN {} ELSE shown)
             \cup (IF point = "work" THEN {i} ELSE {})

IInv == Types /\ Accounted /\ Naming /\ Ended /\ OpenNow

(***************************************************************************)
(* What is common to the eight commands.                                   *)
(***************************************************************************)
\* How a command runs, by its name: the cases of run() the proofs tell apart.
LEMMA RunLemma ==
  ASSUME Invoked(call)
  PROVE  /\ me.least \in {0, 1} /\ me.goesOn \in BOOLEAN /\ me.failure \in Nat
         /\ me.names \in {"argument", "word", "nothing"}
         /\ me.names = "argument" <=> call.tool \in {"line", "sym"}
         /\ call.tool \in {"sect", "sym"} => ~me.goesOn /\ me.failure # 0
  <1>1. call.tool \in {"dyn", "file", "im", "line", "prog", "sect", "seg", "sym"}
    BY DEF Invoked, Commands
  <1>2. CASE call.tool = "dyn"   BY <1>2 DEF me, run, dynRun
  <1>3. CASE call.tool = "file"  BY <1>3 DEF me, run, fileRun
  <1>4. CASE call.tool = "im"    BY <1>4 DEF me, run, imRun
  <1>5. CASE call.tool = "line"  BY <1>5 DEF me, run, lineRun
  <1>6. CASE call.tool = "prog"  BY <1>6 DEF me, run, progRun
  <1>7. CASE call.tool = "sect"
    <2>1. me = sectRun(call.opts)
      BY <1>7 DEF me, run
    <2> QED BY <1>7, <2>1 DEF sectRun
  <1>8. CASE call.tool = "seg"   BY <1>8 DEF me, run, segRun
  <1>9. CASE call.tool = "sym"
    <2>1. me = symRun
      BY <1>9 DEF me, run
    <2> QED BY <1>9, <2>1 DEF symRun
  <1> QED BY <1>1, <1>2, <1>3, <1>4, <1>5, <1>6, <1>7, <1>8, <1>9

\* What a message is about.
LEMMA MessageLemma ==
  ASSUME told \in Seq(Messages), NEW m \in DOMAIN told
  PROVE  told[m].failed \in Nat
  <1>1. told[m] \in Messages
    OBVIOUS
  <1> QED BY <1>1 DEF Messages

\* A message names the argument it is about, or one before it, or none.
LEMMA NamedLemma ==
  ASSUME Invoked(call), i \in Nat \ {0}
  PROVE  named \in Nat /\ (named = i <=> me.names = "argument")
  <1>1. Cardinality(call.opts) \in Nat
    BY FS_CardinalityType DEF Invoked
  <1> DEFINE n == Cardinality(call.opts)
  <1>2. me.names \in {"argument", "word", "nothing"}
    BY RunLemma
  <1>3. CASE me.names = "argument"  BY <1>3 DEF named
  <1>4. CASE me.names = "nothing"   BY <1>4 DEF named
  <1>5. CASE me.names = "word"
    <2>1. named = IF i - 1 > n THEN i - 1 - n ELSE 0
      BY <1>5 DEF named
    <2> QED BY <2>1, <1>1, <1>5
  <1> QED BY <1>2, <1>3, <1>4, <1>5

\* The message of a handler is added to the others.
LEMMA ToldLemma ==
  ASSUME Invoked(call), i \in Nat \ {0}, told \in Seq(Messages),
         told' = Append(told, [failed |-> i, names |-> named, opened |-> point = "work"])
  PROVE  /\ told' \in Seq(Messages) /\ told' # <<>>
         /\ Len(told') = Len(told) + 1 /\ DOMAIN told' = DOMAIN told \cup {Len(told')}
         /\ \A m \in DOMAIN told : told'[m] = told[m]
         /\ told'[Len(told')].failed = i /\ told'[Len(told')].names = named
         /\ told'[Len(told')].opened <=> point = "work"
  <1> DEFINE new == [failed |-> i, names |-> named, opened |-> point = "work"]
  <1>1. named \in Nat
    BY NamedLemma
  <1>2. new \in Messages
    BY <1>1 DEF Messages
  <1>5. new.failed = i /\ new.names = named /\ (new.opened <=> point = "work")
    OBVIOUS
  <1> HIDE DEF new
  <1>3. told' = Append(told, new)
    BY DEF new
  <1>4. /\ told' \in Seq(Messages) /\ told' # <<>>
        /\ Len(told') = Len(told) + 1 /\ DOMAIN told' = DOMAIN told \cup {Len(told')}
        /\ \A m \in DOMAIN told : told'[m] = told[m]
        /\ told'[Len(told')] = new
    BY <1>2, <1>3
  <1> QED BY <1>4, <1>5

(***************************************************************************)
(* The invariant is inductive.                                             *)
(***************************************************************************)
LEMMA InitInv == ToolsInit => IInv
  <1> SUFFICES ASSUME ToolsInit PROVE IInv
    OBVIOUS
  <1>1. DOMAIN told = {} /\ told \in Seq(Messages)
    BY DEF ToolsInit
  <1>2. Types
    BY <1>1 DEF ToolsInit, Types
  <1>3. Accounted /\ Naming /\ Ended
    BY <1>1 DEF ToolsInit, Accounted, Naming, Ended
  <1>4. OpenNow
    BY <1>1 DEF ToolsInit, OpenNow
  <1> QED BY <1>2, <1>3, <1>4 DEF IInv

\* An exception, from the opening of a file or from a question.
LEMMA CatchInv ==
  ASSUME IInv, Catch, point \in {"open", "work"}, i <= Len(call.args)
  PROVE  IInv'
  <1> USE DEF IInv
  <1> DEFINE n == Len(told')
  <1>1. /\ call' = call /\ me' = me /\ Invoked(call) /\ i \in Nat \ {0} /\ told \in Seq(Messages)
        /\ open' = open /\ shown' = shown /\ me.goesOn \in BOOLEAN
    BY RunLemma DEF Catch, Types, me
  <1>2. /\ told' \in Seq(Messages) /\ told' # <<>>
        /\ n = Len(told) + 1 /\ DOMAIN told' = DOMAIN told \cup {n}
        /\ \A m \in DOMAIN told : told'[m] = told[m]
        /\ told'[n].failed = i /\ told'[n].names = named
        /\ told'[n].opened <=> point = "work"
    BY <1>1, ToldLemma DEF Catch
  <1>3. /\ me.goesOn => point' = "open" /\ i' = i + 1 /\ status' = status
        /\ ~me.goesOn => point' = "exit" /\ i' = i /\ status' = me.failure
    BY DEF Catch
  <1>4. Types'
    BY <1>1, <1>2, <1>3 DEF Types
  <1>5. told'[n].failed = i /\ (told'[n].names = i <=> me.names = "argument")
    BY <1>1, <1>2, NamedLemma
  <1> HIDE DEF n
  <1>6. Accounted'
    <2>1. \A k \in 1..(i - 1) : k \in shown \/ \E m \in DOMAIN told' : told'[m].failed = k
      BY <1>2 DEF Accounted
    <2>2. \A k \in 1..(i' - 1) : k \in shown' \/ \E m \in DOMAIN told' : told'[m].failed = k
      <3> TAKE k \in 1..(i' - 1)
      <3>1. k \in 1..(i - 1) \/ k = i
        BY <1>1, <1>3
      <3> QED BY <3>1, <2>1, <1>1, <1>2, <1>5
    <2>3. point' \in {"open", "work"} => \A m \in DOMAIN told' : told'[m].failed < i'
      <3> SUFFICES ASSUME point' \in {"open", "work"}, NEW m \in DOMAIN told'
                   PROVE  told'[m].failed < i'
        OBVIOUS
      <3>1. i' = i + 1
        BY <1>1, <1>3
      <3>2. CASE m = n
        BY <3>1, <3>2, <1>1, <1>5
      <3>3. CASE m \in DOMAIN told
        <4>1. told[m].failed < i /\ told[m].failed \in Nat
          BY <3>3, <1>1, MessageLemma DEF Accounted
        <4> QED BY <4>1, <3>1, <3>3, <1>1, <1>2
      <3> QED BY <3>2, <3>3, <1>2
    <2>4. shown' \subseteq 1..(i' - 1)
      BY <1>1, <1>3 DEF Accounted
    <2> QED BY <2>2, <2>3, <2>4, <1>1, <1>3 DEF Accounted
  <1>7. Naming'
    BY <1>1, <1>2, <1>5 DEF Naming
  <1>8. Ended'
    BY <1>1, <1>2, <1>3, <1>5 DEF Ended, n
  <1>9. OpenNow'
    <2> DEFINE failed == {told[m].failed : m \in {m \in DOMAIN told : told[m].opened}}
               failed1 == {told'[m].failed : m \in {m \in DOMAIN told' : told'[m].opened}}
    <2>1. n \notin DOMAIN told
      BY <1>1, <1>2
    <2>2. failed1 = failed \cup (IF point = "work" THEN {i} ELSE {})
      <3>1. told'[n].opened <=> point = "work"
        BY <1>2
      <3> QED BY <3>1, <2>1, <1>2, <1>5
    <2>3. open = failed \cup (IF me.deletes THEN {} ELSE shown)
                    \cup (IF point = "work" THEN {i} ELSE {})
      BY DEF OpenNow
    <2>4. point' # "work"
      BY <1>1, <1>3
    <2> HIDE DEF failed, failed1
    <2>5. open' = failed1 \cup (IF me.deletes THEN {} ELSE shown')
      BY <2>2, <2>3, <1>1
    <2> QED BY <2>4, <2>5, <1>1 DEF OpenNow, failed1
  <1> QED BY <1>4, <1>6, <1>7, <1>8, <1>9

LEMMA StepInv == IInv /\ [ToolsNext]_toolsVars => IInv'
  <1> SUFFICES ASSUME IInv, [ToolsNext]_toolsVars PROVE IInv'
    OBVIOUS
  <1> USE DEF IInv
  <1>0. /\ Invoked(call) /\ i \in Nat \ {0} /\ told \in Seq(Messages)
        /\ Len(call.args) \in Nat /\ DOMAIN call.args = 1..Len(call.args)
    BY DEF Types, Invoked
  <1>1. CASE Usage
    <2>1. UNCHANGED <<call, i, told, open, shown, me>> /\ point = "parse" /\ point' = "exit" /\ status' = 1
      BY <1>1 DEF Usage, me
    <2>2. "wrong" \in call.opts \/ DOMAIN call.args = {}
      <3>1. me.least \in {0, 1} /\ ("wrong" \in call.opts \/ Len(call.args) < me.least)
        BY <1>0, <1>1, RunLemma DEF Usage
      <3> QED BY <3>1, <1>0
    <2>3. Types'
      BY <2>1 DEF Types
    <2>4. Accounted' /\ Naming' /\ Ended'
      BY <2>1, <2>2 DEF Types, Accounted, Naming, Ended
    <2>5. OpenNow'
      BY <2>1 DEF OpenNow
    <2> QED BY <2>3, <2>4, <2>5
  <1>2. CASE Parse
    <2>1. /\ UNCHANGED <<call, i, told, open, shown, status, me>>
          /\ point = "parse" /\ point' = "open" /\ told = <<>>
      BY <1>2 DEF Parse, me, Types
    <2>2. Types'
      BY <2>1 DEF Types
    <2>3. Accounted' /\ Naming' /\ Ended'
      BY <2>1 DEF Accounted, Naming, Ended
    <2>4. OpenNow'
      BY <2>1 DEF OpenNow
    <2> QED BY <2>2, <2>3, <2>4
  <1>3. CASE Open
    <2>1. /\ UNCHANGED <<call, i, told, shown, status, me>> /\ open' = open \cup {i}
          /\ point = "open" /\ point' = "work" /\ i <= Len(call.args)
      BY <1>3 DEF Open, me
    <2>2. Types'
      BY <2>1 DEF Types
    <2>3. Accounted' /\ Naming' /\ Ended'
      BY <2>1 DEF Accounted, Naming, Ended
    <2>4. OpenNow'
      BY <2>1 DEF OpenNow
    <2> QED BY <2>2, <2>3, <2>4
  <1>4. CASE OpenThrows
    BY <1>4, CatchInv DEF OpenThrows
  <1>5. CASE Answered
    <2>1. UNCHANGED <<call, point, i, told, open, shown, status, me>>
      BY <1>5 DEF Answered, me
    <2>2. Types' /\ Accounted' /\ Naming' /\ Ended' /\ OpenNow'
      BY <2>1 DEF Types, Accounted, Naming, Ended, OpenNow
    <2> QED BY <2>2
  <1>6. CASE AskThrows
    <2>1. point = "work" /\ Catch
      BY <1>6 DEF AskThrows, Ask
    <2> QED BY <2>1, CatchInv DEF Types
  <1>7. CASE Crash
    <2>1. UNCHANGED <<call, i, told, open, shown, status, me>> /\ point = "work" /\ point' = "crashed"
      BY <1>7 DEF Crash, Ask, me
    <2>2. told # <<>> => me.goesOn
      BY <2>1 DEF Accounted
    <2>3. Types' /\ Accounted' /\ Naming' /\ Ended' /\ OpenNow'
      BY <2>1, <2>2 DEF Types, Accounted, Naming, Ended, OpenNow
    <2> QED BY <2>3
  <1>8. CASE Done
    <2>1. /\ UNCHANGED <<call, told, status, me>> /\ i' = i + 1 /\ shown' = shown \cup {i}
          /\ point = "work" /\ point' = "open" /\ open' = IF me.deletes THEN open \ {i} ELSE open
      BY <1>8 DEF Done, me
    <2>2. Types'
      BY <2>1, <1>0 DEF Types
    <2>3. Accounted'
      <3>1. \A k \in 1..(i' - 1) : k \in 1..(i - 1) \/ k = i
        BY <2>1, <1>0
      <3>2. \A k \in 1..(i' - 1) : k \in shown' \/ \E m \in DOMAIN told' : told'[m].failed = k
        BY <3>1, <2>1 DEF Accounted
      <3>3. shown' \subseteq 1..(i' - 1)
        BY <2>1, <1>0 DEF Accounted
      <3>4. \A m \in DOMAIN told' : told'[m].failed < i'
        <4> TAKE m \in DOMAIN told'
        <4>1. told[m].failed < i /\ told[m].failed \in Nat
          BY <2>1, <1>0, MessageLemma DEF Accounted
        <4> QED BY <4>1, <2>1, <1>0
      <3> QED BY <3>2, <3>3, <3>4, <2>1 DEF Accounted
    <2>4. Naming' /\ Ended'
      BY <2>1 DEF Naming, Ended
    <2>5. OpenNow'
      <3> DEFINE failed == {told[m].failed : m \in {m \in DOMAIN told : told[m].opened}}
      <3>1. i \notin failed
        <4> SUFFICES ASSUME NEW m \in DOMAIN told PROVE told[m].failed # i
          OBVIOUS
        <4>1. told[m].failed < i /\ told[m].failed \in Nat
          BY <2>1, <1>0, MessageLemma DEF Accounted
        <4> QED BY <4>1, <1>0
      <3>2. open = failed \cup (IF me.deletes THEN {} ELSE shown) \cup {i}
        BY <2>1 DEF OpenNow
      <3> HIDE DEF failed
      <3>3. open' = failed \cup (IF me.deletes THEN {} ELSE shown')
        BY <3>1, <3>2, <2>1
      <3> QED BY <3>3, <2>1 DEF OpenNow, failed
    <2> QED BY <2>2, <2>3, <2>4, <2>5
  <1>9. CASE RunReturns
    <2>1. /\ UNCHANGED <<call, i, told, open, shown, status, me>>
          /\ point = "open" /\ point' = "exit" /\ i > Len(call.args)
      BY <1>9 DEF RunReturns, me
    <2>2. Types'
      BY <2>1 DEF Types
    <2>3. told # <<>> => me.goesOn
      BY <2>1 DEF Accounted
    <2>4. Accounted' /\ Naming' /\ Ended'
      BY <2>1, <2>3 DEF Accounted, Naming, Ended
    <2>5. OpenNow'
      BY <2>1 DEF OpenNow
    <2> QED BY <2>2, <2>4, <2>5
  <1>10. CASE UNCHANGED toolsVars
    <2>1. UNCHANGED <<call, point, i, told, open, shown, status, me>>
      BY <1>10 DEF toolsVars, me
    <2>2. Types' /\ Accounted' /\ Naming' /\ Ended' /\ OpenNow'
      BY <2>1 DEF Types, Accounted, Naming, Ended, OpenNow
    <2> QED BY <2>2
  <1> QED BY <1>1, <1>2, <1>3, <1>4, <1>5, <1>6, <1>7, <1>8, <1>9, <1>10 DEF ToolsNext

LEMMA Invariant == ToolsSpec => []IInv
  BY InitInv, StepInv, PTL DEF ToolsSpec

(***************************************************************************)
(* The theorems.                                                           *)
(***************************************************************************)
\* Whatever the arguments and wherever the library throws, each argument of a
\* command that ends is printed or told about, by its name only in gel-line and
\* gel-sym, and the status 0 of gel-sym or gel-sect is a promise.
\* The code: the run() functions of bin/, their handlers and the main() functions.
THEOREM CommandsAnswer == ToolsSpec => []ShownOrTold
  <1>1. IInv => ShownOrTold
    <2> SUFFICES ASSUME IInv, point = "exit", "wrong" \notin call.opts
                 PROVE  ShownOrTold
      BY DEF ShownOrTold
    <2> USE DEF IInv
    <2>0. /\ Invoked(call) /\ i \in Nat \ {0} /\ told \in Seq(Messages)
          /\ Len(call.args) \in Nat /\ DOMAIN call.args = 1..Len(call.args)
      BY DEF Types, Invoked
    <2>1. \A m \in DOMAIN told : told[m].names = told[m].failed <=> call.tool \in {"line", "sym"}
      BY <2>0, RunLemma DEF Naming
    <2>2. \A k \in DOMAIN call.args \ shown :
            \E m \in DOMAIN told : \/ told[m].failed = k
                                   \/ told[m].failed < k /\ m = Len(told) /\ i = told[m].failed
      <3> TAKE k \in DOMAIN call.args \ shown
      <3>1. CASE k < i
        BY <3>1, <2>0 DEF Accounted
      <3>2. CASE k >= i
        <4>1. told # <<>> /\ told[Len(told)].failed = i
          BY <3>2, <2>0 DEF Ended
        <4>2. Len(told) \in DOMAIN told
          BY <4>1, <2>0
        <4> QED BY <4>1, <4>2, <3>2, <2>0
      <3> QED BY <3>1, <3>2, <2>0
    <2>3. ASSUME call.tool \in {"sect", "sym"}, exitStatus(call.tool, status) = 0
          PROVE  DOMAIN call.args \subseteq shown
      <3>1. status = 0
        BY <2>3 DEF exitStatus
      <3>2. ~me.goesOn /\ me.failure # 0
        BY <2>3, <2>0, RunLemma
      <3>3. told = <<>>
        BY <3>1, <3>2 DEF Accounted
      <3>4. DOMAIN call.args = {} \/ i > Len(call.args)
        BY <3>1, <3>3 DEF Ended
      <3> QED BY <3>3, <3>4, <2>0 DEF Accounted
    <2> QED BY <2>1, <2>2, <2>3 DEF ShownOrTold
  <1> QED BY <1>1, Invariant, PTL

\* The files a command leaves open are those an exception was about and those of
\* the commands that never delete one.
\* The code: the delete statements at the end of the try blocks.
THEOREM FilesLeftOpen == ToolsSpec => []LeftOpen
  <1>1. IInv => LeftOpen
    <2> SUFFICES ASSUME OpenNow, point = "exit" PROVE LeftOpen
      BY DEF LeftOpen, IInv
    <2>1. open = {told[m].failed : m \in {m \in DOMAIN told : told[m].opened}}
                   \cup (IF me.deletes THEN {} ELSE shown)
      BY DEF OpenNow
    <2> QED BY <2>1 DEF LeftOpen
  <1> QED BY <1>1, Invariant, PTL
=============================================================================
