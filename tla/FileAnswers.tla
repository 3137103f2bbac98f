---------------------------- MODULE FileAnswers ----------------------------
(***************************************************************************)
(* What a client of gel::File is promised, seen through one question asked *)
(* any number of times: while the object lives, every answer is what the   *)
(* file holds.  A call that throws answers nothing.                        *)
(***************************************************************************)
VARIABLES
  truth,     \* what the file holds for the question
  isOpen,    \* the object exists
  answers    \* the answers it gave

Init == isOpen = FALSE /\ answers = {}

Open == ~isOpen /\ isOpen' = TRUE /\ UNCHANGED <<truth, answers>>

Ask == isOpen /\ answers' = {truth} /\ UNCHANGED <<truth, isOpen>>

Close == isOpen /\ isOpen' = FALSE /\ answers' = {} /\ UNCHANGED truth

Next == Open \/ Ask \/ Close

Spec == Init /\ [][Next]_<<truth, isOpen, answers>>
=============================================================================
