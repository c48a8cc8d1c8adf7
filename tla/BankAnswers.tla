----------------------------- MODULE BankAnswers -----------------------------
(***************************************************************************)
(* What a caller of fetch_transactions may rely on, whatever pages and     *)
(* requests it takes: the call gives up without an answer, or its answer   *)
(* holds every movement that was settled when it was made and none that is *)
(* not settled by now.  It is not a snapshot: of the movements settled     *)
(* meanwhile it may hold any.                                              *)
(***************************************************************************)
CONSTANT Key      \* what tells two movements apart for the connector

VARIABLES
  settled,  \* the settled movements of the range, at the bank
  due,      \* those that were settled when the call was made
  state,    \* "quiet", "asked" or "answered"
  answer    \* the list the last call returned

vars == <<settled, due, state, answer>>

Init ==
  /\ settled \in SUBSET Key
  /\ due = {} /\ state = "quiet" /\ answer = {}

\* The bank settles movements; what is settled stays settled.
Settle ==
  /\ \E more \in SUBSET Key : settled' = settled \cup more
  /\ UNCHANGED <<due, state, answer>>

Ask ==
  /\ state # "asked"
  /\ state' = "asked" /\ due' = settled /\ answer' = {}
  /\ UNCHANGED settled

Return ==
  /\ state = "asked"
  /\ state' = "answered"
  /\ \E list \in SUBSET settled : due \subseteq list /\ answer' = list
  /\ UNCHANGED <<settled, due>>

\* The call raises, or its caller is done with the answer.
Drop ==
  /\ state # "quiet"
  /\ state' = "quiet" /\ due' = {} /\ answer' = {}
  /\ UNCHANGED settled

Next == Settle \/ Ask \/ Return \/ Drop

Spec == Init /\ [][Next]_vars
=============================================================================
