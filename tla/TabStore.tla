------------------------------ MODULE TabStore ------------------------------
(***************************************************************************)
(* What the callers of SheetsWriter.write may rely on, whatever requests   *)
(* it takes: the target tab is emptied, then it is filled and the call     *)
(* returns, at once.  A call that gives up may leave the first of the two  *)
(* done, or both; a call whose process ends leaves what there is.  No tab  *)
(* is ever filled that the same call did not empty, none is filled with    *)
(* anything but the rows of the call, and no other tab changes.            *)
(***************************************************************************)
CONSTANTS
  Tab,      \* names of tabs
  Batch,    \* what callers hand to one call
  Empty,    \* a tab without a cell
  Filled,   \* what a tab holds after a call: a function of the batch
  Absent, NoJob

VARIABLES
  tabs,     \* the document: what each tab holds
  job,      \* target tab and batch of the last call
  state     \* "idle", "asked", "emptied", "returned" or "raised"

vars == <<tabs, job, state>>

Init ==
  /\ tabs \in [Tab -> {Absent, Empty} \cup {Filled[b] : b \in Batch}]
  /\ job = NoJob
  /\ state = "idle"

Holds(content) == tabs' = [tabs EXCEPT ![job.tab] = content]

Ask(t, b) ==
  /\ state \in {"idle", "returned", "raised"}
  /\ job' = [tab |-> t, rows |-> b] /\ state' = "asked"
  /\ UNCHANGED tabs

EmptyTab ==
  /\ state = "asked"
  /\ state' = "emptied" /\ Holds(Empty)
  /\ UNCHANGED job

Return ==
  /\ state = "emptied" /\ tabs[job.tab] = Empty
  /\ state' = "returned" /\ Holds(Filled[job.rows])
  /\ UNCHANGED job

\* The call raises; the request it stopped at may have been carried out.
GiveUp ==
  /\ state' = "raised" /\ UNCHANGED job
  /\ \/ state \in {"asked", "emptied"} /\ UNCHANGED tabs
     \/ state = "asked" /\ Holds(Empty)
     \/ state = "emptied" /\ tabs[job.tab] = Empty /\ Holds(Filled[job.rows])

\* The process of the call ends, after the call or in the middle of it.
Forget ==
  /\ state # "idle"
  /\ state' = "idle" /\ job' = NoJob
  /\ UNCHANGED tabs

Next ==
  \/ \E t \in Tab, b \in Batch : Ask(t, b)
  \/ EmptyTab
  \/ Return
  \/ GiveUp
  \/ Forget

Spec == Init /\ [][Next]_vars
=============================================================================
