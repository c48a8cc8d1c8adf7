----------------------------- MODULE LayoutStore -----------------------------
(***************************************************************************)
(* What the callers of LayoutWriter.write and the account holder may rely  *)
(* on, whatever requests it takes and whether the tab is created or        *)
(* refreshed.  A month that does not fit is refused at once.  Otherwise    *)
(* the expense block is emptied before it is filled, the panel is touched  *)
(* when the block is right, and emptied before it is filled; the call      *)
(* returns when both are the caller's, and may give up after any change.   *)
(* Column H is the account holder's: only he changes it.  A tab that was   *)
(* just added may hold the rows as a draft, whose cells Sheets interpreted.*)
(***************************************************************************)
CONSTANTS
  Tab, Batch, Panel, Category,
  Fitting,      \* the batches that are not too large
  New,          \* a tab that was just added
  NoPanel, Absent, NoJob

VARIABLES
  tabs,         \* what each tab holds, with fields expenses, typed, panel, shared
  job,          \* target tab, rows and balances of the last call
  state         \* "idle", "asked", "returned" or "raised"

vars == <<tabs, job, state>>

Init ==
  /\ tabs = [t \in Tab |-> Absent]
  /\ job = NoJob
  /\ state = "idle"

Ask(t, R, balances) ==
  /\ state # "asked"
  /\ job' = [tab |-> t, rows |-> R, balances |-> balances]
  /\ state' = IF R \in Fitting THEN "asked" ELSE "raised"
  /\ UNCHANGED tabs

Old == tabs[job.tab]

Holds(content) == tabs' = [tabs EXCEPT ![job.tab] = content]

\* The expense block holds the rows of the call, as they were sent.
BlockIsRight == Old # Absent /\ Old.expenses = job.rows /\ ~Old.typed

\* What one request may make of the target tab.
Rewrite ==
  \/ Old = Absent /\ Holds(New)
  \/ Old = New /\ Holds([New EXCEPT !.expenses = job.rows, !.typed = job.rows # {},
                                    !.panel = job.balances])
  \/ Old # Absent /\ Holds([Old EXCEPT !.expenses = {}, !.typed = FALSE])
  \/ Old # Absent /\ Old.expenses = {} /\ ~Old.typed
       /\ Holds([Old EXCEPT !.expenses = job.rows])
  \/ BlockIsRight /\ Holds([Old EXCEPT !.panel = NoPanel])
  \/ BlockIsRight /\ Old.panel = NoPanel /\ Holds([Old EXCEPT !.panel = job.balances])

Work == state = "asked" /\ Rewrite /\ UNCHANGED <<job, state>>

Return ==
  /\ state = "asked" /\ BlockIsRight /\ Old.panel = job.balances
  /\ state' = "returned"
  /\ UNCHANGED <<tabs, job>>

\* The call raises; the request it stopped at may have been carried out.
GiveUp ==
  /\ state = "asked" /\ state' = "raised"
  /\ UNCHANGED tabs \/ Rewrite
  /\ UNCHANGED job

\* The process of the call ends, after the call or in the middle of it.
Forget ==
  /\ state # "idle"
  /\ state' = "idle" /\ job' = NoJob
  /\ UNCHANGED tabs

\* The account holder types beside a category.
Type(t, c) ==
  /\ tabs[t] # Absent
  /\ tabs' = [tabs EXCEPT ![t].shared = @ \cup {c}]
  /\ UNCHANGED <<job, state>>

Next ==
  \/ \E t \in Tab, R \in Batch, balances \in Panel : Ask(t, R, balances)
  \/ Work
  \/ Return
  \/ GiveUp
  \/ Forget
  \/ \E t \in Tab, c \in Category : Type(t, c)

Spec == Init /\ [][Next]_vars
=============================================================================
