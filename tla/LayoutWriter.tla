---------------------------- MODULE LayoutWriter ----------------------------
(***************************************************************************)
(* One call of LayoutWriter.write (sheets/layout.py) on the accounting tab *)
(* of a month, request by request, and the account holder who types shared *)
(* amounts into column H of the same tab between and during the calls.     *)
(*                                                                         *)
(* A tab that does not exist is created whole: added, filled with the grid *)
(* (USER_ENTERED), its expense block written again as RAW values, three    *)
(* title ranges merged, five ranges formatted.  A tab that exists only has *)
(* its expense block B4:E403 and its panel J:K cleared and rewritten.      *)
(*                                                                         *)
(* What is abstracted: the expense block is the SET of its rows and a flag *)
(* for cells Sheets interpreted instead of storing; the panel is one       *)
(* balance per bank (its formulas are placed with it); titles, headers and *)
(* catalogue are one flag, since one request places them all.              *)
(***************************************************************************)
EXTENDS Naturals, Sequences, FiniteSets

CONSTANTS
  Tab,             \* tab names, one per month
  Batch,           \* the expense row sets callers hand to one write
  Panel,           \* the balances callers hand to one write: [Bank -> balance]
  Bank,            \* banks, one panel line each
  NoBalance,       \* the bank reported no balance: the cell is left empty
  Category,        \* shared-expense categories, rows of the catalogue
  DressCalls,      \* merge and format requests of a creation, in their order
  MaxExpenseRows,  \* rows the expense block holds
  Status,          \* HTTP statuses the Sheets API may refuse a request with
  Absent, NoPanel, NoJob

Row == UNION Batch

Content == [grid     : BOOLEAN,              \* titles, headers, catalogue, totals
            expenses : SUBSET Row,           \* B4:E403
            typed    : BOOLEAN,              \* some of those cells were interpreted
            panel    : Panel \cup {NoPanel}, \* J:K
            shared   : SUBSET Category,      \* hand-typed amounts in H
            dressed  : SUBSET {DressCalls[i] : i \in DOMAIN DressCalls}]

Job == [tab : Tab, rows : Batch, balances : Panel]

ASSUME BatchIsSets     == \A b \in Batch : IsFiniteSet(b)
ASSUME PanelIsPerBank  == \A p \in Panel : DOMAIN p = Bank
ASSUME StatusIsHttp    == Status \subseteq 400..599
ASSUME CreationDresses == DressCalls \in Seq(STRING) /\ DressCalls # <<>>
ASSUME CeilingIsNat    == MaxExpenseRows \in Nat
ASSUME MarkersAreFresh == NoPanel \notin Panel /\ Absent \notin Content /\ NoJob \notin Job

VARIABLES
  tabs,      \* the document: what each layout tab holds
  pc,        \* the request the running write makes next
  job,       \* the arguments of the last write
  created,   \* this write had to create the tab
  dressing,  \* index of the merge or format request that comes next
  err        \* class of the exception the last write ended with

vars == <<tabs, pc, job, created, dressing, err>>

Running == {"open", "resolve", "add", "grid", "clear", "fill", "dress",
            "wipe", "refill", "format"}
AtRest  == {"idle", "done", "failed"}
Errors  == {"none", "ValueError", "SheetsConfigError", "SheetsAccessError",
            "SheetsQuotaExceededError", "SheetsAPIError", "other"}

Dressing    == {DressCalls[i] : i \in DOMAIN DressCalls}
\* The last range of a creation is the one every refresh formats again.
PanelFormat == DressCalls[Len(DressCalls)]

NewSheet == [grid |-> FALSE, expenses |-> {}, typed |-> FALSE,
             panel |-> NoPanel, shared |-> {}, dressed |-> {}]

\* Titles, catalogue, merges and formats are all in place.
Whole(content) == content # Absent /\ content.grid /\ content.dressed = Dressing

Target == tabs[job.tab]

TypeOK ==
  /\ tabs \in [Tab -> Content \cup {Absent}]
  /\ pc \in Running \cup AtRest
  /\ IF pc = "idle" THEN job = NoJob ELSE job \in Job
  /\ created \in BOOLEAN
  /\ dressing \in 1..Len(DressCalls)
  /\ err \in Errors
-----------------------------------------------------------------------------
(* What a request does to the tab it addresses. *)

\* Rows sent to B4 cover as many old rows as there are new ones; the rest stay.
RowsOver(old, R) ==
  {R \cup rest : rest \in {S \in SUBSET old :
     Cardinality(S) = IF Cardinality(old) > Cardinality(R)
                      THEN Cardinality(old) - Cardinality(R) ELSE 0}}

\* A None cell leaves what is there: the line of a bank without a balance keeps
\* its old amount unless the panel was cleared first.
PanelOver(old, new) ==
  IF old = NoPanel THEN new
  ELSE [b \in Bank |-> IF new[b] = NoBalance THEN old[b] ELSE new[b]]

WithGrid(content) ==
  {[content EXCEPT !.grid = TRUE, !.expenses = E, !.typed = job.rows # {},
                   !.panel = PanelOver(content.panel, job.balances)]
     : E \in RowsOver(content.expenses, job.rows)}

\* Mutant: the whole sheet is cleared before the expenses are written again.
WithoutExpenses_WholeSheet(content) ==
  [content EXCEPT !.expenses = {}, !.typed = FALSE, !.shared = {}]

WithoutExpenses(content) == [content EXCEPT !.expenses = {}, !.typed = FALSE]

WithExpenses(content) ==
  {[content EXCEPT !.expenses = E, !.typed = @ /\ E # job.rows]
     : E \in RowsOver(content.expenses, job.rows)}

\* Mutant: the cleared panel starts at its title row instead of row 4.
WithoutPanel_FromTitle(content) == [content EXCEPT !.panel = NoPanel, !.grid = FALSE]

WithoutPanel(content) == [content EXCEPT !.panel = NoPanel]

WithPanel(content) ==
  [content EXCEPT !.panel = PanelOver(content.panel, job.balances)]

Dressed(content, range) == [content EXCEPT !.dressed = @ \cup {range}]
-----------------------------------------------------------------------------
Init ==
  /\ tabs = [t \in Tab |-> Absent]
  /\ pc = "idle"
  /\ job = NoJob
  /\ created = FALSE
  /\ dressing = 1
  /\ err = "none"

Translate(s) ==
  IF s \in {403, 404} THEN "SheetsAccessError"
  ELSE IF s = 429 THEN "SheetsQuotaExceededError" ELSE "SheetsAPIError"

Becomes(content) == [tabs EXCEPT ![job.tab] = content]

\* A request is answered with success: its effect is there and the call goes on.
Answered(effect, next) ==
  /\ tabs' = effect
  /\ pc' = next
  /\ UNCHANGED <<job, err>>

Raise(class) ==
  /\ pc' = "failed"
  /\ err' = class
  /\ UNCHANGED <<job, created, dressing>>

\* A request raises.  A 4xx was refused; after a 5xx, or when the connection
\* drops, the effect may be there or not.  Every request of this writer sits in
\* an except clause that translates an APIError.
Raises(effect) ==
  \/ \E s \in Status :
       /\ tabs' \in (IF s >= 500 THEN {tabs, effect} ELSE {tabs})
       /\ Raise(Translate(s))
  \/ /\ tabs' \in {tabs, effect}
     /\ Raise("other")

\* A request whose success changes neither the path taken nor the index.
Request(effect, next) ==
  \/ Answered(effect, next) /\ UNCHANGED <<created, dressing>>
  \/ Raises(effect)

\* Mutant: a month that does not fit is written anyway.
Write_NoCeiling(t, R, balances) ==
  /\ pc \in AtRest
  /\ job' = [tab |-> t, rows |-> R, balances |-> balances]
  /\ created' = FALSE
  /\ dressing' = 1
  /\ pc' = "open" /\ err' = "none"
  /\ UNCHANGED tabs

\* write(...) is called.  build_month_grid refuses a month that does not fit
\* before anything else happens.
Write(t, R, balances) ==
  /\ pc \in AtRest
  /\ job' = [tab |-> t, rows |-> R, balances |-> balances]
  /\ created' = FALSE
  /\ dressing' = 1
  /\ IF Cardinality(R) > MaxExpenseRows
       THEN pc' = "failed" /\ err' = "ValueError"
       ELSE pc' = "open" /\ err' = "none"
  /\ UNCHANGED tabs

\* _build_client and _open_spreadsheet: nothing is written.
Open ==
  /\ pc = "open"
  /\ \/ Request(tabs, "resolve")
     \/ Raise("SheetsConfigError") /\ UNCHANGED tabs
     \/ Raise("SheetsAccessError") /\ UNCHANGED tabs   \* SpreadsheetNotFound

\* _resolve_layout_worksheet, the lookup: it decides which path is taken.
Resolve ==
  /\ pc = "resolve"
  /\ \/ /\ Answered(tabs, IF Target = Absent THEN "add" ELSE "clear")
        /\ created' = (Target = Absent)
        /\ UNCHANGED dressing
     \/ Raises(tabs)

\* _resolve_layout_worksheet, add_worksheet.
Add == pc = "add" /\ Request(Becomes(NewSheet), "grid")

\* Mutant: the creation leaves the expense cells as the grid write made them.
Grid_Only ==
  /\ pc = "grid"
  /\ \E content \in WithGrid(Target) : Request(Becomes(content), "dress")

\* _write_grid: the whole grid from A1, USER_ENTERED.
Grid ==
  /\ pc = "grid"
  /\ \E content \in WithGrid(Target) : Request(Becomes(content), "clear")

\* Mutant: the panel is rewritten without being cleared first.
AfterExpenses_NoWipe == IF created THEN "dress" ELSE "refill"

\* Mutant: the creation ends with a refresh instead of merges and formats.
AfterExpenses_AlwaysRefresh == "wipe"

AfterExpenses == IF created THEN "dress" ELSE "wipe"

\* _write_expense_region: batch_clear, and no second request without rows.
ClearExpenses ==
  /\ pc = "clear"
  /\ Request(Becomes(WithoutExpenses(Target)),
             IF job.rows # {} THEN "fill" ELSE AfterExpenses)

\* _write_expense_region: update at B4 with the RAW input option.
FillExpenses ==
  /\ pc = "fill"
  /\ \E content \in WithExpenses(Target) : Request(Becomes(content), AfterExpenses)

\* Mutant: the loop over the ranges runs one past the last.
Dress_OffByOne ==
  /\ pc = "dress"
  /\ LET effect == Becomes(Dressed(Target, DressCalls[dressing])) IN
       \/ /\ Answered(effect, IF dressing < Len(DressCalls) THEN "dress" ELSE "done")
          /\ dressing' = dressing + 1
          /\ UNCHANGED created
       \/ Raises(effect)

\* _merge_titles and _apply_light_formatting, one request per range.
Dress ==
  /\ pc = "dress"
  /\ LET effect == Becomes(Dressed(Target, DressCalls[dressing])) IN
       \/ /\ Answered(effect, IF dressing < Len(DressCalls) THEN "dress" ELSE "done")
          /\ dressing' = IF dressing < Len(DressCalls) THEN dressing + 1 ELSE dressing
          /\ UNCHANGED created
       \/ Raises(effect)

\* _write_summary_region: batch_clear of J:K, update, format.
WipePanel   == pc = "wipe"   /\ Request(Becomes(WithoutPanel(Target)), "refill")
RefillPanel == pc = "refill" /\ Request(Becomes(WithPanel(Target)), "format")
FormatPanel == pc = "format" /\ Request(Becomes(Dressed(Target, PanelFormat)), "done")

Step == \/ Open \/ Resolve \/ Add \/ Grid \/ ClearExpenses \/ FillExpenses
        \/ Dress \/ WipePanel \/ RefillPanel \/ FormatPanel

\* The process of the call ends: after the call, or in the middle of it (job
\* timeout, interrupt).  The document stays as it is, everything else is gone.
ProcessEnds ==
  /\ pc # "idle"
  /\ pc' = "idle"
  /\ job' = NoJob
  /\ created' = FALSE
  /\ dressing' = 1
  /\ err' = "none"
  /\ UNCHANGED tabs

\* The account holder types an amount beside a category, at any moment.
HandType(t, c) ==
  /\ tabs[t] # Absent /\ tabs[t].grid
  /\ c \notin tabs[t].shared
  /\ tabs' = [tabs EXCEPT ![t].shared = @ \cup {c}]
  /\ UNCHANGED <<pc, job, created, dressing, err>>

Next ==
  \/ \E t \in Tab, R \in Batch, p \in Panel : Write(t, R, p)
  \/ Step
  \/ ProcessEnds
  \/ \E t \in Tab, c \in Category : HandType(t, c)

\* A started write runs on; nobody is bound to start one, or to type.
Spec == Init /\ [][Next]_vars /\ WF_vars(Step)
-----------------------------------------------------------------------------
(* Safety *)

\* A write that returned left the month's own expense rows, all stored as RAW
\* values, and this run's balances, whichever path it took: no row of an earlier
\* run, no interpreted cell, no old amount beside a bank that reported none.
WrittenIsExact ==
  pc = "done" => /\ Target.expenses = job.rows
                 /\ ~Target.typed
                 /\ Target.panel = job.balances

\* Whatever failed or was killed on the way, the expense block holds rows of one
\* write only and the panel the balances of one write only.
NeverAMixture ==
  \A t \in Tab : tabs[t] # Absent =>
    /\ tabs[t].expenses \in Batch \cup {{}}
    /\ tabs[t].panel \in Panel \cup {NoPanel}

\* A creation that returned left the tab whole.
CreationIsWhole == pc = "done" /\ created => Whole(Target)

\* The class docstring (layout.py:536-541) says more: the tab "is created once
\* with the full grid" and everything later is a refresh, so a tab some write
\* returned for should be whole.
DoneIsWhole == pc = "done" => Whole(Target)

(* Action properties *)

\* FR-009: no step of a write, on either path, takes back an amount typed by hand.
HandTypedSurvive ==
  [][\A t \in Tab : tabs[t] # Absent =>
        tabs'[t] # Absent /\ tabs[t].shared \subseteq tabs'[t].shared]_vars

\* A tab that has its titles, catalogue, merges and formats keeps them all.
WholeForGood == [][\A t \in Tab : Whole(tabs[t]) => Whole(tabs'[t])]_vars

\* A month above the ceiling is refused before the document is touched: while
\* the last call was for one, no expense block and no panel changes anywhere.
TooLargeTouchesNothing ==
  [][pc # "idle" /\ Cardinality(job.rows) > MaxExpenseRows =>
       \A t \in Tab : tabs'[t] # tabs[t] =>
          tabs[t] # Absent /\ tabs'[t] = [tabs[t] EXCEPT !.shared = tabs'[t].shared]]_vars

(* Refinement *)

State ==
  CASE pc \in Running -> "asked"
    [] pc = "done"    -> "returned"
    [] pc = "failed"  -> "raised"
    [] pc = "idle"    -> "idle"

\* What its readers look for in a tab: not whether titles, catalogue and formats
\* are there.
Seen(content) ==
  IF content = Absent THEN Absent ELSE [content EXCEPT !.grid = FALSE, !.dressed = {}]

\* Both paths, with every refusal, lost answer and kill, are LayoutStore's one.
Store == INSTANCE LayoutStore WITH
           New     <- NewSheet,
           Fitting <- {b \in Batch : ~(Cardinality(b) > MaxExpenseRows)},
           tabs    <- [t \in Tab |-> Seen(tabs[t])],
           state   <- State

\* Callers of write and the account holder see each region emptied before it is
\* filled, the panel touched only beside the month's own rows, what was typed by hand
\* left alone, and a call that returns only when both regions are the caller's.
KeepsItsPromise == Store!Spec
=============================================================================
