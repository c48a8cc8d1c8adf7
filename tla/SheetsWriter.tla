---------------------------- MODULE SheetsWriter ----------------------------
(***************************************************************************)
(* One call of SheetsWriter.write (sheets/writer.py), request by request.  *)
(*                                                                         *)
(* The call is not one operation on the document but up to four HTTP       *)
(* requests: open the spreadsheet, look the tab up, clear or create it,    *)
(* write the values.  Each may be refused, may fail after the server did   *)
(* the work, or may never be answered, and the process may be killed       *)
(* between any two of them.                                                *)
(*                                                                         *)
(* What is abstracted: a tab is its header line and the SET of the rows    *)
(* under it; the order of the rows and the cells of a row are not modelled *)
(* (the rows handed to one write are pairwise different, because the       *)
(* connectors collapse equal movements).                                   *)
(***************************************************************************)
EXTENDS Naturals, FiniteSets

CONSTANTS
  Tab,      \* tab names, one per month
  Batch,    \* the row sets callers hand to one write
  Status,   \* HTTP statuses the Sheets API may refuse a request with
  Absent,   \* a tab that does not exist
  NoJob     \* no write was ever asked for

ASSUME BatchIsSets   == \A b \in Batch : IsFiniteSet(b)
ASSUME StatusIsHttp  == Status \subseteq 400..599
ASSUME AbsentIsNoTab == Absent \notin [header : BOOLEAN, rows : SUBSET UNION Batch]
ASSUME NoJobIsNoJob  == NoJob \notin [tab : Tab, rows : Batch]

VARIABLES
  tabs,     \* the document: what each tab holds
  pc,       \* the request the running write makes next
  job,      \* the arguments of the last write: target tab and rows
  err       \* class of the exception the last write ended with

vars == <<tabs, pc, job, err>>

Row     == UNION Batch
Content == [header : BOOLEAN, rows : SUBSET Row]
Job     == [tab : Tab, rows : Batch]

Running  == {"open", "resolve", "clear", "add", "update"}
AtRest   == {"idle", "done", "failed"}

\* The four classes write documents, the library's own class, and whatever else
\* a request may raise (a dropped connection is not an APIError).
Documented == {"SheetsConfigError", "SheetsAccessError",
               "SheetsQuotaExceededError", "SheetsAPIError"}
Errors     == Documented \cup {"none", "gspread.APIError", "other"}

Blank    == [header |-> FALSE, rows |-> {}]
Table(R) == [header |-> TRUE, rows |-> R]

\* Mutant: a status nobody mapped surfaces as a class of its own.
Translate_NewClass(s) == IF s = 403 THEN "PermissionError" ELSE "SheetsAPIError"

Translate(s) ==
  IF s \in {403, 404} THEN "SheetsAccessError"
  ELSE IF s = 429 THEN "SheetsQuotaExceededError" ELSE "SheetsAPIError"

\* Writing Header+R from A1 covers as many old rows as it has new ones; what
\* lies below stays.  Which old rows lie below depends on an order not modelled.
Overlay(old, R) ==
  {Table(R \cup rest) : rest \in
     {S \in SUBSET old.rows :
        Cardinality(S) = IF Cardinality(old.rows) > Cardinality(R)
                         THEN Cardinality(old.rows) - Cardinality(R) ELSE 0}}

TypeOK ==
  /\ tabs \in [Tab -> Content \cup {Absent}]
  /\ pc \in Running \cup AtRest
  /\ IF pc = "idle" THEN job = NoJob ELSE job \in Job
  /\ err \in Errors
-----------------------------------------------------------------------------
Init ==
  /\ tabs \in [Tab -> {Absent, Blank} \cup {Table(b) : b \in Batch}]
  /\ pc = "idle"
  /\ job = NoJob
  /\ err = "none"

\* write(document_id, tab_name, headers, rows) is called.
Write(t, R) ==
  /\ pc \in AtRest
  /\ job' = [tab |-> t, rows |-> R]
  /\ pc' = "open"
  /\ err' = "none"
  /\ UNCHANGED tabs

Becomes(content) == [tabs EXCEPT ![job.tab] = content]

\* A request is answered with success: its effect is there and the call goes on.
Answered(effect, next) ==
  /\ tabs' = effect
  /\ pc' = next
  /\ UNCHANGED <<job, err>>

Raise(class) ==
  /\ pc' = "failed"
  /\ err' = class
  /\ UNCHANGED job

\* A request raises.  A 4xx was refused; after a 5xx, or when the connection
\* drops, the effect may be there or not.  The except clause round the request
\* decides whether an APIError leaves write as one of its own classes.
Raises(effect, translated) ==
  \/ \E s \in Status :
       /\ tabs' \in (IF s >= 500 THEN {tabs, effect} ELSE {tabs})
       /\ Raise(IF translated THEN Translate(s) ELSE "gspread.APIError")
  \/ /\ tabs' \in {tabs, effect}
     /\ Raise("other")

\* _build_client and _open_spreadsheet: nothing is written.
Open ==
  /\ pc = "open"
  /\ \/ Answered(tabs, "resolve")
     \/ Raises(tabs, TRUE)
     \/ Raise("SheetsConfigError") /\ UNCHANGED tabs
     \/ Raise("SheetsAccessError") /\ UNCHANGED tabs   \* SpreadsheetNotFound

\* Mutant: an existing tab is written over without being cleared.
Resolve_WithoutClear ==
  /\ pc = "resolve"
  /\ \/ Answered(tabs, IF tabs[job.tab] = Absent THEN "add" ELSE "update")
     \/ Raises(tabs, FALSE)

\* _prepare_worksheet, the lookup: only WorksheetNotFound is caught.
Resolve ==
  /\ pc = "resolve"
  /\ \/ Answered(tabs, IF tabs[job.tab] = Absent THEN "add" ELSE "clear")
     \/ Raises(tabs, FALSE)

\* Mutant: a clear that fails is not fatal, the write goes on.
Clear_BestEffort ==
  /\ pc = "clear"
  /\ \/ Answered(Becomes(Blank), "update")
     \/ Answered(tabs, "update")

\* _prepare_worksheet, worksheet.clear(): outside every except clause.
Clear ==
  /\ pc = "clear"
  /\ \/ Answered(Becomes(Blank), "update")
     \/ Raises(Becomes(Blank), FALSE)

\* _prepare_worksheet, spreadsheet.add_worksheet().  A name that another writer
\* has taken since the lookup is refused.
Add ==
  /\ pc = "add"
  /\ \/ tabs[job.tab] = Absent /\ Answered(Becomes(Blank), "update")
     \/ tabs[job.tab] = Absent /\ Raises(Becomes(Blank), TRUE)
     \/ tabs[job.tab] # Absent /\ Raises(tabs, TRUE)

\* worksheet.update(values=[headers, *rows]).
Update ==
  /\ pc = "update"
  /\ \E content \in Overlay(tabs[job.tab], job.rows) :
       \/ Answered(Becomes(content), "done")
       \/ Raises(Becomes(content), TRUE)

Step == Open \/ Resolve \/ Clear \/ Add \/ Update

\* The process of the call ends: after the call, or in the middle of it (job
\* timeout, interrupt).  The document stays as it is, everything else is gone.
ProcessEnds ==
  /\ pc # "idle"
  /\ pc' = "idle"
  /\ job' = NoJob
  /\ err' = "none"
  /\ UNCHANGED tabs

Next ==
  \/ \E t \in Tab, R \in Batch : Write(t, R)
  \/ Step
  \/ ProcessEnds

\* A started write runs on; nobody is bound to start one.
Spec == Init /\ [][Next]_vars /\ WF_vars(Step)
-----------------------------------------------------------------------------
(* Safety *)

\* A write that returned left exactly its header and its rows in its tab:
\* nothing of the month it replaced survives below or between them.
WrittenIsExact == pc = "done" => tabs[job.tab] = Table(job.rows)

\* Whatever failed, was lost or was killed on the way, a tab never holds rows of
\* two writes: it is absent, blank, or exactly what one write was handed.
NeverAMixture ==
  \A t \in Tab : tabs[t] \in {Absent, Blank} \cup {Table(b) : b \in Batch}

\* The whole reason for the two above: values are only ever sent to a blank tab.
UpdatesABlankTab == pc = "update" => tabs[job.tab] = Blank

(* Refinement *)

State ==
  CASE pc \in {"open", "resolve", "clear", "add"} -> "asked"
    [] pc = "update" -> "emptied"
    [] pc = "done"   -> "returned"
    [] pc = "failed" -> "raised"
    [] pc = "idle"   -> "idle"

\* Up to four requests, with refusals and lost answers, are TabStore's two steps.
Store == INSTANCE TabStore WITH
           Empty  <- Blank,
           Filled <- [b \in Batch |-> Table(b)],
           state  <- State

\* Callers of write see its tab emptied and then filled with the rows of the call
\* that emptied it, not before that call returns or gives up, and no other change
\* of any tab, whichever requests fail and wherever the process is killed.
KeepsItsPromise == Store!Spec

(* Action properties *)

\* Rows that are lost from a tab are lost to the write that targets it, by its
\* clear: the tab is blank then, and the write has not returned.
RowsAreLostOnlyToTheirWriter ==
  [][\A t \in Tab :
        (tabs[t] # Absent /\ tabs'[t] # tabs[t] /\ tabs[t] # Blank)
          => /\ t = job.tab
             /\ tabs'[t] = Blank
             /\ pc' # "done"]_vars
=============================================================================
