------------------------- MODULE LayoutWriterProofs -------------------------
(***************************************************************************)
(* What LayoutWriter promises, proved for every set of tabs, batches,      *)
(* balances, categories and ranges.  The inductive invariant is IInv: it   *)
(* says, for each request, what the tab holds when that request is next,   *)
(* on the path the write took.                                             *)
(***************************************************************************)
EXTENDS LayoutWriter, FiniteSetTheorems, TLAPS

\* Contents whose expense block holds the rows of one write or none.
Sound == {c \in Content : c.expenses \in Batch \cup {{}}}

DocumentIsSound == tabs \in [Tab -> Sound \cup {Absent}]

\* Only a month that fits gets beyond the call.
RunningFits == pc \in Running \cup {"done"} => ~(Cardinality(job.rows) > MaxExpenseRows)

\* The path taken: creation and refresh share the two expense requests only.
PathTaken ==
  /\ pc \in {"add", "grid", "dress"} => created
  /\ pc \in {"wipe", "refill", "format"} => ~created
  /\ pc \in Running \ {"dress"} => dressing = 1

\* What the target tab holds when a request is next.
TargetSoFar ==
  /\ pc = "add" => Target = Absent
  /\ pc = "grid" => Target = NewSheet
  /\ pc \in {"clear", "fill", "dress", "wipe", "refill", "format", "done"} => Target # Absent
  /\ pc \in {"clear", "fill", "dress"} /\ created => Target.grid /\ Target.panel = job.balances
  /\ pc = "fill" => Target.expenses = {} /\ ~Target.typed
  /\ pc \in {"dress", "wipe", "refill", "format"} => Target.expenses = job.rows /\ ~Target.typed
  /\ pc = "dress" => \A i \in 1..dressing - 1 : DressCalls[i] \in Target.dressed
  /\ pc = "refill" => Target.panel = NoPanel
  /\ pc = "format" => Target.panel = job.balances

\* What the theorems need of every state, inductive as a whole.
IInv ==
  /\ TypeOK
  /\ DocumentIsSound
  /\ RunningFits
  /\ PathTaken
  /\ TargetSoFar
  /\ WrittenIsExact
  /\ CreationIsWhole
-----------------------------------------------------------------------------
(* What the requests make of a tab. *)

\* Rows sent to an empty block are all it holds.
LEMMA RowsOverNothing ==
  ASSUME NEW R, NEW E \in RowsOver({}, R)
  PROVE  E = R
BY DEF RowsOver

LEMMA NewSheetFacts == NewSheet \in Sound /\ ~NewSheet.grid /\ Absent \notin Sound
BY MarkersAreFresh DEF NewSheet, Sound, Content, Row

\* The grid of a new sheet carries the job's rows and balances.
LEMMA GridFacts ==
  ASSUME job \in Job, NEW content \in WithGrid(NewSheet)
  PROVE  /\ content \in Sound
         /\ content.grid
         /\ content.expenses = job.rows
         /\ content.panel = job.balances
<1>1. PICK E \in RowsOver({}, job.rows) :
        content = [NewSheet EXCEPT !.grid = TRUE, !.expenses = E, !.typed = job.rows # {},
                                   !.panel = PanelOver(NoPanel, job.balances)]
  BY DEF WithGrid, NewSheet
<1>2. E = job.rows /\ PanelOver(NoPanel, job.balances) = job.balances
  BY RowsOverNothing DEF PanelOver
<1>3. job.rows \in Batch /\ job.balances \in Panel /\ job.rows \subseteq Row
  BY DEF Job, Row
<1>4. content = [grid |-> TRUE, expenses |-> job.rows, typed |-> job.rows # {},
                 panel |-> job.balances, shared |-> {}, dressed |-> {}]
  BY <1>1, <1>2 DEF NewSheet
<1> QED
  BY <1>3, <1>4 DEF Sound, Content

\* What each of the other requests changes, and that it leaves the rest alone.
LEMMA RegionFacts ==
  ASSUME job \in Job, NEW old \in Sound, NEW range \in Dressing
  PROVE  /\ WithoutExpenses(old) \in Sound
         /\ WithoutExpenses(old) = [old EXCEPT !.expenses = {}, !.typed = FALSE]
         /\ WithoutPanel(old) \in Sound
         /\ WithoutPanel(old) = [old EXCEPT !.panel = NoPanel]
         /\ Dressed(old, range) \in Sound
         /\ Dressed(old, range) = [old EXCEPT !.dressed = old.dressed \cup {range}]
<1>1. old \in Content /\ old.expenses \in Batch \cup {{}}
  BY DEF Sound
<1>2. WithoutExpenses(old) \in Sound
  BY <1>1 DEF WithoutExpenses, Sound, Content
<1>3. WithoutPanel(old) \in Sound
  BY <1>1 DEF WithoutPanel, Sound, Content
<1>4. Dressed(old, range) \in Sound
  BY <1>1 DEF Dressed, Sound, Content, Dressing
<1> QED
  BY <1>2, <1>3, <1>4 DEF WithoutExpenses, WithoutPanel, Dressed

\* Over a cleared expense block, the rows of the job are all there is.
LEMMA FillFacts ==
  ASSUME job \in Job, NEW old \in Sound, old.expenses = {}, ~old.typed,
         NEW content \in WithExpenses(old)
  PROVE  /\ content = [old EXCEPT !.expenses = job.rows]
         /\ content \in Sound
<1>1. PICK E \in RowsOver({}, job.rows) :
        content = [old EXCEPT !.expenses = E, !.typed = old.typed /\ E # job.rows]
  BY DEF WithExpenses
<1>2. E = job.rows
  BY <1>1, RowsOverNothing
<1>3. old \in Content /\ old.typed = FALSE
  BY DEF Sound, Content
<1>4. job.rows \in Batch /\ job.rows \subseteq Row
  BY DEF Job, Row
<1>5. content = [old EXCEPT !.expenses = job.rows, !.typed = FALSE]
  BY <1>1, <1>2, <1>3
<1>6. content = [old EXCEPT !.expenses = job.rows]
  BY <1>3, <1>5 DEF Content
<1> QED
  BY <1>3, <1>4, <1>6 DEF Sound, Content

\* Over a cleared panel, the balances of the job are all there is.
LEMMA PanelFacts ==
  ASSUME job \in Job, NEW old \in Sound, old.panel = NoPanel
  PROVE  /\ WithPanel(old) = [old EXCEPT !.panel = job.balances]
         /\ WithPanel(old) \in Sound
<1>1. WithPanel(old) = [old EXCEPT !.panel = job.balances]
  BY DEF WithPanel, PanelOver
<1> QED
  BY <1>1 DEF Sound, Content, Job

LEMMA DressingFacts ==
  /\ Len(DressCalls) \in Nat \ {0} /\ 1 \in 1..Len(DressCalls)
  /\ \A i \in 1..Len(DressCalls) : DressCalls[i] \in Dressing
  /\ PanelFormat \in Dressing
  /\ Dressing = {DressCalls[i] : i \in 1..Len(DressCalls)}
BY CreationDresses DEF Dressing, PanelFormat

-----------------------------------------------------------------------------
(* One request, answered or not. *)

LEMMA InACall ==
  ASSUME IInv, pc \in Running
  PROVE  /\ job \in Job /\ job.tab \in Tab /\ job.rows \in Batch
         /\ Target \in Sound \cup {Absent}
         /\ ~(Cardinality(job.rows) > MaxExpenseRows)
BY DEF IInv, TypeOK, Running, Job, DocumentIsSound, RunningFits, Target

LEMMA BecomesFacts ==
  ASSUME IInv, pc \in Running, NEW content \in Sound
  PROVE  /\ Becomes(content) \in [Tab -> Sound \cup {Absent}]
         /\ Becomes(content)[job.tab] = content
BY InACall DEF Becomes, IInv, DocumentIsSound

LEMMA RaisesFacts ==
  ASSUME NEW effect, Raises(effect)
  PROVE  /\ tabs' = tabs \/ tabs' = effect
         /\ pc' = "failed"
         /\ UNCHANGED <<job, created, dressing>>
         /\ err' \in Errors
<1>1. \A s \in Status : Translate(s) \in Errors
  BY DEF Translate, Errors
<1> QED
  BY <1>1 DEF Raises, Raise, Errors

\* A write that ended without its answer says nothing of its tab, so what is left
\* is that the document is sound with or without the effect.
LEMMA FailingKeepsIInv ==
  ASSUME IInv, pc \in Running,
         tabs' \in [Tab -> Sound \cup {Absent}],
         pc' = "failed", UNCHANGED <<job, created, dressing>>, err' \in Errors
  PROVE  IInv'
<1>1. tabs' \in [Tab -> Content \cup {Absent}]
  BY DEF Sound
<1>2. TypeOK'
  BY <1>1 DEF IInv, TypeOK, Running, AtRest
<1> QED
  BY <1>2 DEF IInv, DocumentIsSound, RunningFits, PathTaken, TargetSoFar,
              WrittenIsExact, CreationIsWhole, Running

LEMMA RaisesKeepsIInv ==
  ASSUME IInv, pc \in Running, NEW effect,
         effect = tabs \/ \E content \in Sound : effect = Becomes(content),
         Raises(effect)
  PROVE  IInv'
<1>1. effect \in [Tab -> Sound \cup {Absent}] /\ tabs \in [Tab -> Sound \cup {Absent}]
  BY BecomesFacts DEF IInv, DocumentIsSound
<1> QED
  BY <1>1, RaisesFacts, FailingKeepsIInv

\* An answered request keeps the document sound; the rest is up to what the tab
\* holds before the request that comes next.
LEMMA AnsweredKeepsTypes ==
  ASSUME IInv, pc \in Running,
         tabs' = tabs \/ \E content \in Sound : tabs' = Becomes(content),
         pc' \in Running \cup {"done"}, UNCHANGED <<job, err>>,
         created' \in BOOLEAN, dressing' \in 1..Len(DressCalls)
  PROVE  TypeOK' /\ DocumentIsSound' /\ RunningFits'
<1>1. tabs' \in [Tab -> Sound \cup {Absent}]
  BY BecomesFacts DEF IInv, DocumentIsSound
<1>2. tabs' \in [Tab -> Content \cup {Absent}]
  BY <1>1 DEF Sound
<1>3. job \in Job /\ job' = job
  BY InACall
<1>4. TypeOK'
  BY <1>2, <1>3 DEF IInv, TypeOK, Running, AtRest
<1> QED
  BY <1>1, <1>4, InACall DEF DocumentIsSound, RunningFits

\* A request that leaves the path and the index alone: what is left to show is
\* what the tab holds once it is answered.
LEMMA RequestKeepsIInv ==
  ASSUME IInv, pc \in Running, NEW content \in Sound, NEW next \in Running \cup {"done"},
         Request(Becomes(content), next),
         tabs'[job'.tab] = content /\ pc' = next /\ UNCHANGED <<job, created, dressing>>
           => PathTaken' /\ TargetSoFar' /\ WrittenIsExact' /\ CreationIsWhole'
  PROVE  IInv'
<1>1. CASE Answered(Becomes(content), next) /\ UNCHANGED <<created, dressing>>
  <2>1. TypeOK' /\ DocumentIsSound' /\ RunningFits'
    BY <1>1, AnsweredKeepsTypes DEF Answered, IInv, TypeOK
  <2>2. tabs'[job'.tab] = content
    BY <1>1, BecomesFacts DEF Answered
  <2> QED
    BY <1>1, <2>1, <2>2 DEF Answered, IInv
<1>2. CASE Raises(Becomes(content))
  BY <1>2, RaisesKeepsIInv
<1> QED
  BY <1>1, <1>2 DEF Request
-----------------------------------------------------------------------------
(* One lemma per action. *)

LEMMA InitIInv == Init => IInv
<1> SUFFICES ASSUME Init PROVE IInv
  OBVIOUS
<1>1. DocumentIsSound
  BY DEF Init, DocumentIsSound
<1>2. TypeOK
  BY DressingFacts DEF Init, TypeOK, AtRest, Errors
<1> QED
  BY <1>1, <1>2 DEF Init, IInv, RunningFits, PathTaken, TargetSoFar, WrittenIsExact,
                    CreationIsWhole, Running

LEMMA WriteKeeps ==
  ASSUME IInv, NEW t \in Tab, NEW R \in Batch, NEW p \in Panel, Write(t, R, p)
  PROVE  IInv'
<1>1. job' = [tab |-> t, rows |-> R, balances |-> p] /\ job' \in Job
  BY DEF Write, Job
<1>2. TypeOK'
  BY <1>1, DressingFacts DEF Write, IInv, TypeOK, Running, AtRest, Errors
<1>3. RunningFits'
  BY <1>1 DEF Write, RunningFits, Running
<1> QED
  BY <1>2, <1>3 DEF Write, IInv, DocumentIsSound, PathTaken, TargetSoFar,
                    WrittenIsExact, CreationIsWhole

LEMMA OpenKeeps == IInv /\ Open => IInv'
<1> SUFFICES ASSUME IInv, Open PROVE IInv'
  OBVIOUS
<1>0. pc = "open" /\ pc \in Running
  BY DEF Open, Running
<1>1. CASE Answered(tabs, "resolve") /\ UNCHANGED <<created, dressing>>
  <2>1. TypeOK' /\ DocumentIsSound' /\ RunningFits'
    BY <1>0, <1>1, AnsweredKeepsTypes DEF Answered, IInv, TypeOK, Running
  <2> QED
    BY <1>0, <1>1, <2>1 DEF Answered, IInv, PathTaken, TargetSoFar, WrittenIsExact,
                            CreationIsWhole, Running
<1>2. CASE Raises(tabs)
  BY <1>0, <1>2, RaisesKeepsIInv
<1>3. CASE \/ Raise("SheetsConfigError") /\ UNCHANGED tabs
           \/ Raise("SheetsAccessError") /\ UNCHANGED tabs
  BY <1>0, <1>3, FailingKeepsIInv DEF Raise, Errors, IInv, DocumentIsSound
<1> QED
  BY <1>1, <1>2, <1>3 DEF Open, Request

LEMMA ResolveKeeps == IInv /\ Resolve => IInv'
<1> SUFFICES ASSUME IInv, Resolve PROVE IInv'
  OBVIOUS
<1>0. pc = "resolve" /\ pc \in Running
  BY DEF Resolve, Running
<1>1. CASE /\ Answered(tabs, IF Target = Absent THEN "add" ELSE "clear")
           /\ created' = (Target = Absent)
           /\ UNCHANGED dressing
  <2>1. TypeOK' /\ DocumentIsSound' /\ RunningFits'
    BY <1>0, <1>1, AnsweredKeepsTypes DEF Answered, IInv, TypeOK, Running
  <2>2. Target' = Target
    BY <1>1 DEF Answered, Target
  <2> QED
    BY <1>0, <1>1, <2>1, <2>2 DEF Answered, IInv, PathTaken, TargetSoFar, WrittenIsExact,
                                 CreationIsWhole, Running
<1>2. CASE Raises(tabs)
  BY <1>0, <1>2, RaisesKeepsIInv
<1> QED
  BY <1>1, <1>2 DEF Resolve

LEMMA AddKeeps == IInv /\ Add => IInv'
<1> SUFFICES ASSUME IInv, Add PROVE IInv'
  OBVIOUS
<1>1. pc = "add" /\ pc \in Running /\ "grid" \in Running
  BY DEF Add, Running
<1>2. created /\ dressing = 1
  BY <1>1 DEF IInv, PathTaken
<1>3. ASSUME tabs'[job'.tab] = NewSheet, pc' = "grid", UNCHANGED <<created, dressing>>
      PROVE  PathTaken' /\ TargetSoFar' /\ WrittenIsExact' /\ CreationIsWhole'
  BY <1>2, <1>3 DEF PathTaken, TargetSoFar, WrittenIsExact, CreationIsWhole, Target
<1> QED
  BY <1>1, <1>3, NewSheetFacts, RequestKeepsIInv DEF Add

LEMMA GridKeeps == IInv /\ Grid => IInv'
<1> SUFFICES ASSUME IInv, Grid PROVE IInv'
  OBVIOUS
<1>1. /\ pc = "grid" /\ pc \in Running /\ "clear" \in Running
      /\ Target = NewSheet /\ dressing = 1
  BY DEF Grid, Running, IInv, TargetSoFar, PathTaken
<1>2. PICK content \in WithGrid(NewSheet) : Request(Becomes(content), "clear")
  BY <1>1 DEF Grid
<1>3. content \in Sound /\ content.grid /\ content.panel = job.balances
  BY <1>1, <1>2, InACall, GridFacts
<1>4. ASSUME tabs'[job'.tab] = content, pc' = "clear", UNCHANGED <<job, created, dressing>>
      PROVE  PathTaken' /\ TargetSoFar' /\ WrittenIsExact' /\ CreationIsWhole'
  BY <1>1, <1>3, <1>4, NewSheetFacts DEF PathTaken, TargetSoFar, WrittenIsExact, CreationIsWhole, Target
<1> QED
  BY <1>1, <1>2, <1>3, <1>4, RequestKeepsIInv

LEMMA ClearExpensesKeeps == IInv /\ ClearExpenses => IInv'
<1> SUFFICES ASSUME IInv, ClearExpenses PROVE IInv'
  OBVIOUS
<1> DEFINE content == WithoutExpenses(Target)
           next == IF job.rows # {} THEN "fill" ELSE AfterExpenses
<1>1. pc = "clear" /\ pc \in Running /\ Target # Absent /\ next \in Running
  BY DEF ClearExpenses, Running, IInv, TargetSoFar, AfterExpenses
<1>2. /\ Target \in Sound /\ job \in Job
      /\ created => Target.grid /\ Target.panel = job.balances
      /\ dressing = 1
  BY <1>1, InACall DEF IInv, TargetSoFar, PathTaken
<1>3. content = [Target EXCEPT !.expenses = {}, !.typed = FALSE] /\ content \in Sound
  BY <1>2, RegionFacts, DressingFacts
<1>4. /\ content.expenses = {} /\ ~content.typed
      /\ created => content.grid /\ content.panel = job.balances
  BY <1>2, <1>3 DEF Sound, Content
<1>5. ASSUME tabs'[job'.tab] = content, pc' = next, UNCHANGED <<job, created, dressing>>
      PROVE  PathTaken' /\ TargetSoFar' /\ WrittenIsExact' /\ CreationIsWhole'
  <2>1. Target' = content /\ content # Absent
    BY <1>3, <1>5, NewSheetFacts DEF Target
  <2>2. PathTaken'
    BY <1>2, <1>5 DEF PathTaken, AfterExpenses
  <2>3. TargetSoFar'
    BY <1>2, <1>4, <1>5, <2>1 DEF TargetSoFar, AfterExpenses
  <2> QED
    BY <1>5, <2>2, <2>3 DEF WrittenIsExact, CreationIsWhole, AfterExpenses
<1> QED
  BY <1>1, <1>3, <1>5, RequestKeepsIInv DEF ClearExpenses

LEMMA FillExpensesKeeps == IInv /\ FillExpenses => IInv'
<1> SUFFICES ASSUME IInv, FillExpenses PROVE IInv'
  OBVIOUS
<1>1. pc = "fill" /\ pc \in Running /\ AfterExpenses \in Running
  BY DEF FillExpenses, Running, AfterExpenses
<1>2. /\ Target \in Sound /\ job \in Job
      /\ Target.expenses = {} /\ ~Target.typed
      /\ created => Target.grid /\ Target.panel = job.balances
      /\ dressing = 1
  BY <1>1, InACall DEF IInv, TargetSoFar, PathTaken
<1>3. PICK content \in WithExpenses(Target) : Request(Becomes(content), AfterExpenses)
  BY DEF FillExpenses
<1>4. content = [Target EXCEPT !.expenses = job.rows] /\ content \in Sound
  BY <1>2, <1>3, FillFacts
<1>5. /\ content.expenses = job.rows /\ ~content.typed
      /\ created => content.grid /\ content.panel = job.balances
  BY <1>2, <1>4 DEF Sound, Content
<1>6. ASSUME tabs'[job'.tab] = content, pc' = AfterExpenses, UNCHANGED <<job, created, dressing>>
      PROVE  PathTaken' /\ TargetSoFar' /\ WrittenIsExact' /\ CreationIsWhole'
  <2>1. Target' = content /\ content # Absent
    BY <1>4, <1>6, NewSheetFacts DEF Target
  <2>2. PathTaken'
    BY <1>2, <1>6 DEF PathTaken, AfterExpenses
  <2>3. TargetSoFar'
    BY <1>2, <1>5, <1>6, <2>1 DEF TargetSoFar, AfterExpenses
  <2> QED
    BY <1>6, <2>2, <2>3 DEF WrittenIsExact, CreationIsWhole, AfterExpenses
<1> QED
  BY <1>1, <1>3, <1>4, <1>6, RequestKeepsIInv

\* The last range of a creation completes what the earlier ones left in place.
LEMMA DressKeeps == IInv /\ Dress => IInv'
<1> SUFFICES ASSUME IInv, Dress PROVE IInv'
  OBVIOUS
<1> DEFINE content == Dressed(Target, DressCalls[dressing])
           more == dressing < Len(DressCalls)
<1>1. pc = "dress" /\ pc \in Running
  BY DEF Dress, Running
<1>2. /\ Target \in Sound /\ job \in Job
      /\ Target.expenses = job.rows /\ ~Target.typed
      /\ created /\ Target.grid /\ Target.panel = job.balances
      /\ \A i \in 1..dressing - 1 : DressCalls[i] \in Target.dressed
      /\ dressing \in 1..Len(DressCalls)
  BY <1>1, InACall DEF IInv, TypeOK, TargetSoFar, PathTaken
<1>3. /\ content = [Target EXCEPT !.dressed = Target.dressed \cup {DressCalls[dressing]}]
      /\ content \in Sound
  BY <1>2, RegionFacts, DressingFacts
<1>4. /\ content.expenses = job.rows /\ ~content.typed
      /\ content.grid /\ content.panel = job.balances
      /\ \A i \in 1..dressing : DressCalls[i] \in content.dressed
      /\ content.dressed \subseteq Dressing
  BY <1>2, <1>3, DressingFacts DEF Sound, Content, Dressing
<1>5. CASE /\ Answered(Becomes(content), IF more THEN "dress" ELSE "done")
           /\ dressing' = IF more THEN dressing + 1 ELSE dressing
           /\ UNCHANGED created
  <2>1. dressing' \in 1..Len(DressCalls)
    BY <1>2, <1>5, DressingFacts
  <2>2. TypeOK' /\ DocumentIsSound' /\ RunningFits'
    BY <1>1, <1>3, <1>5, <2>1, AnsweredKeepsTypes DEF Answered, IInv, TypeOK, Running
  <2>3. Target' = content /\ content # Absent
    BY <1>1, <1>3, <1>5, BecomesFacts, NewSheetFacts DEF Answered, Target
  <2>4. CASE more
    <3>1. PathTaken' /\ WrittenIsExact' /\ CreationIsWhole'
      BY <1>2, <1>5, <2>4 DEF Answered, PathTaken, WrittenIsExact, CreationIsWhole
    <3>2. \A i \in 1..dressing' - 1 : DressCalls[i] \in content.dressed
      BY <1>2, <1>4, <1>5, <2>4, DressingFacts
    <3>3. TargetSoFar'
      BY <1>2, <1>4, <1>5, <2>3, <2>4, <3>2 DEF Answered, TargetSoFar
    <3> QED
      BY <2>2, <3>1, <3>3 DEF IInv
  <2>5. CASE ~more
    <3>1. content.dressed = Dressing
      BY <1>2, <1>4, <2>5, DressingFacts
    <3>2. PathTaken' /\ TargetSoFar'
      BY <1>5, <2>3, <2>5 DEF Answered, PathTaken, TargetSoFar, Running
    <3>3. WrittenIsExact' /\ CreationIsWhole'
      BY <1>4, <1>5, <2>3, <3>1 DEF Answered, WrittenIsExact, CreationIsWhole, Whole
    <3> QED
      BY <2>2, <3>2, <3>3 DEF IInv
  <2> QED
    BY <2>4, <2>5
<1>6. CASE Raises(Becomes(content))
  BY <1>1, <1>3, <1>6, RaisesKeepsIInv
<1> QED
  BY <1>5, <1>6 DEF Dress

LEMMA WipePanelKeeps == IInv /\ WipePanel => IInv'
<1> SUFFICES ASSUME IInv, WipePanel PROVE IInv'
  OBVIOUS
<1> DEFINE content == WithoutPanel(Target)
<1>1. pc = "wipe" /\ pc \in Running /\ "refill" \in Running
  BY DEF WipePanel, Running
<1>2. /\ Target \in Sound /\ job \in Job
      /\ Target.expenses = job.rows /\ ~Target.typed
      /\ ~created /\ dressing = 1
  BY <1>1, InACall DEF IInv, TargetSoFar, PathTaken
<1>3. content = [Target EXCEPT !.panel = NoPanel] /\ content \in Sound
  BY <1>2, RegionFacts, DressingFacts
<1>4. content.expenses = job.rows /\ ~content.typed /\ content.panel = NoPanel
  BY <1>2, <1>3 DEF Sound, Content
<1>5. ASSUME tabs'[job'.tab] = content, pc' = "refill", UNCHANGED <<job, created, dressing>>
      PROVE  PathTaken' /\ TargetSoFar' /\ WrittenIsExact' /\ CreationIsWhole'
  BY <1>2, <1>3, <1>4, <1>5, NewSheetFacts
     DEF PathTaken, TargetSoFar, WrittenIsExact, CreationIsWhole, Target
<1> QED
  BY <1>1, <1>3, <1>5, RequestKeepsIInv DEF WipePanel

LEMMA RefillPanelKeeps == IInv /\ RefillPanel => IInv'
<1> SUFFICES ASSUME IInv, RefillPanel PROVE IInv'
  OBVIOUS
<1> DEFINE content == WithPanel(Target)
<1>1. pc = "refill" /\ pc \in Running /\ "format" \in Running
  BY DEF RefillPanel, Running
<1>2. /\ Target \in Sound /\ job \in Job
      /\ Target.expenses = job.rows /\ ~Target.typed /\ Target.panel = NoPanel
      /\ ~created /\ dressing = 1
  BY <1>1, InACall DEF IInv, TargetSoFar, PathTaken
<1>3. content = [Target EXCEPT !.panel = job.balances] /\ content \in Sound
  BY <1>2, PanelFacts
<1>4. content.expenses = job.rows /\ ~content.typed /\ content.panel = job.balances
  BY <1>2, <1>3 DEF Sound, Content
<1>5. ASSUME tabs'[job'.tab] = content, pc' = "format", UNCHANGED <<job, created, dressing>>
      PROVE  PathTaken' /\ TargetSoFar' /\ WrittenIsExact' /\ CreationIsWhole'
  BY <1>2, <1>3, <1>4, <1>5, NewSheetFacts
     DEF PathTaken, TargetSoFar, WrittenIsExact, CreationIsWhole, Target
<1> QED
  BY <1>1, <1>3, <1>5, RequestKeepsIInv DEF RefillPanel

LEMMA FormatPanelKeeps == IInv /\ FormatPanel => IInv'
<1> SUFFICES ASSUME IInv, FormatPanel PROVE IInv'
  OBVIOUS
<1> DEFINE content == Dressed(Target, PanelFormat)
<1>1. pc = "format" /\ pc \in Running
  BY DEF FormatPanel, Running
<1>2. /\ Target \in Sound /\ job \in Job
      /\ Target.expenses = job.rows /\ ~Target.typed /\ Target.panel = job.balances
      /\ ~created
  BY <1>1, InACall DEF IInv, TargetSoFar, PathTaken
<1>3. /\ content = [Target EXCEPT !.dressed = Target.dressed \cup {PanelFormat}]
      /\ content \in Sound
  BY <1>2, RegionFacts, DressingFacts
<1>4. content.expenses = job.rows /\ ~content.typed /\ content.panel = job.balances
  BY <1>2, <1>3 DEF Sound, Content
<1>5. ASSUME tabs'[job'.tab] = content, pc' = "done", UNCHANGED <<job, created, dressing>>
      PROVE  PathTaken' /\ TargetSoFar' /\ WrittenIsExact' /\ CreationIsWhole'
  BY <1>2, <1>3, <1>4, <1>5, NewSheetFacts
     DEF PathTaken, TargetSoFar, WrittenIsExact, CreationIsWhole, Target, Running
<1> QED
  BY <1>1, <1>3, <1>5, RequestKeepsIInv DEF FormatPanel

LEMMA ProcessEndsKeeps == IInv /\ ProcessEnds => IInv'
<1> SUFFICES ASSUME IInv, ProcessEnds PROVE IInv'
  OBVIOUS
<1>1. TypeOK'
  BY DressingFacts DEF ProcessEnds, IInv, TypeOK, AtRest, Errors
<1> QED
  BY <1>1 DEF ProcessEnds, IInv, DocumentIsSound, RunningFits, PathTaken, TargetSoFar,
              WrittenIsExact, CreationIsWhole, Running

\* Typing into a tab with titles changes its column H and nothing else.
LEMMA HandTypeFacts ==
  ASSUME IInv, NEW t \in Tab, NEW c \in Category, HandType(t, c)
  PROVE  /\ tabs[t] \in Sound /\ tabs[t].grid
         /\ tabs'[t] = [tabs[t] EXCEPT !.shared = tabs[t].shared \cup {c}]
         /\ tabs'[t] \in Sound
         /\ \A u \in Tab \ {t} : tabs'[u] = tabs[u]
         /\ tabs' \in [Tab -> Sound \cup {Absent}]
<1>1. tabs \in [Tab -> Sound \cup {Absent}] /\ tabs[t] # Absent
  BY DEF HandType, IInv, DocumentIsSound
<1>2. tabs[t] \in Sound
  BY <1>1
<1>3. tabs' = [tabs EXCEPT ![t] = [tabs[t] EXCEPT !.shared = tabs[t].shared \cup {c}]]
  BY DEF HandType
<1>4. [tabs[t] EXCEPT !.shared = tabs[t].shared \cup {c}] \in Sound
  BY <1>2 DEF Sound, Content
<1> QED
  BY <1>1, <1>2, <1>3, <1>4 DEF HandType

LEMMA HandTypeKeeps ==
  ASSUME IInv, NEW t \in Tab, NEW c \in Category, HandType(t, c)
  PROVE  IInv'
<1>1. tabs' \in [Tab -> Content \cup {Absent}]
  BY HandTypeFacts DEF Sound
<1>2. UNCHANGED <<pc, job, created, dressing, err>>
  BY DEF HandType
<1>3. TypeOK' /\ DocumentIsSound' /\ RunningFits' /\ PathTaken'
  BY <1>1, <1>2, HandTypeFacts DEF IInv, TypeOK, DocumentIsSound, RunningFits, PathTaken
<1>4. CASE pc = "idle"
  BY <1>2, <1>3, <1>4 DEF IInv, TargetSoFar, WrittenIsExact, CreationIsWhole
<1>5. CASE pc # "idle" /\ job.tab # t
  <2>1. Target' = Target
    BY <1>2, <1>5, HandTypeFacts DEF IInv, TypeOK, Job, Target
  <2> QED
    BY <1>2, <1>3, <2>1 DEF IInv, TargetSoFar, WrittenIsExact, CreationIsWhole
<1>6. CASE pc # "idle" /\ job.tab = t
  <2>1. /\ Target \in Sound /\ Target.grid /\ Target' \in Sound
        /\ Target' = [Target EXCEPT !.shared = Target.shared \cup {c}]
    BY <1>2, <1>6, HandTypeFacts DEF Target
  <2>2. /\ Target'.grid = Target.grid /\ Target'.expenses = Target.expenses
        /\ Target'.typed = Target.typed /\ Target'.panel = Target.panel
        /\ Target'.dressed = Target.dressed
    BY <2>1 DEF Sound, Content
  <2>3. Target # NewSheet /\ Target # Absent /\ Target' # Absent
    BY <2>1, NewSheetFacts
  <2>4. TargetSoFar'
    BY <1>2, <2>2, <2>3 DEF IInv, TargetSoFar
  <2>5. WrittenIsExact' /\ CreationIsWhole'
    BY <1>2, <2>2, <2>3 DEF IInv, WrittenIsExact, CreationIsWhole, Whole
  <2> QED
    BY <1>3, <2>4, <2>5 DEF IInv
<1> QED
  BY <1>4, <1>5, <1>6

LEMMA NextIInv == IInv /\ [Next]_vars => IInv'
<1> SUFFICES ASSUME IInv, [Next]_vars PROVE IInv'
  OBVIOUS
<1>1. CASE UNCHANGED vars
  BY <1>1 DEF vars, IInv, TypeOK, DocumentIsSound, RunningFits, PathTaken, TargetSoFar,
              WrittenIsExact, CreationIsWhole, Target
<1>2. CASE Step
  BY <1>2, OpenKeeps, ResolveKeeps, AddKeeps, GridKeeps, ClearExpensesKeeps,
     FillExpensesKeeps, DressKeeps, WipePanelKeeps, RefillPanelKeeps, FormatPanelKeeps
     DEF Step
<1> QED
  BY <1>1, <1>2, WriteKeeps, ProcessEndsKeeps, HandTypeKeeps DEF Next
-----------------------------------------------------------------------------
(* The theorems. *)

\* Every reachable state satisfies the inductive invariant.
THEOREM InductiveInvariant == Spec => []IInv
BY InitIInv, NextIInv, PTL DEF Spec

\* The state of the writer and of the document is always well formed.
THEOREM TypeCorrect == Spec => []TypeOK
BY InductiveInvariant, PTL DEF IInv

\* A write that returned, on either path, left its own rows as RAW values and its
\* own balances.
THEOREM WritesAreExact == Spec => []WrittenIsExact
BY InductiveInvariant, PTL DEF IInv

\* No failure, lost answer or kill leaves rows or balances of two writes in a tab.
THEOREM TabsAreNeverMixed == Spec => []NeverAMixture
<1>1. IInv => NeverAMixture
  <2> SUFFICES ASSUME IInv, NEW t \in Tab, tabs[t] # Absent
               PROVE  /\ tabs[t].expenses \in Batch \cup {{}}
                      /\ tabs[t].panel \in Panel \cup {NoPanel}
    BY DEF NeverAMixture
  <2>1. tabs[t] \in Sound
    BY DEF IInv, DocumentIsSound
  <2> QED
    BY <2>1 DEF Sound, Content
<1> QED
  BY <1>1, InductiveInvariant, PTL

\* A creation that returned left titles, catalogue, merges and formats in place.
THEOREM CreationsAreWhole == Spec => []CreationIsWhole
BY InductiveInvariant, PTL DEF IInv
-----------------------------------------------------------------------------
(* What no step takes away. *)

\* From a tab to what a step makes of it: typed amounts stay, and wholeness stays.
Keeps(old, new) ==
  old # Absent => /\ new # Absent
                  /\ old.shared \subseteq new.shared
                  /\ Whole(old) => Whole(new)

\* No request puts less in its tab than a later reader may rely on.
LEMMA RequestKeepsContent ==
  ASSUME IInv, pc \in Running, NEW content \in Sound, Keeps(Target, content),
         tabs' = tabs \/ tabs' = Becomes(content), NEW t \in Tab
  PROVE  Keeps(tabs[t], tabs'[t])
<1>1. CASE tabs' = tabs
  BY <1>1 DEF Keeps
<1>2. CASE tabs' = Becomes(content) /\ t = job.tab
  BY <1>2, BecomesFacts DEF Target
<1>3. CASE tabs' = Becomes(content) /\ t # job.tab
  <2>1. tabs'[t] = tabs[t]
    BY <1>3 DEF Becomes, IInv, DocumentIsSound
  <2> QED
    BY <2>1 DEF Keeps
<1> QED
  BY <1>1, <1>2, <1>3

LEMMA RequestEffect ==
  ASSUME NEW effect, NEW next, Request(effect, next)
  PROVE  tabs' = tabs \/ tabs' = effect
BY RaisesFacts DEF Request, Answered

LEMMA StepKeepsContent ==
  ASSUME IInv, Step, NEW t \in Tab
  PROVE  Keeps(tabs[t], tabs'[t])
<1>1. CASE Open \/ Resolve
  <2>1. tabs' = tabs
    BY <1>1, RequestEffect, RaisesFacts DEF Open, Resolve, Answered
  <2> QED
    BY <2>1 DEF Keeps
<1>2. CASE Add
  <2>1. pc \in Running /\ Target = Absent /\ (tabs' = tabs \/ tabs' = Becomes(NewSheet))
    BY <1>2, RequestEffect DEF Add, Running, IInv, TargetSoFar
  <2> QED
    BY <2>1, NewSheetFacts, RequestKeepsContent DEF Keeps
<1>3. CASE Grid
  <2>1. pc \in Running /\ Target = NewSheet
    BY <1>3 DEF Grid, Running, IInv, TargetSoFar
  <2>2. PICK content \in WithGrid(NewSheet) : tabs' = tabs \/ tabs' = Becomes(content)
    BY <1>3, <2>1, RequestEffect DEF Grid
  <2>3. content \in Sound
    BY <2>1, <2>2, InACall, GridFacts
  <2>4. Keeps(NewSheet, content)
    BY <2>3, NewSheetFacts DEF Keeps, Whole, NewSheet
  <2> QED
    BY <2>1, <2>2, <2>3, <2>4, RequestKeepsContent
<1>4. ASSUME pc \in {"clear", "fill", "dress", "wipe", "refill", "format"}
      PROVE  pc \in Running /\ Target \in Sound /\ Target \in Content /\ job \in Job
  BY <1>4, InACall DEF Running, IInv, TargetSoFar, Sound
<1>5. CASE ClearExpenses
  <2> DEFINE content == WithoutExpenses(Target)
  <2>1. pc = "clear" /\ (tabs' = tabs \/ tabs' = Becomes(content))
    BY <1>5, RequestEffect DEF ClearExpenses
  <2>2. content = [Target EXCEPT !.expenses = {}, !.typed = FALSE] /\ content \in Sound
    BY <1>4, <2>1, RegionFacts, DressingFacts
  <2>3. Keeps(Target, content)
    BY <1>4, <2>1, <2>2, NewSheetFacts DEF Keeps, Whole, Content
  <2> QED
    BY <1>4, <2>1, <2>2, <2>3, RequestKeepsContent
<1>6. CASE FillExpenses
  <2>1. pc = "fill" /\ Target.expenses = {} /\ ~Target.typed
    BY <1>6 DEF FillExpenses, IInv, TargetSoFar
  <2>2. PICK content \in WithExpenses(Target) : tabs' = tabs \/ tabs' = Becomes(content)
    BY <1>6, RequestEffect DEF FillExpenses
  <2>3. content = [Target EXCEPT !.expenses = job.rows] /\ content \in Sound
    BY <1>4, <2>1, <2>2, FillFacts
  <2>4. Keeps(Target, content)
    BY <1>4, <2>1, <2>3, NewSheetFacts DEF Keeps, Whole, Content
  <2> QED
    BY <1>4, <2>1, <2>2, <2>3, <2>4, RequestKeepsContent
<1>7. ASSUME NEW range \in Dressing, pc \in {"dress", "format"},
             tabs' = tabs \/ tabs' = Becomes(Dressed(Target, range))
      PROVE  Keeps(tabs[t], tabs'[t])
  <2> DEFINE content == Dressed(Target, range)
  <2>1. content = [Target EXCEPT !.dressed = Target.dressed \cup {range}] /\ content \in Sound
    BY <1>4, <1>7, RegionFacts
  <2>2. Keeps(Target, content)
    BY <1>4, <1>7, <2>1, NewSheetFacts DEF Keeps, Whole, Content, Dressing
  <2> QED
    BY <1>4, <1>7, <2>1, <2>2, RequestKeepsContent
<1>8. CASE Dress
  <2>1. pc = "dress" /\ DressCalls[dressing] \in Dressing
    BY <1>8, DressingFacts DEF Dress, IInv, TypeOK
  <2>2. tabs' = tabs \/ tabs' = Becomes(Dressed(Target, DressCalls[dressing]))
    BY <1>8, RaisesFacts DEF Dress, Answered
  <2> QED
    BY <1>7, <2>1, <2>2
<1>9. CASE FormatPanel
  BY <1>7, <1>9, RequestEffect, DressingFacts DEF FormatPanel
<1>10. CASE WipePanel
  <2> DEFINE content == WithoutPanel(Target)
  <2>1. pc = "wipe" /\ (tabs' = tabs \/ tabs' = Becomes(content))
    BY <1>10, RequestEffect DEF WipePanel
  <2>2. content = [Target EXCEPT !.panel = NoPanel] /\ content \in Sound
    BY <1>4, <2>1, RegionFacts, DressingFacts
  <2>3. Keeps(Target, content)
    BY <1>4, <2>1, <2>2, NewSheetFacts DEF Keeps, Whole, Content
  <2> QED
    BY <1>4, <2>1, <2>2, <2>3, RequestKeepsContent
<1>11. CASE RefillPanel
  <2> DEFINE content == WithPanel(Target)
  <2>1. pc = "refill" /\ Target.panel = NoPanel /\ (tabs' = tabs \/ tabs' = Becomes(content))
    BY <1>11, RequestEffect DEF RefillPanel, IInv, TargetSoFar
  <2>2. content = [Target EXCEPT !.panel = job.balances] /\ content \in Sound
    BY <1>4, <2>1, PanelFacts
  <2>3. Keeps(Target, content)
    BY <1>4, <2>1, <2>2, NewSheetFacts DEF Keeps, Whole, Content
  <2> QED
    BY <1>4, <2>1, <2>2, <2>3, RequestKeepsContent
<1> QED
  BY <1>1, <1>2, <1>3, <1>5, <1>6, <1>8, <1>9, <1>10, <1>11 DEF Step

LEMMA NextKeepsContent ==
  ASSUME IInv, [Next]_vars, NEW t \in Tab
  PROVE  Keeps(tabs[t], tabs'[t])
<1>1. CASE UNCHANGED tabs
  BY <1>1 DEF Keeps
<1>2. CASE Step
  BY <1>2, StepKeepsContent
<1>3. ASSUME NEW u \in Tab, NEW c \in Category, HandType(u, c)
      PROVE  Keeps(tabs[t], tabs'[t])
  <2>1. CASE t # u
    BY <1>3, <2>1, HandTypeFacts DEF Keeps
  <2>2. CASE t = u
    <3>1. /\ tabs[t] \in Sound /\ tabs'[t] \in Sound
          /\ tabs'[t] = [tabs[t] EXCEPT !.shared = tabs[t].shared \cup {c}]
      BY <1>3, <2>2, HandTypeFacts
    <3>2. /\ tabs'[t].shared = tabs[t].shared \cup {c}
          /\ tabs'[t].grid = tabs[t].grid /\ tabs'[t].dressed = tabs[t].dressed
      BY <3>1 DEF Sound, Content
    <3> QED
      BY <3>1, <3>2, NewSheetFacts DEF Keeps, Whole
  <2> QED
    BY <2>1, <2>2
<1> QED
  BY <1>1, <1>2, <1>3 DEF Next, Write, ProcessEnds, vars

\* No step of any write takes back an amount the account holder typed.
THEOREM TypedAmountsSurvive == Spec => HandTypedSurvive
<1>1. IInv /\ [Next]_vars =>
        [\A t \in Tab : tabs[t] # Absent =>
           tabs'[t] # Absent /\ tabs[t].shared \subseteq tabs'[t].shared]_vars
  BY NextKeepsContent DEF Keeps
<1> QED
  BY <1>1, InductiveInvariant, PTL DEF Spec, HandTypedSurvive

\* A whole tab stays whole, whatever fails on the way.
THEOREM WholeTabsStayWhole == Spec => WholeForGood
<1>1. IInv /\ [Next]_vars => [\A t \in Tab : Whole(tabs[t]) => Whole(tabs'[t])]_vars
  BY NextKeepsContent DEF Keeps, Whole
<1> QED
  BY <1>1, InductiveInvariant, PTL DEF Spec, WholeForGood

\* A month that does not fit is refused before the document is touched.
THEOREM OversizedMonthsTouchNothing == Spec => TooLargeTouchesNothing
<1>1. IInv /\ [Next]_vars =>
        [pc # "idle" /\ Cardinality(job.rows) > MaxExpenseRows =>
           \A t \in Tab : tabs'[t] # tabs[t] =>
             tabs[t] # Absent /\ tabs'[t] = [tabs[t] EXCEPT !.shared = tabs'[t].shared]]_vars
  <2> SUFFICES ASSUME IInv, [Next]_vars, Cardinality(job.rows) > MaxExpenseRows,
                      NEW t \in Tab, tabs'[t] # tabs[t]
               PROVE  tabs[t] # Absent /\ tabs'[t] = [tabs[t] EXCEPT !.shared = tabs'[t].shared]
    OBVIOUS
  <2>1. ~Step
    BY DEF IInv, RunningFits, Step, Running, Open, Resolve, Add, Grid, ClearExpenses,
           FillExpenses, Dress, WipePanel, RefillPanel, FormatPanel
  <2>2. PICK u \in Tab, c \in Category : HandType(u, c)
    BY <2>1 DEF Next, Write, ProcessEnds, vars
  <2>3. t = u
    BY <2>2, HandTypeFacts
  <2> QED
    <3>1. /\ tabs[t] \in Sound
          /\ tabs'[t] = [tabs[t] EXCEPT !.shared = tabs[t].shared \cup {c}]
      BY <2>2, <2>3, HandTypeFacts
    <3>2. tabs'[t].shared = tabs[t].shared \cup {c}
      BY <3>1 DEF Sound, Content
    <3> QED
      BY <3>1, <3>2, NewSheetFacts
<1> QED
  BY <1>1, InductiveInvariant, PTL DEF Spec, TooLargeTouchesNothing
-----------------------------------------------------------------------------
\* What one request of a running write does, for whoever composes the writer with
\* something else: of all tabs it changes the target only, whose expense block is
\* then what it was, empty, or exactly the rows of the job.
ExpensesOf(content) == IF content = Absent THEN {} ELSE content.expenses

Addresses(t) ==
  tabs'[t] = tabs[t] \/ (/\ t = job.tab
                         /\ ExpensesOf(tabs'[t]) \in {ExpensesOf(tabs[t]), {}, job.rows})

LEMMA BecomesAddresses ==
  ASSUME IInv, pc \in Running, NEW content \in Sound,
         content.expenses \in {ExpensesOf(Target), {}, job.rows},
         tabs' = tabs \/ tabs' = Becomes(content), NEW t \in Tab
  PROVE  Addresses(t)
<1>1. CASE tabs' = tabs
  BY <1>1 DEF Addresses
<1>2. CASE tabs' = Becomes(content) /\ t = job.tab
  BY <1>2, BecomesFacts, NewSheetFacts DEF Addresses, Target, ExpensesOf
<1>3. CASE tabs' = Becomes(content) /\ t # job.tab
  BY <1>3 DEF Becomes, IInv, DocumentIsSound, Addresses
<1> QED
  BY <1>1, <1>2, <1>3

LEMMA StepFacts ==
  ASSUME IInv, Step
  PROVE  /\ pc \in Running /\ pc' \in (Running \cup {"done", "failed"}) \ {"open"}
         /\ job' = job /\ job \in Job
         /\ \A t \in Tab : Addresses(t)
<1>0. pc \in Running
  BY DEF Step, Open, Resolve, Add, Grid, ClearExpenses, FillExpenses, Dress, WipePanel,
         RefillPanel, FormatPanel, Running
<1>1. job \in Job /\ job.rows \in Batch
  BY <1>0, InACall
<1>2. pc' \in (Running \cup {"done", "failed"}) \ {"open"} /\ job' = job
  <2>1. \A effect, next : Request(effect, next) => pc' \in {next, "failed"} /\ job' = job
    BY RaisesFacts DEF Request, Answered
  <2>2. CASE Open
    BY <2>1, <2>2 DEF Open, Raise, Running
  <2>3. CASE Resolve
    BY <2>3, RaisesFacts DEF Resolve, Answered, Running
  <2>4. CASE Dress
    BY <2>4, RaisesFacts DEF Dress, Answered, Running
  <2> QED
    BY <2>1, <2>2, <2>3, <2>4 DEF Step, Add, Grid, ClearExpenses, FillExpenses, WipePanel,
       RefillPanel, FormatPanel, AfterExpenses, Running
<1>3. ASSUME NEW t \in Tab PROVE Addresses(t)
  <2>1. CASE Open \/ Resolve
    <3>1. tabs' = tabs
      BY <2>1, RequestEffect, RaisesFacts DEF Open, Resolve, Answered
    <3> QED
      BY <3>1 DEF Addresses
  <2>2. CASE Add
    <3>1. tabs' = tabs \/ tabs' = Becomes(NewSheet)
      BY <2>2, RequestEffect DEF Add
    <3> QED
      BY <1>0, <3>1, NewSheetFacts, BecomesAddresses DEF NewSheet
  <2>3. CASE Grid
    <3>1. Target = NewSheet
      BY <2>3 DEF Grid, IInv, TargetSoFar
    <3>2. PICK content \in WithGrid(NewSheet) : tabs' = tabs \/ tabs' = Becomes(content)
      BY <2>3, <3>1, RequestEffect DEF Grid
    <3>3. content \in Sound /\ content.expenses = job.rows
      BY <1>1, <3>2, GridFacts
    <3> QED
      BY <1>0, <3>2, <3>3, BecomesAddresses
  <2>4. ASSUME pc \in {"clear", "fill", "dress", "wipe", "refill", "format"}
        PROVE  /\ Target \in Sound /\ Target \in Content
               /\ ExpensesOf(Target) = Target.expenses
    BY <1>0, <2>4, InACall DEF IInv, TargetSoFar, Sound, ExpensesOf
  <2>5. CASE ClearExpenses
    <3> DEFINE content == WithoutExpenses(Target)
    <3>1. pc = "clear" /\ (tabs' = tabs \/ tabs' = Becomes(content))
      BY <2>5, RequestEffect DEF ClearExpenses
    <3>2. content.expenses = {} /\ content \in Sound
      BY <1>1, <2>4, <3>1, RegionFacts, DressingFacts DEF Content
    <3> QED
      BY <1>0, <3>1, <3>2, BecomesAddresses
  <2>6. CASE FillExpenses
    <3>1. pc = "fill" /\ Target.expenses = {} /\ ~Target.typed
      BY <2>6 DEF FillExpenses, IInv, TargetSoFar
    <3>2. PICK content \in WithExpenses(Target) : tabs' = tabs \/ tabs' = Becomes(content)
      BY <2>6, RequestEffect DEF FillExpenses
    <3>3. content.expenses = job.rows /\ content \in Sound
      BY <1>1, <2>4, <3>1, <3>2, FillFacts DEF Content
    <3> QED
      BY <1>0, <3>2, <3>3, BecomesAddresses
  <2>7. ASSUME NEW content \in Sound, content.expenses = Target.expenses,
               pc \in {"dress", "wipe", "refill", "format"},
               tabs' = tabs \/ tabs' = Becomes(content)
        PROVE  Addresses(t)
    BY <1>0, <2>4, <2>7, BecomesAddresses
  <2>8. CASE Dress
    <3> DEFINE content == Dressed(Target, DressCalls[dressing])
    <3>1. pc = "dress" /\ DressCalls[dressing] \in Dressing
      BY <2>8, DressingFacts DEF Dress, IInv, TypeOK
    <3>2. content.expenses = Target.expenses /\ content \in Sound
      BY <1>1, <2>4, <3>1, RegionFacts DEF Content
    <3>3. tabs' = tabs \/ tabs' = Becomes(content)
      BY <2>8, RaisesFacts DEF Dress, Answered
    <3> QED
      BY <2>7, <3>1, <3>2, <3>3
  <2>9. CASE FormatPanel
    <3> DEFINE content == Dressed(Target, PanelFormat)
    <3>1. pc = "format" /\ (tabs' = tabs \/ tabs' = Becomes(content))
      BY <2>9, RequestEffect DEF FormatPanel
    <3>2. /\ content = [Target EXCEPT !.dressed = Target.dressed \cup {PanelFormat}]
          /\ content \in Sound
      BY <1>1, <2>4, <3>1, RegionFacts, DressingFacts
    <3>3. content.expenses = Target.expenses
      BY <2>4, <3>1, <3>2 DEF Content
    <3> QED
      BY <2>7, <3>1, <3>2, <3>3
  <2>10. CASE WipePanel
    <3> DEFINE content == WithoutPanel(Target)
    <3>1. pc = "wipe" /\ (tabs' = tabs \/ tabs' = Becomes(content))
      BY <2>10, RequestEffect DEF WipePanel
    <3>2. content = [Target EXCEPT !.panel = NoPanel] /\ content \in Sound
      BY <1>1, <2>4, <3>1, RegionFacts, DressingFacts
    <3>3. content.expenses = Target.expenses
      BY <2>4, <3>1, <3>2 DEF Content
    <3> QED
      BY <2>7, <3>1, <3>2, <3>3
  <2>11. CASE RefillPanel
    <3> DEFINE content == WithPanel(Target)
    <3>1. pc = "refill" /\ Target.panel = NoPanel /\ (tabs' = tabs \/ tabs' = Becomes(content))
      BY <2>11, RequestEffect DEF RefillPanel, IInv, TargetSoFar
    <3>2. content.expenses = Target.expenses /\ content \in Sound
      BY <1>1, <2>4, <3>1, PanelFacts DEF Content
    <3> QED
      BY <2>7, <3>1, <3>2
  <2> QED
    BY <2>1, <2>2, <2>3, <2>5, <2>6, <2>8, <2>9, <2>10, <2>11 DEF Step
<1> QED
  BY <1>0, <1>1, <1>2, <1>3
-----------------------------------------------------------------------------
(* The writer implements LayoutStore: what its readers see of a call. *)

\* The tabs as the store shows them.
TheirTabs == [t \in Tab |-> Seen(tabs[t])]

\* Contents with the same fields are the same.
LEMMA SameContent ==
  ASSUME NEW c \in Content, NEW d \in Content,
         c.grid = d.grid, c.expenses = d.expenses, c.typed = d.typed,
         c.panel = d.panel, c.shared = d.shared, c.dressed = d.dressed
  PROVE  c = d
BY DEF Content

\* What the store shows of an absent tab, of a content and of a new tab.
LEMMA SeenFacts ==
  /\ Seen(Absent) = Absent /\ Seen(NewSheet) = NewSheet
  /\ \A c \in Content :
       /\ Seen(c) \in Content /\ Seen(c) # Absent
       /\ Seen(c).grid = FALSE /\ Seen(c).dressed = {}
       /\ Seen(c).expenses = c.expenses /\ Seen(c).typed = c.typed
       /\ Seen(c).panel = c.panel /\ Seen(c).shared = c.shared
<1>1. ASSUME NEW c \in Content
      PROVE  /\ Seen(c) = [c EXCEPT !.grid = FALSE, !.dressed = {}]
             /\ Seen(c) \in Content
  <2>1. [c EXCEPT !.grid = FALSE, !.dressed = {}] \in Content
    BY DEF Content
  <2> QED
    BY <2>1, MarkersAreFresh DEF Seen
<1>2. ASSUME NEW c \in Content
      PROVE  /\ Seen(c).grid = FALSE /\ Seen(c).dressed = {}
             /\ Seen(c).expenses = c.expenses /\ Seen(c).typed = c.typed
             /\ Seen(c).panel = c.panel /\ Seen(c).shared = c.shared
  <2> DEFINE new == [c EXCEPT !.grid = FALSE, !.dressed = {}]
  <2>1. /\ new.grid = FALSE /\ new.dressed = {} /\ new.expenses = c.expenses
        /\ new.typed = c.typed /\ new.panel = c.panel /\ new.shared = c.shared
    BY DEF Content
  <2>2. Seen(c) = new
    BY <1>1
  <2> HIDE DEF new
  <2> QED
    BY <2>1, <2>2
<1>3. Seen(NewSheet) = NewSheet
  <2>1. NewSheet \in Content /\ NewSheet.grid = FALSE /\ NewSheet.dressed = {}
    BY NewSheetFacts DEF Sound, NewSheet
  <2>2. /\ Seen(NewSheet) \in Content /\ Seen(NewSheet).grid = FALSE
        /\ Seen(NewSheet).dressed = {} /\ Seen(NewSheet).expenses = NewSheet.expenses
        /\ Seen(NewSheet).typed = NewSheet.typed /\ Seen(NewSheet).panel = NewSheet.panel
        /\ Seen(NewSheet).shared = NewSheet.shared
    BY <1>1, <1>2, <2>1
  <2> QED
    BY <2>1, <2>2, SameContent
<1> QED
  BY <1>1, <1>2, <1>3, MarkersAreFresh DEF Seen

\* What the store shows of a change of one region of the tab.
LEMMA SeenChanges ==
  ASSUME NEW c \in Content
  PROVE  /\ Seen([c EXCEPT !.expenses = {}, !.typed = FALSE])
              = [Seen(c) EXCEPT !.expenses = {}, !.typed = FALSE]
         /\ \A E \in SUBSET Row : Seen([c EXCEPT !.expenses = E]) = [Seen(c) EXCEPT !.expenses = E]
         /\ \A p \in Panel \cup {NoPanel} : Seen([c EXCEPT !.panel = p]) = [Seen(c) EXCEPT !.panel = p]
         /\ \A d \in SUBSET Dressing : Seen([c EXCEPT !.dressed = d]) = Seen(c)
<1>1. Seen([c EXCEPT !.expenses = {}, !.typed = FALSE])
        = [Seen(c) EXCEPT !.expenses = {}, !.typed = FALSE]
  <2> DEFINE new  == [c EXCEPT !.expenses = {}, !.typed = FALSE]
             seen == [Seen(c) EXCEPT !.expenses = {}, !.typed = FALSE]
  <2>1. Seen(c) \in Content /\ new \in Content
    BY SeenFacts DEF Content
  <2>2. seen \in Content
    BY <2>1 DEF Content
  <2>3. /\ Seen(new).grid = seen.grid /\ Seen(new).expenses = seen.expenses
        /\ Seen(new).typed = seen.typed /\ Seen(new).panel = seen.panel
        /\ Seen(new).shared = seen.shared /\ Seen(new).dressed = seen.dressed
    BY <2>1, SeenFacts DEF Content
  <2>4. Seen(new) \in Content
    BY <2>1, SeenFacts
  <2> QED
    BY <2>2, <2>3, <2>4, SameContent
<1>2. ASSUME NEW E \in SUBSET Row
      PROVE  Seen([c EXCEPT !.expenses = E]) = [Seen(c) EXCEPT !.expenses = E]
  <2> DEFINE new  == [c EXCEPT !.expenses = E]
             seen == [Seen(c) EXCEPT !.expenses = E]
  <2>1. Seen(c) \in Content /\ new \in Content
    BY SeenFacts DEF Content
  <2>2. seen \in Content
    BY <2>1 DEF Content
  <2>3. /\ Seen(new).grid = seen.grid /\ Seen(new).expenses = seen.expenses
        /\ Seen(new).typed = seen.typed /\ Seen(new).panel = seen.panel
        /\ Seen(new).shared = seen.shared /\ Seen(new).dressed = seen.dressed
    BY <2>1, SeenFacts DEF Content
  <2>4. Seen(new) \in Content
    BY <2>1, SeenFacts
  <2> QED
    BY <2>2, <2>3, <2>4, SameContent
<1>3. ASSUME NEW p \in Panel \cup {NoPanel}
      PROVE  Seen([c EXCEPT !.panel = p]) = [Seen(c) EXCEPT !.panel = p]
  <2> DEFINE new  == [c EXCEPT !.panel = p]
             seen == [Seen(c) EXCEPT !.panel = p]
  <2>1. Seen(c) \in Content /\ new \in Content
    BY SeenFacts DEF Content
  <2>2. seen \in Content
    BY <2>1 DEF Content
  <2>3. /\ Seen(new).grid = seen.grid /\ Seen(new).expenses = seen.expenses
        /\ Seen(new).typed = seen.typed /\ Seen(new).panel = seen.panel
        /\ Seen(new).shared = seen.shared /\ Seen(new).dressed = seen.dressed
    BY <2>1, SeenFacts DEF Content
  <2>4. Seen(new) \in Content
    BY <2>1, SeenFacts
  <2> QED
    BY <2>2, <2>3, <2>4, SameContent
<1>4. ASSUME NEW d \in SUBSET Dressing
      PROVE  Seen([c EXCEPT !.dressed = d]) = Seen(c)
  <2> DEFINE new  == [c EXCEPT !.dressed = d]
             seen == Seen(c)
  <2>1. Seen(c) \in Content /\ new \in Content
    BY SeenFacts DEF Content, Dressing
  <2>2. seen \in Content
    BY <2>1 DEF Content
  <2>3. /\ Seen(new).grid = seen.grid /\ Seen(new).expenses = seen.expenses
        /\ Seen(new).typed = seen.typed /\ Seen(new).panel = seen.panel
        /\ Seen(new).shared = seen.shared /\ Seen(new).dressed = seen.dressed
    BY <2>1, SeenFacts DEF Content
  <2>4. Seen(new) \in Content
    BY <2>1, SeenFacts
  <2> QED
    BY <2>2, <2>3, <2>4, SameContent
<1> QED
  BY <1>1, <1>2, <1>3, <1>4

\* The typed rows of a draft, on the sheet that was just added.
LEMMA SeenDraft ==
  ASSUME job \in Job, NEW content \in WithGrid(NewSheet)
  PROVE  Seen(content) = [NewSheet EXCEPT !.expenses = job.rows, !.typed = job.rows # {},
                                          !.panel = job.balances]
<1>1. PICK E \in RowsOver({}, job.rows) :
        content = [NewSheet EXCEPT !.grid = TRUE, !.expenses = E, !.typed = job.rows # {},
                                   !.panel = PanelOver(NoPanel, job.balances)]
  BY DEF WithGrid, NewSheet
<1>2. E = job.rows /\ PanelOver(NoPanel, job.balances) = job.balances
  BY RowsOverNothing DEF PanelOver
<1>3. /\ content.expenses = job.rows /\ content.typed = (job.rows # {})
      /\ content.panel = job.balances /\ content.shared = {}
  BY <1>1, <1>2 DEF NewSheet
<1>4. content \in Content /\ Seen(content) \in Content
  BY GridFacts, SeenFacts DEF Sound
<1> DEFINE draft == [NewSheet EXCEPT !.expenses = job.rows, !.typed = job.rows # {},
                                     !.panel = job.balances]
<1>5. NewSheet \in Content /\ job.rows \in SUBSET Row /\ job.balances \in Panel
  BY NewSheetFacts DEF Sound, Job, Row
<1>6. draft \in Content
  BY <1>5 DEF Content
<1>7. /\ draft.grid = FALSE /\ draft.expenses = job.rows /\ draft.typed = (job.rows # {})
      /\ draft.panel = job.balances /\ draft.shared = {} /\ draft.dressed = {}
  BY DEF NewSheet
<1> HIDE DEF draft
<1>8. /\ Seen(content).grid = FALSE /\ Seen(content).expenses = job.rows
      /\ Seen(content).typed = (job.rows # {}) /\ Seen(content).panel = job.balances
      /\ Seen(content).shared = {} /\ Seen(content).dressed = {}
  BY <1>3, <1>4, SeenFacts
<1>9. Seen(content) = draft
  BY <1>4, <1>6, <1>7, <1>8, SameContent
<1> QED
  BY <1>9 DEF draft

\* The target, and what the store shows when a request gives it a new content.
LEMMA ShownFacts ==
  ASSUME IInv, pc \in Running
  PROVE  /\ TheirTabs[job.tab] = Seen(Target)
         /\ \A content \in Sound :
              tabs' = Becomes(content)
                => TheirTabs' = [TheirTabs EXCEPT ![job.tab] = Seen(content)]
<1>1. job.tab \in Tab /\ tabs \in [Tab -> Sound \cup {Absent}]
  BY InACall DEF IInv, DocumentIsSound
<1>2. ASSUME NEW content, tabs' = Becomes(content)
      PROVE  TheirTabs' = [TheirTabs EXCEPT ![job.tab] = Seen(content)]
  <2>1. \A t \in Tab : tabs'[t] = IF t = job.tab THEN content ELSE tabs[t]
    BY <1>1, <1>2 DEF Becomes
  <2> QED
    BY <1>1, <2>1 DEF TheirTabs
<1> QED
  BY <1>1, <1>2 DEF TheirTabs, Target

LEMMA StateFacts ==
  /\ pc \in Running => State = "asked"
  /\ pc = "done" => State = "returned"
  /\ pc = "failed" => State = "raised"
  /\ pc = "idle" => State = "idle"
BY DEF State, Running

LEMMA StateFactsPrimed ==
  /\ pc' \in Running => State' = "asked"
  /\ pc' = "done" => State' = "returned"
  /\ pc' = "failed" => State' = "raised"
  /\ pc' = "idle" => State' = "idle"
BY DEF State, Running

\* A request that is not the last one: a stutter or a rewriting of a region when it is
\* answered, and a call that gives up when it is not.
LEMMA RequestImplements ==
  ASSUME IInv, pc \in Running, UNCHANGED job,
         \/ TheirTabs' = TheirTabs
         \/ Store!Rewrite,
         pc' \in Running \cup {"failed"}
  PROVE  [Store!Next]_(Store!vars)
<1>1. State = "asked"
  BY StateFacts
<1>2. CASE pc' \in Running
  <2>1. State' = "asked"
    BY <1>2, StateFactsPrimed
  <2> QED
    BY <1>1, <2>1 DEF Store!Next, Store!Work, Store!vars, TheirTabs
<1>3. CASE pc' = "failed"
  <2>1. State' = "raised"
    BY <1>3, StateFactsPrimed
  <2>2. Store!GiveUp
    BY <1>1, <2>1 DEF Store!GiveUp, TheirTabs
  <2> QED
    BY <2>2 DEF Store!Next
<1> QED
  BY <1>2, <1>3

\* The last request dresses the tab, which the store does not show.
LEMMA ReturnImplements ==
  ASSUME IInv, pc \in Running, UNCHANGED job, pc' = "done", TheirTabs' = TheirTabs,
         Target \in Sound, Target.expenses = job.rows, ~Target.typed, Target.panel = job.balances
  PROVE  [Store!Next]_(Store!vars)
<1>1. State = "asked" /\ State' = "returned"
  BY StateFacts, StateFactsPrimed
<1>2. TheirTabs[job.tab] = Seen(Target) /\ Target \in Content
  BY ShownFacts DEF Sound
<1>3. Store!BlockIsRight /\ Store!Old.panel = job.balances
  BY <1>2, SeenFacts DEF Store!BlockIsRight, Store!Old, TheirTabs
<1>4. Store!Return
  BY <1>1, <1>3 DEF Store!Return, TheirTabs
<1> QED
  BY <1>4 DEF Store!Next

\* What a request leaves: the tabs as they were, or the target with a new content.
LEMMA RequestLeaves ==
  ASSUME IInv, NEW effect, NEW next, Request(effect, next) \/ Raises(effect)
  PROVE  /\ UNCHANGED job /\ pc' \in {next, "failed"}
         /\ tabs' = tabs \/ tabs' = effect
BY RaisesFacts DEF Request, Answered

LEMMA Unmoved == UNCHANGED tabs => TheirTabs' = TheirTabs
BY DEF TheirTabs

\* A request whose effect rewrites a region of the tab.
LEMMA RegionImplements ==
  ASSUME IInv, pc \in Running, NEW content \in Sound, NEW next \in Running,
         Request(Becomes(content), next),
         TheirTabs' = [TheirTabs EXCEPT ![job.tab] = Seen(content)] => Store!Rewrite
  PROVE  [Store!Next]_(Store!vars)
<1>1. UNCHANGED job /\ pc' \in {next, "failed"} /\ (tabs' = tabs \/ tabs' = Becomes(content))
  BY RequestLeaves
<1>2. TheirTabs' = TheirTabs \/ Store!Rewrite
  BY <1>1, Unmoved, ShownFacts
<1> QED
  BY <1>1, <1>2, RequestImplements

\* A request that dresses the target.
LEMMA DressImplements ==
  ASSUME IInv, pc \in Running, NEW range \in Dressing, NEW next \in Running \cup {"done"},
         Target \in Sound, Target.expenses = job.rows, ~Target.typed, Target.panel = job.balances,
         UNCHANGED job, pc' \in {next, "failed"},
         tabs' = tabs \/ tabs' = Becomes(Dressed(Target, range))
  PROVE  [Store!Next]_(Store!vars)
<1>1. Dressed(Target, range) \in Sound /\ Seen(Dressed(Target, range)) = Seen(Target)
  <2>1. Target \in Content /\ Target.dressed \cup {range} \in SUBSET Dressing
    BY DEF Sound, Content, Dressing
  <2> QED
    <3>1. /\ Dressed(Target, range) \in Sound
          /\ Dressed(Target, range) = [Target EXCEPT !.dressed = Target.dressed \cup {range}]
      BY InACall, RegionFacts
    <3>2. \A d \in SUBSET Dressing : Seen([Target EXCEPT !.dressed = d]) = Seen(Target)
      BY <2>1, SeenChanges
    <3>3. Seen([Target EXCEPT !.dressed = Target.dressed \cup {range}]) = Seen(Target)
      BY <2>1, <3>2
    <3> QED
      BY <3>1, <3>3
<1>2. TheirTabs' = TheirTabs
  BY <1>1, Unmoved, ShownFacts DEF TheirTabs
<1>3. CASE pc' = "done"
  BY <1>2, <1>3, ReturnImplements
<1>4. CASE pc' # "done"
  BY <1>2, <1>4, RequestImplements
<1> QED
  BY <1>3, <1>4

LEMMA AddImplements == IInv /\ Add => [Store!Next]_(Store!vars)
<1> SUFFICES ASSUME IInv, Add PROVE [Store!Next]_(Store!vars)
  OBVIOUS
<1>1. pc = "add" /\ pc \in Running /\ "grid" \in Running /\ Target = Absent
  BY DEF Add, Running, IInv, TargetSoFar
<1>2. ASSUME TheirTabs' = [TheirTabs EXCEPT ![job.tab] = Seen(NewSheet)] PROVE Store!Rewrite
  <2>1. TheirTabs[job.tab] = Absent
    BY <1>1, ShownFacts, SeenFacts
  <2> QED
    BY <1>2, <2>1, SeenFacts DEF Store!Rewrite, Store!Old, Store!Holds, TheirTabs
<1> QED
  BY <1>1, <1>2, NewSheetFacts, RegionImplements DEF Add

LEMMA GridImplements == IInv /\ Grid => [Store!Next]_(Store!vars)
<1> SUFFICES ASSUME IInv, Grid PROVE [Store!Next]_(Store!vars)
  OBVIOUS
<1>1. pc = "grid" /\ pc \in Running /\ "clear" \in Running /\ Target = NewSheet
  BY DEF Grid, Running, IInv, TargetSoFar
<1>2. PICK content \in WithGrid(NewSheet) : Request(Becomes(content), "clear")
  BY <1>1 DEF Grid
<1>3. /\ content \in Sound
      /\ Seen(content) = [NewSheet EXCEPT !.expenses = job.rows, !.typed = job.rows # {},
                                          !.panel = job.balances]
  BY <1>1, <1>2, InACall, GridFacts, SeenDraft
<1>4. ASSUME TheirTabs' = [TheirTabs EXCEPT ![job.tab] = Seen(content)] PROVE Store!Rewrite
  <2>1. TheirTabs[job.tab] = NewSheet
    BY <1>1, ShownFacts, SeenFacts
  <2> QED
    BY <1>3, <1>4, <2>1 DEF Store!Rewrite, Store!Old, Store!Holds, TheirTabs
<1> QED
  BY <1>1, <1>2, <1>3, <1>4, RegionImplements

LEMMA ClearExpensesImplements == IInv /\ ClearExpenses => [Store!Next]_(Store!vars)
<1> SUFFICES ASSUME IInv, ClearExpenses PROVE [Store!Next]_(Store!vars)
  OBVIOUS
<1> DEFINE content == WithoutExpenses(Target)
           next == IF job.rows # {} THEN "fill" ELSE AfterExpenses
<1>1. pc = "clear" /\ pc \in Running /\ Target # Absent /\ next \in Running
  BY DEF ClearExpenses, Running, IInv, TargetSoFar, AfterExpenses
<1>2. /\ Target \in Sound /\ Target \in Content /\ content \in Sound
      /\ content = [Target EXCEPT !.expenses = {}, !.typed = FALSE]
  BY <1>1, InACall, RegionFacts, DressingFacts DEF Sound
<1>3. ASSUME TheirTabs' = [TheirTabs EXCEPT ![job.tab] = Seen(content)] PROVE Store!Rewrite
  <2>1. /\ TheirTabs[job.tab] = Seen(Target) /\ Seen(Target) # Absent
        /\ Seen(content) = [Seen(Target) EXCEPT !.expenses = {}, !.typed = FALSE]
    BY <1>1, <1>2, ShownFacts, SeenFacts, SeenChanges
  <2> QED
    BY <1>3, <2>1 DEF Store!Rewrite, Store!Old, Store!Holds, TheirTabs
<1>4. Request(Becomes(content), next)
  BY DEF ClearExpenses
<1> QED
  BY <1>1, <1>2, <1>3, <1>4, RegionImplements

LEMMA FillExpensesImplements == IInv /\ FillExpenses => [Store!Next]_(Store!vars)
<1> SUFFICES ASSUME IInv, FillExpenses PROVE [Store!Next]_(Store!vars)
  OBVIOUS
<1>1. /\ pc = "fill" /\ pc \in Running /\ AfterExpenses \in Running
      /\ Target # Absent /\ Target.expenses = {} /\ ~Target.typed
  BY DEF FillExpenses, Running, IInv, TargetSoFar, AfterExpenses
<1>2. PICK content \in WithExpenses(Target) : Request(Becomes(content), AfterExpenses)
  BY DEF FillExpenses
<1>3. /\ Target \in Content /\ content \in Sound
      /\ content = [Target EXCEPT !.expenses = job.rows] /\ job.rows \in SUBSET Row
  BY <1>1, <1>2, InACall, FillFacts DEF Sound, Row
<1>4. ASSUME TheirTabs' = [TheirTabs EXCEPT ![job.tab] = Seen(content)] PROVE Store!Rewrite
  <2>1. /\ TheirTabs[job.tab] = Seen(Target) /\ Seen(Target) # Absent
        /\ Seen(Target).expenses = {} /\ ~Seen(Target).typed
        /\ Seen(content) = [Seen(Target) EXCEPT !.expenses = job.rows]
    BY <1>1, <1>3, ShownFacts, SeenFacts, SeenChanges
  <2> QED
    BY <1>4, <2>1 DEF Store!Rewrite, Store!Old, Store!Holds, TheirTabs
<1> QED
  BY <1>1, <1>2, <1>3, <1>4, RegionImplements

\* The two requests that rewrite the panel come when the block is right.
LEMMA PanelImplements ==
  ASSUME IInv, WipePanel \/ RefillPanel
  PROVE  [Store!Next]_(Store!vars)
<1>1. /\ pc \in {"wipe", "refill"} /\ pc \in Running /\ "refill" \in Running /\ "format" \in Running
      /\ Target # Absent /\ Target.expenses = job.rows /\ ~Target.typed
      /\ pc = "refill" => Target.panel = NoPanel
  BY DEF WipePanel, RefillPanel, Running, IInv, TargetSoFar
<1>2. Target \in Sound /\ Target \in Content /\ job \in Job /\ job.balances \in Panel
  BY <1>1, InACall DEF Sound, Job
<1>3. /\ TheirTabs[job.tab] = Seen(Target) /\ Store!BlockIsRight
      /\ pc = "refill" => Store!Old.panel = NoPanel
  <2>1. TheirTabs[job.tab] = Seen(Target)
    BY <1>1, ShownFacts
  <2> QED
    BY <1>1, <1>2, <2>1, SeenFacts DEF Store!BlockIsRight, Store!Old, TheirTabs
<1>4. CASE WipePanel
  <2>1. WithoutPanel(Target) \in Sound /\ Seen(WithoutPanel(Target)) = [Seen(Target) EXCEPT !.panel = NoPanel]
    <3>1. WithoutPanel(Target) \in Sound /\ WithoutPanel(Target) = [Target EXCEPT !.panel = NoPanel]
      BY <1>2, RegionFacts, DressingFacts
    <3> QED
      BY <1>2, <3>1, SeenChanges
  <2>2. ASSUME TheirTabs' = [TheirTabs EXCEPT ![job.tab] = Seen(WithoutPanel(Target))]
        PROVE  Store!Rewrite
    BY <1>3, <2>1, <2>2 DEF Store!Rewrite, Store!Old, Store!Holds, TheirTabs
  <2> QED
    BY <1>1, <1>4, <2>1, <2>2, RegionImplements DEF WipePanel
<1>5. CASE RefillPanel
  <2>1. /\ pc = "refill"
        /\ WithPanel(Target) \in Sound
        /\ Seen(WithPanel(Target)) = [Seen(Target) EXCEPT !.panel = job.balances]
    <3>1. pc = "refill" /\ Target.panel = NoPanel
      BY <1>1, <1>5 DEF RefillPanel
    <3>2. WithPanel(Target) \in Sound /\ WithPanel(Target) = [Target EXCEPT !.panel = job.balances]
      BY <1>2, <3>1, PanelFacts
    <3> QED
      <4>1. \A p \in Panel \cup {NoPanel} :
              Seen([Target EXCEPT !.panel = p]) = [Seen(Target) EXCEPT !.panel = p]
        BY <1>2, SeenChanges
      <4>2. Seen([Target EXCEPT !.panel = job.balances])
              = [Seen(Target) EXCEPT !.panel = job.balances]
        BY <1>2, <4>1
      <4> QED
        BY <3>1, <3>2, <4>2
  <2>2. ASSUME TheirTabs' = [TheirTabs EXCEPT ![job.tab] = Seen(WithPanel(Target))]
        PROVE  Store!Rewrite
    BY <1>3, <2>1, <2>2 DEF Store!Rewrite, Store!Old, Store!Holds, TheirTabs
  <2> QED
    BY <1>1, <1>5, <2>1, <2>2, RegionImplements DEF RefillPanel
<1> QED
  BY <1>4, <1>5

\* The merges and formats of a creation, and the format that ends a refresh.
LEMMA LastImplements ==
  ASSUME IInv, Dress \/ FormatPanel
  PROVE  [Store!Next]_(Store!vars)
<1>1. /\ pc \in {"dress", "format"} /\ pc \in Running /\ "dress" \in Running
      /\ Target # Absent /\ Target.expenses = job.rows /\ ~Target.typed
      /\ Target.panel = job.balances
  BY DEF Dress, FormatPanel, Running, IInv, TargetSoFar, PathTaken
<1>2. Target \in Sound
  BY <1>1, InACall
<1>3. CASE Dress
  <2> DEFINE effect == Becomes(Dressed(Target, DressCalls[dressing]))
             next == IF dressing < Len(DressCalls) THEN "dress" ELSE "done"
  <2>1. DressCalls[dressing] \in Dressing
    BY DressingFacts DEF IInv, TypeOK
  <2>2. UNCHANGED job /\ pc' \in {next, "failed"} /\ (tabs' = tabs \/ tabs' = effect)
    BY <1>3, RaisesFacts DEF Dress, Answered
  <2> QED
    BY <1>1, <1>2, <2>1, <2>2, DressImplements
<1>4. CASE FormatPanel
  <2>1. /\ UNCHANGED job /\ pc' \in {"done", "failed"}
        /\ tabs' = tabs \/ tabs' = Becomes(Dressed(Target, PanelFormat))
    BY <1>4, RequestLeaves DEF FormatPanel
  <2> QED
    BY <1>1, <1>2, <2>1, DressingFacts, DressImplements
<1> QED
  BY <1>3, <1>4

LEMMA TypeImplements ==
  ASSUME IInv, NEW t \in Tab, NEW c \in Category, HandType(t, c)
  PROVE  Store!Type(t, c)
<1>1. tabs \in [Tab -> Content \cup {Absent}] /\ tabs[t] \in Content
  BY DEF HandType, IInv, TypeOK
<1>2. /\ tabs' = [tabs EXCEPT ![t] = [tabs[t] EXCEPT !.shared = tabs[t].shared \cup {c}]]
      /\ UNCHANGED <<pc, job>>
  BY <1>1 DEF HandType
<1> DEFINE content == [tabs[t] EXCEPT !.shared = tabs[t].shared \cup {c}]
<1>3. content \in Content
  BY <1>1 DEF Content
<1>4. Seen(content) = [Seen(tabs[t]) EXCEPT !.shared = Seen(tabs[t]).shared \cup {c}]
  BY <1>1, <1>3, MarkersAreFresh DEF Seen, Content
<1>5. TheirTabs[t] # Absent /\ TheirTabs[t] = Seen(tabs[t])
  BY <1>1, SeenFacts DEF TheirTabs
<1>6. TheirTabs' = [TheirTabs EXCEPT ![t].shared = TheirTabs[t].shared \cup {c}]
  <2>1. \A u \in Tab : TheirTabs'[u] = IF u = t THEN Seen(content) ELSE TheirTabs[u]
    BY <1>1, <1>2 DEF TheirTabs
  <2>2. TheirTabs' = [TheirTabs EXCEPT ![t] = Seen(content)]
    BY <2>1 DEF TheirTabs
  <2> QED
    BY <1>4, <1>5, <2>2 DEF TheirTabs
<1>7. State' = State
  BY <1>2 DEF State
<1> QED
  BY <1>2, <1>5, <1>6, <1>7 DEF Store!Type, TheirTabs

LEMMA AskImplements ==
  ASSUME IInv, NEW t \in Tab, NEW R \in Batch, NEW p \in Panel, Write(t, R, p)
  PROVE  Store!Ask(t, R, p)
<1>1. State # "asked"
  BY StateFacts DEF Write, AtRest
<1>2. TheirTabs' = TheirTabs
  BY Unmoved DEF Write
<1>3. CASE Cardinality(R) > MaxExpenseRows
  <2>1. State' = "raised"
    BY <1>3, StateFactsPrimed DEF Write
  <2> QED
    BY <1>1, <1>2, <1>3, <2>1 DEF Write, Store!Ask, TheirTabs
<1>4. CASE ~(Cardinality(R) > MaxExpenseRows)
  <2>1. State' = "asked"
    BY <1>4, StateFactsPrimed DEF Write, Running
  <2> QED
    BY <1>1, <1>2, <1>4, <2>1 DEF Write, Store!Ask, TheirTabs
<1> QED
  BY <1>3, <1>4

LEMMA InitImplements == Init => Store!Init
<1> SUFFICES ASSUME Init PROVE Store!Init
  OBVIOUS
<1>1. State = "idle"
  BY StateFacts DEF Init
<1>2. TheirTabs = [t \in Tab |-> Absent]
  BY SeenFacts DEF Init, TheirTabs
<1> QED
  BY <1>1, <1>2 DEF Init, Store!Init, TheirTabs

LEMMA NextImplements == IInv /\ [Next]_vars => [Store!Next]_(Store!vars)
<1> SUFFICES ASSUME IInv, [Next]_vars PROVE [Store!Next]_(Store!vars)
  OBVIOUS
<1>1. CASE Open
  <2>1. /\ pc \in Running /\ "resolve" \in Running
        /\ tabs' = tabs /\ pc' \in {"resolve", "failed"} /\ job' = job
    BY <1>1, RaisesFacts DEF Open, Request, Answered, Raise, Running
  <2> QED
    BY <2>1, Unmoved, RequestImplements
<1>2. CASE Resolve
  <2>1. /\ pc \in Running /\ {"add", "clear"} \subseteq Running
        /\ tabs' = tabs /\ pc' \in {"add", "clear", "failed"} /\ job' = job
    BY <1>2, RaisesFacts DEF Resolve, Answered, Running
  <2> QED
    BY <2>1, Unmoved, RequestImplements
<1>3. CASE Step /\ ~Open /\ ~Resolve
  BY <1>3, AddImplements, GridImplements, ClearExpensesImplements, FillExpensesImplements,
     PanelImplements, LastImplements DEF Step
<1>4. CASE ProcessEnds
  <2>1. State # "idle" /\ State' = "idle"
    BY <1>4, StateFacts, StateFactsPrimed DEF ProcessEnds, IInv, TypeOK, AtRest
  <2>2. Store!Forget
    BY <1>4, <2>1, Unmoved DEF ProcessEnds, Store!Forget, TheirTabs
  <2> QED
    BY <2>2 DEF Store!Next
<1>5. CASE \/ \E t \in Tab, R \in Batch, p \in Panel : Write(t, R, p)
           \/ \E t \in Tab, c \in Category : HandType(t, c)
  BY <1>5, AskImplements, TypeImplements DEF Store!Next
<1>6. CASE UNCHANGED vars
  BY <1>6 DEF vars, Store!vars, State
<1> QED
  BY <1>1, <1>2, <1>3, <1>4, <1>5, <1>6 DEF Next

\* LayoutWriter implements LayoutStore: the account holder and the callers of write see
\* regions that are emptied and then filled, whichever path the write takes, whatever
\* becomes of its requests, and whenever he types.
THEOREM WriterKeepsItsPromise == Spec => KeepsItsPromise
<1>1. IInv /\ [Next]_vars => [Store!Next]_(Store!vars)
  BY NextImplements
<1> QED
  BY <1>1, InitImplements, InductiveInvariant, PTL DEF Spec, KeepsItsPromise, Store!Spec
=============================================================================
