------------------------- MODULE SheetsWriterProofs -------------------------
(***************************************************************************)
(* What SheetsWriter promises, proved for every set of tabs, batches and   *)
(* statuses.  The inductive invariant is IInv: a tab holds one whole write *)
(* or nothing, and the values are sent only when the target tab is blank.  *)
(***************************************************************************)
EXTENDS SheetsWriter, FiniteSetTheorems, TLAPS

\* The two facts callers rely on, with the reason they hold (UpdatesABlankTab).
IInv ==
  /\ TypeOK
  /\ WrittenIsExact
  /\ NeverAMixture
  /\ UpdatesABlankTab

-----------------------------------------------------------------------------
\* Over a blank tab the update leaves exactly what it sent.
LEMMA OverlayOnBlank ==
  ASSUME NEW R, NEW content \in Overlay(Blank, R)
  PROVE  content = Table(R)
<1>1. PICK rest \in SUBSET Blank.rows : content = Table(R \cup rest)
  BY DEF Overlay
<1>2. rest = {}
  BY <1>1 DEF Blank
<1>3. R \cup rest = R
  BY <1>2
<1> QED
  BY <1>1, <1>3

\* Blank tabs and tables of a batch are contents.
LEMMA ContentFacts ==
  /\ Blank \in Content
  /\ \A b \in Batch : Table(b) \in Content
  /\ \A b \in Batch : Table(b) # Blank
  /\ Absent \notin Content
<1>1. \A b \in Batch : b \subseteq Row
  BY DEF Row
<1> QED
  BY <1>1, AbsentIsNoTab DEF Blank, Table, Content, Row

\* Translating a status gives one of the documented classes.
LEMMA TranslateIsDocumented ==
  \A s \in Status : Translate(s) \in Errors
BY DEF Translate, Errors, Documented

\* A request that raises ends the write, with its effect there or not.
LEMMA RaisesFacts ==
  ASSUME NEW effect, NEW translated \in BOOLEAN, Raises(effect, translated)
  PROVE  /\ tabs' = tabs \/ tabs' = effect
         /\ pc' = "failed"
         /\ job' = job
         /\ err' \in Errors
<1>1. CASE \E s \in Status :
             /\ tabs' \in (IF s >= 500 THEN {tabs, effect} ELSE {tabs})
             /\ Raise(IF translated THEN Translate(s) ELSE "gspread.APIError")
  BY <1>1, TranslateIsDocumented DEF Raise, Errors
<1>2. CASE tabs' \in {tabs, effect} /\ Raise("other")
  BY <1>2 DEF Raise, Errors
<1> QED
  BY <1>1, <1>2 DEF Raises
-----------------------------------------------------------------------------
LEMMA InitIInv == Init => IInv
<1> SUFFICES ASSUME Init PROVE IInv
  OBVIOUS
<1>1. TypeOK
  BY ContentFacts DEF Init, TypeOK, AtRest, Errors
<1>2. NeverAMixture
  BY DEF Init, NeverAMixture
<1> QED
  BY <1>1, <1>2 DEF Init, IInv, WrittenIsExact, UpdatesABlankTab

\* A step that puts Blank, or the whole batch of the job, in the target tab, or
\* changes nothing, keeps every tab a single write.
LEMMA OneTabChanges ==
  ASSUME IInv, pc \in Running,
         tabs' = tabs \/ tabs' = Becomes(Blank) \/ tabs' = Becomes(Table(job.rows))
  PROVE  /\ tabs' \in [Tab -> Content \cup {Absent}]
         /\ NeverAMixture'
<1>1. job \in Job
  BY DEF IInv, TypeOK, Running
<1>2. job.tab \in Tab /\ job.rows \in Batch
  BY <1>1 DEF Job
<1>3. tabs \in [Tab -> Content \cup {Absent}]
  BY DEF IInv, TypeOK
<1>4. NeverAMixture
  BY DEF IInv
<1>5. CASE tabs' = tabs
  BY <1>3, <1>4, <1>5 DEF NeverAMixture
<1>6. CASE tabs' = Becomes(Blank)
  BY <1>2, <1>3, <1>4, <1>6, ContentFacts DEF Becomes, NeverAMixture
<1>7. CASE tabs' = Becomes(Table(job.rows))
  BY <1>2, <1>3, <1>4, <1>7, ContentFacts DEF Becomes, NeverAMixture
<1> QED
  BY <1>5, <1>6, <1>7

\* A request that raises, whatever became of its effect, keeps the invariant.
LEMMA RaisesKeepsIInv ==
  ASSUME IInv, pc \in Running, NEW effect, NEW translated \in BOOLEAN,
         effect \in {tabs, Becomes(Blank), Becomes(Table(job.rows))},
         Raises(effect, translated)
  PROVE  IInv'
<1>1. /\ tabs' = tabs \/ tabs' = effect
      /\ pc' = "failed" /\ job' = job /\ err' \in Errors
  BY RaisesFacts
<1>2. tabs' \in [Tab -> Content \cup {Absent}] /\ NeverAMixture'
  BY <1>1, OneTabChanges
<1>3. job \in Job
  BY DEF IInv, TypeOK, Running
<1> QED
  BY <1>1, <1>2, <1>3 DEF IInv, TypeOK, AtRest, WrittenIsExact, UpdatesABlankTab

LEMMA NextIInv == IInv /\ [Next]_vars => IInv'
<1> SUFFICES ASSUME IInv, [Next]_vars PROVE IInv'
  OBVIOUS
<1> USE DEF Running, AtRest
<1>1. CASE \E t \in Tab, R \in Batch : Write(t, R)
  <2>1. PICK t \in Tab, R \in Batch : Write(t, R)
    BY <1>1
  <2>2. job' \in Job
    BY <2>1 DEF Write, Job
  <2>3. TypeOK'
    BY <2>1, <2>2 DEF Write, IInv, TypeOK, Errors
  <2> QED
    BY <2>1, <2>3 DEF Write, IInv, WrittenIsExact, UpdatesABlankTab, NeverAMixture
<1>2. CASE Open
  <2>0. pc = "open"
    BY <1>2 DEF Open
  <2>1. CASE Answered(tabs, "resolve")
    BY <2>0, <2>1 DEF Answered, IInv, TypeOK, WrittenIsExact, UpdatesABlankTab, NeverAMixture
  <2>2. CASE Raises(tabs, TRUE)
    BY <2>0, <2>2, RaisesKeepsIInv
  <2>3. CASE \/ Raise("SheetsConfigError") /\ UNCHANGED tabs
             \/ Raise("SheetsAccessError") /\ UNCHANGED tabs
    BY <2>0, <2>3 DEF Raise, IInv, TypeOK, WrittenIsExact, UpdatesABlankTab,
                      NeverAMixture, Errors, Documented
  <2> QED
    BY <1>2, <2>1, <2>2, <2>3 DEF Open
<1>3. CASE Resolve
  <2>0. pc = "resolve"
    BY <1>3 DEF Resolve
  <2>1. CASE Answered(tabs, IF tabs[job.tab] = Absent THEN "add" ELSE "clear")
    BY <2>0, <2>1 DEF Answered, IInv, TypeOK, WrittenIsExact, UpdatesABlankTab, NeverAMixture
  <2>2. CASE Raises(tabs, FALSE)
    BY <2>0, <2>2, RaisesKeepsIInv
  <2> QED
    BY <1>3, <2>1, <2>2 DEF Resolve
<1>4. ASSUME pc \in {"clear", "add"},
             \/ Answered(Becomes(Blank), "update")
             \/ \E translated \in BOOLEAN : Raises(Becomes(Blank), translated)
      PROVE  IInv'
  <2>1. CASE Answered(Becomes(Blank), "update")
    <3>1. tabs' \in [Tab -> Content \cup {Absent}] /\ NeverAMixture'
      BY <1>4, <2>1, OneTabChanges DEF Answered
    <3>2. job \in Job /\ job.tab \in Tab
      BY <1>4 DEF IInv, TypeOK, Job
    <3>3. tabs'[job'.tab] = Blank
      BY <2>1, <3>2 DEF Answered, Becomes, IInv, TypeOK
    <3> QED
      BY <2>1, <3>1, <3>2, <3>3 DEF Answered, IInv, TypeOK, WrittenIsExact, UpdatesABlankTab
  <2>2. CASE \E translated \in BOOLEAN : Raises(Becomes(Blank), translated)
    BY <1>4, <2>2, RaisesKeepsIInv
  <2> QED
    BY <1>4, <2>1, <2>2
<1>5. CASE Clear
  BY <1>4, <1>5 DEF Clear
<1>6. CASE Add
  <2>1. CASE tabs[job.tab] # Absent /\ Raises(tabs, TRUE)
    BY <1>6, <2>1, RaisesKeepsIInv DEF Add
  <2> QED
    BY <1>4, <1>6, <2>1 DEF Add
<1>7. CASE Update
  <2>0. pc = "update" /\ tabs[job.tab] = Blank
    BY <1>7 DEF Update, IInv, UpdatesABlankTab
  <2>1. PICK content \in Overlay(Blank, job.rows) :
          \/ Answered(Becomes(content), "done")
          \/ Raises(Becomes(content), TRUE)
    BY <1>7, <2>0 DEF Update
  <2>2. content = Table(job.rows)
    BY <2>1, OverlayOnBlank
  <2>3. CASE Answered(Becomes(Table(job.rows)), "done")
    <3>1. tabs' \in [Tab -> Content \cup {Absent}] /\ NeverAMixture'
      BY <2>0, <2>3, OneTabChanges DEF Answered
    <3>2. job \in Job /\ job.tab \in Tab
      BY <2>0 DEF IInv, TypeOK, Job
    <3>3. tabs'[job'.tab] = Table(job'.rows)
      BY <2>3, <3>2 DEF Answered, Becomes, IInv, TypeOK
    <3> QED
      BY <2>3, <3>1, <3>2, <3>3 DEF Answered, IInv, TypeOK, WrittenIsExact, UpdatesABlankTab
  <2>4. CASE Raises(Becomes(Table(job.rows)), TRUE)
    BY <2>0, <2>4, RaisesKeepsIInv
  <2> QED
    BY <2>1, <2>2, <2>3, <2>4
<1>8. CASE ProcessEnds
  BY <1>8 DEF ProcessEnds, Errors, IInv, TypeOK, WrittenIsExact, UpdatesABlankTab, NeverAMixture
<1>9. CASE UNCHANGED vars
  BY <1>9 DEF vars, IInv, TypeOK, WrittenIsExact, UpdatesABlankTab, NeverAMixture
<1> QED
  BY <1>1, <1>2, <1>3, <1>5, <1>6, <1>7, <1>8, <1>9 DEF Next, Step

-----------------------------------------------------------------------------
\* What RowsAreLostOnlyToTheirWriter says of one step.
RowsOnlyLostByTheirWriter ==
  \A t \in Tab :
    (tabs[t] # Absent /\ tabs'[t] # tabs[t] /\ tabs[t] # Blank)
      => /\ t = job.tab
         /\ tabs'[t] = Blank
         /\ pc' # "done"

\* A step that blanks the target tab, or leaves the document, and does not end
\* the write well, loses rows of the target tab only.
LEMMA BlankingIsLocal ==
  ASSUME TypeOK, pc \in Running, pc' # "done",
         tabs' = tabs \/ tabs' = Becomes(Blank)
  PROVE  RowsOnlyLostByTheirWriter
<1>1. tabs \in [Tab -> Content \cup {Absent}] /\ job \in Job
  BY DEF TypeOK, Running
<1>2. \A t \in Tab : t # job.tab => tabs'[t] = tabs[t]
  BY <1>1 DEF Becomes
<1>3. tabs'[job.tab] = tabs[job.tab] \/ tabs'[job.tab] = Blank
  BY <1>1 DEF Becomes, Job
<1> QED
  BY <1>2, <1>3 DEF RowsOnlyLostByTheirWriter

LEMMA NextLosesLocally == IInv /\ [Next]_vars => RowsOnlyLostByTheirWriter
<1> SUFFICES ASSUME IInv, [Next]_vars PROVE RowsOnlyLostByTheirWriter
  OBVIOUS
<1>0. TypeOK
  BY DEF IInv
<1>1. CASE UNCHANGED tabs
  BY <1>1 DEF RowsOnlyLostByTheirWriter
<1>2. CASE Open
  <2>1. pc' # "done" /\ tabs' = tabs
    BY <1>2, RaisesFacts DEF Open, Answered, Raise
  <2> QED
    BY <1>1, <2>1
<1>3. CASE Resolve
  <2>1. CASE Raises(tabs, FALSE)
    BY <1>1, <2>1, RaisesFacts
  <2> QED
    BY <1>1, <1>3, <2>1 DEF Resolve, Answered
<1>4. ASSUME pc \in {"clear", "add"},
             \/ Answered(Becomes(Blank), "update")
             \/ \E translated \in BOOLEAN : Raises(Becomes(Blank), translated)
             \/ Raises(tabs, TRUE)
      PROVE  RowsOnlyLostByTheirWriter
  <2>1. pc' # "done" /\ (tabs' = tabs \/ tabs' = Becomes(Blank))
    BY <1>4, RaisesFacts DEF Answered
  <2> QED
    BY <1>0, <1>4, <2>1, BlankingIsLocal DEF Running
<1>5. CASE Clear
  BY <1>4, <1>5 DEF Clear
<1>6. CASE Add
  BY <1>4, <1>6 DEF Add
<1>7. CASE Update
  <2>1. tabs[job.tab] = Blank /\ pc = "update"
    BY <1>7 DEF Update, IInv, UpdatesABlankTab
  <2>2. tabs \in [Tab -> Content \cup {Absent}] /\ job \in Job
    BY <1>0, <2>1 DEF TypeOK, Running
  <2>3. PICK content : \/ Answered(Becomes(content), "done")
                       \/ Raises(Becomes(content), TRUE)
    BY <1>7 DEF Update
  <2>4. tabs' = tabs \/ tabs' = Becomes(content)
    BY <2>3, RaisesFacts DEF Answered
  <2>5. \A t \in Tab : t # job.tab => tabs'[t] = tabs[t]
    BY <2>2, <2>4 DEF Becomes
  <2> QED
    BY <2>1, <2>5 DEF RowsOnlyLostByTheirWriter
<1> QED
  BY <1>1, <1>2, <1>3, <1>5, <1>6, <1>7 DEF Next, Step, Write, ProcessEnds, vars

-----------------------------------------------------------------------------
(* The writer implements TabStore: what its callers see of a call. *)

\* What the store shows of the writer, request by request.
LEMMA StateFacts ==
  /\ pc \in {"open", "resolve", "clear", "add"} => State = "asked"
  /\ pc = "update" => State = "emptied"
  /\ pc = "done" => State = "returned"
  /\ pc = "failed" => State = "raised"
  /\ pc = "idle" => State = "idle"
BY DEF State

\* Before the update a request does nothing that shows, or empties the tab.
LEMMA AskedImplements ==
  ASSUME pc \in {"open", "resolve", "clear", "add"},
         NEW effect \in {tabs, Becomes(Blank)}, UNCHANGED job,
         \/ /\ effect = tabs /\ tabs' = tabs
            /\ pc' \in {"resolve", "clear", "add"}
         \/ tabs' = Becomes(Blank) /\ pc' = "update"
         \/ tabs' \in {tabs, effect} /\ pc' = "failed"
  PROVE  [Store!Next]_(Store!vars)
<1>1. State = "asked"
  BY StateFacts
<1>2. CASE tabs' = tabs /\ pc' \in {"resolve", "clear", "add"}
  <2>1. State' = "asked"
    BY <1>2 DEF State
  <2> QED
    BY <1>1, <1>2, <2>1 DEF Store!vars
<1>3. CASE tabs' = Becomes(Blank) /\ pc' = "update"
  <2>1. State' = "emptied"
    BY <1>3 DEF State
  <2>2. Store!EmptyTab
    BY <1>1, <1>3, <2>1 DEF Store!EmptyTab, Store!Holds, Becomes
  <2> QED
    BY <2>2 DEF Store!Next
<1>4. CASE tabs' \in {tabs, effect} /\ pc' = "failed"
  <2>1. State' = "raised"
    BY <1>4 DEF State
  <2>2. Store!GiveUp
    BY <1>1, <1>4, <2>1 DEF Store!GiveUp, Store!Holds, Becomes
  <2> QED
    BY <2>2 DEF Store!Next
<1> QED
  BY <1>2, <1>3, <1>4

\* The update finds the tab blank, so that what it lays over it is the batch.
LEMMA UpdateImplements ==
  ASSUME IInv, Update
  PROVE  [Store!Next]_(Store!vars)
<1>0. pc = "update" /\ tabs[job.tab] = Blank /\ job.rows \in Batch
  BY DEF Update, IInv, TypeOK, UpdatesABlankTab, Running, Job
<1>1. State = "emptied"
  BY <1>0, StateFacts
<1>2. PICK content \in Overlay(Blank, job.rows) :
        \/ Answered(Becomes(content), "done")
        \/ Raises(Becomes(content), TRUE)
  BY <1>0 DEF Update
<1>3. content = [b \in Batch |-> Table(b)][job.rows]
  BY <1>0, <1>2, OverlayOnBlank
<1>4. CASE Answered(Becomes(content), "done")
  <2>1. State' = "returned"
    BY <1>4 DEF State, Answered
  <2>2. Store!Return
    BY <1>0, <1>1, <1>3, <1>4, <2>1 DEF Store!Return, Store!Holds, Becomes, Answered
  <2> QED
    BY <2>2 DEF Store!Next
<1>5. CASE Raises(Becomes(content), TRUE)
  <2>1. pc' = "failed" /\ UNCHANGED job /\ (tabs' = tabs \/ tabs' = Becomes(content))
    BY <1>5, RaisesFacts
  <2>2. State' = "raised"
    BY <2>1 DEF State
  <2>3. Store!GiveUp
    BY <1>0, <1>1, <1>3, <2>1, <2>2 DEF Store!GiveUp, Store!Holds, Becomes
  <2> QED
    BY <2>3 DEF Store!Next
<1> QED
  BY <1>2, <1>4, <1>5

LEMMA InitImplements == Init => Store!Init
<1> SUFFICES ASSUME Init PROVE Store!Init
  OBVIOUS
<1>1. \A b \in Batch : [c \in Batch |-> Table(c)][b] = Table(b)
  OBVIOUS
<1>2. tabs \in [Tab -> {Absent, Blank} \cup {[c \in Batch |-> Table(c)][b] : b \in Batch}]
  BY <1>1 DEF Init
<1>3. State = "idle"
  BY StateFacts DEF Init
<1> QED
  BY <1>2, <1>3 DEF Init, Store!Init

LEMMA NextImplements == IInv /\ [Next]_vars => [Store!Next]_(Store!vars)
<1> SUFFICES ASSUME IInv, [Next]_vars PROVE [Store!Next]_(Store!vars)
  OBVIOUS
<1>1. ASSUME NEW t \in Tab, NEW R \in Batch, Write(t, R) PROVE Store!Ask(t, R)
  <2>1. State \in {"idle", "returned", "raised"}
    BY <1>1, StateFacts DEF Write, AtRest
  <2>2. State' = "asked"
    BY <1>1 DEF Write, State
  <2> QED
    BY <1>1, <2>1, <2>2 DEF Write, Store!Ask
<1>2. CASE Open
  <2>1. \/ tabs' = tabs /\ pc' = "resolve" /\ job' = job
        \/ tabs' = tabs /\ pc' = "failed" /\ job' = job
    BY <1>2, RaisesFacts DEF Open, Answered, Raise
  <2> QED
    BY <1>2, <2>1, AskedImplements DEF Open
<1>3. CASE Resolve
  <2>1. tabs' = tabs /\ job' = job /\ pc' \in {"clear", "add", "failed"}
    BY <1>3, RaisesFacts DEF Resolve, Answered
  <2> QED
    BY <1>3, <2>1, AskedImplements DEF Resolve
<1>4. CASE Clear
  <2>1. /\ job' = job
        /\ \/ tabs' = Becomes(Blank) /\ pc' = "update"
           \/ tabs' \in {tabs, Becomes(Blank)} /\ pc' = "failed"
    BY <1>4, RaisesFacts DEF Clear, Answered
  <2> QED
    BY <1>4, <2>1, AskedImplements DEF Clear
<1>5. CASE Add
  <2>1. /\ job' = job
        /\ \/ tabs' = Becomes(Blank) /\ pc' = "update"
           \/ tabs' \in {tabs, Becomes(Blank)} /\ pc' = "failed"
    BY <1>5, RaisesFacts DEF Add, Answered
  <2> QED
    BY <1>5, <2>1, AskedImplements DEF Add
<1>6. CASE Update
  BY <1>6, UpdateImplements
<1>7. CASE ProcessEnds
  <2>1. State # "idle"
    BY <1>7, StateFacts DEF ProcessEnds, IInv, TypeOK, Running, AtRest
  <2>2. State' = "idle"
    BY <1>7 DEF ProcessEnds, State
  <2>3. Store!Forget
    BY <1>7, <2>1, <2>2 DEF ProcessEnds, Store!Forget
  <2> QED
    BY <2>3 DEF Store!Next
<1>8. CASE UNCHANGED vars
  BY <1>8 DEF vars, Store!vars, State
<1> QED
  BY <1>1, <1>2, <1>3, <1>4, <1>5, <1>6, <1>7, <1>8 DEF Next, Step, Store!Next

-----------------------------------------------------------------------------
\* What one request of a running write does, for whoever composes the writer with
\* something else: it addresses the target tab only, which it leaves as it was,
\* blank, or with exactly the rows of the job.
Addresses(contents) ==
  \A t \in Tab : tabs'[t] = tabs[t] \/ (t = job.tab /\ tabs'[t] \in contents)

LEMMA StepFacts ==
  ASSUME IInv, Step
  PROVE  /\ pc \in Running /\ pc' \in (Running \cup {"done", "failed"}) \ {"open"}
         /\ job' = job /\ job \in Job
         /\ Addresses({Blank, Table(job.rows)})
<1>0. /\ pc \in Running
      /\ tabs \in [Tab -> Content \cup {Absent}] /\ job \in Job
  BY DEF Step, Open, Resolve, Clear, Add, Update, Running, IInv, TypeOK
<1>1. ASSUME NEW content, NEW effect \in {tabs, Becomes(content)},
             content \in {Blank, Table(job.rows)},
             \/ \E next \in (Running \cup {"done"}) \ {"open"} : Answered(effect, next)
             \/ \E translated \in BOOLEAN : Raises(effect, translated)
      PROVE  /\ pc' \in (Running \cup {"done", "failed"}) \ {"open"} /\ job' = job
             /\ Addresses({Blank, Table(job.rows)})
  <2>1. /\ pc' \in (Running \cup {"done", "failed"}) \ {"open"} /\ job' = job
        /\ tabs' = tabs \/ tabs' = Becomes(content)
    BY <1>1, RaisesFacts DEF Answered
  <2>2. \A t \in Tab : Becomes(content)[t] = IF t = job.tab THEN content ELSE tabs[t]
    BY <1>0 DEF Becomes
  <2> QED
    BY <1>1, <2>1, <2>2 DEF Addresses
<1>2. CASE Open
  <2>1. CASE \/ Raise("SheetsConfigError") /\ UNCHANGED tabs
             \/ Raise("SheetsAccessError") /\ UNCHANGED tabs
    BY <1>0, <2>1 DEF Raise, Addresses
  <2> QED
    BY <1>0, <1>1, <1>2, <2>1 DEF Open, Running
<1>3. CASE Resolve
  BY <1>0, <1>1, <1>3 DEF Resolve, Running
<1>4. CASE Clear
  BY <1>0, <1>1, <1>4 DEF Clear, Running
<1>5. CASE Add
  BY <1>0, <1>1, <1>5 DEF Add, Running
<1>6. CASE Update
  <2>1. tabs[job.tab] = Blank
    BY <1>6 DEF Update, IInv, UpdatesABlankTab
  <2>2. PICK content \in Overlay(Blank, job.rows) :
          \/ Answered(Becomes(content), "done")
          \/ Raises(Becomes(content), TRUE)
    BY <1>6, <2>1 DEF Update
  <2>3. content = Table(job.rows)
    BY <2>2, OverlayOnBlank
  <2> QED
    BY <1>0, <1>1, <2>2, <2>3 DEF Running
<1> QED
  BY <1>0, <1>2, <1>3, <1>4, <1>5, <1>6 DEF Step

-----------------------------------------------------------------------------
\* The same for a writer that shares its tabs with another one: whatever the tab
\* holds when a request is made, these are the facts that remain.  The tab is one
\* that exists once it was found, since no writer removes a tab.
TabIsFound == pc \in {"clear", "update"} => tabs[job.tab] # Absent

\* The target of a request that ends well: blank before the values are sent, and
\* after them what they make of the tab they were laid over.
TargetIsLeft ==
  /\ pc' = "update" => tabs'[job.tab] = Blank
  /\ pc' = "done" => /\ pc = "update"
                     /\ tabs'[job.tab] \in Overlay(tabs[job.tab], job.rows)

LEMMA SharedStepFacts ==
  ASSUME TypeOK, TabIsFound, Step
  PROVE  /\ pc \in Running /\ pc' \in (Running \cup {"done", "failed"}) \ {"open"}
         /\ job' = job /\ job \in Job /\ err' \in Errors
         /\ tabs' \in [Tab -> Content \cup {Absent}]
         /\ \A t \in Tab : tabs[t] # Absent => tabs'[t] # Absent
         /\ TabIsFound'
         /\ TargetIsLeft
<1>0. /\ pc \in Running /\ job \in Job /\ job.tab \in Tab /\ job.rows \in Batch
      /\ tabs \in [Tab -> Content \cup {Absent}] /\ err \in Errors
  BY DEF Step, Open, Resolve, Clear, Add, Update, Running, TypeOK, Job
<1>1. ASSUME NEW content \in Content, NEW effect \in {tabs, Becomes(content)},
             \E translated \in BOOLEAN : Raises(effect, translated)
      PROVE  /\ pc' = "failed" /\ job' = job /\ err' \in Errors
             /\ tabs' \in [Tab -> Content \cup {Absent}]
             /\ \A t \in Tab : tabs[t] # Absent => tabs'[t] # Absent
  BY <1>0, <1>1, RaisesFacts, ContentFacts DEF Becomes
<1>2. ASSUME NEW content \in Content, NEW next, Answered(Becomes(content), next)
      PROVE  /\ pc' = next /\ job' = job /\ err' \in Errors
             /\ tabs' \in [Tab -> Content \cup {Absent}] /\ tabs'[job.tab] = content
             /\ \A t \in Tab : tabs[t] # Absent => tabs'[t] # Absent
             /\ tabs'[job.tab] # Absent
  BY <1>0, <1>2, ContentFacts DEF Answered, Becomes
<1>3. CASE Open
  <2>1. CASE \/ Raise("SheetsConfigError") /\ UNCHANGED tabs
             \/ Raise("SheetsAccessError") /\ UNCHANGED tabs
    BY <1>0, <2>1 DEF Raise, Errors, Documented, TabIsFound, TargetIsLeft
  <2>2. CASE Answered(tabs, "resolve")
    BY <1>0, <2>2 DEF Answered, Running, TabIsFound, TargetIsLeft
  <2>3. CASE Raises(tabs, TRUE)
    BY <1>0, <1>1, <2>3, ContentFacts DEF TabIsFound, TargetIsLeft
  <2> QED
    BY <1>3, <2>1, <2>2, <2>3 DEF Open
<1>4. CASE Resolve
  <2>1. CASE Raises(tabs, FALSE)
    BY <1>0, <1>1, <2>1, ContentFacts DEF TabIsFound, TargetIsLeft
  <2>2. CASE Answered(tabs, IF tabs[job.tab] = Absent THEN "add" ELSE "clear")
    BY <1>0, <2>2 DEF Answered, Running, TabIsFound, TargetIsLeft
  <2> QED
    BY <1>4, <2>1, <2>2 DEF Resolve
<1>5. CASE Clear \/ Add
  <2>1. CASE Answered(Becomes(Blank), "update")
    BY <1>0, <1>2, <2>1, ContentFacts DEF Running, TabIsFound, TargetIsLeft
  <2>2. CASE \E translated \in BOOLEAN : \/ Raises(Becomes(Blank), translated)
                                         \/ Raises(tabs, translated)
    BY <1>0, <1>1, <2>2, ContentFacts DEF TabIsFound, TargetIsLeft
  <2> QED
    BY <1>5, <2>1, <2>2 DEF Clear, Add
<1>6. CASE Update
  <2>1. PICK content \in Overlay(tabs[job.tab], job.rows) :
          \/ Answered(Becomes(content), "done")
          \/ Raises(Becomes(content), TRUE)
    BY <1>6 DEF Update
  <2>2. pc = "update" /\ content \in Content
    <3>1. pc = "update" /\ tabs[job.tab] \in Content
      BY <1>0, <1>6 DEF Update, TabIsFound
    <3>2. PICK rest \in SUBSET tabs[job.tab].rows : content = Table(job.rows \cup rest)
      BY DEF Overlay
    <3> QED
      BY <1>0, <3>1, <3>2 DEF Content, Table, Row
  <2>3. CASE Answered(Becomes(content), "done")
    BY <1>0, <1>2, <2>1, <2>2, <2>3 DEF TabIsFound, TargetIsLeft
  <2>4. CASE Raises(Becomes(content), TRUE)
    BY <1>0, <1>1, <2>2, <2>4 DEF TabIsFound, TargetIsLeft
  <2> QED
    BY <2>1, <2>3, <2>4
<1> QED
  BY <1>3, <1>4, <1>5, <1>6 DEF Step
-----------------------------------------------------------------------------
\* Every reachable state satisfies the inductive invariant.
THEOREM InductiveInvariant == Spec => []IInv
BY InitIInv, NextIInv, PTL DEF Spec

\* The state of the writer and of the document is always well formed.
THEOREM TypeCorrect == Spec => []TypeOK
BY InductiveInvariant, PTL DEF IInv

\* A write that returned left its header and its rows in its tab, and nothing
\* else, whatever happened to the writes before it.
THEOREM WritesAreExact == Spec => []WrittenIsExact
BY InductiveInvariant, PTL DEF IInv

\* No failure, lost answer or kill ever leaves rows of two writes in one tab.
THEOREM TabsAreNeverMixed == Spec => []NeverAMixture
BY InductiveInvariant, PTL DEF IInv

\* Rows a tab holds are only ever lost to the write that targets it, which
\* leaves the tab blank and has not returned yet.
THEOREM RowsAreLostLocally == Spec => RowsAreLostOnlyToTheirWriter
<1>1. IInv /\ [Next]_vars =>
        [\A t \in Tab :
           (tabs[t] # Absent /\ tabs'[t] # tabs[t] /\ tabs[t] # Blank)
             => /\ t = job.tab
                /\ tabs'[t] = Blank
                /\ pc' # "done"]_vars
  BY NextLosesLocally DEF RowsOnlyLostByTheirWriter
<1> QED
  BY <1>1, InductiveInvariant, PTL DEF Spec, RowsAreLostOnlyToTheirWriter

\* SheetsWriter implements TabStore: its callers see a tab emptied and then filled
\* with the rows of one call, or less, whatever becomes of the requests.
THEOREM WriterKeepsItsPromise == Spec => KeepsItsPromise
<1>1. IInv /\ [Next]_vars => [Store!Next]_(Store!vars)
  BY NextImplements
<1> QED
  BY <1>1, InitImplements, InductiveInvariant, PTL DEF Spec, KeepsItsPromise, Store!Spec
=============================================================================
