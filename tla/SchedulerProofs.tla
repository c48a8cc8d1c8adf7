--------------------------- MODULE SchedulerProofs ---------------------------
(***************************************************************************)
(* What the concurrency group buys, proved for any movements and any       *)
(* number of dispatches, local runs and failures: a run that nobody        *)
(* overlapped left exactly its answers.                                    *)
(*                                                                         *)
(* Two calls of the writer share the tab here, so the writer's own         *)
(* invariant (SheetsWriterProofs, IInv) is lost; what is left of a request *)
(* is SharedStepFacts.  The invariant says for how long a call has the tab *)
(* to itself, and that then it is still blank when the values are sent.    *)
(***************************************************************************)
EXTENDS Scheduler, FiniteSetTheorems, TLAPS

JobP == INSTANCE SheetsWriterProofs WITH Batch <- SUBSET Movement,
          pc <- jobPc, job <- jobJob, err <- jobErr
MyP  == INSTANCE SheetsWriterProofs WITH Batch <- SUBSET Movement,
          pc <- myPc, job <- myJob, err <- myErr

\* No writer removes a tab, so the one a call found stays, whoever writes it.
TabsAreFound ==
  /\ jobPc \in {"clear", "update"} => tabs[TheTab] # Absent
  /\ myPc \in {"clear", "update"} => tabs[TheTab] # Absent

\* While a run counts as alone and is writing, the other one is not.
AloneIsAlone ==
  /\ alone.job /\ jobPc \in Job!Running => myPc \notin My!Running
  /\ alone.my /\ myPc \in My!Running => jobPc \notin Job!Running

\* Then the tab it blanked is still blank when it sends the values.
AloneIsBlank ==
  /\ alone.job /\ jobPc = "update" => tabs[TheTab] = Job!Blank
  /\ alone.my /\ myPc = "update" => tabs[TheTab] = My!Blank

IInv == TypeOK /\ TabsAreFound /\ AloneIsAlone /\ AloneIsBlank
-----------------------------------------------------------------------------
LEMMA TheTabFacts == TheTab \in Tab /\ \A t \in Tab : t = TheTab
BY OneTab DEF TheTab

LEMMA ChargeFacts ==
  faults \in 0..MaxFaults =>
    \A goesWrong \in BOOLEAN : Charge(goesWrong) => faults' \in 0..MaxFaults
BY BoundsAreNat DEF Charge

LEMMA FlagsAreTyped ==
  \A p \in BOOLEAN, q \in BOOLEAN : [job |-> p, my |-> q] \in [{"job", "my"} -> BOOLEAN]
OBVIOUS

LEMMA SubsetsAreFinite == \A S \in SUBSET Movement : IsFiniteSet(S)
BY MovementsAreFinite, FS_Subset

LEMMA JobAssumptions ==
  JobP!BatchIsSets /\ JobP!StatusIsHttp /\ JobP!AbsentIsNoTab /\ JobP!NoJobIsNoJob
<1>1. \A S : JobP!IsFiniteSet(S) <=> IsFiniteSet(S)
  BY DEF JobP!IsFiniteSet, IsFiniteSet
<1>2. JobP!BatchIsSets
  BY <1>1, SubsetsAreFinite DEF JobP!BatchIsSets
<1>3. JobP!StatusIsHttp /\ JobP!AbsentIsNoTab /\ JobP!NoJobIsNoJob
  BY StatusIsHttp, MarkersAreFresh
     DEF JobP!StatusIsHttp, JobP!AbsentIsNoTab, JobP!NoJobIsNoJob, Job!Content, Job!Row, Job!Job
<1> QED
  BY <1>2, <1>3

LEMMA MyAssumptions ==
  MyP!BatchIsSets /\ MyP!StatusIsHttp /\ MyP!AbsentIsNoTab /\ MyP!NoJobIsNoJob
<1>1. \A S : MyP!IsFiniteSet(S) <=> IsFiniteSet(S)
  BY DEF MyP!IsFiniteSet, IsFiniteSet
<1>2. MyP!BatchIsSets
  BY <1>1, SubsetsAreFinite DEF MyP!BatchIsSets
<1>3. MyP!StatusIsHttp /\ MyP!AbsentIsNoTab /\ MyP!NoJobIsNoJob
  BY StatusIsHttp, MarkersAreFresh
     DEF MyP!StatusIsHttp, MyP!AbsentIsNoTab, MyP!NoJobIsNoJob, Job!Content, Job!Row, Job!Job
<1> QED
  BY <1>2, <1>3

\* Both writers speak of the same tabs with the same words.
LEMMA Vocabulary ==
  /\ Job!Content = My!Content /\ Job!Blank = My!Blank /\ Job!Blank \in Job!Content
  /\ \A R \in SUBSET Movement : Job!Table(R) = My!Table(R) /\ Job!Table(R) \in Job!Content
  /\ Absent \notin Job!Content
BY MarkersAreFresh DEF Job!Content, My!Content, Job!Blank, My!Blank, Job!Row, My!Row,
                       Job!Table, My!Table

LEMMA BlankIsOverwritten ==
  /\ \A R : Job!Overlay(Job!Blank, R) \subseteq {Job!Table(R)}
  /\ \A R : My!Overlay(My!Blank, R) \subseteq {My!Table(R)}
<1>1. ASSUME NEW R, NEW content \in Job!Overlay(Job!Blank, R) PROVE content = Job!Table(R)
  <2>1. PICK rest \in SUBSET Job!Blank.rows : content = Job!Table(R \cup rest)
    BY <1>1 DEF Job!Overlay
  <2>2. R \cup rest = R
    BY <2>1 DEF Job!Blank
  <2> QED
    BY <2>1, <2>2
<1>2. ASSUME NEW R, NEW content \in My!Overlay(My!Blank, R) PROVE content = My!Table(R)
  <2>1. PICK rest \in SUBSET My!Blank.rows : content = My!Table(R \cup rest)
    BY <1>2 DEF My!Overlay
  <2>2. R \cup rest = R
    BY <2>1 DEF My!Blank
  <2> QED
    BY <2>1, <2>2
<1> QED
  BY <1>1, <1>2

\* One request of the daily job, whatever the local run does meanwhile.
LEMMA JobRequest ==
  ASSUME IInv, Job!Step
  PROVE  /\ JobP!Step
         /\ jobPc \in Job!Running /\ jobPc' \in Job!Running \cup {"done", "failed"}
         /\ jobJob' = jobJob /\ Job!TypeOK'
         /\ tabs' \in [Tab -> Job!Content \cup {Absent}]
         /\ tabs[TheTab] # Absent => tabs'[TheTab] # Absent
         /\ jobPc' \in {"clear", "update"} => tabs'[TheTab] # Absent
         /\ jobPc' = "update" => tabs'[TheTab] = Job!Blank
         /\ jobPc' = "done" => /\ jobPc = "update"
                               /\ tabs'[TheTab] \in Job!Overlay(tabs[TheTab], jobJob.rows)
<1>1. JobP!Step
  BY DEF Job!Step, JobP!Step, Job!Open, JobP!Open, Job!Resolve, JobP!Resolve, Job!Clear,
         JobP!Clear, Job!Add, JobP!Add, Job!Update, JobP!Update, Job!Answered, JobP!Answered,
         Job!Raises, JobP!Raises, Job!Raise, JobP!Raise, Job!Translate, JobP!Translate,
         Job!Becomes, JobP!Becomes, Job!Overlay, JobP!Overlay, Job!Blank, JobP!Blank,
         Job!Table, JobP!Table, Job!Cardinality, JobP!Cardinality
<1>2. JobP!TypeOK
  BY DEF IInv, TypeOK, JobP!TypeOK, Job!TypeOK, JobP!Content, Job!Content, JobP!Row, Job!Row,
         JobP!Running, Job!Running, JobP!AtRest, Job!AtRest, JobP!Job, Job!Job,
         JobP!Errors, Job!Errors, JobP!Documented, Job!Documented
<1>3. jobPc \in Job!Running
  BY DEF Job!Step, Job!Open, Job!Resolve, Job!Clear, Job!Add, Job!Update, Job!Running
<1>4. jobJob.tab = TheTab
  BY <1>3, TheTabFacts DEF IInv, TypeOK, Job!TypeOK, Job!Job, Job!Running
<1>5. JobP!TabIsFound
  BY <1>4 DEF JobP!TabIsFound, IInv, TabsAreFound
<1>6. /\ jobPc' \in (JobP!Running \cup {"done", "failed"}) \ {"open"}
      /\ jobJob' = jobJob /\ jobJob \in JobP!Job /\ jobErr' \in JobP!Errors
      /\ tabs' \in [Tab -> JobP!Content \cup {Absent}]
      /\ \A t \in Tab : tabs[t] # Absent => tabs'[t] # Absent
      /\ JobP!TabIsFound' /\ JobP!TargetIsLeft
  BY <1>1, <1>2, <1>5, JobAssumptions, JobP!SharedStepFacts DEF JobP!SharedStepFacts
<1>7. JobP!Content = Job!Content /\ JobP!Errors = Job!Errors /\ JobP!Job = Job!Job
  BY DEF JobP!Content, Job!Content, JobP!Row, Job!Row, JobP!Errors, Job!Errors,
         JobP!Documented, Job!Documented, JobP!Job, Job!Job
<1>8. Job!TypeOK'
  BY <1>6, <1>7 DEF Job!TypeOK, JobP!Running, Job!Running, Job!AtRest
<1>10. \A old, R : JobP!Overlay(old, R) = Job!Overlay(old, R)
  BY DEF JobP!Overlay, Job!Overlay, JobP!Table, Job!Table, JobP!Cardinality, Job!Cardinality
<1>9. /\ jobPc' = "update" => tabs'[TheTab] = Job!Blank
      /\ jobPc' = "done" => /\ jobPc = "update"
                            /\ tabs'[TheTab] \in Job!Overlay(tabs[TheTab], jobJob.rows)
  BY <1>4, <1>6, <1>10 DEF JobP!TargetIsLeft, JobP!Blank, Job!Blank
<1> QED
  BY <1>1, <1>3, <1>4, <1>6, <1>7, <1>8, <1>9, TheTabFacts DEF JobP!TabIsFound, JobP!Running, Job!Running

\* One request of the local run, likewise.
LEMMA MyRequest ==
  ASSUME IInv, My!Step
  PROVE  /\ myPc \in My!Running /\ myPc' \in My!Running \cup {"done", "failed"}
         /\ myJob' = myJob /\ My!TypeOK'
         /\ tabs' \in [Tab -> My!Content \cup {Absent}]
         /\ tabs[TheTab] # Absent => tabs'[TheTab] # Absent
         /\ myPc' \in {"clear", "update"} => tabs'[TheTab] # Absent
         /\ myPc' = "update" => tabs'[TheTab] = My!Blank
         /\ myPc' = "done" => /\ myPc = "update"
                               /\ tabs'[TheTab] \in My!Overlay(tabs[TheTab], myJob.rows)
<1>1. MyP!Step
  BY DEF My!Step, MyP!Step, My!Open, MyP!Open, My!Resolve, MyP!Resolve, My!Clear,
         MyP!Clear, My!Add, MyP!Add, My!Update, MyP!Update, My!Answered, MyP!Answered,
         My!Raises, MyP!Raises, My!Raise, MyP!Raise, My!Translate, MyP!Translate,
         My!Becomes, MyP!Becomes, My!Overlay, MyP!Overlay, My!Blank, MyP!Blank,
         My!Table, MyP!Table, My!Cardinality, MyP!Cardinality
<1>2. MyP!TypeOK
  BY DEF IInv, TypeOK, MyP!TypeOK, My!TypeOK, MyP!Content, My!Content, MyP!Row, My!Row,
         MyP!Running, My!Running, MyP!AtRest, My!AtRest, MyP!Job, My!Job,
         MyP!Errors, My!Errors, MyP!Documented, My!Documented
<1>3. myPc \in My!Running
  BY DEF My!Step, My!Open, My!Resolve, My!Clear, My!Add, My!Update, My!Running
<1>4. myJob.tab = TheTab
  BY <1>3, TheTabFacts DEF IInv, TypeOK, My!TypeOK, My!Job, My!Running
<1>5. MyP!TabIsFound
  BY <1>4 DEF MyP!TabIsFound, IInv, TabsAreFound
<1>6. /\ myPc' \in (MyP!Running \cup {"done", "failed"}) \ {"open"}
      /\ myJob' = myJob /\ myJob \in MyP!Job /\ myErr' \in MyP!Errors
      /\ tabs' \in [Tab -> MyP!Content \cup {Absent}]
      /\ \A t \in Tab : tabs[t] # Absent => tabs'[t] # Absent
      /\ MyP!TabIsFound' /\ MyP!TargetIsLeft
  BY <1>1, <1>2, <1>5, MyAssumptions, MyP!SharedStepFacts DEF MyP!SharedStepFacts
<1>7. MyP!Content = My!Content /\ MyP!Errors = My!Errors /\ MyP!Job = My!Job
  BY DEF MyP!Content, My!Content, MyP!Row, My!Row, MyP!Errors, My!Errors,
         MyP!Documented, My!Documented, MyP!Job, My!Job
<1>8. My!TypeOK'
  BY <1>6, <1>7 DEF My!TypeOK, MyP!Running, My!Running, My!AtRest
<1>10. \A old, R : MyP!Overlay(old, R) = My!Overlay(old, R)
  BY DEF MyP!Overlay, My!Overlay, MyP!Table, My!Table, MyP!Cardinality, My!Cardinality
<1>9. /\ myPc' = "update" => tabs'[TheTab] = My!Blank
      /\ myPc' = "done" => /\ myPc = "update"
                            /\ tabs'[TheTab] \in My!Overlay(tabs[TheTab], myJob.rows)
  BY <1>4, <1>6, <1>10 DEF MyP!TargetIsLeft, MyP!Blank, My!Blank
<1> QED
  BY <1>3, <1>4, <1>6, <1>7, <1>8, <1>9, TheTabFacts DEF MyP!TabIsFound, MyP!Running, My!Running
-----------------------------------------------------------------------------
(* One lemma per action, or per group of actions that leave the same alone. *)

LEMMA InitIInv == Init => IInv
<1> SUFFICES ASSUME Init PROVE IInv
  OBVIOUS
<1>1. Job!TypeOK /\ My!TypeOK
  BY DEF Init, Job!TypeOK, My!TypeOK, Job!AtRest, My!AtRest, Job!Errors, My!Errors,
         Job!Documented, My!Documented
<1>2. TypeOK
  BY <1>1, BoundsAreNat DEF Init, TypeOK
<1> QED
  BY <1>2 DEF Init, IInv, TabsAreFound, AloneIsAlone, AloneIsBlank, Job!Running, My!Running

\* What concerns neither the tab nor a call of its writers.
LEMMA WritersRest ==
  ASSUME IInv, UNCHANGED <<tabs, jobVars, myVars, alone>>
  PROVE  Job!TypeOK' /\ My!TypeOK' /\ TabsAreFound' /\ AloneIsAlone' /\ AloneIsBlank'
<1>1. UNCHANGED <<tabs, jobPc, jobJob, jobErr, myPc, myJob, myErr, alone>>
  BY DEF jobVars, myVars
<1> QED
  BY <1>1 DEF IInv, TypeOK, Job!TypeOK, My!TypeOK, TabsAreFound, AloneIsAlone, AloneIsBlank

LEMMA BookKeeps == ASSUME IInv, NEW m \in Movement, Book(m) PROVE IInv'
<1>1. UNCHANGED <<tabs, jobVars, myVars, alone>>
  BY DEF Book
<1>2. TypeOK'
  BY <1>1, WritersRest DEF Book, IInv, TypeOK, groupVars, bounds
<1> QED
  BY <1>1, <1>2, WritersRest DEF IInv

LEMMA QueueKeeps ==
  ASSUME IInv, NEW w \in Workflow, Queue(w), UNCHANGED <<booked, myVars, alone, locals, faults>>,
         dispatches' \in 0..MaxDispatches
  PROVE  IInv'
<1>1. UNCHANGED <<tabs, jobVars, myVars, alone>>
  BY DEF Queue
<1>2. TypeOK'
  BY <1>1, WritersRest DEF Queue, IInv, TypeOK
<1> QED
  BY <1>1, <1>2, WritersRest DEF IInv

LEMMA LayoutJobEndsKeeps == IInv /\ LayoutJobEnds => IInv'
<1> SUFFICES ASSUME IInv, LayoutJobEnds PROVE IInv'
  OBVIOUS
<1>1. UNCHANGED <<tabs, jobVars, myVars, alone>>
  BY DEF LayoutJobEnds
<1>2. TypeOK'
  BY <1>1, WritersRest DEF LayoutJobEnds, NextInGroup, IInv, TypeOK, bounds
<1> QED
  BY <1>1, <1>2, WritersRest DEF IInv

LEMMA JobAsksKeeps == IInv /\ JobAsks => IInv'
<1> SUFFICES ASSUME IInv, JobAsks PROVE IInv'
  OBVIOUS
<1>0. /\ jobPc = "idle" /\ alone' = [job |-> myPc \notin My!Running, my |-> FALSE]
      /\ UNCHANGED <<booked, running, pending, myPc, myJob, myErr, dispatches, locals>>
  BY DEF JobAsks, groupVars, myVars
<1>1. PICK R \in SUBSET booked : Job!Write(TheTab, R) /\ Charge(R # booked)
  BY DEF JobAsks
<1>2. /\ jobPc' = "open" /\ jobJob' = [tab |-> TheTab, rows |-> R] /\ jobErr' = "none"
      /\ tabs' = tabs
  BY <1>1 DEF Job!Write
<1>3. Job!TypeOK' /\ My!TypeOK'
  BY <1>0, <1>2, TheTabFacts
     DEF IInv, TypeOK, Job!TypeOK, My!TypeOK, Job!Running, Job!Job, Job!Errors
<1>4. TypeOK'
  <2>1. alone' \in [{"job", "my"} -> BOOLEAN]
    BY <1>0, FlagsAreTyped, Zenon
  <2>2. faults' \in 0..MaxFaults
    BY <1>1, ChargeFacts DEF IInv, TypeOK
  <2> QED
    BY <1>0, <1>3, <2>1, <2>2 DEF IInv, TypeOK
<1>5. TabsAreFound' /\ AloneIsAlone' /\ AloneIsBlank'
  BY <1>0, <1>2 DEF IInv, TabsAreFound, AloneIsAlone, AloneIsBlank
<1> QED
  BY <1>4, <1>5 DEF IInv

LEMMA IAskKeeps == IInv /\ IAsk => IInv'
<1> SUFFICES ASSUME IInv, IAsk PROVE IInv'
  OBVIOUS
<1>0. /\ myPc = "idle" /\ alone' = [job |-> FALSE, my |-> jobPc \notin Job!Running]
      /\ locals > 0 /\ locals' = locals - 1
      /\ UNCHANGED <<booked, running, pending, jobPc, jobJob, jobErr, dispatches>>
  BY DEF IAsk, groupVars, jobVars
<1>1. PICK R \in SUBSET booked : My!Write(TheTab, R) /\ Charge(R # booked)
  BY DEF IAsk
<1>2. /\ myPc' = "open" /\ myJob' = [tab |-> TheTab, rows |-> R] /\ myErr' = "none"
      /\ tabs' = tabs
  BY <1>1 DEF My!Write
<1>3. Job!TypeOK' /\ My!TypeOK'
  BY <1>0, <1>2, TheTabFacts
     DEF IInv, TypeOK, Job!TypeOK, My!TypeOK, My!Running, My!Job, My!Errors
<1>4. TypeOK'
  <2>1. alone' \in [{"job", "my"} -> BOOLEAN]
    BY <1>0, FlagsAreTyped, Zenon
  <2>2. faults' \in 0..MaxFaults /\ locals' \in 0..MaxLocal
    <3>1. faults \in 0..MaxFaults /\ locals \in 0..MaxLocal
      BY DEF IInv, TypeOK
    <3>2. faults' \in 0..MaxFaults
      BY <1>1, <3>1, BoundsAreNat DEF Charge
    <3> QED
      BY <1>0, <3>1, <3>2, BoundsAreNat
  <2> QED
    BY <1>0, <1>3, <2>1, <2>2 DEF IInv, TypeOK
<1>5. TabsAreFound' /\ AloneIsAlone' /\ AloneIsBlank'
  BY <1>0, <1>2 DEF IInv, TabsAreFound, AloneIsAlone, AloneIsBlank
<1> QED
  BY <1>4, <1>5 DEF IInv

LEMMA JobStepKeeps == IInv /\ JobStep => IInv'
<1> SUFFICES ASSUME IInv, JobStep PROVE IInv'
  OBVIOUS
<1>0. /\ Job!Step /\ Charge(jobPc' = "failed" /\ ~NameTaken(jobPc))
      /\ UNCHANGED <<booked, running, pending, myPc, myJob, myErr, alone, dispatches, locals>>
  BY DEF JobStep, groupVars, myVars
<1>1. Job!TypeOK' /\ My!TypeOK'
  BY <1>0, JobRequest, Vocabulary DEF IInv, TypeOK, My!TypeOK
<1>2. TypeOK'
  <2>1. faults' \in 0..MaxFaults
    BY <1>0, ChargeFacts DEF IInv, TypeOK
  <2> QED
    BY <1>0, <1>1, <2>1 DEF IInv, TypeOK
<1>3. TabsAreFound'
  BY <1>0, JobRequest DEF IInv, TabsAreFound
<1>4. AloneIsAlone'
  BY <1>0, JobRequest DEF IInv, AloneIsAlone
<1>5. AloneIsBlank'
  BY <1>0, JobRequest DEF IInv, AloneIsAlone, AloneIsBlank, My!Running
<1> QED
  BY <1>2, <1>3, <1>4, <1>5 DEF IInv

LEMMA MyStepKeeps == IInv /\ MyStep => IInv'
<1> SUFFICES ASSUME IInv, MyStep PROVE IInv'
  OBVIOUS
<1>0. /\ My!Step /\ Charge(myPc' = "failed" /\ ~NameTaken(myPc))
      /\ UNCHANGED <<booked, running, pending, jobPc, jobJob, jobErr, alone, dispatches, locals>>
  BY DEF MyStep, groupVars, jobVars
<1>1. Job!TypeOK' /\ My!TypeOK'
  BY <1>0, MyRequest, Vocabulary DEF IInv, TypeOK, Job!TypeOK
<1>2. TypeOK'
  <2>1. faults' \in 0..MaxFaults
    BY <1>0, ChargeFacts DEF IInv, TypeOK
  <2> QED
    BY <1>0, <1>1, <2>1 DEF IInv, TypeOK
<1>3. TabsAreFound'
  BY <1>0, MyRequest DEF IInv, TabsAreFound
<1>4. AloneIsAlone'
  BY <1>0, MyRequest DEF IInv, AloneIsAlone
<1>5. AloneIsBlank'
  BY <1>0, MyRequest DEF IInv, AloneIsAlone, AloneIsBlank, Job!Running
<1> QED
  BY <1>2, <1>3, <1>4, <1>5 DEF IInv

\* A job that is over, or was killed.
LEMMA JobLeavesKeeps ==
  ASSUME IInv, Job!ProcessEnds \/ UNCHANGED <<tabs, jobVars>>, NextInGroup,
         faults' \in 0..MaxFaults, UNCHANGED <<booked, myVars, alone, dispatches, locals>>
  PROVE  IInv'
<1>1. CASE UNCHANGED <<tabs, jobVars>>
  <2>1. TypeOK'
    BY <1>1, WritersRest DEF NextInGroup, IInv, TypeOK
  <2> QED
    BY <1>1, <2>1, WritersRest DEF IInv
<1>2. CASE Job!ProcessEnds
  <2>0. /\ jobPc' = "idle" /\ jobJob' = NoJob /\ jobErr' = "none" /\ tabs' = tabs
        /\ UNCHANGED <<myPc, myJob, myErr>>
    BY <1>2 DEF Job!ProcessEnds, myVars
  <2>1. Job!TypeOK' /\ My!TypeOK'
    BY <2>0 DEF IInv, TypeOK, Job!TypeOK, My!TypeOK, Job!AtRest, Job!Errors
  <2>2. TypeOK'
    BY <2>1 DEF NextInGroup, IInv, TypeOK
  <2>3. TabsAreFound' /\ AloneIsAlone' /\ AloneIsBlank'
    BY <2>0 DEF IInv, TabsAreFound, AloneIsAlone, AloneIsBlank, Job!Running
  <2> QED
    BY <2>2, <2>3 DEF IInv
<1> QED
  BY <1>1, <1>2

LEMMA ILeaveKeeps == IInv /\ ILeave => IInv'
<1> SUFFICES ASSUME IInv, ILeave PROVE IInv'
  OBVIOUS
<1>0. /\ myPc' = "idle" /\ myJob' = NoJob /\ myErr' = "none" /\ tabs' = tabs
      /\ Charge(myPc \in My!Running)
      /\ UNCHANGED <<booked, running, pending, jobPc, jobJob, jobErr, alone, dispatches, locals>>
  BY DEF ILeave, My!ProcessEnds, groupVars, jobVars
<1>1. Job!TypeOK' /\ My!TypeOK'
  BY <1>0 DEF IInv, TypeOK, Job!TypeOK, My!TypeOK, My!AtRest, My!Errors
<1>2. TypeOK'
  <2>1. faults' \in 0..MaxFaults
    BY <1>0, BoundsAreNat DEF Charge, IInv, TypeOK
  <2> QED
    BY <1>0, <1>1, <2>1 DEF IInv, TypeOK
<1>3. TabsAreFound' /\ AloneIsAlone' /\ AloneIsBlank'
  BY <1>0 DEF IInv, TabsAreFound, AloneIsAlone, AloneIsBlank, My!Running
<1> QED
  BY <1>2, <1>3 DEF IInv

LEMMA NextIInv == IInv /\ [Next]_vars => IInv'
<1> SUFFICES ASSUME IInv, [Next]_vars PROVE IInv'
  OBVIOUS
<1>1. CASE UNCHANGED vars
  <2>1. UNCHANGED <<tabs, jobVars, myVars, alone>>
    BY <1>1 DEF vars
  <2>2. TypeOK'
    BY <1>1, <2>1, WritersRest DEF vars, groupVars, bounds, IInv, TypeOK
  <2> QED
    BY <2>1, <2>2, WritersRest DEF IInv
<1>2. CASE Cron
  BY <1>2, QueueKeeps DEF Cron, bounds, Workflow, IInv, TypeOK
<1>3. CASE \E w \in Workflow : Dispatch(w)
  <2>1. PICK w \in Workflow : Dispatch(w)
    BY <1>3
  <2>2. dispatches' \in 0..MaxDispatches
    BY <2>1, BoundsAreNat DEF Dispatch, IInv, TypeOK
  <2> QED
    BY <2>1, <2>2, QueueKeeps DEF Dispatch
<1>4. CASE JobEnds
  BY <1>4, JobLeavesKeeps DEF JobEnds, bounds, IInv, TypeOK
<1>5. CASE JobEndsEarly
  <2>1. faults' \in 0..MaxFaults
    <3>1. Charge(TRUE) /\ faults \in 0..MaxFaults
      BY <1>5 DEF JobEndsEarly, IInv, TypeOK
    <3> QED
      BY <3>1, BoundsAreNat DEF Charge
  <2> QED
    BY <1>5, <2>1, JobLeavesKeeps DEF JobEndsEarly
<1> QED
  BY <1>1, <1>2, <1>3, <1>4, <1>5, BookKeeps, JobAsksKeeps, JobStepKeeps, LayoutJobEndsKeeps,
     IAskKeeps, MyStepKeeps, ILeaveKeeps DEF Next, JobRun, MyRun
-----------------------------------------------------------------------------
\* A call returns in a request of its own only.
LEMMA ReturnsAlone ==
  IInv /\ [Next]_vars =>
    /\ Returns(jobPc, jobPc') /\ alone.job => tabs'[TheTab] = Job!Table(jobJob.rows)
    /\ Returns(myPc, myPc') /\ alone.my => tabs'[TheTab] = My!Table(myJob.rows)
<1> SUFFICES ASSUME IInv, [Next]_vars
             PROVE  /\ Returns(jobPc, jobPc') /\ alone.job => tabs'[TheTab] = Job!Table(jobJob.rows)
                    /\ Returns(myPc, myPc') /\ alone.my => tabs'[TheTab] = My!Table(myJob.rows)
  OBVIOUS
<1>1. Returns(jobPc, jobPc') => Job!Step
  BY DEF Returns, Next, JobRun, MyRun, Book, Cron, Dispatch, Queue, JobAsks, JobStep, JobEnds,
         JobEndsEarly, LayoutJobEnds, IAsk, MyStep, ILeave, Job!Write, Job!ProcessEnds,
         jobVars, vars
<1>2. Returns(myPc, myPc') => My!Step
  BY DEF Returns, Next, JobRun, MyRun, Book, Cron, Dispatch, Queue, JobAsks, JobStep, JobEnds,
         JobEndsEarly, LayoutJobEnds, IAsk, MyStep, ILeave, My!Write, My!ProcessEnds,
         myVars, vars
<1>3. ASSUME Returns(jobPc, jobPc'), alone.job PROVE tabs'[TheTab] = Job!Table(jobJob.rows)
  <2>1. jobPc = "update" /\ tabs'[TheTab] \in Job!Overlay(tabs[TheTab], jobJob.rows)
    BY <1>1, <1>3, JobRequest DEF Returns
  <2>2. tabs[TheTab] = Job!Blank
    BY <1>3, <2>1 DEF IInv, AloneIsBlank
  <2> QED
    BY <2>1, <2>2, BlankIsOverwritten
<1>4. ASSUME Returns(myPc, myPc'), alone.my PROVE tabs'[TheTab] = My!Table(myJob.rows)
  <2>1. myPc = "update" /\ tabs'[TheTab] \in My!Overlay(tabs[TheTab], myJob.rows)
    BY <1>2, <1>4, MyRequest DEF Returns
  <2>2. tabs[TheTab] = My!Blank
    BY <1>4, <2>1 DEF IInv, AloneIsBlank
  <2> QED
    BY <2>1, <2>2, BlankIsOverwritten
<1> QED
  BY <1>3, <1>4
-----------------------------------------------------------------------------
(* The group by itself: what its jobs write, and what others see of it. *)

\* The store that the writer's proofs speak of is the one of the job's writer.
LEMMA StoreVocabulary ==
  /\ JobP!Store!Init => Job!Store!Init
  /\ [JobP!Store!Next]_(JobP!Store!vars) => [Job!Store!Next]_(Job!Store!vars)
BY DEF JobP!Store!Init, Job!Store!Init, JobP!Store!Next, Job!Store!Next, JobP!Store!vars,
       Job!Store!vars, JobP!Store!Ask, Job!Store!Ask, JobP!Store!EmptyTab,
       Job!Store!EmptyTab, JobP!Store!Return, Job!Store!Return, JobP!Store!GiveUp,
       Job!Store!GiveUp, JobP!Store!Forget, Job!Store!Forget, JobP!Store!Holds,
       Job!Store!Holds, JobP!State, Job!State, JobP!Blank, Job!Blank, JobP!Table, Job!Table

\* While nobody runs a sync of his own, a step is one of the job's writer, or leaves
\* the tabs alone.
LEMMA JobMoves ==
  ASSUME IInv, [Next]_vars, myPc = "idle", myPc' = "idle"
  PROVE  [JobP!Next]_(JobP!vars)
<1>1. CASE UNCHANGED <<tabs, jobVars>>
  BY <1>1 DEF jobVars, JobP!vars
<1>2. CASE JobAsks
  <2>1. PICK R \in SUBSET booked : Job!Write(TheTab, R)
    BY <1>2 DEF JobAsks
  <2>2. JobP!Write(TheTab, R) /\ R \in SUBSET Movement
    BY <2>1 DEF Job!Write, JobP!Write, Job!AtRest, JobP!AtRest, IInv, TypeOK
  <2> QED
    BY <2>2, TheTabFacts DEF JobP!Next
<1>3. CASE JobStep
  BY <1>3, JobRequest DEF JobStep, JobP!Next
<1>4. CASE Job!ProcessEnds
  BY <1>4 DEF Job!ProcessEnds, JobP!ProcessEnds, JobP!Next
<1>5. CASE JobEnds \/ JobEndsEarly
  BY <1>1, <1>4, <1>5 DEF JobEnds, JobEndsEarly
<1>6. CASE IAsk \/ MyStep \/ ILeave
  BY <1>6 DEF IAsk, MyStep, ILeave, My!Write, My!ProcessEnds, My!Step, My!Open, My!Resolve,
              My!Clear, My!Add, My!Update
<1>7. CASE \/ \E m \in Movement : Book(m)
           \/ Cron
           \/ \E w \in Workflow : Dispatch(w)
           \/ LayoutJobEnds
           \/ UNCHANGED vars
  BY <1>1, <1>7 DEF Book, Cron, Dispatch, Queue, LayoutJobEnds, vars
<1> QED
  BY <1>2, <1>3, <1>5, <1>6, <1>7 DEF Next, JobRun, MyRun

LEMMA JobStarts == Init => JobP!IInv /\ JobP!Store!Init
<1>1. Init => JobP!Init
  BY DEF Init, JobP!Init
<1> QED
  BY <1>1, JobAssumptions, JobP!InitIInv, JobP!InitImplements
     DEF JobP!InitIInv, JobP!InitImplements

-----------------------------------------------------------------------------
\* In every reachable state a call that counts as alone has the tab to itself.
THEOREM InductiveInvariant == Spec => []IInv
BY InitIInv, NextIInv, PTL DEF Spec

\* The group, both calls of the writer and the tab they share are well formed,
\* however their requests interleave.
THEOREM TypeCorrect == Spec => []TypeOK
BY InductiveInvariant, PTL DEF IInv

\* A run that was the only one from its answers to its return left exactly its
\* answers, whatever runs that overlapped, failed or were killed had left there.
THEOREM LoneRunsAreExact == Spec => LoneRunIsExact
<1>1. IInv /\ [Next]_vars =>
        [/\ Returns(jobPc, jobPc') /\ alone.job => tabs'[TheTab] = Job!Table(jobJob.rows)
         /\ Returns(myPc, myPc') /\ alone.my => tabs'[TheTab] = My!Table(myJob.rows)]_vars
  BY ReturnsAlone
<1> QED
  BY <1>1, InductiveInvariant, PTL DEF Spec, LoneRunIsExact

\* Without local runs the writer's own invariant is back, and the jobs of the group,
\* however they are queued, replaced, cut short or refused, implement TabStore.
THEOREM GroupKeepsItsPromise == Spec => TheGroupIsAStore
<1>1. ASSUME IInv, JobP!IInv, [Next]_vars, myPc = "idle", myPc' = "idle"
      PROVE  JobP!IInv' /\ [Job!Store!Next]_(Job!Store!vars)
  <2>1. [JobP!Next]_(JobP!vars)
    BY <1>1, JobMoves
  <2> QED
    BY <1>1, <2>1, JobAssumptions, JobP!NextIInv, JobP!NextImplements, StoreVocabulary
       DEF JobP!NextIInv, JobP!NextImplements
<1>2. Init => JobP!IInv /\ Job!Store!Init
  BY JobStarts, StoreVocabulary
<1> DEFINE idle == myPc = "idle"
<1>3. IInv /\ IInv' /\ JobP!IInv /\ [Next]_vars /\ idle /\ idle'
        => JobP!IInv' /\ [Job!Store!Next]_(Job!Store!vars)
  BY <1>1
<1> HIDE DEF idle
<1>4. Spec /\ []idle => Job!Store!Init /\ [][Job!Store!Next]_(Job!Store!vars)
  BY <1>2, <1>3, InductiveInvariant, PTL DEF Spec
<1> QED
  BY <1>4, PTL DEF TheGroupIsAStore, Job!KeepsItsPromise, Job!Store!Spec, idle
=============================================================================
