------------------------------ MODULE Scheduler ------------------------------
(***************************************************************************)
(* Who writes the raw tab when.  The daily workflow (cron or by hand) and  *)
(* the layout workflow share one concurrency group                         *)
(* (.github/workflows/sync.yml, layout.yml): one job runs, at most one     *)
(* waits, and a newer one takes the place of the one that waits.  A person *)
(* who runs `banking sync` on a machine of their own is in no group.       *)
(*                                                                         *)
(* Both, the daily job and the local run, first ask the banks and then     *)
(* make one SheetsWriter.write of what they answered; the two calls        *)
(* interleave request by request on the same tab.                          *)
(*                                                                         *)
(* What is abstracted: the banks answer all at once, since nothing shared  *)
(* changes between their answers and the write; a layout job only holds    *)
(* the group, since it writes another tab.                                 *)
(***************************************************************************)
EXTENDS Naturals, FiniteSets

CONSTANTS
  Tab,            \* the raw tab of the month: a set of one
  Movement,       \* settled movements that may ever be booked
  MaxDispatches,  \* bound: workflow runs started by hand in a behaviour
  MaxLocal,       \* bound: local runs in a behaviour
  MaxFaults,      \* bound: failures, lost answers and kills in a behaviour
  Status, Absent, NoJob

ASSUME OneTab == \E t \in Tab : Tab = {t}
ASSUME MovementsAreFinite == IsFiniteSet(Movement)
ASSUME BoundsAreNat == MaxDispatches \in Nat /\ MaxLocal \in Nat /\ MaxFaults \in Nat

VARIABLES
  tabs,                     \* the raw tabs, shared by both writers
  booked,                   \* movements the banks have settled
  running, pending,         \* the group: the workflow that runs, the one that waits
  jobPc, jobJob, jobErr,    \* the write of the daily job
  myPc, myJob, myErr,       \* the write of the local run
  alone,                    \* history: whether each run was the only one under way
                            \* ever since it asked the banks
  dispatches, locals, faults  \* what is left of each bound

groupVars == <<running, pending>>
jobVars   == <<jobPc, jobJob, jobErr>>
myVars    == <<myPc, myJob, myErr>>
bounds    == <<dispatches, locals, faults>>
vars == <<tabs, booked, groupVars, jobVars, myVars, alone, bounds>>

Job == INSTANCE SheetsWriter WITH Batch <- SUBSET Movement,
         pc <- jobPc, job <- jobJob, err <- jobErr
My  == INSTANCE SheetsWriter WITH Batch <- SUBSET Movement,
         pc <- myPc, job <- myJob, err <- myErr

ASSUME StatusIsHttp    == Status \subseteq 400..599
ASSUME MarkersAreFresh == Absent \notin Job!Content /\ NoJob \notin Job!Job

Workflow == {"daily", "layout"}

TypeOK ==
  /\ Job!TypeOK /\ My!TypeOK
  /\ booked \subseteq Movement
  /\ running \in Workflow \cup {"none"} /\ pending \in Workflow \cup {"none"}
  /\ alone \in [{"job", "my"} -> BOOLEAN]
  /\ dispatches \in 0..MaxDispatches /\ locals \in 0..MaxLocal /\ faults \in 0..MaxFaults

TheTab == CHOOSE t \in Tab : TRUE
-----------------------------------------------------------------------------
Init ==
  /\ tabs = [t \in Tab |-> Absent]
  /\ booked = {}
  /\ running = "none" /\ pending = "none"
  /\ jobPc = "idle" /\ jobJob = NoJob /\ jobErr = "none"
  /\ myPc = "idle" /\ myJob = NoJob /\ myErr = "none"
  /\ alone = [r \in {"job", "my"} |-> TRUE]
  /\ dispatches = MaxDispatches /\ locals = MaxLocal /\ faults = MaxFaults

Charge(goesWrong) ==
  IF goesWrong THEN faults > 0 /\ faults' = faults - 1 ELSE UNCHANGED faults

Book(m) ==
  /\ m \notin booked
  /\ booked' = booked \cup {m}
  /\ UNCHANGED <<tabs, groupVars, jobVars, myVars, alone, bounds>>

(* The concurrency group. *)

\* Mutant: cancel-in-progress: true, a new run takes the place of the one that runs.
Queue_CancelsInProgress(w) ==
  /\ running' = w
  /\ UNCHANGED <<pending, tabs>>
  /\ IF jobPc = "idle" THEN UNCHANGED jobVars ELSE Job!ProcessEnds

\* A workflow run enters the group: it starts, or waits in the place of the one
\* that waited, which is cancelled.
Queue(w) ==
  /\ \/ running = "none" /\ running' = w /\ UNCHANGED pending
     \/ running # "none" /\ pending' = w /\ UNCHANGED running
  /\ UNCHANGED <<tabs, jobVars>>

\* The cron line.
Cron ==
  /\ Queue("daily")
  /\ UNCHANGED <<booked, myVars, alone, bounds>>

\* workflow_dispatch, by hand.
Dispatch(w) ==
  /\ dispatches > 0 /\ dispatches' = dispatches - 1
  /\ Queue(w)
  /\ UNCHANGED <<booked, myVars, alone, locals, faults>>

\* The tab was added by the other since it was looked up: no fault of the world.
NameTaken(pc) == pc = "add" /\ tabs[TheTab] # Absent

\* The group is free again: what waits starts.
NextInGroup == running' = pending /\ pending' = "none"

(* The job of the group. *)

\* The banks answer, all of them or some, and the write is called.
JobAsks ==
  /\ running = "daily" /\ jobPc = "idle"
  /\ \E R \in SUBSET booked : Job!Write(TheTab, R) /\ Charge(R # booked)
  /\ alone' = [job |-> myPc \notin My!Running, my |-> FALSE]
  /\ UNCHANGED <<booked, groupVars, myVars, dispatches, locals>>

JobStep ==
  /\ Job!Step
  /\ Charge(jobPc' = "failed" /\ ~NameTaken(jobPc))
  /\ UNCHANGED <<booked, groupVars, myVars, alone, dispatches, locals>>

\* The job ends after its write.
JobEnds ==
  /\ jobPc \in {"done", "failed"}
  /\ Job!ProcessEnds
  /\ NextInGroup
  /\ UNCHANGED <<booked, myVars, alone, bounds>>

\* It ends without one (no bank answered), or its ten minutes are over.
JobEndsEarly ==
  /\ running = "daily"
  /\ \/ jobPc = "idle" /\ UNCHANGED <<tabs, jobVars>>
     \/ jobPc \in Job!Running /\ Job!ProcessEnds
  /\ Charge(TRUE)
  /\ NextInGroup
  /\ UNCHANGED <<booked, myVars, alone, dispatches, locals>>

LayoutJobEnds ==
  /\ running = "layout"
  /\ NextInGroup
  /\ UNCHANGED <<tabs, booked, jobVars, myVars, alone, bounds>>

(* The local run. *)

IAsk ==
  /\ myPc = "idle"
  /\ locals > 0 /\ locals' = locals - 1
  /\ \E R \in SUBSET booked : My!Write(TheTab, R) /\ Charge(R # booked)
  /\ alone' = [job |-> FALSE, my |-> jobPc \notin Job!Running]
  /\ UNCHANGED <<booked, groupVars, jobVars, dispatches>>

MyStep ==
  /\ My!Step
  /\ Charge(myPc' = "failed" /\ ~NameTaken(myPc))
  /\ UNCHANGED <<booked, groupVars, jobVars, alone, dispatches, locals>>

\* It ends, or is interrupted.
ILeave ==
  /\ My!ProcessEnds
  /\ Charge(myPc \in My!Running)
  /\ UNCHANGED <<booked, groupVars, jobVars, alone, dispatches, locals>>

JobRun == JobAsks \/ JobStep \/ JobEnds \/ LayoutJobEnds
MyRun  == MyStep \/ ILeave

Next ==
  \/ \E m \in Movement : Book(m)
  \/ Cron
  \/ \E w \in Workflow : Dispatch(w)
  \/ JobRun \/ JobEndsEarly
  \/ IAsk \/ MyRun

\* The cron line fires every day, and runs go on once started; nobody is bound to
\* dispatch a workflow or to start a local run.
Spec == Init /\ [][Next]_vars /\ WF_vars(Cron) /\ WF_vars(JobRun) /\ WF_vars(MyRun)
-----------------------------------------------------------------------------
(* Action properties *)

Returns(before, after) == before # "done" /\ after = "done"

\* A run that was the only one from its answers to its return left exactly its
\* answers, whatever earlier runs that overlapped, failed or were killed had left
\* there.  Beside a local run the group protects nothing: then it may not hold.
LoneRunIsExact ==
  [][/\ Returns(jobPc, jobPc') /\ alone.job => tabs'[TheTab] = Job!Table(jobJob.rows)
     /\ Returns(myPc, myPc') /\ alone.my => tabs'[TheTab] = My!Table(myJob.rows)]_vars

(* Refinement *)

\* What the group is for: as long as no local run is made, the jobs of the group are
\* callers of one TabStore, and each tab is emptied and filled by one job at a time.
TheGroupIsAStore == [](myPc = "idle") => Job!KeepsItsPromise

(* Liveness *)

\* Every settled movement gets to the tab, although the waiting run of a day may be
\* cancelled by a later dispatch and a local run may undo what the job wrote: a
\* later day makes it good.
BookedIsShown ==
  \A m \in Movement :
    m \in booked ~> tabs[TheTab] # Absent /\ m \in tabs[TheTab].rows
=============================================================================
