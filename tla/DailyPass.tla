------------------------------ MODULE DailyPass ------------------------------
(***************************************************************************)
(* The scheduled run: `banking daily` (daily.py, cli/daily.py, notify.py)  *)
(* once a day, over the banks, the two tabs of the month in the shared     *)
(* spreadsheet, and the mail that reports a failure.                       *)
(*                                                                         *)
(* A run asks each bank for the month's movements and then for its         *)
(* balance, classifies what it got, writes the raw tab through             *)
(* SheetsWriter and then the layout tab through LayoutWriter (both modules *)
(* are instantiated here, request by request), and ends with an exit code, *)
(* mailing every outcome that is not a success.  Runs never overlap: the   *)
(* workflows share one concurrency group.                                  *)
(*                                                                         *)
(* Around it: banks book movements, possibly of a past month; the month    *)
(* changes, also during a run; PSD2 sessions come and go; any stage may    *)
(* fail; the job may be killed at any point by its ten-minute timeout.     *)
(***************************************************************************)
EXTENDS Integers, Sequences, FiniteSets

CONSTANTS
  Bank,            \* banks
  BankOrder,       \* the order the connectors are queried in
  Movement,        \* settled movements that may ever be booked
  BankOf, MonthOf, \* the bank and the month of each movement
  LastMonth,       \* bound: months are 1..LastMonth
  Balance,         \* balances a bank may report
  MaxFaults,       \* bound: failures, lost answers and kills in a behaviour
  NoBalance, Category, DressCalls, MaxExpenseRows, Status,
  Absent, NoPanel, NoJob

Month == 1..LastMonth

ASSUME OrderListsBanks == /\ BankOrder \in Seq(Bank) /\ BankOrder # <<>>
                          /\ \A b \in Bank : \E i \in DOMAIN BankOrder : BankOrder[i] = b
ASSUME MovementsHaveAHome == BankOf \in [Movement -> Bank] /\ MonthOf \in [Movement -> Month]
ASSUME BoundsAreNat == LastMonth \in Nat \ {0} /\ MaxFaults \in Nat
ASSUME MovementsAreFinite == IsFiniteSet(Movement)
ASSUME NoBalanceIsNone == NoBalance \notin Balance

VARIABLES
  month,      \* the calendar
  booked,     \* movements the banks have settled
  session,    \* what the session secret of each bank holds
  phase,      \* where the run is; "off" between runs
  runMonth,   \* month of the run: date.today() when it started
  at,         \* index of the bank being queried
  passes,     \* BankPass of each bank, as far as this run has filled them
  failed,     \* which exception run_daily ended with
  report,     \* what the last run left behind: exit code and mail
  due,        \* what the banks with a session had settled for the month when the
              \* run started: what their answers must hold at least
  faults,     \* faults left in this behaviour
  raw, rawPc, rawJob, rawErr,  \* raw tabs and the SheetsWriter call on them
  gastos, layPc, layJob, layCreated, layDressing, layErr  \* and the LayoutWriter call

rawVars == <<raw, rawPc, rawJob, rawErr>>
layVars == <<gastos, layPc, layJob, layCreated, layDressing, layErr>>
envVars == <<month, booked, session>>
runVars == <<phase, runMonth, at, passes, failed, report, due>>
vars == <<envVars, runVars, faults, rawVars, layVars>>

Balances == [Bank -> Balance \cup {NoBalance}]

Raw == INSTANCE SheetsWriter WITH
         Tab <- Month, Batch <- SUBSET Movement,
         tabs <- raw, pc <- rawPc, job <- rawJob, err <- rawErr

Lay == INSTANCE LayoutWriter WITH
         Tab <- Month, Batch <- SUBSET Movement, Panel <- Balances,
         tabs <- gastos, pc <- layPc, job <- layJob, created <- layCreated,
         dressing <- layDressing, err <- layErr

ASSUME StatusIsHttp    == Status \subseteq 400..599
ASSUME CreationDresses == DressCalls \in Seq(STRING) /\ DressCalls # <<>>
ASSUME CeilingIsNat    == MaxExpenseRows \in Nat
ASSUME MarkersAreFresh == /\ NoPanel \notin Balances
                          /\ Absent \notin Raw!Content \cup Lay!Content
                          /\ NoJob \notin Raw!Job \cup Lay!Job

BankPass == [txs : SUBSET Movement, balance : Balance \cup {NoBalance},
             txFailed : BOOLEAN, balFailed : BOOLEAN, notOnboarded : BOOLEAN]

NotQueried == [txs |-> {}, balance |-> NoBalance,
               txFailed |-> FALSE, balFailed |-> FALSE, notOnboarded |-> FALSE]

Phases   == {"off", "transactions", "balance", "classify", "document",
             "raw", "layout", "summary"}
Statuses == {"full_success", "partial_failure", "total_failure", "nothing_to_sync"}
Failures == {"none", "total", "raw", "layout"}
Subjects == {"none", "total", "partial", "sheets", "sheets and banks"}

\* Exit -1: no run yet, or one that never reached sys.exit.
Report == [exit : -1..4, mail : {"none", "sent", "skipped", "failed"},
           subject : Subjects]
NoReport == [exit |-> -1, mail |-> "none", subject |-> "none"]

TypeOK ==
  /\ month \in Month /\ booked \subseteq Movement
  /\ session \in [Bank -> {"live", "unconfigured"}]
  /\ phase \in Phases /\ runMonth \in Month /\ at \in 1..Len(BankOrder)
  /\ passes \in [Bank -> BankPass]
  /\ failed \in Failures
  /\ report \in Report
  /\ due \subseteq Movement
  /\ faults \in 0..MaxFaults
  /\ Raw!TypeOK
  /\ Lay!TypeOK
-----------------------------------------------------------------------------
(* What a run makes of the banks' answers. *)

\* _succeeded and _failed, the same in daily.py and cli/daily.py.
\* Mutant: only a bank that failed in both stages counts as failed.
Failed_BothStages(p) == p.txFailed /\ p.balFailed /\ ~p.notOnboarded

Succeeded(p) == ~p.txFailed /\ ~p.notOnboarded
Failed(p)    == ~Succeeded(p) /\ ~p.notOnboarded

SomeSucceeded == \E b \in Bank : Succeeded(passes[b])
SomeFailed    == \E b \in Bank : Failed(passes[b])

\* Mutant: nothing failed, so it is a success (sync._classify alone).
Classified_NoFailureIsSuccess ==
  IF ~SomeFailed THEN "full_success"
  ELSE IF SomeSucceeded THEN "partial_failure" ELSE "total_failure"

\* Mutant: one bank that did not answer stops the run.
Classified_AllOrNothing ==
  IF \E b \in Bank : ~Succeeded(passes[b]) THEN "total_failure" ELSE "full_success"

\* _classify
Classified ==
  IF SomeFailed
    THEN IF SomeSucceeded THEN "partial_failure" ELSE "total_failure"
    ELSE IF SomeSucceeded THEN "full_success" ELSE "nothing_to_sync"

\* Mutant: a bank without a balance is left out of the expense block.
ExpenseRows_WithBalanceOnly ==
  UNION {passes[b].txs : b \in {c \in Bank : passes[c].balance # NoBalance}}

\* raw_rows and expense_rows_from_banks: the movements of every pass.
RawRows     == UNION {passes[b].txs : b \in Bank}
ExpenseRows == UNION {passes[b].txs : b \in Bank}

\* balances_from_banks: one line per bank, empty without a balance.
PanelBalances == [b \in Bank |-> passes[b].balance]

\* Mutant: a bank without a session keeps a total failure "parcial".
Subject_OnboardedCounts ==
  IF failed \in {"none", "total"}
    THEN IF \E b \in Bank : ~Failed(passes[b]) THEN "partial" ELSE "total"
    ELSE IF SomeFailed THEN "sheets and banks" ELSE "sheets"

\* _build_subject over _as_outcomes.
Subject ==
  IF failed \in {"none", "total"}
    THEN IF SomeSucceeded THEN "partial" ELSE "total"
    ELSE IF SomeFailed THEN "sheets and banks" ELSE "sheets"

\* handle, _print_summary, _finish_total_failure, _finish_sheets_failure.
OutcomeExit ==
  CASE failed = "total"                 -> 1
    [] failed \in {"raw", "layout"}     -> 2
    [] failed = "none" /\ Classified = "partial_failure" -> 3
    [] OTHER                            -> 0
-----------------------------------------------------------------------------
Init ==
  /\ month = 1 /\ booked = {}
  /\ session \in [Bank -> {"live", "unconfigured"}]
  /\ phase = "off" /\ runMonth = 1 /\ at = 1
  /\ passes = [b \in Bank |-> NotQueried]
  /\ failed = "none"
  /\ report = NoReport
  /\ due = {}
  /\ faults = MaxFaults
  /\ raw = [t \in Month |-> Absent] /\ rawPc = "idle" /\ rawJob = NoJob /\ rawErr = "none"
  /\ Lay!Init

\* A step that goes wrong uses up one of the behaviour's faults.
Charge(goesWrong) ==
  IF goesWrong THEN faults > 0 /\ faults' = faults - 1 ELSE UNCHANGED faults

(* The world around the run. *)

\* A bank settles a movement of this month, or late, one of an earlier month.
Book(m) ==
  /\ m \notin booked /\ MonthOf[m] <= month
  /\ booked' = booked \cup {m}
  /\ UNCHANGED <<month, session, runVars, faults, rawVars, layVars>>

NextMonth ==
  /\ month < LastMonth
  /\ month' = month + 1
  /\ UNCHANGED <<booked, session, runVars, faults, rawVars, layVars>>

\* A session secret is put in place, or the inert placeholder back.  Never during
\* a run: the workflow writes the secrets it reads before it starts.
SetSession(b) ==
  /\ phase = "off"
  /\ session' = [session EXCEPT ![b] = IF @ = "live" THEN "unconfigured" ELSE "live"]
  /\ UNCHANGED <<month, booked, runVars, faults, rawVars, layVars>>

\* The account holder types a shared amount into a layout tab.
HandType(t, c) ==
  /\ Lay!HandType(t, c)
  /\ UNCHANGED <<envVars, runVars, faults, rawVars>>

(* The run. *)

StartRun ==
  /\ phase = "off"
  /\ phase' = "transactions"
  /\ runMonth' = month
  /\ at' = 1
  /\ passes' = [b \in Bank |-> NotQueried]
  /\ failed' = "none"
  /\ report' = NoReport
  /\ due' = {m \in booked : MonthOf[m] = month /\ session[BankOf[m]] = "live"}
  /\ UNCHANGED <<envVars, faults, rawVars, layVars>>

\* Mutant: the movements are those of the month the calendar shows by now.
FetchTransactions_ByToday ==
  /\ phase = "transactions"
  /\ phase' = "balance"
  /\ passes' = [passes EXCEPT ![BankOrder[at]].txs =
                 {m \in booked : BankOf[m] = BankOrder[at] /\ MonthOf[m] = month}]
  /\ UNCHANGED <<envVars, faults, runMonth, due, at, failed, report, rawVars, layVars>>

\* Mutant: a bank without a session is waited for.
FetchTransactions_AwaitsSession ==
  /\ phase = "transactions"
  /\ session[BankOrder[at]] = "live"
  /\ phase' = "balance"
  /\ passes' = [passes EXCEPT ![BankOrder[at]].txs =
                 {m \in booked : BankOf[m] = BankOrder[at] /\ MonthOf[m] = runMonth}]
  /\ UNCHANGED <<envVars, faults, runMonth, due, at, failed, report, rawVars, layVars>>

\* fetch_transactions of one bank: its answer, no session, or any exception
\* (which may come before the secret is even read).  The answer is what BankAnswers
\* promises: all that was due when the run started, nothing unsettled, and of what
\* was settled meanwhile any part.
FetchTransactions ==
  /\ phase = "transactions"
  /\ phase' = "balance"
  /\ LET b == BankOrder[at]
         settled == {m \in booked : BankOf[m] = b /\ MonthOf[m] = runMonth}
     IN \/ /\ session[b] = "live"
           /\ \E list \in SUBSET settled :
                /\ due \cap settled \subseteq list
                /\ passes' = [passes EXCEPT ![b].txs = list]
           /\ UNCHANGED faults
        \/ /\ session[b] = "unconfigured"
           /\ passes' = [passes EXCEPT ![b].notOnboarded = TRUE]
           /\ UNCHANGED faults
        \/ /\ passes' = [passes EXCEPT ![b].txFailed = TRUE]
           /\ Charge(TRUE)
  /\ UNCHANGED <<envVars, runMonth, due, at, failed, report, rawVars, layVars>>

\* Mutant: the loop over the banks runs one past the last.
FetchBalance_OffByOne ==
  /\ phase = "balance"
  /\ phase' = "transactions" /\ at' = at + 1
  /\ UNCHANGED <<envVars, faults, passes, runMonth, due, failed, report, rawVars, layVars>>

\* fetch_balance of the same bank, whatever became of its movements.
FetchBalance ==
  /\ phase = "balance"
  /\ LET b == BankOrder[at]
     IN \/ /\ session[b] = "live"
           /\ \E v \in Balance \cup {NoBalance} :
                passes' = [passes EXCEPT ![b].balance = v]
           /\ UNCHANGED faults
        \/ /\ session[b] = "unconfigured"
           /\ passes' = [passes EXCEPT ![b].notOnboarded = TRUE]
           /\ UNCHANGED faults
        \/ /\ passes' = [passes EXCEPT ![b].balFailed = TRUE]
           /\ Charge(TRUE)
  /\ IF at < Len(BankOrder) THEN phase' = "transactions" /\ at' = at + 1
                            ELSE phase' = "classify" /\ UNCHANGED at
  /\ UNCHANGED <<envVars, runMonth, due, failed, report, rawVars, layVars>>

\* run_daily decides whether anything may be written at all.
Classify ==
  /\ phase = "classify"
  /\ CASE Classified = "total_failure"   -> phase' = "summary" /\ failed' = "total"
       [] Classified = "nothing_to_sync" -> phase' = "summary" /\ UNCHANGED failed
       [] OTHER                          -> phase' = "document" /\ UNCHANGED failed
  /\ UNCHANGED <<envVars, runMonth, due, at, passes, report, faults, rawVars, layVars>>

\* SecretStore().get(_SHEET_ID_KEY), in the same try block as the raw write.
ResolveDocument ==
  /\ phase = "document"
  /\ \/ /\ phase' = "raw"
        /\ Raw!Write(runMonth, RawRows)
        /\ UNCHANGED <<failed, faults>>
     \/ /\ phase' = "summary" /\ failed' = "raw"
        /\ Charge(TRUE)
        /\ UNCHANGED rawVars
  /\ UNCHANGED <<envVars, runMonth, due, at, passes, report, layVars>>

RawStep ==
  /\ phase = "raw" /\ Raw!Step
  /\ Charge(rawPc' = "failed")
  /\ UNCHANGED <<envVars, runVars, layVars>>

\* Mutant: the layout is written whatever became of the raw tab.
RawReturned_OrRaised ==
  /\ phase = "raw" /\ rawPc \in {"done", "failed"}
  /\ phase' = "layout"
  /\ Lay!Write(runMonth, ExpenseRows, PanelBalances)
  /\ UNCHANGED <<envVars, runMonth, due, at, passes, failed, report, faults, rawVars>>

\* The raw write returned: the layout writer is called.
RawReturned ==
  /\ phase = "raw" /\ rawPc = "done"
  /\ phase' = "layout"
  /\ Lay!Write(runMonth, ExpenseRows, PanelBalances)
  /\ UNCHANGED <<envVars, runMonth, due, at, passes, failed, report, faults, rawVars>>

LayoutStep ==
  /\ phase = "layout" /\ Lay!Step
  /\ Charge(layPc' = "failed")
  /\ UNCHANGED <<envVars, runVars, rawVars>>

\* A writer raised: DailySheetsError with its stage, and the layout untouched
\* after a raw failure.
WriteRaised ==
  /\ \/ phase = "raw" /\ rawPc = "failed" /\ failed' = "raw"
     \/ phase = "layout" /\ layPc = "failed" /\ failed' = "layout"
  /\ phase' = "summary"
  /\ UNCHANGED <<envVars, runMonth, due, at, passes, report, faults, rawVars, layVars>>

LayoutReturned ==
  /\ phase = "layout" /\ layPc = "done"
  /\ phase' = "summary"
  /\ UNCHANGED <<envVars, runMonth, due, at, passes, failed, report, faults, rawVars, layVars>>

\* The process is gone, and with it the writers' calls.
Leaves ==
  /\ phase' = "off"
  /\ IF rawPc = "idle" THEN UNCHANGED rawVars ELSE Raw!ProcessEnds
  /\ IF layPc = "idle" THEN UNCHANGED layVars ELSE Lay!ProcessEnds

\* An outcome that needs no mail ends the run.
ExitClean ==
  /\ phase = "summary" /\ OutcomeExit = 0
  /\ report' = [NoReport EXCEPT !.exit = 0]
  /\ Leaves
  /\ UNCHANGED <<envVars, runMonth, due, at, passes, failed, faults>>

\* _notify_and_exit: sent or skipped keeps the outcome's exit code, a failed
\* delivery replaces it.
Notify ==
  /\ phase = "summary" /\ OutcomeExit # 0
  /\ \E mail \in {"sent", "skipped", "failed"} :
       /\ report' = [exit |-> IF mail = "failed" THEN 4 ELSE OutcomeExit,
                     mail |-> mail, subject |-> Subject]
       /\ Charge(mail = "failed")
  /\ Leaves
  /\ UNCHANGED <<envVars, runMonth, due, at, passes, failed>>

\* The job's timeout, at any point: no exit code, no mail.
Killed ==
  /\ phase # "off"
  /\ Charge(TRUE)
  /\ Leaves
  /\ UNCHANGED <<envVars, runMonth, due, at, passes, failed, report>>

RunStep == \/ FetchTransactions \/ FetchBalance \/ Classify \/ ResolveDocument
           \/ RawStep \/ RawReturned \/ LayoutStep \/ WriteRaised \/ LayoutReturned
           \/ ExitClean \/ Notify

Next ==
  \/ \E m \in Movement : Book(m)
  \/ NextMonth
  \/ \E b \in Bank : SetSession(b)
  \/ \E t \in Month, c \in Category : HandType(t, c)
  \/ StartRun
  \/ RunStep
  \/ Killed

\* The cron line starts a run every day, and a started run goes on.
Fairness == WF_vars(StartRun) /\ WF_vars(RunStep)

Spec == Init /\ [][Next]_vars /\ Fairness
-----------------------------------------------------------------------------
(* Safety *)

Ended == phase = "off" /\ report.exit # -1
Wrote == Ended /\ failed = "none" /\ SomeSucceeded

Listed(b) == passes[b].txs

\* The rows a tab shows; none when it does not exist.
RawShows(t)    == IF raw[t] = Absent THEN {} ELSE raw[t].rows
LayoutShows(t) == IF gastos[t] = Absent THEN {} ELSE gastos[t].expenses

\* A run that says it wrote (DailySummary: "both tabs carry the same movement
\* set") left in the raw tab and in the expense block exactly the movements it
\* listed, and in the panel exactly the balances it read: an empty cell, and not
\* the amount of an earlier day, beside a bank that gave none.
BoardMatchesRun ==
  Wrote => /\ raw[runMonth] = Raw!Table(UNION {Listed(b) : b \in Bank})
           /\ LayoutShows(runMonth) = UNION {Listed(b) : b \in Bank}
           /\ gastos[runMonth].panel = [b \in Bank |-> passes[b].balance]

\* Exit code 0 can be trusted: every movement of the month that a bank with a
\* session had settled when the run started is on both tabs when it ends.
ExitZeroIsComplete ==
  Ended /\ report.exit = 0 =>
    due \subseteq RawShows(runMonth) \cap LayoutShows(runMonth)

\* No movement is ever shown in the tabs of another month, whenever the month
\* changed during the run that wrote it.
RowsStayInTheirMonth ==
  \A t \in Month : \A m \in RawShows(t) \cup LayoutShows(t) : MonthOf[m] = t

\* The mail says what the exit code says (cli/daily.py:64-70, notify.py:219-227):
\* the two are computed apart, one from the exception and the classification, the
\* other from counts of outcomes.  A run is silent only on 0, and 4 means that
\* the owner was not told.
MailAgreesWithExit ==
  Ended =>
    /\ report.exit = 0 <=> report.mail = "none"
    /\ report.exit = 4 <=> report.mail = "failed"
    /\ report.exit = 1 => report.subject = "total"
    /\ report.exit = 2 => report.subject \in {"sheets", "sheets and banks"}
    /\ report.exit = 3 => report.subject = "partial"
    /\ report.subject = "total" <=> failed = "total"
    /\ report.subject = "sheets" =>
         \A b \in Bank : passes[b].txFailed => passes[b].notOnboarded

(* Action properties *)

\* A month is erased or rewritten only by a run of that month for which some bank
\* with a session answered: all failed, or none onboarded, leaves every tab alone.
ErasingNeedsAnAnswer ==
  [][\A t \in Month :
       raw'[t] # raw[t] \/ LayoutShows(t)' # LayoutShows(t) =>
         /\ t = runMonth
         /\ phase \in {"raw", "layout"}
         /\ \E b \in Bank : session[b] = "live" /\ ~passes[b].txFailed]_vars

\* The layout never gets ahead of the raw tab: the run touches it only when the
\* raw tab of the month already holds this run's movements.
LayoutFollowsRaw ==
  [][\A t \in Month :
       gastos'[t] # gastos[t] /\ phase # "off" /\
       (gastos[t] # Absent => gastos'[t].shared = gastos[t].shared) =>
         raw[t] = Raw!Table(UNION {Listed(b) : b \in Bank})]_vars

(* Refinement *)

\* Through all runs, kills and changes of month, the raw tabs are a TabStore: a
\* month is emptied and then filled with the rows of one run, or left as it is.
RawTabsAreAStore == Raw!KeepsItsPromise

\* And the layout tabs, with whatever is typed into them between and during the runs,
\* are a LayoutStore: no run takes back what was typed, and none touches the panel of
\* a month before its expense block is the run's own.
LayoutTabsAreAStore == Lay!KeepsItsPromise

(* Liveness *)

\* A started run ends.
RunEnds == phase # "off" ~> phase = "off"

\* Once the faults are over, a settled movement of the current month reaches both
\* tabs again, whatever half-finished writes and half-made tabs were left behind,
\* unless the month ends or its bank loses its session first.
SettledMovementsAreShown ==
  \A m \in Movement :
    m \in booked /\ MonthOf[m] = month /\ session[BankOf[m]] = "live"
      ~> \/ m \in RawShows(MonthOf[m]) \cap LayoutShows(MonthOf[m])
         \/ MonthOf[m] # month
         \/ session[BankOf[m]] # "live"
=============================================================================
