------------------------------ MODULE Commands ------------------------------
(***************************************************************************)
(* The two commands a person runs: `banking sync` (sync.py, cli/sync.py),  *)
(* which writes the raw tab of this month and mails what goes wrong, and   *)
(* `banking layout` (cli/layout.py), which writes the accounting tab of    *)
(* any month and only prints.  One at a time, in any order, on the same    *)
(* document; the writers and the notifier are instantiated step by step.   *)
(*                                                                         *)
(* They treat a bank without a PSD2 session differently: for sync that is  *)
(* no failure, for layout it is one like any other, and layout ends well   *)
(* as soon as one bank answered.                                           *)
(***************************************************************************)
EXTENDS Integers, Sequences, FiniteSets

CONSTANTS
  Bank,            \* banks
  BankOrder,       \* the order the connectors are queried in
  Movement,        \* settled movements that may ever be booked
  BankOf, MonthOf, \* the bank and the month of each movement
  LastMonth,       \* bound: months are 1..LastMonth
  Balance,         \* balances a bank may report
  Settings,        \* what the store may say of the SMTP keys
  MaxFaults,       \* bound: failed writes, lost answers and kills in a behaviour
                   \* (banks and the mail server may fail any number of times)
  NoBalance, DressCalls, MaxExpenseRows, Status,
  Absent, NoPanel, NoJob

Month == 1..LastMonth

ASSUME OrderListsBanks == /\ BankOrder \in Seq(Bank) /\ BankOrder # <<>>
                          /\ \A b \in Bank : \E i \in DOMAIN BankOrder : BankOrder[i] = b
ASSUME MovementsHaveAHome == BankOf \in [Movement -> Bank] /\ MonthOf \in [Movement -> Month]
ASSUME BoundsAreNat == LastMonth \in Nat \ {0} /\ MaxFaults \in Nat
ASSUME MovementsAreFinite == IsFiniteSet(Movement)
ASSUME NoBalanceIsNone == NoBalance \notin Balance

VARIABLES
  month,      \* the calendar
  booked,     \* movements the banks have settled
  session,    \* what the session secret of each bank holds
  command,    \* the command that runs, or ran last
  phase,      \* where it is; "off" when none runs
  target,     \* the month of its tab
  at,         \* index of the bank being queried
  answers,    \* what each bank gave it: BankOutcome of sync, BankRun of layout
  failed,     \* which exception run_sync or run_layout ended with
  exit,       \* exit code of the last command; -1 if it never exited
  due,        \* history: what the banks with a session had settled for the month
              \* when it started
  faults,     \* faults left in this behaviour
  raw, rawPc, rawJob, rawErr,  \* raw tabs and the SheetsWriter call on them
  gastos, layPc, layJob, layCreated, layDressing, layErr,  \* and the LayoutWriter call
  settings, mailPc, message, mailResult, inbox  \* and the EmailNotifier call

envVars  == <<month, booked, session>>
runVars  == <<command, phase, target, at, answers, failed, exit, due>>
rawVars  == <<raw, rawPc, rawJob, rawErr>>
layVars  == <<gastos, layPc, layJob, layCreated, layDressing, layErr>>
mailVars == <<settings, mailPc, message, mailResult, inbox>>
vars == <<envVars, runVars, faults, rawVars, layVars, mailVars>>

Balances == [Bank -> Balance \cup {NoBalance}]

Raw == INSTANCE SheetsWriter WITH
         Tab <- Month, Batch <- SUBSET Movement,
         tabs <- raw, pc <- rawPc, job <- rawJob, err <- rawErr

Lay == INSTANCE LayoutWriter WITH
         Tab <- Month, Batch <- SUBSET Movement, Panel <- Balances, Category <- {},
         tabs <- gastos, pc <- layPc, job <- layJob, created <- layCreated,
         dressing <- layDressing, err <- layErr

Mail == INSTANCE Notifier WITH pc <- mailPc, result <- mailResult

ASSUME StatusIsHttp    == Status \subseteq 400..599
ASSUME CreationDresses == DressCalls \in Seq(STRING) /\ DressCalls # <<>>
ASSUME CeilingIsNat    == MaxExpenseRows \in Nat
ASSUME MarkersAreFresh == /\ NoPanel \notin Balances
                          /\ Absent \notin Raw!Content \cup Lay!Content
                          /\ NoJob \notin Raw!Job \cup Lay!Job
ASSUME SettingsAreKnown == Settings \subseteq Mail!KnownSettings

Answer   == [became : {"unasked"} \cup Mail!Outcomes, txs : SUBSET Movement,
             balance : Balance \cup {NoBalance}]
Unasked  == [became |-> "unasked", txs |-> {}, balance |-> NoBalance]

TypeOK ==
  /\ month \in Month /\ booked \subseteq Movement
  /\ session \in [Bank -> {"live", "unconfigured"}]
  /\ command \in {"none", "sync", "layout"}
  /\ phase \in {"off", "transactions", "balance", "classify", "document",
                "write", "finish", "mail"}
  /\ target \in Month /\ at \in 1..Len(BankOrder)
  /\ answers \in [Bank -> Answer]
  /\ failed \in {"none", "nothing", "write"}
  /\ exit \in -1..4
  /\ due \subseteq Movement
  /\ faults \in 0..MaxFaults
  /\ Raw!TypeOK /\ Lay!TypeOK /\ Mail!TypeOK
-----------------------------------------------------------------------------
(* What a command makes of the banks' answers. *)

Became == [b \in Bank |-> answers[b].became]

Some(outcome) == \E b \in Bank : Became[b] = outcome

AllRows    == UNION {answers[b].txs : b \in Bank}
AllBalance == [b \in Bank |-> answers[b].balance]

\* Mutant: sync takes a run where nothing failed for a success (_classify alone).
Verdict_NoFailureIsSuccess ==
  IF command = "layout"
    THEN IF Some("succeeded") THEN "write" ELSE "nothing"
    ELSE IF Some("succeeded") \/ ~Some("failed") THEN "write" ELSE "nothing"

\* _classify and the guard behind it in run_sync; NothingFetchedError in run_layout.
Verdict ==
  IF Some("succeeded") THEN "write"
  ELSE IF command = "layout" \/ Some("failed") THEN "nothing" ELSE "skip"

\* cli/sync.py: handle, before the mail has its say.
SyncExit ==
  CASE failed = "nothing" -> 1
    [] failed = "write"   -> 2
    [] failed = "none" /\ Some("succeeded") /\ Some("failed") -> 3
    [] OTHER -> 0

\* cli/layout.py: EXIT_NOTHING_FETCHED, EXIT_WRITE_FAILED, EXIT_OK.
LayoutExit ==
  CASE failed = "nothing" -> 3 [] failed = "write" -> 1 [] OTHER -> 0
-----------------------------------------------------------------------------
Init ==
  /\ month = 1 /\ booked = {}
  /\ session \in [Bank -> {"live", "unconfigured"}]
  /\ command = "none" /\ phase = "off" /\ target = 1 /\ at = 1
  /\ answers = [b \in Bank |-> Unasked]
  /\ failed = "none" /\ exit = -1 /\ due = {}
  /\ faults = MaxFaults
  /\ raw = [t \in Month |-> Absent] /\ rawPc = "idle" /\ rawJob = NoJob /\ rawErr = "none"
  /\ Lay!Init
  /\ Mail!Init

\* A write that goes wrong uses up one of the behaviour's faults.
Charge(goesWrong) ==
  IF goesWrong THEN faults > 0 /\ faults' = faults - 1 ELSE UNCHANGED faults

(* The world around the commands. *)

\* A bank settles a movement of this month, or late, one of an earlier month.
Book(m) ==
  /\ m \notin booked /\ MonthOf[m] <= month
  /\ booked' = booked \cup {m}
  /\ UNCHANGED <<month, session, runVars, faults, rawVars, layVars, mailVars>>

NextMonth ==
  /\ month < LastMonth
  /\ month' = month + 1
  /\ UNCHANGED <<booked, session, runVars, faults, rawVars, layVars, mailVars>>

\* A session expires or is put in place between two commands.
SetSession(b) ==
  /\ phase = "off"
  /\ session' = [session EXCEPT ![b] = IF @ = "live" THEN "unconfigured" ELSE "live"]
  /\ UNCHANGED <<month, booked, runVars, faults, rawVars, layVars, mailVars>>

(* The commands. *)

Start(c, t) ==
  /\ phase = "off"
  /\ command' = c /\ target' = t
  /\ phase' = "transactions"
  /\ exit' = -1
  /\ due' = {m \in booked : MonthOf[m] = t /\ session[BankOf[m]] = "live"}
  /\ UNCHANGED <<envVars, at, answers, failed, faults, rawVars, layVars, mailVars>>

\* run_sync takes this month, run_layout (_resolve_month) any, also one to come.
StartSync   == Start("sync", month)
StartLayout == \E t \in Month : Start("layout", t)

\* --month is no month: exit 2 before anything is read.
RefuseMonth ==
  /\ phase = "off"
  /\ command' = "layout" /\ exit' = 2
  /\ UNCHANGED <<envVars, phase, target, at, answers, failed, due, faults,
                 rawVars, layVars, mailVars>>

Asked == BankOrder[at]

\* The next bank, or the end of the loop over the connectors.
NextBank ==
  IF at < Len(BankOrder) THEN phase' = "transactions" /\ at' = at + 1
                         ELSE phase' = "classify" /\ UNCHANGED at

\* Mutant: the range is that of the month the calendar shows by now.
AskedMonth_ByToday == month

\* The range both commands ask for is fixed before the first bank is asked.
AskedMonth == target

\* _sync_one_bank, and the first half of _run_one_bank: an answer (what
\* BankAnswers promises of one), no session, or any exception.
FetchTransactions ==
  /\ phase = "transactions"
  /\ LET settled == {m \in booked : BankOf[m] = Asked /\ MonthOf[m] = AskedMonth}
     IN \/ /\ session[Asked] = "live"
           /\ \E list \in SUBSET settled :
                /\ due \cap settled \subseteq list
                /\ answers' = [answers EXCEPT ![Asked].became = "succeeded",
                                              ![Asked].txs = list]
        \/ /\ session[Asked] = "unconfigured"
           /\ answers' = [answers EXCEPT ![Asked].became =
                            IF command = "sync" THEN "not onboarded" ELSE "failed"]
        \/ answers' = [answers EXCEPT ![Asked].became = "failed"]
  /\ IF command = "layout" THEN phase' = "balance" /\ UNCHANGED at ELSE NextBank
  /\ UNCHANGED <<envVars, command, target, failed, exit, due, faults, rawVars, layVars, mailVars>>

\* The second half of _run_one_bank: a balance, none reported, or an exception,
\* which leaves none either and is only printed.
FetchBalance ==
  /\ phase = "balance"
  /\ \E v \in IF session[Asked] = "live" THEN Balance \cup {NoBalance} ELSE {NoBalance} :
       answers' = [answers EXCEPT ![Asked].balance = v]
  /\ NextBank
  /\ UNCHANGED <<envVars, command, target, failed, exit, due, faults, rawVars, layVars, mailVars>>

Classify ==
  /\ phase = "classify"
  /\ \/ Verdict = "write" /\ phase' = "document" /\ UNCHANGED failed
     \/ Verdict = "skip" /\ phase' = "finish" /\ UNCHANGED failed
     \/ Verdict = "nothing" /\ phase' = "finish" /\ failed' = "nothing"
  /\ UNCHANGED <<envVars, command, target, at, answers, exit, due, faults,
                 rawVars, layVars, mailVars>>

\* SecretStore().get(_SHEET_ID_KEY), in the same try block as the write.
ResolveDocument ==
  /\ phase = "document"
  /\ \/ /\ phase' = "write"
        /\ IF command = "sync" THEN Raw!Write(target, AllRows) /\ UNCHANGED layVars
           ELSE Lay!Write(target, AllRows, AllBalance) /\ UNCHANGED rawVars
        /\ UNCHANGED <<failed, faults>>
     \/ /\ phase' = "finish" /\ failed' = "write"
        /\ Charge(TRUE)
        /\ UNCHANGED <<rawVars, layVars>>
  /\ UNCHANGED <<envVars, command, target, at, answers, exit, due, mailVars>>

WriteStep ==
  /\ phase = "write"
  /\ \/ Raw!Step /\ Charge(rawPc' = "failed") /\ UNCHANGED layVars
     \/ Lay!Step /\ Charge(layPc' = "failed") /\ UNCHANGED rawVars
  /\ UNCHANGED <<envVars, runVars, mailVars>>

\* Mutant: an error of the writer is logged and swallowed.
WriteEnded_Swallows ==
  /\ phase = "write"
  /\ rawPc \in {"done", "failed"} \/ layPc \in {"done", "failed"}
  /\ phase' = "finish" /\ UNCHANGED failed
  /\ UNCHANGED <<envVars, command, target, at, answers, exit, due, faults,
                 rawVars, layVars, mailVars>>

\* The writer returned, or raised: SheetsSyncError, LayoutWriteError.
WriteEnded ==
  /\ phase = "write"
  /\ \/ "done" \in {rawPc, layPc} /\ UNCHANGED failed
     \/ "failed" \in {rawPc, layPc} /\ failed' = "write"
  /\ phase' = "finish"
  /\ UNCHANGED <<envVars, command, target, at, answers, exit, due, faults,
                 rawVars, layVars, mailVars>>

\* The process is gone, and with it all it knew and the calls it was in.
Leaves ==
  /\ phase' = "off" /\ at' = 1
  /\ answers' = [b \in Bank |-> Unasked]
  /\ failed' = "none" /\ due' = {}
  /\ IF rawPc = "idle" THEN UNCHANGED rawVars ELSE Raw!ProcessEnds
  /\ IF layPc = "idle" THEN UNCHANGED layVars ELSE Lay!ProcessEnds
  /\ IF mailPc = "idle" THEN UNCHANGED mailVars ELSE Mail!ProcessEnds

\* layout, and a sync with nothing to tell, end here.
ExitSilently ==
  /\ phase = "finish"
  /\ \/ command = "layout" /\ exit' = LayoutExit
     \/ command = "sync" /\ SyncExit = 0 /\ exit' = 0
  /\ Leaves
  /\ UNCHANGED <<envVars, command, target, faults>>

\* _notify_and_exit calls the notifier ...
StartMail ==
  /\ phase = "finish" /\ command = "sync" /\ SyncExit # 0
  /\ phase' = "mail"
  /\ Mail!Notify(Mail!Subject(Became, failed = "write"))
  /\ UNCHANGED <<envVars, command, target, at, answers, failed, exit, due, faults,
                 rawVars, layVars>>

MailStep ==
  /\ phase = "mail" /\ Mail!Step
  /\ UNCHANGED <<envVars, runVars, faults, rawVars, layVars>>

\* ... and lets a failed delivery replace the exit code.
ExitAfterMail ==
  /\ phase = "mail" /\ mailPc = "done"
  /\ exit' = IF mailResult = "failed" THEN 4 ELSE SyncExit
  /\ Leaves
  /\ UNCHANGED <<envVars, command, target, faults>>

\* An interrupt, or the job's timeout, at any point.
Killed ==
  /\ phase # "off"
  /\ Charge(TRUE)
  /\ Leaves
  /\ UNCHANGED <<envVars, command, target, exit>>

RunStep == \/ FetchTransactions \/ FetchBalance \/ Classify \/ ResolveDocument
           \/ WriteStep \/ WriteEnded \/ ExitSilently
           \/ StartMail \/ MailStep \/ ExitAfterMail

Next ==
  \/ \E m \in Movement : Book(m)
  \/ NextMonth
  \/ \E b \in Bank : SetSession(b)
  \/ StartSync \/ StartLayout \/ RefuseMonth
  \/ RunStep
  \/ Killed

Spec == Init /\ [][Next]_vars
-----------------------------------------------------------------------------
(* What a command tells when it exits.  Its process is gone one step later, so
   these are said of the step that ends it. *)

Exits == phase # "off" /\ phase' = "off" /\ exit' # -1

RawShows(t)    == IF raw[t] = Absent THEN {} ELSE raw[t].rows
LayoutShows(t) == IF gastos[t] = Absent THEN {} ELSE gastos[t].expenses

\* The success a command claims is the document's state.  A sync that says how
\* many movements it wrote (exit 0 or 3, or 4 when only the mail failed, with a
\* bank that answered) left exactly what the banks answered; a layout that exits
\* 0 left exactly the movements and the balances it prints.
ReportedIsWritten ==
  [][Exits /\ failed = "none" /\ Some("succeeded") =>
       IF command = "sync"
         THEN raw[target] = Raw!Table(AllRows)
         ELSE /\ LayoutShows(target) = AllRows
              /\ gastos[target].panel = AllBalance]_vars

\* Exit 0 hides nothing that was there to be shown: every movement of the month
\* that a bank with a session had settled when the command started is in the tab
\* it wrote.  layout also exits 0 when banks failed; then what is missing is of a
\* bank it names as failed, and of no other.
ExitZeroIsComplete ==
  [][Exits /\ exit' = 0 =>
       \A m \in due :
         \/ m \in (IF command = "sync" THEN RawShows(target) ELSE LayoutShows(target))
         \/ command = "layout" /\ answers[BankOf[m]].became = "failed"]_vars

\* The owner of an unattended sync learns of every failure once: exit 1, 2 and 3
\* mean that one mail was accepted, with the subject of that failure, or that the
\* settings allow none; exit 4 that a mail may have been lost; exit 0 that nothing
\* failed and none was sent.  Nobody is mailed about a layout.
OwnerIsTold ==
  [][Exits =>
       /\ exit' = 0 \/ command = "layout" => inbox = <<>>
       /\ command = "sync" =>
            /\ exit' = 0 => failed = "none" /\ ~Some("failed")
            /\ exit' = 4 => settings \notin Mail!Unusable
            /\ exit' \in 1..3 /\ settings \notin Mail!Unusable => Len(inbox) = 1
            /\ \A i \in DOMAIN inbox :
                 /\ i = 1
                 /\ inbox[i] = "total" <=> failed = "nothing"
                 /\ exit' = 3 => inbox[i] = "partial"
                 /\ exit' = 2 => inbox[i] = IF Some("failed") THEN "sheets and banks"
                                                             ELSE "sheets"]_vars

(* What a command may touch *)

\* A command rewrites the tab of its own kind and month, and none unless a bank
\* answered: sync never touches an accounting tab, a layout for any month no raw
\* tab, and a run without an answer leaves the whole document alone.
OnlyItsTab ==
  [][\A t \in Month :
       /\ raw'[t] # raw[t] => command = "sync" /\ t = target
       /\ gastos'[t] # gastos[t] => command = "layout" /\ t = target
       /\ raw'[t] # raw[t] \/ gastos'[t] # gastos[t] =>
            \E b \in Bank : answers[b].became = "succeeded" /\ session[b] = "live"]_vars

(* Refinement *)

\* Through all commands, kills and changes of month, the raw tabs are a TabStore: a
\* month is emptied and then filled with the rows of one sync, or left as it is.
RawTabsAreAStore == Raw!KeepsItsPromise

\* And the layout tabs are a LayoutStore, whichever months are asked for.
LayoutTabsAreAStore == Lay!KeepsItsPromise
=============================================================================
