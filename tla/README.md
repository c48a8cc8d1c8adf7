# Verification of personal-banking

The program reads the movements of a month from four banks (PSD2, through the
Enable Banking API) and publishes them in a Google spreadsheet: one *raw* tab
`YYYY-MM`, rewritten from scratch by every run, and one *layout* tab
`YYYY-MM Gastos`, created once with titles, a catalogue of shared expenses and a
balance panel, and refreshed afterwards.  It runs once a day on a GitHub Actions
cron line and mails its owner when something went wrong.  Nothing is stored
besides the spreadsheet and the encrypted secrets: a run that fails is repaired
by the next one, or not at all.

This directory models that behaviour in TLA+, checks it with TLC on small
instances and proves much of it with TLAPS.  Paths are relative to the repository
(`src/banking/...`).

## 1. Inventory

| component | state it keeps | operations | correct when |
|---|---|---|---|
| raw writer, `sheets/writer.py` | none; the tab in the document | `write`: open, look up, clear or add, update | a write that returned left exactly its rows; a failed one leaves the tab absent, blank, or with the rows of one write; only the target tab changes |
| layout writer, `sheets/layout.py` | none; the tab in the document, which the account holder edits too | `write`: creation (add, grid, expenses, 3 merges, 5 formats) or refresh (expenses, panel, format) | expenses and panel are the run's; amounts typed by hand survive; a whole tab stays whole; a month that does not fit touches nothing |
| grid geometry, `sheets/layout.py` | none; the cells of the tab | place titles, expenses, catalogue, summary, balances; clear and format regions | a refreshed tab is the one a creation would make of the same data; every formula covers the rows it adds up |
| daily pass, `daily.py` | one `BankPass` per bank, in memory | fetch movements and balance of every bank, classify, write raw, write layout | what it reports is what the document holds; nothing is erased unless a bank answered; the layout never gets ahead of the raw tab |
| daily command, `cli/daily.py` | exit code | map outcome to exit code, notify | exit code and mail agree; 0 means complete |
| failure mail, `notify.py` | none | load config, build message, connect, log in, send, quit | the owner is told once of every outcome that is not a success, or the exit code says he may not have been |
| scheduled workflows, `sync.yml`, `layout.yml` | running and pending job of one group | daily start, manual start, replacement of the pending run, ten-minute kill | runs of the group do not overlap; what one misses or undoes, a later one repairs |
| Enable Banking connector, `connectors/` | none; a PSD2 quota at the provider | session lookup, paginated movements, balance | all settled movements of the range, once; what it can refuse by itself costs no request |
| secret store, `config/secret_store.py`, `cli/secrets.py` | the `.env` file | `get`, `set` | no update lost, no reader sees half a file |
| sync command, `sync.py`, `cli/sync.py` | in memory | query, classify, write the raw tab, exit code, mail | what it reports is in the raw tab; 0 hides nothing; it touches no other tab |
| layout command, `cli/layout.py`, `layout.yml` | in memory | query a chosen month with balances, write the layout tab, exit code | what it reports is in that month's layout tab; rows that are missing are of a bank it names as failed |
| entry point, logging, CI | none | dispatch, formatting | not modelled: no state |

How they interact: the workflow starts `banking daily`; the command calls
`run_daily`, which calls each connector twice (each call reads the secret store
anew), then the raw writer, then the layout writer, each of which talks to the
spreadsheet in several HTTP requests; the exception or summary that comes back
decides exit code and mail.  `banking sync` and `banking layout` are the two halves
of that pass as commands of their own, with classifications of their own.  The
spreadsheet is the only thing two runs share.

What is hard: no write is atomic, so a failure, a lost answer or a kill falls
between any two requests; the existence of a tab decides the path of a later run;
the owner types into the layout tab meanwhile; the two tabs are written one after
the other; the month may change under a running job; a bank's two requests may
see different secrets; and the outcome is reported by two computations (exit code
and mail) that must agree.  `PROJECT.json` lists each hazard at its line with the
properties that cover it.

## 2. Modules

| module | models | lines it stands for |
|---|---|---|
| `SheetsWriter` | `SheetsWriter.write`, one action per HTTP request | `sheets/writer.py` |
| `LayoutWriter` | `LayoutWriter.write` on both paths, one action per request, and the owner's typing | `sheets/layout.py` |
| `DailyPass` | a sequence of daily runs: banks, classification, both writers (instantiated, not re-described), exit code, mail, kills, change of month | `daily.py`, `cli/daily.py`, `notify.py`, `sync.yml` |
| `Commands` | `banking sync` and `banking layout`, one at a time in any order, with both writers and the notifier instantiated: verdicts, exit codes, mail, kills, change of month | `sync.py`, `cli/sync.py`, `cli/layout.py` |
| `Notifier` | `notify_failure`, step by step | `notify.py` |
| `Scheduler` | the concurrency group and a local run beside it: two instances of `SheetsWriter` on one tab | `sync.yml`, `layout.yml`, `daily.py`, `sync.py` |
| `MonthGrid` | the cells of a layout tab: placements, ranges, formats, formulas and their values | `sheets/layout.py` |
| `EnableBanking` | `fetch_transactions` and `fetch_balance`, one action per request, beside a bank that settles movements | `connectors/enable_banking.py` |
| `TabStore` | the promise of `SheetsWriter.write` without its requests: an abstract specification that `SheetsWriter` refines, and with it the raw tabs of `DailyPass` and `Commands` | - |
| `LayoutStore` | the promise of `LayoutWriter.write` without its requests: an abstract specification that `LayoutWriter` refines, and with it the layout tabs of `DailyPass` and `Commands` | - |
| `BankAnswers` | the promise of `fetch_transactions` without its requests: an abstract specification that `EnableBanking` refines | - |
| `SecretStore` | `get` and `set` of several processes, with the file emptied before it is written | `config/secret_store.py`, `cli/secrets.py` |
| `MC...` | small instances for TLC, one per module with a run | - |
| `SheetsWriterProofs`, `LayoutWriterProofs`, `EnableBankingProofs`, `SecretStoreProofs` | theorems about the component each is named after | - |
| `DailyPassProofs`, `CommandsProofs`, `SchedulerProofs` | theorems about the compositions, by way of those about the writers | - |
| `MonthGridProofs` | theorems about the cells of a layout tab | - |

### SheetsWriter

`tabs` is the document, `pc` the request made next, `job` the arguments of the
call and `err` the class of the exception it ended with.  `Open`, `Resolve`,
`Clear`, `Add`, `Update` follow the statements of `write`, `_open_spreadsheet`
and `_prepare_worksheet`.  Every request has the outcomes the network gives it:
answered; refused with a 4xx (no effect); a 5xx, or a connection that drops, with
the effect there or not.  `Translate` is `_translate_api_error`; whether it is
applied depends on the `except` clause around the request (`Raises`' second
argument).  `Add` may meet a tab that another writer added since the lookup; it is
then refused.  `ProcessEnds` is a kill at any point.

Rows are a set: their order and cells are abstracted.  What `update` leaves under
a shorter block is not: `Overlay` keeps as many old rows as lie below, any of
them, so that an update of a tab that had not been cleared would show.

`TabStore` has no requests: a caller asks, the tab is emptied, then it is filled and
the call returns, in one step; or the call gives up, with the step it stopped at done or
not; or its process ends.  `KeepsItsPromise` is that specification, the state of the
caller being read off `pc` (`State`).  It is stronger than the invariants above: it
says in which order a tab changes, that nothing but a call changes one, and that a call
which raises may still have put its rows there, and nothing else.
`RowsAreLostOnlyToTheirWriter` follows from it and is kept as a theorem only.

### LayoutWriter

The same shape with the state that the two paths need: `created` (the branch
`_resolve_layout_worksheet` took) and `dressing` (which of the eight merge and
format requests comes next).  A tab is a record of the regions the requests
address: the grid (titles, headers, catalogue, totals: one request places them
all), the expense block B4:E403 and whether its cells were interpreted by the
`USER_ENTERED` grid write, the panel J:K, the hand-typed column H, and the ranges
merged or formatted.  `PanelOver` models that an empty cell in an update leaves
the old value, which is why the panel has to be cleared first.

`LayoutStore` has neither requests nor paths, and shows of a tab what its readers look
for: the expense rows and whether they were interpreted, the panel and the hand-typed
column (`Seen`; titles, merges and formats are left out).  A month that does not fit is refused
at once; otherwise `Rewrite` lists what a request may make of the tab: add it, draft
the grid on a new one, empty or fill the expense block, and, only beside the rows of this
call, empty or fill the panel.  A call returns when both regions are the caller's.
The draft of a creation is the one place where interpreted cells show, and a call that
gives up there leaves them.  `TooLargeTouchesNothing` follows from `KeepsItsPromise` and is
kept as a theorem only.

### DailyPass

`Raw == INSTANCE SheetsWriter` and `Lay == INSTANCE LayoutWriter` run inside the
phases `raw` and `layout`, request by request, so that a failure in the middle of
a write, a kill and the next day's run are the writers' own.  `FetchTransactions`
and `FetchBalance` are the two stages of the loop in `collect_bank_runs`;
`Classify`, `ResolveDocument`, `RawReturned`, `WriteRaised` and `LayoutReturned`
the rest of `run_daily`; `ExitClean` and `Notify` the command.  `due` is a history
variable: what the banks with a session had settled when the run started.
`FetchTransactions` takes one step: the month's settled movements, "no session",
or any exception.  That one step may stand for the pages and requests of a
connector is what `BankAnswers` states and `EnableBanking` is shown to implement:
the answer is any list between what was due when the run started and what is settled
when the bank answers.  `RawTabsAreAStore` says that the raw tabs, through all the
runs, are a `TabStore`; `LayoutTabsAreAStore` says the same of the layout tabs and
`LayoutStore`, beside the account holder's typing.

### Commands and Notifier

One process at a time runs `sync` or `layout`.  The phases are the statements of
`run_sync` and `run_layout`: the loop over the connectors (`FetchTransactions`, and
for `layout` `FetchBalance`), `Classify`, `ResolveDocument`, the writer's own
steps, `WriteEnded`, and then the handler.  What the two commands share is one
action; where they differ the action says so: a bank without a session is "not
onboarded" for `sync` and "failed" for `layout`; `Verdict` has the guard behind
`_classify` that keeps an empty month from being written, and layout's
`NothingFetchedError`; `SyncExit` and `LayoutExit` are the exit codes.  `AskedMonth`
is the range both compute once, before the first request.

`Notifier` has one action per thing that can go wrong on the way to the server:
settings that `_load_config` gives up on (skipped), settings that make it or
`_build_message` raise something else (failed), a refused connection, a refused
login, and a `send_message` whose answer is lost after the server took the mail.
`inbox` is what the server accepted.

### Scheduler

`running` and `pending` are the concurrency group; `Queue` is
`cancel-in-progress: false` with GitHub's one pending run, which a newer one
replaces.  `Job` is the writer of the daily job, `My` that of a local `banking sync`;
each first takes an answer of the banks (any subset of what is booked; less than all
of it is charged as a fault), and their requests interleave freely.  `alone`
remembers whether a run had company at any time since it asked.

### MonthGrid

A cell is a pair of a column and a row, B to E counting as one column.  The row
constants are those of the code, with the number of categories, expense rows and
reserved balance rows as CONSTANTS; `Place...` are the helpers of the same names
and give functions from cells to contents, which `Created`, `WriteExpenseRegion` and
`WriteSummaryRegion` lay over the sheet (`++`) as `batch_clear` and `update` do.  `Entered`
is what `USER_ENTERED` makes of a date or an expense row.  Formulas are kept as what
they cover, `Shown` evaluates them, and `SumOver` is the sum of numbers over a set
of cells, movements, accounts or categories alike.  `Rank` is Python's stable sort.

### EnableBanking and BankAnswers

A call goes through `credential`, `secret`, `lookup`, and then `page` until a page
has no continuation key, or `balances` once: `LoadCredential`, `ReadSecret`,
`LookUp`, `FetchPage`, `FetchBalances`.  `Verdict` is `_check_session_usable` and
the status test after it, `AfterPage` the end of the loop, `Select` the parsing
and choice of a balance.  The provider is as unhelpful as the code allows for: a
page may repeat records, come empty, or carry pending, out-of-range, malformed
and null ones; records settle between pages; it may send continuation keys for
ever.  The one thing it grants is that, when it sends no key, every record that was
settled when the call began has been on some page; without that no list could be
complete.  `due` is that set, a history variable.

`BankAnswers` has no requests: a caller asks, the bank settles movements, and the
call gives up or returns a list between what was settled when it was asked and
what is settled now.  `KeepsItsPromise` is that specification under the mapping at the end of
`EnableBanking`.

### SecretStore

Several processes, each with a master key or none, call `get` and `set` on one file.
`set` takes three steps, as in the code: `ReadForSet` (`_read_env_file`), `Truncate`
(`write_text` opens the file, which empties it) and `WriteOut`.  An encrypted value
is its text and the key that encrypted it, so that `Decrypts` can fail the way
AES-GCM's tag does.  `WrittenOver` gives what remains when two processes wrote over
each other: lines of the longer text may survive below the shorter one.  `acked` is a
history variable: what the last `set` of each name stored.

## 3. Properties and runs

| run | bounds | what it shows |
|---|---|---|
| `sheets_writer` | 2 tabs, 3 rows, batches {}, 1, 2 and 3 rows; statuses 403, 429, 500 | any sequence of writes, each interrupted anywhere: a returned write is exact, no tab is a mixture, and the whole implements `TabStore` |
| `layout_writer` | 1 tab, the same batches with a ceiling of 2 rows, 2 banks, 3 panels with and without balances, 1 category, the 8 real ranges; statuses 403, 500 | creation and refresh: exact expenses and panel, no mixture, creation is whole, hand-typed amounts survive, whole stays whole, and the whole implements `LayoutStore` (an oversized month touches nothing) |
| `layout_writer_half_made` | same | finding 1 |
| `daily_pass` | 2 banks, 2 movements, 1 month, 2 faults, ceiling 1, 1 category | what a run reports is what the tabs hold; 0 is complete; mail and exit code agree; the layout never gets ahead |
| `daily_pass_months` | 2 banks, 2 movements in 2 months, 1 fault | runs before, across and after a change of month: no row in another month's tab, nothing erased without an answer, every run ends, settled movements reach both tabs again after the fault |
| `commands` | 2 banks with a movement each, 2 months, 1 faulty write or kill, any failures of banks and mail; settings complete, missing, unreadable | exit codes, summaries and mail of `sync` and `layout` agree with the document; 0 hides nothing; each command keeps to its tab |
| `scheduler` | 1 tab, 2 movements, 2 dispatched workflows, 1 local run, any number of scheduled ones, 2 faults; statuses 403, 500 | a run without company leaves exactly its answers, whatever an overlap left before; every movement gets to the tab in the end |
| `month_grid` | lists of 0 to 3 movements (two with one sort key) for a block of 2 rows, 1 or 2 accounts in a panel for 2, 2 categories, 2 amounts to type | a tab refreshed any number of times is cell by cell, formats included, the one a creation would make of the latest data; every sum is the sum of that data |
| `enable_banking` | 4 records (two with one key, one out of range, one null), 3 pages, every list of up to 3 balance records of 3 types; statuses 403, 422, 429, 500 | a returned list is complete and clean, a refusal on local grounds spends no request, the balance is the first of the most trusted type, calls end, and the whole implements `BankAnswers` |
| `enable_banking_null` | 2 records, 2 pages | finding 2 |
| `secret_store` | 3 processes (two keys, one without), 2 names, 2 texts, 1 fault, calls one at a time | acknowledged secrets are kept as long as no call was cut short; a `get` that answers tells what was last set, also after a failed or killed `set` |
| `secret_store_overlap` | 2 processes with one key, calls may overlap | finding 3 |

Why the bounds are enough.  A write depends on its own batch and on what one
earlier write left, so batches that shrink, grow, overlap and vanish, over two
tabs, give every case the code distinguishes; 403/404 and 429 and the rest
are the classes of `_translate_api_error`, and 4xx/5xx the classes of effect.  The
layout ceiling (400 rows in the code) is 2 or 1, below the largest batch, so that the
refusal happens.  Classification distinguishes whether *some* bank succeeded and
*some* failed: two banks give every combination.  One category is enough for the
typing properties, which speak of each cell alone.  `DailyPass` keeps the 500
status only, since a 500 covers "no effect" and "effect but no answer"; and two of the
eight ranges (one merge, the panel format), since `LayoutWriter` checks all eight.
Faults in a behaviour are bounded by `MaxFaults`: two let a failing run meet the
remains of another failed one.

`Commands` bounds only failed writes and kills (one in a behaviour; `DailyPass`
has two over the same writers): banks and mail may fail any number of times, since
they cost no state.  Two months give a change of month during a run, and a layout
for a past and for a coming month.  In `Scheduler` an answer of one movement beside
one of two gives the shorter update over the longer; two dispatches are what it takes
to replace a waiting daily run by a layout one; two faults let a killed job and a
refused write meet the local run.  In `MonthGrid` the block is filled exactly, less,
and too much; the panel is filled exactly and less, so that it shrinks; and a balance
is reported with and without a date, or not at all.  The code's own sizes (400 rows,
49 categories, 8 balance rows) change no case, since every offset is computed from
them.

A page loop has a first, a middle and a last turn: three pages (`MaxPages`, 100 in
the code) give them, and the turn that exceeds the limit.  Two records with one key
meet the deduplication on one page and across pages.  Two preferred types and one
unknown in lists of three give every way in which position and preference disagree;
the theorem `BalancesAreTrusted` covers lists of any length.  In the secret store a
second name shows what a `set` does to what it was not asked to change, and the
third process is the one that must never get to the file.

Every property has a mutant in `PROJECT.json`: a definition with a plausible bug
(written beside the original, named after it) under which TLC finds the property violated.

## 4. Fairness

The writers and the connector assume weak fairness of `Step`: a call in progress
makes its next request, and each request ends, by an answer or an exception.
`DailyPass` assumes weak fairness of `StartRun` (the cron line starts a
run daily whenever none is running) and `RunStep` (a Python process goes on, and
the job's ten-minute timeout covers a request that does not end).  `Scheduler`
assumes weak fairness of `Cron` (the schedule fires every day), of the job's steps
(`JobRun`) and of the local run's steps once it was started (`MyRun`); that somebody
dispatches a workflow or starts a local run is not assumed.  `Commands` and
`MonthGrid` state safety only: a person starts every step.  Nothing is
assumed of the banks, the calendar, the owner, the provider's pages or the kills;
`SecretStore` has no liveness property and no fairness.
`SettledMovementsAreShown` is therefore
conditional, as it must be: unless the month ends or the session is lost.  It
rests on the fault budget being finite: after the last fault, the next complete
run repairs.  The same holds of `BookedIsShown`, where what has to be repaired is
also what a local run, overlapping the job, left.

## 5. What is proved

All theorems hold for every value of the constants that satisfies the named
assumptions of the module (which TLC evaluates on the instances): for any tabs,
rows, batches, statuses, records, pages, lists, processes and names.

*`SheetsWriterProofs`*: `TypeCorrect`, `WritesAreExact` (`WrittenIsExact`),
`TabsAreNeverMixed` (`NeverAMixture`) and the action property `RowsAreLostLocally`
(`RowsAreLostOnlyToTheirWriter`).  None of the first three is inductive by itself: that a
returned write is exact needs that it wrote to a blank tab, which needs that the
tab was cleared or added by this very call and that nothing came in between.  The
inductive invariant `IInv` adds exactly this: at `clear` the target exists, at
`update` it is blank (`UpdatesABlankTab`), at `done` it is exact.
`OverlayOnBlank` is the lemma that carries the argument, and where the finiteness
of batches is used.  `RaisesKeepsIInv` handles every way a request can raise at
once, so that the proof of a step has only the successful answer left.  That rows
are only lost to their writer follows step by step: `BlankingIsLocal` for the
requests that may blank a tab, and `UpdatesABlankTab` for the update, which finds
no rows to lose.  `WriterKeepsItsPromise` (`KeepsItsPromise`) is the refinement of `TabStore`:
`AskedImplements` maps the four requests before the update to a stutter, to the
emptying or to a call that gives up, and `UpdateImplements` the update to the filling,
which is only right because the tab is blank and `OverlayOnBlank` applies.

*`LayoutWriterProofs`*: `TypeCorrect`, `WritesAreExact`, `TabsAreNeverMixed`,
`CreationsAreWhole` and the action properties `TypedAmountsSurvive`,
`WholeTabsStayWhole`, `OversizedMonthsTouchNothing`.  The inductive invariant says
what the tab holds before each request *on the path the write took*: a creation
meets a tab it added itself, so its grid, expenses and formats are those of this
job and the ranges done so far are the first `dressing - 1`; a refresh meets a tab
of unknown history, whose expense block is this job's once it was written and
whose panel is empty between its clear and its update.
`WriterKeepsItsPromise` (`KeepsItsPromise`) is the refinement of `LayoutStore`: one lemma per
request says which line of `Rewrite` its effect is (`AddImplements` to
`LastImplements`), `RequestImplements` turns an answer into that line or a stutter and an error
into a call that gives up, for all requests alike, and `SeenChanges` says what a change of
a region looks like to the readers.  The refinement needs the whole invariant: that a
refresh wipes the panel beside its own rows, and that a creation drafts on a tab it has just
added, is what `TargetSoFar` records on each path.

*`EnableBankingProofs`*: `TypeCorrect`, `AnswersAreComplete`, `LocalErrorsAreFree`,
`BalancesAreTrusted` and the refinement `ConnectorKeepsItsPromise`
(`Spec => KeepsItsPromise`).  The invariant is `Collected` (the keys kept so far are
those of wanted records already served that were settled, and only of those) with
`Progress` (requests and pages at each point of the call, and nothing collected
before the first page).  For the refinement, each action is shown to map to a step of
`BankAnswers` or to a stutter; a movement that settles during a call is the case
that needs the promise to be a range and not a snapshot.  `SelectIsTrusted` is about
the code's choice of a balance; it rests on `FirstExists` (a non-empty set of
naturals has a least one), and on `PreferenceIsOrder` (no type is listed
twice, as in `_BALANCE_PREFERENCE`).

*`SecretStoreProofs`*: `TypeCorrect` for any use of the store; `SecretsAreKept`
and `ReadersAreToldTheTruth` under the hypothesis `~Overlap`, without which they are
false (finding 3).  The invariant: at most one process is in the file; the file, and
a copy that is about to be written, hold for each name what was acknowledged or nothing
(all of it, as long as no call was cut short); and the file is empty between being opened
and being written.

*`DailyPassProofs`*: `TypeCorrect`, `BoardsMatch` (`BoardMatchesRun`), `ExitZeroIsTrue`
(`ExitZeroIsComplete`), `MailAgrees` (`MailAgreesWithExit`), `RowsKeepTheirMonth`
(`RowsStayInTheirMonth`), and the action properties `ErasingIsAnswered`
(`ErasingNeedsAnAnswer`) and `LayoutComesSecond` (`LayoutFollowsRaw`), for any number of
runs, banks, months, movements and failures.  The writers are not proved about again:
`RawP` and `LayP` are instances of the two proof modules on the variables of the
run, and of a request only their `StepFacts` are used (which tab it may change, and
to what).  `RawVocabulary`, `RawTyped` and their like say that an operator of the
writer and its copy in the instance are one.  The invariant of the composition is that of each
writer, and four parts: `WritersFollowRun` (a writer works only in its phase, with the rows
and balances of this run), `OutcomeSoFar` (what was classified, and which writer has
returned), `AnswersSoFar` (every bank asked so far has answered, failed or has no session,
and an answer holds what was due of it) and `BoardIsThere` (what the next run compares
with).  `BoardMatchesRun` by itself is not inductive: that the raw tab still holds
this run's rows when the layout writer returns needs that no other writer was
called, which is the first part.  `RawTabsKeepTheirPromise` (`RawTabsAreAStore`) carries the
refinement of `TabStore` over to the pass: `RawMoves` says that every step of it is one of
the writer's or leaves the raw tabs alone.  `LayoutTabsKeepTheirPromise`
(`LayoutTabsAreAStore`) does the same for `LayoutStore`, with `LayMoves`.

*`CommandsProofs`*: `TypeCorrect` and the action properties `ReportsAreWritten`
(`ReportedIsWritten`), `ExitZeroIsTrue` (`ExitZeroIsComplete`), `OwnerLearns`
(`OwnerIsTold`) and `TabsAreTheirs` (`OnlyItsTab`).  The same instances and the same
shape; what is new is `MailSoFar`, since the notifier goes step by step here: the message
under way is the one the outcome of the command calls for, the server has it once or
not at all, and the result agrees with both.  `ExitSteps` reduces an exit to the two actions
that are one, and `AtTheEnd` collects what is certain then.  Exit 0 is the theorem with
the longest chain: a movement that was due is of a bank with a session, which was asked,
and so answered (with the movement, by `AnswersSoFar`) or failed, which `SyncExit` and
`LayoutExit` exclude or name.  `RawTabsKeepTheirPromise` and `LayoutTabsKeepTheirPromise` are proved here as in the pass.

*`SchedulerProofs`*: `TypeCorrect` and `LoneRunsAreExact` (`LoneRunIsExact`).  Here the
writers' own invariant is of no use, since another writer may act between two of their
requests.  What is left of it is `SharedStepFacts` of `SheetsWriterProofs`: from the
shape of a writer's state alone, a request keeps that shape and changes only the tab of its
call.  `TabsAreFound` says that the tab a writer has looked up does not go away (no writer
deletes one), `AloneIsAlone` that the other writer rests as long as a run has no
company, and `AloneIsBlank` gives such a run back what a single writer has: the tab is
blank before its update and exact after it.  `GroupKeepsItsPromise` (`TheGroupIsAStore`) is
what the concurrency group is for: as long as nobody runs a sync of his own, the
writer's invariant is back, and the jobs of the group, however they are queued, replaced,
killed or refused, are callers of one `TabStore`.  Beside a local run they are not: it
changes tabs under them.

*`MonthGridProofs`*: `TypeCorrect` and `RefreshesAreCreations` (`RefreshIsAsCreated`),
for lists of any length that fits and any number of categories, expense rows and
balance rows.  The two ways a sheet comes about have nothing in common but the helpers that
place values, so both are reduced to one description, `Sheet`: the expense block, the
panel, and the frame around them, each as a function of the data.  `CreatedIsSheet` says that
a creation makes it: the placements of a region are disjoint from those of the others
(`ExpensesFit`, `BalancesFit`, `FrameFits`), so the order they are laid in is immaterial.
`RefreshIsSheet` says that a refresh of any `Sheet` makes that of the new data,
which is where the panel's clear has to reach as far for one account as for the most there
may be (`PanelRangeFixed`, the `max` of `_summary_panel_range_last_row`).  `SharedTyped` and
`BalanceTyped` say what the account holder's typing does: it changes one cell, of the
frame or of the panel, and leaves the sheet one of the data with what was typed.  The
invariant is that the tab is the `Sheet` of the latest data, under what was typed into H.

`SumsAreTrue` (`SumsTellTheData`) says that what the formulas show is what the data
says: the income and the spending of the month and their sum, the total of the accounts'
balances, and that of what was typed into H.  A formula adds up cells, and the data are
movements, accounts and categories; so each cell that counts is matched with the one thing
it stands for, and the others (empty rows of the block, accounts without a balance,
categories nobody typed beside) are shown to add nothing: `Stands`, `SameSum` and
`SumOfParts` are the general facts, `MovementSums`, `SummarySum`, `BalanceSum` and `SharedSum`
their uses.  That a movement has one row of the block and a row one movement is
`RanksArePlaces`: the stable sort's ranks are a permutation, also with equal keys.  That a sum
over a finite set does not depend on the order of adding would be an induction on the set; it is
proved by the smallest subset that is an exception instead (`Smallest`, from the
library's well-founded ordering of
finite subsets), which needs no operator as a parameter (`SumByElement`).  Nothing is
assumed of the banks' names: one that is called like a label of the panel is told apart by its
row, the accounts' rows being after the first label and before the last.

The compositions assume, besides what their writers do (statuses are HTTP codes, the
markers for an absent tab or job are no tab and no job, the ceiling is a number), that every bank
is in the connectors' order, that a movement has one bank and one month, and that
the movements ever booked are finitely many.
`MonthGrid` assumes that there is a category, an expense row and a balance row, that there
are at most as many accounts as balance rows (the code has four connectors and reserves
eight rows) and at least one, and that `None` is not an amount anybody types.

Not proved, and why.  Liveness (`RunEnds`, `CallEnds`, `SettledMovementsAreShown`,
`BookedIsShown`) rests on fairness and ENABLED, which are outside what the prover's
temporal backend handles; they stay with TLC.  Every safety invariant and every
action property that a passing run checks is a theorem.

## 6. Findings

1. `layout_writer_half_made`: a creation cut short leaves a tab; every later write
   finds it, takes the refresh path, succeeds, and never places what is missing.
2. `enable_banking_null`: FR-012 of feature 002 asks that a record without its
   mandatory fields be left out "instead of aborting the whole retrieval"; a settled
   record whose amount block or date is a JSON `null` raises `TypeError`, and the
   whole call fails.
3. `secret_store_overlap`: two `set` calls that overlap both succeed, and one of
   the values is not there afterwards (`ExitZeroIsStored`).

Observations made while modelling, which no run states:

- `SheetsWriter.write` documents the classes it raises (`sheets/writer.py:113-117`),
  but `spreadsheet.worksheet` and `worksheet.clear` (lines 86 and 92) stand outside
  the `except` clauses that translate: a quota or permission error there leaves as
  `gspread.exceptions.APIError`.  The model has it so (`Raises`' second argument);
  every caller catches any exception.
- `BankPass` documents that a bank without a session has no failure
  (`daily.py:52-55`), but the two stages read the secret apart: if it becomes the
  placeholder between them, a failed first stage and a "not onboarded" second one end
  in one pass.  The workflow writes the secrets before the command starts, so the
  models change sessions only between runs.
- The format contract of `.env` says that comments are preserved on read and write
  (`specs/001-project-skeleton-ci/contracts/secret-store-format.md:30`); `set` writes
  the entries only (`secret_store.py:103`).
- The money format covers `K4:K19` (`sheets/layout.py:489`, `526`) and so the cell
  beside "Saldos al", which `USER_ENTERED` turned into a date: the reference date FR-008
  of feature 008 asks for is there, displayed as an amount.

Three limits are the code's own decisions and not findings.  A `set` that is cut short
after the file was emptied loses every secret: this is the condition of
`WrittenIsKept`.  Two movements of one day with the same amount and description
count as one, as FR-013 of feature 002 prescribes: `AnswerIsComplete` is about keys.
And the group serialises the workflows only: a local run beside the job may leave a
mixture of both in the raw tab until the next run, which is why `LoneRunIsExact`
speaks of runs without company.

## 7. Not modelled

The text of log lines, mails and printed reports; cryptography; JWT signing; parsing
of provider JSON; argument parsing; the order of the rows of the raw tab.  The
steps of the workflows before the program starts (checkout, Python, writing the
secrets): they either succeed or no run happens, which `JobEndsEarly` covers.  The
entry point, the logging configuration and CI, which keep no state.

## 8. Plan

What could be added next: reading the refinements the other way round, so that the daily
pass is checked over `TabStore` and `LayoutStore` instead of the two writers.  Its steps would be
far fewer and its instances could have three banks and three months; the theorems
`RawTabsKeepTheirPromise` and `LayoutTabsKeepTheirPromise` say that every
history of the tabs is one that such a model has.
