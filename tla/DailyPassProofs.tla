--------------------------- MODULE DailyPassProofs ---------------------------
(***************************************************************************)
(* What the daily run promises, proved for any banks, order of banks,      *)
(* movements, months, balances and number of faults.                       *)
(*                                                                         *)
(* The two writers come with their own theorems: their proof modules are   *)
(* instantiated on the run's variables, and of a request of a writer only  *)
(* its StepFacts are used here.  What is added is the run: that the        *)
(* writers' calls are those of its phase and carry its own answers, and    *)
(* that the answers are those of the run's month.                          *)
(***************************************************************************)
EXTENDS DailyPass, FiniteSetTheorems, TLAPS

RawP == INSTANCE SheetsWriterProofs WITH
          Tab <- Month, Batch <- SUBSET Movement,
          tabs <- raw, pc <- rawPc, job <- rawJob, err <- rawErr

LayP == INSTANCE LayoutWriterProofs WITH
          Tab <- Month, Batch <- SUBSET Movement, Panel <- Balances,
          tabs <- gastos, pc <- layPc, job <- layJob, created <- layCreated,
          dressing <- layDressing, err <- layErr

\* The banks whose movements the run has asked for.
Asked == {BankOrder[i] : i \in 1..(IF phase = "transactions" THEN at - 1 ELSE at)}

DueOf(b) == {m \in due : BankOf[m] = b}

\* A writer is called in its phase only, the layout writer only after the raw
\* write returned, and both with what this run got from the banks.
WritersFollowRun ==
  /\ phase \in {"off", "transactions", "balance", "classify", "document"}
       => rawPc = "idle" /\ layPc = "idle"
  /\ phase = "raw" => rawPc # "idle" /\ layPc = "idle"
  /\ phase = "layout" => rawPc = "done" /\ layPc # "idle"
  /\ rawPc # "idle" => rawJob = [tab |-> runMonth, rows |-> RawRows]
  /\ layPc # "idle" => layJob = [tab |-> runMonth, rows |-> ExpenseRows,
                                 balances |-> PanelBalances]

\* What the run has made of the answers so far.
OutcomeSoFar ==
  /\ phase \notin {"off", "summary"} => failed = "none"
  /\ phase \in {"document", "raw", "layout"} => SomeSucceeded
  /\ failed = "total" => ~SomeSucceeded
  /\ phase = "summary" /\ failed = "none" =>
       IF SomeSucceeded THEN rawPc = "done" /\ layPc = "done" ELSE ~SomeFailed
  /\ phase # "off" => report = NoReport

\* What the banks asked so far have answered, against what was due of them.
AnswersSoFar ==
  /\ \A b \in Bank : \A m \in passes[b].txs : MonthOf[m] = runMonth
  /\ phase # "off" =>
       /\ \A m \in due : /\ m \in booked /\ MonthOf[m] = runMonth
                         /\ session[BankOf[m]] = "live"
       /\ \A b \in Bank : passes[b].notOnboarded => session[b] # "live"
       /\ \A b \in Asked : IF session[b] = "live"
                             THEN passes[b].txFailed \/ DueOf(b) \subseteq passes[b].txs
                             ELSE passes[b].txFailed \/ passes[b].notOnboarded
  /\ phase \notin {"off", "transactions", "balance"} => at = Len(BankOrder)

\* After a run that wrote, there is a layout tab to speak of.
BoardIsThere == Wrote => gastos[runMonth] # Absent

IInv ==
  /\ TypeOK
  /\ RawP!IInv
  /\ LayP!IInv
  /\ WritersFollowRun
  /\ OutcomeSoFar
  /\ AnswersSoFar
  /\ BoardIsThere
  /\ BoardMatchesRun
  /\ ExitZeroIsComplete
  /\ MailAgreesWithExit
  /\ RowsStayInTheirMonth
-----------------------------------------------------------------------------
(* The raw writer, as a part of the run. *)

LEMMA SubsetsAreFinite == \A S \in SUBSET Movement : IsFiniteSet(S)
BY MovementsAreFinite, FS_Subset

LEMMA RawAssumptions ==
  RawP!BatchIsSets /\ RawP!StatusIsHttp /\ RawP!AbsentIsNoTab /\ RawP!NoJobIsNoJob
<1>1. \A S : RawP!IsFiniteSet(S) <=> IsFiniteSet(S)
  BY DEF RawP!IsFiniteSet, IsFiniteSet
<1>2. RawP!BatchIsSets
  BY <1>1, SubsetsAreFinite DEF RawP!BatchIsSets
<1>3. RawP!StatusIsHttp
  BY StatusIsHttp DEF RawP!StatusIsHttp
<1>4. RawP!AbsentIsNoTab
  BY MarkersAreFresh DEF RawP!AbsentIsNoTab, Raw!Content, Raw!Row
<1>5. RawP!NoJobIsNoJob
  BY MarkersAreFresh DEF RawP!NoJobIsNoJob, Raw!Job
<1> QED
  BY <1>2, <1>3, <1>4, <1>5

LEMMA RawVocabulary ==
  /\ RawP!Blank = Raw!Blank /\ Raw!Blank.rows = {} /\ Raw!Blank # Absent
  /\ \A R : RawP!Table(R) = Raw!Table(R) /\ Raw!Table(R).rows = R
  /\ \A R \in SUBSET Movement : Raw!Table(R) # Absent
  /\ Raw!Running = RawP!Running
<1>1. Raw!Blank \in Raw!Content /\ \A R \in SUBSET Movement : Raw!Table(R) \in Raw!Content
  BY DEF Raw!Blank, Raw!Table, Raw!Content, Raw!Row
<1> QED
  BY <1>1, MarkersAreFresh
     DEF RawP!Blank, Raw!Blank, RawP!Table, Raw!Table, Raw!Running, RawP!Running

LEMMA RawStarts == Init => RawP!IInv
<1>1. Init => RawP!Init
  BY DEF Init, RawP!Init
<1> QED
  BY <1>1, RawAssumptions, RawP!InitIInv DEF RawP!InitIInv

LEMMA RawRests == RawP!IInv /\ UNCHANGED rawVars => RawP!IInv'
<1>1. UNCHANGED rawVars => [RawP!Next]_RawP!vars
  BY DEF rawVars, RawP!vars
<1> QED
  BY <1>1, RawAssumptions, RawP!NextIInv DEF RawP!NextIInv

LEMMA RawCalled ==
  ASSUME RawP!IInv, NEW t \in Month, NEW R \in SUBSET Movement, Raw!Write(t, R)
  PROVE  /\ RawP!IInv'
         /\ rawPc' = "open" /\ rawJob' = [tab |-> t, rows |-> R] /\ raw' = raw
<1>1. RawP!Write(t, R)
  BY DEF Raw!Write, RawP!Write, Raw!AtRest, RawP!AtRest
<1>2. RawP!IInv'
  BY <1>1, RawAssumptions, RawP!NextIInv DEF RawP!NextIInv, RawP!Next
<1> QED
  BY <1>2 DEF Raw!Write

LEMMA RawRequest ==
  ASSUME RawP!IInv, Raw!Step
  PROVE  /\ RawP!IInv' /\ RawP!Step
         /\ rawPc' # "idle" /\ rawPc \in Raw!Running /\ rawJob' = rawJob
         /\ \A t \in Month :
              raw'[t] = raw[t] \/ (/\ t = rawJob.tab
                                   /\ raw'[t] \in {Raw!Blank, Raw!Table(rawJob.rows)})
<1>1. RawP!Step
  BY DEF Raw!Step, RawP!Step, Raw!Open, RawP!Open, Raw!Resolve, RawP!Resolve, Raw!Clear,
         RawP!Clear, Raw!Add, RawP!Add, Raw!Update, RawP!Update, Raw!Answered, RawP!Answered,
         Raw!Raises, RawP!Raises, Raw!Raise, RawP!Raise, Raw!Translate, RawP!Translate,
         Raw!Becomes, RawP!Becomes, Raw!Overlay, RawP!Overlay, Raw!Blank, RawP!Blank,
         Raw!Table, RawP!Table, Raw!Cardinality, RawP!Cardinality
<1>2. RawP!IInv'
  BY <1>1, RawAssumptions, RawP!NextIInv DEF RawP!NextIInv, RawP!Next
<1>3. /\ rawPc \in RawP!Running /\ rawPc' \in RawP!Running \cup {"done", "failed"}
      /\ rawJob' = rawJob
      /\ RawP!Addresses({RawP!Blank, RawP!Table(rawJob.rows)})
  BY <1>1, RawAssumptions, RawP!StepFacts DEF RawP!StepFacts
<1> QED
  BY <1>1, <1>2, <1>3, RawVocabulary DEF RawP!Addresses, RawP!Running

LEMMA RawGone ==
  ASSUME RawP!IInv, IF rawPc = "idle" THEN UNCHANGED rawVars ELSE Raw!ProcessEnds
  PROVE  RawP!IInv' /\ rawPc' = "idle" /\ raw' = raw
<1>1. CASE rawPc = "idle"
  BY <1>1, RawRests DEF rawVars
<1>2. CASE rawPc # "idle"
  <2>1. RawP!ProcessEnds
    BY <1>2 DEF Raw!ProcessEnds, RawP!ProcessEnds
  <2>2. RawP!IInv'
    BY <2>1, RawAssumptions, RawP!NextIInv DEF RawP!NextIInv, RawP!Next
  <2> QED
    BY <1>2, <2>2 DEF Raw!ProcessEnds
<1> QED
  BY <1>1, <1>2

\* What the run relies on once the call returned.
LEMMA RawReturns == RawP!IInv /\ rawPc = "done" => raw[rawJob.tab] = Raw!Table(rawJob.rows)
BY RawVocabulary DEF RawP!IInv, RawP!WrittenIsExact

LEMMA RawTyped == (RawP!IInv => Raw!TypeOK) /\ (RawP!IInv' => Raw!TypeOK')
BY DEF RawP!IInv, RawP!TypeOK, Raw!TypeOK, RawP!Content, Raw!Content, RawP!Row, Raw!Row,
       RawP!Running, Raw!Running, RawP!AtRest, Raw!AtRest, RawP!Job, Raw!Job,
       RawP!Errors, Raw!Errors, RawP!Documented, Raw!Documented
-----------------------------------------------------------------------------
(* The layout writer, as a part of the run. *)

LEMMA LayAssumptions ==
  /\ LayP!BatchIsSets /\ LayP!PanelIsPerBank /\ LayP!StatusIsHttp
  /\ LayP!CreationDresses /\ LayP!CeilingIsNat /\ LayP!MarkersAreFresh
<1>1. \A S : LayP!IsFiniteSet(S) <=> IsFiniteSet(S)
  BY DEF LayP!IsFiniteSet, IsFiniteSet
<1>2. LayP!BatchIsSets
  BY <1>1, SubsetsAreFinite DEF LayP!BatchIsSets
<1>3. LayP!PanelIsPerBank
  BY DEF LayP!PanelIsPerBank, Balances
<1>4. LayP!StatusIsHttp /\ LayP!CeilingIsNat
  BY StatusIsHttp, CeilingIsNat DEF LayP!StatusIsHttp, LayP!CeilingIsNat
<1>5. LayP!CreationDresses
  BY CreationDresses DEF LayP!CreationDresses
<1>6. LayP!MarkersAreFresh
  BY MarkersAreFresh DEF LayP!MarkersAreFresh, LayP!Content, LayP!Job, LayP!Row,
                         Lay!Content, Lay!Job, Lay!Row
<1> QED
  BY <1>2, <1>3, <1>4, <1>5, <1>6

LEMMA LayStarts == Init => LayP!IInv
<1>1. Init => LayP!Init
  BY DEF Init, Lay!Init, LayP!Init
<1> QED
  BY <1>1, LayAssumptions, LayP!InitIInv DEF LayP!InitIInv

LEMMA LayRests == LayP!IInv /\ UNCHANGED layVars => LayP!IInv'
<1>1. UNCHANGED layVars => [LayP!Next]_LayP!vars
  BY DEF layVars, LayP!vars
<1> QED
  BY <1>1, LayAssumptions, LayP!NextIInv DEF LayP!NextIInv

LEMMA LayCalled ==
  ASSUME LayP!IInv, NEW t \in Month, NEW R \in SUBSET Movement, NEW p \in Balances,
         Lay!Write(t, R, p)
  PROVE  /\ LayP!IInv'
         /\ layPc' # "idle" /\ layPc' # "done" /\ gastos' = gastos
         /\ layJob' = [tab |-> t, rows |-> R, balances |-> p]
<1>1. LayP!Write(t, R, p)
  BY DEF Lay!Write, LayP!Write, Lay!AtRest, LayP!AtRest, Lay!Cardinality, LayP!Cardinality
<1>2. LayP!IInv'
  BY <1>1, LayAssumptions, LayP!NextIInv DEF LayP!NextIInv, LayP!Next
<1> QED
  BY <1>2 DEF Lay!Write

\* The rows a layout tab shows, in the words of LayoutWriterProofs.
LEMMA LayoutShowsExpenses ==
  \A t \in Month : LayoutShows(t) = LayP!ExpensesOf(gastos[t])
BY DEF LayoutShows, LayP!ExpensesOf

LEMMA LayRequest ==
  ASSUME LayP!IInv, Lay!Step
  PROVE  /\ LayP!IInv' /\ LayP!Step
         /\ layPc' # "idle" /\ layJob' = layJob
         /\ \A t \in Month :
              gastos'[t] = gastos[t]
                \/ (/\ t = layJob.tab
                    /\ LayoutShows(t)' \in {LayoutShows(t), {}, layJob.rows})
<1>1. LayP!Step
  <2> USE DEF Lay!Request, LayP!Request, Lay!Answered, LayP!Answered, Lay!Raises, LayP!Raises,
              Lay!Raise, LayP!Raise, Lay!Translate, LayP!Translate, Lay!Becomes, LayP!Becomes,
              Lay!Target, LayP!Target, Lay!AfterExpenses, LayP!AfterExpenses
  <2>1. Lay!Open \/ Lay!Resolve => LayP!Open \/ LayP!Resolve
    BY DEF Lay!Open, LayP!Open, Lay!Resolve, LayP!Resolve
  <2>2. Lay!Add => LayP!Add
    BY DEF Lay!Add, LayP!Add, Lay!NewSheet, LayP!NewSheet
  <2>3. Lay!Grid => LayP!Grid
    BY DEF Lay!Grid, LayP!Grid, Lay!WithGrid, LayP!WithGrid, Lay!RowsOver, LayP!RowsOver,
           Lay!PanelOver, LayP!PanelOver, Lay!Cardinality, LayP!Cardinality
  <2>4. Lay!ClearExpenses => LayP!ClearExpenses
    BY DEF Lay!ClearExpenses, LayP!ClearExpenses, Lay!WithoutExpenses, LayP!WithoutExpenses
  <2>5. Lay!FillExpenses => LayP!FillExpenses
    BY DEF Lay!FillExpenses, LayP!FillExpenses, Lay!WithExpenses, LayP!WithExpenses,
           Lay!RowsOver, LayP!RowsOver, Lay!Cardinality, LayP!Cardinality
  <2>6. Lay!Dress \/ Lay!FormatPanel => LayP!Dress \/ LayP!FormatPanel
    BY DEF Lay!Dress, LayP!Dress, Lay!FormatPanel, LayP!FormatPanel, Lay!Dressed,
           LayP!Dressed, Lay!PanelFormat, LayP!PanelFormat
  <2>7. Lay!WipePanel \/ Lay!RefillPanel => LayP!WipePanel \/ LayP!RefillPanel
    BY DEF Lay!WipePanel, LayP!WipePanel, Lay!RefillPanel, LayP!RefillPanel,
           Lay!WithoutPanel, LayP!WithoutPanel, Lay!WithPanel, LayP!WithPanel,
           Lay!PanelOver, LayP!PanelOver
  <2> QED
    BY <2>1, <2>2, <2>3, <2>4, <2>5, <2>6, <2>7, Zenon DEF Lay!Step, LayP!Step
<1>2. LayP!IInv'
  BY <1>1, LayAssumptions, LayP!NextIInv DEF LayP!NextIInv, LayP!Next
<1>3. /\ layPc' \in (LayP!Running \cup {"done", "failed"}) /\ layJob' = layJob
      /\ \A t \in Month : LayP!Addresses(t)
  BY <1>1, LayAssumptions, LayP!StepFacts DEF LayP!StepFacts
<1> QED
  BY <1>1, <1>2, <1>3 DEF LayP!Addresses, LayP!ExpensesOf, LayoutShows, LayP!Running

LEMMA LayGone ==
  ASSUME LayP!IInv, IF layPc = "idle" THEN UNCHANGED layVars ELSE Lay!ProcessEnds
  PROVE  LayP!IInv' /\ layPc' = "idle" /\ gastos' = gastos
<1>1. CASE layPc = "idle"
  BY <1>1, LayRests DEF layVars
<1>2. CASE layPc # "idle"
  <2>1. LayP!ProcessEnds
    BY <1>2 DEF Lay!ProcessEnds, LayP!ProcessEnds
  <2>2. LayP!IInv'
    BY <2>1, LayAssumptions, LayP!NextIInv DEF LayP!NextIInv, LayP!Next
  <2> QED
    BY <1>2, <2>2 DEF Lay!ProcessEnds
<1> QED
  BY <1>1, <1>2

\* Typing changes nothing a run writes.
LEMMA LayTyped ==
  ASSUME LayP!IInv, NEW t \in Month, NEW c \in Category, Lay!HandType(t, c)
  PROVE  /\ LayP!IInv'
         /\ \A u \in Month : /\ LayoutShows(u)' = LayoutShows(u)
                             /\ gastos[u] # Absent => /\ gastos'[u] # Absent
                                                      /\ gastos'[u].panel = gastos[u].panel
         /\ UNCHANGED <<layPc, layJob>>
         /\ gastos[t] # Absent /\ gastos'[t].shared # gastos[t].shared
         /\ \A u \in Month \ {t} : gastos'[u] = gastos[u]
<1>1. LayP!HandType(t, c)
  BY DEF Lay!HandType, LayP!HandType
<1>2. LayP!IInv'
  BY <1>1, LayAssumptions, LayP!NextIInv DEF LayP!NextIInv, LayP!Next
<1>3. /\ gastos[t] \in LayP!Sound /\ gastos'[t] \in LayP!Sound
      /\ gastos'[t] = [gastos[t] EXCEPT !.shared = gastos[t].shared \cup {c}]
      /\ \A u \in Month \ {t} : gastos'[u] = gastos[u]
  BY <1>1, LayAssumptions, LayP!HandTypeFacts DEF LayP!HandTypeFacts
<1>4. gastos[t] # Absent /\ gastos'[t] # Absent
  BY <1>3, LayAssumptions, LayP!NewSheetFacts DEF LayP!NewSheetFacts
<1>5. /\ gastos'[t].panel = gastos[t].panel /\ gastos'[t].expenses = gastos[t].expenses
      /\ gastos'[t].shared = gastos[t].shared \cup {c}
  BY <1>3 DEF LayP!Sound, LayP!Content
<1>6. c \notin gastos[t].shared /\ UNCHANGED <<layPc, layJob>>
  BY <1>1 DEF LayP!HandType
<1> QED
  BY <1>2, <1>3, <1>4, <1>5, <1>6 DEF LayoutShows

\* What the run relies on once the call returned.
LEMMA LayReturns ==
  LayP!IInv /\ layPc = "done" => /\ gastos[layJob.tab] # Absent
                                 /\ LayoutShows(layJob.tab) = layJob.rows
                                 /\ gastos[layJob.tab].panel = layJob.balances
BY DEF LayP!IInv, LayP!WrittenIsExact, LayP!TargetSoFar, LayP!Target, LayoutShows

LEMMA LayWellTyped == (LayP!IInv => Lay!TypeOK) /\ (LayP!IInv' => Lay!TypeOK')
BY DEF LayP!IInv, LayP!TypeOK, Lay!TypeOK, LayP!Content, Lay!Content, LayP!Row, Lay!Row,
       LayP!Running, Lay!Running, LayP!AtRest, Lay!AtRest, LayP!Job, Lay!Job,
       LayP!Errors, Lay!Errors
-----------------------------------------------------------------------------
(* One lemma per action of the run and of its world. *)

LEMMA OrderFacts ==
  /\ Len(BankOrder) \in Nat \ {0}
  /\ \A i \in 1..Len(BankOrder) : BankOrder[i] \in Bank
  /\ Bank = {BankOrder[i] : i \in 1..Len(BankOrder)}
BY OrderListsBanks

LEMMA InitIInv == Init => IInv
<1> SUFFICES ASSUME Init PROVE IInv
  OBVIOUS
<1>1. RawP!IInv /\ LayP!IInv
  BY RawStarts, LayStarts
<1>2. TypeOK
  BY <1>1, RawTyped, LayWellTyped, OrderFacts, BoundsAreNat
     DEF Init, TypeOK, Month, BankPass, NotQueried, Report, NoReport, Phases, Failures, Subjects
<1>3. WritersFollowRun /\ OutcomeSoFar
  BY DEF Init, Lay!Init, WritersFollowRun, OutcomeSoFar
<1>4. AnswersSoFar
  BY DEF Init, AnswersSoFar, NotQueried
<1>5. BoardIsThere /\ BoardMatchesRun /\ ExitZeroIsComplete /\ MailAgreesWithExit
  BY DEF Init, NoReport, BoardIsThere, BoardMatchesRun, ExitZeroIsComplete, MailAgreesWithExit, Wrote, Ended
<1>6. RowsStayInTheirMonth
  BY DEF Init, Lay!Init, RowsStayInTheirMonth, RawShows, LayoutShows
<1> QED
  BY <1>1, <1>2, <1>3, <1>4, <1>5, <1>6 DEF IInv

\* The calendar, the banks and the sessions: a run knows what it was told.
LEMMA WorldKeeps ==
  ASSUME IInv, UNCHANGED <<runVars, rawVars, layVars>>
  PROVE  /\ RawP!IInv' /\ LayP!IInv' /\ Raw!TypeOK' /\ Lay!TypeOK'
         /\ WritersFollowRun' /\ OutcomeSoFar'
         /\ BoardIsThere' /\ BoardMatchesRun' /\ ExitZeroIsComplete'
         /\ MailAgreesWithExit' /\ RowsStayInTheirMonth'
<1>0. /\ UNCHANGED <<phase, runMonth, at, passes, failed, report, due>>
      /\ UNCHANGED <<raw, rawPc, rawJob, gastos, layPc, layJob>>
  BY DEF runVars, rawVars, layVars
<1>1. RawP!IInv' /\ LayP!IInv' /\ Raw!TypeOK' /\ Lay!TypeOK'
  BY RawRests, LayRests, RawTyped, LayWellTyped DEF IInv
<1>2. WritersFollowRun'
  BY <1>0 DEF IInv, WritersFollowRun, RawRows, ExpenseRows, PanelBalances
<1>3. OutcomeSoFar'
  BY <1>0 DEF IInv, OutcomeSoFar, SomeSucceeded, SomeFailed
<1>4. BoardIsThere' /\ BoardMatchesRun'
  BY <1>0 DEF IInv, BoardIsThere, BoardMatchesRun, Wrote, Ended, SomeSucceeded, Listed, LayoutShows
<1>5. ExitZeroIsComplete'
  BY <1>0 DEF IInv, ExitZeroIsComplete, Ended, RawShows, LayoutShows
<1>6. MailAgreesWithExit'
  BY <1>0 DEF IInv, MailAgreesWithExit, Ended
<1>7. RowsStayInTheirMonth'
  BY <1>0 DEF IInv, RowsStayInTheirMonth, RawShows, LayoutShows
<1> QED
  BY <1>1, <1>2, <1>3, <1>4, <1>5, <1>6, <1>7

LEMMA BookKeeps == ASSUME IInv, NEW m \in Movement, Book(m) PROVE IInv'
<1>1. UNCHANGED <<runVars, rawVars, layVars>>
  BY DEF Book
<1>2. TypeOK'
  BY <1>1, WorldKeeps DEF Book, IInv, TypeOK, runVars
<1>3. AnswersSoFar'
  BY <1>1 DEF Book, IInv, runVars, AnswersSoFar, Asked, DueOf
<1> QED
  BY <1>1, <1>2, <1>3, WorldKeeps DEF IInv

LEMMA NextMonthKeeps == IInv /\ NextMonth => IInv'
<1> SUFFICES ASSUME IInv, NextMonth PROVE IInv'
  OBVIOUS
<1>1. UNCHANGED <<runVars, rawVars, layVars>>
  BY DEF NextMonth
<1>2. TypeOK'
  BY <1>1, WorldKeeps, BoundsAreNat DEF NextMonth, IInv, TypeOK, runVars, Month
<1>3. AnswersSoFar'
  BY <1>1 DEF NextMonth, IInv, runVars, AnswersSoFar, Asked, DueOf
<1> QED
  BY <1>1, <1>2, <1>3, WorldKeeps DEF IInv

LEMMA SetSessionKeeps == ASSUME IInv, NEW b \in Bank, SetSession(b) PROVE IInv'
<1>1. UNCHANGED <<runVars, rawVars, layVars>> /\ phase = "off"
  BY DEF SetSession
<1>2. TypeOK'
  BY <1>1, WorldKeeps DEF SetSession, IInv, TypeOK, runVars
<1>3. AnswersSoFar'
  BY <1>1 DEF SetSession, IInv, runVars, AnswersSoFar
<1> QED
  BY <1>1, <1>2, <1>3, WorldKeeps DEF IInv

LEMMA HandTypeKeeps ==
  ASSUME IInv, NEW t \in Month, NEW c \in Category, HandType(t, c)
  PROVE  IInv'
<1>0. /\ UNCHANGED <<envVars, runVars, faults, rawVars>>
      /\ UNCHANGED <<month, booked, session>>
      /\ UNCHANGED <<phase, runMonth, at, passes, failed, report, due>>
      /\ UNCHANGED <<raw, rawPc, rawJob>>
      /\ Lay!HandType(t, c)
  BY DEF HandType, envVars, runVars, rawVars
<1>1. /\ LayP!IInv' /\ UNCHANGED <<layPc, layJob>>
      /\ \A u \in Month : /\ LayoutShows(u)' = LayoutShows(u)
                          /\ gastos[u] # Absent => /\ gastos'[u] # Absent
                                                   /\ gastos'[u].panel = gastos[u].panel
  BY <1>0, LayTyped DEF IInv
<1>2. RawP!IInv' /\ Raw!TypeOK' /\ Lay!TypeOK'
  BY <1>0, <1>1, RawRests, RawTyped, LayWellTyped DEF IInv
<1>3. TypeOK'
  BY <1>0, <1>2 DEF IInv, TypeOK
<1>4. WritersFollowRun' /\ OutcomeSoFar' /\ AnswersSoFar'
  BY <1>0, <1>1 DEF IInv, WritersFollowRun, RawRows, ExpenseRows, PanelBalances, OutcomeSoFar,
                    SomeSucceeded, SomeFailed, AnswersSoFar, Asked, DueOf
<1>5. BoardIsThere' /\ BoardMatchesRun'
  BY <1>0, <1>1 DEF IInv, TypeOK, BoardIsThere, BoardMatchesRun, Wrote, Ended, SomeSucceeded, Listed
<1>6. ExitZeroIsComplete'
  BY <1>0, <1>1 DEF IInv, TypeOK, ExitZeroIsComplete, Ended, RawShows
<1>7. MailAgreesWithExit'
  BY <1>0 DEF IInv, MailAgreesWithExit, Ended
<1>8. RowsStayInTheirMonth'
  BY <1>0, <1>1 DEF IInv, RowsStayInTheirMonth, RawShows
<1> QED
  BY <1>1, <1>2, <1>3, <1>4, <1>5, <1>6, <1>7, <1>8 DEF IInv

\* While a run is under way nothing is claimed of what it left.
LEMMA UnderWay ==
  phase' # "off" =>
    BoardIsThere' /\ BoardMatchesRun' /\ ExitZeroIsComplete' /\ MailAgreesWithExit'
BY DEF BoardIsThere, BoardMatchesRun, ExitZeroIsComplete, MailAgreesWithExit, Wrote, Ended

LEMMA TabsRest == RowsStayInTheirMonth /\ UNCHANGED <<raw, gastos>> => RowsStayInTheirMonth'
BY DEF RowsStayInTheirMonth, RawShows, LayoutShows

LEMMA WritersRest ==
  ASSUME IInv, UNCHANGED <<rawVars, layVars>>
  PROVE  /\ RawP!IInv' /\ LayP!IInv' /\ Raw!TypeOK' /\ Lay!TypeOK' /\ RowsStayInTheirMonth'
         /\ UNCHANGED <<raw, rawPc, rawJob, gastos, layPc, layJob>>
BY RawRests, LayRests, RawTyped, LayWellTyped, TabsRest DEF IInv, rawVars, layVars

LEMMA StartRunKeeps == IInv /\ StartRun => IInv'
<1> SUFFICES ASSUME IInv, StartRun PROVE IInv'
  OBVIOUS
<1>0. /\ phase = "off" /\ phase' = "transactions" /\ runMonth' = month /\ at' = 1
      /\ passes' = [b \in Bank |-> NotQueried] /\ failed' = "none" /\ report' = NoReport
      /\ due' = {m \in booked : MonthOf[m] = month /\ session[BankOf[m]] = "live"}
      /\ UNCHANGED <<month, booked, session, faults>>
      /\ UNCHANGED <<rawVars, layVars>>
  BY DEF StartRun, envVars
<1>1. RawP!IInv' /\ LayP!IInv' /\ RowsStayInTheirMonth'
  BY <1>0, WritersRest
<1>2. TypeOK'
  <2>1. NotQueried \in BankPass /\ NoReport \in Report
    BY DEF NotQueried, BankPass, NoReport, Report, Subjects
  <2>2. passes' \in [Bank -> BankPass]
    BY <1>0, <2>1
  <2>3. phase' \in Phases /\ failed' \in Failures /\ at' \in 1..Len(BankOrder)
    BY <1>0, OrderFacts DEF Phases, Failures
  <2>4. due' \subseteq Movement
    BY <1>0 DEF IInv, TypeOK
  <2> QED
    BY <1>0, <2>1, <2>2, <2>3, <2>4, WritersRest DEF IInv, TypeOK
<1>3. WritersFollowRun' /\ OutcomeSoFar'
  BY <1>0, WritersRest DEF IInv, WritersFollowRun, OutcomeSoFar
<1>4. AnswersSoFar'
  <2>1. Asked' = {}
    BY <1>0 DEF Asked
  <2>2. \A b \in Bank : passes'[b].txs = {} /\ ~passes'[b].notOnboarded
    BY <1>0 DEF NotQueried
  <2> QED
    BY <1>0, <2>1, <2>2 DEF AnswersSoFar
<1> QED
  BY <1>0, <1>1, <1>2, <1>3, <1>4, UnderWay DEF IInv

LEMMA ChargeFacts ==
  faults \in 0..MaxFaults =>
    \A goesWrong \in BOOLEAN : Charge(goesWrong) => faults' \in 0..MaxFaults
BY BoundsAreNat DEF Charge

\* A stage tells one thing of one bank: what is known of the others stays.
LEMMA ToldOf ==
  ASSUME passes \in [Bank -> BankPass], NEW b \in Bank, NEW p \in BankPass,
         passes' = [passes EXCEPT ![b] = p]
  PROVE  /\ passes' \in [Bank -> BankPass] /\ passes'[b] = p
         /\ \A c \in Bank \ {b} : passes'[c] = passes[c]
OBVIOUS

LEMMA PassFacts ==
  ASSUME NEW p \in BankPass, NEW list \in SUBSET Movement, NEW v \in Balance \cup {NoBalance}
  PROVE  /\ [p EXCEPT !.txs = list] \in BankPass
         /\ [p EXCEPT !.balance = v] \in BankPass
         /\ [p EXCEPT !.txFailed = TRUE] \in BankPass
         /\ [p EXCEPT !.balFailed = TRUE] \in BankPass
         /\ [p EXCEPT !.notOnboarded = TRUE] \in BankPass
BY DEF BankPass

LEMMA FetchTransactionsKeeps == IInv /\ FetchTransactions => IInv'
<1> SUFFICES ASSUME IInv, FetchTransactions PROVE IInv'
  OBVIOUS
<1> DEFINE b == BankOrder[at]
           settled == {m \in booked : BankOf[m] = b /\ MonthOf[m] = runMonth}
<1>0. /\ phase = "transactions" /\ phase' = "balance"
      /\ UNCHANGED <<month, booked, session, runMonth, due, at, failed, report>>
      /\ UNCHANGED <<rawVars, layVars>>
      /\ b \in Bank /\ settled \in SUBSET Movement
  BY OrderFacts DEF FetchTransactions, envVars, IInv, TypeOK
<1>1. RawP!IInv' /\ LayP!IInv' /\ RowsStayInTheirMonth'
  BY <1>0, WritersRest
<1>2. \/ /\ session[b] = "live"
         /\ \E list \in SUBSET settled : /\ due \cap settled \subseteq list
                                         /\ passes' = [passes EXCEPT ![b].txs = list]
         /\ UNCHANGED faults
      \/ /\ session[b] = "unconfigured"
         /\ passes' = [passes EXCEPT ![b].notOnboarded = TRUE]
         /\ UNCHANGED faults
      \/ /\ passes' = [passes EXCEPT ![b].txFailed = TRUE]
         /\ Charge(TRUE)
  BY Zenon DEF FetchTransactions
<1>7. passes \in [Bank -> BankPass] /\ passes[b] \in BankPass
  BY <1>0 DEF IInv, TypeOK
<1>8. /\ passes' \in [Bank -> BankPass]
      /\ \A c \in Bank \ {b} : passes'[c] = passes[c]
      /\ passes[b].txFailed => passes'[b].txFailed
      /\ \/ /\ session[b] = "live" /\ passes'[b].notOnboarded = passes[b].notOnboarded
            /\ passes'[b].txs \subseteq settled /\ due \cap settled \subseteq passes'[b].txs
         \/ session[b] # "live" /\ passes'[b].notOnboarded /\ passes'[b].txs = passes[b].txs
         \/ /\ passes'[b].txFailed /\ passes'[b].txs = passes[b].txs
            /\ passes'[b].notOnboarded = passes[b].notOnboarded
  <2>1. CASE \E list \in SUBSET settled : /\ session[b] = "live" /\ due \cap settled \subseteq list
                                          /\ passes' = [passes EXCEPT ![b].txs = list]
    <3>1. PICK list \in SUBSET settled :
            /\ session[b] = "live" /\ due \cap settled \subseteq list
            /\ passes' = [passes EXCEPT ![b].txs = list]
      BY <2>1
    <3> DEFINE p == [passes[b] EXCEPT !.txs = list]
    <3>2. p \in BankPass
      BY <1>0, <1>7, PassFacts
    <3>3. passes' = [passes EXCEPT ![b] = p]
      BY <3>1
    <3>4. p.txs = list /\ p.txFailed = passes[b].txFailed /\ p.notOnboarded = passes[b].notOnboarded
      BY <1>7 DEF BankPass
    <3> HIDE DEF p
    <3> QED
      BY <1>0, <1>7, <3>1, <3>2, <3>3, <3>4, ToldOf
  <2>2. CASE session[b] = "unconfigured" /\ passes' = [passes EXCEPT ![b].notOnboarded = TRUE]
    <3> DEFINE p == [passes[b] EXCEPT !.notOnboarded = TRUE]
    <3>2. p \in BankPass
      BY <1>7, PassFacts
    <3>3. passes' = [passes EXCEPT ![b] = p]
      BY <2>2
    <3>4. p.txs = passes[b].txs /\ p.txFailed = passes[b].txFailed /\ p.notOnboarded
      BY <1>7 DEF BankPass
    <3> HIDE DEF p
    <3> QED
      BY <1>0, <1>7, <2>2, <3>2, <3>3, <3>4, ToldOf
  <2>3. CASE passes' = [passes EXCEPT ![b].txFailed = TRUE]
    <3> DEFINE p == [passes[b] EXCEPT !.txFailed = TRUE]
    <3>2. p \in BankPass
      BY <1>7, PassFacts
    <3>3. passes' = [passes EXCEPT ![b] = p]
      BY <2>3
    <3>4. p.txs = passes[b].txs /\ p.txFailed /\ p.notOnboarded = passes[b].notOnboarded
      BY <1>7 DEF BankPass
    <3> HIDE DEF p
    <3> QED
      BY <1>0, <1>7, <2>3, <3>2, <3>3, <3>4, ToldOf
  <2> HIDE DEF b, settled
  <2> QED
    BY <1>2, <2>1, <2>2, <2>3, Zenon
<1>9. faults' \in 0..MaxFaults
  BY <1>2, ChargeFacts DEF IInv, TypeOK
<1>3. TypeOK'
  <2> QED
    BY <1>0, <1>9, <1>8, WritersRest DEF IInv, TypeOK, Phases
<1>4. WritersFollowRun' /\ OutcomeSoFar'
  BY <1>0, WritersRest DEF IInv, WritersFollowRun, OutcomeSoFar
<1>5. AnswersSoFar'
  <2>2. Asked' = Asked \cup {b}
    BY <1>0, OrderFacts DEF Asked, IInv, TypeOK
  <2>3. DueOf(b) \subseteq due \cap settled /\ \A c : DueOf(c)' = DueOf(c)
    BY <1>0 DEF DueOf, IInv, AnswersSoFar
  <2>4. \A c \in Bank : \A m \in passes'[c].txs : MonthOf[m] = runMonth
    BY <1>8 DEF IInv, AnswersSoFar
  <2>5. \A c \in Bank : passes'[c].notOnboarded => session[c] # "live"
    BY <1>0, <1>8 DEF IInv, AnswersSoFar
  <2>6. \A c \in Asked' : IF session[c] = "live"
                            THEN passes'[c].txFailed \/ DueOf(c) \subseteq passes'[c].txs
                            ELSE passes'[c].txFailed \/ passes'[c].notOnboarded
    <3>1. Asked \subseteq Bank
      BY <1>0, OrderFacts DEF Asked, IInv, TypeOK
    <3>2. CASE session[b] = "live"
      BY <1>0, <1>8, <2>2, <2>3, <3>1, <3>2 DEF IInv, AnswersSoFar
    <3>3. CASE session[b] # "live"
      BY <1>0, <1>8, <2>2, <2>3, <3>1, <3>3 DEF IInv, AnswersSoFar
    <3> QED
      BY <3>2, <3>3
  <2> QED
    BY <1>0, <2>3, <2>4, <2>5, <2>6 DEF IInv, AnswersSoFar
<1> QED
  BY <1>0, <1>1, <1>3, <1>4, <1>5, UnderWay DEF IInv

LEMMA FetchBalanceKeeps == IInv /\ FetchBalance => IInv'
<1> SUFFICES ASSUME IInv, FetchBalance PROVE IInv'
  OBVIOUS
<1> DEFINE b == BankOrder[at]
<1>0. /\ phase = "balance"
      /\ UNCHANGED <<month, booked, session, runMonth, due, failed, report>>
      /\ UNCHANGED <<rawVars, layVars>>
      /\ b \in Bank
  BY OrderFacts DEF FetchBalance, envVars, IInv, TypeOK
<1>1. RawP!IInv' /\ LayP!IInv' /\ RowsStayInTheirMonth'
  BY <1>0, WritersRest
<1>2. \/ /\ session[b] = "live"
         /\ \E v \in Balance \cup {NoBalance} : passes' = [passes EXCEPT ![b].balance = v]
         /\ UNCHANGED faults
      \/ /\ session[b] = "unconfigured"
         /\ passes' = [passes EXCEPT ![b].notOnboarded = TRUE]
         /\ UNCHANGED faults
      \/ /\ passes' = [passes EXCEPT ![b].balFailed = TRUE]
         /\ Charge(TRUE)
  BY Zenon DEF FetchBalance
<1>3. \/ at < Len(BankOrder) /\ phase' = "transactions" /\ at' = at + 1
      \/ at = Len(BankOrder) /\ phase' = "classify" /\ at' = at
  BY OrderFacts DEF FetchBalance, IInv, TypeOK
<1>4. at' \in 1..Len(BankOrder) /\ phase' \in Phases
  BY <1>3, OrderFacts DEF Phases, IInv, TypeOK
<1>6. faults' \in 0..MaxFaults
  BY <1>2, ChargeFacts DEF IInv, TypeOK
<1>7. passes \in [Bank -> BankPass] /\ passes[b] \in BankPass
  BY <1>0 DEF IInv, TypeOK
<1>8. /\ passes' \in [Bank -> BankPass]
      /\ \A c \in Bank : /\ passes'[c].txs = passes[c].txs
                         /\ passes'[c].txFailed = passes[c].txFailed
                         /\ \/ passes'[c].notOnboarded = passes[c].notOnboarded
                            \/ session[c] = "unconfigured" /\ passes'[c].notOnboarded
  <2>1. CASE \E v \in Balance \cup {NoBalance} : passes' = [passes EXCEPT ![b].balance = v]
    <3>1. PICK v \in Balance \cup {NoBalance} : passes' = [passes EXCEPT ![b].balance = v]
      BY <2>1
    <3> DEFINE p == [passes[b] EXCEPT !.balance = v]
    <3>2. p \in BankPass
      BY <1>7, PassFacts
    <3>3. passes' = [passes EXCEPT ![b] = p]
      BY <3>1
    <3>4. /\ p.txs = passes[b].txs /\ p.txFailed = passes[b].txFailed
          /\ p.notOnboarded = passes[b].notOnboarded
      BY <1>7 DEF BankPass
    <3> HIDE DEF p
    <3> QED
      BY <1>0, <1>7, <3>2, <3>3, <3>4, ToldOf
  <2>2. CASE session[b] = "unconfigured" /\ passes' = [passes EXCEPT ![b].notOnboarded = TRUE]
    <3> DEFINE p == [passes[b] EXCEPT !.notOnboarded = TRUE]
    <3>2. p \in BankPass
      BY <1>7, PassFacts
    <3>3. passes' = [passes EXCEPT ![b] = p]
      BY <2>2
    <3>4. p.txs = passes[b].txs /\ p.txFailed = passes[b].txFailed /\ p.notOnboarded
      BY <1>7 DEF BankPass
    <3> HIDE DEF p
    <3> QED
      BY <1>0, <1>7, <2>2, <3>2, <3>3, <3>4, ToldOf
  <2>3. CASE passes' = [passes EXCEPT ![b].balFailed = TRUE]
    <3> DEFINE p == [passes[b] EXCEPT !.balFailed = TRUE]
    <3>2. p \in BankPass
      BY <1>7, PassFacts
    <3>3. passes' = [passes EXCEPT ![b] = p]
      BY <2>3
    <3>4. /\ p.txs = passes[b].txs /\ p.txFailed = passes[b].txFailed
          /\ p.notOnboarded = passes[b].notOnboarded
      BY <1>7 DEF BankPass
    <3> HIDE DEF p
    <3> QED
      BY <1>0, <1>7, <2>3, <3>2, <3>3, <3>4, ToldOf
  <2> HIDE DEF b
  <2> QED
    BY <1>2, <2>1, <2>2, <2>3, Zenon
<1>9. TypeOK'
  BY <1>0, <1>4, <1>6, <1>8, WritersRest DEF IInv, TypeOK
<1>10. WritersFollowRun' /\ OutcomeSoFar'
  BY <1>0, <1>3, WritersRest DEF IInv, WritersFollowRun, OutcomeSoFar
<1>11. AnswersSoFar'
  <2>1. Asked' = Asked /\ Asked \subseteq Bank /\ \A c : DueOf(c)' = DueOf(c)
    BY <1>0, <1>3, OrderFacts DEF Asked, DueOf, IInv, TypeOK
  <2> QED
    BY <1>0, <1>3, <1>8, <2>1 DEF IInv, AnswersSoFar
<1> QED
  BY <1>0, <1>1, <1>3, <1>9, <1>10, <1>11, UnderWay DEF IInv

LEMMA ClassifyKeeps == IInv /\ Classify => IInv'
<1> SUFFICES ASSUME IInv, Classify PROVE IInv'
  OBVIOUS
<1>0. /\ phase = "classify" /\ UNCHANGED <<month, booked, session>>
      /\ UNCHANGED <<runMonth, at, passes, report, due, faults>>
      /\ UNCHANGED <<rawVars, layVars>>
  BY DEF Classify, envVars
<1>1. \/ phase' = "summary" /\ failed' = "total" /\ ~SomeSucceeded
      \/ phase' = "summary" /\ failed' = failed /\ ~SomeSucceeded /\ ~SomeFailed
      \/ phase' = "document" /\ failed' = failed /\ SomeSucceeded
  BY Zenon DEF Classify, Classified
<1>2. RawP!IInv' /\ LayP!IInv' /\ RowsStayInTheirMonth'
  BY <1>0, WritersRest
<1>3. TypeOK'
  BY <1>0, <1>1, WritersRest DEF IInv, TypeOK, Phases, Failures
<1>4. WritersFollowRun'
  BY <1>0, <1>1, WritersRest DEF IInv, WritersFollowRun
<1>5. SomeSucceeded' = SomeSucceeded /\ SomeFailed' = SomeFailed
  BY <1>0 DEF SomeSucceeded, SomeFailed
<1>6. OutcomeSoFar'
  BY <1>0, <1>1, <1>5 DEF IInv, OutcomeSoFar
<1>7. AnswersSoFar'
  BY <1>0, <1>1 DEF IInv, AnswersSoFar, Asked, DueOf
<1> QED
  BY <1>0, <1>1, <1>2, <1>3, <1>4, <1>6, <1>7, UnderWay DEF IInv

\* What the run hands to the writers.
LEMMA RowsFacts ==
  IInv => /\ RawRows \in SUBSET Movement /\ ExpenseRows = RawRows
          /\ \A m \in RawRows : MonthOf[m] = runMonth
          /\ PanelBalances \in Balances
          /\ RawRows = UNION {Listed(b) : b \in Bank}
<1> SUFFICES ASSUME IInv PROVE /\ RawRows \in SUBSET Movement /\ ExpenseRows = RawRows
                               /\ \A m \in RawRows : MonthOf[m] = runMonth
                               /\ PanelBalances \in Balances
                               /\ RawRows = UNION {Listed(b) : b \in Bank}
  OBVIOUS
<1>1. \A b \in Bank : /\ passes[b].txs \subseteq Movement
                      /\ passes[b].balance \in Balance \cup {NoBalance}
  BY DEF IInv, TypeOK, BankPass
<1>2. PanelBalances \in Balances
  BY <1>1 DEF PanelBalances, Balances
<1> QED
  BY <1>1, <1>2 DEF RawRows, ExpenseRows, Listed, IInv, AnswersSoFar

LEMMA ResolveDocumentKeeps == IInv /\ ResolveDocument => IInv'
<1> SUFFICES ASSUME IInv, ResolveDocument PROVE IInv'
  OBVIOUS
<1>0. /\ phase = "document" /\ UNCHANGED <<month, booked, session>>
      /\ UNCHANGED <<runMonth, at, passes, report, due>>
      /\ UNCHANGED layVars
  BY DEF ResolveDocument, envVars
<1>1. \/ phase' = "raw" /\ Raw!Write(runMonth, RawRows) /\ UNCHANGED <<failed, faults>>
      \/ phase' = "summary" /\ failed' = "raw" /\ Charge(TRUE) /\ UNCHANGED rawVars
  BY DEF ResolveDocument
<1>2. LayP!IInv' /\ Lay!TypeOK' /\ UNCHANGED <<gastos, layPc, layJob>>
  BY <1>0, LayRests, LayWellTyped DEF IInv, layVars
<1>3. /\ RawP!IInv' /\ raw' = raw
      /\ \/ phase' = "raw" /\ rawPc' = "open" /\ rawJob' = [tab |-> runMonth, rows |-> RawRows]
         \/ phase' = "summary" /\ UNCHANGED <<rawPc, rawJob>>
  <2>1. runMonth \in Month
    BY DEF IInv, TypeOK
  <2> QED
    BY <1>1, <2>1, RowsFacts, RawCalled, RawRests DEF IInv, rawVars
<1>4. TypeOK'
  BY <1>0, <1>1, <1>2, <1>3, RawTyped, ChargeFacts DEF IInv, TypeOK, Phases, Failures
<1>5. SomeSucceeded' = SomeSucceeded /\ SomeFailed' = SomeFailed /\ RawRows' = RawRows
  BY <1>0 DEF SomeSucceeded, SomeFailed, RawRows
<1>6. WritersFollowRun'
  BY <1>0, <1>1, <1>2, <1>3, <1>5 DEF IInv, WritersFollowRun
<1>7. OutcomeSoFar'
  BY <1>0, <1>1, <1>5 DEF IInv, OutcomeSoFar
<1>8. AnswersSoFar'
  BY <1>0, <1>1 DEF IInv, AnswersSoFar, Asked, DueOf
<1>9. RowsStayInTheirMonth'
  BY <1>2, <1>3, TabsRest DEF IInv
<1> QED
  BY <1>1, <1>2, <1>3, <1>4, <1>6, <1>7, <1>8, <1>9, UnderWay DEF IInv

LEMMA RawStepKeeps == IInv /\ RawStep => IInv'
<1> SUFFICES ASSUME IInv, RawStep PROVE IInv'
  OBVIOUS
<1>0. /\ phase = "raw" /\ Raw!Step /\ Charge(rawPc' = "failed")
      /\ UNCHANGED <<month, booked, session>>
      /\ UNCHANGED <<phase, runMonth, at, passes, failed, report, due>>
      /\ UNCHANGED layVars
  BY DEF RawStep, envVars, runVars
<1>1. LayP!IInv' /\ Lay!TypeOK' /\ UNCHANGED <<gastos, layPc, layJob>>
  BY <1>0, LayRests, LayWellTyped DEF IInv, layVars
<1>2. /\ RawP!IInv' /\ rawPc' # "idle" /\ rawPc # "idle" /\ rawJob' = rawJob
      /\ \A t \in Month :
           raw'[t] = raw[t] \/ (/\ t = rawJob.tab
                                /\ raw'[t] \in {Raw!Blank, Raw!Table(rawJob.rows)})
  BY <1>0, RawRequest DEF IInv, Raw!Running
<1>3. TypeOK'
  <2>1. faults' \in 0..MaxFaults
    BY <1>0, ChargeFacts DEF IInv, TypeOK
  <2> QED
    BY <1>0, <1>1, <1>2, <2>1, RawTyped DEF IInv, TypeOK
<1>4. WritersFollowRun'
  BY <1>0, <1>1, <1>2 DEF IInv, WritersFollowRun, RawRows
<1>5. OutcomeSoFar'
  BY <1>0 DEF IInv, OutcomeSoFar, SomeSucceeded, SomeFailed
<1>6. AnswersSoFar'
  BY <1>0 DEF IInv, AnswersSoFar, Asked, DueOf
<1>7. RowsStayInTheirMonth'
  <2>1. rawJob = [tab |-> runMonth, rows |-> RawRows]
    BY <1>2 DEF IInv, WritersFollowRun
  <2>2. ASSUME NEW t \in Month PROVE RawShows(t)' \subseteq RawShows(t)
                                     \/ (t = runMonth /\ RawShows(t)' \subseteq RawRows)
    BY <1>2, <2>1, RawVocabulary DEF RawShows
  <2>3. \A t \in Month : LayoutShows(t)' = LayoutShows(t)
    BY <1>1 DEF LayoutShows
  <2> QED
    BY <2>2, <2>3, RowsFacts DEF IInv, RowsStayInTheirMonth
<1> QED
  BY <1>0, <1>1, <1>2, <1>3, <1>4, <1>5, <1>6, <1>7, UnderWay DEF IInv

LEMMA RawReturnedKeeps == IInv /\ RawReturned => IInv'
<1> SUFFICES ASSUME IInv, RawReturned PROVE IInv'
  OBVIOUS
<1>0. /\ phase = "raw" /\ rawPc = "done" /\ phase' = "layout"
      /\ Lay!Write(runMonth, ExpenseRows, PanelBalances)
      /\ UNCHANGED <<month, booked, session>>
      /\ UNCHANGED <<runMonth, at, passes, failed, report, due, faults>>
      /\ UNCHANGED rawVars
  BY DEF RawReturned, envVars
<1>1. RawP!IInv' /\ Raw!TypeOK' /\ UNCHANGED <<raw, rawPc, rawJob>>
  BY <1>0, RawRests, RawTyped DEF IInv, rawVars
<1>2. /\ LayP!IInv' /\ layPc' # "idle" /\ gastos' = gastos
      /\ layJob' = [tab |-> runMonth, rows |-> ExpenseRows, balances |-> PanelBalances]
  <2>1. runMonth \in Month
    BY DEF IInv, TypeOK
  <2> QED
    BY <1>0, <2>1, RowsFacts, LayCalled DEF IInv
<1>3. TypeOK'
  BY <1>0, <1>1, <1>2, LayWellTyped DEF IInv, TypeOK, Phases
<1>4. WritersFollowRun'
  BY <1>0, <1>1, <1>2 DEF IInv, WritersFollowRun, RawRows, ExpenseRows, PanelBalances
<1>5. OutcomeSoFar'
  BY <1>0 DEF IInv, OutcomeSoFar, SomeSucceeded, SomeFailed
<1>6. AnswersSoFar'
  BY <1>0 DEF IInv, AnswersSoFar, Asked, DueOf
<1>7. RowsStayInTheirMonth'
  BY <1>1, <1>2, TabsRest DEF IInv
<1> QED
  BY <1>0, <1>1, <1>2, <1>3, <1>4, <1>5, <1>6, <1>7, UnderWay DEF IInv

LEMMA LayoutStepKeeps == IInv /\ LayoutStep => IInv'
<1> SUFFICES ASSUME IInv, LayoutStep PROVE IInv'
  OBVIOUS
<1>0. /\ phase = "layout" /\ Lay!Step /\ Charge(layPc' = "failed")
      /\ UNCHANGED <<month, booked, session>>
      /\ UNCHANGED <<phase, runMonth, at, passes, failed, report, due>>
      /\ UNCHANGED rawVars
  BY DEF LayoutStep, envVars, runVars
<1>1. RawP!IInv' /\ Raw!TypeOK' /\ UNCHANGED <<raw, rawPc, rawJob>>
  BY <1>0, RawRests, RawTyped DEF IInv, rawVars
<1>2. /\ LayP!IInv' /\ layPc' # "idle" /\ layJob' = layJob
      /\ \A t \in Month :
           gastos'[t] = gastos[t]
             \/ (/\ t = layJob.tab
                 /\ LayoutShows(t)' \in {LayoutShows(t), {}, layJob.rows})
  BY <1>0, LayRequest DEF IInv
<1>3. TypeOK'
  <2>1. faults' \in 0..MaxFaults
    BY <1>0, ChargeFacts DEF IInv, TypeOK
  <2> QED
    BY <1>0, <1>1, <1>2, <2>1, LayWellTyped DEF IInv, TypeOK
<1>4. WritersFollowRun'
  BY <1>0, <1>1, <1>2 DEF IInv, WritersFollowRun, RawRows, ExpenseRows, PanelBalances
<1>5. OutcomeSoFar'
  BY <1>0 DEF IInv, OutcomeSoFar, SomeSucceeded, SomeFailed
<1>6. AnswersSoFar'
  BY <1>0 DEF IInv, AnswersSoFar, Asked, DueOf
<1>7. RowsStayInTheirMonth'
  <2>1. layJob.tab = runMonth /\ layJob.rows = ExpenseRows
    BY <1>0 DEF IInv, WritersFollowRun
  <2>2. ASSUME NEW t \in Month PROVE LayoutShows(t)' \subseteq LayoutShows(t)
                                     \/ (t = runMonth /\ LayoutShows(t)' \subseteq RawRows)
    <3>1. gastos'[t] = gastos[t] => LayoutShows(t)' = LayoutShows(t)
      BY DEF LayoutShows
    <3> QED
      BY <1>2, <2>1, <3>1, RowsFacts
  <2>3. \A t \in Month : RawShows(t)' = RawShows(t)
    BY <1>1 DEF RawShows
  <2> QED
    BY <2>2, <2>3, RowsFacts DEF IInv, RowsStayInTheirMonth
<1> QED
  BY <1>0, <1>1, <1>2, <1>3, <1>4, <1>5, <1>6, <1>7, UnderWay DEF IInv

LEMMA WriteRaisedKeeps == IInv /\ WriteRaised => IInv'
<1> SUFFICES ASSUME IInv, WriteRaised PROVE IInv'
  OBVIOUS
<1>0. /\ \/ phase = "raw" /\ failed' = "raw"
         \/ phase = "layout" /\ failed' = "layout"
      /\ phase' = "summary" /\ UNCHANGED <<month, booked, session>>
      /\ UNCHANGED <<runMonth, at, passes, report, due, faults>>
      /\ UNCHANGED <<rawVars, layVars>>
  BY DEF WriteRaised, envVars
<1>1. RawP!IInv' /\ LayP!IInv' /\ RowsStayInTheirMonth'
  BY <1>0, WritersRest
<1>2. TypeOK'
  BY <1>0, WritersRest DEF IInv, TypeOK, Phases, Failures
<1>3. WritersFollowRun'
  BY <1>0, WritersRest DEF IInv, WritersFollowRun, RawRows, ExpenseRows, PanelBalances
<1>4. OutcomeSoFar'
  BY <1>0 DEF IInv, OutcomeSoFar, SomeSucceeded, SomeFailed
<1>5. AnswersSoFar'
  BY <1>0 DEF IInv, AnswersSoFar, Asked, DueOf
<1> QED
  BY <1>0, <1>1, <1>2, <1>3, <1>4, <1>5, UnderWay DEF IInv

LEMMA LayoutReturnedKeeps == IInv /\ LayoutReturned => IInv'
<1> SUFFICES ASSUME IInv, LayoutReturned PROVE IInv'
  OBVIOUS
<1>0. /\ phase = "layout" /\ layPc = "done" /\ phase' = "summary"
      /\ UNCHANGED <<month, booked, session>>
      /\ UNCHANGED <<runMonth, at, passes, failed, report, due, faults>>
      /\ UNCHANGED <<rawVars, layVars>>
  BY DEF LayoutReturned, envVars
<1>1. RawP!IInv' /\ LayP!IInv' /\ RowsStayInTheirMonth'
  BY <1>0, WritersRest
<1>2. TypeOK'
  BY <1>0, WritersRest DEF IInv, TypeOK, Phases
<1>3. WritersFollowRun'
  BY <1>0, WritersRest DEF IInv, WritersFollowRun, RawRows, ExpenseRows, PanelBalances
<1>4. OutcomeSoFar'
  <2>1. rawPc = "done" /\ SomeSucceeded
    BY <1>0 DEF IInv, WritersFollowRun, OutcomeSoFar
  <2> QED
    BY <1>0, <2>1, WritersRest DEF IInv, OutcomeSoFar, SomeSucceeded, SomeFailed
<1>5. AnswersSoFar'
  BY <1>0 DEF IInv, AnswersSoFar, Asked, DueOf
<1> QED
  BY <1>0, <1>1, <1>2, <1>3, <1>4, <1>5, UnderWay DEF IInv

\* A run that has written has written everything it was told.
LEMMA WrittenBoard ==
  IInv /\ phase = "summary" /\ failed = "none" /\ SomeSucceeded =>
    /\ raw[runMonth] = Raw!Table(RawRows) /\ RawShows(runMonth) = RawRows
    /\ gastos[runMonth] # Absent /\ LayoutShows(runMonth) = RawRows
    /\ gastos[runMonth].panel = PanelBalances
<1> SUFFICES ASSUME IInv, phase = "summary", failed = "none", SomeSucceeded
             PROVE  /\ raw[runMonth] = Raw!Table(RawRows) /\ RawShows(runMonth) = RawRows
                    /\ gastos[runMonth] # Absent /\ LayoutShows(runMonth) = RawRows
                    /\ gastos[runMonth].panel = PanelBalances
  OBVIOUS
<1>1. rawPc = "done" /\ layPc = "done"
  BY DEF IInv, OutcomeSoFar
<1>2. /\ rawJob = [tab |-> runMonth, rows |-> RawRows]
      /\ layJob = [tab |-> runMonth, rows |-> ExpenseRows, balances |-> PanelBalances]
  BY <1>1 DEF IInv, WritersFollowRun
<1>3. raw[runMonth] = Raw!Table(RawRows) /\ RawShows(runMonth) = RawRows
  BY <1>1, <1>2, RawReturns, RawVocabulary, RowsFacts DEF IInv, RawShows
<1>4. /\ gastos[runMonth] # Absent /\ LayoutShows(runMonth) = RawRows
      /\ gastos[runMonth].panel = PanelBalances
  BY <1>1, <1>2, LayReturns, RowsFacts DEF IInv
<1> QED
  BY <1>3, <1>4

\* A run that no onboarded bank failed lists everything that was due.
LEMMA DueIsListed ==
  IInv /\ phase = "summary" /\ ~SomeFailed => due \subseteq RawRows /\ (~SomeSucceeded => due = {})
<1> SUFFICES ASSUME IInv, phase = "summary", ~SomeFailed, NEW m \in due
             PROVE  m \in RawRows /\ SomeSucceeded
  OBVIOUS
<1> DEFINE b == BankOf[m]
<1>1. b \in Bank /\ m \in DueOf(b) /\ session[b] = "live"
  BY MovementsHaveAHome DEF IInv, TypeOK, AnswersSoFar, DueOf
<1>2. Asked = Bank
  <2>1. at = Len(BankOrder)
    BY DEF IInv, AnswersSoFar
  <2> QED
    BY <2>1, OrderFacts DEF Asked
<1>3. passes[b].txFailed \/ DueOf(b) \subseteq passes[b].txs
  BY <1>1, <1>2 DEF IInv, AnswersSoFar
<1>4. ~passes[b].notOnboarded
  BY <1>1 DEF IInv, AnswersSoFar
<1>5. Succeeded(passes[b])
  BY <1>1, <1>4 DEF SomeFailed, Failed
<1>6. m \in passes[b].txs
  BY <1>1, <1>3, <1>5 DEF Succeeded
<1> QED
  BY <1>1, <1>5, <1>6 DEF SomeSucceeded, RawRows

\* The process leaves: what the tabs hold, they keep.
LEMMA LeavesFacts ==
  IInv /\ Leaves => /\ RawP!IInv' /\ LayP!IInv' /\ Raw!TypeOK' /\ Lay!TypeOK'
                    /\ UNCHANGED <<raw, gastos>> /\ RowsStayInTheirMonth'
                    /\ phase' = "off" /\ rawPc' = "idle" /\ layPc' = "idle"
<1> SUFFICES ASSUME IInv, Leaves
             PROVE  /\ RawP!IInv' /\ LayP!IInv' /\ Raw!TypeOK' /\ Lay!TypeOK'
                    /\ UNCHANGED <<raw, gastos>> /\ RowsStayInTheirMonth'
                    /\ phase' = "off" /\ rawPc' = "idle" /\ layPc' = "idle"
  OBVIOUS
<1>1. /\ IF rawPc = "idle" THEN UNCHANGED rawVars ELSE Raw!ProcessEnds
      /\ IF layPc = "idle" THEN UNCHANGED layVars ELSE Lay!ProcessEnds
      /\ phase' = "off"
  BY DEF Leaves
<1>2. RawP!IInv' /\ rawPc' = "idle" /\ raw' = raw
  BY <1>1, RawGone DEF IInv
<1>3. LayP!IInv' /\ layPc' = "idle" /\ gastos' = gastos
  BY <1>1, LayGone DEF IInv
<1> QED
  BY <1>1, <1>2, <1>3, RawTyped, LayWellTyped, TabsRest DEF IInv

LEMMA ExitCleanKeeps == IInv /\ ExitClean => IInv'
<1> SUFFICES ASSUME IInv, ExitClean PROVE IInv'
  OBVIOUS
<1>0. /\ phase = "summary" /\ OutcomeExit = 0 /\ Leaves
      /\ report' = [NoReport EXCEPT !.exit = 0]
      /\ UNCHANGED <<month, booked, session>>
      /\ UNCHANGED <<runMonth, at, passes, failed, due, faults>>
  BY DEF ExitClean, envVars
<1>1. report' = [exit |-> 0, mail |-> "none", subject |-> "none"]
  BY <1>0 DEF NoReport
<1>2. failed = "none" /\ ~SomeFailed
  BY <1>0 DEF OutcomeExit, Classified, IInv, TypeOK, Failures, OutcomeSoFar
<1>3. TypeOK'
  <2>1. report' \in Report
    BY <1>1 DEF Report, Subjects
  <2> QED
    BY <1>0, <2>1, LeavesFacts DEF IInv, TypeOK, Phases
<1>4. WritersFollowRun' /\ OutcomeSoFar'
  BY <1>0, <1>2, LeavesFacts DEF WritersFollowRun, OutcomeSoFar
<1>5. AnswersSoFar'
  BY <1>0, LeavesFacts DEF IInv, AnswersSoFar
<1>6. UNCHANGED <<SomeSucceeded, RawRows, PanelBalances, RawShows(runMonth), LayoutShows(runMonth)>>
  BY <1>0, LeavesFacts DEF SomeSucceeded, RawRows, PanelBalances, RawShows, LayoutShows
<1>7. BoardIsThere' /\ BoardMatchesRun'
  BY <1>0, <1>2, <1>6, WrittenBoard, LeavesFacts, RowsFacts
     DEF BoardIsThere, BoardMatchesRun, Wrote, PanelBalances, RawRows, Listed
<1>8. ExitZeroIsComplete'
  BY <1>0, <1>2, <1>6, WrittenBoard, DueIsListed DEF ExitZeroIsComplete
<1>9. MailAgreesWithExit'
  BY <1>0, <1>1, <1>2 DEF MailAgreesWithExit
<1> QED
  BY <1>0, <1>3, <1>4, <1>5, <1>7, <1>8, <1>9, LeavesFacts DEF IInv

LEMMA NotifyKeeps == IInv /\ Notify => IInv'
<1> SUFFICES ASSUME IInv, Notify PROVE IInv'
  OBVIOUS
<1>0. /\ phase = "summary" /\ OutcomeExit # 0 /\ Leaves
      /\ UNCHANGED <<month, booked, session>>
      /\ UNCHANGED <<runMonth, at, passes, failed, due>>
  BY DEF Notify, envVars
<1>1. PICK mail \in {"sent", "skipped", "failed"} :
        /\ report' = [exit |-> IF mail = "failed" THEN 4 ELSE OutcomeExit,
                      mail |-> mail, subject |-> Subject]
        /\ Charge(mail = "failed")
  BY DEF Notify
<1>2. \/ OutcomeExit = 1 /\ failed = "total" /\ ~SomeSucceeded /\ Subject = "total"
      \/ /\ OutcomeExit = 2 /\ failed \in {"raw", "layout"}
         /\ Subject = "sheets" \/ Subject = "sheets and banks"
         /\ Subject = "sheets" => ~SomeFailed
      \/ OutcomeExit = 3 /\ failed = "none" /\ SomeSucceeded /\ Subject = "partial"
  BY <1>0 DEF OutcomeExit, Classified, Subject, IInv, TypeOK, Failures, OutcomeSoFar
<1>3. /\ report' = [exit |-> report'.exit, mail |-> mail, subject |-> Subject]
      /\ report'.mail = mail /\ report'.subject = Subject
      /\ \/ mail = "failed" /\ report'.exit = 4
         \/ mail # "failed" /\ report'.exit = OutcomeExit
  <2>1. CASE mail = "failed"
    BY <1>1, <2>1
  <2>2. CASE mail # "failed"
    BY <1>1, <2>2
  <2> QED
    BY <2>1, <2>2
<1>10. OutcomeExit \in {1, 2, 3}
  BY <1>2
<1>11. report'.exit \in {1, 2, 3, 4} /\ (report'.exit = 4 <=> mail = "failed")
  BY <1>3, <1>10
<1>4. TypeOK'
  <2>1. faults' \in 0..MaxFaults
    BY <1>1, ChargeFacts DEF IInv, TypeOK
  <2>2. report' \in Report
    <3>1. Subject \in Subjects
      BY <1>2 DEF Subjects
    <3>2. report'.exit \in -1..4
      BY <1>11
    <3> QED
      BY <1>3, <3>1, <3>2 DEF Report
  <2> QED
    BY <1>0, <2>1, <2>2, LeavesFacts DEF IInv, TypeOK, Phases
<1>5. WritersFollowRun' /\ OutcomeSoFar'
  <2>1. failed = "total" => ~SomeSucceeded
    BY DEF IInv, OutcomeSoFar
  <2> QED
    BY <1>0, <2>1, LeavesFacts DEF WritersFollowRun, OutcomeSoFar, SomeSucceeded
<1>6. AnswersSoFar'
  BY <1>0, LeavesFacts DEF IInv, AnswersSoFar
<1>7. BoardIsThere' /\ BoardMatchesRun'
  <2>1. UNCHANGED <<SomeSucceeded, RawRows, PanelBalances, LayoutShows(runMonth)>>
    BY <1>0, LeavesFacts DEF SomeSucceeded, RawRows, PanelBalances, LayoutShows
  <2> QED
    BY <1>0, <2>1, WrittenBoard, LeavesFacts, RowsFacts
       DEF BoardIsThere, BoardMatchesRun, Wrote, PanelBalances, RawRows, Listed
<1>8. ExitZeroIsComplete'
  <2>1. report'.exit # 0
    BY <1>11
  <2> QED
    BY <2>1 DEF ExitZeroIsComplete
<1>9. MailAgreesWithExit'
  <2>1. Subject = "sheets" => \A b \in Bank : passes[b].txFailed => passes[b].notOnboarded
    BY <1>2 DEF SomeFailed, Failed, Succeeded
  <2>2. /\ report'.exit # 0 /\ report'.mail # "none"
        /\ report'.exit = 4 <=> report'.mail = "failed"
    BY <1>3, <1>11
  <2>3. report'.exit # 4 => report'.exit = OutcomeExit
    BY <1>3
  <2>4. /\ report'.exit = 1 => report'.subject = "total"
        /\ report'.exit = 2 => report'.subject \in {"sheets", "sheets and banks"}
        /\ report'.exit = 3 => report'.subject = "partial"
    <3>1. CASE OutcomeExit = 1
      BY <1>2, <1>3, <1>11, <2>3, <3>1
    <3>2. CASE OutcomeExit = 2
      <4>1. Subject \in {"sheets", "sheets and banks"}
        BY <3>2 DEF OutcomeExit, Subject, IInv, TypeOK, Failures
      <4>2. report'.exit # 1 /\ report'.exit # 3
        BY <1>3, <3>2
      <4> QED
        BY <1>3, <4>1, <4>2
    <3>3. CASE OutcomeExit = 3
      BY <1>2, <1>3, <1>11, <2>3, <3>3
    <3> QED
      BY <1>10, <3>1, <3>2, <3>3
  <2>5. report'.subject = "total" <=> failed' = "total"
    BY <1>0, <1>2, <1>3
  <2>6. report'.subject = "sheets" => \A b \in Bank : passes'[b].txFailed => passes'[b].notOnboarded
    BY <1>0, <1>3, <2>1
  <2> QED
    BY <2>2, <2>4, <2>5, <2>6 DEF MailAgreesWithExit
<1> QED
  BY <1>0, <1>4, <1>5, <1>6, <1>7, <1>8, <1>9, LeavesFacts DEF IInv

LEMMA KilledKeeps == IInv /\ Killed => IInv'
<1> SUFFICES ASSUME IInv, Killed PROVE IInv'
  OBVIOUS
<1>0. /\ phase # "off" /\ Leaves /\ Charge(TRUE)
      /\ UNCHANGED <<month, booked, session>>
      /\ UNCHANGED <<runMonth, at, passes, failed, report, due>>
  BY DEF Killed, envVars
<1>1. report'.exit = -1
  BY <1>0 DEF IInv, OutcomeSoFar, NoReport
<1>2. TypeOK'
  <2>1. faults' \in 0..MaxFaults
    BY <1>0, ChargeFacts DEF IInv, TypeOK
  <2> QED
    BY <1>0, <2>1, LeavesFacts DEF IInv, TypeOK, Phases
<1>3. WritersFollowRun' /\ OutcomeSoFar'
  BY <1>0, LeavesFacts DEF IInv, WritersFollowRun, OutcomeSoFar, SomeSucceeded
<1>4. AnswersSoFar'
  BY <1>0, LeavesFacts DEF IInv, AnswersSoFar
<1>5. BoardIsThere' /\ BoardMatchesRun' /\ ExitZeroIsComplete' /\ MailAgreesWithExit'
  BY <1>1 DEF BoardIsThere, BoardMatchesRun, ExitZeroIsComplete, MailAgreesWithExit, Wrote, Ended
<1> QED
  BY <1>0, <1>2, <1>3, <1>4, <1>5, LeavesFacts DEF IInv

LEMMA NextIInv == IInv /\ [Next]_vars => IInv'
<1> SUFFICES ASSUME IInv, [Next]_vars PROVE IInv'
  OBVIOUS
<1>1. CASE UNCHANGED vars
  <2>1. /\ UNCHANGED <<month, booked, session>> /\ UNCHANGED faults
        /\ UNCHANGED <<runVars, rawVars, layVars>>
    BY <1>1 DEF vars, envVars
  <2>2. UNCHANGED <<phase, runMonth, at, passes, failed, report, due>>
    BY <2>1 DEF runVars
  <2>3. TypeOK'
    BY <2>1, <2>2, WorldKeeps DEF IInv, TypeOK
  <2>4. AnswersSoFar'
    BY <2>1, <2>2 DEF IInv, AnswersSoFar, Asked, DueOf
  <2> QED
    BY <2>1, <2>3, <2>4, WorldKeeps DEF IInv
<1>2. CASE RunStep
  BY <1>2, FetchTransactionsKeeps, FetchBalanceKeeps, ClassifyKeeps, ResolveDocumentKeeps,
     RawStepKeeps, RawReturnedKeeps, LayoutStepKeeps, WriteRaisedKeeps, LayoutReturnedKeeps,
     ExitCleanKeeps, NotifyKeeps DEF RunStep
<1>3. CASE Next /\ ~RunStep
  BY <1>3, BookKeeps, NextMonthKeeps, SetSessionKeeps, HandTypeKeeps, StartRunKeeps,
     KilledKeeps DEF Next
<1> QED
  BY <1>1, <1>2, <1>3
-----------------------------------------------------------------------------
(* What a step of the run may do to the tabs. *)

LEMMA TabsMove ==
  IInv /\ [Next]_vars => \/ UNCHANGED <<raw, gastos>>
                         \/ RawStep
                         \/ LayoutStep
                         \/ \E t \in Month, c \in Category : HandType(t, c)
<1> SUFFICES ASSUME IInv, [Next]_vars
             PROVE  \/ UNCHANGED <<raw, gastos>>
                    \/ RawStep
                    \/ LayoutStep
                    \/ \E t \in Month, c \in Category : HandType(t, c)
  OBVIOUS
<1>1. UNCHANGED <<rawVars, layVars>> => UNCHANGED <<raw, gastos>>
  BY DEF rawVars, layVars
<1>2. Leaves => UNCHANGED <<raw, gastos>>
  BY LeavesFacts
<1>3. CASE UNCHANGED vars
  BY <1>1, <1>3 DEF vars
<1>4. CASE \/ \E m \in Movement : Book(m)
           \/ NextMonth
           \/ \E b \in Bank : SetSession(b)
           \/ StartRun \/ FetchTransactions \/ FetchBalance \/ Classify
           \/ WriteRaised \/ LayoutReturned
  BY <1>1, <1>4 DEF Book, NextMonth, SetSession, StartRun, FetchTransactions, FetchBalance,
                    Classify, WriteRaised, LayoutReturned
<1>5. CASE ResolveDocument
  BY <1>5 DEF ResolveDocument, Raw!Write, rawVars, layVars
<1>6. CASE RawReturned
  BY <1>6 DEF RawReturned, Lay!Write, rawVars
<1>7. CASE ExitClean \/ Notify \/ Killed
  BY <1>2, <1>7 DEF ExitClean, Notify, Killed
<1> QED
  BY <1>3, <1>4, <1>5, <1>6, <1>7 DEF Next, RunStep

LEMMA SomeoneAnswered ==
  IInv /\ phase \in {"raw", "layout"} =>
    \E b \in Bank : session[b] = "live" /\ ~passes[b].txFailed
<1> SUFFICES ASSUME IInv, phase \in {"raw", "layout"}
             PROVE  \E b \in Bank : session[b] = "live" /\ ~passes[b].txFailed
  OBVIOUS
<1>1. PICK b \in Bank : ~passes[b].txFailed /\ ~passes[b].notOnboarded
  BY DEF IInv, OutcomeSoFar, SomeSucceeded, Succeeded
<1>2. at = Len(BankOrder)
  BY DEF IInv, AnswersSoFar
<1>3. b \in Asked
  BY <1>2, OrderFacts DEF Asked
<1> QED
  BY <1>1, <1>3 DEF IInv, AnswersSoFar

LEMMA ErasureIsAnswered ==
  IInv /\ [Next]_vars =>
    \A t \in Month :
      raw'[t] # raw[t] \/ LayoutShows(t)' # LayoutShows(t) =>
        /\ t = runMonth
        /\ phase \in {"raw", "layout"}
        /\ \E b \in Bank : session[b] = "live" /\ ~passes[b].txFailed
<1> SUFFICES ASSUME IInv, [Next]_vars, NEW t \in Month,
                    raw'[t] # raw[t] \/ LayoutShows(t)' # LayoutShows(t)
             PROVE  t = runMonth /\ phase \in {"raw", "layout"}
  BY SomeoneAnswered
<1>1. CASE UNCHANGED <<raw, gastos>>
  BY <1>1 DEF LayoutShows
<1>2. CASE RawStep
  <2>1. /\ phase = "raw" /\ UNCHANGED gastos /\ Raw!Step
    BY <1>2 DEF RawStep, layVars
  <2>2. /\ t = rawJob.tab /\ rawPc # "idle"
    BY <2>1, RawRequest DEF IInv, LayoutShows, Raw!Running
  <2> QED
    BY <2>1, <2>2 DEF IInv, WritersFollowRun
<1>3. CASE LayoutStep
  <2>1. phase = "layout" /\ UNCHANGED raw /\ Lay!Step
    BY <1>3 DEF LayoutStep, rawVars
  <2>2. gastos'[t] = gastos[t] => LayoutShows(t)' = LayoutShows(t)
    BY DEF LayoutShows
  <2>3. t = layJob.tab
    BY <2>1, <2>2, LayRequest DEF IInv
  <2> QED
    BY <2>1, <2>3 DEF IInv, WritersFollowRun
<1>4. CASE \E u \in Month, c \in Category : HandType(u, c)
  BY <1>4, LayTyped DEF IInv, HandType, rawVars
<1> QED
  BY <1>1, <1>2, <1>3, <1>4, TabsMove

LEMMA LayoutIsSecond ==
  IInv /\ [Next]_vars =>
    \A t \in Month :
      gastos'[t] # gastos[t] /\ phase # "off" /\
      (gastos[t] # Absent => gastos'[t].shared = gastos[t].shared) =>
        raw[t] = Raw!Table(UNION {Listed(b) : b \in Bank})
<1> SUFFICES ASSUME IInv, [Next]_vars, NEW t \in Month, gastos'[t] # gastos[t],
                    gastos[t] # Absent => gastos'[t].shared = gastos[t].shared
             PROVE  raw[t] = Raw!Table(UNION {Listed(b) : b \in Bank})
  OBVIOUS
<1>1. ~RawStep
  BY DEF RawStep, layVars
<1>2. ~ \E u \in Month, c \in Category : HandType(u, c)
  <2> SUFFICES ASSUME NEW u \in Month, NEW c \in Category, HandType(u, c) PROVE FALSE
    OBVIOUS
  <2>1. Lay!HandType(u, c)
    BY DEF HandType
  <2> QED
    BY <2>1, LayTyped DEF IInv
<1>3. phase = "layout" /\ Lay!Step
  BY <1>1, <1>2, TabsMove DEF LayoutStep
<1>4. t = layJob.tab
  BY <1>3, LayRequest DEF IInv
<1>5. rawPc = "done" /\ rawJob.tab = t /\ rawJob.rows = RawRows
  BY <1>3, <1>4 DEF IInv, WritersFollowRun
<1> QED
  BY <1>5, RawReturns, RowsFacts DEF IInv
-----------------------------------------------------------------------------
(* The raw tabs as the readers of the spreadsheet see them. *)

\* The store that the writer's proofs speak of is the one of the run's writer.
LEMMA StoreVocabulary ==
  /\ RawP!Store!Init => Raw!Store!Init
  /\ [RawP!Store!Next]_(RawP!Store!vars) => [Raw!Store!Next]_(Raw!Store!vars)
BY DEF RawP!Store!Init, Raw!Store!Init, RawP!Store!Next, Raw!Store!Next, RawP!Store!vars,
       Raw!Store!vars, RawP!Store!Ask, Raw!Store!Ask, RawP!Store!EmptyTab,
       Raw!Store!EmptyTab, RawP!Store!Return, Raw!Store!Return, RawP!Store!GiveUp,
       Raw!Store!GiveUp, RawP!Store!Forget, Raw!Store!Forget, RawP!Store!Holds,
       Raw!Store!Holds, RawP!State, Raw!State, RawP!Blank, Raw!Blank, RawP!Table, Raw!Table

\* A step of the run is one of the raw writer, or leaves it alone.
LEMMA RawMoves ==
  ASSUME IInv, [Next]_vars
  PROVE  [RawP!Next]_(RawP!vars)
<1>0. RawP!IInv
  BY DEF IInv
<1>1. CASE UNCHANGED rawVars
  BY <1>1 DEF rawVars, RawP!vars
<1>2. CASE ResolveDocument
  <2>1. CASE Raw!Write(runMonth, RawRows)
    <3>1. RawP!Write(runMonth, RawRows)
      BY <2>1 DEF Raw!Write, RawP!Write, Raw!AtRest, RawP!AtRest
    <3>2. runMonth \in Month /\ RawRows \in SUBSET Movement
      BY RowsFacts DEF IInv, TypeOK
    <3> QED
      BY <3>1, <3>2 DEF RawP!Next
  <2> QED
    BY <1>1, <1>2, <2>1 DEF ResolveDocument
<1>3. CASE RawStep
  BY <1>0, <1>3, RawRequest DEF RawStep, RawP!Next
<1>4. CASE IF rawPc = "idle" THEN UNCHANGED rawVars ELSE Raw!ProcessEnds
  <2>1. CASE Raw!ProcessEnds
    BY <2>1 DEF Raw!ProcessEnds, RawP!ProcessEnds, RawP!Next
  <2> QED
    BY <1>1, <1>4, <2>1
<1>5. CASE ExitClean \/ Notify \/ Killed
  BY <1>4, <1>5 DEF ExitClean, Notify, Killed, Leaves
<1>6. CASE \/ \E m \in Movement : Book(m)
           \/ NextMonth
           \/ \E b \in Bank : SetSession(b)
           \/ \E t \in Month, c \in Category : HandType(t, c)
           \/ StartRun \/ FetchTransactions \/ FetchBalance \/ Classify
           \/ RawReturned \/ LayoutStep \/ WriteRaised \/ LayoutReturned
           \/ UNCHANGED vars
  BY <1>1, <1>6 DEF Book, NextMonth, SetSession, HandType, StartRun, FetchTransactions,
                    FetchBalance, Classify, RawReturned, LayoutStep, WriteRaised,
                    LayoutReturned, vars
<1> QED
  BY <1>2, <1>3, <1>5, <1>6 DEF Next, RunStep

\* The same of the layout tabs.
LEMMA LayoutVocabulary ==
  /\ LayP!Store!Init => Lay!Store!Init
  /\ [LayP!Store!Next]_(LayP!Store!vars) => [Lay!Store!Next]_(Lay!Store!vars)
<1> USE DEF LayP!State, Lay!State, LayP!Running, Lay!Running, LayP!Seen, Lay!Seen,
            LayP!NewSheet, Lay!NewSheet, LayP!Cardinality, Lay!Cardinality
<1>1. LayP!Store!Init => Lay!Store!Init
  BY DEF LayP!Store!Init, Lay!Store!Init
<1>2. LayP!Store!Rewrite => Lay!Store!Rewrite
  BY DEF LayP!Store!Rewrite, Lay!Store!Rewrite, LayP!Store!Old, Lay!Store!Old,
         LayP!Store!Holds, Lay!Store!Holds, LayP!Store!BlockIsRight, Lay!Store!BlockIsRight
<1>3. LayP!Store!Work \/ LayP!Store!GiveUp => Lay!Store!Work \/ Lay!Store!GiveUp
  BY <1>2 DEF LayP!Store!Work, Lay!Store!Work, LayP!Store!GiveUp, Lay!Store!GiveUp
<1>4. LayP!Store!Return \/ LayP!Store!Forget => Lay!Store!Return \/ Lay!Store!Forget
  BY DEF LayP!Store!Return, Lay!Store!Return, LayP!Store!Forget, Lay!Store!Forget,
         LayP!Store!Old, Lay!Store!Old, LayP!Store!BlockIsRight, Lay!Store!BlockIsRight
<1>5. \A t \in Month, R \in SUBSET Movement, p \in Balances :
        LayP!Store!Ask(t, R, p) => Lay!Store!Ask(t, R, p)
  BY DEF LayP!Store!Ask, Lay!Store!Ask
<1>6. \A t \in Month, c \in Category : LayP!Store!Type(t, c) => Lay!Store!Type(t, c)
  BY DEF LayP!Store!Type, Lay!Store!Type
<1>7. UNCHANGED LayP!Store!vars => UNCHANGED Lay!Store!vars
  BY DEF LayP!Store!vars, Lay!Store!vars
<1> QED
  BY <1>1, <1>3, <1>4, <1>5, <1>6, <1>7 DEF LayP!Store!Next, Lay!Store!Next

\* A step of the run is one of the layout writer or of the hand that types, or leaves it alone.
LEMMA LayMoves ==
  ASSUME IInv, [Next]_vars
  PROVE  [LayP!Next]_(LayP!vars)
<1>0. LayP!IInv
  BY DEF IInv
<1>1. CASE UNCHANGED layVars
  BY <1>1 DEF layVars, LayP!vars
<1>2. CASE RawReturned
  <2>1. LayP!Write(runMonth, ExpenseRows, PanelBalances)
    BY <1>2 DEF RawReturned, Lay!Write, LayP!Write, Lay!AtRest, LayP!AtRest,
                Lay!Cardinality, LayP!Cardinality
  <2>2. /\ runMonth \in Month /\ ExpenseRows \in SUBSET Movement
        /\ PanelBalances \in Balances
    BY RowsFacts DEF IInv, TypeOK
  <2> QED
    BY <2>1, <2>2 DEF LayP!Next
<1>3. CASE LayoutStep
  BY <1>0, <1>3, LayRequest DEF LayoutStep, LayP!Next
<1>4. CASE IF layPc = "idle" THEN UNCHANGED layVars ELSE Lay!ProcessEnds
  <2>1. CASE Lay!ProcessEnds
    BY <2>1 DEF Lay!ProcessEnds, LayP!ProcessEnds, LayP!Next
  <2> QED
    BY <1>1, <1>4, <2>1
<1>5. CASE ExitClean \/ Notify \/ Killed
  BY <1>4, <1>5 DEF ExitClean, Notify, Killed, Leaves
<1>6. CASE \E t \in Month, c \in Category : HandType(t, c)
  BY <1>6 DEF HandType, Lay!HandType, LayP!HandType, LayP!Next
<1>7. CASE \/ \E m \in Movement : Book(m)
           \/ NextMonth
           \/ \E b \in Bank : SetSession(b)
           \/ StartRun \/ FetchTransactions \/ FetchBalance \/ Classify \/ ResolveDocument
           \/ RawStep \/ WriteRaised \/ LayoutReturned
           \/ UNCHANGED vars
  BY <1>1, <1>7 DEF Book, NextMonth, SetSession, StartRun, FetchTransactions, FetchBalance,
                    Classify, ResolveDocument, RawStep, WriteRaised, LayoutReturned, vars
<1> QED
  BY <1>2, <1>3, <1>5, <1>6, <1>7 DEF Next, RunStep

-----------------------------------------------------------------------------
\* The writers' calls, the run's outcome and its answers fit together in every
\* reachable state: what all the rest follows from.
THEOREM InductiveInvariant == Spec => []IInv
BY InitIInv, NextIInv, PTL DEF Spec

\* The run, its banks and the two writers' calls are always well formed.
THEOREM TypeCorrect == Spec => []TypeOK
BY InductiveInvariant, PTL DEF IInv

\* A run that says it wrote left in both tabs exactly the movements it listed,
\* and in the panel exactly the balances it read, for any number of banks and
\* wherever earlier runs stopped (DailySummary, "both tabs carry the same
\* movement set").
THEOREM BoardsMatch == Spec => []BoardMatchesRun
BY InductiveInvariant, PTL DEF IInv

\* Exit code 0 can be trusted: what the banks with a session had settled when
\* the run started is on both tabs when it ends.
THEOREM ExitZeroIsTrue == Spec => []ExitZeroIsComplete
BY InductiveInvariant, PTL DEF IInv

\* The mail, computed from counts of outcomes, and the exit code, computed from
\* the exception and the classification, never contradict each other.
THEOREM MailAgrees == Spec => []MailAgreesWithExit
BY InductiveInvariant, PTL DEF IInv

\* No movement is ever shown in the tabs of another month, also when the month
\* changes under a run.
THEOREM RowsKeepTheirMonth == Spec => []RowsStayInTheirMonth
BY InductiveInvariant, PTL DEF IInv

\* A month is erased or rewritten only by a run of that month for which some
\* bank with a session answered.
THEOREM ErasingIsAnswered == Spec => ErasingNeedsAnAnswer
<1>1. IInv /\ [Next]_vars =>
        [\A t \in Month :
           raw'[t] # raw[t] \/ LayoutShows(t)' # LayoutShows(t) =>
             /\ t = runMonth
             /\ phase \in {"raw", "layout"}
             /\ \E b \in Bank : session[b] = "live" /\ ~passes[b].txFailed]_vars
  BY ErasureIsAnswered
<1> QED
  BY <1>1, InductiveInvariant, PTL DEF Spec, ErasingNeedsAnAnswer

\* A run touches the layout of a month only when the raw tab of that month
\* already holds this run's movements.
THEOREM LayoutComesSecond == Spec => LayoutFollowsRaw
<1>1. IInv /\ [Next]_vars =>
        [\A t \in Month :
           gastos'[t] # gastos[t] /\ phase # "off" /\
           (gastos[t] # Absent => gastos'[t].shared = gastos[t].shared) =>
             raw[t] = Raw!Table(UNION {Listed(b) : b \in Bank})]_vars
  BY LayoutIsSecond
<1> QED
  BY <1>1, InductiveInvariant, PTL DEF Spec, LayoutFollowsRaw

\* The raw tabs keep the promise of TabStore through any number of runs and kills.
THEOREM RawTabsKeepTheirPromise == Spec => RawTabsAreAStore
<1>1. IInv /\ [Next]_vars => [Raw!Store!Next]_(Raw!Store!vars)
  <2>1. IInv /\ [Next]_vars => [RawP!Store!Next]_(RawP!Store!vars)
    BY RawMoves, RawAssumptions, RawP!NextImplements DEF IInv, RawP!NextImplements
  <2> QED
    BY <2>1, StoreVocabulary
<1>2. Init => Raw!Store!Init
  <2>1. Init => RawP!Init
    BY DEF Init, RawP!Init
  <2>2. Init => RawP!Store!Init
    BY <2>1, RawAssumptions, RawP!InitImplements DEF RawP!InitImplements
  <2> QED
    BY <2>2, StoreVocabulary
<1> QED
  BY <1>1, <1>2, InductiveInvariant, PTL
     DEF Spec, RawTabsAreAStore, Raw!KeepsItsPromise, Raw!Store!Spec

\* The layout tabs keep the promise of LayoutStore through any number of runs and kills,
\* beside whatever the account holder types.
THEOREM LayoutTabsKeepTheirPromise == Spec => LayoutTabsAreAStore
<1>1. IInv /\ [Next]_vars => [Lay!Store!Next]_(Lay!Store!vars)
  <2>1. IInv /\ [Next]_vars => [LayP!Store!Next]_(LayP!Store!vars)
    BY LayMoves, LayAssumptions, LayP!NextImplements DEF IInv, LayP!NextImplements
  <2> QED
    BY <2>1, LayoutVocabulary
<1>2. Init => Lay!Store!Init
  <2>1. Init => LayP!Init
    BY DEF Init, Lay!Init, LayP!Init
  <2>2. Init => LayP!Store!Init
    BY <2>1, LayAssumptions, LayP!InitImplements DEF LayP!InitImplements
  <2> QED
    BY <2>2, LayoutVocabulary
<1> QED
  BY <1>1, <1>2, InductiveInvariant, PTL
     DEF Spec, LayoutTabsAreAStore, Lay!KeepsItsPromise, Lay!Store!Spec
=============================================================================
