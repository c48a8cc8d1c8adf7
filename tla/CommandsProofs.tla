---------------------------- MODULE CommandsProofs ----------------------------
(***************************************************************************)
(* What `banking sync` and `banking layout` promise when they exit, proved *)
(* for any banks, months, movements, balances, settings and failures.      *)
(*                                                                         *)
(* As for the daily run, the two writers come with their own theorems,     *)
(* instantiated on the variables of the commands, and of a request of a    *)
(* writer only its StepFacts are used.  What is added is the command: that *)
(* it calls one writer only, with its own answers, and what its mail says. *)
(***************************************************************************)
EXTENDS Commands, FiniteSetTheorems, TLAPS

RawP == INSTANCE SheetsWriterProofs WITH
          Tab <- Month, Batch <- SUBSET Movement,
          tabs <- raw, pc <- rawPc, job <- rawJob, err <- rawErr

LayP == INSTANCE LayoutWriterProofs WITH
          Tab <- Month, Batch <- SUBSET Movement, Panel <- Balances, Category <- {},
          tabs <- gastos, pc <- layPc, job <- layJob, created <- layCreated,
          dressing <- layDressing, err <- layErr

\* The banks whose movements the command has asked for.
AskedBanks ==
  {BankOrder[i] : i \in 1..(IF phase \in {"off", "transactions"} THEN at - 1 ELSE at)}

DueOf(b) == {m \in due : BankOf[m] = b}

\* A command calls the writer of its kind, in its turn, with what it was told.
WritersFollowRun ==
  /\ phase \in {"off", "transactions", "balance", "classify", "document"}
       => rawPc = "idle" /\ layPc = "idle"
  /\ rawPc # "idle" => /\ command = "sync" /\ layPc = "idle"
                       /\ rawJob = [tab |-> target, rows |-> AllRows]
  /\ layPc # "idle" => /\ command = "layout" /\ rawPc = "idle"
                       /\ layJob = [tab |-> target, rows |-> AllRows, balances |-> AllBalance]

\* What the command has made of the answers so far.
OutcomeSoFar ==
  /\ phase # "off" => command \in {"sync", "layout"} /\ exit = -1
  /\ phase \notin {"finish", "mail"} => failed = "none"
  /\ phase \in {"document", "write"} => Some("succeeded")
  /\ failed = "nothing" => ~Some("succeeded")
  /\ phase \in {"finish", "mail"} /\ failed = "none" =>
       IF Some("succeeded")
         THEN (IF command = "sync" THEN rawPc ELSE layPc) = "done"
         ELSE command = "sync" /\ ~Some("failed")

\* What the banks have answered, against what was due of them.
AnswersSoFar ==
  /\ phase = "off" => at = 1 /\ answers = [b \in Bank |-> Unasked]
  /\ phase # "off" => \A m \in due : /\ m \in booked /\ MonthOf[m] = target
                                     /\ session[BankOf[m]] = "live"
  /\ \A b \in Bank :
       /\ answers[b].became = "succeeded" =>
            session[b] = "live" /\ DueOf(b) \subseteq answers[b].txs
       /\ answers[b].became = "not onboarded" => session[b] # "live" /\ command = "sync"
  /\ \A b \in AskedBanks : answers[b].became # "unasked"
  /\ phase \notin {"off", "transactions", "balance"} => at = Len(BankOrder)

\* How far the mail has come, and what the server has of it.
MailSoFar ==
  /\ IF phase = "mail"
       THEN /\ mailPc # "idle" /\ command = "sync" /\ SyncExit # 0
            /\ message = Mail!Subject(Became, failed = "write")
       ELSE mailPc = "idle"
  /\ mailPc = "idle" => inbox = <<>>
  /\ mailPc \in {"config", "connect", "login", "send"} => inbox = <<>>
  /\ mailPc \in {"connect", "login", "send", "quit"} => settings = "complete"
  /\ mailPc \in {"quit", "done"} =>
       /\ inbox = <<>> \/ inbox = <<message>>
       /\ \/ mailResult = "sent" /\ inbox = <<message>>
          \/ mailResult = "skipped" /\ settings \in Mail!Unusable /\ inbox = <<>>
          \/ mailResult = "failed" /\ settings \notin Mail!Unusable

IInv ==
  /\ TypeOK
  /\ RawP!IInv
  /\ LayP!IInv
  /\ WritersFollowRun
  /\ OutcomeSoFar
  /\ AnswersSoFar
  /\ MailSoFar
-----------------------------------------------------------------------------
(* The raw writer, as a part of a command. *)

LEMMA SubsetsAreFinite == \A S \in SUBSET Movement : IsFiniteSet(S)
BY MovementsAreFinite, FS_Subset

LEMMA RawAssumptions ==
  RawP!BatchIsSets /\ RawP!StatusIsHttp /\ RawP!AbsentIsNoTab /\ RawP!NoJobIsNoJob
<1>1. \A S : RawP!IsFiniteSet(S) <=> IsFiniteSet(S)
  BY DEF RawP!IsFiniteSet, IsFiniteSet
<1>2. RawP!BatchIsSets
  BY <1>1, SubsetsAreFinite DEF RawP!BatchIsSets
<1>3. RawP!StatusIsHttp
  BY StatusIsHttp DEF RawP!StatusIsHttp
<1>4. RawP!AbsentIsNoTab
  BY MarkersAreFresh DEF RawP!AbsentIsNoTab, Raw!Content, Raw!Row
<1>5. RawP!NoJobIsNoJob
  BY MarkersAreFresh DEF RawP!NoJobIsNoJob, Raw!Job
<1> QED
  BY <1>2, <1>3, <1>4, <1>5

LEMMA RawVocabulary ==
  /\ RawP!Blank = Raw!Blank /\ Raw!Blank.rows = {} /\ Raw!Blank # Absent
  /\ \A R : RawP!Table(R) = Raw!Table(R) /\ Raw!Table(R).rows = R
  /\ \A R \in SUBSET Movement : Raw!Table(R) # Absent
  /\ Raw!Running = RawP!Running
<1>1. Raw!Blank \in Raw!Content /\ \A R \in SUBSET Movement : Raw!Table(R) \in Raw!Content
  BY DEF Raw!Blank, Raw!Table, Raw!Content, Raw!Row
<1> QED
  BY <1>1, MarkersAreFresh
     DEF RawP!Blank, Raw!Blank, RawP!Table, Raw!Table, Raw!Running, RawP!Running

LEMMA RawStarts == Init => RawP!IInv
<1>1. Init => RawP!Init
  BY DEF Init, RawP!Init
<1> QED
  BY <1>1, RawAssumptions, RawP!InitIInv DEF RawP!InitIInv

LEMMA RawRests == RawP!IInv /\ UNCHANGED rawVars => RawP!IInv'
<1>1. UNCHANGED rawVars => [RawP!Next]_RawP!vars
  BY DEF rawVars, RawP!vars
<1> QED
  BY <1>1, RawAssumptions, RawP!NextIInv DEF RawP!NextIInv

LEMMA RawCalled ==
  ASSUME RawP!IInv, NEW t \in Month, NEW R \in SUBSET Movement, Raw!Write(t, R)
  PROVE  /\ RawP!IInv'
         /\ rawPc' = "open" /\ rawJob' = [tab |-> t, rows |-> R] /\ raw' = raw
<1>1. RawP!Write(t, R)
  BY DEF Raw!Write, RawP!Write, Raw!AtRest, RawP!AtRest
<1>2. RawP!IInv'
  BY <1>1, RawAssumptions, RawP!NextIInv DEF RawP!NextIInv, RawP!Next
<1> QED
  BY <1>2 DEF Raw!Write

LEMMA RawRequest ==
  ASSUME RawP!IInv, Raw!Step
  PROVE  /\ RawP!IInv' /\ RawP!Step
         /\ rawPc' # "idle" /\ rawPc \in Raw!Running /\ rawJob' = rawJob
         /\ \A t \in Month :
              raw'[t] = raw[t] \/ (/\ t = rawJob.tab
                                   /\ raw'[t] \in {Raw!Blank, Raw!Table(rawJob.rows)})
<1>1. RawP!Step
  BY DEF Raw!Step, RawP!Step, Raw!Open, RawP!Open, Raw!Resolve, RawP!Resolve, Raw!Clear,
         RawP!Clear, Raw!Add, RawP!Add, Raw!Update, RawP!Update, Raw!Answered, RawP!Answered,
         Raw!Raises, RawP!Raises, Raw!Raise, RawP!Raise, Raw!Translate, RawP!Translate,
         Raw!Becomes, RawP!Becomes, Raw!Overlay, RawP!Overlay, Raw!Blank, RawP!Blank,
         Raw!Table, RawP!Table, Raw!Cardinality, RawP!Cardinality
<1>2. RawP!IInv'
  BY <1>1, RawAssumptions, RawP!NextIInv DEF RawP!NextIInv, RawP!Next
<1>3. /\ rawPc \in RawP!Running /\ rawPc' \in RawP!Running \cup {"done", "failed"}
      /\ rawJob' = rawJob
      /\ RawP!Addresses({RawP!Blank, RawP!Table(rawJob.rows)})
  BY <1>1, RawAssumptions, RawP!StepFacts DEF RawP!StepFacts
<1> QED
  BY <1>1, <1>2, <1>3, RawVocabulary DEF RawP!Addresses, RawP!Running

LEMMA RawGone ==
  ASSUME RawP!IInv, IF rawPc = "idle" THEN UNCHANGED rawVars ELSE Raw!ProcessEnds
  PROVE  RawP!IInv' /\ rawPc' = "idle" /\ raw' = raw
<1>1. CASE rawPc = "idle"
  BY <1>1, RawRests DEF rawVars
<1>2. CASE rawPc # "idle"
  <2>1. RawP!ProcessEnds
    BY <1>2 DEF Raw!ProcessEnds, RawP!ProcessEnds
  <2>2. RawP!IInv'
    BY <2>1, RawAssumptions, RawP!NextIInv DEF RawP!NextIInv, RawP!Next
  <2> QED
    BY <1>2, <2>2 DEF Raw!ProcessEnds
<1> QED
  BY <1>1, <1>2

\* What a command relies on once the call returned.
LEMMA RawReturns == RawP!IInv /\ rawPc = "done" => raw[rawJob.tab] = Raw!Table(rawJob.rows)
BY RawVocabulary DEF RawP!IInv, RawP!WrittenIsExact

LEMMA RawTyped == (RawP!IInv => Raw!TypeOK) /\ (RawP!IInv' => Raw!TypeOK')
BY DEF RawP!IInv, RawP!TypeOK, Raw!TypeOK, RawP!Content, Raw!Content, RawP!Row, Raw!Row,
       RawP!Running, Raw!Running, RawP!AtRest, Raw!AtRest, RawP!Job, Raw!Job,
       RawP!Errors, Raw!Errors, RawP!Documented, Raw!Documented
-----------------------------------------------------------------------------
(* The layout writer, as a part of a command. *)

LEMMA LayAssumptions ==
  /\ LayP!BatchIsSets /\ LayP!PanelIsPerBank /\ LayP!StatusIsHttp
  /\ LayP!CreationDresses /\ LayP!CeilingIsNat /\ LayP!MarkersAreFresh
<1>1. \A S : LayP!IsFiniteSet(S) <=> IsFiniteSet(S)
  BY DEF LayP!IsFiniteSet, IsFiniteSet
<1>2. LayP!BatchIsSets
  BY <1>1, SubsetsAreFinite DEF LayP!BatchIsSets
<1>3. LayP!PanelIsPerBank
  BY DEF LayP!PanelIsPerBank, Balances
<1>4. LayP!StatusIsHttp /\ LayP!CeilingIsNat
  BY StatusIsHttp, CeilingIsNat DEF LayP!StatusIsHttp, LayP!CeilingIsNat
<1>5. LayP!CreationDresses
  BY CreationDresses DEF LayP!CreationDresses
<1>6. LayP!MarkersAreFresh
  BY MarkersAreFresh DEF LayP!MarkersAreFresh, LayP!Content, LayP!Job, LayP!Row,
                         Lay!Content, Lay!Job, Lay!Row
<1> QED
  BY <1>2, <1>3, <1>4, <1>5, <1>6

LEMMA LayStarts == Init => LayP!IInv
<1>1. Init => LayP!Init
  BY DEF Init, Lay!Init, LayP!Init
<1> QED
  BY <1>1, LayAssumptions, LayP!InitIInv DEF LayP!InitIInv

LEMMA LayRests == LayP!IInv /\ UNCHANGED layVars => LayP!IInv'
<1>1. UNCHANGED layVars => [LayP!Next]_LayP!vars
  BY DEF layVars, LayP!vars
<1> QED
  BY <1>1, LayAssumptions, LayP!NextIInv DEF LayP!NextIInv

LEMMA LayCalled ==
  ASSUME LayP!IInv, NEW t \in Month, NEW R \in SUBSET Movement, NEW p \in Balances,
         Lay!Write(t, R, p)
  PROVE  /\ LayP!IInv'
         /\ layPc' # "idle" /\ layPc' # "done" /\ gastos' = gastos
         /\ layJob' = [tab |-> t, rows |-> R, balances |-> p]
<1>1. LayP!Write(t, R, p)
  BY DEF Lay!Write, LayP!Write, Lay!AtRest, LayP!AtRest, Lay!Cardinality, LayP!Cardinality
<1>2. LayP!IInv'
  BY <1>1, LayAssumptions, LayP!NextIInv DEF LayP!NextIInv, LayP!Next
<1> QED
  BY <1>2 DEF Lay!Write

\* The rows a layout tab shows, in the words of LayoutWriterProofs.
LEMMA LayoutShowsExpenses ==
  \A t \in Month : LayoutShows(t) = LayP!ExpensesOf(gastos[t])
BY DEF LayoutShows, LayP!ExpensesOf

LEMMA LayRequest ==
  ASSUME LayP!IInv, Lay!Step
  PROVE  /\ LayP!IInv' /\ LayP!Step
         /\ layPc' # "idle" /\ layJob' = layJob
         /\ \A t \in Month :
              gastos'[t] = gastos[t]
                \/ (/\ t = layJob.tab
                    /\ LayoutShows(t)' \in {LayoutShows(t), {}, layJob.rows})
<1>1. LayP!Step
  <2> USE DEF Lay!Request, LayP!Request, Lay!Answered, LayP!Answered, Lay!Raises, LayP!Raises,
              Lay!Raise, LayP!Raise, Lay!Translate, LayP!Translate, Lay!Becomes, LayP!Becomes,
              Lay!Target, LayP!Target, Lay!AfterExpenses, LayP!AfterExpenses
  <2>1. Lay!Open \/ Lay!Resolve => LayP!Open \/ LayP!Resolve
    BY DEF Lay!Open, LayP!Open, Lay!Resolve, LayP!Resolve
  <2>2. Lay!Add => LayP!Add
    BY DEF Lay!Add, LayP!Add, Lay!NewSheet, LayP!NewSheet
  <2>3. Lay!Grid => LayP!Grid
    BY DEF Lay!Grid, LayP!Grid, Lay!WithGrid, LayP!WithGrid, Lay!RowsOver, LayP!RowsOver,
           Lay!PanelOver, LayP!PanelOver, Lay!Cardinality, LayP!Cardinality
  <2>4. Lay!ClearExpenses => LayP!ClearExpenses
    BY DEF Lay!ClearExpenses, LayP!ClearExpenses, Lay!WithoutExpenses, LayP!WithoutExpenses
  <2>5. Lay!FillExpenses => LayP!FillExpenses
    BY DEF Lay!FillExpenses, LayP!FillExpenses, Lay!WithExpenses, LayP!WithExpenses,
           Lay!RowsOver, LayP!RowsOver, Lay!Cardinality, LayP!Cardinality
  <2>6. Lay!Dress \/ Lay!FormatPanel => LayP!Dress \/ LayP!FormatPanel
    BY DEF Lay!Dress, LayP!Dress, Lay!FormatPanel, LayP!FormatPanel, Lay!Dressed,
           LayP!Dressed, Lay!PanelFormat, LayP!PanelFormat
  <2>7. Lay!WipePanel \/ Lay!RefillPanel => LayP!WipePanel \/ LayP!RefillPanel
    BY DEF Lay!WipePanel, LayP!WipePanel, Lay!RefillPanel, LayP!RefillPanel,
           Lay!WithoutPanel, LayP!WithoutPanel, Lay!WithPanel, LayP!WithPanel,
           Lay!PanelOver, LayP!PanelOver
  <2> QED
    BY <2>1, <2>2, <2>3, <2>4, <2>5, <2>6, <2>7, Zenon DEF Lay!Step, LayP!Step
<1>2. LayP!IInv'
  BY <1>1, LayAssumptions, LayP!NextIInv DEF LayP!NextIInv, LayP!Next
<1>3. /\ layPc' \in (LayP!Running \cup {"done", "failed"}) /\ layJob' = layJob
      /\ \A t \in Month : LayP!Addresses(t)
  BY <1>1, LayAssumptions, LayP!StepFacts DEF LayP!StepFacts
<1> QED
  BY <1>1, <1>2, <1>3 DEF LayP!Addresses, LayP!ExpensesOf, LayoutShows, LayP!Running

LEMMA LayGone ==
  ASSUME LayP!IInv, IF layPc = "idle" THEN UNCHANGED layVars ELSE Lay!ProcessEnds
  PROVE  LayP!IInv' /\ layPc' = "idle" /\ gastos' = gastos
<1>1. CASE layPc = "idle"
  BY <1>1, LayRests DEF layVars
<1>2. CASE layPc # "idle"
  <2>1. LayP!ProcessEnds
    BY <1>2 DEF Lay!ProcessEnds, LayP!ProcessEnds
  <2>2. LayP!IInv'
    BY <2>1, LayAssumptions, LayP!NextIInv DEF LayP!NextIInv, LayP!Next
  <2> QED
    BY <1>2, <2>2 DEF Lay!ProcessEnds
<1> QED
  BY <1>1, <1>2

\* What a command relies on once the call returned.
LEMMA LayReturns ==
  LayP!IInv /\ layPc = "done" => /\ gastos[layJob.tab] # Absent
                                 /\ LayoutShows(layJob.tab) = layJob.rows
                                 /\ gastos[layJob.tab].panel = layJob.balances
BY DEF LayP!IInv, LayP!WrittenIsExact, LayP!TargetSoFar, LayP!Target, LayoutShows

LEMMA LayWellTyped == (LayP!IInv => Lay!TypeOK) /\ (LayP!IInv' => Lay!TypeOK')
BY DEF LayP!IInv, LayP!TypeOK, Lay!TypeOK, LayP!Content, Lay!Content, LayP!Row, Lay!Row,
       LayP!Running, Lay!Running, LayP!AtRest, Lay!AtRest, LayP!Job, Lay!Job,
       LayP!Errors, Lay!Errors
-----------------------------------------------------------------------------
(* One lemma per action of the commands and of their world. *)

LEMMA OrderFacts ==
  /\ Len(BankOrder) \in Nat \ {0}
  /\ \A i \in 1..Len(BankOrder) : BankOrder[i] \in Bank
  /\ Bank = {BankOrder[i] : i \in 1..Len(BankOrder)}
BY OrderListsBanks

LEMMA UnaskedIsAnAnswer == Unasked \in Answer /\ Unasked.became = "unasked"
BY DEF Unasked, Answer

\* Between two commands nothing was asked.
LEMMA NothingAsked ==
  IInv /\ phase = "off" => at = 1 /\ \A b \in Bank : answers[b].became = "unasked"
<1> SUFFICES ASSUME IInv, phase = "off"
             PROVE  at = 1 /\ \A b \in Bank : answers[b].became = "unasked"
  OBVIOUS
<1>1. at = 1 /\ answers = [b \in Bank |-> Unasked]
  BY DEF IInv, AnswersSoFar
<1> QED
  BY <1>1, UnaskedIsAnAnswer

LEMMA SettingsFacts == "unread" \notin Settings /\ Settings \subseteq Mail!KnownSettings
BY SettingsAreKnown DEF Mail!KnownSettings, Mail!Unusable, Mail!Unforeseen

LEMMA InitIInv == Init => IInv
<1> SUFFICES ASSUME Init PROVE IInv
  OBVIOUS
<1>1. RawP!IInv /\ LayP!IInv
  BY RawStarts, LayStarts
<1>2. Mail!TypeOK /\ MailSoFar
  BY DEF Init, Mail!Init, Mail!TypeOK, Mail!Results, MailSoFar
<1>3. TypeOK
  <2>1. answers \in [Bank -> Answer]
    BY UnaskedIsAnAnswer DEF Init
  <2> QED
    BY <1>1, <1>2, <2>1, RawTyped, LayWellTyped, OrderFacts, BoundsAreNat DEF Init, TypeOK, Month
<1>4. WritersFollowRun /\ OutcomeSoFar
  BY DEF Init, Lay!Init, WritersFollowRun, OutcomeSoFar
<1>5. AnswersSoFar
  <2>1. /\ phase = "off" /\ at = 1 /\ answers = [b \in Bank |-> Unasked]
        /\ \A b \in Bank : answers[b].became = "unasked"
    BY UnaskedIsAnAnswer DEF Init
  <2>2. AskedBanks = {}
    BY <2>1 DEF AskedBanks
  <2> QED
    BY <2>1, <2>2 DEF AnswersSoFar
<1> QED
  BY <1>1, <1>2, <1>3, <1>4, <1>5 DEF IInv

LEMMA WritersRest ==
  ASSUME IInv, UNCHANGED <<rawVars, layVars>>
  PROVE  /\ RawP!IInv' /\ LayP!IInv' /\ Raw!TypeOK' /\ Lay!TypeOK'
         /\ UNCHANGED <<raw, rawPc, rawJob, gastos, layPc, layJob>>
BY RawRests, LayRests, RawTyped, LayWellTyped DEF IInv, rawVars, layVars

\* Outside its own phase the mail is nowhere.
LEMMA MailRests ==
  ASSUME IInv, UNCHANGED mailVars, phase # "mail", phase' # "mail"
  PROVE  Mail!TypeOK' /\ MailSoFar'
BY DEF IInv, TypeOK, Mail!TypeOK, MailSoFar, mailVars

\* The calendar, the banks and the sessions: a command knows what it was told.
LEMMA WorldKeeps ==
  ASSUME IInv, UNCHANGED <<runVars, rawVars, layVars, mailVars>>
  PROVE  /\ RawP!IInv' /\ LayP!IInv' /\ Raw!TypeOK' /\ Lay!TypeOK' /\ Mail!TypeOK'
         /\ WritersFollowRun' /\ OutcomeSoFar' /\ MailSoFar'
<1>0. UNCHANGED <<command, phase, target, at, answers, failed, exit, due>>
  BY DEF runVars
<1>1. UNCHANGED <<SyncExit, Became>>
  BY <1>0 DEF SyncExit, Became, Some
<1>2. Mail!TypeOK' /\ MailSoFar'
  BY <1>0, <1>1 DEF IInv, TypeOK, Mail!TypeOK, MailSoFar, Mail!Subject, mailVars
<1>3. WritersFollowRun' /\ OutcomeSoFar'
  BY <1>0, WritersRest
     DEF IInv, WritersFollowRun, OutcomeSoFar, AllRows, AllBalance, Some, Became
<1> QED
  BY <1>2, <1>3, WritersRest

LEMMA BookKeeps == ASSUME IInv, NEW m \in Movement, Book(m) PROVE IInv'
<1>1. UNCHANGED <<runVars, rawVars, layVars, mailVars>>
  BY DEF Book
<1>2. TypeOK'
  BY <1>1, WorldKeeps DEF Book, IInv, TypeOK, runVars
<1>3. AnswersSoFar'
  BY <1>1 DEF Book, IInv, runVars, AnswersSoFar, AskedBanks, DueOf
<1> QED
  BY <1>1, <1>2, <1>3, WorldKeeps DEF IInv

LEMMA NextMonthKeeps == IInv /\ NextMonth => IInv'
<1> SUFFICES ASSUME IInv, NextMonth PROVE IInv'
  OBVIOUS
<1>1. UNCHANGED <<runVars, rawVars, layVars, mailVars>>
  BY DEF NextMonth
<1>2. TypeOK'
  BY <1>1, WorldKeeps, BoundsAreNat DEF NextMonth, IInv, TypeOK, runVars, Month
<1>3. AnswersSoFar'
  BY <1>1 DEF NextMonth, IInv, runVars, AnswersSoFar, AskedBanks, DueOf
<1> QED
  BY <1>1, <1>2, <1>3, WorldKeeps DEF IInv

LEMMA SetSessionKeeps == ASSUME IInv, NEW b \in Bank, SetSession(b) PROVE IInv'
<1>1. UNCHANGED <<runVars, rawVars, layVars, mailVars>> /\ phase = "off"
  BY DEF SetSession
<1>2. TypeOK'
  BY <1>1, WorldKeeps DEF SetSession, IInv, TypeOK, runVars
<1>3. AnswersSoFar'
  <2>1. \A c \in Bank : answers[c].became = "unasked"
    BY <1>1, NothingAsked
  <2> QED
    BY <1>1, <2>1 DEF SetSession, IInv, runVars, AnswersSoFar, AskedBanks
<1> QED
  BY <1>1, <1>2, <1>3, WorldKeeps DEF IInv

LEMMA StartKeeps ==
  ASSUME IInv, NEW c \in {"sync", "layout"}, NEW t \in Month, Start(c, t)
  PROVE  IInv'
<1>0. /\ phase = "off" /\ phase' = "transactions" /\ command' = c /\ target' = t /\ exit' = -1
      /\ due' = {m \in booked : MonthOf[m] = t /\ session[BankOf[m]] = "live"}
      /\ UNCHANGED <<month, booked, session, at, answers, failed, faults>>
      /\ UNCHANGED <<rawVars, layVars>> /\ UNCHANGED mailVars
  BY DEF Start, envVars
<1>1. Mail!TypeOK' /\ MailSoFar'
  BY <1>0, MailRests
<1>2. TypeOK'
  <2>1. due' \subseteq Movement
    BY <1>0 DEF IInv, TypeOK
  <2> QED
    BY <1>0, <1>1, <2>1, WritersRest DEF IInv, TypeOK
<1>3. WritersFollowRun' /\ OutcomeSoFar'
  BY <1>0, WritersRest DEF IInv, WritersFollowRun, OutcomeSoFar
<1>4. AnswersSoFar'
  <2>1. at = 1 /\ \A b \in Bank : answers[b].became = "unasked"
    BY <1>0, NothingAsked
  <2>2. AskedBanks' = {}
    BY <1>0, <2>1 DEF AskedBanks
  <2> QED
    BY <1>0, <2>1, <2>2 DEF AnswersSoFar
<1> QED
  BY <1>0, <1>1, <1>2, <1>3, <1>4, WritersRest DEF IInv

LEMMA RefuseMonthKeeps == IInv /\ RefuseMonth => IInv'
<1> SUFFICES ASSUME IInv, RefuseMonth PROVE IInv'
  OBVIOUS
<1>0. /\ phase = "off" /\ phase' = "off" /\ command' = "layout" /\ exit' = 2
      /\ UNCHANGED <<month, booked, session, target, at, answers, failed, due, faults>>
      /\ UNCHANGED <<rawVars, layVars>> /\ UNCHANGED mailVars
  BY DEF RefuseMonth, envVars
<1>1. Mail!TypeOK' /\ MailSoFar'
  BY <1>0, MailRests
<1>2. TypeOK'
  BY <1>0, <1>1, WritersRest DEF IInv, TypeOK
<1>3. WritersFollowRun' /\ OutcomeSoFar'
  BY <1>0, WritersRest DEF IInv, WritersFollowRun, OutcomeSoFar, Some, Became
<1>4. AnswersSoFar'
  <2>1. \A b \in Bank : answers[b].became = "unasked"
    BY <1>0, NothingAsked
  <2> QED
    BY <1>0, <2>1 DEF IInv, AnswersSoFar, AskedBanks
<1> QED
  BY <1>0, <1>1, <1>2, <1>3, <1>4, WritersRest DEF IInv

\* A stage tells something of one bank: what is known of the others stays.
LEMMA ToldOf ==
  ASSUME answers \in [Bank -> Answer], NEW b \in Bank, NEW p \in Answer,
         answers' = [answers EXCEPT ![b] = p]
  PROVE  /\ answers' \in [Bank -> Answer] /\ answers'[b] = p
         /\ \A c \in Bank \ {b} : answers'[c] = answers[c]
OBVIOUS

LEMMA AnswerBecomes ==
  ASSUME NEW p \in Answer, NEW became \in {"failed", "not onboarded", "succeeded"}
  PROVE  /\ [p EXCEPT !.became = became] \in Answer
         /\ [p EXCEPT !.became = became].became = became
BY DEF Answer, Mail!Outcomes

LEMMA AnswerLists ==
  ASSUME NEW p \in Answer, NEW list \in SUBSET Movement
  PROVE  /\ [p EXCEPT !.became = "succeeded", !.txs = list] \in Answer
         /\ [p EXCEPT !.became = "succeeded", !.txs = list].became = "succeeded"
         /\ [p EXCEPT !.became = "succeeded", !.txs = list].txs = list
BY DEF Answer, Mail!Outcomes

LEMMA AnswerWeighs ==
  ASSUME NEW p \in Answer, NEW v \in Balance \cup {NoBalance}
  PROVE  /\ [p EXCEPT !.balance = v] \in Answer
         /\ [p EXCEPT !.balance = v].became = p.became
         /\ [p EXCEPT !.balance = v].txs = p.txs
BY DEF Answer

\* The loop over the banks goes on, or is over.
LEMMA LoopFacts ==
  ASSUME IInv, phase \in {"transactions", "balance"},
         \/ phase = "transactions" /\ phase' = "balance" /\ UNCHANGED at
         \/ NextBank
  PROVE  /\ phase' \in {"transactions", "balance", "classify"}
         /\ at' \in 1..Len(BankOrder) /\ (phase' = "classify" => at' = Len(BankOrder))
         /\ AskedBanks' \subseteq AskedBanks \cup {Asked} /\ Asked \in Bank
         /\ AskedBanks \subseteq Bank
<1>1. at \in 1..Len(BankOrder)
  BY DEF IInv, TypeOK
<1>2. /\ phase' \in {"transactions", "balance", "classify"}
      /\ at' \in 1..Len(BankOrder) /\ (phase' = "classify" => at' = Len(BankOrder))
      /\ (IF phase' \in {"off", "transactions"} THEN at' - 1 ELSE at') = at
  BY <1>1, OrderFacts DEF NextBank
<1>3. AskedBanks' = {BankOrder[i] : i \in 1..at}
  BY <1>2 DEF AskedBanks
<1>4. Asked \in Bank /\ AskedBanks \subseteq Bank
  BY <1>1, OrderFacts DEF AskedBanks, Asked
<1>5. AskedBanks' \subseteq AskedBanks \cup {Asked}
  <2>1. \A i \in 1..(at - 1) : BankOrder[i] \in AskedBanks
    BY <1>1, OrderFacts DEF AskedBanks
  <2>2. \A i \in 1..at : i = at \/ i \in 1..(at - 1)
    BY <1>1
  <2> QED
    BY <1>3, <2>1, <2>2 DEF Asked
<1> QED
  BY <1>2, <1>4, <1>5

LEMMA FetchTransactionsKeeps == IInv /\ FetchTransactions => IInv'
<1> SUFFICES ASSUME IInv, FetchTransactions PROVE IInv'
  OBVIOUS
<1> DEFINE b == Asked
           settled == {m \in booked : BankOf[m] = b /\ MonthOf[m] = AskedMonth}
<1>0. /\ phase = "transactions"
      /\ UNCHANGED <<month, booked, session, command, target, failed, exit, due, faults>>
      /\ UNCHANGED <<rawVars, layVars>> /\ UNCHANGED mailVars
      /\ (phase' = "balance" /\ UNCHANGED at) \/ NextBank
      /\ settled \in SUBSET Movement
  BY DEF FetchTransactions, envVars, IInv, TypeOK
<1>1. /\ phase' \in {"transactions", "balance", "classify"}
      /\ at' \in 1..Len(BankOrder) /\ (phase' = "classify" => at' = Len(BankOrder))
      /\ AskedBanks' \subseteq AskedBanks \cup {b} /\ b \in Bank /\ AskedBanks \subseteq Bank
  BY <1>0, LoopFacts
<1>2. \/ /\ session[b] = "live"
         /\ \E list \in SUBSET settled :
              /\ due \cap settled \subseteq list
              /\ answers' = [answers EXCEPT ![b].became = "succeeded", ![b].txs = list]
      \/ /\ session[b] = "unconfigured"
         /\ answers' = [answers EXCEPT ![b].became =
                          IF command = "sync" THEN "not onboarded" ELSE "failed"]
      \/ answers' = [answers EXCEPT ![b].became = "failed"]
  BY Zenon DEF FetchTransactions
<1>3. answers \in [Bank -> Answer] /\ answers[b] \in Answer
  BY <1>1 DEF IInv, TypeOK
<1>4. DueOf(b) \subseteq due \cap settled
  BY <1>0 DEF DueOf, AskedMonth, IInv, AnswersSoFar
<1>5. /\ answers' \in [Bank -> Answer]
      /\ \A c \in Bank \ {b} : answers'[c] = answers[c]
      /\ \/ /\ answers'[b].became = "succeeded" /\ session[b] = "live"
            /\ DueOf(b) \subseteq answers'[b].txs
         \/ answers'[b].became = "not onboarded" /\ session[b] # "live" /\ command = "sync"
         \/ answers'[b].became = "failed"
  <2>1. CASE \E list \in SUBSET settled :
               /\ session[b] = "live" /\ due \cap settled \subseteq list
               /\ answers' = [answers EXCEPT ![b].became = "succeeded", ![b].txs = list]
    <3>1. PICK list \in SUBSET settled :
            /\ session[b] = "live" /\ due \cap settled \subseteq list
            /\ answers' = [answers EXCEPT ![b].became = "succeeded", ![b].txs = list]
      BY <2>1
    <3> DEFINE p == [answers[b] EXCEPT !.became = "succeeded", !.txs = list]
    <3>a. list \in SUBSET Movement
      BY <1>0, <3>1
    <3>2. p \in Answer /\ p.became = "succeeded" /\ p.txs = list
      BY <1>3, <3>a, AnswerLists
    <3>3. answers' = [answers EXCEPT ![b] = p]
      BY <1>1, <1>3, <3>1
    <3> HIDE DEF p
    <3> QED
      BY <1>1, <1>3, <1>4, <3>1, <3>2, <3>3, ToldOf
  <2>2. ASSUME NEW became \in {"failed", "not onboarded"},
               answers' = [answers EXCEPT ![b].became = became]
        PROVE  /\ answers' \in [Bank -> Answer]
               /\ \A c \in Bank \ {b} : answers'[c] = answers[c]
               /\ answers'[b].became = became
    <3> DEFINE p == [answers[b] EXCEPT !.became = became]
    <3>2. p \in Answer /\ p.became = became
      BY <1>3, AnswerBecomes
    <3>3. answers' = [answers EXCEPT ![b] = p]
      BY <2>2
    <3> HIDE DEF p
    <3> QED
      BY <1>1, <1>3, <3>2, <3>3, ToldOf
  <2>3. CASE session[b] = "unconfigured"
               /\ answers' = [answers EXCEPT ![b].became =
                                IF command = "sync" THEN "not onboarded" ELSE "failed"]
    <3>1. CASE command = "sync"
      BY <2>2, <2>3, <3>1
    <3>2. CASE command # "sync"
      BY <2>2, <2>3, <3>2
    <3> QED
      BY <3>1, <3>2
  <2>4. CASE answers' = [answers EXCEPT ![b].became = "failed"]
    BY <2>2, <2>4
  <2> HIDE DEF b, settled
  <2> QED
    BY <1>2, <2>1, <2>3, <2>4, Zenon
<1>6. Mail!TypeOK' /\ MailSoFar'
  BY <1>0, <1>1, MailRests
<1>7. TypeOK'
  BY <1>0, <1>1, <1>5, <1>6, WritersRest DEF IInv, TypeOK
<1>8. WritersFollowRun' /\ OutcomeSoFar'
  BY <1>0, <1>1, WritersRest DEF IInv, WritersFollowRun, OutcomeSoFar
<1>9. AnswersSoFar'
  <2>1. \A c \in Bank :
          /\ answers'[c].became = "succeeded" =>
               session[c] = "live" /\ DueOf(c) \subseteq answers'[c].txs
          /\ answers'[c].became = "not onboarded" => session[c] # "live" /\ command = "sync"
    BY <1>5 DEF IInv, AnswersSoFar
  <2>2. \A c \in AskedBanks' : answers'[c].became # "unasked"
    BY <1>1, <1>5 DEF IInv, AnswersSoFar
  <2>3. \A c : DueOf(c)' = DueOf(c)
    BY <1>0 DEF DueOf
  <2> QED
    BY <1>0, <1>1, <2>1, <2>2, <2>3 DEF IInv, AnswersSoFar
<1> QED
  BY <1>6, <1>7, <1>8, <1>9, <1>0, WritersRest DEF IInv

LEMMA FetchBalanceKeeps == IInv /\ FetchBalance => IInv'
<1> SUFFICES ASSUME IInv, FetchBalance PROVE IInv'
  OBVIOUS
<1> DEFINE b == Asked
<1>0. /\ phase = "balance"
      /\ UNCHANGED <<month, booked, session, command, target, failed, exit, due, faults>>
      /\ UNCHANGED <<rawVars, layVars>> /\ UNCHANGED mailVars
      /\ NextBank
  BY DEF FetchBalance, envVars
<1>1. /\ phase' \in {"transactions", "balance", "classify"}
      /\ at' \in 1..Len(BankOrder) /\ (phase' = "classify" => at' = Len(BankOrder))
      /\ b \in Bank /\ AskedBanks \subseteq Bank
  BY <1>0, LoopFacts
<1>2. PICK v \in Balance \cup {NoBalance} : answers' = [answers EXCEPT ![b].balance = v]
  BY DEF FetchBalance
<1>3. answers \in [Bank -> Answer] /\ answers[b] \in Answer
  BY <1>1 DEF IInv, TypeOK
<1>4. /\ answers' \in [Bank -> Answer]
      /\ \A c \in Bank : /\ answers'[c].became = answers[c].became
                         /\ answers'[c].txs = answers[c].txs
  <2> DEFINE p == [answers[b] EXCEPT !.balance = v]
  <2>1. p \in Answer /\ p.became = answers[b].became /\ p.txs = answers[b].txs
    BY <1>3, AnswerWeighs
  <2>2. answers' = [answers EXCEPT ![b] = p]
    BY <1>2
  <2> HIDE DEF p
  <2> QED
    BY <1>1, <1>3, <2>1, <2>2, ToldOf
<1>5. Mail!TypeOK' /\ MailSoFar'
  BY <1>0, <1>1, MailRests
<1>6. TypeOK'
  BY <1>0, <1>1, <1>4, <1>5, WritersRest DEF IInv, TypeOK
<1>7. WritersFollowRun' /\ OutcomeSoFar'
  BY <1>0, <1>1, WritersRest DEF IInv, WritersFollowRun, OutcomeSoFar
<1>8. AnswersSoFar'
  <2>1. AskedBanks' = AskedBanks
    BY <1>0, OrderFacts DEF NextBank, AskedBanks, IInv, TypeOK
  <2>2. \A c : DueOf(c)' = DueOf(c)
    BY <1>0 DEF DueOf
  <2> QED
    BY <1>0, <1>1, <1>4, <2>1, <2>2 DEF IInv, AnswersSoFar
<1> QED
  BY <1>0, <1>5, <1>6, <1>7, <1>8, WritersRest DEF IInv

LEMMA RowsFacts == IInv => AllRows \in SUBSET Movement /\ AllBalance \in Balances
BY DEF IInv, TypeOK, AllRows, AllBalance, Balances, Answer

\* Once the banks are asked, the answers stand.
LEMMA AnswersStand ==
  ASSUME IInv, phase \notin {"off", "transactions", "balance"},
         phase' \notin {"off", "transactions", "balance"},
         UNCHANGED envVars, UNCHANGED <<command, target, at, answers, exit, due>>
  PROVE  /\ AnswersSoFar' /\ Became' = Became
         /\ AllRows' = AllRows /\ AllBalance' = AllBalance
<1>1. Became' = Became /\ AllRows' = AllRows /\ AllBalance' = AllBalance
  BY DEF Became, AllRows, AllBalance
<1>2. AskedBanks' = AskedBanks /\ \A c : DueOf(c)' = DueOf(c)
  BY DEF AskedBanks, DueOf
<1>3. AnswersSoFar'
  BY <1>2 DEF IInv, AnswersSoFar, envVars
<1> QED
  BY <1>1, <1>3

LEMMA ClassifyKeeps == IInv /\ Classify => IInv'
<1> SUFFICES ASSUME IInv, Classify PROVE IInv'
  OBVIOUS
<1>0. /\ phase = "classify" /\ phase' \in {"document", "finish"}
      /\ UNCHANGED envVars /\ UNCHANGED <<command, target, at, answers, exit, due, faults>>
      /\ UNCHANGED <<rawVars, layVars>> /\ UNCHANGED mailVars
  BY DEF Classify
<1>1. AnswersSoFar' /\ Became' = Became /\ AllRows' = AllRows /\ AllBalance' = AllBalance
  BY <1>0, AnswersStand
<1>2. failed = "none" /\ command \in {"sync", "layout"} /\ exit = -1
  BY <1>0 DEF IInv, OutcomeSoFar
<1>3. \/ phase' = "document" /\ failed' = "none" /\ Some("succeeded")
      \/ /\ phase' = "finish" /\ failed' = "none"
         /\ command = "sync" /\ ~Some("succeeded") /\ ~Some("failed")
      \/ phase' = "finish" /\ failed' = "nothing" /\ ~Some("succeeded")
  BY <1>2 DEF Classify, Verdict
<1>4. \A o \in {"succeeded", "failed"} : Some(o)' <=> Some(o)
  BY <1>1 DEF Some
<1>5. Mail!TypeOK' /\ MailSoFar'
  BY <1>0, MailRests
<1>6. TypeOK'
  BY <1>0, <1>3, <1>5, WritersRest DEF IInv, TypeOK, envVars
<1>7. WritersFollowRun'
  BY <1>0, WritersRest DEF IInv, WritersFollowRun
<1>8. OutcomeSoFar'
  BY <1>0, <1>2, <1>3, <1>4 DEF OutcomeSoFar
<1> QED
  BY <1>0, <1>1, <1>5, <1>6, <1>7, <1>8, WritersRest DEF IInv

\* What a fault costs.
LEMMA ChargeFacts ==
  ASSUME NEW goesWrong \in BOOLEAN, faults \in 0..MaxFaults, Charge(goesWrong)
  PROVE  faults' \in 0..MaxFaults
BY BoundsAreNat DEF Charge

LEMMA ResolveDocumentKeeps == IInv /\ ResolveDocument => IInv'
<1> SUFFICES ASSUME IInv, ResolveDocument PROVE IInv'
  OBVIOUS
<1>0. /\ phase = "document" /\ phase' \in {"write", "finish"}
      /\ UNCHANGED envVars /\ UNCHANGED <<command, target, at, answers, exit, due>>
      /\ UNCHANGED mailVars
  BY DEF ResolveDocument
<1>1. AnswersSoFar' /\ Became' = Became /\ AllRows' = AllRows /\ AllBalance' = AllBalance
  BY <1>0, AnswersStand
<1>2. /\ failed = "none" /\ command \in {"sync", "layout"} /\ exit = -1 /\ Some("succeeded")
      /\ rawPc = "idle" /\ layPc = "idle"
  BY <1>0 DEF IInv, OutcomeSoFar, WritersFollowRun
<1>3. Some("succeeded")'
  BY <1>1, <1>2 DEF Some
<1>4. Mail!TypeOK' /\ MailSoFar'
  BY <1>0, MailRests
<1>5. CASE /\ phase' = "write" /\ command = "sync" /\ Raw!Write(target, AllRows)
           /\ UNCHANGED layVars /\ UNCHANGED <<failed, faults>>
  <2>1. /\ RawP!IInv' /\ rawPc' = "open"
        /\ rawJob' = [tab |-> target, rows |-> AllRows] /\ Raw!TypeOK'
    BY <1>5, RowsFacts, RawCalled, RawTyped DEF IInv, TypeOK
  <2>2. LayP!IInv' /\ layPc' = "idle" /\ Lay!TypeOK'
    BY <1>2, <1>5, LayRests, LayWellTyped DEF IInv, layVars
  <2>3. TypeOK'
    BY <1>0, <1>4, <1>5, <2>1, <2>2 DEF IInv, TypeOK, envVars
  <2>4. WritersFollowRun' /\ OutcomeSoFar'
    BY <1>0, <1>1, <1>2, <1>3, <1>5, <2>1, <2>2 DEF WritersFollowRun, OutcomeSoFar
  <2> QED
    BY <1>1, <1>4, <2>1, <2>2, <2>3, <2>4 DEF IInv
<1>6. CASE /\ phase' = "write" /\ command = "layout" /\ Lay!Write(target, AllRows, AllBalance)
           /\ UNCHANGED rawVars /\ UNCHANGED <<failed, faults>>
  <2>1. /\ LayP!IInv' /\ layPc' # "idle" /\ Lay!TypeOK'
        /\ layJob' = [tab |-> target, rows |-> AllRows, balances |-> AllBalance]
    BY <1>6, RowsFacts, LayCalled, LayWellTyped DEF IInv, TypeOK
  <2>2. RawP!IInv' /\ rawPc' = "idle" /\ Raw!TypeOK'
    BY <1>2, <1>6, RawRests, RawTyped DEF IInv, rawVars
  <2>3. TypeOK'
    BY <1>0, <1>4, <1>6, <2>1, <2>2 DEF IInv, TypeOK, envVars
  <2>4. WritersFollowRun' /\ OutcomeSoFar'
    BY <1>0, <1>1, <1>2, <1>3, <1>6, <2>1, <2>2 DEF WritersFollowRun, OutcomeSoFar
  <2> QED
    BY <1>1, <1>4, <2>1, <2>2, <2>3, <2>4 DEF IInv
<1>7. CASE /\ phase' = "finish" /\ failed' = "write" /\ Charge(TRUE)
           /\ UNCHANGED <<rawVars, layVars>>
  <2>1. faults' \in 0..MaxFaults
    BY <1>7, ChargeFacts DEF IInv, TypeOK
  <2>2. TypeOK'
    BY <1>0, <1>4, <1>7, <2>1, WritersRest DEF IInv, TypeOK, envVars
  <2>3. WritersFollowRun' /\ OutcomeSoFar'
    BY <1>0, <1>2, <1>7, WritersRest DEF WritersFollowRun, OutcomeSoFar
  <2> QED
    BY <1>1, <1>4, <1>7, <2>2, <2>3, WritersRest DEF IInv
<1> QED
  <2>1. command = "sync" \/ command = "layout"
    BY <1>2
  <2> QED
    BY <2>1, <1>5, <1>6, <1>7 DEF ResolveDocument

LEMMA WriteStepKeeps == IInv /\ WriteStep => IInv'
<1> SUFFICES ASSUME IInv, WriteStep PROVE IInv'
  OBVIOUS
<1>0. /\ phase = "write" /\ UNCHANGED envVars /\ UNCHANGED mailVars
      /\ UNCHANGED <<command, phase, target, at, answers, failed, exit, due>>
  BY DEF WriteStep, runVars
<1>1. AnswersSoFar' /\ Became' = Became /\ AllRows' = AllRows /\ AllBalance' = AllBalance
  BY <1>0, AnswersStand
<1>2. OutcomeSoFar'
  <2>1. \A o \in {"succeeded", "failed"} : Some(o)' <=> Some(o)
    BY <1>1 DEF Some
  <2> QED
    BY <1>0, <2>1 DEF IInv, OutcomeSoFar
<1>3. Mail!TypeOK' /\ MailSoFar'
  BY <1>0, MailRests
<1>4. CASE Raw!Step /\ Charge(rawPc' = "failed") /\ UNCHANGED layVars
  <2>1. /\ RawP!IInv' /\ rawPc' # "idle" /\ rawPc # "idle" /\ rawJob' = rawJob /\ Raw!TypeOK'
    BY <1>4, RawRequest, RawTyped DEF IInv, Raw!Running
  <2>2. LayP!IInv' /\ layPc' = layPc /\ layJob' = layJob /\ Lay!TypeOK'
    BY <1>4, LayRests, LayWellTyped DEF IInv, layVars
  <2>3. faults' \in 0..MaxFaults
    BY <1>4, BoundsAreNat DEF Charge, IInv, TypeOK
  <2>4. TypeOK'
    BY <1>0, <1>3, <2>1, <2>2, <2>3 DEF IInv, TypeOK, envVars
  <2>5. WritersFollowRun'
    BY <1>0, <1>1, <2>1, <2>2 DEF IInv, WritersFollowRun
  <2> QED
    BY <1>1, <1>2, <1>3, <2>1, <2>2, <2>4, <2>5 DEF IInv
<1>5. CASE Lay!Step /\ Charge(layPc' = "failed") /\ UNCHANGED rawVars
  <2>1. LayP!IInv' /\ layPc' # "idle" /\ layPc # "idle" /\ layJob' = layJob /\ Lay!TypeOK'
    <3>1. layPc # "idle"
      BY <1>5 DEF Lay!Step, Lay!Open, Lay!Resolve, Lay!Add, Lay!Grid, Lay!Dress,
                  Lay!ClearExpenses, Lay!FillExpenses, Lay!WipePanel, Lay!RefillPanel,
                  Lay!FormatPanel, Lay!Request
    <3> QED
      BY <1>5, <3>1, LayRequest, LayWellTyped DEF IInv
  <2>2. RawP!IInv' /\ rawPc' = rawPc /\ rawJob' = rawJob /\ Raw!TypeOK'
    BY <1>5, RawRests, RawTyped DEF IInv, rawVars
  <2>3. faults' \in 0..MaxFaults
    BY <1>5, BoundsAreNat DEF Charge, IInv, TypeOK
  <2>4. TypeOK'
    BY <1>0, <1>3, <2>1, <2>2, <2>3 DEF IInv, TypeOK, envVars
  <2>5. WritersFollowRun'
    BY <1>0, <1>1, <2>1, <2>2 DEF IInv, WritersFollowRun
  <2> QED
    BY <1>1, <1>2, <1>3, <2>1, <2>2, <2>4, <2>5 DEF IInv
<1> QED
  BY <1>4, <1>5 DEF WriteStep

LEMMA WriteEndedKeeps == IInv /\ WriteEnded => IInv'
<1> SUFFICES ASSUME IInv, WriteEnded PROVE IInv'
  OBVIOUS
<1>0. /\ phase = "write" /\ phase' = "finish" /\ UNCHANGED envVars /\ UNCHANGED mailVars
      /\ UNCHANGED <<command, target, at, answers, exit, due, faults>>
      /\ UNCHANGED <<rawVars, layVars>>
  BY DEF WriteEnded
<1>1. AnswersSoFar' /\ Became' = Became /\ AllRows' = AllRows /\ AllBalance' = AllBalance
  BY <1>0, AnswersStand
<1>2. /\ failed = "none" /\ command \in {"sync", "layout"} /\ exit = -1 /\ Some("succeeded")
  BY <1>0 DEF IInv, OutcomeSoFar
<1>3. \/ failed' = "none" /\ (IF command = "sync" THEN rawPc ELSE layPc) = "done"
      \/ failed' = "write"
  BY <1>2 DEF WriteEnded, IInv, WritersFollowRun
<1>4. Some("succeeded")'
  BY <1>1, <1>2 DEF Some
<1>5. Mail!TypeOK' /\ MailSoFar'
  BY <1>0, MailRests
<1>6. TypeOK'
  BY <1>0, <1>3, <1>5, WritersRest DEF IInv, TypeOK, envVars
<1>7. WritersFollowRun'
  BY <1>0, <1>1, WritersRest DEF IInv, WritersFollowRun
<1>8. OutcomeSoFar'
  BY <1>0, <1>2, <1>3, <1>4, WritersRest DEF OutcomeSoFar
<1> QED
  BY <1>0, <1>1, <1>5, <1>6, <1>7, <1>8, WritersRest DEF IInv

LEMMA LeavesKeeps ==
  ASSUME IInv, Leaves, UNCHANGED envVars, UNCHANGED <<command, target>>,
         exit' \in -1..4, faults' \in 0..MaxFaults
  PROVE  IInv' /\ raw' = raw /\ gastos' = gastos
<1>0. /\ phase' = "off" /\ at' = 1 /\ answers' = [b \in Bank |-> Unasked]
      /\ failed' = "none" /\ due' = {}
      /\ UNCHANGED <<month, booked, session, command, target>>
  BY DEF Leaves, envVars
<1>1. RawP!IInv' /\ rawPc' = "idle" /\ raw' = raw /\ Raw!TypeOK'
  BY RawGone, RawTyped DEF Leaves, IInv
<1>2. LayP!IInv' /\ layPc' = "idle" /\ gastos' = gastos /\ Lay!TypeOK'
  BY LayGone, LayWellTyped DEF Leaves, IInv
<1>3. Mail!TypeOK' /\ mailPc' = "idle" /\ inbox' = <<>>
  <2>1. CASE mailPc = "idle" /\ UNCHANGED mailVars
    BY <2>1 DEF IInv, TypeOK, Mail!TypeOK, MailSoFar, mailVars
  <2>2. CASE Mail!ProcessEnds
    BY <2>2 DEF Mail!ProcessEnds, Mail!TypeOK, Mail!Results
  <2> QED
    BY <2>1, <2>2 DEF Leaves
<1>4. MailSoFar'
  BY <1>0, <1>3 DEF MailSoFar
<1>5. TypeOK'
  <2>1. answers' \in [Bank -> Answer]
    BY <1>0, UnaskedIsAnAnswer
  <2> QED
    BY <1>0, <1>1, <1>2, <1>3, <2>1, OrderFacts DEF IInv, TypeOK
<1>6. WritersFollowRun' /\ OutcomeSoFar'
  BY <1>0, <1>1, <1>2 DEF WritersFollowRun, OutcomeSoFar
<1>7. AnswersSoFar'
  <2>1. \A b \in Bank : answers'[b].became = "unasked"
    BY <1>0, UnaskedIsAnAnswer
  <2>2. AskedBanks' = {}
    BY <1>0 DEF AskedBanks
  <2> QED
    BY <1>0, <2>1, <2>2 DEF AnswersSoFar
<1> QED
  BY <1>1, <1>2, <1>4, <1>5, <1>6, <1>7 DEF IInv

LEMMA SyncExitFacts ==
  /\ SyncExit \in 0..3
  /\ SyncExit = 1 <=> failed = "nothing"
  /\ SyncExit = 2 <=> failed = "write"
  /\ SyncExit = 3 <=> failed = "none" /\ Some("succeeded") /\ Some("failed")
BY DEF SyncExit

LEMMA ExitSilentlyKeeps == IInv /\ ExitSilently => IInv' /\ raw' = raw /\ gastos' = gastos
<1> SUFFICES ASSUME IInv, ExitSilently PROVE IInv' /\ raw' = raw /\ gastos' = gastos
  OBVIOUS
<1>1. exit' \in -1..4
  BY DEF ExitSilently, LayoutExit
<1>2. Leaves /\ UNCHANGED envVars /\ UNCHANGED <<command, target>> /\ faults' \in 0..MaxFaults
  BY DEF ExitSilently, IInv, TypeOK
<1> QED
  BY <1>1, <1>2, LeavesKeeps

LEMMA ExitAfterMailKeeps == IInv /\ ExitAfterMail => IInv' /\ raw' = raw /\ gastos' = gastos
<1> SUFFICES ASSUME IInv, ExitAfterMail PROVE IInv' /\ raw' = raw /\ gastos' = gastos
  OBVIOUS
<1>1. exit' \in -1..4
  BY SyncExitFacts DEF ExitAfterMail
<1>2. Leaves /\ UNCHANGED envVars /\ UNCHANGED <<command, target>> /\ faults' \in 0..MaxFaults
  BY DEF ExitAfterMail, IInv, TypeOK
<1> QED
  BY <1>1, <1>2, LeavesKeeps

LEMMA KilledKeeps == IInv /\ Killed => IInv' /\ raw' = raw /\ gastos' = gastos
<1> SUFFICES ASSUME IInv, Killed PROVE IInv' /\ raw' = raw /\ gastos' = gastos
  OBVIOUS
<1>1. exit' \in -1..4
  BY DEF Killed, IInv, TypeOK
<1>2. faults' \in 0..MaxFaults
  BY ChargeFacts DEF Killed, IInv, TypeOK
<1>3. Leaves /\ UNCHANGED envVars /\ UNCHANGED <<command, target>>
  BY DEF Killed
<1> QED
  BY <1>1, <1>2, <1>3, LeavesKeeps

LEMMA SubjectIsOne == Mail!Subject(Became, failed = "write") \in Mail!Subjects
BY DEF Mail!Subject, Mail!Subjects

LEMMA StartMailKeeps == IInv /\ StartMail => IInv'
<1> SUFFICES ASSUME IInv, StartMail PROVE IInv'
  OBVIOUS
<1>0. /\ phase = "finish" /\ phase' = "mail" /\ command = "sync" /\ SyncExit # 0
      /\ UNCHANGED envVars
      /\ UNCHANGED <<command, target, at, answers, failed, exit, due, faults>>
      /\ UNCHANGED <<rawVars, layVars>>
      /\ Mail!Notify(Mail!Subject(Became, failed = "write"))
  BY DEF StartMail
<1>1. AnswersSoFar' /\ Became' = Became /\ AllRows' = AllRows /\ AllBalance' = AllBalance
  BY <1>0, AnswersStand
<1>2. SyncExit' = SyncExit /\ \A o \in {"succeeded", "failed"} : Some(o)' <=> Some(o)
  BY <1>0, <1>1 DEF SyncExit, Some
<1>3. /\ mailPc' = "config" /\ message' = Mail!Subject(Became, failed = "write")
      /\ mailResult' = "none" /\ inbox = <<>> /\ UNCHANGED <<settings, inbox>>
  BY <1>0 DEF Mail!Notify, IInv, MailSoFar
<1>4. message' = Mail!Subject(Became, failed = "write")'
  BY <1>0, <1>1, <1>3 DEF Mail!Subject
<1>5. Mail!TypeOK'
  BY <1>3, SubjectIsOne DEF IInv, TypeOK, Mail!TypeOK, Mail!Running, Mail!Results
<1>6. MailSoFar'
  BY <1>0, <1>2, <1>3, <1>4 DEF MailSoFar
<1>7. TypeOK'
  BY <1>0, <1>5, WritersRest DEF IInv, TypeOK, envVars
<1>8. WritersFollowRun'
  BY <1>0, <1>1, WritersRest DEF IInv, WritersFollowRun
<1>9. OutcomeSoFar'
  BY <1>0, <1>2, WritersRest DEF IInv, OutcomeSoFar
<1> QED
  BY <1>0, <1>1, <1>6, <1>7, <1>8, <1>9, WritersRest DEF IInv

LEMMA OneLong == ASSUME NEW S, NEW x \in S, NEW s, s = <<x>>
                 PROVE  s \in Seq(S) /\ Len(s) <= 1
<1>1. Len(s) = 1 /\ s \in Seq(S)
  OBVIOUS
<1> QED
  BY <1>1

\* One step of the mail, whatever it is about.
LEMMA MailMoves ==
  ASSUME Mail!TypeOK, MailSoFar, Mail!Step, phase = "mail", phase' = "mail",
         command' = command, SyncExit' = SyncExit,
         Mail!Subject(Became, failed = "write")' = Mail!Subject(Became, failed = "write")
  PROVE  Mail!TypeOK' /\ MailSoFar'
<1>1. message' = message /\ message \in Mail!Subjects
  <2>1. message = Mail!Subject(Became, failed = "write")
    BY DEF MailSoFar
  <2> QED
    BY <2>1, SubjectIsOne
       DEF Mail!Step, Mail!LoadConfig, Mail!Connect, Mail!Login, Mail!Send, Mail!Quit,
           Mail!Goes, Mail!Ends
<1>2. /\ message' = Mail!Subject(Became, failed = "write")'
      /\ command = "sync" /\ SyncExit # 0
  BY <1>1 DEF MailSoFar
<1> USE <1>1, <1>2 DEF Mail!Goes, Mail!Ends
<1>3. CASE Mail!LoadConfig
  <2>1. \/ settings' = "complete" /\ mailPc' = "connect" /\ mailResult' = mailResult
        \/ settings' \in Mail!Unusable /\ mailPc' = "done" /\ mailResult' = "skipped"
        \/ settings' \notin Mail!Unusable /\ mailPc' = "done" /\ mailResult' = "failed"
    BY <1>3 DEF Mail!LoadConfig, Mail!Unusable, Mail!Unforeseen
  <2>2. mailPc = "config" /\ inbox' = inbox /\ inbox = <<>> /\ settings' \in Settings
    BY <1>3 DEF Mail!LoadConfig, MailSoFar
  <2>3. Mail!TypeOK'
    BY <2>1, <2>2 DEF Mail!TypeOK, Mail!Running, Mail!Results
  <2> QED
    BY <2>1, <2>2, <2>3 DEF MailSoFar
<1>4. CASE Mail!Connect
  <2>1. /\ mailPc = "connect" /\ inbox' = <<>> /\ settings' = settings /\ settings = "complete"
        /\ \/ mailPc' = "login" /\ mailResult' = mailResult
           \/ mailPc' = "done" /\ mailResult' = "failed"
    BY <1>4 DEF Mail!Connect, MailSoFar
  <2>2. Mail!TypeOK'
    BY <2>1 DEF Mail!TypeOK, Mail!Running, Mail!Results
  <2> QED
    BY <2>1, <2>2 DEF MailSoFar, Mail!Unusable
<1>5. CASE Mail!Login
  <2>1. /\ mailPc = "login" /\ inbox' = <<>> /\ settings' = settings /\ settings = "complete"
        /\ \/ mailPc' = "send" /\ mailResult' = mailResult
           \/ mailPc' = "quit" /\ mailResult' = "failed"
    BY <1>5 DEF Mail!Login, MailSoFar
  <2>2. Mail!TypeOK'
    BY <2>1 DEF Mail!TypeOK, Mail!Running, Mail!Results
  <2> QED
    BY <2>1, <2>2 DEF MailSoFar, Mail!Unusable
<1>6. CASE Mail!Send
  <2>1. /\ mailPc = "send" /\ settings' = settings /\ settings = "complete" /\ inbox = <<>>
        /\ mailPc' = "quit"
        /\ \/ mailResult' = "sent" /\ inbox' = Append(inbox, message)
           \/ mailResult' = "failed" /\ inbox' = Append(inbox, message)
           \/ mailResult' = "failed" /\ inbox' = inbox
    BY <1>6 DEF Mail!Send, Mail!Accept, MailSoFar
  <2>2. Append(inbox, message) = <<message>>
    BY <2>1
  <2>a. inbox \in Seq(Mail!Subjects) /\ Len(inbox) <= 1
    BY DEF Mail!TypeOK
  <2>3. inbox' \in Seq(Mail!Subjects) /\ Len(inbox') <= 1
    <3>1. CASE inbox' = <<message>>
      BY <3>1, OneLong
    <3>2. CASE inbox' = inbox
      BY <2>a, <3>2
    <3> QED
      BY <2>1, <2>2, <3>1, <3>2
  <2>4. Mail!TypeOK'
    BY <2>1, <2>3 DEF Mail!TypeOK, Mail!Running, Mail!Results
  <2> QED
    BY <2>1, <2>2, <2>4 DEF MailSoFar, Mail!Unusable
<1>7. CASE Mail!Quit
  <2>1. mailPc = "quit" /\ mailPc' = "done" /\ UNCHANGED <<settings, mailResult, inbox>>
    BY <1>7 DEF Mail!Quit
  <2>2. Mail!TypeOK'
    BY <2>1 DEF Mail!TypeOK, Mail!Running
  <2> QED
    BY <2>1, <2>2 DEF MailSoFar
<1> QED
  BY <1>3, <1>4, <1>5, <1>6, <1>7 DEF Mail!Step

LEMMA MailStepKeeps == IInv /\ MailStep => IInv'
<1> SUFFICES ASSUME IInv, MailStep PROVE IInv'
  OBVIOUS
<1>0. /\ phase = "mail" /\ Mail!Step /\ UNCHANGED envVars
      /\ UNCHANGED <<command, phase, target, at, answers, failed, exit, due, faults>>
      /\ UNCHANGED <<rawVars, layVars>>
  BY DEF MailStep, runVars
<1>1. AnswersSoFar' /\ Became' = Became /\ AllRows' = AllRows /\ AllBalance' = AllBalance
  BY <1>0, AnswersStand
<1>2. SyncExit' = SyncExit /\ \A o \in {"succeeded", "failed"} : Some(o)' <=> Some(o)
  BY <1>0, <1>1 DEF SyncExit, Some
<1>3. Mail!Subject(Became, failed = "write")' = Mail!Subject(Became, failed = "write")
  BY <1>0, <1>1 DEF Mail!Subject
<1>4. Mail!TypeOK' /\ MailSoFar'
  BY <1>0, <1>2, <1>3, MailMoves DEF IInv, TypeOK
<1>5. TypeOK'
  BY <1>0, <1>4, WritersRest DEF IInv, TypeOK, envVars
<1>6. WritersFollowRun'
  BY <1>0, <1>1, WritersRest DEF IInv, WritersFollowRun
<1>7. OutcomeSoFar'
  BY <1>0, <1>2, WritersRest DEF IInv, OutcomeSoFar
<1> QED
  BY <1>0, <1>1, <1>4, <1>5, <1>6, <1>7, WritersRest DEF IInv

LEMMA NextIInv == IInv /\ [Next]_vars => IInv'
<1> SUFFICES ASSUME IInv, [Next]_vars PROVE IInv'
  OBVIOUS
<1>1. ASSUME NEW m \in Movement, Book(m) PROVE IInv'
  BY <1>1, BookKeeps
<1>2. ASSUME NEW b \in Bank, SetSession(b) PROVE IInv'
  BY <1>2, SetSessionKeeps
<1>3. CASE StartSync
  BY <1>3, StartKeeps DEF StartSync, IInv, TypeOK
<1>4. CASE StartLayout
  BY <1>4, StartKeeps DEF StartLayout
<1>5. CASE NextMonth \/ RefuseMonth
  BY <1>5, NextMonthKeeps, RefuseMonthKeeps
<1>6. CASE RunStep
  BY <1>6, FetchTransactionsKeeps, FetchBalanceKeeps, ClassifyKeeps, ResolveDocumentKeeps,
     WriteStepKeeps, WriteEndedKeeps, ExitSilentlyKeeps, StartMailKeeps, MailStepKeeps,
     ExitAfterMailKeeps DEF RunStep
<1>7. CASE Killed
  BY <1>7, KilledKeeps
<1>8. CASE UNCHANGED vars
  <2>0. /\ UNCHANGED envVars /\ UNCHANGED runVars /\ UNCHANGED faults
        /\ UNCHANGED <<rawVars, layVars, mailVars>>
    BY <1>8 DEF vars
  <2>1. UNCHANGED <<month, booked, session, command, phase, target, at, answers, failed,
                    exit, due, faults>>
    BY <2>0 DEF envVars, runVars
  <2>2. TypeOK'
    BY <2>0, <2>1, WorldKeeps DEF IInv, TypeOK
  <2>3. AnswersSoFar'
    BY <2>1 DEF IInv, AnswersSoFar, AskedBanks, DueOf
  <2> QED
    BY <2>0, <2>2, <2>3, WorldKeeps DEF IInv
<1> QED
  BY <1>1, <1>2, <1>3, <1>4, <1>5, <1>6, <1>7, <1>8 DEF Next

-----------------------------------------------------------------------------
(* The raw tabs as the readers of the spreadsheet see them. *)

\* The store that the writer's proofs speak of is the one of the commands' writer.
LEMMA StoreVocabulary ==
  /\ RawP!Store!Init => Raw!Store!Init
  /\ [RawP!Store!Next]_(RawP!Store!vars) => [Raw!Store!Next]_(Raw!Store!vars)
BY DEF RawP!Store!Init, Raw!Store!Init, RawP!Store!Next, Raw!Store!Next, RawP!Store!vars,
       Raw!Store!vars, RawP!Store!Ask, Raw!Store!Ask, RawP!Store!EmptyTab,
       Raw!Store!EmptyTab, RawP!Store!Return, Raw!Store!Return, RawP!Store!GiveUp,
       Raw!Store!GiveUp, RawP!Store!Forget, Raw!Store!Forget, RawP!Store!Holds,
       Raw!Store!Holds, RawP!State, Raw!State, RawP!Blank, Raw!Blank, RawP!Table, Raw!Table

\* A step of a command is one of the raw writer, or leaves it alone.
LEMMA RawMoves ==
  ASSUME IInv, [Next]_vars
  PROVE  [RawP!Next]_(RawP!vars)
<1>0. RawP!IInv
  BY DEF IInv
<1>1. CASE UNCHANGED rawVars
  BY <1>1 DEF rawVars, RawP!vars
<1>2. CASE ResolveDocument
  <2>1. CASE Raw!Write(target, AllRows)
    <3>1. RawP!Write(target, AllRows)
      BY <2>1 DEF Raw!Write, RawP!Write, Raw!AtRest, RawP!AtRest
    <3>2. target \in Month /\ AllRows \in SUBSET Movement
      BY RowsFacts DEF IInv, TypeOK
    <3> QED
      BY <3>1, <3>2 DEF RawP!Next
  <2> QED
    BY <1>1, <1>2, <2>1 DEF ResolveDocument
<1>3. CASE WriteStep
  BY <1>0, <1>1, <1>3, RawRequest DEF WriteStep, RawP!Next
<1>4. CASE IF rawPc = "idle" THEN UNCHANGED rawVars ELSE Raw!ProcessEnds
  <2>1. CASE Raw!ProcessEnds
    BY <2>1 DEF Raw!ProcessEnds, RawP!ProcessEnds, RawP!Next
  <2> QED
    BY <1>1, <1>4, <2>1
<1>5. CASE ExitSilently \/ ExitAfterMail \/ Killed
  BY <1>4, <1>5 DEF ExitSilently, ExitAfterMail, Killed, Leaves
<1>6. CASE \/ \E m \in Movement : Book(m)
           \/ NextMonth
           \/ \E b \in Bank : SetSession(b)
           \/ StartSync \/ StartLayout \/ RefuseMonth
           \/ FetchTransactions \/ FetchBalance \/ Classify
           \/ WriteEnded \/ StartMail \/ MailStep
           \/ UNCHANGED vars
  BY <1>1, <1>6 DEF Book, NextMonth, SetSession, StartSync, StartLayout, Start, RefuseMonth,
                    FetchTransactions, FetchBalance, Classify, WriteEnded, StartMail,
                    MailStep, vars
<1> QED
  BY <1>2, <1>3, <1>5, <1>6 DEF Next, RunStep

\* The same of the layout tabs.
LEMMA LayoutVocabulary ==
  /\ LayP!Store!Init => Lay!Store!Init
  /\ [LayP!Store!Next]_(LayP!Store!vars) => [Lay!Store!Next]_(Lay!Store!vars)
<1> USE DEF LayP!State, Lay!State, LayP!Running, Lay!Running, LayP!Seen, Lay!Seen,
            LayP!NewSheet, Lay!NewSheet, LayP!Cardinality, Lay!Cardinality
<1>1. LayP!Store!Init => Lay!Store!Init
  BY DEF LayP!Store!Init, Lay!Store!Init
<1>2. LayP!Store!Rewrite => Lay!Store!Rewrite
  BY DEF LayP!Store!Rewrite, Lay!Store!Rewrite, LayP!Store!Old, Lay!Store!Old,
         LayP!Store!Holds, Lay!Store!Holds, LayP!Store!BlockIsRight, Lay!Store!BlockIsRight
<1>3. LayP!Store!Work \/ LayP!Store!GiveUp => Lay!Store!Work \/ Lay!Store!GiveUp
  BY <1>2 DEF LayP!Store!Work, Lay!Store!Work, LayP!Store!GiveUp, Lay!Store!GiveUp
<1>4. LayP!Store!Return \/ LayP!Store!Forget => Lay!Store!Return \/ Lay!Store!Forget
  BY DEF LayP!Store!Return, Lay!Store!Return, LayP!Store!Forget, Lay!Store!Forget,
         LayP!Store!Old, Lay!Store!Old, LayP!Store!BlockIsRight, Lay!Store!BlockIsRight
<1>5. \A t \in Month, R \in SUBSET Movement, p \in Balances :
        LayP!Store!Ask(t, R, p) => Lay!Store!Ask(t, R, p)
  BY DEF LayP!Store!Ask, Lay!Store!Ask
<1>6. UNCHANGED LayP!Store!vars => UNCHANGED Lay!Store!vars
  BY DEF LayP!Store!vars, Lay!Store!vars
<1> QED
  BY <1>1, <1>3, <1>4, <1>5, <1>6 DEF LayP!Store!Next, Lay!Store!Next

\* A step of the commands is one of the layout writer, or leaves it alone.
LEMMA LayMoves ==
  ASSUME IInv, [Next]_vars
  PROVE  [LayP!Next]_(LayP!vars)
<1>0. LayP!IInv
  BY DEF IInv
<1>1. CASE UNCHANGED layVars
  BY <1>1 DEF layVars, LayP!vars
<1>2. CASE ResolveDocument
  <2>1. CASE Lay!Write(target, AllRows, AllBalance)
    <3>1. LayP!Write(target, AllRows, AllBalance)
      BY <2>1 DEF Lay!Write, LayP!Write, Lay!AtRest, LayP!AtRest, Lay!Cardinality,
                  LayP!Cardinality
    <3>2. target \in Month /\ AllRows \in SUBSET Movement /\ AllBalance \in Balances
      BY RowsFacts DEF IInv, TypeOK
    <3> QED
      BY <3>1, <3>2 DEF LayP!Next
  <2> QED
    BY <1>1, <1>2, <2>1 DEF ResolveDocument
<1>3. CASE WriteStep
  BY <1>0, <1>1, <1>3, LayRequest DEF WriteStep, LayP!Next
<1>4. CASE IF layPc = "idle" THEN UNCHANGED layVars ELSE Lay!ProcessEnds
  <2>1. CASE Lay!ProcessEnds
    BY <2>1 DEF Lay!ProcessEnds, LayP!ProcessEnds, LayP!Next
  <2> QED
    BY <1>1, <1>4, <2>1
<1>5. CASE ExitSilently \/ ExitAfterMail \/ Killed
  BY <1>4, <1>5 DEF ExitSilently, ExitAfterMail, Killed, Leaves
<1>6. CASE \/ \E m \in Movement : Book(m)
           \/ NextMonth
           \/ \E b \in Bank : SetSession(b)
           \/ StartSync \/ StartLayout \/ RefuseMonth
           \/ FetchTransactions \/ FetchBalance \/ Classify
           \/ WriteEnded \/ StartMail \/ MailStep
           \/ UNCHANGED vars
  BY <1>1, <1>6 DEF Book, NextMonth, SetSession, StartSync, StartLayout, Start, RefuseMonth,
                    FetchTransactions, FetchBalance, Classify, WriteEnded, StartMail,
                    MailStep, vars
<1> QED
  BY <1>2, <1>3, <1>5, <1>6 DEF Next, RunStep

-----------------------------------------------------------------------------
\* The inductive invariant of the commands: each writer keeps its own, is called
\* in its turn by a command of its kind with the answers of the banks, and the
\* mail says what the command knows.
THEOREM InductiveInvariant == Spec => []IInv
BY InitIInv, NextIInv, PTL DEF Spec

\* Whatever is interrupted, answered or refused, the commands, both writers and
\* the mail stay within their types.
THEOREM TypeCorrect == Spec => []TypeOK
<1>1. IInv => TypeOK
  BY DEF IInv
<1> QED
  BY <1>1, InductiveInvariant, PTL
-----------------------------------------------------------------------------
(* What a command tells when it exits. *)

LEMMA ExitSteps ==
  IInv /\ [Next]_vars /\ Exits => ExitSilently \/ ExitAfterMail
<1> SUFFICES ASSUME IInv, [Next]_vars, Exits, ~ExitSilently, ~ExitAfterMail
             PROVE  FALSE
  OBVIOUS
<1>0. phase # "off" /\ phase' = "off" /\ exit' # -1 /\ exit = -1
  BY DEF Exits, IInv, OutcomeSoFar
<1>1. ~(\E m \in Movement : Book(m)) /\ ~NextMonth /\ ~(UNCHANGED vars)
  BY <1>0 DEF Book, NextMonth, vars, runVars
<1>2. ~(\E b \in Bank : SetSession(b)) /\ ~RefuseMonth /\ ~StartSync /\ ~StartLayout
  BY <1>0 DEF SetSession, RefuseMonth, StartSync, StartLayout, Start
<1>3. ~FetchTransactions /\ ~FetchBalance
  BY <1>0 DEF FetchTransactions, FetchBalance, NextBank
<1>4. ~Classify /\ ~ResolveDocument /\ ~WriteEnded /\ ~StartMail
  BY <1>0 DEF Classify, ResolveDocument, WriteEnded, StartMail
<1>5. ~WriteStep /\ ~MailStep
  BY <1>0 DEF WriteStep, MailStep, runVars
<1>6. ~Killed
  BY <1>0 DEF Killed
<1> QED
  BY <1>1, <1>2, <1>3, <1>4, <1>5, <1>6 DEF Next, RunStep

\* What is certain of a command that has nothing left but to tell.
LEMMA AtTheEnd ==
  ASSUME IInv, phase \in {"finish", "mail"}
  PROVE  /\ command \in {"sync", "layout"}
         /\ \A b \in Bank : answers[b].became \in Mail!Outcomes
         /\ failed = "nothing" => ~Some("succeeded")
         /\ failed = "none" /\ ~Some("succeeded") => command = "sync" /\ ~Some("failed")
         /\ failed = "none" /\ Some("succeeded") =>
              IF command = "sync"
                THEN raw[target] = Raw!Table(AllRows)
                ELSE /\ LayoutShows(target) = AllRows
                     /\ gastos[target].panel = AllBalance
<1>1. /\ command \in {"sync", "layout"}
      /\ failed = "nothing" => ~Some("succeeded")
      /\ failed = "none" /\ ~Some("succeeded") => command = "sync" /\ ~Some("failed")
  BY DEF IInv, OutcomeSoFar
<1>2. \A b \in Bank : answers[b].became \in Mail!Outcomes
  <2>1. AskedBanks = Bank
    BY OrderFacts DEF IInv, AnswersSoFar, AskedBanks
  <2>2. \A b \in Bank : answers[b] \in Answer /\ answers[b].became # "unasked"
    BY <2>1 DEF IInv, TypeOK, AnswersSoFar
  <2> QED
    BY <2>2 DEF Answer
<1>3. ASSUME failed = "none", Some("succeeded"), command = "sync"
      PROVE  raw[target] = Raw!Table(AllRows)
  <2>1. rawPc = "done"
    BY <1>3 DEF IInv, OutcomeSoFar
  <2>2. rawJob = [tab |-> target, rows |-> AllRows]
    BY <2>1 DEF IInv, WritersFollowRun
  <2> QED
    BY <2>1, <2>2, RawReturns DEF IInv
<1>4. ASSUME failed = "none", Some("succeeded"), command # "sync"
      PROVE  LayoutShows(target) = AllRows /\ gastos[target].panel = AllBalance
  <2>1. layPc = "done"
    BY <1>4 DEF IInv, OutcomeSoFar
  <2>2. layJob = [tab |-> target, rows |-> AllRows, balances |-> AllBalance]
    BY <2>1 DEF IInv, WritersFollowRun
  <2> QED
    BY <2>1, <2>2, LayReturns DEF IInv
<1> QED
  BY <1>1, <1>2, <1>3, <1>4

LEMMA ExitPhases ==
  (ExitSilently => phase = "finish") /\ (ExitAfterMail => phase = "mail")
BY DEF ExitSilently, ExitAfterMail

\* A success that a command claims is the state of the document: the tab of the
\* month holds exactly what the banks answered, and a layout's panel the balances.
THEOREM ReportsAreWritten == Spec => ReportedIsWritten
<1>1. ASSUME IInv, [Next]_vars, Exits, failed = "none", Some("succeeded")
      PROVE  IF command = "sync"
               THEN raw[target] = Raw!Table(AllRows)
               ELSE LayoutShows(target) = AllRows /\ gastos[target].panel = AllBalance
  <2>1. phase \in {"finish", "mail"}
    BY <1>1, ExitSteps, ExitPhases
  <2> QED
    BY <1>1, <2>1, AtTheEnd
<1>2. IInv /\ [Next]_vars =>
        [Exits /\ failed = "none" /\ Some("succeeded") =>
           IF command = "sync"
             THEN raw[target] = Raw!Table(AllRows)
             ELSE /\ LayoutShows(target) = AllRows
                  /\ gastos[target].panel = AllBalance]_vars
  BY <1>1
<1> QED
  BY <1>2, InductiveInvariant, PTL DEF Spec, ReportedIsWritten

\* Exit 0 hides nothing: what a bank with a session had settled for the month is
\* in the tab, or, of a layout only, its bank is one of those named as failed.
THEOREM ExitZeroIsTrue == Spec => ExitZeroIsComplete
<1>1. ASSUME IInv, [Next]_vars, Exits, exit' = 0, NEW m \in due
      PROVE  \/ m \in (IF command = "sync" THEN RawShows(target) ELSE LayoutShows(target))
             \/ command = "layout" /\ answers[BankOf[m]].became = "failed"
  <2> DEFINE b == BankOf[m]
  <2>0. phase \in {"finish", "mail"}
    BY <1>1, ExitSteps, ExitPhases
  <2>1. /\ b \in Bank /\ m \in DueOf(b) /\ session[b] = "live"
        /\ answers[b].became \in {"succeeded", "failed"}
    <3>1. b \in Bank /\ m \in DueOf(b) /\ session[b] = "live"
      BY <1>1, <2>0, MovementsHaveAHome DEF IInv, TypeOK, DueOf, AnswersSoFar
    <3> QED
      BY <1>1, <2>0, <3>1, AtTheEnd DEF IInv, AnswersSoFar, Mail!Outcomes
  <2>2. failed = "none" /\ (command = "sync" => ~(Some("succeeded") /\ Some("failed")))
    <3>1. CASE ExitSilently
      BY <1>1, <2>0, <3>1, AtTheEnd, SyncExitFacts DEF ExitSilently, LayoutExit, IInv, TypeOK
    <3>2. CASE ExitAfterMail
      BY <1>1, <2>0, <3>2, SyncExitFacts DEF ExitAfterMail, IInv, MailSoFar
    <3> QED
      BY <1>1, <3>1, <3>2, ExitSteps
  <2>3. CASE answers[b].became = "succeeded"
    <3>1. Some("succeeded") /\ m \in AllRows
      BY <1>1, <2>1, <2>3 DEF Some, Became, AllRows, IInv, AnswersSoFar
    <3>2. CASE command = "sync"
      <4>1. raw[target] = Raw!Table(AllRows)
        BY <1>1, <2>0, <2>2, <3>1, <3>2, AtTheEnd
      <4> QED
        BY <1>1, <3>1, <3>2, <4>1, RawVocabulary, RowsFacts DEF RawShows
    <3>3. CASE command # "sync"
      BY <1>1, <2>0, <2>2, <3>1, <3>3, AtTheEnd
    <3> QED
      BY <3>2, <3>3
  <2>4. CASE answers[b].became = "failed"
    <3>1. Some("failed")
      BY <2>1, <2>4 DEF Some, Became
    <3>2. command = "layout"
      BY <1>1, <2>0, <2>2, <3>1, AtTheEnd
    <3> QED
      BY <2>4, <3>2
  <2> QED
    BY <2>1, <2>3, <2>4
<1>2. IInv /\ [Next]_vars =>
        [Exits /\ exit' = 0 =>
           \A m \in due :
             \/ m \in (IF command = "sync" THEN RawShows(target) ELSE LayoutShows(target))
             \/ command = "layout" /\ answers[BankOf[m]].became = "failed"]_vars
  BY <1>1
<1> QED
  BY <1>2, InductiveInvariant, PTL DEF Spec, ExitZeroIsComplete

\* The subject of the mail, in the words of the exit codes.
LEMMA SubjectFacts ==
  ASSUME NEW s, s = Mail!Subject(Became, failed = "write")
  PROVE  /\ failed = "write" => s = IF Some("failed") THEN "sheets and banks" ELSE "sheets"
         /\ failed # "write" => s = IF Some("succeeded") THEN "partial" ELSE "total"
BY DEF Mail!Subject, Some

\* The owner of an unattended sync learns of every failure once, under the subject
\* of that failure, unless the settings allow no mail; nobody is mailed about a
\* sync where nothing failed, or about a layout.
THEOREM OwnerLearns == Spec => OwnerIsTold
<1> DEFINE Told == /\ exit' = 0 \/ command = "layout" => inbox = <<>>
                   /\ command = "sync" =>
                        /\ exit' = 0 => failed = "none" /\ ~Some("failed")
                        /\ exit' = 4 => settings \notin Mail!Unusable
                        /\ exit' \in 1..3 /\ settings \notin Mail!Unusable => Len(inbox) = 1
                        /\ \A i \in DOMAIN inbox :
                             /\ i = 1
                             /\ inbox[i] = "total" <=> failed = "nothing"
                             /\ exit' = 3 => inbox[i] = "partial"
                             /\ exit' = 2 => inbox[i] = IF Some("failed")
                                                          THEN "sheets and banks" ELSE "sheets"
<1>1. ASSUME IInv, [Next]_vars, Exits PROVE Told
  <2>1. CASE ExitSilently
    <3>1. phase = "finish" /\ inbox = <<>>
      BY <1>1, <2>1, ExitPhases DEF IInv, MailSoFar
    <3>2. command = "sync" => SyncExit = 0 /\ exit' = 0
      BY <2>1 DEF ExitSilently
    <3>3. command = "sync" => failed = "none" /\ ~Some("failed")
      BY <1>1, <3>1, <3>2, SyncExitFacts, AtTheEnd DEF IInv, TypeOK
    <3> QED
      BY <3>1, <3>2, <3>3
  <2>2. CASE ExitAfterMail
    <3>1. /\ phase = "mail" /\ mailPc = "done" /\ command = "sync" /\ SyncExit \in 1..3
          /\ exit' = IF mailResult = "failed" THEN 4 ELSE SyncExit
          /\ message = Mail!Subject(Became, failed = "write")
      BY <1>1, <2>2, SyncExitFacts DEF ExitAfterMail, IInv, MailSoFar
    <3>2. /\ inbox = <<>> \/ inbox = <<message>>
          /\ \/ mailResult = "sent" /\ inbox = <<message>>
             \/ mailResult = "skipped" /\ settings \in Mail!Unusable /\ inbox = <<>>
             \/ mailResult = "failed" /\ settings \notin Mail!Unusable
      BY <1>1, <3>1 DEF IInv, MailSoFar
    <3>3. /\ message = "total" <=> failed = "nothing"
          /\ exit' = 3 => message = "partial"
          /\ exit' = 2 => message = IF Some("failed") THEN "sheets and banks" ELSE "sheets"
      <4>1. failed = "nothing" => ~Some("succeeded")
        BY <1>1, <3>1, AtTheEnd
      <4>2. failed = "none" => SyncExit = 3 /\ Some("succeeded")
        BY <3>1, SyncExitFacts
      <4>3. exit' \in 2..3 => SyncExit = exit'
        BY <3>1
      <4>4. failed \in {"none", "nothing", "write"}
        BY <1>1 DEF IInv, TypeOK
      <4>5. /\ failed = "write" =>
                 message = IF Some("failed") THEN "sheets and banks" ELSE "sheets"
            /\ failed # "write" =>
                 message = IF Some("succeeded") THEN "partial" ELSE "total"
        BY <3>1, SubjectFacts
      <4>6. message = "total" <=> failed = "nothing"
        BY <4>1, <4>2, <4>4, <4>5
      <4>7. exit' = 3 => message = "partial"
        BY <4>3, <4>5, SyncExitFacts
      <4>8. exit' = 2 => message = IF Some("failed") THEN "sheets and banks" ELSE "sheets"
        <5>1. exit' = 2 => failed = "write"
          BY <4>3, SyncExitFacts
        <5> QED
          BY <4>5, <5>1
      <4> QED
        BY <4>6, <4>7, <4>8
    <3>4. /\ exit' # 0
          /\ exit' = 4 => settings \notin Mail!Unusable
          /\ exit' \in 1..3 /\ settings \notin Mail!Unusable => inbox = <<message>>
      BY <3>1, <3>2
    <3>5. \A i \in DOMAIN inbox : i = 1 /\ inbox[i] = message
      BY <3>2
    <3>6. inbox = <<message>> => Len(inbox) = 1
      OBVIOUS
    <3> QED
      BY <3>1, <3>3, <3>4, <3>5, <3>6
  <2> QED
    BY <1>1, <2>1, <2>2, ExitSteps
<1>2. IInv /\ [Next]_vars => (Exits => Told)
  BY <1>1
<1> HIDE DEF Told
<1>3. Spec => [][Exits => Told]_vars
  BY <1>2, InductiveInvariant, PTL DEF Spec
<1> QED
  BY <1>3 DEF OwnerIsTold, Told

LEMMA TabsMove == IInv /\ [Next]_vars => WriteStep \/ (raw' = raw /\ gastos' = gastos)
<1> SUFFICES ASSUME IInv, [Next]_vars, ~WriteStep PROVE raw' = raw /\ gastos' = gastos
  OBVIOUS
<1>1. ASSUME UNCHANGED <<rawVars, layVars>> PROVE raw' = raw /\ gastos' = gastos
  BY <1>1 DEF rawVars, layVars
<1>2. CASE \/ \E m \in Movement : Book(m)
           \/ NextMonth
           \/ \E b \in Bank : SetSession(b)
           \/ StartSync \/ StartLayout \/ RefuseMonth \/ UNCHANGED vars
  BY <1>1, <1>2
     DEF Book, NextMonth, SetSession, StartSync, StartLayout, Start, RefuseMonth, vars
<1>3. CASE \/ FetchTransactions \/ FetchBalance \/ Classify \/ WriteEnded
           \/ StartMail \/ MailStep
  BY <1>1, <1>3
     DEF FetchTransactions, FetchBalance, Classify, WriteEnded, StartMail, MailStep
<1>4. CASE ResolveDocument
  <2>1. raw' = raw
    BY <1>4 DEF ResolveDocument, Raw!Write, rawVars
  <2>2. gastos' = gastos
    BY <1>4 DEF ResolveDocument, Lay!Write, layVars
  <2> QED
    BY <2>1, <2>2
<1>5. CASE ExitSilently \/ ExitAfterMail \/ Killed
  BY <1>5, ExitSilentlyKeeps, ExitAfterMailKeeps, KilledKeeps
<1> QED
  BY <1>2, <1>3, <1>4, <1>5 DEF Next, RunStep

\* sync touches no accounting tab, layout no raw one, neither the tab of another
\* month, and neither touches anything unless a bank with a session answered.
THEOREM TabsAreTheirs == Spec => OnlyItsTab
<1>1. ASSUME IInv, [Next]_vars, NEW t \in Month
      PROVE  /\ raw'[t] # raw[t] => command = "sync" /\ t = target
             /\ gastos'[t] # gastos[t] => command = "layout" /\ t = target
             /\ raw'[t] # raw[t] \/ gastos'[t] # gastos[t] =>
                  \E b \in Bank : answers[b].became = "succeeded" /\ session[b] = "live"
  <2>1. CASE WriteStep
    <3>1. \E b \in Bank : answers[b].became = "succeeded" /\ session[b] = "live"
      <4>1. Some("succeeded")
        BY <1>1, <2>1 DEF WriteStep, IInv, OutcomeSoFar
      <4> QED
        BY <1>1, <4>1 DEF Some, Became, IInv, AnswersSoFar
    <3>2. CASE Raw!Step /\ UNCHANGED layVars
      <4>1. /\ rawPc # "idle" /\ gastos' = gastos
            /\ raw'[t] = raw[t] \/ t = rawJob.tab
        BY <1>1, <3>2, RawRequest DEF IInv, Raw!Running, layVars
      <4>2. command = "sync" /\ rawJob.tab = target
        BY <1>1, <4>1 DEF IInv, WritersFollowRun
      <4> QED
        BY <3>1, <4>1, <4>2
    <3>3. CASE Lay!Step /\ UNCHANGED rawVars
      <4>1. /\ raw' = raw /\ layPc # "idle"
            /\ gastos'[t] = gastos[t] \/ t = layJob.tab
        <5>1. layPc # "idle"
          BY <3>3 DEF Lay!Step, Lay!Open, Lay!Resolve, Lay!Add, Lay!Grid, Lay!Dress,
                      Lay!ClearExpenses, Lay!FillExpenses, Lay!WipePanel, Lay!RefillPanel,
                      Lay!FormatPanel, Lay!Request
        <5> QED
          BY <1>1, <3>3, <5>1, LayRequest DEF IInv, rawVars
      <4>2. command = "layout" /\ layJob.tab = target
        BY <1>1, <4>1 DEF IInv, WritersFollowRun
      <4> QED
        BY <3>1, <4>1, <4>2
    <3> QED
      BY <2>1, <3>2, <3>3 DEF WriteStep
  <2>2. CASE raw' = raw /\ gastos' = gastos
    BY <2>2
  <2> QED
    BY <1>1, <2>1, <2>2, TabsMove
<1>2. IInv /\ [Next]_vars =>
        [\A t \in Month :
           /\ raw'[t] # raw[t] => command = "sync" /\ t = target
           /\ gastos'[t] # gastos[t] => command = "layout" /\ t = target
           /\ raw'[t] # raw[t] \/ gastos'[t] # gastos[t] =>
                \E b \in Bank : answers[b].became = "succeeded" /\ session[b] = "live"]_vars
  BY <1>1
<1> QED
  BY <1>2, InductiveInvariant, PTL DEF Spec, OnlyItsTab

\* The raw tabs keep the promise of TabStore through any sequence of commands.
THEOREM RawTabsKeepTheirPromise == Spec => RawTabsAreAStore
<1>1. IInv /\ [Next]_vars => [Raw!Store!Next]_(Raw!Store!vars)
  <2>1. IInv /\ [Next]_vars => [RawP!Store!Next]_(RawP!Store!vars)
    BY RawMoves, RawAssumptions, RawP!NextImplements DEF IInv, RawP!NextImplements
  <2> QED
    BY <2>1, StoreVocabulary
<1>2. Init => Raw!Store!Init
  <2>1. Init => RawP!Init
    BY DEF Init, RawP!Init
  <2>2. Init => RawP!Store!Init
    BY <2>1, RawAssumptions, RawP!InitImplements DEF RawP!InitImplements
  <2> QED
    BY <2>2, StoreVocabulary
<1> QED
  BY <1>1, <1>2, InductiveInvariant, PTL
     DEF Spec, RawTabsAreAStore, Raw!KeepsItsPromise, Raw!Store!Spec

\* The layout tabs keep the promise of LayoutStore through any sequence of commands.
THEOREM LayoutTabsKeepTheirPromise == Spec => LayoutTabsAreAStore
<1>1. IInv /\ [Next]_vars => [Lay!Store!Next]_(Lay!Store!vars)
  <2>1. IInv /\ [Next]_vars => [LayP!Store!Next]_(LayP!Store!vars)
    BY LayMoves, LayAssumptions, LayP!NextImplements DEF IInv, LayP!NextImplements
  <2> QED
    BY <2>1, LayoutVocabulary
<1>2. Init => Lay!Store!Init
  <2>1. Init => LayP!Init
    BY DEF Init, Lay!Init, LayP!Init
  <2>2. Init => LayP!Store!Init
    BY <2>1, LayAssumptions, LayP!InitImplements DEF LayP!InitImplements
  <2> QED
    BY <2>2, LayoutVocabulary
<1> QED
  BY <1>1, <1>2, InductiveInvariant, PTL
     DEF Spec, LayoutTabsAreAStore, Lay!KeepsItsPromise, Lay!Store!Spec
=============================================================================
