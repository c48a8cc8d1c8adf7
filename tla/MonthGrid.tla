------------------------------ MODULE MonthGrid ------------------------------
(***************************************************************************)
(* The cells of one accounting tab (sheets/layout.py): what the creation   *)
(* and every refresh place, clear and format, cell by cell, and what the   *)
(* formulas among them come to.  The account holder types shared amounts   *)
(* into H, and a balance no bank reported into K, between two writes.      *)
(*                                                                         *)
(* What is abstracted: columns B to E are one column BE (a row of it is    *)
(* placed, cleared and typed as one), bank names and headers are markers,  *)
(* the sort key (date, bank, description) is a number, so is the date a    *)
(* bank reports, and amounts are whole.  The requests of one write and     *)
(* what may fail between them are LayoutWriter's; here a write is whole.   *)
(***************************************************************************)
EXTENDS Integers, Sequences, FiniteSets, FiniteSetsExt

CONSTANTS
  Movements,       \* the lists of movements a write may be handed
  Accounts,        \* the lists of account balances, one per connector
  Amount,          \* the amounts the account holder types
  Categories,      \* length of the catalogue
  MaxExpenseRows,  \* rows the expense block holds
  MaxBalanceRows,  \* balance rows every clear of the panel reaches at least
  None             \* a balance or a reference date no bank reported

ASSUME SizesAreNat == {Categories, MaxExpenseRows, MaxBalanceRows} \subseteq Nat \ {0}
ASSUME AccountsFit == \A a \in Accounts :
                        /\ a \in Seq([bank : STRING, balance : Int \cup {None}, on : Nat \cup {None}])
                        /\ Len(a) \in 1..MaxBalanceRows
ASSUME MovementsAreLists == \A m \in Movements : m \in Seq([key : Nat, amount : Int])
ASSUME TypedIsSomething  == Amount \subseteq Int /\ None \notin Amount

VARIABLES
  made,       \* the tab exists
  cell,       \* what each cell holds
  format,     \* how each cell is displayed
  movements,  \* history: the movements of the last write
  accounts,   \* history: its balances, and those typed in since
  shared      \* history: the amounts typed into H, per category; None if none was

vars == <<made, cell, format, movements, accounts, shared>>
-----------------------------------------------------------------------------
(* Geometry. *)

TitleRow  == 2
HeaderRow == 3

ExpenseFirst == 4
ExpenseLast  == ExpenseFirst + MaxExpenseRows - 1

CategoryFirst == 4
CategoryLast  == CategoryFirst + Categories - 1
CategoryTotal == CategoryLast + 1

SummaryFirst   == CategoryFirst
SummaryExpense == SummaryFirst + 1
SummaryTotal   == SummaryFirst + 2
BalanceTitle   == SummaryTotal + 2
BalanceHeader  == BalanceTitle + 1
BalanceFirst   == BalanceHeader + 1

\* _summary_panel_last_row
PanelLast(n) == BalanceFirst + n + 1

\* Mutant: a refresh clears and writes the rows of today's accounts only.
PanelRangeLast_Exact(n) == PanelLast(n)

\* _summary_panel_range_last_row
PanelRangeLast(n) == Max({PanelLast(n), PanelLast(MaxBalanceRows)})

Cells(column, first, last) == {<<column, r>> : r \in first..last}

ExpenseRegion == Cells("BE", ExpenseFirst, ExpenseLast)

Panel(n) == Cells("J", SummaryFirst, PanelRangeLast(n))
              \cup Cells("K", SummaryFirst, PanelRangeLast(n))

Cell == Cells("BE", 1, ExpenseLast) \cup Cells("G", 1, CategoryTotal)
          \cup Cells("H", 1, CategoryTotal)
          \cup Cells("J", 1, PanelLast(MaxBalanceRows))
          \cup Cells("K", 1, PanelLast(MaxBalanceRows))
-----------------------------------------------------------------------------
(* What a cell holds. *)

Blank     == [is |-> "blank"]
Text(t)   == [is |-> "text", text |-> t]
Number(n) == [is |-> "number", amount |-> n]
Iso(d)    == [is |-> "iso date", day |-> d]
Sum(what, column, first, last) ==
  [is |-> "sum", what |-> what, over |-> Cells(column, first, last)]
Plus(cells) == [is |-> "plus", over |-> cells]

\* One cell of a grid.
Put(p, content) == [q \in {p} |-> content]

\* What is laid over the rest is what a cell holds.
over ++ under ==
  [p \in DOMAIN over \cup DOMAIN under |-> IF p \in DOMAIN over THEN over[p] ELSE under[p]]

\* A row of the expense block.  Whether Sheets stored what it was sent, or took
\* its date for a date and its description for what that may look like.
Expense(m, typed) == [is |-> "expense", key |-> m.key, amount |-> m.amount, typed |-> typed]

\* What Sheets makes of a value written USER_ENTERED.
Entered(cells) ==
  [p \in DOMAIN cells |->
     CASE cells[p].is = "iso date" -> [is |-> "date", day |-> cells[p].day]
       [] cells[p].is = "expense"  -> [cells[p] EXCEPT !.typed = TRUE]
       [] OTHER -> cells[p]]

(* What the formulas come to. *)

Held(p) == IF cell[p].is \in {"number", "expense"} THEN cell[p].amount ELSE 0

Counts(what, n) ==
  CASE what = "income" -> n > 0 [] what = "spend" -> n < 0 [] OTHER -> TRUE

SumOver(f, S) == MapThenSumSet(LAMBDA x : f[x], S)

\* SUM and SUMIF pass over texts and blanks.
Summed(p) ==
  LET held == [q \in cell[p].over |-> Held(q)]
  IN SumOver(held, {q \in cell[p].over : Counts(cell[p].what, held[q])})

Shown(p) == CASE cell[p].is = "sum"  -> Summed(p)
              [] cell[p].is = "plus" -> SumOver([q \in cell[p].over |-> Summed(q)], cell[p].over)
              [] OTHER -> Held(p)
-----------------------------------------------------------------------------
(* What is placed where. *)

\* Where the i-th movement handed over goes: sorted() is stable.
Rank(list, i) ==
  Cardinality({j \in DOMAIN list : list[j].key < list[i].key \/ (list[j].key = list[i].key /\ j <= i)})

\* _expense_rows, _place_expenses
PlaceExpenses(list) ==
  [p \in Cells("BE", ExpenseFirst, ExpenseFirst + Len(list) - 1) |->
     Expense(list[CHOOSE i \in DOMAIN list : Rank(list, i) = p[2] - ExpenseFirst + 1], FALSE)]

PlaceTitlesAndHeaders ==
  [p \in {<<c, TitleRow>> : c \in {"BE", "G", "J"}}
           \cup {<<c, HeaderRow>> : c \in {"BE", "G", "H", "J", "K"}} |->
     Text(IF p[2] = TitleRow THEN "title" ELSE "header")]

\* Mutant: the sum misses the last category of the catalogue.
PlaceSharedExpenses_OffByOne ==
  [p \in Cells("G", CategoryFirst, CategoryLast) |-> Text("category")]
    ++ Put(<<"G", CategoryTotal>>, Text("total"))
    ++ Put(<<"H", CategoryTotal>>, Sum("all", "H", CategoryFirst, CategoryLast - 1))

PlaceSharedExpenses ==
  [p \in Cells("G", CategoryFirst, CategoryLast) |-> Text("category")]
    ++ Put(<<"G", CategoryTotal>>, Text("total"))
    ++ Put(<<"H", CategoryTotal>>, Sum("all", "H", CategoryFirst, CategoryLast))

PlaceSummary ==
     Put(<<"J", SummaryFirst>>,   Text("income"))
  ++ Put(<<"K", SummaryFirst>>,   Sum("income", "BE", ExpenseFirst, ExpenseLast))
  ++ Put(<<"J", SummaryExpense>>, Text("spend"))
  ++ Put(<<"K", SummaryExpense>>, Sum("spend", "BE", ExpenseFirst, ExpenseLast))
  ++ Put(<<"J", SummaryTotal>>,   Text("total"))
  ++ Put(<<"K", SummaryTotal>>,   Plus({<<"K", SummaryFirst>>, <<"K", SummaryExpense>>}))

Dates(list) == {list[i].on : i \in DOMAIN list} \ {None}

\* _reference_label
ReferenceLabel(list) ==
  IF Dates(list) = {} THEN Text("no reference date") ELSE Iso(Max(Dates(list)))

PlaceBalances(list) ==
  LET total    == BalanceFirst + Len(list)
      reported == {i \in DOMAIN list : list[i].balance # None}
  IN    Put(<<"J", BalanceTitle>>,  Text("title"))
     ++ Put(<<"J", BalanceHeader>>, Text("header"))
     ++ Put(<<"K", BalanceHeader>>, Text("header"))
     ++ [p \in Cells("J", BalanceFirst, total - 1) |-> Text(list[p[2] - BalanceFirst + 1].bank)]
     ++ [p \in {<<"K", BalanceFirst + i - 1>> : i \in reported} |->
           Number(list[p[2] - BalanceFirst + 1].balance)]
     ++ Put(<<"J", total>>, Text("total"))
     ++ (IF list = <<>> THEN <<>>
         ELSE Put(<<"K", total>>, Sum("all", "K", BalanceFirst, total - 1)))
     ++ Put(<<"J", total + 1>>, Text("reference"))
     ++ Put(<<"K", total + 1>>, ReferenceLabel(list))

\* build_month_grid; None cells of the grid leave a cell as it is.
MonthGrid(list, balances) ==
  PlaceTitlesAndHeaders ++ PlaceExpenses(list) ++ PlaceSharedExpenses
    ++ PlaceSummary ++ PlaceBalances(balances)
-----------------------------------------------------------------------------
(* The requests of a write. *)

Clear(sheet, region) == [p \in DOMAIN sheet |-> IF p \in region THEN Blank ELSE sheet[p]]

As(look, formats, region) == [p \in DOMAIN formats |-> IF p \in region THEN look ELSE formats[p]]

\* _write_expense_region: RAW, whichever path it is on.
WriteExpenseRegion(sheet, list) == PlaceExpenses(list) ++ Clear(sheet, ExpenseRegion)

\* _write_summary_region, the cells
WriteSummaryRegion(sheet, balances) ==
  Entered(PlaceSummary ++ PlaceBalances(balances)) ++ Clear(sheet, Panel(Len(balances)))

\* _write_summary_region, the format
FormatPanel(formats, n) == As("money", formats, Cells("K", SummaryFirst, PanelRangeLast(n)))

\* _apply_light_formatting
ApplyLightFormatting(formats, n) ==
  LET bold   == {p \in Cell : p[2] \in {TitleRow, HeaderRow}}
      amount == ExpenseRegion \cup Cells("H", CategoryFirst, CategoryTotal)
  IN FormatPanel(As("money", As("bold", formats, bold), amount), n)

EmptySheet   == [p \in Cell |-> Blank]
EmptyFormats == [p \in Cell |-> "plain"]

\* _write_grid and _write_expense_region, on a tab just added.
Created(list, balances) ==
  WriteExpenseRegion(Entered(MonthGrid(list, balances)) ++ EmptySheet, list)
-----------------------------------------------------------------------------
Init ==
  /\ made = FALSE
  /\ cell = EmptySheet /\ format = EmptyFormats
  /\ movements = <<>> /\ accounts = <<>>
  /\ shared = [c \in 1..Categories |-> None]

\* Mutant: one movement more than the block holds is let through.
Fits_OffByOne(list) == Len(list) <= MaxExpenseRows + 1

\* The guard of build_month_grid, before the document is touched.
Fits(list) == Len(list) <= MaxExpenseRows

Remember(list, balances) ==
  /\ movements' = list
  /\ accounts' = balances
  /\ UNCHANGED shared

Create ==
  /\ ~made /\ made' = TRUE
  /\ \E list \in Movements, balances \in Accounts :
       /\ Fits(list)
       /\ cell' = Created(list, balances)
       /\ format' = ApplyLightFormatting(format, Len(balances))
       /\ Remember(list, balances)

Refresh ==
  /\ made /\ UNCHANGED made
  /\ \E list \in Movements, balances \in Accounts :
       /\ Fits(list)
       /\ cell' = WriteSummaryRegion(WriteExpenseRegion(cell, list), balances)
       /\ format' = FormatPanel(format, Len(balances))
       /\ Remember(list, balances)

\* The account holder types what the household spent on a category.
TypeShared(c, n) ==
  /\ made
  /\ cell' = [cell EXCEPT ![<<"H", CategoryFirst + c - 1>>] = Number(n)]
  /\ shared' = [shared EXCEPT ![c] = n]
  /\ UNCHANGED <<made, format, movements, accounts>>

\* ... or the balance of an account whose bank reported none.
TypeBalance(i, n) ==
  /\ made /\ i \in DOMAIN accounts /\ accounts[i].balance = None
  /\ cell' = [cell EXCEPT ![<<"K", BalanceFirst + i - 1>>] = Number(n)]
  /\ accounts' = [accounts EXCEPT ![i].balance = n]
  /\ UNCHANGED <<made, format, movements, shared>>

Next ==
  \/ Create
  \/ Refresh
  \/ \E c \in 1..Categories, n \in Amount : TypeShared(c, n)
  \/ \E i \in 1..MaxBalanceRows, n \in Amount : TypeBalance(i, n)

Spec == Init /\ [][Next]_vars
-----------------------------------------------------------------------------
(* Properties. *)

\* Every write stays within the cells the geometry reserves for the tab.
TypeOK ==
  /\ made \in BOOLEAN
  /\ DOMAIN cell = Cell
  /\ \A p \in Cell : cell[p].is \in {"blank", "text", "number", "iso date", "date",
                                     "sum", "plus", "expense"}
  /\ format \in [Cell -> {"plain", "bold", "money"}]
  /\ accounts = <<>> \/ Len(accounts) \in 1..MaxBalanceRows
  /\ Len(movements) <= MaxExpenseRows

Typed == [p \in {<<"H", CategoryFirst + c - 1>> : c \in {d \in 1..Categories : shared[d] # None}} |->
            Number(shared[p[2] - CategoryFirst + 1])]

\* However often a tab was refreshed, with more or fewer movements and accounts
\* than before, it holds and looks like one created today from the latest data,
\* with the amounts the account holder typed into H, and nothing else.
RefreshIsAsCreated ==
  made => /\ cell = Typed ++ Created(movements, accounts)
          /\ format = ApplyLightFormatting(EmptyFormats, Len(accounts))

\* What the reader of the tab sees is what the banks said and what was typed:
\* beside the first rows so labelled the income and the spending of the month
\* and their sum, beside the last one labelled a total that of the accounts, and
\* below the catalogue that of the shared amounts.
SumsTellTheData ==
  made =>
    LET amounts  == [i \in DOMAIN movements |-> movements[i].amount]
        income   == {i \in DOMAIN movements : amounts[i] > 0}
        spend    == DOMAIN movements \ income
        typed    == {c \in 1..Categories : shared[c] # None}
        known    == {i \in DOMAIN accounts : accounts[i].balance # None}
        balances == [i \in known |-> accounts[i].balance]
        Labelled(t) == {r \in 1..PanelLast(MaxBalanceRows) : cell[<<"J", r>>] = Text(t)}
    IN /\ Shown(<<"K", Min(Labelled("income"))>>) = SumOver(amounts, income)
       /\ Shown(<<"K", Min(Labelled("spend"))>>) = SumOver(amounts, spend)
       /\ Shown(<<"K", Min(Labelled("total"))>>) = SumOver(amounts, DOMAIN movements)
       /\ Shown(<<"K", Max(Labelled("total"))>>) = SumOver(balances, known)
       /\ Shown(<<"H", CategoryTotal>>) = SumOver(shared, typed)
=============================================================================
