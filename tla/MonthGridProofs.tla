---------------------------- MODULE MonthGridProofs ----------------------------
(***************************************************************************)
(* A refreshed accounting tab is, cell by cell, the one a creation would   *)
(* make of the same data: for lists of movements and accounts of any       *)
(* length that fits, and any sizes of the catalogue and of the regions.    *)
(*                                                                         *)
(* Both paths are reduced to one description of the sheet (Sheet below),   *)
(* region by region; then a write forgets what the regions held before.    *)
(*                                                                         *)
(* The totals follow from that description: each cell a formula adds up    *)
(* stands for one movement, account or category, or adds nothing, and a    *)
(* sum does not depend on what its elements are called, nor on the order   *)
(* they are taken in (by a smallest counterexample among the subsets).     *)
(***************************************************************************)
EXTENDS MonthGrid, FiniteSetTheorems, TLAPS

Movement == [key : Nat, amount : Int]
Account  == [bank : STRING, balance : Int \cup {None}, on : Nat \cup {None}]

\* The cells a placement fills.
Filled(grid) == DOMAIN grid

\* Accounts a panel has room for, and movements a block has room for.
FitsPanel(list) == list \in Seq(Account) /\ Len(list) \in 1..MaxBalanceRows
FitsBlock(list) == list \in Seq(Movement) /\ Len(list) \in 0..MaxExpenseRows

PanelEnd    == PanelLast(MaxBalanceRows)
PanelRegion == Cells("J", SummaryFirst, PanelEnd) \cup Cells("K", SummaryFirst, PanelEnd)

PanelGrid(list) == PlaceSummary ++ PlaceBalances(list)
Frame           == PlaceTitlesAndHeaders ++ PlaceSharedExpenses

\* The sheet of a tab that holds these movements and these accounts.
Sheet(list, balances) ==
  [p \in Cell |->
     IF p \in ExpenseRegion
       THEN IF p \in Filled(PlaceExpenses(list)) THEN PlaceExpenses(list)[p] ELSE Blank
     ELSE IF p \in PanelRegion
       THEN IF p \in Filled(PanelGrid(balances)) THEN Entered(PanelGrid(balances))[p] ELSE Blank
     ELSE IF p \in Filled(Frame) THEN Entered(Frame)[p] ELSE Blank]

\* Where the account holder types shared amounts.
TypedCell(c) == <<"H", CategoryFirst + c - 1>>

IInv ==
  /\ made \in BOOLEAN
  /\ shared \in [1..Categories -> Amount \cup {None}]
  /\ FitsBlock(movements)
  /\ IF made
       THEN /\ FitsPanel(accounts)
            /\ cell = Typed ++ Sheet(movements, accounts)
            /\ format = ApplyLightFormatting(EmptyFormats, Len(accounts))
       ELSE /\ accounts = <<>>
            /\ cell = EmptySheet /\ format = EmptyFormats
            /\ shared = [c \in 1..Categories |-> None]
-----------------------------------------------------------------------------
(* Rows, columns and regions. *)

LEMMA Sizes ==
  /\ Categories \in Nat \ {0} /\ MaxExpenseRows \in Nat \ {0} /\ MaxBalanceRows \in Nat \ {0}
BY SizesAreNat

LEMMA Rows ==
  /\ TitleRow = 2 /\ HeaderRow = 3 /\ ExpenseFirst = 4 /\ CategoryFirst = 4 /\ SummaryFirst = 4
  /\ SummaryExpense = 5 /\ SummaryTotal = 6 /\ BalanceTitle = 8 /\ BalanceHeader = 9
  /\ BalanceFirst = 10
  /\ ExpenseLast = 3 + MaxExpenseRows
  /\ CategoryLast = 3 + Categories /\ CategoryTotal = 4 + Categories
  /\ PanelEnd = 11 + MaxBalanceRows
  /\ \A n \in Nat : PanelLast(n) = 11 + n
BY Sizes DEF TitleRow, HeaderRow, ExpenseFirst, CategoryFirst, SummaryFirst, SummaryExpense,
             SummaryTotal, BalanceTitle, BalanceHeader, BalanceFirst, ExpenseLast,
             CategoryLast, CategoryTotal, PanelEnd, PanelLast

\* A region takes the rows of one column.
LEMMA Within ==
  ASSUME NEW c, NEW a \in Int, NEW b \in Int, NEW k, NEW r
  PROVE  <<k, r>> \in Cells(c, a, b) <=> k = c /\ r \in a..b
BY DEF Cells

\* What every region is in terms of columns and rows.
LEMMA Regions ==
  ASSUME NEW k, NEW r
  PROVE  /\ <<k, r>> \in ExpenseRegion <=> k = "BE" /\ r \in 4..(3 + MaxExpenseRows)
         /\ <<k, r>> \in PanelRegion <=> k \in {"J", "K"} /\ r \in 4..(11 + MaxBalanceRows)
         /\ <<k, r>> \in Cell <=> \/ k = "BE" /\ r \in 1..(3 + MaxExpenseRows)
                                  \/ k \in {"G", "H"} /\ r \in 1..(4 + Categories)
                                  \/ k \in {"J", "K"} /\ r \in 1..(11 + MaxBalanceRows)
<1>1. <<k, r>> \in ExpenseRegion <=> k = "BE" /\ r \in 4..(3 + MaxExpenseRows)
  BY Sizes, Rows, Within DEF ExpenseRegion
<1>2. <<k, r>> \in PanelRegion <=> k \in {"J", "K"} /\ r \in 4..(11 + MaxBalanceRows)
  BY Sizes, Rows, Within DEF PanelRegion
<1>3. PanelLast(MaxBalanceRows) = 11 + MaxBalanceRows
  BY Sizes, Rows
<1>4. <<k, r>> \in Cell <=> \/ k = "BE" /\ r \in 1..(3 + MaxExpenseRows)
                            \/ k \in {"G", "H"} /\ r \in 1..(4 + Categories)
                            \/ k \in {"J", "K"} /\ r \in 1..(11 + MaxBalanceRows)
  BY <1>3, Sizes, Rows, Within DEF Cell
<1> QED
  BY <1>1, <1>2, <1>4

LEMMA CellsArePairs ==
  /\ \A p \in Cell : \E k, r : p = <<k, r>>
  /\ ExpenseRegion \subseteq Cell /\ PanelRegion \subseteq Cell
  /\ ExpenseRegion \cap PanelRegion = {}
<1>1. \A c : \A a, b \in Int : \A p \in Cells(c, a, b) : \E k, r : p = <<k, r>>
  BY DEF Cells
<1>2. \A p \in Cell : \E k, r : p = <<k, r>>
  BY <1>1, Sizes, Rows DEF Cell
<1>3. \A p \in ExpenseRegion \cup PanelRegion : \E k, r : p = <<k, r>>
  BY <1>1, Sizes, Rows DEF ExpenseRegion, PanelRegion
<1>4. ASSUME NEW p \in ExpenseRegion \cup PanelRegion PROVE p \in Cell
  <2>1. PICK k, r : p = <<k, r>>
    BY <1>3
  <2> QED
    BY <2>1, Regions, Sizes
<1>5. ASSUME NEW p \in ExpenseRegion PROVE p \notin PanelRegion
  <2>1. PICK k, r : p = <<k, r>>
    BY <1>3
  <2> QED
    BY <2>1, Regions
<1> QED
  BY <1>2, <1>4, <1>5
-----------------------------------------------------------------------------
(* What is laid over the rest is what a cell holds. *)

LEMMA Laid ==
  \A f, g : /\ Filled(f ++ g) = Filled(f) \cup Filled(g)
            /\ \A p \in Filled(f) : (f ++ g)[p] = f[p]
            /\ \A p \in Filled(g) : p \notin Filled(f) => (f ++ g)[p] = g[p]
BY DEF ++, Filled

LEMMA LaidFills == \A f, g : Filled(f ++ g) = Filled(f) \cup Filled(g)
BY Laid

LEMMA Single == \A p, v : Filled(Put(p, v)) = {p} /\ Put(p, v)[p] = v
BY DEF Put, Filled

LEMMA EnteredAt ==
  ASSUME NEW f, NEW g, NEW p, p \in Filled(f), p \in Filled(g), f[p] = g[p]
  PROVE  Filled(Entered(f)) = Filled(f) /\ Entered(f)[p] = Entered(g)[p]
BY DEF Entered, Filled
-----------------------------------------------------------------------------
(* Where the placements go. *)

LEMMA ExpensesFit ==
  ASSUME NEW list, FitsBlock(list)
  PROVE  Filled(PlaceExpenses(list)) \subseteq ExpenseRegion
<1>1. Filled(PlaceExpenses(list)) = Cells("BE", 4, 3 + Len(list))
  BY Rows DEF PlaceExpenses, FitsBlock, Filled
<1>2. ASSUME NEW p \in Cells("BE", 4, 3 + Len(list)) PROVE p \in ExpenseRegion
  <2>1. PICK r \in 4..(3 + Len(list)) : p = <<"BE", r>>
    BY DEF Cells
  <2> QED
    BY <2>1, Regions, Sizes DEF FitsBlock
<1> QED
  BY <1>1, <1>2

LEMMA FrameFits ==
  /\ Filled(Frame) = Filled(PlaceTitlesAndHeaders) \cup Filled(PlaceSharedExpenses)
  /\ Filled(Frame) \subseteq Cell \ (ExpenseRegion \cup PanelRegion)
<1>1. Filled(PlaceSharedExpenses) = Cells("G", 4, 3 + Categories)
                                     \cup {<<"G", 4 + Categories>>, <<"H", 4 + Categories>>}
  <2> DEFINE names == [p \in Cells("G", CategoryFirst, CategoryLast) |-> Text("category")]
  <2>1. Filled(names) = Cells("G", CategoryFirst, CategoryLast)
    BY DEF Filled
  <2> HIDE DEF names
  <2>2. PlaceSharedExpenses = names
             ++ Put(<<"G", CategoryTotal>>, Text("total"))
             ++ Put(<<"H", CategoryTotal>>, Sum("all", "H", CategoryFirst, CategoryLast))
    BY DEF PlaceSharedExpenses, names
  <2>3. Filled(PlaceSharedExpenses) = Cells("G", CategoryFirst, CategoryLast)
                                       \cup {<<"G", CategoryTotal>>} \cup {<<"H", CategoryTotal>>}
    BY <2>1, <2>2, Laid, Single
  <2> QED
    BY <2>3, Rows
<1>2. Filled(PlaceTitlesAndHeaders) = {<<c, 2>> : c \in {"BE", "G", "J"}}
                                       \cup {<<c, 3>> : c \in {"BE", "G", "H", "J", "K"}}
  BY Rows DEF PlaceTitlesAndHeaders, Filled
<1>3. Filled(Frame) = Filled(PlaceTitlesAndHeaders) \cup Filled(PlaceSharedExpenses)
  BY Laid DEF Frame
<1>4. ASSUME NEW p \in Filled(Frame) PROVE p \in Cell \ (ExpenseRegion \cup PanelRegion)
  <2>1. CASE p \in Filled(PlaceTitlesAndHeaders)
    <3>1. PICK c \in {"BE", "G", "H", "J", "K"}, r \in {2, 3} : p = <<c, r>>
      BY <1>2, <2>1
    <3> QED
      BY <3>1, Regions, Sizes
  <2>2. CASE p \in Filled(PlaceSharedExpenses)
    <3>1. PICK c \in {"G", "H"}, r \in 4..(4 + Categories) : p = <<c, r>>
      BY <1>1, <2>2, Sizes DEF Cells
    <3> QED
      BY <3>1, Regions, Sizes
  <2> QED
    BY <1>3, <2>1, <2>2
<1> QED
  BY <1>3, <1>4

LEMMA SummaryFits ==
  /\ Filled(PlaceSummary) = {<<c, r>> : c \in {"J", "K"}, r \in {4, 5, 6}}
  /\ Filled(PlaceSummary) \subseteq PanelRegion
<1>1. Filled(PlaceSummary) = {<<"J", 4>>, <<"K", 4>>, <<"J", 5>>, <<"K", 5>>, <<"J", 6>>, <<"K", 6>>}
  <2>1. Filled(PlaceSummary) =
          {<<"J", SummaryFirst>>} \cup {<<"K", SummaryFirst>>} \cup {<<"J", SummaryExpense>>}
            \cup {<<"K", SummaryExpense>>} \cup {<<"J", SummaryTotal>>} \cup {<<"K", SummaryTotal>>}
    BY Laid, Single DEF PlaceSummary
  <2> QED
    BY <2>1, Rows
<1>2. Filled(PlaceSummary) = {<<c, r>> : c \in {"J", "K"}, r \in {4, 5, 6}}
  BY <1>1
<1> QED
  BY <1>2, Regions, Sizes

\* The parts of a panel's balances.
Total(list)    == BalanceFirst + Len(list)
Reported(list) == {i \in DOMAIN list : list[i].balance # None}
Amounts(list)  == [p \in {<<"K", BalanceFirst + i - 1>> : i \in Reported(list)} |->
                     Number(list[p[2] - BalanceFirst + 1].balance)]
Names(list)    == [p \in Cells("J", BalanceFirst, Total(list) - 1) |->
                     Text(list[p[2] - BalanceFirst + 1].bank)]
Above(list)    == Put(<<"J", BalanceTitle>>, Text("title"))
                    ++ Put(<<"J", BalanceHeader>>, Text("header"))
                    ++ Put(<<"K", BalanceHeader>>, Text("header"))
                    ++ Names(list)
TotalOf(list)  == IF list = <<>> THEN <<>>
                  ELSE Put(<<"K", Total(list)>>, Sum("all", "K", BalanceFirst, Total(list) - 1))

LEMMA BalancesByPart ==
  \A list : PlaceBalances(list) =
              Above(list) ++ Amounts(list)
                ++ Put(<<"J", Total(list)>>, Text("total"))
                ++ TotalOf(list)
                ++ Put(<<"J", Total(list) + 1>>, Text("reference"))
                ++ Put(<<"K", Total(list) + 1>>, ReferenceLabel(list))
BY Zenon DEF PlaceBalances, Above, Names, Amounts, Reported, Total, TotalOf

\* The last two rows: the total of the accounts and the reference date.
Totals(list) == {<<"J", Total(list)>>, <<"K", Total(list)>>,
                 <<"J", Total(list) + 1>>, <<"K", Total(list) + 1>>}

LEMMA BalancesFill ==
  ASSUME NEW list, FitsPanel(list)
  PROVE  /\ TotalOf(list) = Put(<<"K", Total(list)>>, Sum("all", "K", BalanceFirst, Total(list) - 1))
         /\ Filled(PlaceBalances(list)) = Filled(Above(list)) \cup Filled(Amounts(list))
              \cup Totals(list)
         /\ Filled(Above(list)) = Cells("J", 10, 9 + Len(list))
                                   \cup {<<"J", 8>>, <<"J", 9>>, <<"K", 9>>}
<1>0. Len(list) \in Nat /\ list # <<>>
  BY DEF FitsPanel
<1>1. Filled(Above(list)) = Cells("J", 10, 9 + Len(list)) \cup {<<"J", 8>>, <<"J", 9>>, <<"K", 9>>}
  <2>1. Filled(Names(list)) = Cells("J", 10, 9 + Len(list))
    BY <1>0, Rows DEF Names, Filled, Total
  <2>2. Filled(Above(list)) = {<<"J", BalanceTitle>>} \cup {<<"J", BalanceHeader>>}
                               \cup {<<"K", BalanceHeader>>} \cup Filled(Names(list))
    BY Laid, Single DEF Above
  <2> QED
    BY <2>1, <2>2, Rows
<1>2. TotalOf(list) = Put(<<"K", Total(list)>>, Sum("all", "K", BalanceFirst, Total(list) - 1))
  BY <1>0 DEF TotalOf
<1>3. Filled(PlaceBalances(list)) = Filled(Above(list)) \cup Filled(Amounts(list))
              \cup Totals(list)
  <2> DEFINE label     == Put(<<"J", Total(list)>>, Text("total"))
             reference == Put(<<"J", Total(list) + 1>>, Text("reference"))
             date      == Put(<<"K", Total(list) + 1>>, ReferenceLabel(list))
  <2>1. /\ Filled(label) = {<<"J", Total(list)>>} /\ Filled(TotalOf(list)) = {<<"K", Total(list)>>}
        /\ Filled(reference) = {<<"J", Total(list) + 1>>} /\ Filled(date) = {<<"K", Total(list) + 1>>}
    BY <1>2, Single
  <2>2. PlaceBalances(list) =
          Above(list) ++ Amounts(list) ++ label ++ TotalOf(list) ++ reference ++ date
    BY BalancesByPart
  <2> HIDE DEF label, reference, date
  <2>3. Filled(PlaceBalances(list)) =
          Filled(Above(list)) \cup Filled(Amounts(list)) \cup Filled(label)
            \cup Filled(TotalOf(list)) \cup Filled(reference) \cup Filled(date)
    BY <2>2, LaidFills
    <2> QED
    BY <2>1, <2>3 DEF Totals
<1> QED
  BY <1>1, <1>2, <1>3

LEMMA BalancesFit ==
  ASSUME NEW list, FitsPanel(list)
  PROVE  /\ Filled(PlaceBalances(list)) \subseteq PanelRegion
         /\ \A p \in Filled(PlaceBalances(list)) : p \notin Filled(PlaceSummary)
<1>0. Len(list) \in Nat /\ DOMAIN list = 1..Len(list)
  BY DEF FitsPanel
<1>f. /\ Filled(PlaceBalances(list)) = Filled(Above(list)) \cup Filled(Amounts(list)) \cup Totals(list)
      /\ Filled(Above(list)) = Cells("J", 10, 9 + Len(list)) \cup {<<"J", 8>>, <<"J", 9>>, <<"K", 9>>}
  BY BalancesFill
<1>1. ASSUME NEW p \in Filled(PlaceBalances(list))
      PROVE  \E c \in {"J", "K"}, r \in 8..(11 + Len(list)) : p = <<c, r>>
  <2>0. p \in Filled(Above(list)) \/ p \in Filled(Amounts(list)) \/ p \in Totals(list)
    BY <1>f, <1>1, Zenon
  <2>1. CASE p \in Filled(Above(list))
    <3>1. p \in Cells("J", 10, 9 + Len(list)) \/ p \in {<<"J", 8>>, <<"J", 9>>, <<"K", 9>>}
        BY <1>f, <2>1, Zenon
    <3>2. CASE p \in Cells("J", 10, 9 + Len(list))
      BY <1>0, <3>2 DEF Cells
    <3>3. CASE p \in {<<"J", 8>>, <<"J", 9>>, <<"K", 9>>}
      BY <1>0, <3>3
    <3> QED
      BY <3>1, <3>2, <3>3
  <2>2. CASE p \in Filled(Amounts(list))
    <3>1. PICK i \in 1..Len(list) : p = <<"K", BalanceFirst + i - 1>>
      BY <1>0, <2>2 DEF Reported, Amounts, Filled
    <3>2. BalanceFirst + i - 1 \in 8..(11 + Len(list))
      BY <1>0, Rows
    <3> QED
      BY <3>1, <3>2
  <2>3. CASE p \in Totals(list)
    <3>1. Totals(list) = {<<"J", 10 + Len(list)>>, <<"K", 10 + Len(list)>>,
                          <<"J", 11 + Len(list)>>, <<"K", 11 + Len(list)>>}
      BY <1>0, Rows DEF Total, Totals
    <3>2. 10 + Len(list) \in 8..(11 + Len(list)) /\ 11 + Len(list) \in 8..(11 + Len(list))
      BY <1>0
    <3> QED
      BY <2>3, <3>1, <3>2
  <2> QED
    BY <2>0, <2>1, <2>2, <2>3
<1>2. ASSUME NEW p \in Filled(PlaceBalances(list))
      PROVE  p \in PanelRegion /\ p \notin Filled(PlaceSummary)
  <2>1. PICK c \in {"J", "K"}, r \in 8..(11 + Len(list)) : p = <<c, r>>
    BY <1>1
  <2>2. r \in 4..(11 + MaxBalanceRows)
    BY <1>0, Sizes DEF FitsPanel
  <2> QED
    BY <2>1, <2>2, Regions, SummaryFits
<1> QED
  BY <1>2

LEMMA PanelFits ==
  ASSUME NEW list, FitsPanel(list)
  PROVE  /\ Filled(PanelGrid(list)) = Filled(PlaceSummary) \cup Filled(PlaceBalances(list))
         /\ Filled(PanelGrid(list)) \subseteq PanelRegion
         /\ \A p \in Filled(PlaceSummary) : PanelGrid(list)[p] = PlaceSummary[p]
         /\ \A p \in Filled(PlaceBalances(list)) : PanelGrid(list)[p] = PlaceBalances(list)[p]
<1>0. /\ Filled(PlaceBalances(list)) \subseteq PanelRegion
      /\ \A p \in Filled(PlaceBalances(list)) : p \notin Filled(PlaceSummary)
  BY BalancesFit
<1>1. Filled(PanelGrid(list)) = Filled(PlaceSummary) \cup Filled(PlaceBalances(list))
  BY Laid DEF PanelGrid
<1>2. \A p \in Filled(PlaceSummary) : PanelGrid(list)[p] = PlaceSummary[p]
  BY Laid DEF PanelGrid
<1>3. \A p \in Filled(PlaceBalances(list)) : PanelGrid(list)[p] = PlaceBalances(list)[p]
  BY <1>0, Laid DEF PanelGrid
<1> QED
  BY <1>0, <1>1, <1>2, <1>3, SummaryFits

\* A refresh clears and formats the same rows whatever the number of accounts.
LEMMA PanelRangeFixed ==
  \A n \in 0..MaxBalanceRows : PanelRangeLast(n) = PanelEnd
<1> SUFFICES ASSUME NEW n \in 0..MaxBalanceRows PROVE PanelRangeLast(n) = PanelEnd
  OBVIOUS
<1>1. PanelLast(n) = 11 + n /\ PanelEnd = 11 + MaxBalanceRows /\ PanelEnd = PanelLast(MaxBalanceRows)
  BY Sizes, Rows DEF PanelEnd
<1>2. PanelLast(n) \in Int /\ PanelEnd \in Int /\ PanelEnd >= PanelLast(n) /\ PanelEnd >= PanelEnd
  BY <1>1, Sizes
<1>3. \A x \in {PanelLast(n), PanelEnd} :
        (\A y \in {PanelLast(n), PanelEnd} : x >= y) => x = PanelEnd
  BY <1>2
<1> DEFINE S == {PanelLast(n), PanelEnd}
           P(x) == \A y \in S : x >= y
<1>4. PanelEnd \in S /\ P(PanelEnd)
  BY <1>2
<1>5. (CHOOSE x \in S : P(x)) \in S /\ P(CHOOSE x \in S : P(x))
  BY <1>4
<1>6. Max(S) = PanelEnd
  BY <1>3, <1>5 DEF Max
<1> QED
  BY <1>1, <1>6 DEF PanelRangeLast
-----------------------------------------------------------------------------
(* What a creation places, region by region. *)

LEMMA GridByRegion ==
  ASSUME NEW list, FitsBlock(list), NEW balances, FitsPanel(balances)
  PROVE  LET grid == MonthGrid(list, balances)
         IN  /\ Filled(grid) = Filled(PlaceExpenses(list)) \cup Filled(PanelGrid(balances)) \cup Filled(Frame)
             /\ \A p \in Filled(PanelGrid(balances)) : grid[p] = PanelGrid(balances)[p]
             /\ \A p \in Filled(Frame) : grid[p] = Frame[p]
<1> DEFINE T == PlaceTitlesAndHeaders
           X == PlaceExpenses(list)
           S == PlaceSharedExpenses
           Y == PlaceSummary
           B == PlaceBalances(balances)
           grid == MonthGrid(list, balances)
<1>1. grid = T ++ X ++ S ++ Y ++ B
  BY DEF MonthGrid
<1>2. PanelGrid(balances) = Y ++ B /\ Frame = T ++ S
  BY DEF PanelGrid, Frame
<1>3. Filled(X) \subseteq ExpenseRegion
  BY ExpensesFit
<1>4. Filled(Y) \cup Filled(B) \subseteq PanelRegion
  BY PanelFits
<1>5. Filled(T) \cup Filled(S) \subseteq Cell \ (ExpenseRegion \cup PanelRegion)
  BY FrameFits
<1>6. ExpenseRegion \cap PanelRegion = {}
  BY CellsArePairs
<1> HIDE DEF T, X, S, Y, B, grid
<1>7. Filled(grid) = Filled(T) \cup Filled(X) \cup Filled(S) \cup Filled(Y) \cup Filled(B)
  BY <1>1, LaidFills
<1>8. Filled(Y ++ B) = Filled(Y) \cup Filled(B) /\ Filled(T ++ S) = Filled(T) \cup Filled(S)
  BY LaidFills
<1>9. Filled(grid) = Filled(X) \cup Filled(PanelGrid(balances)) \cup Filled(Frame)
  BY <1>2, <1>7, <1>8
<1>10. ASSUME NEW p \in Filled(Y ++ B) PROVE grid[p] = (Y ++ B)[p]
  <2>1. p \notin Filled(T) /\ p \notin Filled(X) /\ p \notin Filled(S)
    BY <1>3, <1>4, <1>5, <1>6, <1>8, <1>10
  <2>2. p \notin Filled(T ++ X) /\ p \notin Filled(T ++ X ++ S)
    BY <2>1, LaidFills
  <2>3. CASE p \in Filled(Y)
    <3>1. p \in Filled(T ++ X ++ S ++ Y)
      BY <2>3, LaidFills
    <3>2. grid[p] = (T ++ X ++ S ++ Y)[p]
      BY <1>1, <3>1, Laid
    <3>3. (T ++ X ++ S ++ Y)[p] = Y[p]
      BY <2>2, <2>3, Laid
    <3>4. (Y ++ B)[p] = Y[p]
      BY <2>3, Laid
    <3> QED
      BY <3>2, <3>3, <3>4
  <2>4. CASE p \notin Filled(Y)
    <3>1. p \in Filled(B) /\ p \notin Filled(T ++ X ++ S ++ Y)
      BY <1>8, <1>10, <2>2, <2>4, LaidFills
    <3>2. grid[p] = B[p]
      BY <1>1, <3>1, Laid
    <3>3. (Y ++ B)[p] = B[p]
      BY <2>4, <3>1, Laid
    <3> QED
      BY <3>2, <3>3
  <2> QED
    BY <2>3, <2>4
<1>11. ASSUME NEW p \in Filled(T ++ S) PROVE grid[p] = (T ++ S)[p]
  <2>1. p \notin Filled(X)
    BY <1>3, <1>5, <1>8, <1>11
  <2>2. p \in Filled(T ++ X ++ S) /\ p \in Filled(T ++ X ++ S ++ Y)
    BY <1>8, <1>11, LaidFills
  <2>3. grid[p] = (T ++ X ++ S ++ Y)[p] /\ (T ++ X ++ S ++ Y)[p] = (T ++ X ++ S)[p]
    BY <1>1, <2>2, Laid
  <2>4. CASE p \in Filled(T)
    <3>1. p \in Filled(T ++ X)
      BY <2>4, LaidFills
    <3>2. (T ++ X ++ S)[p] = (T ++ X)[p] /\ (T ++ X)[p] = T[p] /\ (T ++ S)[p] = T[p]
      BY <2>4, <3>1, Laid
    <3> QED
      BY <2>3, <3>2
  <2>5. CASE p \notin Filled(T)
    <3>1. p \in Filled(S) /\ p \notin Filled(T ++ X)
      BY <1>8, <1>11, <2>1, <2>5, LaidFills
    <3>2. (T ++ X ++ S)[p] = S[p] /\ (T ++ S)[p] = S[p]
      BY <2>5, <3>1, Laid
    <3> QED
      BY <2>3, <3>2
  <2> QED
    BY <2>4, <2>5
<1>12. \A p \in Filled(PanelGrid(balances)) : grid[p] = PanelGrid(balances)[p]
  BY <1>2, <1>10
<1>13. \A p \in Filled(Frame) : grid[p] = Frame[p]
  BY <1>2, <1>11
<1> QED
  BY <1>9, <1>12, <1>13 DEF grid, X
-----------------------------------------------------------------------------
(* Both writes, region by region. *)

LEMMA Cleared ==
  \A sheet, region :
    /\ Filled(Clear(sheet, region)) = Filled(sheet)
    /\ \A p \in Filled(sheet) :
         Clear(sheet, region)[p] = IF p \in region THEN Blank ELSE sheet[p]
BY DEF Clear, Filled

LEMMA SameSheet ==
  ASSUME NEW f, NEW g, NEW h, h = [p \in Cell |-> h[p]],
         Filled(f ++ g) = Cell, \A p \in Cell : (f ++ g)[p] = h[p]
  PROVE  f ++ g = h
<1>1. f ++ g = [p \in Filled(f ++ g) |-> (f ++ g)[p]]
  BY DEF ++, Filled
<1> QED
  BY <1>1, Zenon

LEMMA EnteredFills == \A f : Filled(Entered(f)) = Filled(f)
BY DEF Entered, Filled

\* _write_expense_region alone.
LEMMA ExpensesWritten ==
  ASSUME NEW sheet, Filled(sheet) = Cell, NEW list, FitsBlock(list)
  PROVE  LET after == WriteExpenseRegion(sheet, list)
         IN  /\ Filled(after) = Cell
             /\ \A p \in Cell :
                  after[p] = IF p \in ExpenseRegion
                               THEN IF p \in Filled(PlaceExpenses(list)) THEN PlaceExpenses(list)[p] ELSE Blank
                             ELSE sheet[p]
<1> DEFINE X == PlaceExpenses(list)
           C == Clear(sheet, ExpenseRegion)
<1>1. Filled(X) \subseteq ExpenseRegion /\ ExpenseRegion \subseteq Cell
  BY ExpensesFit, CellsArePairs
<1>2. Filled(C) = Cell /\ \A p \in Cell : C[p] = IF p \in ExpenseRegion THEN Blank ELSE sheet[p]
  BY Cleared
<1>3. WriteExpenseRegion(sheet, list) = X ++ C
  BY DEF WriteExpenseRegion
<1> HIDE DEF X, C
<1>4. Filled(X ++ C) = Cell
  <2>1. Filled(X) \subseteq Cell /\ Filled(C) = Cell
    BY <1>1, <1>2
  <2> QED
    BY <2>1, LaidFills
<1>5. ASSUME NEW p \in Cell
      PROVE  (X ++ C)[p] = IF p \in ExpenseRegion THEN IF p \in Filled(X) THEN X[p] ELSE Blank
                           ELSE sheet[p]
  BY <1>1, <1>2, Laid
<1> QED
  BY <1>3, <1>4, <1>5 DEF X

\* What a refresh leaves of the sheet it found: the cells outside the regions.
LEMMA RefreshByRegion ==
  ASSUME NEW sheet, Filled(sheet) = Cell, NEW list, FitsBlock(list), NEW balances, FitsPanel(balances)
  PROVE  LET after == WriteSummaryRegion(WriteExpenseRegion(sheet, list), balances)
         IN  /\ Filled(after) = Cell
             /\ \A p \in Cell :
                  after[p] = IF p \in ExpenseRegion \cup PanelRegion THEN Sheet(list, balances)[p]
                             ELSE sheet[p]
             /\ after = Entered(PanelGrid(balances))
                          ++ Clear(WriteExpenseRegion(sheet, list), PanelRegion)
<1> DEFINE W == WriteExpenseRegion(sheet, list)
           G == PanelGrid(balances)
           E == Entered(G)
           C == Clear(W, PanelRegion)
<1>1. Filled(G) \subseteq PanelRegion /\ PanelRegion \subseteq Cell /\ ExpenseRegion \cap PanelRegion = {}
  BY PanelFits, CellsArePairs
<1>2. Filled(W) = Cell /\ \A p \in Cell :
        W[p] = IF p \in ExpenseRegion
                 THEN IF p \in Filled(PlaceExpenses(list)) THEN PlaceExpenses(list)[p] ELSE Blank
               ELSE sheet[p]
  BY ExpensesWritten
<1>3. Panel(Len(balances)) = PanelRegion
  BY PanelRangeFixed DEF Panel, PanelRegion, FitsPanel
<1>4. WriteSummaryRegion(W, balances) = E ++ C
  BY <1>3 DEF WriteSummaryRegion, PanelGrid
<1>5. Filled(E) = Filled(G)
  BY EnteredFills
<1>6. \A p \in Cell : Sheet(list, balances)[p] =
        IF p \in ExpenseRegion
           THEN IF p \in Filled(PlaceExpenses(list)) THEN PlaceExpenses(list)[p] ELSE Blank
        ELSE IF p \in PanelRegion
           THEN IF p \in Filled(G) THEN E[p] ELSE Blank
        ELSE IF p \in Filled(Frame) THEN Entered(Frame)[p] ELSE Blank
  BY DEF Sheet
<1> HIDE DEF W, E, G
<1>7. Filled(C) = Cell /\ \A p \in Cell : C[p] = IF p \in PanelRegion THEN Blank ELSE W[p]
  BY <1>2, Cleared
<1> HIDE DEF C
<1>8. Filled(E ++ C) = Cell
  BY <1>1, <1>5, <1>7, LaidFills
<1>9. ASSUME NEW p \in Cell
      PROVE  (E ++ C)[p] = IF p \in Filled(G) THEN E[p] ELSE IF p \in PanelRegion THEN Blank ELSE W[p]
  BY <1>1, <1>5, <1>7, Laid
<1>10. ASSUME NEW p \in Cell
       PROVE  (E ++ C)[p] = IF p \in ExpenseRegion \cup PanelRegion THEN Sheet(list, balances)[p]
                            ELSE sheet[p]
  BY <1>1, <1>2, <1>6, <1>9
<1> QED
  BY <1>4, <1>8, <1>10 DEF W, E, G, C

LEMMA CreatedIsSheet ==
  ASSUME NEW list, FitsBlock(list), NEW balances, FitsPanel(balances)
  PROVE  Created(list, balances) = Sheet(list, balances)
<1> DEFINE grid == MonthGrid(list, balances)
           X == PlaceExpenses(list)
           P == PanelGrid(balances)
           U == Entered(grid) ++ EmptySheet
           C == Clear(U, ExpenseRegion)
<1>1. /\ Filled(grid) = Filled(X) \cup Filled(P) \cup Filled(Frame)
      /\ \A p \in Filled(P) : grid[p] = P[p]
      /\ \A p \in Filled(Frame) : grid[p] = Frame[p]
  BY GridByRegion
<1>2. /\ Filled(X) \subseteq ExpenseRegion /\ Filled(P) \subseteq PanelRegion
      /\ Filled(Frame) \subseteq Cell \ (ExpenseRegion \cup PanelRegion)
      /\ ExpenseRegion \subseteq Cell /\ PanelRegion \subseteq Cell
      /\ ExpenseRegion \cap PanelRegion = {}
  BY ExpensesFit, PanelFits, FrameFits, CellsArePairs
<1>3. Created(list, balances) = X ++ C
  BY DEF Created, WriteExpenseRegion
<1>4. Filled(EmptySheet) = Cell /\ \A p \in Cell : EmptySheet[p] = Blank
  BY DEF EmptySheet, Filled
<1> HIDE DEF grid, X, P
<1>5. Filled(Entered(grid)) = Filled(grid)
  BY EnteredFills
<1>6. Filled(U) = Cell
  BY <1>1, <1>2, <1>4, <1>5, LaidFills
<1>7. \A p \in Cell : U[p] = IF p \in Filled(grid) THEN Entered(grid)[p] ELSE Blank
  BY <1>4, <1>5, Laid
<1>8. \A p \in Filled(P) : Entered(grid)[p] = Entered(P)[p]
  BY <1>1, EnteredAt
<1>9. \A p \in Filled(Frame) : Entered(grid)[p] = Entered(Frame)[p]
  BY <1>1, EnteredAt
<1> HIDE DEF U
<1>10. Filled(C) = Cell /\ \A p \in Cell : C[p] = IF p \in ExpenseRegion THEN Blank ELSE U[p]
  BY <1>6, Cleared
<1> HIDE DEF C
<1>11. Filled(X ++ C) = Cell
  <2>1. Filled(X) \subseteq Cell /\ Filled(C) = Cell
    BY <1>2, <1>10
  <2> QED
    BY <2>1, LaidFills
<1>12. \A p \in Cell : (X ++ C)[p] = IF p \in Filled(X) THEN X[p] ELSE C[p]
  BY <1>10, Laid
<1>13. \A p \in Cell : Sheet(list, balances)[p] =
         IF p \in ExpenseRegion THEN IF p \in Filled(X) THEN X[p] ELSE Blank
         ELSE IF p \in PanelRegion THEN IF p \in Filled(P) THEN Entered(P)[p] ELSE Blank
         ELSE IF p \in Filled(Frame) THEN Entered(Frame)[p] ELSE Blank
  BY DEF Sheet, X, P
<1>14. ASSUME NEW p \in Cell PROVE (X ++ C)[p] = Sheet(list, balances)[p]
  BY <1>1, <1>2, <1>7, <1>8, <1>9, <1>10, <1>12, <1>13
<1>15. Sheet(list, balances) = [p \in Cell |-> Sheet(list, balances)[p]]
  BY DEF Sheet
<1> QED
  BY <1>3, <1>11, <1>14, <1>15, SameSheet
-----------------------------------------------------------------------------
(* The amounts typed into H. *)

\* Typed, of a given record of what was typed.
TypedOf(amounts) ==
  [p \in {TypedCell(c) : c \in {d \in 1..Categories : amounts[d] # None}} |->
     Number(amounts[p[2] - CategoryFirst + 1])]

LEMMA TypedIs == Typed = TypedOf(shared) /\ Typed' = TypedOf(shared')
BY DEF Typed, TypedOf, TypedCell

LEMMA TypedCells ==
  ASSUME NEW amounts
  PROVE  /\ Filled(TypedOf(amounts)) = {TypedCell(c) : c \in {d \in 1..Categories : amounts[d] # None}}
         /\ \A c \in 1..Categories : TypedCell(c) \in Cell \ (ExpenseRegion \cup PanelRegion)
         /\ \A c, d \in 1..Categories : TypedCell(c) = TypedCell(d) => c = d
         /\ \A c \in 1..Categories : amounts[c] # None => TypedOf(amounts)[TypedCell(c)] = Number(amounts[c])
<1>1. ASSUME NEW c \in 1..Categories
      PROVE  /\ TypedCell(c) = <<"H", 3 + c>> /\ TypedCell(c)[2] - CategoryFirst + 1 = c
             /\ TypedCell(c) \in Cell \ (ExpenseRegion \cup PanelRegion)
  <2>1. TypedCell(c) = <<"H", 3 + c>> /\ TypedCell(c)[2] - CategoryFirst + 1 = c
    BY Sizes, Rows DEF TypedCell
  <2>2. 3 + c \in 1..(4 + Categories)
    BY Sizes
  <2> QED
    BY <2>1, <2>2, Regions
<1>2. ASSUME NEW c \in 1..Categories, NEW d \in 1..Categories, TypedCell(c) = TypedCell(d) PROVE c = d
  BY <1>1, <1>2, Sizes
<1>3. Filled(TypedOf(amounts)) = {TypedCell(c) : c \in {d \in 1..Categories : amounts[d] # None}}
  BY DEF Filled, TypedOf
<1>4. ASSUME NEW c \in 1..Categories, amounts[c] # None
      PROVE  TypedOf(amounts)[TypedCell(c)] = Number(amounts[c])
  BY <1>1, <1>4 DEF TypedOf
<1>5. \A c \in 1..Categories : TypedCell(c) \in Cell \ (ExpenseRegion \cup PanelRegion)
  BY <1>1
<1> QED
  BY <1>2, <1>3, <1>4, <1>5

LEMMA TypedOutside ==
  \A amounts : Filled(TypedOf(amounts)) \subseteq Cell \ (ExpenseRegion \cup PanelRegion)
BY TypedCells

\* The sheet with what was typed on it.
LEMMA OnSheet ==
  ASSUME NEW amounts, NEW list, NEW balances
  PROVE  LET sheet == TypedOf(amounts) ++ Sheet(list, balances)
         IN  /\ Filled(sheet) = Cell
             /\ \A p \in Cell : sheet[p] = IF p \in Filled(TypedOf(amounts)) THEN TypedOf(amounts)[p]
                                           ELSE Sheet(list, balances)[p]
             /\ sheet = [p \in Cell |-> sheet[p]]
<1> DEFINE T == TypedOf(amounts)
           S == Sheet(list, balances)
<1>1. Filled(S) = Cell
  BY DEF Sheet, Filled
<1>2. Filled(T) \subseteq Cell
  BY TypedOutside
<1> HIDE DEF T, S
<1>3. Filled(T ++ S) = Cell
  BY <1>1, <1>2, LaidFills
<1>4. \A p \in Cell : (T ++ S)[p] = IF p \in Filled(T) THEN T[p] ELSE S[p]
  BY <1>1, Laid
<1>5. T ++ S = [p \in Filled(T ++ S) |-> (T ++ S)[p]]
  BY DEF ++, Filled
<1>6. T ++ S = [p \in Cell |-> (T ++ S)[p]]
  BY <1>3, <1>5, Zenon
<1> QED
  BY <1>3, <1>4, <1>6 DEF T, S

\* A sheet that nothing was typed on.
LEMMA NothingTyped ==
  ASSUME NEW list, NEW balances
  PROVE  TypedOf([c \in 1..Categories |-> None]) ++ Sheet(list, balances) = Sheet(list, balances)
<1> DEFINE nothing == [c \in 1..Categories |-> None]
           T == TypedOf(nothing)
           S == Sheet(list, balances)
<1>1. Filled(T) = {}
  <2>1. {d \in 1..Categories : nothing[d] # None} = {}
    OBVIOUS
  <2> HIDE DEF nothing
  <2> QED
    BY <2>1, TypedCells
<1>2. Filled(S) = Cell /\ S = [p \in Cell |-> S[p]]
  BY DEF Sheet, Filled
<1> HIDE DEF T, S
<1>3. Filled(T ++ S) = Cell /\ \A p \in Cell : (T ++ S)[p] = S[p]
  BY <1>1, <1>2, Laid
<1>4. T ++ S = S
  BY <1>2, <1>3, SameSheet
<1> QED
  BY <1>4 DEF T, S

\* A refresh keeps what was typed into H, and forgets the rest of what it found.
LEMMA RefreshIsSheet ==
  ASSUME NEW amounts, NEW list0, NEW balances0,
         NEW list, FitsBlock(list), NEW balances, FitsPanel(balances)
  PROVE  WriteSummaryRegion(WriteExpenseRegion(TypedOf(amounts) ++ Sheet(list0, balances0), list), balances)
           = TypedOf(amounts) ++ Sheet(list, balances)
<1> DEFINE T == TypedOf(amounts)
           old == T ++ Sheet(list0, balances0)
           new == T ++ Sheet(list, balances)
           after == WriteSummaryRegion(WriteExpenseRegion(old, list), balances)
           f == Entered(PanelGrid(balances))
           g == Clear(WriteExpenseRegion(old, list), PanelRegion)
<1>1. /\ Filled(old) = Cell
      /\ \A p \in Cell : old[p] = IF p \in Filled(T) THEN T[p] ELSE Sheet(list0, balances0)[p]
  BY OnSheet
<1>2. /\ new = [p \in Cell |-> new[p]]
      /\ \A p \in Cell : new[p] = IF p \in Filled(T) THEN T[p] ELSE Sheet(list, balances)[p]
  BY OnSheet
<1>3. \A p \in Filled(T) : p \notin ExpenseRegion \cup PanelRegion
  BY TypedOutside
<1>4. /\ Filled(after) = Cell
      /\ \A p \in Cell : after[p] = IF p \in ExpenseRegion \cup PanelRegion
                                      THEN Sheet(list, balances)[p] ELSE old[p]
      /\ after = f ++ g
  <2> HIDE DEF old
  <2> QED
    BY <1>1, RefreshByRegion
<1>5. \A p \in Cell : p \notin ExpenseRegion \cup PanelRegion =>
        Sheet(list0, balances0)[p] = Sheet(list, balances)[p]
  BY DEF Sheet
<1> HIDE DEF T, old, new, after, f, g
<1>6. \A p \in Cell : after[p] = new[p]
  BY <1>1, <1>2, <1>3, <1>4, <1>5
<1>7. Filled(f ++ g) = Cell /\ \A p \in Cell : (f ++ g)[p] = new[p]
  BY <1>4, <1>6
<1>8. f ++ g = new
  BY <1>2, <1>7, SameSheet
<1> QED
  BY <1>4, <1>8 DEF T, old, new, after
-----------------------------------------------------------------------------
(* Typing a balance changes one cell of the panel. *)

\* g is f with this content in one cell more, or in place of what f has there.
Replaces(g, f, k, content) ==
  /\ Filled(g) = Filled(f) \cup {k}
  /\ g[k] = content
  /\ \A p \in Filled(f) : p # k => g[p] = f[p]

LEMMA ReplacedAbove ==
  ASSUME NEW f, NEW g, NEW under, NEW k, NEW content, Replaces(g, f, k, content)
  PROVE  Replaces(g ++ under, f ++ under, k, content)
<1>1. /\ Filled(g ++ under) = Filled(g) \cup Filled(under)
      /\ Filled(f ++ under) = Filled(f) \cup Filled(under)
  BY LaidFills
<1>2. (g ++ under)[k] = content
  BY Laid DEF Replaces
<1>3. ASSUME NEW p \in Filled(f ++ under), p # k PROVE (g ++ under)[p] = (f ++ under)[p]
  <2>1. CASE p \in Filled(f)
    BY <1>3, <2>1, Laid DEF Replaces
  <2>2. CASE p \notin Filled(f)
    <3>1. p \in Filled(under) /\ p \notin Filled(g)
      BY <1>1, <1>3, <2>2 DEF Replaces
    <3> QED
      BY <2>2, <3>1, Laid
  <2> QED
    BY <2>1, <2>2
<1>4. Filled(g ++ under) = Filled(f ++ under) \cup {k}
  BY <1>1 DEF Replaces
<1> QED
  BY <1>2, <1>3, <1>4 DEF Replaces

LEMMA ReplacedUnder ==
  ASSUME NEW f, NEW g, NEW over, NEW k, NEW content, Replaces(g, f, k, content), k \notin Filled(over)
  PROVE  Replaces(over ++ g, over ++ f, k, content)
<1>1. /\ Filled(over ++ g) = Filled(over) \cup Filled(g)
      /\ Filled(over ++ f) = Filled(over) \cup Filled(f)
  BY LaidFills
<1>2. (over ++ g)[k] = content
  BY Laid DEF Replaces
<1>3. ASSUME NEW p \in Filled(over ++ f), p # k PROVE (over ++ g)[p] = (over ++ f)[p]
  <2>1. CASE p \in Filled(over)
    BY <2>1, Laid
  <2>2. CASE p \notin Filled(over)
    <3>1. p \in Filled(f) /\ p \in Filled(g)
      BY <1>1, <1>3, <2>2 DEF Replaces
    <3> QED
      BY <1>3, <2>2, <3>1, Laid DEF Replaces
  <2> QED
    BY <2>1, <2>2
<1>4. Filled(over ++ g) = Filled(over ++ f) \cup {k}
  BY <1>1 DEF Replaces
<1> QED
  BY <1>2, <1>3, <1>4 DEF Replaces

BalanceCell(i) == <<"K", BalanceFirst + i - 1>>

\* The accounts once the i-th balance was typed in.
WithBalance(list, i, n) == [list EXCEPT ![i].balance = n]

LEMMA WithBalanceFits ==
  ASSUME NEW list, FitsPanel(list), NEW i \in DOMAIN list, NEW n \in Int
  PROVE  /\ FitsPanel(WithBalance(list, i, n))
         /\ Len(WithBalance(list, i, n)) = Len(list)
         /\ DOMAIN WithBalance(list, i, n) = DOMAIN list
         /\ \A j \in DOMAIN list : /\ WithBalance(list, i, n)[j].bank = list[j].bank
                                   /\ WithBalance(list, i, n)[j].on = list[j].on
                                   /\ WithBalance(list, i, n)[j].balance
                                        = IF j = i THEN n ELSE list[j].balance
<1> DEFINE new == WithBalance(list, i, n)
<1>1. list \in Seq(Account) /\ DOMAIN list = 1..Len(list)
  BY DEF FitsPanel
<1>2. \A j \in DOMAIN list : list[j] \in Account
  BY <1>1
<1>3. new = [j \in DOMAIN list |-> IF j = i THEN [list[i] EXCEPT !.balance = n] ELSE list[j]]
  BY DEF WithBalance
<1>4. [list[i] EXCEPT !.balance = n] = [bank |-> list[i].bank, balance |-> n, on |-> list[i].on]
  BY <1>2 DEF Account
<1>5. [list[i] EXCEPT !.balance = n] \in Account
  BY <1>2, <1>4 DEF Account
<1>6. new \in [1..Len(list) -> Account]
  BY <1>1, <1>2, <1>3, <1>5
<1>7. new \in Seq(Account) /\ Len(new) = Len(list)
  BY <1>1, <1>6
<1>8. \A j \in DOMAIN list : /\ new[j].bank = list[j].bank /\ new[j].on = list[j].on
                             /\ new[j].balance = IF j = i THEN n ELSE list[j].balance
  BY <1>3, <1>4
<1> QED
  BY <1>3, <1>7, <1>8 DEF FitsPanel

LEMMA BalanceReplaced ==
  ASSUME NEW list, FitsPanel(list), NEW i \in DOMAIN list, NEW n \in Int, None # n
  PROVE  /\ BalanceCell(i) \in PanelRegion
         /\ Replaces(PanelGrid(WithBalance(list, i, n)), PanelGrid(list), BalanceCell(i), Number(n))
<1> DEFINE new == WithBalance(list, i, n)
           k == BalanceCell(i)
<1>1. /\ FitsPanel(new) /\ Len(new) = Len(list) /\ DOMAIN new = DOMAIN list
      /\ \A j \in DOMAIN list : /\ new[j].bank = list[j].bank /\ new[j].on = list[j].on
                                /\ new[j].balance = IF j = i THEN n ELSE list[j].balance
  BY WithBalanceFits
<1>2. DOMAIN list = 1..Len(list) /\ Len(list) \in 1..MaxBalanceRows
  BY DEF FitsPanel
<1>3. k = <<"K", 9 + i>> /\ i \in 1..Len(list)
  BY <1>2, Rows DEF BalanceCell
<1>4. k \in PanelRegion
  <2>1. 9 + i \in 4..(11 + MaxBalanceRows)
    BY <1>2, <1>3, Sizes
  <2> QED
    BY <1>3, <2>1, Regions
<1> HIDE DEF new, k
<1>5. Total(new) = Total(list) /\ TotalOf(new) = TotalOf(list)
  <2>1. new # <<>> /\ list # <<>>
    BY <1>1, <1>2
  <2> QED
    BY <1>1, <2>1 DEF Total, TotalOf
<1>6. Names(new) = Names(list)
  <2>1. \A p \in Cells("J", BalanceFirst, Total(list) - 1) : p[2] - BalanceFirst + 1 \in DOMAIN list
    <3>1. BalanceFirst = 10 /\ Total(list) - 1 = 9 + Len(list)
      BY <1>2, Rows DEF Total
    <3>2. \A p \in Cells("J", 10, 9 + Len(list)) : p[2] \in 10..(9 + Len(list))
      BY DEF Cells
    <3> QED
      BY <1>2, <3>1, <3>2
  <2>2. \A p \in Cells("J", BalanceFirst, Total(list) - 1) :
          new[p[2] - BalanceFirst + 1].bank = list[p[2] - BalanceFirst + 1].bank
    BY <1>1, <2>1
  <2> QED
    BY <1>5, <2>2 DEF Names
<1>7. Above(new) = Above(list)
  BY <1>6 DEF Above
<1>8. ReferenceLabel(new) = ReferenceLabel(list)
  <2>1. Dates(new) = Dates(list)
    BY <1>1 DEF Dates
  <2> QED
    BY <2>1 DEF ReferenceLabel
<1>9. Replaces(Amounts(new), Amounts(list), k, Number(n))
  <2>1. Reported(new) = Reported(list) \cup {i}
    BY <1>1 DEF Reported
  <2>2. /\ Filled(Amounts(new)) = {BalanceCell(j) : j \in Reported(new)}
        /\ Filled(Amounts(list)) = {BalanceCell(j) : j \in Reported(list)}
    BY DEF Filled, Amounts, BalanceCell
  <2>3. Filled(Amounts(new)) = Filled(Amounts(list)) \cup {k}
    BY <2>1, <2>2 DEF k
  <2>4. ASSUME NEW j \in DOMAIN list PROVE BalanceCell(j)[2] - BalanceFirst + 1 = j
    <3>1. BalanceCell(j) = <<"K", 9 + j>> /\ BalanceFirst = 10 /\ j \in Int
      BY <1>2, Rows DEF BalanceCell
    <3> QED
      BY <3>1
  <2>5. ASSUME NEW j \in Reported(new) PROVE Amounts(new)[BalanceCell(j)] = Number(new[j].balance)
    BY <1>1, <2>4, <2>5 DEF Amounts, Reported, BalanceCell
  <2>6. ASSUME NEW j \in Reported(list) PROVE Amounts(list)[BalanceCell(j)] = Number(list[j].balance)
    BY <2>4, <2>6 DEF Amounts, Reported, BalanceCell
  <2>7. Amounts(new)[k] = Number(n)
    BY <1>1, <2>1, <2>5 DEF k
  <2>8. ASSUME NEW p \in Filled(Amounts(list)), p # k PROVE Amounts(new)[p] = Amounts(list)[p]
    <3>1. PICK j \in Reported(list) : p = BalanceCell(j)
      BY <2>2
    <3>2. j # i /\ j \in DOMAIN list /\ j \in Reported(new)
      BY <2>1, <2>8, <3>1 DEF k, Reported
    <3>3. new[j].balance = list[j].balance
      BY <1>1, <3>2
    <3> QED
      BY <2>5, <2>6, <3>1, <3>2, <3>3
  <2> QED
    BY <2>3, <2>7, <2>8 DEF Replaces
<1>10. k \notin Filled(Above(list)) /\ k \notin Filled(PlaceSummary)
  <2>1. Filled(Above(list)) = Cells("J", 10, 9 + Len(list)) \cup {<<"J", 8>>, <<"J", 9>>, <<"K", 9>>}
    BY BalancesFill
  <2>2. k \notin Cells("J", 10, 9 + Len(list))
    BY <1>3 DEF Cells
  <2> QED
    BY <1>3, <2>1, <2>2, SummaryFits
<1> DEFINE label     == Put(<<"J", Total(list)>>, Text("total"))
           reference == Put(<<"J", Total(list) + 1>>, Text("reference"))
           date      == Put(<<"K", Total(list) + 1>>, ReferenceLabel(list))
<1>11. /\ PlaceBalances(list) = Above(list) ++ Amounts(list) ++ label ++ TotalOf(list) ++ reference ++ date
       /\ PlaceBalances(new) = Above(list) ++ Amounts(new) ++ label ++ TotalOf(list) ++ reference ++ date
  BY <1>5, <1>7, <1>8, BalancesByPart
<1> HIDE DEF label, reference, date
<1>12. Replaces(Above(list) ++ Amounts(new), Above(list) ++ Amounts(list), k, Number(n))
  BY <1>9, <1>10, ReplacedUnder
<1>13. Replaces(PlaceBalances(new), PlaceBalances(list), k, Number(n))
  BY <1>11, <1>12, ReplacedAbove
<1>14. Replaces(PanelGrid(new), PanelGrid(list), k, Number(n))
  BY <1>10, <1>13, ReplacedUnder DEF PanelGrid
<1> QED
  BY <1>4, <1>14 DEF new, k
-----------------------------------------------------------------------------
(* What typing does to the sheet. *)

\* A number typed into a cell.
TypedIn(sheet, k, n) == [sheet EXCEPT ![k] = Number(n)]

LEMMA ReplacedInSheet ==
  ASSUME NEW f, NEW g, NEW k \in Cell, NEW content,
         f = [p \in Cell |-> f[p]], g = [p \in Cell |-> g[p]],
         Replaces(g, f, k, content), Filled(f) = Cell
  PROVE  [f EXCEPT ![k] = content] = g
<1>1. [f EXCEPT ![k] = content] = [p \in Cell |-> IF p = k THEN content ELSE f[p]]
  BY DEF Filled
<1>2. \A p \in Cell : g[p] = IF p = k THEN content ELSE f[p]
  BY DEF Replaces
<1> QED
  BY <1>1, <1>2

LEMMA BalanceTyped ==
  ASSUME NEW amounts, NEW list, NEW balances, FitsPanel(balances),
         NEW i \in DOMAIN balances, NEW n \in Int, None # n
  PROVE  TypedIn(TypedOf(amounts) ++ Sheet(list, balances), BalanceCell(i), n)
           = TypedOf(amounts) ++ Sheet(list, WithBalance(balances, i, n))
<1> DEFINE k   == BalanceCell(i)
           P   == PanelGrid(balances)
           Q   == PanelGrid(WithBalance(balances, i, n))
           T   == TypedOf(amounts)
           old == Sheet(list, balances)
           new == Sheet(list, WithBalance(balances, i, n))
<1>1. k \in PanelRegion /\ Replaces(Q, P, k, Number(n))
  BY BalanceReplaced
<1>2. k \in Cell /\ k \notin ExpenseRegion /\ k \notin Filled(T)
  BY <1>1, CellsArePairs, TypedOutside
<1>3. /\ \A p \in Cell : p \notin PanelRegion => new[p] = old[p]
      /\ \A p \in Cell : p \in PanelRegion /\ p \notin ExpenseRegion =>
           /\ new[p] = IF p \in Filled(Q) THEN Entered(Q)[p] ELSE Blank
           /\ old[p] = IF p \in Filled(P) THEN Entered(P)[p] ELSE Blank
      /\ Filled(new) = Cell /\ Filled(old) = Cell
      /\ \A p \in ExpenseRegion : p \in Cell => new[p] = old[p]
  BY DEF Sheet, Filled
<1>4. /\ Filled(T ++ old) = Cell /\ T ++ old = [p \in Cell |-> (T ++ old)[p]]
      /\ T ++ new = [p \in Cell |-> (T ++ new)[p]]
  BY OnSheet
<1> HIDE DEF k, P, Q, T, old, new
<1>5. Entered(Q)[k] = Number(n)
  <2>1. k \in DOMAIN Q /\ Q[k] = Number(n)
    BY <1>1 DEF Replaces, Filled
  <2>2. Number(n).is = "number"
    BY DEF Number
  <2> QED
    BY <2>1, <2>2 DEF Entered
<1>6. \A p \in Filled(P) : p # k => Entered(Q)[p] = Entered(P)[p]
  BY <1>1, EnteredAt DEF Replaces
<1>7. Replaces(new, old, k, Number(n))
  <2>1. new[k] = Number(n)
    BY <1>1, <1>2, <1>3, <1>5 DEF Replaces
  <2>2. ASSUME NEW p \in Cell, p # k PROVE new[p] = old[p]
    <3>1. p \in Filled(Q) <=> p \in Filled(P)
      BY <1>1, <2>2 DEF Replaces
    <3> QED
      BY <1>3, <1>6, <2>2, <3>1
  <2> QED
    BY <1>2, <1>3, <2>1, <2>2 DEF Replaces
<1>8. Replaces(T ++ new, T ++ old, k, Number(n))
  BY <1>2, <1>7, ReplacedUnder
<1>9. [T ++ old EXCEPT ![k] = Number(n)] = T ++ new
  BY <1>2, <1>4, <1>8, ReplacedInSheet
<1> QED
  BY <1>9 DEF k, T, old, new, TypedIn

\* The amounts once one was typed in for category c.
WithShared(amounts, c, n) == [amounts EXCEPT ![c] = n]

LEMMA SharedTyped ==
  ASSUME NEW amounts \in [1..Categories -> Amount \cup {None}], NEW list, NEW balances,
         NEW c \in 1..Categories, NEW n \in Amount
  PROVE  TypedIn(TypedOf(amounts) ++ Sheet(list, balances), TypedCell(c), n)
           = TypedOf(WithShared(amounts, c, n)) ++ Sheet(list, balances)
<1> DEFINE more == WithShared(amounts, c, n)
           k == TypedCell(c)
           T == TypedOf(amounts)
           U == TypedOf(more)
           S == Sheet(list, balances)
<1>1. n # None
  BY TypedIsSomething
<1>2. \A d \in 1..Categories : more[d] = IF d = c THEN n ELSE amounts[d]
  BY DEF WithShared
<1> HIDE DEF more
<1>3. /\ Filled(T) = {TypedCell(d) : d \in {e \in 1..Categories : amounts[e] # None}}
      /\ Filled(U) = {TypedCell(d) : d \in {e \in 1..Categories : more[e] # None}}
      /\ \A d \in 1..Categories : amounts[d] # None => T[TypedCell(d)] = Number(amounts[d])
      /\ \A d \in 1..Categories : more[d] # None => U[TypedCell(d)] = Number(more[d])
      /\ \A d, e \in 1..Categories : TypedCell(d) = TypedCell(e) => d = e
      /\ \A d \in 1..Categories : TypedCell(d) \in Cell
  BY TypedCells
<1>4. {e \in 1..Categories : more[e] # None} = {e \in 1..Categories : amounts[e] # None} \cup {c}
  BY <1>1, <1>2
<1>5. /\ Filled(T ++ S) = Cell /\ T ++ S = [p \in Cell |-> (T ++ S)[p]]
      /\ U ++ S = [p \in Cell |-> (U ++ S)[p]]
  BY OnSheet
<1> HIDE DEF k, T, U, S
<1>6. Replaces(U, T, k, Number(n))
  <2>1. Filled(U) = Filled(T) \cup {k}
    BY <1>3, <1>4 DEF k
  <2>2. U[k] = Number(n)
    BY <1>1, <1>2, <1>3 DEF k
  <2>3. ASSUME NEW p \in Filled(T), p # k PROVE U[p] = T[p]
    <3>1. PICK d \in 1..Categories : p = TypedCell(d) /\ amounts[d] # None
      BY <1>3
    <3>2. d # c /\ more[d] = amounts[d]
      BY <1>2, <2>3, <3>1 DEF k
    <3> QED
      BY <1>3, <3>1, <3>2
  <2> QED
    BY <2>1, <2>2, <2>3 DEF Replaces
<1>7. Replaces(U ++ S, T ++ S, k, Number(n))
  BY <1>6, ReplacedAbove
<1>8. k \in Cell
  BY <1>3 DEF k
<1>9. [T ++ S EXCEPT ![k] = Number(n)] = U ++ S
  BY <1>5, <1>7, <1>8, ReplacedInSheet
<1> QED
  BY <1>9 DEF k, T, U, S, more, TypedIn
-----------------------------------------------------------------------------
(* How the cells look. *)

LEMMA FormatsKept ==
  ASSUME NEW m \in 0..MaxBalanceRows, NEW n \in 0..MaxBalanceRows
  PROVE  FormatPanel(ApplyLightFormatting(EmptyFormats, m), n) = ApplyLightFormatting(EmptyFormats, n)
<1> DEFINE bold   == {p \in Cell : p[2] \in {TitleRow, HeaderRow}}
           amount == ExpenseRegion \cup Cells("H", CategoryFirst, CategoryTotal)
           panel  == Cells("K", SummaryFirst, PanelEnd)
           before == As("money", As("bold", EmptyFormats, bold), amount)
<1>1. \A formats : FormatPanel(formats, m) = As("money", formats, panel)
  BY PanelRangeFixed DEF FormatPanel
<1>2. \A formats : FormatPanel(formats, n) = As("money", formats, panel)
  BY PanelRangeFixed DEF FormatPanel
<1>3. /\ ApplyLightFormatting(EmptyFormats, m) = As("money", before, panel)
      /\ ApplyLightFormatting(EmptyFormats, n) = As("money", before, panel)
  BY <1>1, <1>2 DEF ApplyLightFormatting
<1> HIDE DEF panel, before
<1>4. As("money", As("money", before, panel), panel) = As("money", before, panel)
  BY DEF As
<1> QED
  BY <1>2, <1>3, <1>4

LEMMA FormatsTyped ==
  \A n : ApplyLightFormatting(EmptyFormats, n) \in [Cell -> {"plain", "bold", "money"}]
BY DEF ApplyLightFormatting, FormatPanel, As, EmptyFormats
-----------------------------------------------------------------------------
(* What the cells hold. *)

PlainKinds == {"text", "number", "iso date", "sum", "plus"}
Kinds      == PlainKinds \cup {"blank", "date", "expense"}

\* Nothing but these is placed on the frame and on the panel.
Plain(grid) == \A p \in Filled(grid) : grid[p].is \in PlainKinds

LEMMA PlainLaid == ASSUME NEW f, NEW g, Plain(f), Plain(g) PROVE Plain(f ++ g)
<1> SUFFICES ASSUME NEW p \in Filled(f ++ g) PROVE (f ++ g)[p].is \in PlainKinds
  BY DEF Plain
<1>1. CASE p \in Filled(f)
  <2>1. (f ++ g)[p] = f[p]
    BY <1>1, Laid
  <2> QED
    BY <1>1, <2>1 DEF Plain
<1>2. CASE p \notin Filled(f)
  <2>1. p \in Filled(g)
    BY <1>2, LaidFills
  <2>2. (f ++ g)[p] = g[p]
    BY <1>2, <2>1, Laid
  <2> QED
    BY <2>1, <2>2 DEF Plain
<1> QED
  BY <1>1, <1>2

LEMMA PlainSingle == ASSUME NEW p, NEW content, content.is \in PlainKinds PROVE Plain(Put(p, content))
<1>1. Filled(Put(p, content)) = {p} /\ Put(p, content)[p] = content
  BY Single
<1> QED
  BY <1>1, Zenon DEF Plain

LEMMA PlainPut ==
  /\ \A p, t : Plain(Put(p, Text(t)))
  /\ \A p, w, c, a, b : Plain(Put(p, Sum(w, c, a, b)))
  /\ \A p, cells : Plain(Put(p, Plus(cells)))
  /\ \A p, d : Plain(Put(p, Iso(d)))
<1>1. ASSUME NEW p, NEW t PROVE Plain(Put(p, Text(t)))
  <2>1. Text(t).is \in PlainKinds
    BY DEF Text, PlainKinds
  <2> QED
    BY <2>1, PlainSingle
<1>2. ASSUME NEW p, NEW w, NEW c, NEW a, NEW b PROVE Plain(Put(p, Sum(w, c, a, b)))
  <2>1. Sum(w, c, a, b).is \in PlainKinds
    BY DEF Sum, PlainKinds
  <2> QED
    BY <2>1, PlainSingle
<1>3. ASSUME NEW p, NEW cells PROVE Plain(Put(p, Plus(cells)))
  <2>1. Plus(cells).is \in PlainKinds
    BY DEF Plus, PlainKinds
  <2> QED
    BY <2>1, PlainSingle
<1>4. ASSUME NEW p, NEW d PROVE Plain(Put(p, Iso(d)))
  <2>1. Iso(d).is \in PlainKinds
    BY DEF Iso, PlainKinds
  <2> QED
    BY <2>1, PlainSingle
<1> QED
  BY <1>1, <1>2, <1>3, <1>4, Zenon

LEMMA FrameIsPlain == Plain(Frame)
<1>1. Plain(PlaceTitlesAndHeaders)
  BY DEF Plain, PlainKinds, Filled, PlaceTitlesAndHeaders, Text
<1>2. Plain([p \in Cells("G", CategoryFirst, CategoryLast) |-> Text("category")])
  BY DEF Plain, PlainKinds, Filled, Text
<1>3. Plain(PlaceSharedExpenses)
  <2> DEFINE names == [p \in Cells("G", CategoryFirst, CategoryLast) |-> Text("category")]
             label == Put(<<"G", CategoryTotal>>, Text("total"))
             sum   == Put(<<"H", CategoryTotal>>, Sum("all", "H", CategoryFirst, CategoryLast))
  <2>1. PlaceSharedExpenses = names ++ label ++ sum
    BY DEF PlaceSharedExpenses
  <2>2. Plain(names) /\ Plain(label) /\ Plain(sum)
    BY <1>2, PlainPut
  <2> HIDE DEF names, label, sum
  <2>3. Plain(names ++ label)
    BY <2>2, PlainLaid
  <2> QED
    BY <2>1, <2>2, <2>3, PlainLaid
<1> QED
  BY <1>1, <1>3, PlainLaid DEF Frame

LEMMA PanelIsPlain == ASSUME NEW list, FitsPanel(list) PROVE Plain(PanelGrid(list))
<1>1. Plain(PlaceSummary)
  <2> DEFINE a == Put(<<"J", SummaryFirst>>, Text("income"))
             b == Put(<<"K", SummaryFirst>>, Sum("income", "BE", ExpenseFirst, ExpenseLast))
             c == Put(<<"J", SummaryExpense>>, Text("spend"))
             d == Put(<<"K", SummaryExpense>>, Sum("spend", "BE", ExpenseFirst, ExpenseLast))
             e == Put(<<"J", SummaryTotal>>, Text("total"))
             f == Put(<<"K", SummaryTotal>>, Plus({<<"K", SummaryFirst>>, <<"K", SummaryExpense>>}))
  <2>1. PlaceSummary = a ++ b ++ c ++ d ++ e ++ f
    BY DEF PlaceSummary
  <2>2. Plain(a) /\ Plain(b) /\ Plain(c) /\ Plain(d) /\ Plain(e) /\ Plain(f)
    BY PlainPut
  <2> HIDE DEF a, b, c, d, e, f
  <2>3. Plain(a ++ b) /\ Plain(a ++ b ++ c) /\ Plain(a ++ b ++ c ++ d) /\ Plain(a ++ b ++ c ++ d ++ e)
    BY <2>2, PlainLaid
  <2> QED
    BY <2>1, <2>2, <2>3, PlainLaid
<1>2. Plain(Above(list))
  <2> DEFINE a == Put(<<"J", BalanceTitle>>, Text("title"))
             b == Put(<<"J", BalanceHeader>>, Text("header"))
             c == Put(<<"K", BalanceHeader>>, Text("header"))
  <2>1. Plain(Names(list))
    BY DEF Plain, PlainKinds, Filled, Names, Text
  <2>2. Plain(a) /\ Plain(b) /\ Plain(c)
    BY PlainPut
  <2>3. Above(list) = a ++ b ++ c ++ Names(list)
    BY DEF Above
  <2> HIDE DEF a, b, c
  <2>4. Plain(a ++ b) /\ Plain(a ++ b ++ c)
    BY <2>2, PlainLaid
  <2> QED
    BY <2>1, <2>3, <2>4, PlainLaid
<1>3. Plain(Amounts(list))
  BY DEF Plain, PlainKinds, Filled, Amounts, Number
<1>4. Plain(PlaceBalances(list))
  <2> DEFINE a == Put(<<"J", Total(list)>>, Text("total"))
             b == Put(<<"J", Total(list) + 1>>, Text("reference"))
             c == Put(<<"K", Total(list) + 1>>, ReferenceLabel(list))
             base == Above(list) ++ Amounts(list)
  <2>1. Plain(base)
    BY <1>2, <1>3, PlainLaid
  <2>2. Plain(a) /\ Plain(b)
    BY PlainPut
  <2>3. Plain(TotalOf(list))
    BY BalancesFill, PlainPut
  <2>4. Plain(c)
    BY PlainPut DEF ReferenceLabel
  <2>5. PlaceBalances(list) = base ++ a ++ TotalOf(list) ++ b ++ c
    BY BalancesByPart
  <2> HIDE DEF a, b, c, base
  <2>6. Plain(base ++ a)
    BY <2>1, <2>2, PlainLaid
  <2>7. Plain(base ++ a ++ TotalOf(list))
    BY <2>3, <2>6, PlainLaid
  <2>8. Plain(base ++ a ++ TotalOf(list) ++ b)
    BY <2>2, <2>7, PlainLaid
  <2> QED
    BY <2>4, <2>5, <2>8, PlainLaid
<1> QED
  BY <1>1, <1>4, PlainLaid DEF PanelGrid

LEMMA EnteredKinds ==
  ASSUME NEW f, Plain(f)
  PROVE  \A p \in Filled(f) : Entered(f)[p].is \in Kinds
BY DEF Plain, PlainKinds, Filled, Entered, Kinds

LEMMA SheetKinds ==
  ASSUME NEW list, NEW balances, FitsPanel(balances), NEW amounts
  PROVE  \A p \in Cell : (TypedOf(amounts) ++ Sheet(list, balances))[p].is \in Kinds
<1> SUFFICES ASSUME NEW p \in Cell
             PROVE  (TypedOf(amounts) ++ Sheet(list, balances))[p].is \in Kinds
  OBVIOUS
<1>1. \A q \in Filled(PlaceExpenses(list)) : PlaceExpenses(list)[q].is \in Kinds
  BY DEF Filled, PlaceExpenses, Expense, Kinds
<1>2. \A q \in Filled(PanelGrid(balances)) : Entered(PanelGrid(balances))[q].is \in Kinds
  BY PanelIsPlain, EnteredKinds
<1>3. \A q \in Filled(Frame) : Entered(Frame)[q].is \in Kinds
  BY FrameIsPlain, EnteredKinds
<1>4. Blank.is \in Kinds
  BY DEF Blank, Kinds
<1>5. \A q \in Filled(TypedOf(amounts)) : TypedOf(amounts)[q].is \in Kinds
  <2>1. \A n : Number(n).is \in Kinds
    BY DEF Number, Kinds, PlainKinds
  <2>2. \A q \in Filled(TypedOf(amounts)) : \E n : TypedOf(amounts)[q] = Number(n)
    BY DEF Filled, TypedOf
  <2> QED
    BY <2>1, <2>2
<1>6. Sheet(list, balances)[p].is \in Kinds
  BY <1>1, <1>2, <1>3, <1>4 DEF Sheet
<1>7. (TypedOf(amounts) ++ Sheet(list, balances))[p]
        = IF p \in Filled(TypedOf(amounts)) THEN TypedOf(amounts)[p] ELSE Sheet(list, balances)[p]
  BY OnSheet
<1> QED
  BY <1>5, <1>6, <1>7
-----------------------------------------------------------------------------
(* Sums over finite sets. *)

\* Among the subsets of a finite set that share something there is a smallest.
LEMMA Smallest ==
  ASSUME NEW S, IsFiniteSet(S), NEW Such \in SUBSET (SUBSET S), Such # {}
  PROVE  \E T \in Such : \A U \in Such : U \subseteq T => U = T
<1> DEFINE R == StrictSubsetOrdering(S)
<1>1. IsWellFoundedOn(R, SUBSET S)
  BY FS_StrictSubsetOrderingWellFounded, FS_FiniteSubsetsOfFinite
<1>2. PICK T \in Such : \A U \in Such : ~(<<U, T>> \in R)
  BY <1>1, WFMin
<1>3. ASSUME NEW U \in Such, U \subseteq T PROVE U = T
  BY <1>2, <1>3 DEF StrictSubsetOrdering
<1> QED
  BY <1>3

\* m adds up f over every subset of S.
AddsUp(m, f, S) ==
  /\ m[{}] = 0
  /\ \A s \in SUBSET S : m[s] \in Int
  /\ \A s \in SUBSET S : \A x \in s : m[s] = f[x] + m[s \ {x}]

Ints(f, S) == \A x \in S : f[x] \in Int

LEMMA SomethingAddsUp ==
  ASSUME NEW S, IsFiniteSet(S), NEW f, Ints(f, S)
  PROVE  \E m : AddsUp(m, f, S)
<1> DEFINE Such == {T \in SUBSET S : ~ \E m : AddsUp(m, f, T)}
<1> SUFFICES ASSUME Such # {} PROVE FALSE
  OBVIOUS
<1>0. Such \in SUBSET (SUBSET S) /\ Such # {}
  OBVIOUS
<1>1. PICK T \in Such : \A U \in Such : U \subseteq T => U = T
  <2> HIDE DEF Such
  <2> QED
    BY <1>0, Smallest
<1>2. CASE T = {}
  <2> DEFINE m == [s \in {{}} |-> 0]
  <2>1. AddsUp(m, f, {})
    BY DEF AddsUp
  <2> QED
    BY <1>2, <2>1
<1>3. CASE T # {}
  <2>1. PICK x \in T : TRUE
    BY <1>3
  <2>2. PICK n : AddsUp(n, f, T \ {x})
    <3>1. T \ {x} \notin Such
      BY <1>1, <2>1
    <3> QED
      BY <1>1, <3>1
  <2> DEFINE m == [s \in SUBSET T |-> IF x \in s THEN f[x] + n[s \ {x}] ELSE n[s]]
  <2>3. f[x] \in Int
    BY <2>1 DEF Ints
  <2>4. \A s \in SUBSET T : /\ s \ {x} \in SUBSET (T \ {x})
                            /\ x \notin s => s \in SUBSET (T \ {x})
    OBVIOUS
  <2>5. \A s \in SUBSET T : m[s] \in Int
    BY <2>2, <2>3, <2>4 DEF AddsUp
  <2>6. m[{}] = 0
    BY <2>2 DEF AddsUp
  <2>7. ASSUME NEW s \in SUBSET T, NEW y \in s PROVE m[s] = f[y] + m[s \ {y}]
    <3>1. s \ {y} \in SUBSET T /\ f[y] \in Int
      BY DEF Ints
    <3>2. CASE y = x
      <4>1. m[s] = f[x] + n[s \ {x}]
        BY <3>2
      <4>2. m[s \ {x}] = n[s \ {x}]
        OBVIOUS
      <4> QED
        BY <3>2, <4>1, <4>2
    <3>3. CASE y # x /\ x \in s
      <4>1. m[s] = f[x] + n[s \ {x}]
        BY <3>3
      <4>2. m[s \ {y}] = f[x] + n[(s \ {y}) \ {x}]
        BY <3>1, <3>3
      <4>3. (s \ {x}) \ {y} = (s \ {y}) \ {x}
        OBVIOUS
      <4>4. n[s \ {x}] = f[y] + n[(s \ {x}) \ {y}]
        BY <2>2, <2>4, <3>3 DEF AddsUp
      <4>5. n[(s \ {x}) \ {y}] \in Int
        BY <2>2, <2>4 DEF AddsUp
      <4> DEFINE rest == n[(s \ {x}) \ {y}]
      <4>6. m[s] = f[x] + (f[y] + rest) /\ m[s \ {y}] = f[x] + rest
        BY <4>1, <4>2, <4>3, <4>4, Zenon
      <4> HIDE DEF m, rest
      <4>7. f[x] + (f[y] + rest) = f[y] + (f[x] + rest)
        BY <2>3, <3>1, <4>5 DEF rest
      <4> QED
        BY <4>6, <4>7, Zenon
    <3>4. CASE y # x /\ x \notin s
      <4>1. m[s] = n[s] /\ m[s \ {y}] = n[s \ {y}]
        BY <3>1, <3>4
      <4>2. n[s] = f[y] + n[s \ {y}]
        BY <2>2, <2>4, <3>4 DEF AddsUp
      <4> HIDE DEF m
      <4> QED
        BY <4>1, <4>2
    <3> QED
      BY <3>2, <3>3, <3>4
  <2>8. AddsUp(m, f, T)
    <3> HIDE DEF m
    <3> QED
      BY <2>5, <2>6, <2>7 DEF AddsUp
  <2> QED
    BY <2>8
<1> QED
  BY <1>2, <1>3

\* The fold of the community modules, which takes the elements in an order of its own.
Folds(iter, f, S) ==
  iter = [s \in SUBSET S |-> IF s = {} THEN 0
                             ELSE f[CHOOSE x \in s : TRUE] + iter[s \ {CHOOSE x \in s : TRUE}]]

LEMMA FoldAddsUp ==
  ASSUME NEW S, IsFiniteSet(S), NEW f, NEW m, AddsUp(m, f, S), NEW iter, Folds(iter, f, S)
  PROVE  iter[S] = m[S]
<1> DEFINE Such == {s \in SUBSET S : iter[s] # m[s]}
<1> SUFFICES ASSUME Such # {} PROVE FALSE
  OBVIOUS
<1>0. Such \in SUBSET (SUBSET S) /\ Such # {}
  OBVIOUS
<1>1. PICK s \in Such : \A u \in Such : u \subseteq s => u = s
  <2> HIDE DEF Such
  <2> QED
    BY <1>0, Smallest
<1>2. s # {}
  BY <1>1 DEF Folds, AddsUp
<1> DEFINE x == CHOOSE y \in s : TRUE
<1>3. x \in s
  BY <1>2
<1>4. iter[s] = f[x] + iter[s \ {x}]
  BY <1>2 DEF Folds
<1> HIDE DEF x
<1>5. s \ {x} \notin Such
  BY <1>1, <1>3
<1>6. m[s] = f[x] + m[s \ {x}]
  BY <1>3 DEF AddsUp
<1> QED
  BY <1>4, <1>5, <1>6

LEMMA SumIsAny ==
  ASSUME NEW S, IsFiniteSet(S), NEW f, NEW m, AddsUp(m, f, S)
  PROVE  SumOver(f, S) = m[S]
<1> DEFINE one == [s \in SUBSET S |-> m[s]]
<1>1. Folds(one, f, S)
  <2> SUFFICES ASSUME NEW s \in SUBSET S
               PROVE  m[s] = IF s = {} THEN 0
                             ELSE f[CHOOSE x \in s : TRUE] + one[s \ {CHOOSE x \in s : TRUE}]
    BY DEF Folds
  <2>1. CASE s = {}
    BY <2>1 DEF AddsUp
  <2>2. CASE s # {}
    <3> DEFINE x == CHOOSE y \in s : TRUE
    <3>1. x \in s
      BY <2>2
    <3> HIDE DEF x
    <3>2. m[s] = f[x] + m[s \ {x}]
      BY <3>1 DEF AddsUp
    <3>3. one[s \ {x}] = m[s \ {x}]
      OBVIOUS
    <3> QED
      BY <2>2, <3>2, <3>3 DEF x
  <2> QED
    BY <2>1, <2>2
<1> HIDE DEF one
<1>2. Folds(CHOOSE iter : Folds(iter, f, S), f, S)
  BY <1>1
<1>3. SumOver(f, S) = (CHOOSE iter : Folds(iter, f, S))[S]
  BY DEF SumOver, MapThenSumSet, MapThenFoldSet, Folds
<1> QED
  BY <1>2, <1>3, FoldAddsUp

\* The sum over a finite set, one element taken out at a time, in any order.
LEMMA SumByElement ==
  ASSUME NEW S, IsFiniteSet(S), NEW f, Ints(f, S)
  PROVE  /\ SumOver(f, {}) = 0
         /\ \A s \in SUBSET S : SumOver(f, s) \in Int
         /\ \A s \in SUBSET S : \A x \in s : SumOver(f, s) = f[x] + SumOver(f, s \ {x})
<1>1. PICK m : AddsUp(m, f, S)
  BY SomethingAddsUp
<1>2. ASSUME NEW s \in SUBSET S PROVE SumOver(f, s) = m[s]
  <2>1. IsFiniteSet(s)
    BY FS_Subset
  <2>2. AddsUp(m, f, s)
    BY <1>1 DEF AddsUp
  <2> QED
    BY <2>1, <2>2, SumIsAny
<1>3. SumOver(f, {}) = 0
  BY <1>1, <1>2 DEF AddsUp
<1>4. \A s \in SUBSET S : SumOver(f, s) \in Int
  BY <1>1, <1>2 DEF AddsUp
<1>5. ASSUME NEW s \in SUBSET S, NEW x \in s PROVE SumOver(f, s) = f[x] + SumOver(f, s \ {x})
  <2>1. s \ {x} \in SUBSET S
    OBVIOUS
  <2> QED
    BY <1>1, <1>2, <2>1 DEF AddsUp
<1> QED
  BY <1>3, <1>4, <1>5

LEMMA SumOfZeros ==
  ASSUME NEW S, IsFiniteSet(S), NEW f, \A x \in S : f[x] = 0
  PROVE  SumOver(f, S) = 0
<1> DEFINE m == [s \in SUBSET S |-> 0]
<1>1. AddsUp(m, f, S)
  BY DEF AddsUp
<1> HIDE DEF m
<1>2. SumOver(f, S) = m[S]
  BY <1>1, SumIsAny
<1> QED
  BY <1>2 DEF m

\* Each index stands for one element with the same value, and what stands for
\* no index adds nothing.
Stands(b, g, I, f, S) ==
  /\ \A i \in I : b[i] \in S /\ f[b[i]] = g[i]
  /\ \A i, j \in I : b[i] = b[j] => i = j
  /\ \A x \in S : (\A i \in I : b[i] # x) => f[x] = 0

LEMMA SameSum ==
  ASSUME NEW S, IsFiniteSet(S), NEW f, Ints(f, S),
         NEW I, IsFiniteSet(I), NEW g, NEW b, Stands(b, g, I, f, S)
  PROVE  SumOver(g, I) = SumOver(f, S)
<1> DEFINE Left(J) == {x \in S : \A i \in I \ J : b[i] # x}
           Such == {J \in SUBSET I : SumOver(g, J) # SumOver(f, Left(J))}
<1>0. Such \in SUBSET (SUBSET I)
  OBVIOUS
<1>1. Ints(g, I)
  BY DEF Stands, Ints
<1>2. /\ SumOver(g, {}) = 0
      /\ \A J \in SUBSET I : \A i \in J : SumOver(g, J) = g[i] + SumOver(g, J \ {i})
  BY <1>1, SumByElement
<1>3. /\ SumOver(f, {}) = 0
      /\ \A s \in SUBSET S : SumOver(f, s) \in Int
      /\ \A s \in SUBSET S : \A x \in s : SumOver(f, s) = f[x] + SumOver(f, s \ {x})
  BY SumByElement
<1>4. Such = {}
  <2> SUFFICES ASSUME Such # {} PROVE FALSE
    OBVIOUS
  <2>1. PICK J \in Such : \A K \in Such : K \subseteq J => K = J
    <3> HIDE DEF Such
    <3> QED
      BY <1>0, Smallest
  <2>2. CASE J = {}
    <3>1. Left({}) \in SUBSET S /\ \A x \in Left({}) : f[x] = 0
      BY DEF Stands
    <3>2. IsFiniteSet(Left({}))
      BY <3>1, FS_Subset
    <3> HIDE DEF Left
    <3>3. SumOver(f, Left({})) = 0
      BY <3>1, <3>2, SumOfZeros
    <3> QED
      BY <1>2, <2>1, <2>2, <3>3
  <2>3. CASE J # {}
    <3>1. PICK i \in J : TRUE
      BY <2>3
    <3>2. J \ {i} \notin Such /\ J \ {i} \in SUBSET I /\ J \in SUBSET I /\ i \in I
      BY <2>1, <3>1
    <3>3. SumOver(g, J \ {i}) = SumOver(f, Left(J \ {i}))
      BY <3>2
    <3>4. b[i] \in Left(J) /\ f[b[i]] = g[i]
      BY <3>1, <3>2 DEF Stands
    <3>5. Left(J \ {i}) = Left(J) \ {b[i]}
      BY <3>1, <3>2 DEF Stands
    <3>6. Left(J) \in SUBSET S
      OBVIOUS
    <3>7. SumOver(f, Left(J)) # SumOver(g, J)
      BY <2>1
    <3> HIDE DEF Left, Such
    <3>8. SumOver(f, Left(J)) = f[b[i]] + SumOver(f, Left(J) \ {b[i]})
      BY <1>3, <3>4, <3>6
    <3>9. SumOver(g, J) = g[i] + SumOver(g, J \ {i})
      BY <1>2, <3>1, <3>2
    <3> QED
      BY <3>3, <3>4, <3>5, <3>7, <3>8, <3>9
  <2> QED
    BY <2>2, <2>3
<1>5. Left(I) = S
  OBVIOUS
<1>6. I \notin Such
  BY <1>4
<1> QED
  BY <1>5, <1>6

LEMMA SumOfParts ==
  ASSUME NEW A, IsFiniteSet(A), NEW B, IsFiniteSet(B), A \cap B = {}, NEW f, Ints(f, A \cup B)
  PROVE  SumOver(f, A \cup B) = SumOver(f, A) + SumOver(f, B)
<1> DEFINE S == A \cup B
           Such == {s \in SUBSET A : SumOver(f, s \cup B) # SumOver(f, s) + SumOver(f, B)}
<1>0. Such \in SUBSET (SUBSET A)
  OBVIOUS
<1>1. /\ SumOver(f, {}) = 0
      /\ \A s \in SUBSET S : SumOver(f, s) \in Int
      /\ \A s \in SUBSET S : \A x \in s : SumOver(f, s) = f[x] + SumOver(f, s \ {x})
  <2>1. IsFiniteSet(S)
    BY FS_Union
  <2> QED
    BY <2>1, SumByElement
<1>2. Such = {}
  <2> SUFFICES ASSUME Such # {} PROVE FALSE
    OBVIOUS
  <2>1. PICK s \in Such : \A u \in Such : u \subseteq s => u = s
    <3> HIDE DEF Such
    <3> QED
      BY <1>0, Smallest
  <2>2. s \in SUBSET A /\ SumOver(f, s \cup B) # SumOver(f, s) + SumOver(f, B)
    BY <2>1
  <2>3. CASE s = {}
    <3>1. s \cup B = B
      BY <2>3
    <3>2. SumOver(f, B) \in Int
      BY <1>1
    <3> QED
      BY <1>1, <2>2, <2>3, <3>1, <3>2
  <2>4. CASE s # {}
    <3>1. PICK x \in s : TRUE
      BY <2>4
    <3>2. (s \cup B) \ {x} = (s \ {x}) \cup B
      BY <2>2, <3>1
    <3>3. s \ {x} \notin Such /\ s \ {x} \in SUBSET A
      BY <2>1, <2>2, <3>1
    <3>4. SumOver(f, (s \ {x}) \cup B) = SumOver(f, s \ {x}) + SumOver(f, B)
      BY <3>3
    <3>5. SumOver(f, s) = f[x] + SumOver(f, s \ {x})
      BY <1>1, <2>2, <3>1
    <3>6. SumOver(f, s \cup B) = f[x] + SumOver(f, (s \cup B) \ {x})
      BY <1>1, <2>2, <3>1
    <3>7. f[x] \in Int /\ SumOver(f, s \ {x}) \in Int /\ SumOver(f, B) \in Int
      BY <1>1, <2>2, <3>1 DEF Ints
    <3> DEFINE rest == SumOver(f, s \ {x})
               other == SumOver(f, B)
    <3>8. SumOver(f, s \cup B) = f[x] + (rest + other) /\ SumOver(f, s) = f[x] + rest
      BY <3>2, <3>4, <3>5, <3>6, Zenon
    <3>9. f[x] + (rest + other) = (f[x] + rest) + other
      <4> HIDE DEF rest, other
      <4> QED
        BY <3>7 DEF rest, other
    <3> QED
      BY <2>2, <3>8, <3>9, Zenon
  <2> QED
    BY <2>3, <2>4
<1>3. A \notin Such
  BY <1>2
<1> QED
  BY <1>3
-----------------------------------------------------------------------------
(* The invariant. *)

LEMMA Inputs ==
  /\ \A list \in Movements : Fits(list) => FitsBlock(list)
  /\ \A balances \in Accounts : FitsPanel(balances)
<1>1. ASSUME NEW list \in Movements, Fits(list) PROVE FitsBlock(list)
  <2>1. list \in Seq(Movement) /\ Len(list) \in Nat
    BY MovementsAreLists DEF Movement
  <2> QED
    BY <1>1, <2>1, Sizes DEF Fits, FitsBlock
<1>2. \A balances \in Accounts : FitsPanel(balances)
  BY AccountsFit DEF FitsPanel, Account
<1> QED
  BY <1>1, <1>2

LEMMA InitIInv == Init => IInv
<1>1. FitsBlock(<<>>)
  BY Sizes DEF FitsBlock
<1>2. [c \in 1..Categories |-> None] \in [1..Categories -> Amount \cup {None}]
  OBVIOUS
<1> QED
  BY <1>1, <1>2 DEF Init, IInv

LEMMA CreateIInv == IInv /\ Create => IInv'
<1> SUFFICES ASSUME IInv, Create PROVE IInv'
  OBVIOUS
<1>1. PICK list \in Movements, balances \in Accounts :
        /\ Fits(list)
        /\ cell' = Created(list, balances)
        /\ format' = ApplyLightFormatting(format, Len(balances))
        /\ Remember(list, balances)
  BY DEF Create
<1>2. FitsBlock(list) /\ FitsPanel(balances)
  BY <1>1, Inputs
<1>3. /\ ~made /\ made' = TRUE /\ movements' = list /\ accounts' = balances
      /\ shared = [c \in 1..Categories |-> None] /\ shared' = shared /\ format = EmptyFormats
      /\ shared \in [1..Categories -> Amount \cup {None}]
  BY <1>1 DEF Create, Remember, IInv
<1>4. cell' = Sheet(list, balances)
  BY <1>1, <1>2, CreatedIsSheet
<1>5. TypedOf(shared) ++ Sheet(list, balances) = Sheet(list, balances)
  BY <1>3, NothingTyped
<1>6. Typed' = TypedOf(shared')
  BY TypedIs
<1>7. cell' = Typed' ++ Sheet(movements', accounts')
  BY <1>3, <1>4, <1>5, <1>6
<1>8. format' = ApplyLightFormatting(EmptyFormats, Len(accounts'))
  BY <1>1, <1>3
<1> QED
  BY <1>2, <1>3, <1>7, <1>8 DEF IInv

LEMMA RefreshIInv == IInv /\ Refresh => IInv'
<1> SUFFICES ASSUME IInv, Refresh PROVE IInv'
  OBVIOUS
<1>1. PICK list \in Movements, balances \in Accounts :
        /\ Fits(list)
        /\ cell' = WriteSummaryRegion(WriteExpenseRegion(cell, list), balances)
        /\ format' = FormatPanel(format, Len(balances))
        /\ Remember(list, balances)
  BY DEF Refresh
<1>2. FitsBlock(list) /\ FitsPanel(balances)
  BY <1>1, Inputs
<1>3. /\ made /\ made' = made /\ movements' = list /\ accounts' = balances /\ shared' = shared
      /\ FitsPanel(accounts) /\ cell = Typed ++ Sheet(movements, accounts)
      /\ format = ApplyLightFormatting(EmptyFormats, Len(accounts))
      /\ shared \in [1..Categories -> Amount \cup {None}]
  BY <1>1 DEF Refresh, Remember, IInv
<1>4. Typed = TypedOf(shared) /\ Typed' = TypedOf(shared')
  BY TypedIs
<1>5. cell' = Typed' ++ Sheet(movements', accounts')
  BY <1>1, <1>2, <1>3, <1>4, RefreshIsSheet
<1>6. Len(accounts) \in 0..MaxBalanceRows /\ Len(balances) \in 0..MaxBalanceRows
  BY <1>2, <1>3, Sizes DEF FitsPanel
<1>7. format' = ApplyLightFormatting(EmptyFormats, Len(accounts'))
  BY <1>1, <1>3, <1>6, FormatsKept
<1> QED
  BY <1>2, <1>3, <1>5, <1>7 DEF IInv

LEMMA TypeSharedIInv ==
  ASSUME IInv, NEW c \in 1..Categories, NEW n \in Amount, TypeShared(c, n)
  PROVE  IInv'
<1>1. /\ made /\ made' = made /\ movements' = movements /\ accounts' = accounts /\ format' = format
      /\ cell' = TypedIn(cell, TypedCell(c), n)
      /\ shared' = WithShared(shared, c, n)
  BY DEF TypeShared, TypedCell, WithShared, TypedIn
<1>2. /\ FitsPanel(accounts) /\ FitsBlock(movements)
      /\ cell = Typed ++ Sheet(movements, accounts)
      /\ format = ApplyLightFormatting(EmptyFormats, Len(accounts))
      /\ shared \in [1..Categories -> Amount \cup {None}]
  BY <1>1 DEF IInv
<1>3. Typed = TypedOf(shared) /\ Typed' = TypedOf(shared')
  BY TypedIs
<1>4. cell' = Typed' ++ Sheet(movements', accounts')
  <2>0. shared \in [1..Categories -> Amount \cup {None}]
    BY <1>2
  <2>1. TypedIn(TypedOf(shared) ++ Sheet(movements, accounts), TypedCell(c), n)
          = TypedOf(WithShared(shared, c, n)) ++ Sheet(movements, accounts)
    BY <2>0, SharedTyped
  <2> QED
    BY <1>1, <1>2, <1>3, <2>1
<1>5. shared' \in [1..Categories -> Amount \cup {None}]
  BY <1>1, <1>2 DEF WithShared
<1> QED
  BY <1>1, <1>2, <1>4, <1>5 DEF IInv

LEMMA TypeBalanceIInv ==
  ASSUME IInv, NEW i \in 1..MaxBalanceRows, NEW n \in Amount, TypeBalance(i, n)
  PROVE  IInv'
<1>1. /\ made /\ made' = made /\ movements' = movements /\ shared' = shared /\ format' = format
      /\ i \in DOMAIN accounts
      /\ cell' = TypedIn(cell, BalanceCell(i), n)
      /\ accounts' = WithBalance(accounts, i, n)
  BY DEF TypeBalance, BalanceCell, WithBalance, TypedIn
<1>2. /\ FitsPanel(accounts) /\ FitsBlock(movements)
      /\ cell = Typed ++ Sheet(movements, accounts)
      /\ format = ApplyLightFormatting(EmptyFormats, Len(accounts))
      /\ shared \in [1..Categories -> Amount \cup {None}]
  BY <1>1 DEF IInv
<1>3. n \in Int /\ None # n
  BY TypedIsSomething
<1>4. Typed = TypedOf(shared) /\ Typed' = TypedOf(shared')
  BY TypedIs
<1>5. cell' = Typed' ++ Sheet(movements', accounts')
  BY <1>1, <1>2, <1>3, <1>4, BalanceTyped
<1>6. FitsPanel(accounts') /\ Len(accounts') = Len(accounts)
  BY <1>1, <1>2, <1>3, WithBalanceFits
<1> QED
  BY <1>1, <1>2, <1>5, <1>6 DEF IInv

LEMMA NextIInv == IInv /\ [Next]_vars => IInv'
<1> SUFFICES ASSUME IInv, [Next]_vars PROVE IInv'
  OBVIOUS
<1>1. CASE Create
  BY <1>1, CreateIInv
<1>2. CASE Refresh
  BY <1>2, RefreshIInv
<1>3. ASSUME NEW c \in 1..Categories, NEW n \in Amount, TypeShared(c, n) PROVE IInv'
  BY <1>3, TypeSharedIInv
<1>4. ASSUME NEW i \in 1..MaxBalanceRows, NEW n \in Amount, TypeBalance(i, n) PROVE IInv'
  BY <1>4, TypeBalanceIInv
<1>5. CASE UNCHANGED vars
  BY <1>5 DEF vars, IInv, Typed
<1> QED
  BY <1>1, <1>2, <1>3, <1>4, <1>5 DEF Next

LEMMA IInvTypes == IInv => TypeOK
<1> SUFFICES ASSUME IInv PROVE TypeOK
  OBVIOUS
<1>1. Len(movements) <= MaxExpenseRows
  BY Sizes DEF IInv, FitsBlock
<1>2. CASE made
  <2>1. /\ FitsPanel(accounts) /\ cell = Typed ++ Sheet(movements, accounts)
        /\ format = ApplyLightFormatting(EmptyFormats, Len(accounts))
    BY <1>2 DEF IInv
  <2>2. cell = TypedOf(shared) ++ Sheet(movements, accounts)
    BY <2>1, TypedIs
  <2>3. DOMAIN cell = Cell
    BY <2>2, OnSheet DEF Filled
  <2>4. \A p \in Cell : cell[p].is \in Kinds
    BY <2>1, <2>2, SheetKinds
  <2>5. format \in [Cell -> {"plain", "bold", "money"}]
    BY <2>1, FormatsTyped
  <2>6. Len(accounts) \in 1..MaxBalanceRows
    BY <2>1 DEF FitsPanel
  <2> QED
    BY <1>1, <1>2, <2>3, <2>4, <2>5, <2>6 DEF TypeOK, Kinds, PlainKinds
<1>3. CASE ~made
  <2>1. accounts = <<>> /\ cell = EmptySheet /\ format = EmptyFormats /\ made \in BOOLEAN
    BY <1>3 DEF IInv
  <2>2. \A p \in Cell : EmptySheet[p].is = "blank"
    BY DEF EmptySheet, Blank
  <2>3. DOMAIN EmptySheet = Cell /\ EmptyFormats \in [Cell -> {"plain", "bold", "money"}]
    BY DEF EmptySheet, EmptyFormats
  <2> QED
    BY <1>1, <2>1, <2>2, <2>3 DEF TypeOK
<1> QED
  BY <1>2, <1>3

LEMMA IInvCreated == IInv => RefreshIsAsCreated
<1> SUFFICES ASSUME IInv, made
             PROVE  /\ cell = Typed ++ Created(movements, accounts)
                    /\ format = ApplyLightFormatting(EmptyFormats, Len(accounts))
  BY DEF RefreshIsAsCreated
<1>1. FitsPanel(accounts) /\ FitsBlock(movements) /\ cell = Typed ++ Sheet(movements, accounts)
  BY DEF IInv
<1>2. Created(movements, accounts) = Sheet(movements, accounts)
  BY <1>1, CreatedIsSheet
<1> QED
  BY <1>1, <1>2 DEF IInv
-----------------------------------------------------------------------------
(* Where the movements go. *)

\* The movements that go no later than the i-th.
UpTo(list, i) ==
  {j \in DOMAIN list : list[j].key < list[i].key \/ (list[j].key = list[i].key /\ j <= i)}

\* sorted() gives every movement a row of its own, and fills the rows from the first.
LEMMA RanksArePlaces ==
  ASSUME NEW list \in Seq(Movement)
  PROVE  /\ \A i \in DOMAIN list : Rank(list, i) \in 1..Len(list)
         /\ \A i, j \in DOMAIN list : Rank(list, i) = Rank(list, j) => i = j
         /\ \A k \in 1..Len(list) : \E i \in DOMAIN list : Rank(list, i) = k
<1>1. DOMAIN list = 1..Len(list) /\ Len(list) \in Nat /\ IsFiniteSet(1..Len(list))
      /\ Cardinality(1..Len(list)) = Len(list)
  <2>1. DOMAIN list = 1..Len(list) /\ Len(list) \in Nat
    OBVIOUS
  <2>2. IsFiniteSet(1..Len(list)) /\ Cardinality(1..Len(list)) = IF 1 > Len(list) THEN 0 ELSE Len(list) - 1 + 1
    BY <2>1, FS_Interval
  <2> QED
    BY <2>1, <2>2
<1>2. \A i \in DOMAIN list : list[i].key \in Nat
  <2>1. \A i \in DOMAIN list : list[i] \in Movement
    OBVIOUS
  <2> QED
    BY <2>1 DEF Movement
<1>3. \A i \in DOMAIN list : Rank(list, i) = Cardinality(UpTo(list, i))
  BY DEF Rank, UpTo
<1>4. \A i \in DOMAIN list : UpTo(list, i) \in SUBSET (1..Len(list)) /\ IsFiniteSet(UpTo(list, i))
  <2>1. \A i \in DOMAIN list : UpTo(list, i) \in SUBSET (1..Len(list))
    BY <1>1 DEF UpTo
  <2> QED
    BY <1>1, <2>1, FS_Subset
<1>5. ASSUME NEW i \in DOMAIN list PROVE Rank(list, i) \in 1..Len(list)
  <2>1. i \in UpTo(list, i)
    BY <1>1, <1>2 DEF UpTo
  <2>2. Cardinality(UpTo(list, i)) \in Nat /\ Cardinality(UpTo(list, i)) <= Len(list)
    BY <1>1, <1>4, FS_Subset, FS_CardinalityType
  <2>3. Cardinality(UpTo(list, i)) # 0
    BY <1>4, <2>1, FS_EmptySet
  <2> QED
    BY <1>1, <1>3, <2>2, <2>3
<1>6. ASSUME NEW i \in DOMAIN list, NEW j \in DOMAIN list, Rank(list, i) = Rank(list, j), i \in UpTo(list, j)
      PROVE  i = j
  <2>1. UpTo(list, i) \subseteq UpTo(list, j)
    BY <1>1, <1>2, <1>6 DEF UpTo
  <2>2. UpTo(list, i) = UpTo(list, j)
    BY <1>3, <1>4, <1>6, <2>1, FS_Subset
  <2>3. j \in UpTo(list, i)
    <3>1. j \in UpTo(list, j)
      BY <1>1, <1>2 DEF UpTo
    <3> QED
      BY <2>2, <3>1
  <2> QED
    BY <1>1, <1>2, <1>6, <2>3 DEF UpTo
<1>7. ASSUME NEW i \in DOMAIN list, NEW j \in DOMAIN list, Rank(list, i) = Rank(list, j)
      PROVE  i = j
  <2>1. i \in UpTo(list, j) \/ j \in UpTo(list, i)
    BY <1>1, <1>2 DEF UpTo
  <2> QED
    BY <1>6, <1>7, <2>1
<1>8. ASSUME NEW k \in 1..Len(list) PROVE \E i \in DOMAIN list : Rank(list, i) = k
  <2> DEFINE f == [i \in 1..Len(list) |-> Rank(list, i)]
  <2>1. f \in [1..Len(list) -> 1..Len(list)]
    BY <1>1, <1>5
  <2>2. \A i, j \in 1..Len(list) : f[i] = f[j] => i = j
    BY <1>1, <1>7
  <2> HIDE DEF f
  <2>3. f \in Injection(1..Len(list), 1..Len(list))
    BY <2>1, <2>2 DEF Injection, IsInjective
  <2>4. f \in Surjection(1..Len(list), 1..Len(list))
    BY <1>1, <2>3, FS_Injection
  <2>5. \E i \in 1..Len(list) : f[i] = k
    BY <2>4 DEF Surjection
  <2> QED
    BY <1>1, <2>5 DEF f
<1> QED
  BY <1>5, <1>7, <1>8

ExpenseCell(list, i) == <<"BE", ExpenseFirst + Rank(list, i) - 1>>

LEMMA ExpensesPlaced ==
  ASSUME NEW list, FitsBlock(list)
  PROVE  /\ \A i \in DOMAIN list : /\ ExpenseCell(list, i) \in ExpenseRegion
                                   /\ ExpenseCell(list, i) \in Filled(PlaceExpenses(list))
                                   /\ PlaceExpenses(list)[ExpenseCell(list, i)] = Expense(list[i], FALSE)
         /\ \A i, j \in DOMAIN list : ExpenseCell(list, i) = ExpenseCell(list, j) => i = j
         /\ \A p \in Filled(PlaceExpenses(list)) : \E i \in DOMAIN list : p = ExpenseCell(list, i)
<1>1. /\ \A i \in DOMAIN list : Rank(list, i) \in 1..Len(list)
      /\ \A i, j \in DOMAIN list : Rank(list, i) = Rank(list, j) => i = j
      /\ \A k \in 1..Len(list) : \E i \in DOMAIN list : Rank(list, i) = k
  BY RanksArePlaces DEF FitsBlock
<1>2. Len(list) \in Nat
  BY DEF FitsBlock
<1>3. \A i \in DOMAIN list : ExpenseCell(list, i) = <<"BE", 3 + Rank(list, i)>> /\ Rank(list, i) \in Int
  BY <1>1, Rows DEF ExpenseCell
<1>4. Filled(PlaceExpenses(list)) = Cells("BE", 4, 3 + Len(list))
  BY <1>2, Rows DEF PlaceExpenses, Filled
<1>5. ASSUME NEW i \in DOMAIN list PROVE ExpenseCell(list, i) \in Filled(PlaceExpenses(list))
  <2>1. 3 + Rank(list, i) \in 4..(3 + Len(list))
    BY <1>1, <1>2
  <2> QED
    BY <1>2, <1>3, <1>4, <2>1, Within
<1>6. ASSUME NEW i \in DOMAIN list
      PROVE  PlaceExpenses(list)[ExpenseCell(list, i)] = Expense(list[i], FALSE)
  <2> DEFINE p == ExpenseCell(list, i)
             k == p[2] - ExpenseFirst + 1
  <2>1. k = Rank(list, i)
    BY <1>3, Rows
  <2>2. PlaceExpenses(list)[p] = Expense(list[CHOOSE j \in DOMAIN list : Rank(list, j) = k], FALSE)
    <3>1. p \in Filled(PlaceExpenses(list))
      BY <1>5
    <3> HIDE DEF p
    <3> QED
      BY <3>1 DEF PlaceExpenses, Filled
  <2> HIDE DEF k
  <2>3. (CHOOSE j \in DOMAIN list : Rank(list, j) = k) = i
    BY <1>1, <2>1
  <2> QED
    BY <2>2, <2>3
<1>7. ASSUME NEW i \in DOMAIN list, NEW j \in DOMAIN list, ExpenseCell(list, i) = ExpenseCell(list, j)
      PROVE  i = j
  <2>1. Rank(list, i) = Rank(list, j)
    BY <1>3, <1>7
  <2> QED
    BY <1>1, <2>1
<1>8. ASSUME NEW p \in Filled(PlaceExpenses(list))
      PROVE  \E i \in DOMAIN list : p = ExpenseCell(list, i)
  <2>1. PICK r \in 4..(3 + Len(list)) : p = <<"BE", r>>
    BY <1>4 DEF Cells
  <2>2. PICK i \in DOMAIN list : Rank(list, i) = r - 3
    BY <1>1, <1>2
  <2> QED
    BY <1>3, <2>1, <2>2
<1>9. Filled(PlaceExpenses(list)) \subseteq ExpenseRegion
  BY ExpensesFit
<1>10. \A i \in DOMAIN list : ExpenseCell(list, i) \in ExpenseRegion
  BY <1>5, <1>9
<1> QED
  BY <1>5, <1>6, <1>7, <1>8, <1>10
-----------------------------------------------------------------------------
(* What the cells of the panel hold. *)

\* Of six layers each cell shows the first that fills it.
LEMMA Layers ==
  ASSUME NEW a, NEW b, NEW c, NEW d, NEW e, NEW f
  PROVE  LET all == a ++ b ++ c ++ d ++ e ++ f
             ab == Filled(a) \cup Filled(b)
             abc == ab \cup Filled(c)
             abcd == abc \cup Filled(d)
         IN  /\ \A p \in Filled(a) : all[p] = a[p]
             /\ \A p \in Filled(b) : p \notin Filled(a) => all[p] = b[p]
             /\ \A p \in Filled(c) : p \notin ab => all[p] = c[p]
             /\ \A p \in Filled(d) : p \notin abc => all[p] = d[p]
             /\ \A p \in Filled(e) : p \notin abcd => all[p] = e[p]
             /\ \A p \in Filled(f) : p \notin abcd \cup Filled(e) => all[p] = f[p]
<1> DEFINE two == a ++ b
           three == two ++ c
           four == three ++ d
           five == four ++ e
           all == five ++ f
<1>1. /\ Filled(two) = Filled(a) \cup Filled(b) /\ Filled(three) = Filled(two) \cup Filled(c)
      /\ Filled(four) = Filled(three) \cup Filled(d) /\ Filled(five) = Filled(four) \cup Filled(e)
  BY LaidFills
<1>2. \A p \in Filled(five) : all[p] = five[p]
  BY Laid
<1>3. \A p \in Filled(four) : five[p] = four[p]
  BY Laid
<1>4. \A p \in Filled(three) : four[p] = three[p]
  BY Laid
<1>5. \A p \in Filled(two) : three[p] = two[p]
  BY Laid
<1>6. \A p \in Filled(a) : two[p] = a[p]
  BY Laid
<1>7. /\ \A p \in Filled(b) : p \notin Filled(a) => two[p] = b[p]
      /\ \A p \in Filled(c) : p \notin Filled(two) => three[p] = c[p]
      /\ \A p \in Filled(d) : p \notin Filled(three) => four[p] = d[p]
      /\ \A p \in Filled(e) : p \notin Filled(four) => five[p] = e[p]
      /\ \A p \in Filled(f) : p \notin Filled(five) => all[p] = f[p]
  BY Laid
<1> HIDE DEF two, three, four, five
<1> DEFINE X == all
<1> HIDE DEF all
<1>8. \A p \in Filled(a) : all[p] = a[p]
  BY <1>1, <1>2, <1>3, <1>4, <1>5, <1>6
<1>9. \A p \in Filled(b) : p \notin Filled(a) => all[p] = b[p]
  BY <1>1, <1>2, <1>3, <1>4, <1>5, <1>7
<1>10. \A p \in Filled(c) : p \notin Filled(a) \cup Filled(b) => all[p] = c[p]
  BY <1>1, <1>2, <1>3, <1>4, <1>7
<1>11. \A p \in Filled(d) : p \notin Filled(a) \cup Filled(b) \cup Filled(c) => all[p] = d[p]
  BY <1>1, <1>2, <1>3, <1>7
<1>12. \A p \in Filled(e) : p \notin Filled(a) \cup Filled(b) \cup Filled(c) \cup Filled(d)
                              => all[p] = e[p]
  BY <1>1, <1>2, <1>7
<1>13. \A p \in Filled(f) :
         p \notin Filled(a) \cup Filled(b) \cup Filled(c) \cup Filled(d) \cup Filled(e) => all[p] = f[p]
  BY <1>1, <1>7
<1> QED
  BY <1>8, <1>9, <1>10, <1>11, <1>12, <1>13, Zenon DEF all, two, three, four, five

LEMMA SummaryCells ==
  /\ PlaceSummary[<<"J", 4>>] = Text("income")
  /\ PlaceSummary[<<"K", 4>>] = Sum("income", "BE", ExpenseFirst, ExpenseLast)
  /\ PlaceSummary[<<"J", 5>>] = Text("spend")
  /\ PlaceSummary[<<"K", 5>>] = Sum("spend", "BE", ExpenseFirst, ExpenseLast)
  /\ PlaceSummary[<<"J", 6>>] = Text("total")
  /\ PlaceSummary[<<"K", 6>>] = Plus({<<"K", 4>>, <<"K", 5>>})
<1> DEFINE a == Put(<<"J", 4>>, Text("income"))
           b == Put(<<"K", 4>>, Sum("income", "BE", ExpenseFirst, ExpenseLast))
           c == Put(<<"J", 5>>, Text("spend"))
           d == Put(<<"K", 5>>, Sum("spend", "BE", ExpenseFirst, ExpenseLast))
           e == Put(<<"J", 6>>, Text("total"))
           f == Put(<<"K", 6>>, Plus({<<"K", 4>>, <<"K", 5>>}))
<1>1. PlaceSummary = a ++ b ++ c ++ d ++ e ++ f
  BY Rows DEF PlaceSummary
<1>2. /\ Filled(a) = {<<"J", 4>>} /\ Filled(b) = {<<"K", 4>>} /\ Filled(c) = {<<"J", 5>>}
      /\ Filled(d) = {<<"K", 5>>} /\ Filled(e) = {<<"J", 6>>} /\ Filled(f) = {<<"K", 6>>}
  BY Single
<1>3. /\ a[<<"J", 4>>] = Text("income")
      /\ b[<<"K", 4>>] = Sum("income", "BE", ExpenseFirst, ExpenseLast)
      /\ c[<<"J", 5>>] = Text("spend")
      /\ d[<<"K", 5>>] = Sum("spend", "BE", ExpenseFirst, ExpenseLast)
      /\ e[<<"J", 6>>] = Text("total")
      /\ f[<<"K", 6>>] = Plus({<<"K", 4>>, <<"K", 5>>})
  BY Single
<1> HIDE DEF a, b, c, d, e, f
<1>4. LET all == a ++ b ++ c ++ d ++ e ++ f
      IN  /\ all[<<"J", 4>>] = a[<<"J", 4>>] /\ all[<<"K", 4>>] = b[<<"K", 4>>]
          /\ all[<<"J", 5>>] = c[<<"J", 5>>] /\ all[<<"K", 5>>] = d[<<"K", 5>>]
          /\ all[<<"J", 6>>] = e[<<"J", 6>>] /\ all[<<"K", 6>>] = f[<<"K", 6>>]
  BY <1>2, Layers
<1> QED
  BY <1>1, <1>3, <1>4, Zenon

LEMMA BalanceCells ==
  ASSUME NEW list, FitsPanel(list)
  PROVE  LET balances == PlaceBalances(list)
             total == 10 + Len(list)
         IN  /\ balances[<<"J", total>>] = Text("total")
             /\ balances[<<"K", total>>] = Sum("all", "K", 10, 9 + Len(list))
             /\ balances[<<"J", total + 1>>] = Text("reference")
             /\ \A i \in Reported(list) : /\ BalanceCell(i) \in Filled(balances)
                                          /\ balances[BalanceCell(i)] = Number(list[i].balance)
             /\ \A i \in DOMAIN list \ Reported(list) : BalanceCell(i) \notin Filled(balances)
             /\ \A r : r > total + 1 => <<"J", r>> \notin Filled(balances)
             /\ {<<"J", total>>, <<"K", total>>, <<"J", total + 1>>} \subseteq Filled(balances)
<1> DEFINE n == Len(list)
           a == Above(list)
           b == Amounts(list)
           c == Put(<<"J", Total(list)>>, Text("total"))
           d == TotalOf(list)
           e == Put(<<"J", Total(list) + 1>>, Text("reference"))
           f == Put(<<"K", Total(list) + 1>>, ReferenceLabel(list))
           all == PlaceBalances(list)
<1>0. n \in 1..MaxBalanceRows /\ n \in Nat /\ DOMAIN list = 1..n /\ Total(list) = 10 + n
  BY Sizes, Rows DEF FitsPanel, Total
<1>1. /\ d = Put(<<"K", Total(list)>>, Sum("all", "K", BalanceFirst, Total(list) - 1))
      /\ Filled(all) = Filled(a) \cup Filled(b) \cup Totals(list)
      /\ Filled(a) = Cells("J", 10, 9 + Len(list)) \cup {<<"J", 8>>, <<"J", 9>>, <<"K", 9>>}
  BY BalancesFill
<1>2. all = a ++ b ++ c ++ d ++ e ++ f
  BY BalancesByPart
<1>3. /\ Filled(c) = {<<"J", 10 + n>>} /\ Filled(d) = {<<"K", 10 + n>>}
      /\ Filled(e) = {<<"J", 11 + n>>}
  BY <1>0, <1>1, Single
<1>4. /\ c[<<"J", 10 + n>>] = Text("total")
      /\ d[<<"K", 10 + n>>] = Sum("all", "K", 10, 9 + n)
      /\ e[<<"J", 11 + n>>] = Text("reference")
  <2>1. Total(list) + 1 = 11 + n /\ BalanceFirst = 10 /\ Total(list) - 1 = 9 + n
    BY <1>0, Rows
  <2>2. d = Put(<<"K", 10 + n>>, Sum("all", "K", 10, 9 + n))
    BY <1>0, <1>1, <2>1
  <2>3. c = Put(<<"J", 10 + n>>, Text("total")) /\ e = Put(<<"J", 11 + n>>, Text("reference"))
    BY <1>0, <2>1
  <2> HIDE DEF c, d, e, n
  <2> QED
    BY <2>2, <2>3, Single
<1>5. Filled(b) = {BalanceCell(i) : i \in Reported(list)}
  BY DEF Filled, Amounts, BalanceCell
<1>6. \A i \in DOMAIN list : BalanceCell(i) = <<"K", 9 + i>> /\ i \in Int
  BY <1>0, Rows DEF BalanceCell
<1>7. Reported(list) \subseteq DOMAIN list
  BY DEF Reported
<1>8. ASSUME NEW i \in Reported(list) PROVE b[BalanceCell(i)] = Number(list[i].balance)
  <2>1. BalanceCell(i)[2] - BalanceFirst + 1 = i
    BY <1>6, <1>7, Rows
  <2>2. BalanceCell(i) \in {<<"K", BalanceFirst + j - 1>> : j \in Reported(list)}
    BY DEF BalanceCell
  <2> QED
    BY <2>1, <2>2 DEF Amounts
<1>9. Totals(list) = {<<"J", 10 + n>>, <<"K", 10 + n>>, <<"J", 11 + n>>, <<"K", 11 + n>>}
  BY <1>0 DEF Totals
<1>10. \A k, r : <<k, r>> \in Filled(a) => (k = "J" /\ r \in 8..(9 + n)) \/ (k = "K" /\ r = 9)
  <2>1. \A k, r : <<k, r>> \in Cells("J", 10, 9 + n) => k = "J" /\ r \in 10..(9 + n)
    BY <1>0, Within
  <2> QED
    BY <1>0, <1>1, <2>1
<1>11. \A k, r : <<k, r>> \in Filled(b) => k = "K" /\ r \in 10..(9 + n)
  BY <1>0, <1>5, <1>6, <1>7
<1> HIDE DEF a, b, c, d, e, f, all, n
<1>12. all[<<"J", 10 + n>>] = Text("total") /\ all[<<"K", 10 + n>>] = Sum("all", "K", 10, 9 + n)
       /\ all[<<"J", 11 + n>>] = Text("reference")
  <2>0. \A r \in {10 + n, 11 + n} : r \notin 8..(9 + n) /\ r # 9 /\ r \notin 10..(9 + n)
    BY <1>0
  <2>1. \A k \in {"J", "K"}, r \in {10 + n, 11 + n} : <<k, r>> \notin Filled(a) \cup Filled(b)
    BY <1>10, <1>11, <2>0
  <2>2. <<"J", 11 + n>> # <<"J", 10 + n>>
    BY <1>0
  <2> QED
    BY <1>2, <1>3, <1>4, <2>1, <2>2, Layers
<1>13. ASSUME NEW i \in Reported(list)
       PROVE  BalanceCell(i) \in Filled(all) /\ all[BalanceCell(i)] = Number(list[i].balance)
  <2>1. BalanceCell(i) \notin Filled(a) /\ BalanceCell(i) \in Filled(b)
    BY <1>0, <1>5, <1>6, <1>7, <1>10
  <2> QED
    BY <1>1, <1>2, <1>8, <2>1, Layers
<1>14. ASSUME NEW i \in DOMAIN list \ Reported(list) PROVE BalanceCell(i) \notin Filled(all)
  <2>1. BalanceCell(i) \notin Filled(a)
    BY <1>0, <1>6, <1>10
  <2>2. BalanceCell(i) \notin Filled(b)
    BY <1>5, <1>6, <1>7
  <2>3. BalanceCell(i) \notin Totals(list)
    BY <1>0, <1>6, <1>9
  <2> QED
    BY <1>1, <2>1, <2>2, <2>3
<1>15. ASSUME NEW r, r > 11 + n PROVE <<"J", r>> \notin Filled(all)
  BY <1>0, <1>1, <1>9, <1>10, <1>11, <1>15
<1>16. {<<"J", 10 + n>>, <<"K", 10 + n>>, <<"J", 11 + n>>} \subseteq Filled(all)
  BY <1>1, <1>9
<1> QED
  <2>1. 10 + n + 1 = 11 + n
    BY <1>0
  <2> QED
    BY <2>1, <1>12, <1>13, <1>14, <1>15, <1>16 DEF n, all

LEMMA FrameCells ==
  /\ Filled(Frame) = {<<c, 2>> : c \in {"BE", "G", "J"}}
                       \cup {<<c, 3>> : c \in {"BE", "G", "H", "J", "K"}}
                       \cup Cells("G", 4, 3 + Categories)
                       \cup {<<"G", 4 + Categories>>, <<"H", 4 + Categories>>}
  /\ Frame[<<"J", 2>>] = Text("title") /\ Frame[<<"J", 3>>] = Text("header")
  /\ Frame[<<"H", 4 + Categories>>] = Sum("all", "H", 4, 3 + Categories)
<1> DEFINE names == [p \in Cells("G", CategoryFirst, CategoryLast) |-> Text("category")]
           label == Put(<<"G", CategoryTotal>>, Text("total"))
           sum   == Put(<<"H", CategoryTotal>>, Sum("all", "H", CategoryFirst, CategoryLast))
           titles == PlaceTitlesAndHeaders
<1>1. Frame = titles ++ (names ++ label ++ sum)
  BY DEF Frame, PlaceSharedExpenses
<1>2. /\ Filled(names) = Cells("G", 4, 3 + Categories)
      /\ Filled(titles) = {<<c, 2>> : c \in {"BE", "G", "J"}}
                            \cup {<<c, 3>> : c \in {"BE", "G", "H", "J", "K"}}
  BY Rows DEF Filled, PlaceTitlesAndHeaders
<1>3. Filled(label) = {<<"G", 4 + Categories>>} /\ Filled(sum) = {<<"H", 4 + Categories>>}
  BY Rows, Single
<1>4. titles[<<"J", 2>>] = Text("title") /\ titles[<<"J", 3>>] = Text("header")
  BY Rows DEF PlaceTitlesAndHeaders
<1>5. sum[<<"H", 4 + Categories>>] = Sum("all", "H", 4, 3 + Categories)
  <2>1. CategoryTotal = 4 + Categories /\ CategoryFirst = 4 /\ CategoryLast = 3 + Categories
    BY Rows
  <2> QED
    BY <2>1, Single
<1> HIDE DEF names, label, sum, titles
<1>6. /\ Filled(names ++ label) = Filled(names) \cup Filled(label)
      /\ Filled(names ++ label ++ sum) = Filled(names) \cup Filled(label) \cup Filled(sum)
      /\ Filled(Frame) = Filled(titles) \cup Filled(names) \cup Filled(label) \cup Filled(sum)
  BY <1>1, LaidFills
<1>7. Frame[<<"J", 2>>] = Text("title") /\ Frame[<<"J", 3>>] = Text("header")
  BY <1>1, <1>2, <1>4, Laid
<1>8. <<"H", 4 + Categories>> \notin Filled(titles) \cup Filled(names) \cup Filled(label)
  <2>1. 4 + Categories # 3
    BY Sizes
  <2>2. <<"H", 4 + Categories>> \notin Cells("G", 4, 3 + Categories)
    BY DEF Cells
  <2> QED
    BY <1>2, <1>3, <2>1, <2>2
<1>9. Frame[<<"H", 4 + Categories>>] = Sum("all", "H", 4, 3 + Categories)
  <2> DEFINE p == <<"H", 4 + Categories>>
  <2>1. (names ++ label ++ sum)[p] = sum[p] /\ p \in Filled(names ++ label ++ sum)
    BY <1>3, <1>6, <1>8, Laid
  <2>2. Frame[p] = (names ++ label ++ sum)[p]
    BY <1>1, <1>8, <2>1, Laid
  <2> QED
    BY <1>5, <2>1, <2>2
<1>10. Filled(Frame) = {<<c, 2>> : c \in {"BE", "G", "J"}}
                       \cup {<<c, 3>> : c \in {"BE", "G", "H", "J", "K"}}
                       \cup Cells("G", 4, 3 + Categories)
                       \cup {<<"G", 4 + Categories>>, <<"H", 4 + Categories>>}
  BY <1>2, <1>3, <1>6
<1> QED
  BY <1>7, <1>9, <1>10

\* USER_ENTERED leaves all but dates and movements as they were sent.
LEMMA EnteredKeeps ==
  ASSUME NEW f, NEW p \in Filled(f), f[p].is \notin {"iso date", "expense"}
  PROVE  Entered(f)[p] = f[p]
BY DEF Entered, Filled

LEMMA TextsAndSums ==
  /\ \A t : Text(t).is = "text" /\ Text(t).text = t
  /\ \A w, c, x, y : Sum(w, c, x, y).is = "sum" /\ Sum(w, c, x, y).what = w
                     /\ Sum(w, c, x, y).over = Cells(c, x, y)
  /\ \A cells : Plus(cells).is = "plus" /\ Plus(cells).over = cells
  /\ \A m : Number(m).is = "number" /\ Number(m).amount = m
  /\ Blank.is = "blank"
BY DEF Text, Sum, Plus, Number, Blank

\* The tab, region by region.
LEMMA TabByRegion ==
  ASSUME IInv, made
  PROVE  /\ \A p \in ExpenseRegion :
              cell[p] = IF p \in Filled(PlaceExpenses(movements)) THEN PlaceExpenses(movements)[p]
                        ELSE Blank
         /\ \A p \in PanelRegion :
              cell[p] = IF p \in Filled(PanelGrid(accounts)) THEN Entered(PanelGrid(accounts))[p]
                        ELSE Blank
         /\ \A p \in Cell \ (ExpenseRegion \cup PanelRegion) : 
              p \notin Filled(TypedOf(shared)) =>
                cell[p] = IF p \in Filled(Frame) THEN Entered(Frame)[p] ELSE Blank
         /\ \A p \in Filled(TypedOf(shared)) : cell[p] = TypedOf(shared)[p]
<1> DEFINE T == TypedOf(shared)
           S == Sheet(movements, accounts)
<1>1. cell = T ++ S
  BY TypedIs DEF IInv
<1>2. \A p \in Cell : cell[p] = IF p \in Filled(T) THEN T[p] ELSE S[p]
  BY <1>1, OnSheet
<1>3. Filled(T) \subseteq Cell \ (ExpenseRegion \cup PanelRegion)
  BY TypedOutside
<1>4. ExpenseRegion \subseteq Cell /\ PanelRegion \subseteq Cell /\ ExpenseRegion \cap PanelRegion = {}
  BY CellsArePairs
<1>5. \A p \in Cell : S[p] =
         IF p \in ExpenseRegion
           THEN IF p \in Filled(PlaceExpenses(movements)) THEN PlaceExpenses(movements)[p] ELSE Blank
         ELSE IF p \in PanelRegion
           THEN IF p \in Filled(PanelGrid(accounts)) THEN Entered(PanelGrid(accounts))[p] ELSE Blank
         ELSE IF p \in Filled(Frame) THEN Entered(Frame)[p] ELSE Blank
  BY DEF Sheet
<1> HIDE DEF T, S
<1>6. \A p \in ExpenseRegion :
        cell[p] = IF p \in Filled(PlaceExpenses(movements)) THEN PlaceExpenses(movements)[p] ELSE Blank
  BY <1>2, <1>3, <1>4, <1>5
<1>7. \A p \in PanelRegion :
        cell[p] = IF p \in Filled(PanelGrid(accounts)) THEN Entered(PanelGrid(accounts))[p] ELSE Blank
  BY <1>2, <1>3, <1>4, <1>5
<1>8. \A p \in Cell \ (ExpenseRegion \cup PanelRegion) : p \notin Filled(T) =>
        cell[p] = IF p \in Filled(Frame) THEN Entered(Frame)[p] ELSE Blank
  BY <1>2, <1>5
<1>9. \A p \in Filled(T) : cell[p] = T[p]
  BY <1>2, <1>3
<1> QED
  BY <1>6, <1>7, <1>8, <1>9 DEF T

LEMMA PanelKeeps ==
  ASSUME IInv, made, NEW p \in Filled(PanelGrid(accounts)),
         NEW content, PanelGrid(accounts)[p] = content, content.is \notin {"iso date", "expense"}
  PROVE  cell[p] = content
<1>1. Filled(PanelGrid(accounts)) \subseteq PanelRegion
  BY PanelFits DEF IInv
<1>2. Entered(PanelGrid(accounts))[p] = content
  BY EnteredKeeps
<1> QED
  BY <1>1, <1>2, TabByRegion

LEMMA SummaryShows ==
  ASSUME IInv, made
  PROVE  /\ cell[<<"J", 4>>] = Text("income") /\ cell[<<"J", 5>>] = Text("spend")
         /\ cell[<<"J", 6>>] = Text("total")
         /\ cell[<<"K", 4>>] = Sum("income", "BE", ExpenseFirst, ExpenseLast)
         /\ cell[<<"K", 5>>] = Sum("spend", "BE", ExpenseFirst, ExpenseLast)
         /\ cell[<<"K", 6>>] = Plus({<<"K", 4>>, <<"K", 5>>})
<1> DEFINE P == PanelGrid(accounts)
           S == PlaceSummary
<1>1. Filled(S) \subseteq Filled(P) /\ \A p \in Filled(S) : P[p] = S[p]
  BY PanelFits DEF IInv
<1>2. Filled(S) = {<<c, r>> : c \in {"J", "K"}, r \in {4, 5, 6}}
  BY SummaryFits
<1>3. \A c \in {"J", "K"}, r \in {4, 5, 6} : <<c, r>> \in Filled(S)
  BY <1>2
<1> HIDE DEF P, S
<1>4. ASSUME NEW c \in {"J", "K"}, NEW r \in {4, 5, 6}, S[<<c, r>>].is \notin {"iso date", "expense"}
      PROVE  cell[<<c, r>>] = S[<<c, r>>]
  <2>1. <<c, r>> \in Filled(P) /\ P[<<c, r>>] = S[<<c, r>>]
    BY <1>1, <1>3
  <2> QED
    BY <1>4, <2>1, PanelKeeps DEF P
<1>5. /\ S[<<"J", 4>>] = Text("income") /\ S[<<"J", 5>>] = Text("spend") /\ S[<<"J", 6>>] = Text("total")
      /\ S[<<"K", 4>>] = Sum("income", "BE", ExpenseFirst, ExpenseLast)
      /\ S[<<"K", 5>>] = Sum("spend", "BE", ExpenseFirst, ExpenseLast)
      /\ S[<<"K", 6>>] = Plus({<<"K", 4>>, <<"K", 5>>})
  BY SummaryCells DEF S
<1>6. \A r \in {4, 5, 6} : S[<<"J", r>>].is = "text"
  BY <1>5, TextsAndSums
<1>7. S[<<"K", 4>>].is = "sum" /\ S[<<"K", 5>>].is = "sum" /\ S[<<"K", 6>>].is = "plus"
  BY <1>5, TextsAndSums
<1>8. \A r \in {4, 5, 6} : cell[<<"J", r>>] = S[<<"J", r>>]
  BY <1>4, <1>6
<1>9. \A r \in {4, 5, 6} : cell[<<"K", r>>] = S[<<"K", r>>]
  BY <1>4, <1>7
<1> QED
  BY <1>5, <1>8, <1>9

LEMMA BalancesShow ==
  ASSUME IInv, made
  PROVE  LET n == Len(accounts)
         IN  /\ n \in 1..MaxBalanceRows /\ DOMAIN accounts = 1..n
             /\ cell[<<"J", 10 + n>>] = Text("total")
             /\ cell[<<"K", 10 + n>>] = Sum("all", "K", 10, 9 + n)
             /\ cell[<<"J", 11 + n>>] = Text("reference")
             /\ \A i \in Reported(accounts) : cell[BalanceCell(i)] = Number(accounts[i].balance)
             /\ \A i \in DOMAIN accounts \ Reported(accounts) : cell[BalanceCell(i)] = Blank
             /\ \A r \in (12 + n)..PanelEnd : cell[<<"J", r>>] = Blank
<1> DEFINE n == Len(accounts)
           P == PanelGrid(accounts)
           B == PlaceBalances(accounts)
<1>0. FitsPanel(accounts)
  BY DEF IInv
<1>1. n \in 1..MaxBalanceRows /\ DOMAIN accounts = 1..n /\ n \in Nat /\ 10 + n + 1 = 11 + n
  BY <1>0, Sizes DEF FitsPanel
<1>2. /\ B[<<"J", 10 + n>>] = Text("total")
      /\ B[<<"K", 10 + n>>] = Sum("all", "K", 10, 9 + n)
      /\ B[<<"J", 11 + n>>] = Text("reference")
      /\ \A i \in Reported(accounts) : /\ BalanceCell(i) \in Filled(B)
                                       /\ B[BalanceCell(i)] = Number(accounts[i].balance)
      /\ \A i \in DOMAIN accounts \ Reported(accounts) : BalanceCell(i) \notin Filled(B)
      /\ \A r : r > 11 + n => <<"J", r>> \notin Filled(B)
      /\ {<<"J", 10 + n>>, <<"K", 10 + n>>, <<"J", 11 + n>>} \subseteq Filled(B)
  BY <1>0, <1>1, BalanceCells
<1>3. /\ Filled(P) = Filled(PlaceSummary) \cup Filled(B)
      /\ \A p \in Filled(B) : P[p] = B[p]
  BY <1>0, PanelFits
<1>4. Filled(PlaceSummary) = {<<c, r>> : c \in {"J", "K"}, r \in {4, 5, 6}}
  BY SummaryFits
<1> HIDE DEF n, P, B
<1>5. ASSUME NEW p \in Filled(B), NEW content, B[p] = content, content.is \notin {"iso date", "expense"}
      PROVE  cell[p] = content
  <2>1. p \in Filled(P) /\ P[p] = content
    BY <1>3, <1>5
  <2> QED
    BY <1>5, <2>1, PanelKeeps DEF P
<1>6. cell[<<"J", 10 + n>>] = Text("total")
  BY <1>2, <1>5, TextsAndSums
<1>7. cell[<<"K", 10 + n>>] = Sum("all", "K", 10, 9 + n)
  <2>1. Sum("all", "K", 10, 9 + n).is = "sum"
    BY TextsAndSums
  <2>2. <<"K", 10 + n>> \in Filled(B)
    BY <1>2
  <2> QED
    BY <1>2, <1>5, <2>1, <2>2
<1>8. cell[<<"J", 11 + n>>] = Text("reference")
  BY <1>2, <1>5, TextsAndSums
<1>9. ASSUME NEW i \in Reported(accounts) PROVE cell[BalanceCell(i)] = Number(accounts[i].balance)
  BY <1>2, <1>5, TextsAndSums
<1>10. ASSUME NEW p \in PanelRegion, p \notin Filled(P) PROVE cell[p] = Blank
  BY <1>10, TabByRegion DEF P
<1>11. ASSUME NEW i \in DOMAIN accounts \ Reported(accounts) PROVE cell[BalanceCell(i)] = Blank
  <2>1. BalanceCell(i) = <<"K", 9 + i>> /\ i \in 1..n
    BY <1>1, Rows DEF BalanceCell
  <2>2. BalanceCell(i) \in PanelRegion
    <3>1. 9 + i \in 4..(11 + MaxBalanceRows)
      BY <1>1, <2>1, Sizes
    <3> QED
      BY <2>1, <3>1, Regions
  <2>3. 9 + i \notin {4, 5, 6}
    BY <1>1, <2>1
  <2>4. BalanceCell(i) \notin Filled(PlaceSummary)
    BY <1>4, <2>1, <2>3
  <2> QED
    BY <1>2, <1>3, <1>10, <2>2, <2>4
<1>12. ASSUME NEW r \in (12 + n)..PanelEnd PROVE cell[<<"J", r>>] = Blank
  <2>1. r \in Int /\ r > 11 + n /\ r \in 4..(11 + MaxBalanceRows) /\ r \notin {4, 5, 6}
    BY <1>1, Sizes, Rows
  <2>2. <<"J", r>> \in PanelRegion
    BY <2>1, Regions
  <2>3. <<"J", r>> \notin Filled(PlaceSummary)
    BY <1>4, <2>1
  <2> QED
    BY <1>2, <1>3, <1>10, <2>1, <2>2, <2>3
<1> QED
  BY <1>1, <1>6, <1>7, <1>8, <1>9, <1>11, <1>12 DEF n

\* Rows above the panel.
LEMMA TopShows ==
  ASSUME IInv, made
  PROVE  /\ cell[<<"J", 1>>] = Blank /\ cell[<<"J", 2>>] = Text("title")
         /\ cell[<<"J", 3>>] = Text("header")
         /\ cell[<<"H", 4 + Categories>>] = Sum("all", "H", 4, 3 + Categories)
         /\ \A c \in 1..Categories : cell[TypedCell(c)] = IF shared[c] # None THEN Number(shared[c])
                                                          ELSE Blank
<1> DEFINE T == TypedOf(shared)
           outside == Cell \ (ExpenseRegion \cup PanelRegion)
<1>1. /\ Filled(T) = {TypedCell(c) : c \in {d \in 1..Categories : shared[d] # None}}
      /\ \A c \in 1..Categories : TypedCell(c) \in outside
      /\ \A c, d \in 1..Categories : TypedCell(c) = TypedCell(d) => c = d
      /\ \A c \in 1..Categories : shared[c] # None => T[TypedCell(c)] = Number(shared[c])
  BY TypedCells
<1>2. /\ \A p \in outside : p \notin Filled(T) =>
           cell[p] = IF p \in Filled(Frame) THEN Entered(Frame)[p] ELSE Blank
      /\ \A p \in Filled(T) : cell[p] = T[p]
  BY TabByRegion
<1>3. \A c \in 1..Categories : TypedCell(c) = <<"H", 3 + c>> /\ 3 + c \in 4..(3 + Categories)
  BY Sizes, Rows DEF TypedCell
<1>4. \A r : <<"J", r>> \notin Filled(T)
  BY <1>1, <1>3
<1>5. <<"H", 4 + Categories>> \notin Filled(T)
  BY <1>1, <1>3, Sizes
<1>6. \A r \in 1..3 : <<"J", r>> \in outside
  BY Regions, Sizes
<1>7. <<"H", 4 + Categories>> \in outside
  BY Regions, Sizes
<1>8. /\ Filled(Frame) = {<<c, 2>> : c \in {"BE", "G", "J"}}
                       \cup {<<c, 3>> : c \in {"BE", "G", "H", "J", "K"}}
                       \cup Cells("G", 4, 3 + Categories)
                       \cup {<<"G", 4 + Categories>>, <<"H", 4 + Categories>>}
      /\ Frame[<<"J", 2>>] = Text("title") /\ Frame[<<"J", 3>>] = Text("header")
      /\ Frame[<<"H", 4 + Categories>>] = Sum("all", "H", 4, 3 + Categories)
  BY FrameCells
<1>9. \A k, r : <<k, r>> \in Cells("G", 4, 3 + Categories) => k = "G"
  BY DEF Cells
<1>10. /\ <<"J", 1>> \notin Filled(Frame) /\ <<"J", 2>> \in Filled(Frame) /\ <<"J", 3>> \in Filled(Frame)
       /\ <<"H", 4 + Categories>> \in Filled(Frame)
       /\ \A c \in 1..Categories : <<"H", 3 + c>> \notin Filled(Frame)
  BY <1>8, <1>9, Sizes
<1>11. /\ Entered(Frame)[<<"J", 2>>] = Text("title") /\ Entered(Frame)[<<"J", 3>>] = Text("header")
       /\ Entered(Frame)[<<"H", 4 + Categories>>] = Sum("all", "H", 4, 3 + Categories)
  <2>1. /\ Frame[<<"J", 2>>].is = "text" /\ Frame[<<"J", 3>>].is = "text"
        /\ Frame[<<"H", 4 + Categories>>].is = "sum"
    BY <1>8, TextsAndSums
  <2>2. \A p \in Filled(Frame) : Frame[p].is \in {"text", "sum"} => Entered(Frame)[p] = Frame[p]
    BY EnteredKeeps
  <2> QED
    BY <1>8, <1>10, <2>1, <2>2
<1> HIDE DEF T, outside
<1>12. cell[<<"J", 1>>] = Blank /\ cell[<<"J", 2>>] = Text("title") /\ cell[<<"J", 3>>] = Text("header")
  BY <1>2, <1>4, <1>6, <1>10, <1>11
<1>13. cell[<<"H", 4 + Categories>>] = Sum("all", "H", 4, 3 + Categories)
  BY <1>2, <1>5, <1>7, <1>10, <1>11
<1>14. ASSUME NEW c \in 1..Categories
       PROVE  cell[TypedCell(c)] = IF shared[c] # None THEN Number(shared[c]) ELSE Blank
  <2>1. CASE shared[c] # None
    <3>1. TypedCell(c) \in Filled(T)
      BY <1>1, <2>1
    <3> QED
      BY <1>1, <1>2, <2>1, <3>1
  <2>2. CASE shared[c] = None
    <3>1. TypedCell(c) \notin Filled(T)
      BY <1>1, <2>2
    <3>2. TypedCell(c) \notin Filled(Frame)
      BY <1>3, <1>10
    <3> QED
      BY <1>1, <1>2, <2>2, <3>1, <3>2
  <2> QED
    BY <2>1, <2>2
<1> QED
  BY <1>12, <1>13, <1>14
-----------------------------------------------------------------------------
(* What the reader finds. *)

LEMMA ColumnIsFinite ==
  ASSUME NEW c, NEW x \in Int, NEW y \in Int
  PROVE  IsFiniteSet(Cells(c, x, y))
<1> DEFINE f == [r \in x..y |-> <<c, r>>]
<1>1. f \in Surjection(x..y, Cells(c, x, y))
  BY DEF Surjection, Cells
<1> HIDE DEF f
<1> QED
  BY <1>1, FS_Interval, FS_Surjection

LEMMA LeastIs ==
  ASSUME NEW S \in SUBSET Int, NEW x \in S, \A y \in S : x <= y
  PROVE  Min(S) = x
<1>1. \A z \in S : (\A y \in S : z <= y) => z = x
  OBVIOUS
<1> QED
  BY <1>1 DEF Min

LEMMA GreatestIs ==
  ASSUME NEW S \in SUBSET Int, NEW x \in S, \A y \in S : x >= y
  PROVE  Max(S) = x
<1>1. \A z \in S : (\A y \in S : z >= y) => z = x
  OBVIOUS
<1> QED
  BY <1>1 DEF Max

Labelled(t) == {r \in 1..PanelLast(MaxBalanceRows) : cell[<<"J", r>>] = Text(t)}

LEMMA Labels ==
  ASSUME IInv, made
  PROVE  /\ Min(Labelled("income")) = 4 /\ Min(Labelled("spend")) = 5 /\ Min(Labelled("total")) = 6
         /\ Max(Labelled("total")) = 10 + Len(accounts)
<1> DEFINE n == Len(accounts)
           last == PanelLast(MaxBalanceRows)
<1>1. n \in 1..MaxBalanceRows /\ last = 11 + MaxBalanceRows /\ last = PanelEnd /\ last \in Int /\ n \in Int
  BY BalancesShow, Sizes, Rows DEF PanelEnd
<1>0. n \in Int /\ last \in Int /\ n >= 1 /\ last >= 11 + n
  BY <1>1, Sizes
<1>2. /\ cell[<<"J", 1>>] = Blank /\ cell[<<"J", 2>>] = Text("title") /\ cell[<<"J", 3>>] = Text("header")
      /\ cell[<<"J", 4>>] = Text("income") /\ cell[<<"J", 5>>] = Text("spend")
      /\ cell[<<"J", 6>>] = Text("total")
  BY TopShows, SummaryShows
<1>3. /\ cell[<<"J", 10 + n>>] = Text("total") /\ cell[<<"J", 11 + n>>] = Text("reference")
      /\ \A r \in (12 + n)..last : cell[<<"J", r>>] = Blank
  BY <1>1, BalancesShow
<1>4. /\ Blank # Text("income") /\ Blank # Text("spend") /\ Blank # Text("total")
      /\ \A t, u : Text(t) = Text(u) => t = u
  BY TextsAndSums
<1>5. \A t : Labelled(t) \in SUBSET Int /\ \A r : r \in Labelled(t) <=> r \in 1..last /\ cell[<<"J", r>>] = Text(t)
  BY <1>1 DEF Labelled
<1> HIDE DEF n, last
<1>6. 4 \in Labelled("income") /\ \A r \in Labelled("income") : 4 <= r
  <2>1. 1 \notin Labelled("income") /\ 2 \notin Labelled("income") /\ 3 \notin Labelled("income")
    BY <1>2, <1>4, <1>5
  <2>2. \A r \in Labelled("income") : r \in 1..last /\ r \notin {1, 2, 3}
    BY <1>5, <2>1
  <2>3. 4 \in 1..last /\ \A r \in 1..last : r \notin {1, 2, 3} => 4 <= r
    BY <1>0
  <2> QED
    BY <1>2, <1>5, <2>2, <2>3
<1>7. 5 \in Labelled("spend") /\ \A r \in Labelled("spend") : 5 <= r
  <2>1. 1 \notin Labelled("spend") /\ 2 \notin Labelled("spend") /\ 3 \notin Labelled("spend")
        /\ 4 \notin Labelled("spend")
    BY <1>2, <1>4, <1>5
  <2>2. \A r \in Labelled("spend") : r \in 1..last /\ r \notin {1, 2, 3, 4}
    BY <1>5, <2>1
  <2>3. 5 \in 1..last /\ \A r \in 1..last : r \notin {1, 2, 3, 4} => 5 <= r
    BY <1>0
  <2> QED
    BY <1>2, <1>5, <2>2, <2>3
<1>8. 6 \in Labelled("total") /\ \A r \in Labelled("total") : 6 <= r
  <2>1. 1 \notin Labelled("total") /\ 2 \notin Labelled("total") /\ 3 \notin Labelled("total")
        /\ 4 \notin Labelled("total") /\ 5 \notin Labelled("total")
    BY <1>2, <1>4, <1>5
  <2>2. \A r \in Labelled("total") : r \in 1..last /\ r \notin {1, 2, 3, 4, 5}
    BY <1>5, <2>1
  <2>3. 6 \in 1..last /\ \A r \in 1..last : r \notin {1, 2, 3, 4, 5} => 6 <= r
    BY <1>0
  <2> QED
    BY <1>2, <1>5, <2>2, <2>3
<1>9. 10 + n \in Labelled("total") /\ \A r \in Labelled("total") : 10 + n >= r
  <2>1. 11 + n \notin Labelled("total") /\ \A r \in (12 + n)..last : r \notin Labelled("total")
    BY <1>3, <1>4, <1>5
  <2>2. \A r \in Labelled("total") : r \in 1..last /\ r # 11 + n /\ r \notin (12 + n)..last
    BY <1>5, <2>1
  <2>3. 10 + n \in 1..last /\ \A r \in 1..last : r # 11 + n /\ r \notin (12 + n)..last => 10 + n >= r
    BY <1>0
  <2> QED
    BY <1>3, <1>5, <2>2, <2>3
<1>10. Min(Labelled("income")) = 4
  BY <1>5, <1>6, LeastIs
<1>11. Min(Labelled("spend")) = 5
  BY <1>5, <1>7, LeastIs
<1>12. Min(Labelled("total")) = 6
  BY <1>5, <1>8, LeastIs
<1>13. Max(Labelled("total")) = 10 + n
  BY <1>1, <1>5, <1>9, GreatestIs
<1> QED
  BY <1>10, <1>11, <1>12, <1>13 DEF n

\* What SUM and SUMIF find in the expense block are the movements.
LEMMA HeldExpenses ==
  ASSUME IInv, made
  PROVE  LET block == Cells("BE", ExpenseFirst, ExpenseLast)
         IN  /\ IsFiniteSet(block) /\ \A p \in block : Held(p) \in Int
             /\ IsFiniteSet(DOMAIN movements) /\ \A i \in DOMAIN movements : movements[i].amount \in Int
             /\ \A i \in DOMAIN movements : /\ ExpenseCell(movements, i) \in block
                                            /\ Held(ExpenseCell(movements, i)) = movements[i].amount
             /\ \A i, j \in DOMAIN movements :
                  ExpenseCell(movements, i) = ExpenseCell(movements, j) => i = j
             /\ \A p \in block : (\A i \in DOMAIN movements : ExpenseCell(movements, i) # p) => Held(p) = 0
<1> DEFINE block == Cells("BE", ExpenseFirst, ExpenseLast)
           X == PlaceExpenses(movements)
<1>1. block = ExpenseRegion
  BY DEF ExpenseRegion
<1>2. IsFiniteSet(block)
  BY ColumnIsFinite, Rows, Sizes
<1>3. movements \in Seq(Movement) /\ DOMAIN movements = 1..Len(movements) /\ Len(movements) \in Nat
      /\ FitsBlock(movements)
  BY DEF IInv, FitsBlock
<1>4. \A i \in DOMAIN movements : movements[i].amount \in Int
  <2>1. \A i \in DOMAIN movements : movements[i] \in Movement
    BY <1>3
  <2> QED
    BY <2>1 DEF Movement
<1>5. IsFiniteSet(DOMAIN movements)
  BY <1>3, FS_Interval
<1>6. /\ \A i \in DOMAIN movements : /\ ExpenseCell(movements, i) \in ExpenseRegion
                                     /\ ExpenseCell(movements, i) \in Filled(X)
                                     /\ X[ExpenseCell(movements, i)] = Expense(movements[i], FALSE)
      /\ \A i, j \in DOMAIN movements : ExpenseCell(movements, i) = ExpenseCell(movements, j) => i = j
      /\ \A p \in Filled(X) : \E i \in DOMAIN movements : p = ExpenseCell(movements, i)
  BY <1>3, ExpensesPlaced
<1>7. \A p \in block : cell[p] = IF p \in Filled(X) THEN X[p] ELSE Blank
  BY <1>1, TabByRegion
<1> HIDE DEF block, X
<1>8. ASSUME NEW i \in DOMAIN movements PROVE Held(ExpenseCell(movements, i)) = movements[i].amount
  <2>1. cell[ExpenseCell(movements, i)] = Expense(movements[i], FALSE)
    BY <1>1, <1>6, <1>7
  <2> QED
    BY <2>1 DEF Held, Expense
<1>9. ASSUME NEW p \in block, \A i \in DOMAIN movements : ExpenseCell(movements, i) # p PROVE Held(p) = 0
  <2>1. cell[p] = Blank
    BY <1>6, <1>7, <1>9
  <2> QED
    BY <2>1 DEF Held, Blank
<1>10. \A p \in block : Held(p) \in Int
  <2> SUFFICES ASSUME NEW p \in block PROVE Held(p) \in Int
    OBVIOUS
  <2>1. CASE \A i \in DOMAIN movements : ExpenseCell(movements, i) # p
    BY <1>9, <2>1
  <2>2. CASE \E i \in DOMAIN movements : ExpenseCell(movements, i) = p
    BY <1>4, <1>8, <2>2
  <2> QED
    BY <2>1, <2>2
<1> QED
  BY <1>1, <1>2, <1>4, <1>5, <1>6, <1>8, <1>9, <1>10 DEF block

\* The cells a formula adds up, as a function.
HeldOver(cells) == [q \in cells |-> Held(q)]

LEMMA FormulaSums ==
  ASSUME NEW p, NEW what, NEW c, NEW x, NEW y, cell[p] = Sum(what, c, x, y)
  PROVE  /\ Summed(p) = SumOver(HeldOver(Cells(c, x, y)),
                                {q \in Cells(c, x, y) : Counts(what, HeldOver(Cells(c, x, y))[q])})
         /\ Shown(p) = Summed(p)
<1>1. cell[p].is = "sum" /\ cell[p].what = what /\ cell[p].over = Cells(c, x, y)
  BY TextsAndSums
<1>2. Shown(p) = Summed(p)
  BY <1>1 DEF Shown
<1> QED
  BY <1>1, <1>2, Zenon DEF Summed, HeldOver

\* The amounts handed over, and which of them are income.
AmountsOf(list) == [i \in DOMAIN list |-> list[i].amount]
IncomeOf(list)  == {i \in DOMAIN list : AmountsOf(list)[i] > 0}
SpendOf(list)   == DOMAIN list \ IncomeOf(list)

\* Column K beside "income" and "spend".
LEMMA MovementSums ==
  ASSUME IInv, made
  PROVE  /\ Shown(<<"K", 4>>) = SumOver(AmountsOf(movements), IncomeOf(movements))
         /\ Shown(<<"K", 5>>) = SumOver(AmountsOf(movements), SpendOf(movements))
         /\ Summed(<<"K", 4>>) = Shown(<<"K", 4>>) /\ Summed(<<"K", 5>>) = Shown(<<"K", 5>>)
<1> DEFINE block  == Cells("BE", ExpenseFirst, ExpenseLast)
           D      == DOMAIN movements
           held   == HeldOver(block)
           g      == AmountsOf(movements)
           b      == [i \in D |-> ExpenseCell(movements, i)]
           paidIn == {p \in block : Counts("income", held[p])}
           spent  == {p \in block : Counts("spend", held[p])}
           income == IncomeOf(movements)
           spend  == SpendOf(movements)
           below  == {i \in D : g[i] < 0}
<1>1. /\ IsFiniteSet(block) /\ IsFiniteSet(D)
      /\ \A p \in block : held[p] \in Int
      /\ \A i \in D : g[i] \in Int
      /\ \A i \in D : b[i] \in block /\ held[b[i]] = g[i]
      /\ \A i, j \in D : b[i] = b[j] => i = j
      /\ \A p \in block : (\A i \in D : b[i] # p) => held[p] = 0
  <2>1. \A p \in block : held[p] = Held(p)
    BY DEF HeldOver
  <2>2. \A i \in D : g[i] = movements[i].amount /\ b[i] = ExpenseCell(movements, i)
    BY DEF AmountsOf
  <2> HIDE DEF held, g, b
  <2> QED
    BY <2>1, <2>2, HeldExpenses
<1>2. \A n : (Counts("income", n) <=> n > 0) /\ (Counts("spend", n) <=> n < 0)
  BY DEF Counts
<1>3. /\ Shown(<<"K", 4>>) = SumOver(held, paidIn) /\ Summed(<<"K", 4>>) = Shown(<<"K", 4>>)
      /\ Shown(<<"K", 5>>) = SumOver(held, spent) /\ Summed(<<"K", 5>>) = Shown(<<"K", 5>>)
  <2>1. /\ cell[<<"K", 4>>] = Sum("income", "BE", ExpenseFirst, ExpenseLast)
        /\ cell[<<"K", 5>>] = Sum("spend", "BE", ExpenseFirst, ExpenseLast)
    BY SummaryShows
  <2>2. Summed(<<"K", 4>>) = SumOver(held, paidIn) /\ Shown(<<"K", 4>>) = Summed(<<"K", 4>>)
    BY <2>1, FormulaSums
  <2>3. Summed(<<"K", 5>>) = SumOver(held, spent) /\ Shown(<<"K", 5>>) = Summed(<<"K", 5>>)
    BY <2>1, FormulaSums
  <2> QED
    BY <2>2, <2>3
<1>4. /\ income = {i \in D : g[i] > 0} /\ spend = D \ income
  BY DEF IncomeOf, SpendOf
<1> HIDE DEF block, D, held, g, b, income, spend
<1>5. /\ IsFiniteSet(paidIn) /\ IsFiniteSet(spent) /\ IsFiniteSet(income) /\ IsFiniteSet(spend)
      /\ IsFiniteSet(below)
  <2>1. paidIn \in SUBSET block /\ spent \in SUBSET block
    OBVIOUS
  <2>2. income \in SUBSET D /\ spend \in SUBSET D /\ below \in SUBSET D
    BY <1>4
  <2> HIDE DEF paidIn, spent, below
  <2> QED
    BY <1>1, <2>1, <2>2, FS_Subset
<1>6. SumOver(g, income) = SumOver(held, paidIn)
  <2>1. Stands(b, g, income, held, paidIn)
    <3>1. \A i \in income : b[i] \in paidIn /\ held[b[i]] = g[i]
      BY <1>1, <1>2, <1>4
    <3>2. \A i, j \in income : b[i] = b[j] => i = j
      BY <1>1, <1>4
    <3>3. ASSUME NEW p \in paidIn, \A i \in income : b[i] # p PROVE held[p] = 0
      <4>1. \A i \in D : b[i] # p
        BY <1>1, <1>2, <1>4, <3>3
      <4> QED
        BY <1>1, <4>1
    <3> QED
      BY <3>1, <3>2, <3>3 DEF Stands
  <2>2. Ints(held, paidIn)
    BY <1>1 DEF Ints
  <2> HIDE DEF paidIn
  <2> QED
    BY <1>5, <2>1, <2>2, SameSum
<1>7. SumOver(g, below) = SumOver(held, spent)
  <2>1. Stands(b, g, below, held, spent)
    <3>1. \A i \in below : b[i] \in spent /\ held[b[i]] = g[i]
      BY <1>1, <1>2
    <3>2. \A i, j \in below : b[i] = b[j] => i = j
      BY <1>1
    <3>3. ASSUME NEW p \in spent, \A i \in below : b[i] # p PROVE held[p] = 0
      <4>1. \A i \in D : b[i] # p
        BY <1>1, <1>2, <3>3
      <4> QED
        BY <1>1, <4>1
    <3> QED
      BY <3>1, <3>2, <3>3 DEF Stands
  <2>2. Ints(held, spent)
    BY <1>1 DEF Ints
  <2> HIDE DEF spent, below
  <2> QED
    BY <1>5, <2>1, <2>2, SameSum
<1>8. SumOver(g, below) = SumOver(g, spend)
  <2> DEFINE same == [i \in below |-> i]
  <2>1. Stands(same, g, below, g, spend)
    <3>1. \A i \in below : same[i] \in spend /\ g[same[i]] = g[i]
      BY <1>1, <1>4
    <3>2. ASSUME NEW i \in spend, \A j \in below : same[j] # i PROVE g[i] = 0
      <4>1. i \notin below
        <5> SUFFICES ASSUME i \in below PROVE same[i] = i
          BY <3>2
        <5> QED
          OBVIOUS
      <4>2. g[i] \in Int /\ ~(g[i] > 0) /\ i \in D
        BY <1>1, <1>4
      <4> QED
        BY <4>1, <4>2
    <3> QED
      BY <3>1, <3>2 DEF Stands
  <2>2. Ints(g, spend)
    BY <1>1, <1>4 DEF Ints
  <2> HIDE DEF same, below
  <2> QED
    BY <1>5, <2>1, <2>2, SameSum
<1> QED
  BY <1>3, <1>6, <1>7, <1>8 DEF g, income, spend

\* ... and beside the first "total": all the movements.
LEMMA SummarySum ==
  ASSUME IInv, made
  PROVE  Shown(<<"K", 6>>) = SumOver(AmountsOf(movements), DOMAIN movements)
<1> DEFINE two    == {<<"K", 4>>, <<"K", 5>>}
           f      == [q \in two |-> Summed(q)]
           D      == DOMAIN movements
           g      == AmountsOf(movements)
           income == IncomeOf(movements)
           spend  == SpendOf(movements)
<1>1. Shown(<<"K", 6>>) = SumOver(f, two)
  <2>1. cell[<<"K", 6>>] = Plus(two)
    BY SummaryShows
  <2>2. cell[<<"K", 6>>].is = "plus" /\ cell[<<"K", 6>>].over = two
    BY <2>1, TextsAndSums
  <2> QED
    BY <2>2, Zenon DEF Shown
<1>2. f[<<"K", 4>>] = SumOver(g, income) /\ f[<<"K", 5>>] = SumOver(g, spend)
  BY MovementSums
<1>3. IsFiniteSet(D) /\ \A i \in D : g[i] \in Int
  <2>1. \A i \in D : g[i] = movements[i].amount
    BY DEF AmountsOf
  <2> QED
    BY <2>1, HeldExpenses
<1>4. income \in SUBSET D /\ spend \in SUBSET D /\ income \cap spend = {} /\ income \cup spend = D
  BY DEF IncomeOf, SpendOf
<1> HIDE DEF D, g, income, spend
<1>5. IsFiniteSet(income) /\ IsFiniteSet(spend)
  BY <1>3, <1>4, FS_Subset
<1>6. SumOver(g, D) = SumOver(g, income) + SumOver(g, spend)
  <2>1. Ints(g, income \cup spend)
    BY <1>3, <1>4 DEF Ints
  <2>2. SumOver(g, income \cup spend) = SumOver(g, income) + SumOver(g, spend)
    BY <1>4, <1>5, <2>1, SumOfParts
  <2> QED
    BY <1>4, <2>2
<1>7. SumOver(g, income) \in Int /\ SumOver(g, spend) \in Int
  <2>1. Ints(g, D)
    BY <1>3 DEF Ints
  <2>2. \A s \in SUBSET D : SumOver(g, s) \in Int
    BY <1>3, <2>1, SumByElement
  <2> QED
    BY <1>4, <2>2
<1>8. SumOver(f, two) = f[<<"K", 4>>] + f[<<"K", 5>>]
  <2>2. IsFiniteSet(two)
    <3>1. \A x : IsFiniteSet({x})
      BY FS_Singleton
    <3>2. two = {<<"K", 4>>} \cup {<<"K", 5>>}
      OBVIOUS
    <3> QED
      BY <3>1, <3>2, FS_AddElement
  <2>3. Ints(f, two)
    BY <1>2, <1>7 DEF Ints
  <2>4. two \in SUBSET two /\ {<<"K", 5>>} \in SUBSET two /\ two \ {<<"K", 4>>} = {<<"K", 5>>}
        /\ {<<"K", 5>>} \ {<<"K", 5>>} = {} /\ <<"K", 4>> \in two
    OBVIOUS
  <2> HIDE DEF two, f
  <2>5. /\ SumOver(f, {}) = 0
        /\ \A s \in SUBSET two : SumOver(f, s) \in Int
        /\ \A s \in SUBSET two : \A x \in s : SumOver(f, s) = f[x] + SumOver(f, s \ {x})
    BY <2>2, <2>3, SumByElement
  <2>6. SumOver(f, two) = f[<<"K", 4>>] + SumOver(f, {<<"K", 5>>})
    BY <2>4, <2>5
  <2>7. SumOver(f, {<<"K", 5>>}) = f[<<"K", 5>>] + SumOver(f, {})
    BY <2>4, <2>5
  <2>8. f[<<"K", 5>>] \in Int
    BY <1>2, <1>7
  <2> QED
    BY <2>5, <2>6, <2>7, <2>8
<1> QED
  BY <1>1, <1>2, <1>6, <1>8, Zenon DEF g, D

\* Column K beside the last "total": the balances reported and typed in.
LEMMA BalanceSum ==
  ASSUME IInv, made
  PROVE  LET known == Reported(accounts)
         IN  Shown(<<"K", 10 + Len(accounts)>>) = SumOver([i \in known |-> accounts[i].balance], known)
<1> DEFINE n     == Len(accounts)
           rows  == Cells("K", 10, 9 + n)
           held  == HeldOver(rows)
           known == Reported(accounts)
           g     == [i \in known |-> accounts[i].balance]
           b     == [i \in known |-> BalanceCell(i)]
           total == <<"K", 10 + n>>
<1>1. /\ n \in 1..MaxBalanceRows /\ DOMAIN accounts = 1..n /\ n \in Nat
      /\ cell[total] = Sum("all", "K", 10, 9 + n)
      /\ \A i \in Reported(accounts) : cell[BalanceCell(i)] = Number(accounts[i].balance)
      /\ \A i \in DOMAIN accounts \ Reported(accounts) : cell[BalanceCell(i)] = Blank
  BY BalancesShow, Sizes
<1>2. Shown(total) = SumOver(held, {q \in rows : Counts("all", held[q])})
  <2>1. cell[total] = Sum("all", "K", 10, 9 + n)
    BY <1>1
  <2> HIDE DEF total
  <2>2. /\ Summed(total) = SumOver(held, {q \in rows : Counts("all", held[q])})
        /\ Shown(total) = Summed(total)
    BY <2>1, FormulaSums
  <2> QED
    BY <2>2
<1>3. {q \in rows : Counts("all", held[q])} = rows
  BY DEF Counts
<1>4. \A i \in DOMAIN accounts : BalanceCell(i) = <<"K", 9 + i>> /\ BalanceCell(i) \in rows
  <2> SUFFICES ASSUME NEW i \in DOMAIN accounts
               PROVE  BalanceCell(i) = <<"K", 9 + i>> /\ BalanceCell(i) \in rows
    OBVIOUS
  <2>0. i \in 1..n /\ n \in Nat /\ BalanceFirst = 10
    BY <1>1, Rows
  <2>1. BalanceCell(i) = <<"K", 9 + i>> /\ 9 + i \in 10..(9 + n)
    <3> HIDE DEF n
    <3> QED
      BY <2>0 DEF BalanceCell
  <2> QED
    BY <2>1 DEF Cells
<1>5. \A p \in rows : \E i \in DOMAIN accounts : p = BalanceCell(i)
  <2> SUFFICES ASSUME NEW p \in rows PROVE \E i \in DOMAIN accounts : p = BalanceCell(i)
    OBVIOUS
  <2>1. PICK r \in 10..(9 + n) : p = <<"K", r>>
    BY DEF Cells
  <2>2. r - 9 \in DOMAIN accounts /\ 9 + (r - 9) = r
    BY <1>1
  <2> QED
    BY <1>4, <2>1, <2>2
<1>6. known \in SUBSET (1..n) /\ \A i \in known : accounts[i].balance \in Int
  <2>1. \A i \in DOMAIN accounts : accounts[i] \in Account
    BY DEF IInv, FitsPanel
  <2> QED
    BY <1>1, <2>1 DEF Reported, Account
<1>7. \A i \in known : Held(BalanceCell(i)) = accounts[i].balance
  BY <1>1, TextsAndSums DEF Held
<1>8. \A i \in DOMAIN accounts \ known : Held(BalanceCell(i)) = 0
  BY <1>1, TextsAndSums DEF Held
<1>9. \A p \in rows : held[p] = Held(p)
  BY DEF HeldOver
<1>10. IsFiniteSet(rows) /\ IsFiniteSet(known)
  <2>1. IsFiniteSet(1..n)
    BY <1>1, FS_Interval
  <2> QED
    BY <1>1, <1>6, <2>1, FS_Subset, ColumnIsFinite
<1> HIDE DEF n, rows, held, known
<1>11. Stands(b, g, known, held, rows)
  <2>1. \A i \in known : b[i] \in rows /\ held[b[i]] = g[i]
    BY <1>1, <1>4, <1>6, <1>7, <1>9
  <2>2. \A i, j \in known : b[i] = b[j] => i = j
    BY <1>1, <1>4, <1>6
  <2>3. ASSUME NEW p \in rows, \A i \in known : b[i] # p PROVE held[p] = 0
    <3>1. PICK i \in DOMAIN accounts : p = BalanceCell(i)
      BY <1>5
    <3>2. i \notin known
      BY <2>3, <3>1
    <3> QED
      BY <1>8, <1>9, <3>1, <3>2
  <2> QED
    BY <2>1, <2>2, <2>3 DEF Stands
<1>12. Ints(held, rows)
  <2> SUFFICES ASSUME NEW p \in rows PROVE held[p] \in Int
    BY DEF Ints
  <2>1. PICK i \in DOMAIN accounts : p = BalanceCell(i)
    BY <1>5
  <2>2. held[p] = Held(BalanceCell(i))
    BY <1>9, <2>1
  <2>3. CASE i \in known
    BY <1>6, <1>7, <2>2, <2>3
  <2>4. CASE i \notin known
    BY <1>8, <2>2, <2>4
  <2> QED
    BY <2>3, <2>4
<1> HIDE DEF g, b
<1>13. SumOver(g, known) = SumOver(held, rows)
  BY <1>10, <1>11, <1>12, SameSum
<1> QED
  BY <1>2, <1>3, <1>13, Zenon DEF g, known, n, total

\* Column H below the catalogue: what the account holder typed.
LEMMA SharedSum ==
  ASSUME IInv, made
  PROVE  Shown(<<"H", CategoryTotal>>) = SumOver(shared, {c \in 1..Categories : shared[c] # None})
<1> DEFINE rows  == Cells("H", 4, 3 + Categories)
           held  == HeldOver(rows)
           typed == {c \in 1..Categories : shared[c] # None}
           b     == [c \in typed |-> TypedCell(c)]
           total == <<"H", 4 + Categories>>
<1>1. /\ cell[total] = Sum("all", "H", 4, 3 + Categories) /\ total = <<"H", CategoryTotal>>
      /\ \A c \in 1..Categories : cell[TypedCell(c)] = IF shared[c] # None THEN Number(shared[c])
                                                       ELSE Blank
  BY TopShows, Rows
<1>2. Shown(total) = SumOver(held, {q \in rows : Counts("all", held[q])})
  <2> HIDE DEF total
  <2> QED
    BY <1>1, FormulaSums
<1>3. {q \in rows : Counts("all", held[q])} = rows
  BY DEF Counts
<1>4. \A c \in 1..Categories : TypedCell(c) = <<"H", 3 + c>> /\ TypedCell(c) \in rows
  BY Sizes, Rows, Within DEF TypedCell
<1>5. \A p \in rows : \E c \in 1..Categories : p = TypedCell(c)
  <2> SUFFICES ASSUME NEW p \in rows PROVE \E c \in 1..Categories : p = TypedCell(c)
    OBVIOUS
  <2>1. PICK r \in 4..(3 + Categories) : p = <<"H", r>>
    BY DEF Cells
  <2>2. r - 3 \in 1..Categories /\ 3 + (r - 3) = r
    BY Sizes
  <2> QED
    BY <1>4, <2>1, <2>2
<1>6. \A c \in typed : shared[c] \in Int
  BY TypedIsSomething DEF IInv
<1>7. \A c \in typed : Held(TypedCell(c)) = shared[c]
  BY <1>1, TextsAndSums DEF Held
<1>8. \A c \in (1..Categories) \ typed : Held(TypedCell(c)) = 0
  BY <1>1, TextsAndSums DEF Held
<1>9. \A p \in rows : held[p] = Held(p)
  BY DEF HeldOver
<1>10. IsFiniteSet(rows) /\ IsFiniteSet(typed)
  <2>1. IsFiniteSet(1..Categories)
    BY Sizes, FS_Interval
  <2>2. typed \in SUBSET (1..Categories)
    OBVIOUS
  <2>3. IsFiniteSet(rows)
    BY Sizes, ColumnIsFinite
  <2> HIDE DEF typed
  <2>4. IsFiniteSet(typed)
    BY <2>1, <2>2, FS_Subset
  <2> QED
    BY <2>3, <2>4
<1>t. typed \in SUBSET (1..Categories) /\ \A c \in 1..Categories : c \in Int
  BY Sizes
<1> HIDE DEF rows, held, typed
<1>11. Stands(b, shared, typed, held, rows)
  <2>1. \A c \in typed : b[c] \in rows /\ held[b[c]] = shared[c]
    BY <1>4, <1>7, <1>9, <1>t
  <2>2. \A c, d \in typed : b[c] = b[d] => c = d
    BY <1>4, <1>t
  <2>3. ASSUME NEW p \in rows, \A c \in typed : b[c] # p PROVE held[p] = 0
    <3>1. PICK c \in 1..Categories : p = TypedCell(c)
      BY <1>5
    <3>2. c \notin typed
      BY <2>3, <3>1
    <3> QED
      BY <1>8, <1>9, <3>1, <3>2
  <2> QED
    BY <2>1, <2>2, <2>3 DEF Stands
<1>12. Ints(held, rows)
  <2> SUFFICES ASSUME NEW p \in rows PROVE held[p] \in Int
    BY DEF Ints
  <2>1. PICK c \in 1..Categories : p = TypedCell(c)
    BY <1>5
  <2> QED
    BY <1>6, <1>7, <1>8, <1>9, <2>1
<1> HIDE DEF b
<1>13. SumOver(shared, typed) = SumOver(held, rows)
  BY <1>10, <1>11, <1>12, SameSum
<1> QED
  BY <1>1, <1>2, <1>3, <1>13, Zenon DEF typed, total

LEMMA IInvSums == IInv => SumsTellTheData
<1> SUFFICES ASSUME IInv, made PROVE SumsTellTheData
  BY DEF SumsTellTheData
<1>1. /\ Shown(<<"K", Min(Labelled("income"))>>) = SumOver(AmountsOf(movements), IncomeOf(movements))
      /\ Shown(<<"K", Min(Labelled("spend"))>>) = SumOver(AmountsOf(movements), SpendOf(movements))
      /\ Shown(<<"K", Min(Labelled("total"))>>) = SumOver(AmountsOf(movements), DOMAIN movements)
      /\ Shown(<<"K", Max(Labelled("total"))>>)
           = SumOver([i \in Reported(accounts) |-> accounts[i].balance], Reported(accounts))
  BY Labels, MovementSums, SummarySum, BalanceSum
<1>2. Shown(<<"H", CategoryTotal>>) = SumOver(shared, {c \in 1..Categories : shared[c] # None})
  BY SharedSum
<1> QED
  BY <1>1, <1>2, Zenon DEF SumsTellTheData, Labelled, AmountsOf, IncomeOf, SpendOf, Reported
-----------------------------------------------------------------------------
\* The tab is at every moment the sheet of the last data written to it, with
\* what was typed on it: neither a write nor the account holder leaves a cell,
\* or a format, of an earlier write behind.
THEOREM InductiveInvariant == Spec => []IInv
<1>1. Init => IInv
  BY InitIInv
<1>2. IInv /\ [Next]_vars => IInv'
  BY NextIInv
<1> QED
  BY <1>1, <1>2, PTL DEF Spec

\* Every write stays within the cells the geometry reserves for the tab, for
\* any catalogue and any number of movements and accounts that fits.
THEOREM TypeCorrect == Spec => []TypeOK
<1>1. IInv => TypeOK
  BY IInvTypes
<1> QED
  BY <1>1, InductiveInvariant, PTL

\* However often write_month_layout refreshed the tab, with more or fewer
\* movements and accounts than before, it is as one created from the latest
\* data: cells, formulas and formats.
THEOREM RefreshesAreCreations == Spec => []RefreshIsAsCreated
<1>1. IInv => RefreshIsAsCreated
  BY IInvCreated
<1> QED
  BY <1>1, InductiveInvariant, PTL

\* Every total a reader finds in the tab is that of the data last written and
\* typed: for lists of any length that fits, whatever the catalogue, whatever
\* order the movements were handed over in, and whatever the banks are called.
THEOREM SumsAreTrue == Spec => []SumsTellTheData
<1>1. IInv => SumsTellTheData
  BY IInvSums
<1> QED
  BY <1>1, InductiveInvariant, PTL
=============================================================================
