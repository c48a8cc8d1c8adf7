------------------------------ MODULE MCMonthGrid ------------------------------
(* A small instance of MonthGrid: lists of up to three movements, two of them  *)
(* with the same date, bank and description, for a block of two rows; one or   *)
(* two accounts where the panel reserves two rows; two categories.             *)
EXTENDS MonthGrid

a == [key |-> 1, amount |-> 40]
b == [key |-> 1, amount |-> -3]
c == [key |-> 2, amount |-> -5]

MCMovements == {<<>>, <<a>>, <<b>>, <<c>>, <<a, b>>, <<b, a>>, <<c, a>>, <<c, b>>, <<b, c>>,
                <<a, b, c>>}

Account(bank, balance, on) == [bank |-> bank, balance |-> balance, on |-> on]

First  == {Account("first", None, None), Account("first", 200, None), Account("first", 300, 2)}
Second == {Account("second", None, None), Account("second", 700, 1)}

MCAccounts == {<<x>> : x \in First} \cup {<<x, y>> : x \in First, y \in Second}
=============================================================================
