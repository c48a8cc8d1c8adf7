----------------------------- MODULE MCCommands -----------------------------
(* A small instance of Commands: two banks with one movement each, in two     *)
(* consecutive months.  A refusal with status 500 may or may not have taken   *)
(* effect, so it stands for the others.                                       *)
EXTENDS Commands

CONSTANTS b1, b2, m1, m2, v1

MCOrder == <<b1, b2>>
MCBankOf == [m \in Movement |-> IF m = m2 THEN b2 ELSE b1]
MCMonthOf == [m \in Movement |-> IF m = m2 THEN 2 ELSE 1]
MCStatus == {500}
MCDress == <<"format K4:K19">>
=============================================================================
