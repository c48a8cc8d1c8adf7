--------------------------- MODULE MCLayoutWriter ---------------------------
(* A small instance of LayoutWriter: one month tab, a ceiling of two rows and  *)
(* a batch above it, two banks whose balances come and go, one category, and   *)
(* the eight merge and format requests of a real creation.                     *)
EXTENDS LayoutWriter

CONSTANTS r1, r2, r3, b1, b2, v1, v2

MCBatch  == {{}, {r1}, {r2, r3}, {r1, r2, r3}}
MCPanel  == {[b \in {b1, b2} |-> IF b = b1 THEN v1 ELSE NoBalance],
             [b \in {b1, b2} |-> IF b = b1 THEN v2 ELSE v1],
             [b \in {b1, b2} |-> NoBalance]}
MCStatus == {403, 500}
MCDress  == <<"merge B2:E2", "merge G2:H2", "merge J2:K2", "format B2:K2",
              "format B3:K3", "format E4:E403", "format H4:H53", "format K4:K19">>
=============================================================================
