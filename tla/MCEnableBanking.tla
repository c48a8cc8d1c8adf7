--------------------------- MODULE MCEnableBanking ---------------------------
(* A small instance of EnableBanking: two records with the same date, amount  *)
(* and description (e1, e2), one out of range (e3), one that does not parse   *)
(* (e4), one with a null (n1); every list of up to three balance records.     *)
EXTENDS EnableBanking

CONSTANTS e1, e2, e3, e4, n1, k1, k2

MCKeyOf == [e \in Entry |-> IF e \in {e1, e2} THEN k1 ELSE k2]
MCForm  == [e \in Entry |-> IF e = e4 THEN "malformed" ELSE IF e = n1 THEN "null" ELSE "good"]
MCInRange == Entry \ {e3}
MCCode  == {403, 422, 429, 500}

MCPreference == <<"CLBD", "ITBD">>
MCRecords    == [type : {"CLBD", "ITBD", "none"}, usable : BOOLEAN]
MCPayloads   == UNION {[1..n -> MCRecords] : n \in 0..3}
=============================================================================
