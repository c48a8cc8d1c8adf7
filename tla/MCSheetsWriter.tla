--------------------------- MODULE MCSheetsWriter ---------------------------
(* A small instance of SheetsWriter: two month tabs, three rows, batches that *)
(* shrink, grow, overlap and vanish from one write to the next.               *)
EXTENDS SheetsWriter

CONSTANTS r1, r2, r3

MCBatch  == {{}, {r1}, {r2, r3}, {r1, r2, r3}}
MCStatus == {403, 429, 500}
=============================================================================
