----------------------------- MODULE MCScheduler -----------------------------
(* A small instance of Scheduler: two movements, so that one run may know of   *)
(* one and the other of both.                                                  *)
EXTENDS Scheduler

MCStatus == {403, 500}
=============================================================================
