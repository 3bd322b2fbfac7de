----------------------------- MODULE MCScheduler -----------------------------
(* Instances of Scheduler for TLC. *)
EXTENDS Scheduler

\* The server of node 1 may stop answering; the others answer.
MCHung == {1}
==============================================================================
