------------------------------ MODULE MCService ------------------------------
(* Instances of Service for TLC. *)
EXTENDS Service

\* The server of node 1 may stop answering; the others answer.
MCHung == {1}
==============================================================================
