------------------------------- MODULE Batches -------------------------------
(***************************************************************************)
(* What the batches of `chef-load generate' promise to the servers under   *)
(* load, without goroutines, channels or slices: the nodes run round after *)
(* round in the same order and in batches, a batch begins when nothing is  *)
(* left of the one before, and with historical data nothing begins between *)
(* a rejected run and the pause.                                           *)
(***************************************************************************)
EXTENDS Integers

VARIABLES
  config,   \* NumNodes, Threads, DaysBack, DataCollector
  ran,      \* how often each node has been run
  busy,     \* the nodes with a run that is not accounted for
  rejected  \* a run was rejected and there was no pause since

batchVars == <<config, ran, busy, rejected>>

BatchInit ==
  /\ ran = [n \in 0 .. config.NumNodes - 1 |-> 0]
  /\ busy = {}
  /\ rejected = FALSE

BatchOf(n) == n \div config.Threads

\* All nodes before n have run in this round, and none after it.
Turn(n) == \A m \in DOMAIN ran : ran[m] = IF m < n THEN ran[n] + 1 ELSE ran[n]

Launch(n) ==
  /\ Turn(n)
  /\ \A m \in busy : m < n /\ BatchOf(m) = BatchOf(n)
  /\ config.DaysBack > 0 => ~rejected
  /\ ran' = [ran EXCEPT ![n] = @ + 1]
  /\ busy' = busy \cup {n}
  /\ UNCHANGED <<config, rejected>>

\* Without a data collector nothing is accepted.
Account(n, accepted) ==
  /\ busy' = busy \ {n}
  /\ rejected' = (rejected \/ ~accepted)
  /\ accepted => config.DataCollector
  /\ UNCHANGED <<config, ran>>

Pause ==
  /\ busy = {}
  /\ rejected /\ config.DaysBack > 0
  /\ rejected' = FALSE
  /\ UNCHANGED <<config, ran, busy>>

BatchNext ==
  \/ \E n \in DOMAIN ran : Launch(n)
  \/ \E n \in busy, accepted \in BOOLEAN : Account(n, accepted)
  \/ Pause

BatchSpec == BatchInit /\ [][BatchNext]_batchVars
==============================================================================
