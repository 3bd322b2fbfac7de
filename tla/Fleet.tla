-------------------------------- MODULE Fleet --------------------------------
(***************************************************************************)
(* What `chef-load start' promises to the servers under load, without      *)
(* slots, channels, timeouts or pacing: a fleet of at most FleetSize       *)
(* simulated Chef nodes, each with at most one chef-client run at a time.  *)
(* A node that leaves the fleet is replaced by one the servers have never  *)
(* heard of, and only the first run of a node is a first run.              *)
(***************************************************************************)
EXTENDS Naturals, FiniteSets

CONSTANT FleetSize

VARIABLES
  fleet,  \* the nodes that are simulated now
  busy,   \* the runs in progress: the node, and whether it is its first run
  met,    \* the nodes that have run
  named   \* how many node names have been given out: 0 .. named-1

fleetVars == <<fleet, busy, met, named>>

FleetInit ==
  /\ fleet = {}
  /\ busy = {}
  /\ met = {}
  /\ named = 0

Enlist ==
  /\ Cardinality(fleet) < FleetSize
  /\ fleet' = fleet \cup {named}
  /\ named' = named + 1
  /\ UNCHANGED <<busy, met>>

Idle == fleet \ {run.node : run \in busy}

\* Node k starts a run.
Begin(k) ==
  /\ busy' = busy \cup {[node |-> k, first |-> k \notin met]}
  /\ met' = met \cup {k}

Launch(k) ==
  /\ k \in Idle
  /\ Begin(k)
  /\ UNCHANGED <<fleet, named>>

\* A new node takes the place of node k and starts its first run.
Supersede(k) ==
  /\ k \in Idle
  /\ fleet' = (fleet \ {k}) \cup {named}
  /\ named' = named + 1
  /\ Begin(named)

End(run) ==
  /\ run \in busy
  /\ busy' = busy \ {run}
  /\ UNCHANGED <<fleet, met, named>>

FleetNext ==
  \/ Enlist
  \/ \E k \in fleet : Launch(k) \/ Supersede(k)
  \/ \E run \in busy : End(run)

FleetSpec == FleetInit /\ [][FleetNext]_fleetVars
==============================================================================
