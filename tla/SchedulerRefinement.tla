-------------------------- MODULE SchedulerRefinement --------------------------
(***************************************************************************)
(* The scheduling loop implements the fleet of Fleet, for every number of  *)
(* nodes, every replacement rate and any number of node names.             *)
(***************************************************************************)
EXTENDS SchedulerProofs

\* The refinement mapping: the nodes that are simulated, and the runs.
NameOf(n) == nodes[n].NodeName
Names == {NameOf(n) : n \in Seeded}
RunOf(r) == [node |-> r.NodeName, first |-> r.FirstRun]
Runs == {RunOf(r) : r \in running}

-----------------------------------------------------------------------------
(* The fleet *)

\* The instance of Fleet has the cardinalities of this module.
LEMMA SameCardinality ==
  ASSUME NEW S
  PROVE  Abstract!Cardinality(S) = Cardinality(S)
BY DEF Abstract!Cardinality, Cardinality

\* There are never more names in the fleet than slots have been seeded.
LEMMA FleetIsSmall ==
  ASSUME IInv, pc = "seed"
  PROVE  IsFiniteSet(Names) /\ Cardinality(Names) <= nodeNameIdx
<1>1. nodeNameIdx \in Nat
  BY DEF IInv, TypeOK
<1>2. Names \subseteq 0 .. nodeNameIdx - 1
  BY DEF IInv, DistinctNodes, Names, NameOf
<1>3. IsFiniteSet(0 .. nodeNameIdx - 1)
      /\ Cardinality(0 .. nodeNameIdx - 1) = nodeNameIdx
  BY <1>1, FS_Interval
<1> QED
  BY <1>2, <1>3, FS_Subset

\* The node of a slot with a token in the channel has no run in progress.
LEMMA FreeSlotIsIdle ==
  ASSUME IInv, pc # "seed", NEW n \in Slots, HasToken(n)
  PROVE  NameOf(n) \in Names \ {run.node : run \in Runs}
<1>1. Seeded = Slots
  BY DEF Seeded
<1>2. ASSUME NEW r \in running
      PROVE  r.NodeName # NameOf(n)
  <2>1. r.slot \in Slots /\ nodes[r.slot].NodeName = r.NodeName
    BY <1>1 DEF IInv, OnlySeeded, OnlyCurrentNodesRun
  <2>2. r.slot # n
    BY DEF IInv, SlotConservation, IsRunning
  <2> QED
    BY <1>1, <2>1, <2>2 DEF IInv, DistinctNodes, NameOf
<1> QED
  BY <1>1, <1>2 DEF Names, Runs, RunOf

\* The slot at the head of the channel has a token, and its node is idle.
LEMMA HeadIsIdle ==
  ASSUME IInv, pc = "select", ccrCompletion # <<>>
  PROVE  /\ Head(ccrCompletion) \in Slots
         /\ NameOf(Head(ccrCompletion)) \in Names \ {run.node : run \in Runs}
<1>1. /\ Head(ccrCompletion) \in Slots
      /\ Head(ccrCompletion) = ccrCompletion[1]
      /\ 1 \in 1 .. Len(ccrCompletion)
  <2>1. ccrCompletion \in Seq(Slots)
    BY DEF IInv, TypeOK
  <2>2. Len(ccrCompletion) \in Nat \ {0}
    BY <2>1, EmptySeq
  <2> QED
    BY <2>1, <2>2, HeadTailProperties
<1>2. HasToken(Head(ccrCompletion))
  BY <1>1 DEF HasToken
<1> QED
  BY <1>1, <1>2, FreeSlotIsIdle

-----------------------------------------------------------------------------
(* The steps *)

\* The loop that seeds the channel enlists a node.
LEMMA SeedEnlists == IInv /\ Seed => Abstract!Enlist
<1> SUFFICES ASSUME IInv, Seed PROVE Abstract!Enlist
  OBVIOUS
<1>0. PICK k : k = nodeNameIdx
  OBVIOUS
<1>1. k \in Slots /\ k \in Nat /\ nodeNameIdx = k /\ k < NumNodes /\ pc = "seed"
  BY <1>0, SchedulerAssumption DEF IInv, TypeOK, Seed, Slots
<1>2. Seeded = 0 .. k - 1 /\ Seeded' = 0 .. k
  BY <1>1 DEF Seed, Seeded
<1>3. /\ \A n \in Seeded : nodes'[n] = nodes[n]
      /\ nodes'[k].NodeName = k
  BY <1>1, <1>2 DEF IInv, TypeOK, Seed, NewRunner
<1>4. Cardinality(Names) < NumNodes
  BY <1>1, FleetIsSmall, SchedulerAssumption, FS_CardinalityType
<1>5. Names' = Names \cup {k}
  <2>1. \A n \in Seeded' : n = k \/ n \in Seeded
    BY <1>1, <1>2
  <2>2. k \in Seeded' /\ Seeded \subseteq Seeded'
    BY <1>1, <1>2
  <2> QED
    BY <1>3, <2>1, <2>2 DEF Names, NameOf
<1>6. Runs' = Runs /\ launched' = launched /\ nodeNameIdx' = k + 1
  BY <1>1 DEF Seed, Runs, RunOf
<1> QED
  BY <1>1, <1>4, <1>5, <1>6, SameCardinality DEF Abstract!Enlist, Names, NameOf, Runs, RunOf

\* Steps that leave slots, runs and names alone are invisible.
LEMMA QuietIsStutter ==
  ASSUME Seeded' = Seeded, UNCHANGED <<nodes, running, launched, nodeNameIdx>>
  PROVE  UNCHANGED Abstract!fleetVars
BY DEF Abstract!fleetVars

\* What a launch of `runner' in the slot at the head does to the fleet.
LEMMA LaunchChangesFleet ==
  ASSUME IInv, pc = "select", ccrCompletion # <<>>,
         NEW runner \in Runner, StartRun(Head(ccrCompletion), runner),
         runner.FirstRun <=> runner.NodeName \notin launched
  PROVE  /\ Names' = (Names \ {NameOf(Head(ccrCompletion))}) \cup {runner.NodeName}
         /\ Runs' = Runs \cup {[node |-> runner.NodeName,
                                first |-> runner.NodeName \notin launched]}
         /\ launched' = launched \cup {runner.NodeName}
<1>0. PICK n : n = Head(ccrCompletion)
  OBVIOUS
<1>1. n \in Slots /\ Seeded = Slots /\ Seeded' = Slots
  BY <1>0, HeadIsIdle DEF Seeded, StartRun
<1>2. /\ nodes'[n].NodeName = runner.NodeName
      /\ \A m \in Slots : m # n => nodes'[m] = nodes[m]
  <2>1. nodes' = [nodes EXCEPT ![n] = [runner EXCEPT !.FirstRun = FALSE]]
    BY <1>0 DEF StartRun
  <2>2. [runner EXCEPT !.FirstRun = FALSE].NodeName = runner.NodeName
    BY DEF Runner
  <2> QED
    BY <1>1, <2>1, <2>2 DEF IInv, TypeOK
<1>3. Names' = (Names \ {NameOf(n)}) \cup {runner.NodeName}
  <2>1. \A m \in Slots : m # n => NameOf(m) # NameOf(n)
    BY <1>1 DEF IInv, DistinctNodes, NameOf
  <2>2. Names' = {nodes'[m].NodeName : m \in Slots}
    BY <1>1 DEF Names, NameOf
  <2>3. Names = {nodes[m].NodeName : m \in Slots}
    BY <1>1 DEF Names, NameOf
  <2> QED
    BY <1>1, <1>2, <2>1, <2>2, <2>3 DEF NameOf
<1>4. Runs' = Runs \cup {[node |-> runner.NodeName,
                          first |-> runner.NodeName \notin launched]}
  <2>1. running' = running \cup {[slot |-> n, NodeName |-> runner.NodeName,
                                  FirstRun |-> runner.FirstRun]}
    BY <1>0 DEF StartRun
  <2>2. runner.FirstRun = (runner.NodeName \notin launched)
    <3>1. runner.FirstRun \in BOOLEAN
      BY DEF Runner
    <3> QED
      BY <3>1, Zenon
  <2> DEFINE r == [slot |-> n, NodeName |-> runner.NodeName, FirstRun |-> runner.FirstRun]
  <2>3. RunOf(r) = [node |-> runner.NodeName, first |-> runner.NodeName \notin launched]
    BY <2>2, Zenon DEF RunOf
  <2>4. Runs' = {RunOf(q) : q \in running'}
    BY DEF Runs, RunOf
  <2> HIDE DEF r
  <2>5. running' = running \cup {r}
    BY <2>1 DEF r
  <2>6. {RunOf(q) : q \in running'} = {RunOf(q) : q \in running} \cup {RunOf(r)}
    BY <2>5, Zenon
  <2> QED
    BY <2>3, <2>4, <2>6, Zenon DEF Runs
<1>5. launched' = launched \cup {runner.NodeName}
  BY DEF StartRun
<1> QED
  BY <1>0, <1>3, <1>4, <1>5

\* A launch that keeps the node of the slot.
LEMMA RelaunchLaunches ==
  ASSUME IInv, Relaunch
  PROVE  \E k \in Names : Abstract!Launch(k)
<1>0. PICK n : n = Head(ccrCompletion)
  OBVIOUS
<1>1. /\ n \in Slots /\ NameOf(n) \in Names \ {run.node : run \in Runs}
      /\ pc = "select" /\ ccrCompletion # <<>> /\ Seeded = Slots
  BY <1>0, HeadIsIdle DEF Relaunch, Seeded
<1>2. nodes[n] \in Runner /\ StartRun(Head(ccrCompletion), nodes[n])
  BY <1>0, <1>1 DEF IInv, TypeOK, Relaunch
<1>3. nodes[n].FirstRun <=> nodes[n].NodeName \notin launched
  BY <1>1 DEF IInv, FirstRunFlag
<1>4. /\ Names' = (Names \ {NameOf(n)}) \cup {NameOf(n)}
      /\ Runs' = Runs \cup {[node |-> NameOf(n), first |-> NameOf(n) \notin launched]}
      /\ launched' = launched \cup {NameOf(n)}
  BY <1>0, <1>1, <1>2, <1>3, LaunchChangesFleet DEF NameOf
<1>5. Names' = Names /\ nodeNameIdx' = nodeNameIdx
  BY <1>1, <1>4 DEF Relaunch
<1>6. PICK k : k = NameOf(n)
  OBVIOUS
<1>7. Abstract!Launch(k)
  BY <1>1, <1>4, <1>5, <1>6 DEF Abstract!Launch, Abstract!Idle, Abstract!Begin,
                          Names, NameOf, Runs, RunOf
<1> QED
  BY <1>1, <1>6, <1>7

\* A launch with a new node supersedes the one of the slot.
LEMMA ReplaceSupersedes ==
  ASSUME IInv, Replace
  PROVE  \E k \in Names : Abstract!Supersede(k)
<1>0. PICK n : n = Head(ccrCompletion)
  OBVIOUS
<1>1. /\ n \in Slots /\ NameOf(n) \in Names \ {run.node : run \in Runs}
      /\ pc = "select" /\ ccrCompletion # <<>>
  BY <1>0, HeadIsIdle DEF Replace
<1>2. PICK runner : runner = NewRunner(nodeNameIdx)
  OBVIOUS
<1>3. /\ runner \in Runner /\ runner.NodeName = nodeNameIdx /\ runner.FirstRun
      /\ nodeNameIdx \notin launched
  BY <1>2 DEF IInv, TypeOK, FirstRunFlag, NewRunner, Runner
<1>4. StartRun(Head(ccrCompletion), runner) /\ nodeNameIdx' = nodeNameIdx + 1
  BY <1>2 DEF Replace
<1>5. /\ Names' = (Names \ {NameOf(n)}) \cup {nodeNameIdx}
      /\ Runs' = Runs \cup {[node |-> nodeNameIdx,
                             first |-> nodeNameIdx \notin launched]}
      /\ launched' = launched \cup {nodeNameIdx}
  BY <1>0, <1>1, <1>3, <1>4, LaunchChangesFleet
<1>6. PICK k : k = NameOf(n)
  OBVIOUS
<1>7. Abstract!Supersede(k)
  BY <1>1, <1>4, <1>5, <1>6 DEF Abstract!Supersede, Abstract!Idle, Abstract!Begin,
                          Names, NameOf, Runs, RunOf
<1> QED
  BY <1>1, <1>6, <1>7

\* The closer of a CCR ends its run, and no other: the runs of two CCRs differ.
LEMMA FinishEnds ==
  ASSUME IInv, NEW r \in running, Finish(r)
  PROVE  \E run \in Runs : Abstract!End(run)
<1>1. Seeded' = Seeded /\ UNCHANGED <<nodes, launched, nodeNameIdx>>
  BY DEF Finish, Seeded
<1>2. \A q \in running : q.NodeName = r.NodeName => q = r
  <2> SUFFICES ASSUME NEW q \in running, q.NodeName = r.NodeName
               PROVE  q = r
    OBVIOUS
  <2>1. r.slot \in Seeded /\ q.slot \in Seeded
    BY DEF IInv, OnlySeeded
  <2>2. nodes[r.slot].NodeName = nodes[q.slot].NodeName
    BY DEF IInv, OnlyCurrentNodesRun
  <2> QED
    BY <2>1, <2>2 DEF IInv, DistinctNodes, SlotConservation
<1>3. \A q \in running : RunOf(q) = RunOf(r) => q = r
  BY <1>2 DEF RunOf
<1>4. running' = running \ {r}
  BY DEF Finish
<1>5. Runs' = Runs \ {RunOf(r)} /\ RunOf(r) \in Runs
  <2>1. Runs' = {RunOf(q) : q \in running'}
    BY DEF Runs, RunOf
  <2> QED
    BY <1>3, <1>4, <2>1, Zenon DEF Runs
<1>6. Names' = Names
  BY <1>1 DEF Names, NameOf
<1>7. Abstract!End(RunOf(r))
  BY <1>1, <1>5, <1>6 DEF Abstract!End, Names, NameOf, Runs, RunOf
<1> QED
  BY <1>5, <1>7

\* Every step of the loop or of a closer is a step of the fleet or invisible.
LEMMA NextIsFleetNext ==
  IInv /\ [Next]_vars => [Abstract!FleetNext]_(Abstract!fleetVars)
<1> SUFFICES ASSUME IInv, [Next]_vars
             PROVE  Abstract!FleetNext \/ UNCHANGED Abstract!fleetVars
  OBVIOUS
<1> USE DEF Abstract!FleetNext
<1>1. CASE Seed
  BY <1>1, SeedEnlists
<1>2. CASE EndSeed
  BY <1>2, QuietIsStutter DEF EndSeed, Seeded, Slots
<1>3. CASE Pace
  BY <1>3, QuietIsStutter DEF Pace, Seeded
<1>4. CASE Relaunch
  BY <1>4, RelaunchLaunches DEF Names, NameOf
<1>5. CASE Replace
  BY <1>5, ReplaceSupersedes DEF Names, NameOf
<1>6. CASE TimeOut
  BY <1>6, QuietIsStutter DEF TimeOut, Seeded
<1>7. CASE \E r \in running : Finish(r)
  BY <1>7, FinishEnds DEF Runs, RunOf
<1>8. CASE UNCHANGED vars
  BY <1>8, QuietIsStutter DEF vars, Seeded
<1> QED
  BY <1>1, <1>2, <1>3, <1>4, <1>5, <1>6, <1>7, <1>8 DEF Next, Main, Receive

-----------------------------------------------------------------------------
(* Theorems *)

\* Slots, the channel and the pacing implement the fleet: the servers see at
\* most NumNodes nodes, each with one run at a time and one first run.
THEOREM LoopImplementsFleet == Spec => ImplementsFleet
<1>1. Init => Abstract!FleetInit
  <2> SUFFICES ASSUME Init PROVE Abstract!FleetInit
    OBVIOUS
  <2>1. Seeded = {} /\ running = {}
    BY DEF Init, Seeded
  <2> QED
    BY <2>1 DEF Init, Abstract!FleetInit
<1> QED
  BY <1>1, NextIsFleetNext, Invariance, PTL DEF Spec, ImplementsFleet, Abstract!FleetSpec

\* A step gives a slot the name it has, or one that has never been launched.
LEMMA NamesAreKeptOrNew ==
  ASSUME IInv, [Next]_vars, NEW n \in Slots
  PROVE  NameOf(n)' = NameOf(n) \/ NameOf(n)' \notin launched
<1>0. nodes \in [Slots -> Runner] /\ nodeNameIdx \notin launched
  BY DEF IInv, TypeOK, FirstRunFlag
<1>1. CASE Seed
  BY <1>0, <1>1 DEF Seed, NewRunner, NameOf
<1>2. CASE Receive
  <2>1. PICK h \in Slots : h = Head(ccrCompletion)
    BY <1>2, HeadIsIdle DEF Receive, Relaunch, Replace
  <2>2. PICK runner \in Runner : /\ nodes' = [nodes EXCEPT ![h] = [runner EXCEPT !.FirstRun = FALSE]]
                                 /\ runner.NodeName \in {NameOf(h), nodeNameIdx}
    <3>1. CASE Relaunch
      BY <1>0, <2>1, <3>1 DEF Relaunch, StartRun, NameOf
    <3>2. CASE Replace
      <4>1. NewRunner(nodeNameIdx) \in Runner /\ NewRunner(nodeNameIdx).NodeName = nodeNameIdx
        BY DEF IInv, TypeOK, NewRunner, Runner
      <4> QED
        BY <2>1, <3>2, <4>1 DEF Replace, StartRun
    <3> QED
      BY <1>2, <3>1, <3>2 DEF Receive
  <2>3. [runner EXCEPT !.FirstRun = FALSE].NodeName = runner.NodeName
    BY DEF Runner
  <2>4. CASE n = h
    BY <1>0, <2>2, <2>3, <2>4 DEF NameOf
  <2>5. CASE n # h
    BY <1>0, <2>2, <2>5 DEF NameOf
  <2> QED
    BY <2>4, <2>5
<1>3. CASE ~Seed /\ ~Receive
  BY <1>3 DEF Next, Main, EndSeed, Pace, TimeOut, Finish, vars, NameOf
<1> QED
  BY <1>1, <1>2, <1>3

\* A node that has run and lost its slot never gets one again.
THEOREM RetiredNodesStayRetired == Spec => RetiredForGood
<1>1. IInv /\ [Next]_vars =>
        [\A k \in launched : (\A n \in Slots : nodes[n].NodeName # k)
           => \A n \in Slots : nodes'[n].NodeName # k]_vars
  BY NamesAreKeptOrNew DEF NameOf
<1> QED
  BY <1>1, Invariance, PTL DEF Spec, RetiredForGood
================================================================================
