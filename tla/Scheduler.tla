------------------------------ MODULE Scheduler ------------------------------
(***************************************************************************)
(* The scheduling loop of `chef-load start' (lib/service.go, Start).       *)
(*                                                                         *)
(* Start keeps NumNodes runners.  Runner n is a slot that impersonates one *)
(* Chef node at a time.  The buffered channel ccrCompletion carries the    *)
(* numbers of the slots that are free: the loop receives a number, perhaps *)
(* gives the slot a new node, and starts ChefClientRun in a goroutine,     *)
(* whose deferred closer sends the number back.  Here a chef-client run    *)
(* (CCR) is one element of `running' from its go statement to the send in  *)
(* its closer; what happens in between is the subject of ChefClientRun.    *)
(***************************************************************************)
EXTENDS Integers, Sequences, FiniteSets

CONSTANTS
  NumNodes,           \* config.NumNodes
  ReplacementRate,    \* config.NodeReplacementRate: 0, 1 or in between
  SkipClientCreation, \* config.SkipClientCreation
  Hung,               \* slots whose server may never answer again
  MaxNames            \* bound of the model: how many node names are used

Slots == 0 .. NumNodes - 1

ASSUME SchedulerAssumption ==
  /\ NumNodes \in Nat
  /\ MaxNames \in Nat
  /\ ReplacementRate \in {"never", "sometimes", "always"}
  /\ SkipClientCreation \in BOOLEAN
  /\ Hung \subseteq Slots

VARIABLES
  pc,            \* where the main goroutine is
  nodes,         \* the runners, by slot
  nodeNameIdx,   \* number of the next node name
  ccrCompletion, \* the buffered channel of free slots
  timeout,       \* the last select ended in the time.After case
  running,       \* the CCR goroutines
  \* History, for the properties only:
  slept,         \* the pacing sleep was taken since the last launch
  launched       \* the node names that have ever been run

vars == <<pc, nodes, nodeNameIdx, ccrCompletion, timeout, running, slept,
          launched>>

\* A node name is NodeNamePrefix-k; the model keeps k.  NoName is the empty
\* name of a runner that make() zeroed.
NoName == -1
Runner == [NodeName : Nat \cup {NoName}, FirstRun : BOOLEAN]
NewRunner(k) == [NodeName |-> k, FirstRun |-> TRUE]

\* What ChefClientRun is called with.
CCR == [slot : Slots, NodeName : Nat, FirstRun : BOOLEAN]

ChannelCapacity == NumNodes

Init ==
  /\ pc = "seed"
  /\ nodes = [n \in Slots |-> [NodeName |-> NoName, FirstRun |-> FALSE]]
  /\ nodeNameIdx = 0
  /\ ccrCompletion = <<>>
  /\ timeout = FALSE
  /\ running = {}
  /\ slept = FALSE
  /\ launched = {}

-----------------------------------------------------------------------------
(* Slips: what PROJECT.json's mutants put in place of the action after the   *)
(* two underscores of the name.                                              *)

\* The loop that seeds the channel hands out the name instead of the index.
Seed__NameAhead ==
  /\ pc = "seed"
  /\ nodeNameIdx < NumNodes
  /\ nodes' = [nodes EXCEPT ![nodeNameIdx] = NewRunner(nodeNameIdx)]
  /\ ccrCompletion' = Append(ccrCompletion, nodeNameIdx + 1)
  /\ nodeNameIdx' = nodeNameIdx + 1
  /\ UNCHANGED <<pc, timeout, running, slept, launched>>

Launching(n, runner, run) ==
  /\ running' = running \cup {run}
  /\ nodes' = [nodes EXCEPT ![n] = [runner EXCEPT !.FirstRun = FALSE]]
  /\ ccrCompletion' = Tail(ccrCompletion)
  /\ pc' = "pace"
  /\ slept' = FALSE
  /\ launched' = launched \cup {runner.NodeName}

\* The goroutine is started before the replacement is decided.
StartRun__Stale(n, runner) ==
  /\ Launching(n, runner, [slot |-> n, NodeName |-> nodes[n].NodeName,
                           FirstRun |-> runner.FirstRun])
  /\ timeout' = FALSE

\* FirstRun is cleared before the go statement.
StartRun__Cleared(n, runner) ==
  /\ Launching(n, runner, [slot |-> n, NodeName |-> runner.NodeName,
                           FirstRun |-> FALSE])
  /\ timeout' = FALSE

\* The receive case does not reset timeout.
StartRun__KeepTimeout(n, runner) ==
  /\ Launching(n, runner, [slot |-> n, NodeName |-> runner.NodeName,
                           FirstRun |-> runner.FirstRun])
  /\ UNCHANGED timeout

\* A deferred closer that an early return has skipped.
Finish__Lost(r) ==
  /\ running' = running \ {r}
  /\ UNCHANGED <<pc, nodes, nodeNameIdx, ccrCompletion, timeout, slept, launched>>

\* The completion is sent by the body and again by the deferred closer.
Finish__Twice(r) ==
  /\ Len(ccrCompletion) < ChannelCapacity
  /\ running' = running \ {r}
  /\ ccrCompletion' = ccrCompletion \o <<r.slot, r.slot>>
  /\ UNCHANGED <<pc, nodes, nodeNameIdx, timeout, slept, launched>>

\* The free slots are a stack instead of a channel.
Finish__Lifo(r) ==
  /\ running' = running \ {r}
  /\ ccrCompletion' = <<r.slot>> \o ccrCompletion
  /\ UNCHANGED <<pc, nodes, nodeNameIdx, timeout, slept, launched>>

-----------------------------------------------------------------------------
(* The main goroutine *)

\* One iteration of the loop that creates the initial group of runners.  Its
\* index and nodeNameIdx are equal all along.  The send blocks on a full
\* channel, and nobody receives yet.
Seed ==
  /\ pc = "seed"
  /\ nodeNameIdx < NumNodes
  /\ Len(ccrCompletion) < ChannelCapacity
  /\ nodes' = [nodes EXCEPT ![nodeNameIdx] = NewRunner(nodeNameIdx)]
  /\ ccrCompletion' = Append(ccrCompletion, nodeNameIdx)
  /\ nodeNameIdx' = nodeNameIdx + 1
  /\ UNCHANGED <<pc, timeout, running, slept, launched>>

EndSeed ==
  /\ pc = "seed"
  /\ nodeNameIdx = NumNodes
  /\ pc' = "pace"
  /\ UNCHANGED <<nodes, nodeNameIdx, ccrCompletion, timeout, running, slept,
                 launched>>

\* The head of the loop: sleep delayBetweenConverges, unless the last select
\* timed out.
Pace ==
  /\ pc = "pace"
  /\ pc' = "select"
  /\ slept' = (slept \/ ~timeout)
  /\ UNCHANGED <<nodes, nodeNameIdx, ccrCompletion, timeout, running, launched>>

\* The end of the receive case of the select: run `runner' in slot n.  The
\* arguments of the go statement are evaluated before FirstRun is cleared.
StartRun(n, runner) ==
  /\ running' = running \cup {[slot |-> n, NodeName |-> runner.NodeName,
                               FirstRun |-> runner.FirstRun]}
  /\ nodes' = [nodes EXCEPT ![n] = [runner EXCEPT !.FirstRun = FALSE]]
  /\ ccrCompletion' = Tail(ccrCompletion)
  /\ timeout' = FALSE
  /\ pc' = "pace"
  /\ slept' = FALSE
  /\ launched' = launched \cup {runner.NodeName}

\* The receive case when the draw leaves the slot its node.
Relaunch ==
  /\ pc = "select"
  /\ ccrCompletion # <<>>
  /\ ReplacementRate # "always"
  /\ LET n == Head(ccrCompletion) IN StartRun(n, nodes[n])
  /\ UNCHANGED nodeNameIdx

\* Slip: nodeNameIdx is not advanced.
Replace__SameName ==
  /\ pc = "select"
  /\ ccrCompletion # <<>>
  /\ StartRun(Head(ccrCompletion), NewRunner(nodeNameIdx))
  /\ UNCHANGED nodeNameIdx

\* Slip: the numbers of replaced nodes are recycled.
Replace__Recycled ==
  /\ pc = "select"
  /\ ccrCompletion # <<>>
  /\ nodeNameIdx < MaxNames
  /\ StartRun(Head(ccrCompletion), NewRunner(nodeNameIdx % (NumNodes + 1)))
  /\ nodeNameIdx' = nodeNameIdx + 1

\* The receive case when rand.Float64() < NodeReplacementRate: the slot gets
\* a node with a name never used before.
Replace ==
  /\ pc = "select"
  /\ ccrCompletion # <<>>
  /\ ReplacementRate # "never"
  /\ nodeNameIdx < MaxNames
  /\ StartRun(Head(ccrCompletion), NewRunner(nodeNameIdx))
  /\ nodeNameIdx' = nodeNameIdx + 1

\* The time.After case.  It does not require an empty channel: a goroutine
\* that is descheduled for 100 ms at the select finds both cases ready.
TimeOut ==
  /\ pc = "select"
  /\ timeout' = TRUE
  /\ pc' = "pace"
  /\ UNCHANGED <<nodes, nodeNameIdx, ccrCompletion, running, slept, launched>>

-----------------------------------------------------------------------------
(* The CCR goroutines *)

\* The deferred closer of a CCR hands its slot back.
Finish(r) ==
  /\ r \in running
  /\ Len(ccrCompletion) < ChannelCapacity
  /\ running' = running \ {r}
  /\ ccrCompletion' = Append(ccrCompletion, r.slot)
  /\ UNCHANGED <<pc, nodes, nodeNameIdx, timeout, slept, launched>>

FinishSlot(n) == \E r \in running : r.slot = n /\ Finish(r)

-----------------------------------------------------------------------------

Receive == Relaunch \/ Replace

Main == Seed \/ EndSeed \/ Pace \/ Receive \/ TimeOut

Next == Main \/ \E r \in running : Finish(r)

Spec == Init /\ [][Next]_vars

(***************************************************************************)
(* Fairness.  The main goroutine does not stop; a select with both cases   *)
(* ready picks one at random, so the receive case is not passed over for   *)
(* ever (SF); a CCR ends once the servers have answered its requests,      *)
(* which is assumed of every slot outside Hung: neither HTTP client has a  *)
(* timeout, so a silent server really holds a slot for ever.               *)
(***************************************************************************)
Fairness ==
  /\ WF_vars(Seed)
  /\ WF_vars(EndSeed)
  /\ WF_vars(Pace)
  /\ SF_vars(Receive)
  /\ \A n \in Slots \ Hung : WF_vars(FinishSlot(n))

FairSpec == Spec /\ Fairness

-----------------------------------------------------------------------------
(* Properties *)

TypeOK ==
  /\ pc \in {"seed", "pace", "select"}
  /\ nodes \in [Slots -> Runner]
  /\ nodeNameIdx \in Nat
  /\ ccrCompletion \in Seq(Slots)
  /\ timeout \in BOOLEAN
  /\ running \in SUBSET CCR
  /\ slept \in BOOLEAN
  /\ launched \in SUBSET Nat

Seeded == IF pc = "seed" THEN 0 .. nodeNameIdx - 1 ELSE Slots

HasToken(n) == \E i \in 1 .. Len(ccrCompletion) : ccrCompletion[i] = n
IsRunning(n) == \E r \in running : r.slot = n

\* The token of a slot is either in the channel, once, or with the one CCR
\* that runs in the slot, from the moment the slot is seeded and for ever: no
\* slot is lost and none runs twice at a time, whatever the order in which
\* CCRs end, selects time out and nodes are replaced.
SlotConservation ==
  /\ \A n \in Slots : HasToken(n) => ~IsRunning(n)
  /\ \A i, j \in 1 .. Len(ccrCompletion) :
       ccrCompletion[i] = ccrCompletion[j] => i = j
  /\ \A r, q \in running : r.slot = q.slot => r = q
  /\ \A n \in Seeded : HasToken(n) \/ IsRunning(n)

\* A CCR that ends finds room in the channel, so its closer never blocks.
CloserNeverBlocks ==
  running # {} => Len(ccrCompletion) < ChannelCapacity

\* Two goroutines never impersonate the same Chef node at the same time.
OneRunPerNode ==
  \A r, q \in running : r.NodeName = q.NodeName => r = q

\* A node that was replaced is no longer run: every CCR in progress is of the
\* node its slot has now.
OnlyCurrentNodesRun ==
  \A r \in running : nodes[r.slot].NodeName = r.NodeName

\* FirstRun, which makes a CCR create its API client, is passed to the first
\* run of each node and to no other.
FirstRunExactlyOnce ==
  [][\A r \in running' \ running : r.FirstRun <=> r.NodeName \notin launched]_vars

\* A node that has lost its slot never gets one again.
RetiredForGood ==
  [][\A k \in launched : (\A n \in Slots : nodes[n].NodeName # k)
        => \A n \in Slots : nodes'[n].NodeName # k]_vars

\* Two launches are always separated by a sleep of delayBetweenConverges,
\* however many selects timed out in between: the load never exceeds NumNodes
\* runs per interval.
Paced ==
  [][running' \ running # {} => slept]_vars

\* Every slot whose servers answer is run again and again, also while the CCRs
\* of other slots are stuck.
EverySlotKeepsRunning ==
  \A n \in Slots \ Hung : []<>IsRunning(n) /\ []<>~IsRunning(n)

\* Slots, the channel and the pacing implement the fleet of Fleet.
Abstract == INSTANCE Fleet WITH
  FleetSize <- NumNodes,
  fleet <- {nodes[n].NodeName : n \in Seeded},
  busy <- {[node |-> r.NodeName, first |-> r.FirstRun] : r \in running},
  met <- launched,
  named <- nodeNameIdx

\* Whatever the interleaving, the servers see the behaviour of Fleet: every
\* step of the loop or of a closer launches, replaces or ends one run of an
\* idle node of the fleet, or is invisible.
ImplementsFleet == Abstract!FleetSpec

\* The sample configuration says that with skip_client_creation
\* node_replacement_rate is ignored.  The loop does not look at it.
SkipDisablesReplacement ==
  [][SkipClientCreation =>
       \A n \in Slots : nodes[n].NodeName # NoName
          => nodes'[n].NodeName = nodes[n].NodeName]_vars

=============================================================================
