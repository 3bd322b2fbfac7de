--------------------------- MODULE SchedulerProofs ---------------------------
(***************************************************************************)
(* Theorems about Scheduler, for every number of nodes, every replacement  *)
(* rate and any number of node names.                                      *)
(***************************************************************************)
EXTENDS Scheduler, TLAPS, SequenceTheorems, FiniteSetTheorems

-----------------------------------------------------------------------------
(* The inductive invariant *)

\* While the channel is being filled nothing runs, and the loop has not
\* passed the number of nodes.
Seeding == pc = "seed" => nodeNameIdx <= NumNodes /\ running = {}

\* Only seeded slots are in the channel or run.
OnlySeeded ==
  /\ \A i \in 1 .. Len(ccrCompletion) : ccrCompletion[i] \in Seeded
  /\ \A r \in running : r.slot \in Seeded

\* Every seeded slot accounts for one token or one CCR.
Tally ==
  /\ IsFiniteSet(running)
  /\ Len(ccrCompletion) + Cardinality(running) =
       IF pc = "seed" THEN nodeNameIdx ELSE NumNodes

\* The nodes of the seeded slots are different ones, and have been named.
DistinctNodes ==
  /\ \A n \in Seeded : nodes[n].NodeName \in 0 .. nodeNameIdx - 1
  /\ \A m, n \in Seeded : nodes[m].NodeName = nodes[n].NodeName => m = n

\* FirstRun is up exactly for the nodes that have not run, and no node has
\* run before it was named.
FirstRunFlag ==
  /\ \A n \in Seeded : nodes[n].FirstRun <=> nodes[n].NodeName \notin launched
  /\ \A k \in launched : k < nodeNameIdx

\* The sleep has been taken before the select, and a timeout does not undo it.
Pacing == (pc = "select" => slept) /\ (timeout => slept)

IInv ==
  /\ TypeOK
  /\ Seeding
  /\ OnlySeeded
  /\ SlotConservation
  /\ Tally
  /\ OnlyCurrentNodesRun
  /\ DistinctNodes
  /\ FirstRunFlag
  /\ Pacing

-----------------------------------------------------------------------------
(* Slots, tokens and sequences *)

\* Slot numbers are natural numbers, as arithmetic on them needs.
LEMMA SlotsAreNumbers == Slots \subseteq Nat
  BY SchedulerAssumption DEF Slots

\* Once the loop that fills the channel has ended, all slots are seeded.
LEMMA SeededSlots ==
  ASSUME TypeOK, Seeding
  PROVE  Seeded \subseteq Slots
  BY SchedulerAssumption DEF TypeOK, Seeding, Seeded, Slots

\* Appending the token of a slot that is not in the channel.
LEMMA AppendToken ==
  ASSUME NEW S, NEW s \in Seq(S), NEW e \in S,
         \A i, j \in 1 .. Len(s) : s[i] = s[j] => i = j,
         \A i \in 1 .. Len(s) : s[i] # e
  PROVE  LET t == Append(s, e) IN
         /\ t \in Seq(S)
         /\ Len(t) = Len(s) + 1
         /\ \A i, j \in 1 .. Len(t) : t[i] = t[j] => i = j
         /\ \A i \in 1 .. Len(s) : t[i] = s[i]
         /\ t[Len(s) + 1] = e
  OBVIOUS

\* Receiving the first token leaves the others, and not that one.
LEMMA ReceiveToken ==
  ASSUME NEW S, NEW s \in Seq(S), s # <<>>,
         \A i, j \in 1 .. Len(s) : s[i] = s[j] => i = j
  PROVE  LET t == Tail(s) IN
         /\ Head(s) \in S
         /\ Head(s) = s[1]
         /\ t \in Seq(S)
         /\ Len(t) = Len(s) - 1
         /\ \A i, j \in 1 .. Len(t) : t[i] = t[j] => i = j
         /\ \A i \in 1 .. Len(t) : t[i] = s[i + 1] /\ t[i] # Head(s)
         /\ \A i \in 1 .. Len(s) : s[i] = Head(s) \/ \E k \in 1 .. Len(t) : t[k] = s[i]
<1> DEFINE t == Tail(s)
<1>1. /\ Head(s) \in S /\ t \in Seq(S) /\ Len(t) = Len(s) - 1
      /\ \A i \in 1 .. Len(t) : t[i] = s[i + 1]
  BY HeadTailProperties
<1>2. Len(s) \in Nat \ {0} /\ Head(s) = s[1]
  BY EmptySeq
<1>3. \A i \in 1 .. Len(t) : t[i] # Head(s)
  BY <1>1, <1>2
<1>4. \A i, j \in 1 .. Len(t) : t[i] = t[j] => i = j
  BY <1>1, <1>2
<1>5. ASSUME NEW i \in 1 .. Len(s), s[i] # Head(s)
      PROVE  \E k \in 1 .. Len(t) : t[k] = s[i]
  <2>1. i - 1 \in 1 .. Len(t)
    BY <1>1, <1>2, <1>5
  <2> QED
    BY <1>1, <2>1
<1> QED
  BY <1>1, <1>2, <1>3, <1>4, <1>5

-----------------------------------------------------------------------------
(* The initial state and the steps of the main goroutine *)

\* The invariant holds before the first slot is seeded.
LEMMA InitIInv == Init => IInv
<1> SUFFICES ASSUME Init PROVE IInv
  OBVIOUS
<1>1. Seeded = {} /\ Len(ccrCompletion) = 0
  BY DEF Init, Seeded
<1>2. TypeOK
  <2>1. nodes \in [Slots -> Runner]
    BY DEF Init, Runner, NoName
  <2>2. ccrCompletion \in Seq(Slots)
    BY EmptySeq DEF Init
  <2> QED
    BY <2>1, <2>2 DEF Init, TypeOK
<1>3. Tally
  BY <1>1, FS_EmptySet DEF Init, Tally
<1>4. SlotConservation /\ OnlySeeded /\ OnlyCurrentNodesRun
  BY <1>1 DEF Init, SlotConservation, OnlySeeded, OnlyCurrentNodesRun, HasToken, IsRunning
<1>5. Seeding /\ DistinctNodes /\ FirstRunFlag /\ Pacing
  BY <1>1, SchedulerAssumption
  DEF Init, Seeding, DistinctNodes, FirstRunFlag, Pacing
<1> QED
  BY <1>2, <1>3, <1>4, <1>5 DEF IInv

\* Seeding a slot gives it a fresh node and its one token.
LEMMA SeedIInv == IInv /\ Seed => IInv'
<1> SUFFICES ASSUME IInv, Seed PROVE IInv'
  OBVIOUS
<1>0. PICK k : k = nodeNameIdx
  OBVIOUS
<1>1. k \in Slots /\ k \in Nat /\ nodeNameIdx = k
  BY <1>0, SchedulerAssumption DEF IInv, TypeOK, Seed, Slots
<1>2. Seeded = 0 .. k - 1 /\ Seeded' = 0 .. k /\ running = {} /\ running' = {}
  BY <1>1 DEF IInv, Seeding, Seed, Seeded
<1>3. \A i \in 1 .. Len(ccrCompletion) : ccrCompletion[i] # k
  BY <1>1, <1>2 DEF IInv, OnlySeeded
<1>4. /\ ccrCompletion' \in Seq(Slots)
      /\ Len(ccrCompletion) \in Nat
      /\ Len(ccrCompletion') = Len(ccrCompletion) + 1
      /\ \A i, j \in 1 .. Len(ccrCompletion') :
           ccrCompletion'[i] = ccrCompletion'[j] => i = j
      /\ \A i \in 1 .. Len(ccrCompletion) : ccrCompletion'[i] = ccrCompletion[i]
      /\ ccrCompletion'[Len(ccrCompletion) + 1] = k
  <2>1. /\ ccrCompletion \in Seq(Slots)
        /\ \A i, j \in 1 .. Len(ccrCompletion) :
             ccrCompletion[i] = ccrCompletion[j] => i = j
    BY DEF IInv, TypeOK, SlotConservation
  <2>2. Len(ccrCompletion) \in Nat
    BY <2>1, LenProperties
  <2> QED
    BY <1>1, <1>3, <2>1, <2>2, AppendToken DEF Seed
<1>5. NewRunner(k) \in Runner
  BY <1>1 DEF NewRunner, Runner
<1>6. TypeOK'
  <2>1. nodes' \in [Slots -> Runner]
    BY <1>1, <1>5 DEF IInv, TypeOK, Seed
  <2> QED
    BY <1>1, <1>4, <2>1 DEF IInv, TypeOK, Seed
<1>7. \A n \in Seeded : nodes'[n] = nodes[n]
  BY <1>1, <1>2 DEF IInv, TypeOK, Seed
<1>8. nodes'[k] = NewRunner(k)
  BY <1>1 DEF IInv, TypeOK, Seed
<1>9. Seeding'
  BY <1>1, <1>2, SchedulerAssumption DEF Seed, Seeding
<1>10. OnlySeeded'
  BY <1>1, <1>2, <1>4 DEF IInv, OnlySeeded
<1>11. SlotConservation'
  <2>1. \A n \in Seeded' : HasToken(n)'
    <3>1. HasToken(k)'
      BY <1>4 DEF HasToken
    <3>2. \A n \in Seeded : HasToken(n)
      BY <1>2 DEF IInv, SlotConservation, IsRunning
    <3>3. \A n \in Seeded : HasToken(n)'
      BY <1>4, <3>2 DEF HasToken
    <3>4. \A n \in Seeded' : n = k \/ n \in Seeded
      BY <1>1, <1>2
    <3> QED
      BY <3>1, <3>3, <3>4
  <2> QED
    BY <1>2, <1>4, <2>1 DEF SlotConservation, IsRunning
<1>12. Tally'
  BY <1>1, <1>2, <1>4, FS_EmptySet DEF IInv, Tally, Seed
<1>13. OnlyCurrentNodesRun'
  BY <1>2 DEF OnlyCurrentNodesRun
<1>14. DistinctNodes'
  BY <1>1, <1>2, <1>7, <1>8 DEF IInv, DistinctNodes, NewRunner, Seed
<1>15. FirstRunFlag'
  BY <1>1, <1>2, <1>7, <1>8 DEF IInv, TypeOK, FirstRunFlag, NewRunner, Seed
<1>16. Pacing'
  BY DEF IInv, Pacing, Seed
<1> QED
  BY <1>6, <1>9, <1>10, <1>11, <1>12, <1>13, <1>14, <1>15, <1>16 DEF IInv

\* Steps that only move the main goroutine keep all that is said of slots.
LEMMA QuietStep ==
  ASSUME IInv, Seeded' = Seeded, pc' # "seed", pc = "seed" => nodeNameIdx = NumNodes,
         UNCHANGED <<nodes, nodeNameIdx, ccrCompletion, running, launched>>
  PROVE  /\ Seeding' /\ OnlySeeded' /\ SlotConservation' /\ Tally'
         /\ OnlyCurrentNodesRun' /\ DistinctNodes' /\ FirstRunFlag'
<1>1. Seeding' /\ OnlySeeded' /\ OnlyCurrentNodesRun'
  BY DEF IInv, Seeding, OnlySeeded, OnlyCurrentNodesRun
<1>2. SlotConservation'
  BY DEF IInv, SlotConservation, HasToken, IsRunning
<1>3. Tally'
  BY DEF IInv, Tally
<1>4. DistinctNodes' /\ FirstRunFlag'
  BY DEF IInv, DistinctNodes, FirstRunFlag
<1> QED
  BY <1>1, <1>2, <1>3, <1>4

\* The seeding loop ends when every slot has been seeded.
LEMMA EndSeedIInv == IInv /\ EndSeed => IInv'
<1> SUFFICES ASSUME IInv, EndSeed PROVE IInv'
  OBVIOUS
<1>1. Seeded' = Seeded
  BY DEF EndSeed, Seeded, Slots
<1>2. TypeOK' /\ Pacing'
  BY DEF IInv, TypeOK, Pacing, EndSeed
<1> QED
  BY <1>1, <1>2, QuietStep DEF IInv, EndSeed

\* After the head of the loop the sleep has been taken.
LEMMA PaceIInv == IInv /\ Pace => IInv'
<1> SUFFICES ASSUME IInv, Pace PROVE IInv'
  OBVIOUS
<1>1. Seeded' = Seeded
  BY DEF Pace, Seeded
<1>2. TypeOK' /\ Pacing'
  BY DEF IInv, TypeOK, Pacing, Pace
<1> QED
  BY <1>1, <1>2, QuietStep DEF IInv, Pace

\* A timeout remembers that the sleep was taken before the select.
LEMMA TimeOutIInv == IInv /\ TimeOut => IInv'
<1> SUFFICES ASSUME IInv, TimeOut PROVE IInv'
  OBVIOUS
<1>1. Seeded' = Seeded
  BY DEF TimeOut, Seeded
<1>2. TypeOK' /\ Pacing'
  BY DEF IInv, TypeOK, Pacing, TimeOut
<1> QED
  BY <1>1, <1>2, QuietStep DEF IInv, TimeOut

\* A launch keeps the invariant when the runner is new to the other slots and
\* its FirstRun says whether its node has run.
LEMMA LaunchIInv ==
  ASSUME IInv, pc = "select", ccrCompletion # <<>>,
         NEW runner \in Runner, StartRun(Head(ccrCompletion), runner),
         nodeNameIdx' \in Nat, nodeNameIdx <= nodeNameIdx',
         runner.NodeName \in 0 .. nodeNameIdx' - 1,
         runner.FirstRun <=> runner.NodeName \notin launched,
         \A m \in Slots : m # Head(ccrCompletion)
                            => nodes[m].NodeName # runner.NodeName
  PROVE  IInv'
<1>0. PICK n : n = Head(ccrCompletion)
  OBVIOUS
<1> DEFINE r == [slot |-> n, NodeName |-> runner.NodeName, FirstRun |-> runner.FirstRun]
           after == [runner EXCEPT !.FirstRun = FALSE]
<1>1. /\ n \in Slots
      /\ n = ccrCompletion[1]
      /\ ccrCompletion' \in Seq(Slots)
      /\ Len(ccrCompletion) \in Nat /\ Len(ccrCompletion) >= 1
      /\ Len(ccrCompletion') = Len(ccrCompletion) - 1
      /\ \A i, j \in 1 .. Len(ccrCompletion') :
           ccrCompletion'[i] = ccrCompletion'[j] => i = j
      /\ \A i \in 1 .. Len(ccrCompletion') :
           ccrCompletion'[i] = ccrCompletion[i + 1] /\ ccrCompletion'[i] # n
      /\ \A i \in 1 .. Len(ccrCompletion) :
           ccrCompletion[i] = n
             \/ \E k \in 1 .. Len(ccrCompletion') : ccrCompletion'[k] = ccrCompletion[i]
  <2>1. /\ ccrCompletion \in Seq(Slots)
        /\ \A i, j \in 1 .. Len(ccrCompletion) :
             ccrCompletion[i] = ccrCompletion[j] => i = j
        /\ ccrCompletion' = Tail(ccrCompletion)
    BY DEF IInv, TypeOK, SlotConservation, StartRun
  <2>2. Len(ccrCompletion) \in Nat \ {0}
    BY <2>1, EmptySeq
  <2> QED
    BY <1>0, <2>1, <2>2, ReceiveToken
<1>2. Seeded = Slots /\ Seeded' = Slots /\ pc' = "pace"
  BY DEF StartRun, Seeded, Slots
<1>3. running' = running \cup {r} /\ r.slot = n /\ r.NodeName = runner.NodeName
  BY <1>0 DEF StartRun
<1>4. after \in Runner /\ after.NodeName = runner.NodeName /\ after.FirstRun = FALSE
  BY DEF Runner
<1>5. /\ nodes' = [nodes EXCEPT ![n] = after]
      /\ nodes'[n] = after
      /\ \A m \in Slots : m # n => nodes'[m] = nodes[m]
  BY <1>0, <1>1 DEF StartRun, IInv, TypeOK
<1>6. HasToken(n) /\ ~IsRunning(n)
  <2>1. HasToken(n)
    BY <1>1 DEF HasToken
  <2> QED
    BY <1>1, <2>1 DEF IInv, SlotConservation
<1>7. TypeOK'
  <2>1. nodes' \in [Slots -> Runner]
    BY <1>1, <1>4, <1>5 DEF IInv, TypeOK
  <2>2. running' \in SUBSET CCR
    BY <1>1, <1>3 DEF IInv, TypeOK, CCR, Runner
  <2>3. launched' \in SUBSET Nat
    BY DEF IInv, TypeOK, StartRun
  <2> QED
    BY <1>1, <1>2, <2>1, <2>2, <2>3 DEF IInv, TypeOK, StartRun
<1>8. Seeding' /\ Pacing'
  BY <1>2 DEF Seeding, Pacing, StartRun
<1>9. OnlySeeded'
  BY <1>1, <1>2, <1>3, ElementOfSeq DEF IInv, OnlySeeded
<1>10. SlotConservation'
  <2>1. ASSUME NEW m \in Slots, HasToken(m)'
        PROVE  ~IsRunning(m)'
    <3>1. HasToken(m) /\ m # n
      BY <1>1, <2>1 DEF HasToken
    <3>2. ~IsRunning(m)
      BY <3>1 DEF IInv, SlotConservation
    <3> QED
      BY <1>3, <3>1, <3>2 DEF IsRunning
  <2>2. ASSUME NEW q \in running', NEW p \in running', q.slot = p.slot
        PROVE  q = p
    BY <1>3, <1>6, <2>2 DEF IInv, SlotConservation, IsRunning
  <2>3. ASSUME NEW m \in Slots
        PROVE  HasToken(m)' \/ IsRunning(m)'
    <3>1. CASE m = n
      BY <1>3, <3>1 DEF IsRunning
    <3>2. CASE m # n /\ HasToken(m)
      BY <1>1, <3>2 DEF HasToken
    <3>3. CASE IsRunning(m)
      BY <1>3, <3>3 DEF IsRunning
    <3> QED
      BY <1>2, <3>1, <3>2, <3>3 DEF IInv, SlotConservation
  <2> QED
    BY <1>1, <1>2, <2>1, <2>2, <2>3 DEF SlotConservation
<1>11. Tally'
  <2>1. r \notin running
    BY <1>3, <1>6 DEF IsRunning
  <2>2. IsFiniteSet(running') /\ Cardinality(running') = Cardinality(running) + 1
    BY <1>3, <2>1, FS_AddElement DEF IInv, Tally
  <2>3. Cardinality(running) \in Nat
    BY FS_CardinalityType DEF IInv, Tally
  <2> QED
    BY <1>1, <1>2, <2>2, <2>3, SchedulerAssumption DEF IInv, Tally
<1>12. OnlyCurrentNodesRun'
  <2>1. ASSUME NEW q \in running'
        PROVE  nodes'[q.slot].NodeName = q.NodeName
    <3>1. CASE q = r
      BY <1>3, <1>4, <1>5, <3>1
    <3>2. CASE q \in running
      <4>1. q.slot \in Slots /\ q.slot # n
        BY <1>6, <3>2 DEF IInv, TypeOK, CCR, IsRunning
      <4> QED
        BY <1>5, <3>2, <4>1 DEF IInv, OnlyCurrentNodesRun
    <3> QED
      BY <1>3, <3>1, <3>2
  <2> QED
    BY <2>1 DEF OnlyCurrentNodesRun
<1>13. DistinctNodes'
  <2>1. \A m \in Slots : nodes'[m].NodeName \in 0 .. nodeNameIdx' - 1
    BY <1>1, <1>2, <1>4, <1>5 DEF IInv, TypeOK, DistinctNodes
  <2>2. \A m \in Slots : m # n => nodes'[m].NodeName # nodes'[n].NodeName
    BY <1>0, <1>4, <1>5
  <2>3. \A m, l \in Slots : m # n /\ l # n /\ nodes'[m].NodeName = nodes'[l].NodeName
          => m = l
    BY <1>2, <1>5 DEF IInv, DistinctNodes
  <2> QED
    BY <1>1, <1>2, <2>1, <2>2, <2>3 DEF DistinctNodes
<1>14. FirstRunFlag'
  <2>1. launched' = launched \cup {runner.NodeName}
    BY DEF StartRun
  <2>2. \A m \in Slots : nodes'[m].FirstRun <=> nodes'[m].NodeName \notin launched'
    <3>1. ASSUME NEW m \in Slots, m # n
          PROVE  nodes'[m].FirstRun <=> nodes'[m].NodeName \notin launched'
      <4>1. nodes'[m] = nodes[m] /\ nodes[m].NodeName # runner.NodeName
        BY <1>0, <1>5, <3>1
      <4>2. nodes[m].FirstRun <=> nodes[m].NodeName \notin launched
        BY <1>2 DEF IInv, FirstRunFlag
      <4> QED
        BY <2>1, <4>1, <4>2
    <3>2. nodes'[n].NodeName \in launched'
      <4>1. nodes'[n].NodeName = runner.NodeName
        BY <1>4, <1>5, Zenon
      <4> QED
        BY <2>1, <4>1, Zenon
    <3>3. nodes'[n].FirstRun = FALSE
      BY <1>4, <1>5, Zenon
    <3> QED
      BY <3>1, <3>2, <3>3
  <2>3. \A k \in launched' : k < nodeNameIdx'
    BY <2>1 DEF IInv, TypeOK, FirstRunFlag
  <2> QED
    BY <1>2, <2>2, <2>3 DEF FirstRunFlag
<1> QED
  BY <1>7, <1>8, <1>9, <1>10, <1>11, <1>12, <1>13, <1>14 DEF IInv

\* A launch that keeps the node of the slot.
LEMMA RelaunchIInv == IInv /\ Relaunch => IInv'
<1> SUFFICES ASSUME IInv, Relaunch PROVE IInv'
  OBVIOUS
<1> DEFINE n == Head(ccrCompletion)
<1>1. n \in Slots /\ Seeded = Slots
  BY HeadTailProperties DEF IInv, TypeOK, Relaunch, Seeded
<1>2. nodes[n] \in Runner /\ nodes[n].NodeName \in 0 .. nodeNameIdx - 1
  BY <1>1 DEF IInv, TypeOK, DistinctNodes
<1>3. nodes[n].FirstRun <=> nodes[n].NodeName \notin launched
  BY <1>1 DEF IInv, FirstRunFlag
<1>4. \A m \in Slots : m # n => nodes[m].NodeName # nodes[n].NodeName
  BY <1>1 DEF IInv, DistinctNodes
<1>5. nodeNameIdx' = nodeNameIdx /\ nodeNameIdx \in Nat
  BY DEF IInv, TypeOK, Relaunch
<1> HIDE DEF n
<1>6. StartRun(Head(ccrCompletion), nodes[n]) /\ pc = "select" /\ ccrCompletion # <<>>
  BY DEF Relaunch, n
<1> QED
  BY <1>2, <1>3, <1>4, <1>5, <1>6, LaunchIInv DEF n

\* A launch with a new node, whose name is above all names given so far.
LEMMA ReplaceIInv == IInv /\ Replace => IInv'
<1> SUFFICES ASSUME IInv, Replace PROVE IInv'
  OBVIOUS
<1> DEFINE runner == NewRunner(nodeNameIdx)
<1>1. nodeNameIdx \in Nat /\ nodeNameIdx' = nodeNameIdx + 1 /\ Seeded = Slots
  BY DEF IInv, TypeOK, Replace, Seeded
<1>2. runner \in Runner /\ runner.NodeName = nodeNameIdx /\ runner.FirstRun = TRUE
  BY <1>1 DEF NewRunner, Runner
<1>3. nodeNameIdx \notin launched
  BY <1>1 DEF IInv, FirstRunFlag
<1>4. \A m \in Slots : nodes[m].NodeName # nodeNameIdx
  BY <1>1 DEF IInv, DistinctNodes
<1>5. StartRun(Head(ccrCompletion), runner) /\ pc = "select" /\ ccrCompletion # <<>>
  BY DEF Replace
<1> HIDE DEF runner
<1> QED
  BY <1>1, <1>2, <1>3, <1>4, <1>5, LaunchIInv

-----------------------------------------------------------------------------
(* The steps of the CCR goroutines *)

\* There is room for the token of every CCR that runs.
LEMMA RoomForTokens ==
  ASSUME IInv, running # {}
  PROVE  Len(ccrCompletion) < ChannelCapacity
<1>1. Len(ccrCompletion) + Cardinality(running) = NumNodes
  BY DEF IInv, Seeding, Tally
<1>2. Cardinality(running) \in Nat /\ Cardinality(running) # 0
  BY FS_CardinalityType, FS_EmptySet DEF IInv, Tally
<1>3. Len(ccrCompletion) \in Nat
  BY LenProperties DEF IInv, TypeOK
<1> QED
  BY <1>1, <1>2, <1>3, SchedulerAssumption DEF ChannelCapacity

\* The closer turns a CCR of the slot into its token.
LEMMA FinishIInv ==
  ASSUME IInv, NEW r \in running, Finish(r)
  PROVE  IInv'
<1>0. PICK n : n = r.slot
  OBVIOUS
<1>1. /\ n \in Slots /\ n \in Seeded /\ Seeded' = Seeded /\ pc # "seed"
      /\ running' = running \ {r} /\ pc' = pc
  BY <1>0 DEF IInv, TypeOK, CCR, OnlySeeded, Seeding, Finish, Seeded
<1>2. IsRunning(n) /\ ~HasToken(n)
  <2>1. IsRunning(n)
    BY <1>0 DEF IsRunning
  <2> QED
    BY <1>1, <2>1 DEF IInv, SlotConservation
<1>3. ~IsRunning(n)'
  BY <1>0, <1>1 DEF IInv, SlotConservation, IsRunning
<1>4. /\ ccrCompletion' \in Seq(Slots)
      /\ Len(ccrCompletion) \in Nat
      /\ Len(ccrCompletion') = Len(ccrCompletion) + 1
      /\ \A i, j \in 1 .. Len(ccrCompletion') :
           ccrCompletion'[i] = ccrCompletion'[j] => i = j
      /\ \A i \in 1 .. Len(ccrCompletion) : ccrCompletion'[i] = ccrCompletion[i]
      /\ ccrCompletion'[Len(ccrCompletion) + 1] = n
  <2>1. /\ ccrCompletion \in Seq(Slots)
        /\ \A i, j \in 1 .. Len(ccrCompletion) :
             ccrCompletion[i] = ccrCompletion[j] => i = j
        /\ \A i \in 1 .. Len(ccrCompletion) : ccrCompletion[i] # n
        /\ ccrCompletion' = Append(ccrCompletion, n)
    BY <1>0, <1>2 DEF IInv, TypeOK, SlotConservation, Finish, HasToken
  <2>2. Len(ccrCompletion) \in Nat
    BY <2>1, LenProperties
  <2> QED
    BY <1>1, <2>1, <2>2, AppendToken
<1>5. TypeOK'
  BY <1>1, <1>4 DEF IInv, TypeOK, Finish
<1>6. OnlySeeded'
  <2>1. \A i \in 1 .. Len(ccrCompletion') : ccrCompletion'[i] \in Seeded
    BY <1>1, <1>4 DEF IInv, OnlySeeded
  <2> QED
    BY <1>1, <2>1 DEF IInv, OnlySeeded
<1>7. SlotConservation'
  <2>1. ASSUME NEW m \in Slots, HasToken(m)'
        PROVE  ~IsRunning(m)'
    <3>1. CASE m = n
      BY <1>3, <3>1
    <3>2. CASE m # n
      <4>1. HasToken(m)
        BY <1>4, <2>1, <3>2 DEF HasToken
      <4> QED
        BY <1>1, <4>1 DEF IInv, SlotConservation, IsRunning
    <3> QED
      BY <3>1, <3>2
  <2>2. ASSUME NEW m \in Seeded
        PROVE  HasToken(m)' \/ IsRunning(m)'
    <3>1. CASE m = n
      BY <1>4, <3>1 DEF HasToken
    <3>2. CASE m # n /\ HasToken(m)
      BY <1>4, <3>2 DEF HasToken
    <3>3. CASE m # n /\ IsRunning(m)
      BY <1>0, <1>1, <3>3 DEF IsRunning
    <3> QED
      BY <3>1, <3>2, <3>3 DEF IInv, SlotConservation
  <2>3. \A q, p \in running' : q.slot = p.slot => q = p
    BY <1>1 DEF IInv, SlotConservation
  <2> QED
    BY <1>1, <1>4, <2>1, <2>2, <2>3 DEF SlotConservation
<1>8. Tally'
  <2>1. IsFiniteSet(running') /\ Cardinality(running') = Cardinality(running) - 1
    BY <1>1, FS_RemoveElement DEF IInv, Tally
  <2>2. Cardinality(running) \in Nat
    BY FS_CardinalityType DEF IInv, Tally
  <2> QED
    BY <1>1, <1>4, <2>1, <2>2, SchedulerAssumption DEF IInv, Tally
<1>9. OnlyCurrentNodesRun' /\ Seeding'
  BY <1>1 DEF IInv, OnlyCurrentNodesRun, Seeding, Finish
<1>10. DistinctNodes' /\ FirstRunFlag' /\ Pacing'
  BY <1>1 DEF IInv, DistinctNodes, FirstRunFlag, Pacing, Finish
<1> QED
  BY <1>5, <1>6, <1>7, <1>8, <1>9, <1>10 DEF IInv

-----------------------------------------------------------------------------
(* Theorems *)

\* Every step of the loop and of the closers keeps the invariant.
LEMMA NextIInv == IInv /\ [Next]_vars => IInv'
<1> SUFFICES ASSUME IInv, [Next]_vars PROVE IInv'
  OBVIOUS
<1>1. CASE Seed
  BY <1>1, SeedIInv
<1>2. CASE EndSeed
  BY <1>2, EndSeedIInv
<1>3. CASE Pace
  BY <1>3, PaceIInv
<1>4. CASE Relaunch
  BY <1>4, RelaunchIInv
<1>5. CASE Replace
  BY <1>5, ReplaceIInv
<1>6. CASE TimeOut
  BY <1>6, TimeOutIInv
<1>7. CASE \E r \in running : Finish(r)
  BY <1>7, FinishIInv
<1>8. CASE UNCHANGED vars
  <2>1. UNCHANGED <<pc, nodes, nodeNameIdx, ccrCompletion, timeout, running, slept,
                    launched>>
    BY <1>8 DEF vars
  <2>2. TypeOK' /\ Seeding' /\ OnlySeeded' /\ Pacing'
    BY <2>1 DEF IInv, TypeOK, Seeding, OnlySeeded, Pacing, Seeded
  <2>3. SlotConservation' /\ Tally'
    BY <2>1 DEF IInv, SlotConservation, Tally, HasToken, IsRunning, Seeded
  <2>4. OnlyCurrentNodesRun' /\ DistinctNodes' /\ FirstRunFlag'
    BY <2>1 DEF IInv, OnlyCurrentNodesRun, DistinctNodes, FirstRunFlag, Seeded
  <2> QED
    BY <2>2, <2>3, <2>4 DEF IInv
<1> QED
  BY <1>1, <1>2, <1>3, <1>4, <1>5, <1>6, <1>7, <1>8 DEF Next, Main, Receive

\* The strengthened invariant holds throughout, for every NumNodes.
THEOREM Invariance == Spec => []IInv
<1>1. Init => IInv
  BY InitIInv
<1>2. IInv /\ [Next]_vars => IInv'
  BY NextIInv
<1> QED
  BY <1>1, <1>2, PTL DEF Spec

\* The variables keep their types.
THEOREM TypeCorrect == Spec => []TypeOK
<1>1. IInv => TypeOK
  BY DEF IInv
<1> QED
  BY <1>1, Invariance, PTL

\* No slot is lost and none is run twice at a time.
THEOREM SlotsConserved == Spec => []SlotConservation
<1>1. IInv => SlotConservation
  BY DEF IInv
<1> QED
  BY <1>1, Invariance, PTL

\* The deferred closer of a CCR never blocks on the completion channel.
THEOREM ClosersNeverBlock == Spec => []CloserNeverBlocks
<1>1. IInv => CloserNeverBlocks
  BY RoomForTokens DEF CloserNeverBlocks
<1> QED
  BY <1>1, Invariance, PTL

\* Every CCR in progress is of the node its slot has now.
THEOREM CurrentNodesRun == Spec => []OnlyCurrentNodesRun
<1>1. IInv => OnlyCurrentNodesRun
  BY DEF IInv
<1> QED
  BY <1>1, Invariance, PTL

\* No Chef node is impersonated by two goroutines at a time: a CCR runs the
\* node of its slot, and the slots have different nodes.
THEOREM NodesRunAlone == Spec => []OneRunPerNode
<1>1. IInv => OneRunPerNode
  <2> SUFFICES ASSUME IInv, NEW r \in running, NEW q \in running,
                      r.NodeName = q.NodeName
               PROVE  r = q
    BY DEF OneRunPerNode
  <2>1. r.slot \in Seeded /\ q.slot \in Seeded
    BY DEF IInv, OnlySeeded
  <2>2. nodes[r.slot].NodeName = nodes[q.slot].NodeName
    BY DEF IInv, OnlyCurrentNodesRun
  <2>3. r.slot = q.slot
    BY <2>1, <2>2 DEF IInv, DistinctNodes
  <2> QED
    BY <2>3 DEF IInv, SlotConservation
<1> QED
  BY <1>1, Invariance, PTL

\* A launch that adds a CCR passes FirstRun to it exactly when its node has
\* never been run, and comes after the sleep.
LEMMA LaunchStep ==
  ASSUME IInv, Receive, NEW r \in running' \ running
  PROVE  (r.FirstRun <=> r.NodeName \notin launched) /\ slept
<1> DEFINE n == Head(ccrCompletion)
<1>1. n \in Slots /\ Seeded = Slots /\ pc = "select"
  BY HeadTailProperties DEF IInv, TypeOK, Receive, Relaunch, Replace, Seeded
<1>2. slept
  BY <1>1 DEF IInv, Pacing
<1>3. CASE Relaunch
  <2>1. nodes[n].FirstRun <=> nodes[n].NodeName \notin launched
    BY <1>1 DEF IInv, FirstRunFlag
  <2>2. r = [slot |-> n, NodeName |-> nodes[n].NodeName, FirstRun |-> nodes[n].FirstRun]
    BY <1>3 DEF Relaunch, StartRun
  <2>3. r.NodeName = nodes[n].NodeName /\ r.FirstRun = nodes[n].FirstRun
    BY <2>2, Zenon
  <2> QED
    BY <1>2, <2>1, <2>3, Zenon
<1>4. CASE Replace
  <2>1. nodeNameIdx \notin launched
    BY DEF IInv, TypeOK, FirstRunFlag
  <2>2. r = [slot |-> n, NodeName |-> nodeNameIdx, FirstRun |-> TRUE]
    BY <1>4 DEF Replace, StartRun, NewRunner
  <2> QED
    BY <1>2, <2>1, <2>2
<1> QED
  BY <1>3, <1>4 DEF Receive

\* Only the receive case of the select starts CCRs.
LEMMA OnlyReceiveLaunches ==
  ASSUME [Next]_vars, ~Receive
  PROVE  running' \ running = {}
BY DEF Next, Main, Receive, Seed, EndSeed, Pace, TimeOut, Finish, vars

\* FirstRun reaches the first CCR of every node and no other.
THEOREM FirstRunOnce == Spec => FirstRunExactlyOnce
<1>1. IInv /\ [Next]_vars =>
        [\A r \in running' \ running : r.FirstRun <=> r.NodeName \notin launched]_vars
  BY LaunchStep, OnlyReceiveLaunches
<1> QED
  BY <1>1, Invariance, PTL DEF Spec, FirstRunExactlyOnce

\* Between two launches the loop sleeps, whatever timeouts occur.
THEOREM LaunchesArePaced == Spec => Paced
<1>1. IInv /\ [Next]_vars => [running' \ running # {} => slept]_vars
  BY LaunchStep, OnlyReceiveLaunches
<1> QED
  BY <1>1, Invariance, PTL DEF Spec, Paced

=============================================================================
