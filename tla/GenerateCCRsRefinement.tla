------------------------- MODULE GenerateCCRsRefinement -------------------------
(***************************************************************************)
(* The goroutines, channels and slices of GenerateCCRs implement Batches,  *)
(* for every set of configurations: each action starts a run, accounts for *)
(* one, ends a pause or changes nothing of what Batches sees.              *)
(***************************************************************************)
EXTENDS GenerateCCRsProofs

\* What Batches sees stays as it is.
Invisible == UNCHANGED <<config, runs, rejects>> /\ Unaccounted' = Unaccounted

\* A step that starts no run and counts none is a stutter of Batches.
LEMMA InvisibleIsStutter ==
  ASSUME Invisible
  PROVE  UNCHANGED Abstract!batchVars
BY DEF Invisible, Abstract!batchVars

\* The steps of the main goroutine between launching and collecting are
\* invisible.
LEMMA LoopStepsAreInvisible ==
  ASSUME IInv, Prepare \/ Round \/ StartBatch \/ EndRound \/ Merge \/ EndCollect
  PROVE  Invisible
<1>1. CASE Prepare \/ Round \/ StartBatch \/ EndRound
  BY <1>1, SameRuns
     DEF Prepare, Round, StartBatch, EndRound, Invisible, loopVars, tally, history
<1>2. CASE Merge
  <2>1. ccrs' = ccrs /\ DOMAIN forwarders = {}
        /\ \A k \in DOMAIN forwarders' : forwarders'[k].at = "receive"
    BY <1>2 DEF Merge, IInv, Forwarders
  <2>2. Unaccounted' = Unaccounted
    BY <2>1 DEF Unaccounted
  <2> QED
    BY <1>2, <2>2 DEF Merge, Invisible, tally, history
<1>3. CASE EndCollect
  <2>1. ccrs' = ccrs /\ DOMAIN forwarders' = {}
        /\ \A k \in DOMAIN forwarders : forwarders[k].at = "done"
    BY <1>3 DEF EndCollect, AfterBatch
  <2>2. Unaccounted' = Unaccounted
    BY <2>1 DEF Unaccounted
  <2> QED
    BY <1>3, <2>2 DEF EndCollect, AfterBatch, Invisible, tally, history
<1> QED
  BY <1>1, <1>2, <1>3

\* So are those of the other goroutines: a run is in flight until its code is
\* collected, wherever the code is.
LEMMA GoroutineStepsAreInvisible ==
  ASSUME IInv, CCRStep \/ ForwarderStep
  PROVE  Invisible
<1>1. ASSUME NEW g \in ccrs, Converge(g)
      PROVE  Invisible
  <2>1. PICK accepted \in BOOLEAN : Advance(g, "send", CodeOf(accepted))
    BY <1>1 DEF Converge
  <2> DEFINE new == [chan |-> g.chan, at |-> "send", code |-> CodeOf(accepted)]
  <2>2. ccrs' = (ccrs \ {g}) \cup {new} /\ forwarders' = forwarders /\ g.at = "converge"
    BY <1>1, <2>1 DEF Converge, Advance
  <2>3. new.chan = g.chan /\ new.at = "send"
    OBVIOUS
  <2> HIDE DEF new
  <2>4. Unaccounted' = Unaccounted
    BY <2>2, <2>3 DEF Unaccounted
  <2> QED
    BY <1>1, <2>4 DEF Converge, Invisible, tally
<1>2. ASSUME NEW g \in ccrs, Close(g)
      PROVE  Invisible
  <2>1. Unaccounted' = Unaccounted
    BY <1>2 DEF Close, Unaccounted
  <2> QED
    BY <1>2, <2>1 DEF Close, Invisible, tally, history
<1>3. ASSUME NEW k \in DOMAIN forwarders, Done(k)
      PROVE  Invisible
  <2>1. /\ ccrs' = ccrs /\ DOMAIN forwarders' = DOMAIN forwarders
        /\ forwarders[k].at # "send" /\ pc # "panic"
        /\ forwarders' = [forwarders EXCEPT ![k].at = "done"]
    BY <1>3 DEF Done, Running
  <2>2. \A m \in DOMAIN forwarders : /\ forwarders'[m].chan = forwarders[m].chan
                                     /\ forwarders'[m].at = "send" <=> forwarders[m].at = "send"
    BY <2>1, RunsInFlight
  <2>3. Unaccounted' = Unaccounted
    BY <2>1, <2>2 DEF Unaccounted
  <2> QED
    BY <1>3, <2>3 DEF Done, Invisible, tally, history
<1>4. ASSUME NEW k \in DOMAIN forwarders, NEW g \in ccrs, Forward(g, k)
      PROVE  Invisible
  BY <1>4, ForwardInFlight DEF Forward, Invisible, tally, history
<1> QED
  BY <1>1, <1>2, <1>3, <1>4 DEF CCRStep, ForwarderStep

\* Launch starts the run whose turn it is, and whatever is in flight belongs
\* to the same batch and was started before.
LEMMA LaunchLaunches ==
  ASSUME IInv, Launch
  PROVE  Abstract!BatchNext
<1>1. /\ UNCHANGED <<config, rejects>> /\ pc = "launch" /\ MoreToLaunch
      /\ runs' = [runs EXCEPT ![nodeNum] = @ + 1]
  BY DEF Launch, tally
<1>2. TypeOK /\ Loops /\ Accounts /\ Usable /\ j < batches
  BY <1>1 DEF IInv, Loops
<1>3. /\ NumNodes \in Nat /\ Threads \in Nat /\ j \in Nat /\ i \in Nat
      /\ i < Threads /\ j * Threads \in Nat /\ nodeNum = i + j * Threads
      /\ nodeNum < NumNodes
  BY <1>1, <1>2, UsableThreads DEF TypeOK, MoreToLaunch, nodeNum
<1>4. nodeNum \in Nodes /\ DOMAIN runs = Nodes /\ Nodes \subseteq Int
  BY <1>2, <1>3 DEF Nodes, TypeOK
<1>5. Abstract!Turn(nodeNum)
  <2>1. Started = nodeNum
    BY <1>1, <1>3 DEF Started
  <2>2. \A n \in Nodes : runs[n] = IF n < nodeNum THEN c + 1 ELSE c
    BY <1>1, <1>2, <2>1 DEF Loops
  <2>3. runs[nodeNum] = c
    BY <1>3, <1>4, <2>2
  <2> QED
    BY <1>4, <2>2, <2>3 DEF Abstract!Turn
<1>6. \A m \in Unaccounted : m < nodeNum /\ m \div Threads = nodeNum \div Threads
  <2> SUFFICES ASSUME NEW m \in Unaccounted
               PROVE  m < nodeNum /\ m \div Threads = nodeNum \div Threads
    OBVIOUS
  <2>1. m \in j * Threads .. j * Threads + i - 1
    BY <1>1, InFlight
  <2>2. PICK k \in Int : k = m - j * Threads
    BY <1>3, <2>1
  <2>3. k \in 0 .. Threads - 1 /\ m = j * Threads + k /\ m < nodeNum
    BY <1>3, <2>1, <2>2
  <2>4. i \in 0 .. Threads - 1 /\ nodeNum = j * Threads + i
    BY <1>3
  <2> QED
    BY <1>3, <2>3, <2>4, BatchOfNode
<1>7. config.DaysBack > 0 => ~rejects
  BY <1>1, <1>2 DEF Accounts, Historical
<1>8. Abstract!Launch(nodeNum)
  BY <1>1, <1>5, <1>6, <1>7, LaunchInFlight DEF Abstract!Launch, Abstract!BatchOf, Threads
<1> QED
  BY <1>4, <1>8 DEF Abstract!BatchNext

\* Collect accounts for a run.
LEMMA CollectAccounts ==
  ASSUME IInv, NEW k \in DOMAIN forwarders, Collect(k)
  PROVE  Abstract!BatchNext
<1> DEFINE n == forwarders[k].chan.node
           accepted == forwarders[k].code = "200"
<1>1. UNCHANGED <<config, runs>> /\ pc # "panic"
  BY DEF Collect, history
<1>2. n \in Unaccounted /\ Unaccounted' = Unaccounted \ {n}
  BY CollectInFlight
<1>3. accepted => config.DataCollector
  BY <1>1, RunsInFlight
<1>4. rejects' = (rejects \/ ~accepted)
  <2>1. rejects \in BOOLEAN
    BY DEF IInv, TypeOK
  <2>2. (accepted /\ rejects' = rejects) \/ (~accepted /\ rejects' = TRUE)
    BY DEF Collect
  <2> QED
    BY <2>1, <2>2, Zenon
<1>5. Abstract!Account(n, accepted)
  BY <1>1, <1>2, <1>3, <1>4 DEF Abstract!Account
<1>6. accepted \in BOOLEAN
  OBVIOUS
<1> QED
  BY <1>2, <1>5, <1>6 DEF Abstract!BatchNext

\* A pause ends when nothing is in flight and something was rejected.
LEMMA PausePauses ==
  ASSUME IInv, Pause
  PROVE  Abstract!BatchNext
<1>1. /\ UNCHANGED <<config, runs, ccrs, forwarders>> /\ pc = "pause" /\ rejects' = FALSE
  BY DEF Pause
<1>2. Unaccounted = {} /\ Unaccounted' = {}
  BY <1>1, NothingInFlight, SameRuns DEF IInv, Goroutines, Forwarders
<1>3. rejects /\ config.DaysBack > 0
  BY <1>1 DEF IInv, Accounts, Historical
<1> QED
  BY <1>1, <1>2, <1>3 DEF Abstract!BatchNext, Abstract!Pause

\* Every step is one of Batches or invisible.
LEMMA NextIsBatchNext ==
  IInv /\ [Next]_vars => [Abstract!BatchNext]_Abstract!batchVars
<1> SUFFICES ASSUME IInv, [Next]_vars PROVE [Abstract!BatchNext]_Abstract!batchVars
  OBVIOUS
<1>1. CASE Launch
  BY <1>1, LaunchLaunches
<1>2. CASE \E k \in DOMAIN forwarders : Collect(k)
  BY <1>2, CollectAccounts
<1>3. CASE Pause
  BY <1>3, PausePauses
<1>4. CASE Prepare \/ Round \/ StartBatch \/ EndRound \/ Merge \/ EndCollect
  BY <1>4, LoopStepsAreInvisible, InvisibleIsStutter
<1>5. CASE CCRStep \/ ForwarderStep
  BY <1>5, GoroutineStepsAreInvisible, InvisibleIsStutter
<1>6. CASE Terminated \/ UNCHANGED vars
  <2>1. Invisible
    BY <1>6, SameRuns DEF Terminated, vars, tally, history, Invisible
  <2> QED
    BY <2>1, InvisibleIsStutter
<1> QED
  BY <1>1, <1>2, <1>3, <1>4, <1>5, <1>6 DEF Next, Main

\* Whatever the interleaving of goroutines, the servers see the rounds and
\* batches of Batches, and no rejection goes without its pause.
THEOREM GoroutinesImplementBatches == Spec => ImplementsBatches
<1>1. Init => Abstract!BatchInit
  <2> SUFFICES ASSUME Init PROVE Abstract!BatchInit
    OBVIOUS
  <2>1. Unaccounted = {}
    BY NothingInFlight DEF Init
  <2> QED
    BY <2>1 DEF Init, Nodes, NumNodes, Abstract!BatchInit
<1> QED
  BY <1>1, NextIsBatchNext, Invariance, PTL DEF Spec, ImplementsBatches, Abstract!BatchSpec
================================================================================
