--------------------------- MODULE GenerateCCRsProofs ---------------------------
(***************************************************************************)
(* Theorems about GenerateCCRs, for every set of configurations.           *)
(***************************************************************************)
EXTENDS GenerateCCRs, TLAPS, FiniteSetTheorems

-----------------------------------------------------------------------------
(* The inductive invariant *)

\* The configurations that get past Prepare.
Usable == ~BadInterval /\ ~config.BrokenClient /\ ~BadThreads

\* How many nodes the last batch has when Threads does not divide them.
Rest == NumNodes % Threads

\* How many nodes batch j has, and the channel of its run number k.
BatchSize == IF (j + 1) * Threads > NumNodes THEN NumNodes - j * Threads ELSE Threads
Chan(k) == [node |-> k + j * Threads, round |-> c]

\* How many nodes have been started in round c.
Started ==
  CASE pc = "batch" -> j * Threads
    [] pc \in {"launch", "collect", "pause"} -> j * Threads + i
    [] OTHER -> 0

\* The loops stay within their bounds, and have started as many runs as they
\* ought to.
Loops ==
  /\ pc = "start" => ccrsTotal = 1 /\ c = 0 /\ j = 0
  /\ pc \notin {"start", "panic"} => Usable /\ ccrsTotal = RunsPerNode
  /\ pc \in {"batch", "launch", "collect", "pause"} => c < ccrsTotal
  /\ pc \in {"launch", "collect", "pause"} => j < batches
  /\ pc = "launch" => i <= BatchSize
  /\ pc \in {"collect", "pause"} => i = BatchSize
  /\ pc = "done" => c = ccrsTotal
  /\ pc # "panic" => \A n \in Nodes : runs[n] = IF n < Started THEN c + 1 ELSE c

\* The slice is as long as the batch needs.  Only what the last batch of the
\* round before has left of it can be too short, for the first batch.
LeftShort ==
  /\ NumNodes > Threads /\ Rest # 0
  /\ DOMAIN channels = 0 .. Rest - 1
  /\ Historical => config.DataCollector
Slice ==
  /\ pc \in {"round", "batch"} =>
       \/ DOMAIN channels = 0 .. Limit(config) - 1
       \/ /\ LeftShort
          /\ pc = "batch" => j \in {0, batches}
          /\ (pc = "batch" /\ j = batches) \/ c > 0
  /\ pc \in {"launch", "collect"} =>
       \/ DOMAIN channels = 0 .. BatchSize - 1
       \/ pc = "launch" /\ j = 0 /\ c > 0 /\ LeftShort /\ i <= Rest
  /\ pc \in {"launch", "collect"} =>
       \A k \in 0 .. i - 1 : k \in DOMAIN channels /\ channels[k] = Chan(k)

\* The goroutines are those of the open batch, one per node at most.
Goroutines ==
  /\ pc \notin {"launch", "collect", "panic"} => ccrs = {}
  /\ pc # "panic" =>
       \A g \in ccrs :
         /\ g.chan.round = c
         /\ g.chan.node \in j * Threads .. j * Threads + i - 1
         /\ g.code = "200" => config.DataCollector
         /\ g.at = "send" => g.code \in Codes
         /\ \A h \in ccrs : h.chan.node = g.chan.node => h = g

\* Every run of the batch has its forwarder, which is behind it.
Forwarders ==
  /\ pc # "collect" => forwarders = <<>>
  /\ pc = "collect" =>
       /\ DOMAIN forwarders = 0 .. i - 1
       /\ \A k \in DOMAIN forwarders :
            /\ forwarders[k].chan = Chan(k)
            /\ forwarders[k].code = "200" => config.DataCollector
            /\ forwarders[k].at = "send" => forwarders[k].code \in Codes
            /\ \A g \in ccrs : g.chan.node = k + j * Threads =>
                 /\ forwarders[k].at # "done"
                 /\ g.at # "close" => forwarders[k].at = "receive"

\* The nodes that converge, and those whose runs will be counted as rejected.
Converging == {g.chan.node : g \in {x \in ccrs : x.at = "converge"}}
Refusals ==
  {g.chan.node : g \in {x \in ccrs : x.at = "send" /\ x.code = "other"}}
  \cup {forwarders[k].chan.node :
          k \in {x \in DOMAIN forwarders : /\ forwarders[x].at = "send"
                                           /\ forwarders[x].code = "other"}}

\* Every run since the last reset is counted or on its way, and a code that is
\* counted as rejected shows in rejects.
Accounts ==
  /\ pc # "panic" =>
       /\ unreported = ccrsIngested + ccrsRejected + Cardinality(Unaccounted)
       /\ config.DataCollector => refused = ccrsRejected + Cardinality(Refusals)
       /\ ~config.DataCollector => ccrsIngested = 0
       /\ refused + Cardinality(Converging) <= unreported
  /\ pc \in {"launch", "collect"} => unreported >= i
  /\ rejects <=> ccrsRejected > 0
  /\ Historical /\ pc \in {"start", "round", "batch", "launch"} => ~rejects
  /\ pc = "pause" => rejects /\ Historical

IInv ==
  /\ TypeOK
  /\ Loops
  /\ Slice
  /\ Goroutines
  /\ Forwarders
  /\ Accounts
  /\ PanicsExplained

-----------------------------------------------------------------------------
(* The arithmetic of batches *)

\* Multiplication keeps the order.
LEMMA TimesIsMonotonic ==
  ASSUME NEW T \in Nat, NEW a \in Int, NEW b \in Int, a <= b
  PROVE  a * T <= b * T
  OBVIOUS

\* Quotient and remainder.
LEMMA Division ==
  ASSUME NEW N \in Nat, NEW T \in Nat, T > 0
  PROVE  /\ N \div T \in Nat
         /\ N % T \in 0 .. T - 1
         /\ N = (N \div T) * T + (N % T)
  OBVIOUS

\* How many batches of T it takes to cover N nodes.
LeastCover(N, T) == IF N > T THEN N \div T + (IF N % T = 0 THEN 0 ELSE 1) ELSE 1

\* That many batches cover all nodes, none is empty unless there are no nodes,
\* and only the last may be short.
LEMMA Batching ==
  ASSUME NEW N \in Nat, NEW T \in Nat, N > T => T > 0, NEW k \in Nat, NEW b,
         b = LeastCover(N, T)
  PROVE  /\ b \in Nat /\ b > 0
         /\ k < b => k * T <= N /\ (N > 0 => k * T < N)
         /\ k < b /\ (k + 1) * T > N => N - k * T = N % T /\ (N > T => k + 1 = b)
         /\ k < b /\ (k + 1) * T <= N /\ ~(N > T) => N = T /\ k = 0
         /\ k = b => k * T >= N
<1>1. CASE ~(N > T)
  <2>1. b = 1 /\ (k < b => k = 0) /\ 0 * T = 0 /\ 1 * T = T
    BY <1>1 DEF LeastCover
  <2>2. N < T => N % T = N
    OBVIOUS
  <2> QED
    BY <1>1, <2>1, <2>2
<1>2. CASE N > T
  <2>1. PICK q \in Nat : q = N \div T
    BY <1>2, Division
  <2>2. PICK r \in 0 .. T - 1 : r = N % T
    BY <1>2, Division
  <2>3. N = q * T + r
    BY <1>2, <2>1, <2>2, Division
  <2>4. b = IF r = 0 THEN q ELSE q + 1
    BY <1>2, <2>1, <2>2 DEF LeastCover
  <2>5. q > 0
    <3>1. q = 0 => q * T = 0
      OBVIOUS
    <3> QED
      BY <1>2, <2>3, <3>1
  <2>6. (k + 1) * T = k * T + T /\ (q + 1) * T = q * T + T /\ k * T \in Nat /\ q * T \in Nat
    OBVIOUS
  <2>7. (k + 1 <= q => (k + 1) * T <= q * T) /\ (q + 1 <= k => (q + 1) * T <= k * T)
    BY TimesIsMonotonic
  <2>8. CASE k < q
    BY <1>2, <2>2, <2>3, <2>4, <2>6, <2>7, <2>8
  <2>9. CASE k = q
    BY <1>2, <2>2, <2>3, <2>4, <2>5, <2>6, <2>9
  <2>10. CASE k > q
    BY <1>2, <2>2, <2>3, <2>4, <2>5, <2>6, <2>7, <2>10
  <2> QED
    BY <2>8, <2>9, <2>10
<1> QED
  BY <1>1, <1>2

\* A node of batch j is in batch j.
LEMMA BatchOfNode ==
  ASSUME NEW T \in Nat, NEW k \in 0 .. T - 1, NEW b \in Nat
  PROVE  (b * T + k) \div T = b
<1>1. T * b <= b * T + k /\ b * T + k < T * (b + 1)
  OBVIOUS
<1> QED
  BY <1>1

-----------------------------------------------------------------------------
(* The configuration and the open batch *)

\* The numbers of a configuration.
LEMMA ConfigTypes ==
  ASSUME TypeOK
  PROVE  /\ NumNodes \in Nat /\ Threads \in Int
         /\ config.DaysBack \in Nat /\ config.Interval \in Nat
         /\ config.DataCollector \in BOOLEAN
BY GenerateAssumption DEF TypeOK, NumNodes, Threads

\* A usable configuration has threads for its nodes, and at least one batch.
LEMMA UsableThreads ==
  ASSUME TypeOK, Usable
  PROVE  /\ NumNodes \in Nat /\ Threads \in Nat /\ batches \in Nat /\ batches > 0
         /\ NumNodes > Threads => Threads > 0
<1>1. NumNodes \in Nat /\ Threads \in Nat /\ (NumNodes > Threads => Threads > 0)
  BY ConfigTypes DEF Usable, BadThreads
<1> QED
  <2>1. batches = LeastCover(NumNodes, Threads)
    BY DEF batches, LeastCover
  <2> QED
    BY <1>1, <2>1, Batching

\* What there is to know of batch j while it is open.
LEMMA OpenBatch ==
  ASSUME TypeOK, Usable, j \in Nat, j < batches
  PROVE  /\ j * Threads \in Nat /\ (j + 1) * Threads = j * Threads + Threads
         /\ BatchSize \in 0 .. Threads /\ BatchSize <= NumNodes
         /\ j * Threads + BatchSize <= NumNodes
         /\ NumNodes > 0 => BatchSize > 0
         /\ \A n \in Nodes : n < j * Threads + BatchSize <=> n < (j + 1) * Threads
         /\ \A k \in Nat : k < Threads /\ k + j * Threads < NumNodes <=> k < BatchSize
         /\ (j + 1) * Threads > NumNodes =>
              /\ BatchSize = Rest
              /\ NumNodes > Threads => j + 1 = batches /\ Rest # 0
         /\ ~((j + 1) * Threads > NumNodes) => BatchSize = Limit(config)
<1>1. /\ NumNodes \in Nat /\ Threads \in Nat /\ (NumNodes > Threads => Threads > 0)
      /\ batches \in Nat
  BY UsableThreads
<1>2. j * Threads \in Nat /\ (j + 1) * Threads = j * Threads + Threads
  BY <1>1
<1>3. /\ j * Threads <= NumNodes /\ (NumNodes > 0 => j * Threads < NumNodes)
      /\ (j + 1) * Threads > NumNodes =>
            NumNodes - j * Threads = Rest /\ (NumNodes > Threads => j + 1 = batches)
      /\ (j + 1) * Threads <= NumNodes /\ ~(NumNodes > Threads) => NumNodes = Threads
  <2>1. batches = LeastCover(NumNodes, Threads)
    BY DEF batches, LeastCover
  <2> QED
    BY <1>1, <2>1, Batching DEF Rest
<1>4. Limit(config) = IF NumNodes > Threads THEN Threads ELSE NumNodes
  BY DEF Limit, NumNodes, Threads
<1>5. Nodes \subseteq Nat /\ \A n \in Nodes : n < NumNodes
  BY <1>1 DEF Nodes
<1>6. PICK p \in Nat : p = j * Threads
  BY <1>2
<1>7. CASE (j + 1) * Threads > NumNodes
  <2>1. BatchSize = NumNodes - p
    BY <1>6, <1>7 DEF BatchSize
  <2> QED
    BY <1>1, <1>2, <1>3, <1>5, <1>6, <1>7, <2>1
<1>8. CASE ~((j + 1) * Threads > NumNodes)
  <2>1. BatchSize = Threads
    BY <1>8 DEF BatchSize
  <2> QED
    BY <1>1, <1>2, <1>3, <1>4, <1>5, <1>6, <1>8, <2>1
<1> QED
  BY <1>7, <1>8

\* When all batches are done all nodes have been started.
LEMMA NoBatchLeft ==
  ASSUME TypeOK, Usable, j = batches
  PROVE  \A n \in Nodes : n < j * Threads
<1>1. batches = LeastCover(NumNodes, Threads)
  BY DEF batches, LeastCover
<1>2. j * Threads >= NumNodes
  BY <1>1, UsableThreads, Batching
<1> QED
  BY <1>2, UsableThreads DEF Nodes

\* Without goroutines and forwarders every run is accounted for.
LEMMA NothingInFlight ==
  ASSUME ccrs = {}, forwarders = <<>>
  PROVE  Unaccounted = {} /\ Refusals = {} /\ Converging = {}
BY DEF Unaccounted, Refusals, Converging

\* Cardinality of the empty set.
LEMMA NoneAtAll == Cardinality({}) = 0
BY FS_EmptySet

-----------------------------------------------------------------------------
(* The steps of the main goroutine *)

\* What depends on the configuration alone.
LEMMA SameConfig ==
  ASSUME config' = config
  PROVE  /\ NumNodes' = NumNodes /\ Threads' = Threads /\ Nodes' = Nodes
         /\ batches' = batches /\ Rest' = Rest /\ Limit(config)' = Limit(config)
         /\ RunsPerNode' = RunsPerNode
         /\ Historical' <=> Historical
         /\ BadInterval' <=> BadInterval
         /\ BadThreads' <=> BadThreads
         /\ Usable' <=> Usable
BY DEF NumNodes, Threads, Nodes, batches, Rest, Limit, RunsPerNode, Historical, BadInterval,
   BadThreads, Usable

\* A usable configuration has a number of runs per node.
LEMMA RunsPerNodeType ==
  ASSUME TypeOK, Usable
  PROVE  RunsPerNode \in Nat
<1>1. Historical => (MinutesPerDay \div config.Interval) \in Nat
  BY ConfigTypes DEF Usable, BadInterval, MinutesPerDay
<1> QED
  BY <1>1, ConfigTypes DEF RunsPerNode

\* A slice of nil channels.
LEMMA NilSliceType ==
  ASSUME NEW N \in Nat, NEW size \in 0 .. N
  PROVE  /\ DOMAIN NilSlice(size) = 0 .. size - 1
         /\ \E s \in 0 .. N : NilSlice(size) \in [0 .. s - 1 -> Channel \cup {NilChannel}]
BY DEF NilSlice

\* The slice at the beginning and after a pause.
LEMMA FullSlice ==
  ASSUME TypeOK, Usable
  PROVE  Limit(config) \in 0 .. NumNodes
BY UsableThreads DEF Limit, NumNodes, Threads

\* As long as no run is started, ended or counted the accounts stay as they are.
LEMMA SameRuns ==
  ASSUME UNCHANGED <<ccrs, forwarders>>
  PROVE  Unaccounted' = Unaccounted /\ Refusals' = Refusals /\ Converging' = Converging
BY DEF Unaccounted, Refusals, Converging

\* The initial states satisfy the invariant.
LEMMA InitIInv == Init => IInv
<1> SUFFICES ASSUME Init PROVE IInv
  OBVIOUS
<1>1. NumNodes \in Nat
  BY GenerateAssumption DEF Init, NumNodes
<1>2. TypeOK
  <2>1. channels \in [0 .. 0 - 1 -> Channel \cup {NilChannel}]
    BY DEF Init
  <2>2. runs \in [Nodes -> 0 .. ccrsTotal]
    BY DEF Init
  <2>3. \E size \in 0 .. NumNodes : channels \in [0 .. size - 1 -> Channel \cup {NilChannel}]
    BY <1>1, <2>1
  <2>4. DOMAIN forwarders = {} /\ DOMAIN forwarders \subseteq DOMAIN channels
    BY DEF Init
  <2>5. /\ config \in Configs /\ pc = "start" /\ ccrsTotal = 1 /\ c = 0 /\ i = 0 /\ ccrs = {}
        /\ rejects = FALSE /\ ccrsIngested = 0 /\ ccrsRejected = 0
        /\ unreported = 0 /\ refused = 0
    BY DEF Init
  <2>6. c \in 0 .. ccrsTotal /\ i \in 0 .. NumNodes /\ refused \in 0 .. unreported
    BY <1>1, <2>5
  <2>7. \A k \in DOMAIN forwarders :
          forwarders[k] \in [chan : Channel \cup {NilChannel},
                             at : {"receive", "send", "done"}, code : Codes \cup {NoCode}]
    BY <2>4
  <2> QED
    BY <2>2, <2>3, <2>4, <2>5, <2>6, <2>7, Zenon DEF TypeOK
<1>3. Loops
  BY DEF Init, Loops, Started
<1>4. Slice /\ Goroutines /\ Forwarders /\ PanicsExplained
  BY DEF Init, Slice, Goroutines, Forwarders, PanicsExplained
<1>5. Accounts
  <2>1. Unaccounted = {} /\ Refusals = {} /\ Converging = {}
    BY NothingInFlight DEF Init
  <2>2. /\ Cardinality(Unaccounted) = 0 /\ Cardinality(Refusals) = 0
        /\ Cardinality(Converging) = 0
    BY <2>1, NoneAtAll
  <2>3. pc = "start" /\ rejects = FALSE /\ ccrsRejected = 0 /\ ccrsIngested = 0
        /\ unreported = 0 /\ refused = 0
    BY DEF Init
  <2> QED
    BY <2>2, <2>3 DEF Accounts
<1> QED
  BY <1>2, <1>3, <1>4, <1>5 DEF IInv

\* Prepare ends the process or makes the slice.
LEMMA PrepareStep ==
  ASSUME IInv, Prepare
  PROVE  IInv'
<1>1. UNCHANGED <<config, c, j, i, ccrs, forwarders, rejects, ccrsIngested, ccrsRejected,
                  runs, unreported, refused>> /\ pc = "start"
  BY DEF Prepare, loopVars, tally, history
<1>2. TypeOK /\ Loops /\ Goroutines /\ Forwarders /\ Accounts
  BY DEF IInv
<1>3. ccrs = {} /\ forwarders = <<>> /\ c = 0 /\ ccrsTotal = 1
  BY <1>1, <1>2 DEF Goroutines, Forwarders, Loops
<1>4. (Goroutines /\ Forwarders)'
  BY <1>1, <1>3 DEF Goroutines, Forwarders, Prepare
<1>5. CASE ~Usable
  <2>1. pc' = "panic" /\ UNCHANGED <<ccrsTotal, channels>>
    BY <1>5 DEF Usable, Prepare
  <2>2. TypeOK'
    BY <1>1, <1>2, <2>1, SameConfig DEF TypeOK
  <2>3. (Loops /\ Slice)'
    BY <2>1 DEF Loops, Slice
  <2>4. Accounts'
    BY <1>1, <1>2, <2>1, SameConfig DEF Accounts
  <2>5. PanicsExplained'
    BY <1>1, <1>5, <2>1, SameConfig DEF PanicsExplained, Usable
  <2> QED
    BY <1>4, <2>2, <2>3, <2>4, <2>5 DEF IInv
<1>6. CASE Usable
  <2>1. pc' = "round" /\ ccrsTotal' = RunsPerNode /\ channels' = NilSlice(Limit(config))
    BY <1>6 DEF Usable, Prepare
  <2>2. RunsPerNode \in Nat /\ NumNodes \in Nat /\ batches \in Nat /\ Limit(config) \in 0 .. NumNodes
    BY <1>2, <1>6, RunsPerNodeType, UsableThreads, FullSlice
  <2>3. \A n \in Nodes : runs[n] = 0
    BY <1>1, <1>2, <1>3 DEF Loops, Started, Nodes
  <2>4. TypeOK'
    <3>1. runs \in [Nodes -> 0 .. RunsPerNode]
      BY <1>2, <2>2, <2>3 DEF TypeOK
    <3>2. j \in 0 .. batches
      BY <1>1, <1>2, <2>2 DEF Loops
    <3>3. /\ \E size \in 0 .. NumNodes :
               channels' \in [0 .. size - 1 -> Channel \cup {NilChannel}]
          /\ DOMAIN forwarders \subseteq DOMAIN channels'
      BY <1>3, <2>1, <2>2, NilSliceType
    <3> QED
      BY <1>1, <1>2, <1>3, <2>1, <2>2, <3>1, <3>2, <3>3, SameConfig DEF TypeOK
  <2>5. Loops'
    BY <1>1, <1>3, <1>6, <2>1, <2>2, <2>3, SameConfig DEF Loops, Started, Nodes
  <2>6. Slice'
    BY <2>1, <2>2, NilSliceType, SameConfig, <1>1 DEF Slice
  <2>7. Accounts'
    BY <1>1, <1>2, <2>1, SameConfig, SameRuns DEF Accounts
  <2>8. PanicsExplained'
    BY <2>1 DEF PanicsExplained
  <2> QED
    BY <1>4, <2>4, <2>5, <2>6, <2>7, <2>8 DEF IInv
<1> QED
  BY <1>5, <1>6

\* Without goroutines and forwarders there is nothing to account for.
LEMMA AccountsAtRest ==
  ASSUME Accounts, TypeOK, ccrs = {}, forwarders = <<>>, pc # "panic"
  PROVE  /\ unreported = ccrsIngested + ccrsRejected
         /\ config.DataCollector => refused = ccrsRejected
<1>1. /\ Cardinality(Unaccounted) = 0 /\ Cardinality(Refusals) = 0
  BY NothingInFlight, NoneAtAll
<1> QED
  BY <1>1 DEF Accounts, TypeOK

\* Round starts a round or ends the function.
LEMMA RoundStep ==
  ASSUME IInv, Round
  PROVE  IInv'
<1>1. UNCHANGED <<config, ccrsTotal, c, i, channels, ccrs, forwarders, rejects, ccrsIngested,
                  ccrsRejected, runs, unreported, refused>>
      /\ pc = "round" /\ j' = 0 /\ pc' = IF c < ccrsTotal THEN "batch" ELSE "done"
  BY DEF Round, loopVars, tally, history
<1>2. TypeOK /\ Loops /\ Slice /\ Goroutines /\ Forwarders /\ Accounts
  BY DEF IInv
<1>3. ccrs = {} /\ forwarders = <<>> /\ Usable
  BY <1>1, <1>2 DEF Goroutines, Forwarders, Loops
<1>4. NumNodes \in Nat /\ Threads \in Nat /\ batches \in Nat
  BY <1>2, <1>3, UsableThreads
<1>5. TypeOK'
  BY <1>1, <1>2, <1>4, SameConfig DEF TypeOK
<1>6. Loops'
  <2>1. Started = 0 /\ Started' = 0
    BY <1>1, <1>4, SameConfig DEF Started
  <2>2. ccrsTotal \in Nat /\ c \in 0 .. ccrsTotal
    BY <1>2 DEF TypeOK
  <2>3. \A n \in Nodes : runs[n] = c
    BY <1>1, <1>2, <1>4, <2>1 DEF Loops, Nodes
  <2> QED
    BY <1>1, <1>2, <1>4, <2>1, <2>2, <2>3, SameConfig DEF Loops, Nodes
<1>7. Slice'
  <2>1. LeftShort => LeftShort'
    BY <1>1, SameConfig DEF LeftShort
  <2> QED
    BY <1>1, <1>2, <2>1, SameConfig DEF Slice
<1>8. (Goroutines /\ Forwarders)'
  BY <1>1, <1>3 DEF Goroutines, Forwarders
<1>9. Accounts'
  BY <1>1, <1>2, SameConfig, SameRuns DEF Accounts
<1>10. PanicsExplained'
  BY <1>1 DEF PanicsExplained
<1> QED
  BY <1>5, <1>6, <1>7, <1>8, <1>9, <1>10 DEF IInv

\* StartBatch shortens the slice for a batch that does not fill it.
LEMMA StartBatchStep ==
  ASSUME IInv, StartBatch
  PROVE  IInv'
<1>1. UNCHANGED <<config, ccrsTotal, c, j, ccrs, forwarders, rejects, ccrsIngested,
                  ccrsRejected, runs, unreported, refused>>
      /\ pc = "batch" /\ j < batches /\ i' = 0 /\ pc' = "launch"
      /\ channels' = IF (j + 1) * Threads > NumNodes THEN NilSlice(Rest) ELSE channels
  BY DEF StartBatch, loopVars, tally, history, Rest
<1>2. TypeOK /\ Loops /\ Slice /\ Goroutines /\ Forwarders /\ Accounts
  BY DEF IInv
<1>3. ccrs = {} /\ forwarders = <<>> /\ Usable
  BY <1>1, <1>2 DEF Goroutines, Forwarders, Loops
<1>4. /\ NumNodes \in Nat /\ Threads \in Nat /\ batches \in Nat /\ j \in Nat
      /\ NumNodes > Threads => Threads > 0
  BY <1>1, <1>2, <1>3, UsableThreads DEF TypeOK
<1>5. /\ BatchSize \in 0 .. Threads /\ BatchSize <= NumNodes /\ j * Threads \in Nat
      /\ (j + 1) * Threads > NumNodes => BatchSize = Rest
      /\ ~((j + 1) * Threads > NumNodes) => BatchSize = Limit(config)
  BY <1>1, <1>2, <1>3, <1>4, OpenBatch
<1>6. BatchSize' = BatchSize
  BY <1>1, SameConfig DEF BatchSize
<1>7. /\ \E size \in 0 .. NumNodes : channels' \in [0 .. size - 1 -> Channel \cup {NilChannel}]
      /\ Slice'
  <2>1. CASE (j + 1) * Threads > NumNodes
    <3>1. /\ DOMAIN channels' = 0 .. BatchSize - 1
          /\ \E size \in 0 .. NumNodes :
               channels' \in [0 .. size - 1 -> Channel \cup {NilChannel}]
      BY <1>1, <1>4, <1>5, <2>1, NilSliceType
    <3> QED
      BY <1>1, <1>6, <3>1 DEF Slice
  <2>2. CASE ~((j + 1) * Threads > NumNodes)
    <3>1. channels' = channels
      BY <1>1, <2>2
    <3>2. LeftShort => LeftShort' /\ Rest \in Nat
      <4>1. LeftShort => Rest \in Nat
        BY <1>4, Division DEF Rest, LeftShort
      <4> QED
        BY <1>1, <3>1, <4>1, SameConfig DEF LeftShort
    <3>3. DOMAIN channels = 0 .. Limit(config) - 1 \/ (LeftShort /\ j = 0 /\ c > 0)
      BY <1>1, <1>2, <1>4 DEF Slice
    <3>4. DOMAIN channels' = 0 .. BatchSize - 1 \/ (LeftShort' /\ j = 0 /\ c > 0 /\ 0 <= Rest)
      BY <1>5, <2>2, <3>1, <3>2, <3>3
    <3>5. Slice'
      BY <1>1, <1>6, <3>4, SameConfig DEF Slice
    <3> QED
      BY <1>2, <3>1, <3>5 DEF TypeOK
  <2> QED
    BY <2>1, <2>2
<1>8. TypeOK'
  <2>1. DOMAIN forwarders' \subseteq DOMAIN channels'
    BY <1>1, <1>3
  <2> QED
    BY <1>1, <1>2, <1>4, <1>7, <2>1, SameConfig DEF TypeOK
<1>9. Loops'
  <2>1. Started' = Started
    BY <1>1, <1>4, <1>5, SameConfig DEF Started
  <2> QED
    BY <1>1, <1>2, <1>5, <1>6, <2>1, SameConfig DEF Loops
<1>10. (Goroutines /\ Forwarders)'
  BY <1>1, <1>3 DEF Goroutines, Forwarders
<1>11. Accounts'
  BY <1>1, <1>2, SameConfig, SameRuns DEF Accounts, TypeOK
<1>12. PanicsExplained'
  BY <1>1 DEF PanicsExplained
<1> QED
  BY <1>7, <1>8, <1>9, <1>10, <1>11, <1>12 DEF IInv

\* EndRound goes on to the next round when every node has run in this one.
LEMMA EndRoundStep ==
  ASSUME IInv, EndRound
  PROVE  IInv'
<1>1. UNCHANGED <<config, ccrsTotal, j, i, channels, ccrs, forwarders, rejects, ccrsIngested,
                  ccrsRejected, runs, unreported, refused>>
      /\ pc = "batch" /\ j = batches /\ c' = c + 1 /\ pc' = "round"
  BY DEF EndRound, tally, history
<1>2. TypeOK /\ Loops /\ Slice /\ Goroutines /\ Forwarders /\ Accounts
  BY DEF IInv
<1>3. ccrs = {} /\ forwarders = <<>> /\ Usable /\ c < ccrsTotal
  BY <1>1, <1>2 DEF Goroutines, Forwarders, Loops
<1>4. ccrsTotal \in Nat /\ c \in 0 .. ccrsTotal /\ NumNodes \in Nat
  BY <1>2, <1>3, UsableThreads DEF TypeOK
<1>5. TypeOK'
  BY <1>1, <1>2, <1>3, <1>4, SameConfig DEF TypeOK
<1>6. Loops'
  <2>1. \A n \in Nodes : runs[n] = c + 1
    <3>1. \A n \in Nodes : n < Started
      BY <1>1, <1>2, <1>3, NoBatchLeft DEF Started
    <3> QED
      BY <1>1, <1>2, <3>1 DEF Loops
  <2>2. Started' = 0
    BY <1>1 DEF Started
  <2> QED
    BY <1>1, <1>2, <1>4, <2>1, <2>2, SameConfig DEF Loops, Nodes
<1>7. Slice'
  <2>1. LeftShort => LeftShort'
    BY <1>1, SameConfig DEF LeftShort
  <2> QED
    BY <1>1, <1>2, <1>4, <2>1, SameConfig DEF Slice
<1>8. (Goroutines /\ Forwarders)'
  BY <1>1, <1>3 DEF Goroutines, Forwarders
<1>9. Accounts'
  BY <1>1, <1>2, SameConfig, SameRuns DEF Accounts
<1>10. PanicsExplained'
  BY <1>1 DEF PanicsExplained
<1> QED
  BY <1>5, <1>6, <1>7, <1>8, <1>9, <1>10 DEF IInv

\* A loop that has nothing more to launch has launched the whole batch, and the
\* slice was long enough.
LEMMA BatchComplete ==
  ASSUME IInv, pc = "launch", ~MoreToLaunch
  PROVE  i = BatchSize /\ DOMAIN channels = 0 .. BatchSize - 1
<1>1. TypeOK /\ Loops /\ Slice /\ Usable /\ j < batches
  BY DEF IInv, Loops
<1>2. j \in Nat /\ i \in Nat /\ NumNodes \in Nat /\ Threads \in Nat
      /\ (NumNodes > Threads => Threads > 0)
  BY <1>1, UsableThreads DEF TypeOK
<1>3. /\ BatchSize \in 0 .. Threads /\ j * Threads \in Nat
      /\ \A k \in Nat : k < Threads /\ k + j * Threads < NumNodes <=> k < BatchSize
      /\ ~((j + 1) * Threads > NumNodes) => BatchSize = Limit(config)
  BY <1>1, <1>2, OpenBatch
<1>4. i = BatchSize
  <2>1. i <= BatchSize /\ ~(i < Threads /\ i + j * Threads < NumNodes)
    BY <1>1 DEF Loops, MoreToLaunch, nodeNum
  <2>2. ~(i < BatchSize)
    BY <1>2, <1>3, <2>1
  <2> QED
    BY <1>2, <1>3, <2>1, <2>2
<1>5. ~(j = 0 /\ LeftShort /\ i <= Rest)
  <2> SUFFICES ASSUME j = 0, LeftShort, i <= Rest PROVE FALSE
    OBVIOUS
  <2>1. NumNodes > Threads /\ Threads > 0 /\ Rest \in 0 .. Threads - 1
    BY <1>2, Division DEF LeftShort, Rest
  <2>2. (j + 1) * Threads = Threads
    BY <1>2
  <2>3. BatchSize = Threads
    BY <1>2, <1>3, <2>1, <2>2 DEF BatchSize
  <2> QED
    BY <1>2, <1>4, <2>1, <2>3
<1> QED
  BY <1>1, <1>4, <1>5 DEF Slice

\* merge starts a forwarder for every run of the batch.
LEMMA MergeStep ==
  ASSUME IInv, Merge
  PROVE  IInv'
<1>1. UNCHANGED <<config, ccrsTotal, c, j, i, channels, ccrs, rejects, ccrsIngested,
                  ccrsRejected, runs, unreported, refused>>
      /\ pc = "launch" /\ ~MoreToLaunch /\ pc' = "collect"
      /\ forwarders' = [k \in DOMAIN channels |->
                          [chan |-> channels[k], at |-> "receive", code |-> NoCode]]
  BY DEF Merge, loopVars, tally, history
<1>2. TypeOK /\ Loops /\ Slice /\ Goroutines /\ Forwarders /\ Accounts
  BY DEF IInv
<1>3. i = BatchSize /\ DOMAIN channels = 0 .. BatchSize - 1
  BY <1>1, BatchComplete
<1>4. forwarders = <<>> /\ Usable /\ j < batches
  BY <1>1, <1>2 DEF Forwarders, Loops
<1>5. BatchSize' = BatchSize /\ \A k : Chan(k)' = Chan(k)
  BY <1>1, SameConfig DEF BatchSize, Chan
<1>6. \A k \in DOMAIN channels : channels[k] = Chan(k)
  BY <1>1, <1>2, <1>3 DEF Slice
<1>7. \A k \in DOMAIN forwarders' :
        forwarders'[k] = [chan |-> Chan(k), at |-> "receive", code |-> NoCode]
  BY <1>1, <1>6
<1>8. TypeOK'
  <2>1. \A k \in DOMAIN channels : channels[k] \in Channel \cup {NilChannel}
    BY <1>2 DEF TypeOK
  <2>2. \A k \in DOMAIN forwarders' :
          forwarders'[k] \in [chan : Channel \cup {NilChannel},
                              at : {"receive", "send", "done"}, code : Codes \cup {NoCode}]
    BY <1>1, <2>1
  <2>3. DOMAIN forwarders' \subseteq DOMAIN channels'
    BY <1>1
  <2> QED
    BY <1>1, <1>2, <2>2, <2>3, SameConfig DEF TypeOK
<1>9. Loops'
  <2>1. Started' = Started
    BY <1>1, SameConfig DEF Started
  <2> QED
    BY <1>1, <1>2, <1>3, <1>5, <2>1, SameConfig DEF Loops
<1>10. Slice'
  BY <1>1, <1>2, <1>3, <1>5 DEF Slice
<1>11. Goroutines'
  BY <1>1, <1>2, SameConfig DEF Goroutines
<1>12. Forwarders'
  BY <1>1, <1>3, <1>5, <1>7, SameConfig DEF Forwarders, NoCode
<1>13. Accounts'
  <2>1. Unaccounted' = Unaccounted /\ Refusals' = Refusals /\ Converging' = Converging
    BY <1>1, <1>4, <1>7 DEF Unaccounted, Refusals, Converging
  <2> QED
    BY <1>1, <1>2, <2>1, SameConfig DEF Accounts
<1>14. PanicsExplained'
  BY <1>1 DEF PanicsExplained
<1> QED
  BY <1>8, <1>9, <1>10, <1>11, <1>12, <1>13, <1>14 DEF IInv

\* When all forwarders are done all goroutines have ended.
LEMMA AllDone ==
  ASSUME IInv, pc = "collect", \A k \in DOMAIN forwarders : forwarders[k].at = "done"
  PROVE  ccrs = {} /\ Unaccounted = {} /\ Refusals = {} /\ Converging = {}
<1>1. TypeOK /\ Loops /\ Goroutines /\ Forwarders /\ Usable /\ j < batches
  BY DEF IInv, Loops
<1>2. i \in Nat /\ j * Threads \in Nat
  BY <1>1, UsableThreads DEF TypeOK
<1>3. ccrs = {}
  <2> SUFFICES ASSUME NEW g \in ccrs PROVE FALSE
    OBVIOUS
  <2>1. g.chan.node \in j * Threads .. j * Threads + i - 1
    BY <1>1 DEF Goroutines
  <2>2. PICK k \in Int : k = g.chan.node - j * Threads
    BY <1>2, <2>1
  <2>3. k \in 0 .. i - 1 /\ g.chan.node = k + j * Threads
    BY <1>2, <2>1, <2>2
  <2> QED
    BY <1>1, <2>3 DEF Forwarders
<1> QED
  BY <1>3 DEF Unaccounted, Refusals, Converging

\* EndCollect goes on to the pause or to the next batch.
LEMMA EndCollectStep ==
  ASSUME IInv, EndCollect
  PROVE  IInv'
<1>1. /\ UNCHANGED <<config, ccrsTotal, c, i, channels, ccrs, rejects, ccrsIngested,
                     ccrsRejected, runs, unreported, refused>>
      /\ pc = "collect" /\ forwarders' = <<>>
      /\ \A k \in DOMAIN forwarders : forwarders[k].at = "done"
      /\ \/ Historical /\ rejects /\ pc' = "pause" /\ j' = j
         \/ ~(Historical /\ rejects) /\ pc' = "batch" /\ j' = j + 1
  BY DEF EndCollect, AfterBatch, tally, history
<1>2. TypeOK /\ Loops /\ Slice /\ Goroutines /\ Forwarders /\ Accounts
  BY DEF IInv
<1>3. Usable /\ j < batches /\ i = BatchSize /\ c < ccrsTotal
  BY <1>1, <1>2 DEF Loops
<1>4. /\ NumNodes \in Nat /\ Threads \in Nat /\ batches \in Nat /\ j \in Nat
      /\ NumNodes > Threads => Threads > 0
  BY <1>1, <1>2, <1>3, UsableThreads DEF TypeOK
<1>5. /\ ccrs = {} /\ Unaccounted = {} /\ Refusals = {} /\ Converging = {}
      /\ Unaccounted' = {} /\ Refusals' = {} /\ Converging' = {}
  BY <1>1, AllDone DEF Unaccounted, Refusals, Converging
<1>6. TypeOK'
  <2>1. j' \in 0 .. batches
    BY <1>1, <1>3, <1>4
  <2>2. \A k \in DOMAIN forwarders' : FALSE
    BY <1>1
  <2>3. pc' \in {"pause", "batch"}
    BY <1>1
  <2> QED
    BY <1>1, <1>2, <2>1, <2>2, <2>3, SameConfig DEF TypeOK
<1>7. Loops'
  <2>1. Started = j * Threads + BatchSize
    BY <1>1, <1>3 DEF Started
  <2>2. \A n \in Nodes : n < j * Threads + BatchSize <=> n < (j + 1) * Threads
    BY <1>2, <1>3, <1>4, OpenBatch
  <2>3. CASE Historical /\ rejects
    <3>1. Started' = Started /\ BatchSize' = BatchSize
      BY <1>1, <2>3, SameConfig DEF Started, BatchSize
    <3> QED
      BY <1>1, <1>2, <1>3, <2>3, <3>1, SameConfig DEF Loops
  <2>4. CASE ~(Historical /\ rejects)
    <3>1. Started' = (j + 1) * Threads
      BY <1>1, <2>4, SameConfig DEF Started
    <3>2. \A n \in Nodes : n < Started <=> n < Started'
      BY <2>1, <2>2, <3>1
    <3>3. \A n \in Nodes : runs[n] = IF n < Started' THEN c + 1 ELSE c
      BY <1>1, <1>2, <3>2 DEF Loops
    <3> QED
      BY <1>1, <1>2, <1>3, <2>4, <3>3, SameConfig DEF Loops
  <2> QED
    BY <2>3, <2>4
<1>8. Slice'
  <2>1. CASE Historical /\ rejects
    BY <1>1, <2>1 DEF Slice
  <2>2. CASE ~(Historical /\ rejects)
    <3>1. /\ (j + 1) * Threads > NumNodes =>
               /\ BatchSize = Rest
               /\ NumNodes > Threads => j + 1 = batches /\ Rest # 0
          /\ ~((j + 1) * Threads > NumNodes) => BatchSize = Limit(config)
          /\ NumNodes > 0 => BatchSize > 0
          /\ BatchSize \in 0 .. Threads
      BY <1>2, <1>3, <1>4, OpenBatch
    <3>2. DOMAIN channels = 0 .. BatchSize - 1
      BY <1>1, <1>2 DEF Slice
    <3>3. ~(NumNodes > Threads) => BatchSize = Limit(config)
      <4> SUFFICES ASSUME ~(NumNodes > Threads), (j + 1) * Threads > NumNodes
                   PROVE  BatchSize = NumNodes /\ Limit(config) = NumNodes
        BY <3>1
      <4>1. j = 0
        BY <1>3, <1>4 DEF batches
      <4>2. j * Threads = 0
        BY <1>4, <4>1
      <4> QED
        BY <1>4, <4>2 DEF BatchSize, Limit, NumNodes, Threads
    <3>4. Historical /\ NumNodes > 0 => config.DataCollector
      <4> SUFFICES ASSUME Historical, NumNodes > 0, ~config.DataCollector PROVE FALSE
        BY ConfigTypes, <1>2
      <4>1. ccrsIngested = 0 /\ unreported = ccrsIngested + ccrsRejected + Cardinality({})
            /\ unreported >= i
        BY <1>1, <1>2, <1>5 DEF Accounts
      <4>2. ccrsRejected \in Nat /\ unreported \in Nat
        BY <1>2 DEF TypeOK
      <4>3. ccrsRejected > 0
        BY <1>3, <3>1, <4>1, <4>2, NoneAtAll
      <4> QED
        BY <1>2, <2>2, <4>3 DEF Accounts
    <3>5. CASE (j + 1) * Threads > NumNodes /\ NumNodes > Threads
      <4>1. LeftShort'
        BY <1>1, <1>4, <3>1, <3>2, <3>4, <3>5, SameConfig DEF LeftShort
      <4>2. j' = batches' /\ pc' = "batch"
        BY <1>1, <2>2, <3>1, <3>5, SameConfig
      <4> QED
        BY <4>1, <4>2 DEF Slice
    <3>6. CASE ~((j + 1) * Threads > NumNodes /\ NumNodes > Threads)
      BY <1>1, <2>2, <3>1, <3>2, <3>3, <3>6, SameConfig DEF Slice
    <3> QED
      BY <3>5, <3>6
  <2> QED
    BY <2>1, <2>2
<1>9. (Goroutines /\ Forwarders)'
  BY <1>1, <1>5 DEF Goroutines, Forwarders
<1>10. Accounts'
  <2>1. pc' \in {"batch", "pause"} /\ (Historical /\ pc' = "batch" => ~rejects)
        /\ (pc' = "pause" => rejects /\ Historical)
    BY <1>1
  <2> QED
    BY <1>1, <1>2, <1>5, <2>1, SameConfig DEF Accounts
<1>11. PanicsExplained'
  BY <1>1 DEF PanicsExplained
<1> QED
  BY <1>6, <1>7, <1>8, <1>9, <1>10, <1>11 DEF IInv

\* Pause resets the counters and restores the slice.
LEMMA PauseStep ==
  ASSUME IInv, Pause
  PROVE  IInv'
<1>1. UNCHANGED <<config, ccrsTotal, c, i, ccrs, forwarders, runs>>
      /\ pc = "pause" /\ pc' = "batch" /\ j' = j + 1
      /\ rejects' = FALSE /\ ccrsIngested' = 0 /\ ccrsRejected' = 0
      /\ unreported' = 0 /\ refused' = 0 /\ channels' = NilSlice(Limit(config))
  BY DEF Pause
<1>2. TypeOK /\ Loops /\ Goroutines /\ Forwarders
  BY DEF IInv
<1>3. ccrs = {} /\ forwarders = <<>> /\ Usable /\ j < batches /\ i = BatchSize /\ c < ccrsTotal
  BY <1>1, <1>2 DEF Goroutines, Forwarders, Loops
<1>4. /\ NumNodes \in Nat /\ batches \in Nat /\ j \in Nat /\ Limit(config) \in 0 .. NumNodes
  BY <1>1, <1>2, <1>3, UsableThreads, FullSlice DEF TypeOK
<1>5. /\ DOMAIN channels' = 0 .. Limit(config) - 1
      /\ \E size \in 0 .. NumNodes : channels' \in [0 .. size - 1 -> Channel \cup {NilChannel}]
  BY <1>1, <1>4, NilSliceType
<1>6. TypeOK'
  <2>1. j' \in 0 .. batches
    BY <1>1, <1>3, <1>4
  <2>2. /\ DOMAIN forwarders' \subseteq DOMAIN channels'
        /\ \A k \in DOMAIN forwarders' : FALSE
    BY <1>1, <1>3
  <2>3. refused' \in 0 .. unreported' /\ ccrsIngested' \in Nat /\ ccrsRejected' \in Nat
        /\ unreported' \in Nat
    BY <1>1
  <2>4. rejects' \in BOOLEAN /\ pc' = "batch"
    BY <1>1, Zenon
  <2> QED
    BY <1>1, <1>2, <1>5, <2>1, <2>2, <2>3, <2>4, SameConfig DEF TypeOK
<1>7. Loops'
  <2>1. Started = j * Threads + BatchSize /\ Started' = (j + 1) * Threads
    BY <1>1, <1>3, SameConfig DEF Started
  <2>2. \A n \in Nodes : n < j * Threads + BatchSize <=> n < (j + 1) * Threads
    BY <1>2, <1>3, <1>4, OpenBatch
  <2>3. \A n \in Nodes : runs[n] = IF n < Started' THEN c + 1 ELSE c
    BY <1>1, <1>2, <2>1, <2>2 DEF Loops
  <2> QED
    BY <1>1, <1>2, <1>3, <2>3, SameConfig DEF Loops
<1>8. Slice'
  BY <1>1, <1>5, SameConfig DEF Slice
<1>9. (Goroutines /\ Forwarders)'
  BY <1>1, <1>3 DEF Goroutines, Forwarders
<1>10. Accounts'
  <2>1. Unaccounted' = {} /\ Refusals' = {} /\ Converging' = {}
    BY <1>1, <1>3 DEF Unaccounted, Refusals, Converging
  <2>2. pc' = "batch" /\ rejects' = FALSE /\ ccrsRejected' = 0 /\ ccrsIngested' = 0
        /\ unreported' = 0 /\ refused' = 0
    BY <1>1
  <2> QED
    BY <2>1, <2>2, NoneAtAll DEF Accounts
<1>11. PanicsExplained'
  BY <1>1 DEF PanicsExplained
<1> QED
  BY <1>6, <1>7, <1>8, <1>9, <1>10, <1>11 DEF IInv

-----------------------------------------------------------------------------
(* The runs of a batch *)

\* What is in flight belongs to the open batch, so it can be counted.
LEMMA InFlight ==
  ASSUME IInv, pc # "panic"
  PROVE  /\ \A n \in Unaccounted \cup Refusals \cup Converging :
              /\ pc \in {"launch", "collect"}
              /\ n \in j * Threads .. j * Threads + i - 1
         /\ IsFiniteSet(Unaccounted) /\ IsFiniteSet(Refusals) /\ IsFiniteSet(Converging)
<1>1. TypeOK /\ Loops /\ Goroutines /\ Forwarders
  BY DEF IInv
<1>2. CASE pc \notin {"launch", "collect"}
  <2>1. Unaccounted = {} /\ Refusals = {} /\ Converging = {}
    BY <1>1, <1>2, NothingInFlight DEF Goroutines, Forwarders
  <2> QED
    BY <2>1, FS_EmptySet
<1>3. CASE pc \in {"launch", "collect"}
  <2>1. i \in Nat /\ j * Threads \in Int
    BY <1>1, <1>3, UsableThreads DEF TypeOK, Loops
  <2>2. \A g \in ccrs : g.chan.node \in j * Threads .. j * Threads + i - 1
    BY <1>1, <1>3 DEF Goroutines
  <2>3. \A k \in DOMAIN forwarders :
          forwarders[k].chan.node \in j * Threads .. j * Threads + i - 1
    <3> SUFFICES ASSUME NEW k \in DOMAIN forwarders
                 PROVE  forwarders[k].chan.node \in j * Threads .. j * Threads + i - 1
      OBVIOUS
    <3>1. pc = "collect"
      BY <1>1, <1>3 DEF Forwarders
    <3>2. k \in 0 .. i - 1 /\ forwarders[k].chan = Chan(k)
      BY <1>1, <3>1 DEF Forwarders
    <3>3. forwarders[k].chan.node = k + j * Threads
      BY <3>2 DEF Chan
    <3> QED
      BY <2>1, <3>2, <3>3
  <2>4. \A n \in Unaccounted \cup Refusals \cup Converging :
          n \in j * Threads .. j * Threads + i - 1
    BY <2>2, <2>3 DEF Unaccounted, Refusals, Converging
  <2>5. IsFiniteSet(j * Threads .. j * Threads + i - 1)
    BY <2>1, FS_Interval
  <2> QED
    BY <1>3, <2>4, <2>5, FS_Subset
<1> QED
  BY <1>2, <1>3

\* The steps of the goroutines leave the loops and the slice alone.
LEMMA SameLoops ==
  ASSUME IInv, pc # "panic", UNCHANGED <<config, pc, ccrsTotal, c, j, i, channels, runs>>
  PROVE  Loops' /\ Slice' /\ PanicsExplained'
<1>1. Loops /\ Slice
  BY DEF IInv
<1>2. Started' = Started /\ BatchSize' = BatchSize /\ \A k : Chan(k)' = Chan(k)
  BY SameConfig DEF Started, BatchSize, Chan
<1>3. Loops'
  BY <1>1, <1>2, SameConfig DEF Loops
<1>4. Slice'
  <2>1. LeftShort => LeftShort'
    BY SameConfig DEF LeftShort
  <2> QED
    BY <1>1, <1>2, <2>1, SameConfig DEF Slice
<1> QED
  BY <1>3, <1>4 DEF PanicsExplained

\* Launch adds a run to those in flight.
LEMMA LaunchInFlight ==
  ASSUME IInv, Launch
  PROVE  /\ Unaccounted' = Unaccounted \cup {nodeNum}
         /\ Converging' = Converging \cup {nodeNum}
         /\ Refusals' = Refusals
<1> DEFINE new == [chan |-> [node |-> nodeNum, round |-> c], at |-> "converge", code |-> NoCode]
<1>1. ccrs' = ccrs \cup {new} /\ forwarders' = forwarders /\ pc = "launch"
  BY DEF Launch
<1>2. new.chan.node = nodeNum /\ new.at = "converge" /\ DOMAIN forwarders = {}
  BY <1>1 DEF IInv, Forwarders
<1> HIDE DEF new
<1>3. Unaccounted = {g.chan.node : g \in {x \in ccrs : x.at \in {"converge", "send"}}}
      /\ Unaccounted' = {g.chan.node : g \in {x \in ccrs' : x.at \in {"converge", "send"}}}
  BY <1>1, <1>2 DEF Unaccounted
<1>4. Refusals = {g.chan.node : g \in {x \in ccrs : x.at = "send" /\ x.code = "other"}}
      /\ Refusals' = {g.chan.node : g \in {x \in ccrs' : x.at = "send" /\ x.code = "other"}}
  BY <1>1, <1>2 DEF Refusals
<1> QED
  BY <1>1, <1>2, <1>3, <1>4 DEF Converging

\* Launch starts the next node of the batch.  It is new among those in flight.
LEMMA LaunchStep ==
  ASSUME IInv, Launch
  PROVE  IInv'
<1> DEFINE ch == [node |-> nodeNum, round |-> c]
           new == [chan |-> ch, at |-> "converge", code |-> NoCode]
<1>1. /\ UNCHANGED <<config, ccrsTotal, c, j, forwarders, rejects, ccrsIngested,
                     ccrsRejected, refused>>
      /\ pc = "launch" /\ MoreToLaunch
      /\ ccrs' = ccrs \cup {new}
      /\ runs' = [runs EXCEPT ![nodeNum] = @ + 1]
      /\ unreported' = unreported + 1
  BY DEF Launch, tally
<1>2. TypeOK /\ Loops /\ Slice /\ Goroutines /\ Forwarders /\ Accounts
  BY DEF IInv
<1>3. Usable /\ j < batches /\ i <= BatchSize /\ c < ccrsTotal /\ ccrsTotal = RunsPerNode
      /\ forwarders = <<>>
  BY <1>1, <1>2 DEF Loops, Forwarders
<1>4. /\ NumNodes \in Nat /\ Threads \in Nat /\ batches \in Nat /\ j \in Nat /\ i \in Nat
      /\ c \in Nat /\ ccrsTotal \in Nat
      /\ NumNodes > Threads => Threads > 0
  BY <1>1, <1>2, <1>3, UsableThreads DEF TypeOK
<1>5. j * Threads \in Nat /\ nodeNum = i + j * Threads /\ nodeNum \in Nodes
      /\ i < NumNodes
  BY <1>1, <1>4 DEF nodeNum, MoreToLaunch, Nodes
<1>6. i < BatchSize /\ BatchSize \in Nat
  BY <1>1, <1>2, <1>3, <1>4, OpenBatch DEF MoreToLaunch, nodeNum
<1>7. Started = nodeNum /\ runs[nodeNum] = c
  BY <1>1, <1>2, <1>4, <1>5 DEF Loops, Started
<1>8. ch = Chan(i) /\ ch \in Channel
  BY <1>4, <1>5 DEF Chan, Channel
<1>9. runs' \in [Nodes -> 0 .. ccrsTotal]
  BY <1>1, <1>2, <1>3, <1>4, <1>5, <1>7 DEF TypeOK
<1>10. ccrs' \subseteq [chan : Channel, at : {"converge", "send", "close"},
                        code : Codes \cup {NoCode}]
  BY <1>1, <1>2, <1>8 DEF TypeOK
<1>11. CASE i \notin DOMAIN channels
  <2>1. pc' = "panic" /\ channels' = channels /\ i' = i
    BY <1>11 DEF Launch
  <2>2. TypeOK'
    BY <1>1, <1>2, <1>9, <1>10, <2>1, SameConfig DEF TypeOK
  <2>3. (Loops /\ Slice /\ Goroutines /\ Forwarders)'
    BY <1>1, <1>3, <2>1 DEF Loops, Slice, Goroutines, Forwarders
  <2>4. Accounts'
    BY <1>1, <1>2, <2>1, SameConfig DEF Accounts
  <2>5. PanicsExplained'
    <3>1. j = 0 /\ c > 0 /\ LeftShort /\ i <= Rest
      BY <1>1, <1>2, <1>4, <1>6, <1>11 DEF Slice
    <3>2. Rest \in Nat
      BY <1>4, <3>1, Division DEF LeftShort, Rest
    <3>3. i = Rest
      BY <1>4, <1>11, <3>1, <3>2 DEF LeftShort
    <3>4. Historical
      BY <1>3, <1>4, <3>1 DEF RunsPerNode
    <3>5. ~rejects
      BY <1>1, <1>2, <3>4 DEF Accounts
    <3> QED
      BY <1>1, <2>1, <3>1, <3>3, <3>4, <3>5, SameConfig DEF PanicsExplained, LeftShort, Rest
  <2> QED
    BY <2>2, <2>3, <2>4, <2>5 DEF IInv
<1>12. CASE i \in DOMAIN channels
  <2>1. pc' = "launch" /\ channels' = [channels EXCEPT ![i] = ch] /\ i' = i + 1
    BY <1>1, <1>12 DEF Launch
  <2>2. \E size \in 0 .. NumNodes : channels' \in [0 .. size - 1 -> Channel \cup {NilChannel}]
    BY <1>2, <1>8, <1>12, <2>1 DEF TypeOK
  <2>3. TypeOK'
    <3>1. DOMAIN forwarders' \subseteq DOMAIN channels' /\ i' \in 0 .. NumNodes
      BY <1>1, <1>2, <1>3, <1>4, <1>5, <2>1 DEF TypeOK
    <3>2. unreported' \in Nat /\ refused' \in 0 .. unreported'
      BY <1>1, <1>2 DEF TypeOK
    <3> QED
      BY <1>1, <1>2, <1>9, <1>10, <2>1, <2>2, <3>1, <3>2, SameConfig DEF TypeOK
  <2>4. BatchSize' = BatchSize /\ \A k : Chan(k)' = Chan(k)
    BY <1>1, SameConfig DEF BatchSize, Chan
  <2>5. Loops'
    <3>1. Started' = nodeNum + 1
      BY <1>1, <1>4, <1>5, <2>1, SameConfig DEF Started
    <3>2. \A n \in Nodes : runs'[n] = IF n < Started' THEN c + 1 ELSE c
      <4> TAKE n \in Nodes
      <4>1. n \in Int /\ nodeNum \in Int
        BY <1>4, <1>5 DEF Nodes
      <4>2. runs[n] = IF n < nodeNum THEN c + 1 ELSE c
        BY <1>1, <1>2, <1>7 DEF Loops
      <4>3. runs'[n] = IF n = nodeNum THEN c + 1 ELSE runs[n]
        BY <1>1, <1>2, <1>5, <1>7 DEF TypeOK
      <4> QED
        BY <3>1, <4>1, <4>2, <4>3
    <3> QED
      BY <1>1, <1>2, <1>3, <1>4, <1>6, <2>1, <2>4, <3>2, SameConfig DEF Loops
  <2>6. Slice'
    <3>1. DOMAIN channels' = DOMAIN channels
      BY <2>1
    <3>2. LeftShort => LeftShort' /\ Rest \in Nat
      <4>1. LeftShort => Rest \in Nat
        BY <1>4, Division DEF LeftShort, Rest
      <4> QED
        BY <1>1, <3>1, <4>1, SameConfig DEF LeftShort
    <3>3. LeftShort /\ i <= Rest => i + 1 <= Rest
      BY <1>4, <1>12, <3>2 DEF LeftShort
    <3>4. \A k \in 0 .. i' - 1 : k \in DOMAIN channels' /\ channels'[k] = Chan(k)
      <4> TAKE k \in 0 .. i' - 1
      <4>1. k \in 0 .. i - 1 \/ k = i
        BY <1>4, <2>1
      <4>2. CASE k = i
        BY <1>8, <1>12, <2>1, <4>2
      <4>3. CASE k \in 0 .. i - 1
        <5>1. k \in DOMAIN channels /\ channels[k] = Chan(k) /\ k # i
          BY <1>1, <1>2, <1>4, <4>3 DEF Slice
        <5> QED
          BY <2>1, <5>1
      <4> QED
        BY <4>1, <4>2, <4>3
    <3> QED
      BY <1>1, <1>2, <2>1, <2>4, <3>1, <3>2, <3>3, <3>4, SameConfig DEF Slice
  <2>7. Goroutines'
    <3>1. new.chan.node = nodeNum /\ new.chan.round = c /\ new.code = NoCode
          /\ new.at = "converge"
      OBVIOUS
    <3>2. \A g \in ccrs : /\ g.chan.node \in j * Threads .. j * Threads + i - 1
                          /\ g.chan.round = c
                          /\ g.code = "200" => config.DataCollector
                          /\ g.at = "send" => g.code \in Codes
                          /\ \A h \in ccrs : h.chan.node = g.chan.node => h = g
      BY <1>1, <1>2 DEF Goroutines
    <3>3. \A g \in ccrs : /\ g.chan.node # nodeNum
                          /\ g.chan.node \in j * Threads .. j * Threads + i
      BY <1>4, <1>5, <3>2
    <3>4. nodeNum \in j * Threads .. j * Threads + i
      BY <1>4, <1>5
    <3>5. j' * Threads' .. j' * Threads' + i' - 1 = j * Threads .. j * Threads + i
      BY <1>1, <1>4, <1>5, <2>1, SameConfig
    <3> HIDE DEF new
    <3> QED
      BY <1>1, <2>1, <3>1, <3>2, <3>3, <3>4, <3>5 DEF Goroutines, NoCode
  <2>8. Forwarders'
    BY <1>1, <1>3, <2>1 DEF Forwarders
  <2>9. Accounts'
    <3>1. Unaccounted' = Unaccounted \cup {nodeNum} /\ Converging' = Converging \cup {nodeNum}
          /\ Refusals' = Refusals
      BY LaunchInFlight
    <3>2. nodeNum \notin Unaccounted /\ nodeNum \notin Converging
      BY <1>1, <1>4, <1>5, InFlight
    <3>3. /\ Cardinality(Unaccounted') = Cardinality(Unaccounted) + 1
          /\ Cardinality(Converging') = Cardinality(Converging) + 1
      BY <1>1, <3>1, <3>2, InFlight, FS_AddElement
    <3>4. /\ Cardinality(Unaccounted) \in Nat /\ Cardinality(Converging) \in Nat
          /\ unreported \in Nat /\ refused \in Nat
      BY <1>1, <1>2, InFlight, FS_CardinalityType DEF TypeOK
    <3>5. /\ unreported = ccrsIngested + ccrsRejected + Cardinality(Unaccounted)
          /\ config.DataCollector => refused = ccrsRejected + Cardinality(Refusals)
          /\ ~config.DataCollector => ccrsIngested = 0
          /\ refused + Cardinality(Converging) <= unreported
          /\ unreported >= i
          /\ ccrsIngested \in Nat /\ ccrsRejected \in Nat
      BY <1>1, <1>2 DEF Accounts, TypeOK
    <3>6. unreported' = ccrsIngested' + ccrsRejected' + Cardinality(Unaccounted')
          /\ refused' + Cardinality(Converging') <= unreported'
          /\ unreported' >= i'
      BY <1>1, <1>4, <2>1, <3>3, <3>4, <3>5
    <3>7. (rejects <=> ccrsRejected > 0) /\ (Historical => ~rejects)
      BY <1>1, <1>2 DEF Accounts
    <3> QED
      BY <1>1, <2>1, <3>1, <3>5, <3>6, <3>7, SameConfig DEF Accounts
  <2>10. PanicsExplained'
    BY <2>1 DEF PanicsExplained
  <2> QED
    BY <2>3, <2>5, <2>6, <2>7, <2>8, <2>9, <2>10 DEF IInv
<1> QED
  BY <1>11, <1>12

\* The runs in flight, one by one: a node in the batch has one goroutine at
\* most, and its forwarder is the one of the same number.
LEMMA RunsInFlight ==
  ASSUME IInv, pc # "panic"
  PROVE  /\ \A g \in ccrs :
              /\ pc \in {"launch", "collect"} /\ g.chan.round = c
              /\ g = [chan |-> g.chan, at |-> g.at, code |-> g.code]
              /\ g.chan \in Channel /\ g.chan = [node |-> g.chan.node, round |-> c]
              /\ g.code = "200" => config.DataCollector
              /\ g.at = "send" => g.code \in Codes
              /\ \A h \in ccrs : h.chan.node = g.chan.node => h = g
         /\ \A k \in DOMAIN forwarders :
              /\ pc = "collect" /\ k \in Nat
              /\ forwarders[k].chan.node = k + j * Threads /\ forwarders[k].chan = Chan(k)
              /\ forwarders[k].code = "200" => config.DataCollector
              /\ forwarders[k].at = "send" => forwarders[k].code \in Codes
              /\ forwarders[k] \in [chan : Channel \cup {NilChannel},
                                    at : {"receive", "send", "done"},
                                    code : Codes \cup {NoCode}]
              /\ \A m \in DOMAIN forwarders :
                   forwarders[m].chan.node = forwarders[k].chan.node => m = k
              /\ \A g \in ccrs : g.chan.node = forwarders[k].chan.node =>
                   /\ forwarders[k].at # "done"
                   /\ g.at # "close" => forwarders[k].at = "receive"
<1>1. TypeOK /\ Loops /\ Goroutines /\ Forwarders
  BY DEF IInv
<1>2. ASSUME NEW g \in ccrs
      PROVE  /\ pc \in {"launch", "collect"} /\ g.chan.round = c
             /\ g = [chan |-> g.chan, at |-> g.at, code |-> g.code]
             /\ g.chan \in Channel /\ g.chan = [node |-> g.chan.node, round |-> c]
             /\ g.code = "200" => config.DataCollector
             /\ g.at = "send" => g.code \in Codes
             /\ \A h \in ccrs : h.chan.node = g.chan.node => h = g
  <2>1. g \in [chan : Channel, at : {"converge", "send", "close"}, code : Codes \cup {NoCode}]
    BY <1>1 DEF TypeOK
  <2>2. pc \in {"launch", "collect"} /\ g.chan.round = c
        /\ (g.code = "200" => config.DataCollector)
        /\ (g.at = "send" => g.code \in Codes)
        /\ (\A h \in ccrs : h.chan.node = g.chan.node => h = g)
    BY <1>1 DEF Goroutines
  <2>3. g = [chan |-> g.chan, at |-> g.at, code |-> g.code] /\ g.chan \in Channel
    BY <2>1
  <2>4. g.chan = [node |-> g.chan.node, round |-> c]
    BY <2>2, <2>3 DEF Channel
  <2> QED
    BY <2>2, <2>3, <2>4
<1>3. ASSUME NEW k \in DOMAIN forwarders
      PROVE  /\ pc = "collect" /\ k \in Nat
             /\ forwarders[k].chan.node = k + j * Threads /\ forwarders[k].chan = Chan(k)
  <2>1. pc = "collect"
    BY <1>1 DEF Forwarders
  <2>2. i \in Nat /\ k \in 0 .. i - 1 /\ forwarders[k].chan = Chan(k)
    BY <1>1, <2>1 DEF Forwarders, TypeOK
  <2> QED
    BY <2>1, <2>2 DEF Chan
<1>4. pc = "collect" => j * Threads \in Nat
  BY <1>1, UsableThreads DEF Loops, TypeOK
<1>5. ASSUME NEW k \in DOMAIN forwarders, NEW m \in DOMAIN forwarders,
             forwarders[m].chan.node = forwarders[k].chan.node
      PROVE  m = k
  BY <1>3, <1>4, <1>5
<1>6. ASSUME NEW k \in DOMAIN forwarders
      PROVE  /\ forwarders[k].code = "200" => config.DataCollector
             /\ forwarders[k].at = "send" => forwarders[k].code \in Codes
             /\ \A g \in ccrs : g.chan.node = forwarders[k].chan.node =>
                  /\ forwarders[k].at # "done"
                  /\ g.at # "close" => forwarders[k].at = "receive"
             /\ forwarders[k] \in [chan : Channel \cup {NilChannel},
                                   at : {"receive", "send", "done"}, code : Codes \cup {NoCode}]
  BY <1>1, <1>3 DEF Forwarders, TypeOK
<1> QED
  BY <1>2, <1>3, <1>5, <1>6

\* Every code is one of the two.
LEMMA TwoCodes == ASSUME NEW code \in Codes PROVE code # "200" <=> code = "other"
BY DEF Codes

\* What Collect takes is the last trace of a run in flight.
LEMMA CollectInFlight ==
  ASSUME IInv, NEW k \in DOMAIN forwarders, Collect(k)
  PROVE  LET n == forwarders[k].chan.node
             code == forwarders[k].code
         IN  /\ n \in Unaccounted /\ Unaccounted' = Unaccounted \ {n}
             /\ code = "other" => n \in Refusals /\ Refusals' = Refusals \ {n}
             /\ code # "other" => Refusals' = Refusals
             /\ Converging' = Converging
<1> DEFINE n == forwarders[k].chan.node
           code == forwarders[k].code
<1>1. /\ pc = "collect" /\ forwarders[k].at = "send" /\ ccrs' = ccrs
      /\ forwarders' = [forwarders EXCEPT ![k].at = "receive"]
  BY DEF Collect
<1>2. DOMAIN forwarders' = DOMAIN forwarders
      /\ \A m \in DOMAIN forwarders :
           /\ forwarders'[m].chan = forwarders[m].chan
           /\ forwarders'[m].code = forwarders[m].code
           /\ forwarders'[m].at = IF m = k THEN "receive" ELSE forwarders[m].at
  BY <1>1, RunsInFlight
<1>3. \A g \in ccrs : g.chan.node = n => g.at = "close"
  BY <1>1, RunsInFlight
<1>4. Converging' = Converging
  BY <1>1 DEF Converging
<1>5. n \in Unaccounted /\ Unaccounted' = Unaccounted \ {n}
  BY <1>1, <1>2, <1>3, RunsInFlight DEF Unaccounted
<1>6. code = "other" => n \in Refusals /\ Refusals' = Refusals \ {n}
  BY <1>1, <1>2, <1>3, RunsInFlight DEF Refusals
<1>7. code # "other" => Refusals' = Refusals
  BY <1>1, <1>2, RunsInFlight DEF Refusals
<1> QED
  BY <1>4, <1>5, <1>6, <1>7

\* The main goroutine takes a code from a forwarder, which is the last place
\* of this run.
LEMMA CollectStep ==
  ASSUME IInv, NEW k \in DOMAIN forwarders, Collect(k)
  PROVE  IInv'
<1> DEFINE n == forwarders[k].chan.node
           code == forwarders[k].code
<1>1. /\ UNCHANGED <<config, pc, ccrsTotal, c, j, i, channels, ccrs, runs, unreported, refused>>
      /\ pc = "collect" /\ forwarders[k].at = "send"
      /\ forwarders' = [forwarders EXCEPT ![k].at = "receive"]
      /\ \/ /\ code # "200" /\ rejects' = TRUE
            /\ ccrsRejected' = ccrsRejected + 1 /\ ccrsIngested' = ccrsIngested
         \/ /\ code = "200" /\ ccrsIngested' = ccrsIngested + 1
            /\ ccrsRejected' = ccrsRejected /\ rejects' = rejects
  BY DEF Collect, loopVars, history
<1>2. TypeOK /\ Loops /\ Goroutines /\ Forwarders /\ Accounts
  BY DEF IInv
<1>3. /\ code \in Codes /\ (code = "200" => config.DataCollector) /\ (code # "200" <=> code = "other")
  BY <1>1, RunsInFlight, TwoCodes
<1>4. DOMAIN forwarders' = DOMAIN forwarders
      /\ \A m \in DOMAIN forwarders :
           /\ forwarders'[m].chan = forwarders[m].chan
           /\ forwarders'[m].code = forwarders[m].code
           /\ forwarders'[m].at = IF m = k THEN "receive" ELSE forwarders[m].at
           /\ forwarders'[m] \in [chan : Channel \cup {NilChannel},
                                  at : {"receive", "send", "done"}, code : Codes \cup {NoCode}]
  BY <1>1, RunsInFlight
<1>5. TypeOK'
  <2>1. ccrsIngested' \in Nat /\ ccrsRejected' \in Nat
    BY <1>1, <1>2 DEF TypeOK
  <2>2. rejects' \in BOOLEAN
    <3>1. rejects' = TRUE \/ rejects' = rejects
      BY <1>1
    <3>2. rejects \in BOOLEAN
      BY <1>2 DEF TypeOK
    <3> QED
      BY <3>1, <3>2, Zenon
  <2> QED
    BY <1>1, <1>2, <1>4, <2>1, <2>2, SameConfig DEF TypeOK
<1>6. (Loops /\ Slice /\ PanicsExplained)'
  BY <1>1, SameLoops
<1>7. Goroutines'
  BY <1>1, <1>2, SameConfig DEF Goroutines
<1>8. Forwarders'
  <2>1. \A m : Chan(m)' = Chan(m)
    BY <1>1, SameConfig DEF Chan
  <2> QED
    BY <1>1, <1>2, <1>4, <2>1, SameConfig DEF Forwarders
<1>9. Accounts'
  <2>1. Converging' = Converging
    BY CollectInFlight
  <2>2. n \in Unaccounted /\ Unaccounted' = Unaccounted \ {n}
    BY CollectInFlight
  <2>3. code = "other" => n \in Refusals /\ Refusals' = Refusals \ {n}
    BY CollectInFlight
  <2>4. code # "other" => Refusals' = Refusals
    BY CollectInFlight
  <2> HIDE DEF n, code
  <2>5. /\ Cardinality(Unaccounted') = Cardinality(Unaccounted) - 1
        /\ code = "other" => Cardinality(Refusals') = Cardinality(Refusals) - 1
    <3>1. IsFiniteSet(Unaccounted) /\ IsFiniteSet(Refusals)
      BY <1>1, InFlight
    <3>2. Cardinality(Unaccounted \ {n}) = Cardinality(Unaccounted) - 1
      BY <2>2, <3>1, FS_RemoveElement
    <3>3. n \in Refusals => Cardinality(Refusals \ {n}) = Cardinality(Refusals) - 1
      BY <3>1, FS_RemoveElement
    <3> QED
      BY <2>2, <2>3, <3>2, <3>3
  <2>6. /\ Cardinality(Unaccounted) \in Nat /\ Cardinality(Refusals) \in Nat
        /\ unreported \in Nat /\ refused \in Nat /\ ccrsIngested \in Nat /\ ccrsRejected \in Nat
    BY <1>1, <1>2, InFlight, FS_CardinalityType DEF TypeOK
  <2>7. /\ unreported = ccrsIngested + ccrsRejected + Cardinality(Unaccounted)
        /\ config.DataCollector => refused = ccrsRejected + Cardinality(Refusals)
        /\ ~config.DataCollector => ccrsIngested = 0
        /\ refused + Cardinality(Converging) <= unreported
        /\ unreported >= i
        /\ rejects <=> ccrsRejected > 0
    BY <1>1, <1>2 DEF Accounts
  <2>8. /\ unreported' = ccrsIngested' + ccrsRejected' + Cardinality(Unaccounted')
        /\ config.DataCollector => refused' = ccrsRejected' + Cardinality(Refusals')
        /\ ~config.DataCollector => ccrsIngested' = 0
    <3>1. CASE code = "200"
      <4>1. code # "other" /\ ccrsIngested' = ccrsIngested + 1 /\ ccrsRejected' = ccrsRejected
            /\ config.DataCollector
        BY <1>1, <1>3, <3>1
      <4> QED
        BY <1>1, <2>4, <2>5, <2>6, <2>7, <4>1
    <3>2. CASE code # "200"
      <4>1. code = "other" /\ ccrsIngested' = ccrsIngested /\ ccrsRejected' = ccrsRejected + 1
        BY <1>1, <1>3, <3>2
      <4> QED
        BY <1>1, <2>5, <2>6, <2>7, <4>1
    <3> QED
      BY <3>1, <3>2
  <2>9. rejects' <=> ccrsRejected' > 0
    BY <1>1, <2>6, <2>7
  <2> QED
    BY <1>1, <2>1, <2>7, <2>8, <2>9, SameConfig DEF Accounts
<1> QED
  BY <1>5, <1>6, <1>7, <1>8, <1>9 DEF IInv

\* A run ends, accepted or not.
LEMMA ConvergeStep ==
  ASSUME IInv, NEW g \in ccrs, Converge(g)
  PROVE  IInv'
<1>1. /\ UNCHANGED <<config, ccrsTotal, pc, c, j, i, channels, forwarders, rejects, ccrsIngested,
                     ccrsRejected, runs, unreported>>
      /\ pc # "panic" /\ g.at = "converge"
  BY DEF Converge, Running, loopVars, tally
<1>2. PICK accepted \in BOOLEAN :
        /\ Advance(g, "send", CodeOf(accepted))
        /\ refused' = IF accepted THEN refused ELSE refused + 1
  BY DEF Converge
<1> DEFINE n == g.chan.node
           new == [chan |-> g.chan, at |-> "send", code |-> CodeOf(accepted)]
<1>3. TypeOK /\ Loops /\ Goroutines /\ Forwarders /\ Accounts
  BY DEF IInv
<1>4. ccrs' = (ccrs \ {g}) \cup {new}
  BY <1>2 DEF Advance
<1>5. /\ new.chan = g.chan /\ new.at = "send" /\ new.code = CodeOf(accepted)
      /\ CodeOf(accepted) \in Codes /\ (CodeOf(accepted) = "200" => config.DataCollector)
      /\ (config.DataCollector => (CodeOf(accepted) = "other" <=> ~accepted))
  BY DEF CodeOf, Codes
<1>6. new \in [chan : Channel, at : {"converge", "send", "close"}, code : Codes \cup {NoCode}]
  BY <1>1, <1>5, RunsInFlight
<1> HIDE DEF new
<1>7. Unaccounted' = Unaccounted
  BY <1>1, <1>4, <1>5 DEF Unaccounted
<1>8. n \in Converging /\ Converging' = Converging \ {n}
  <2>1. \A h \in ccrs : h.chan.node = n => h = g
    BY <1>1, RunsInFlight
  <2>2. \A m : m \in Converging' <=> \E h \in ccrs : h # g /\ h.at = "converge" /\ h.chan.node = m
    BY <1>4, <1>5 DEF Converging
  <2>3. \A m : m \in Converging <=> \E h \in ccrs : h.at = "converge" /\ h.chan.node = m
    BY DEF Converging
  <2>4. n \in Converging
    BY <1>1, <2>3
  <2>5. \A m : m \in Converging' <=> m \in Converging /\ m # n
    BY <1>1, <2>1, <2>2, <2>3
  <2> QED
    BY <2>4, <2>5
<1>9. CodeOf(accepted) = "other" => n \notin Refusals /\ Refusals' = Refusals \cup {n}
  <2>1. n \notin Refusals
    <3>1. \A h \in ccrs : h.chan.node = n => h.at # "send"
      BY <1>1, RunsInFlight
    <3>2. \A k \in DOMAIN forwarders : forwarders[k].chan.node = n => forwarders[k].at # "send"
      BY <1>1, RunsInFlight
    <3> QED
      BY <3>1, <3>2 DEF Refusals
  <2>2. CodeOf(accepted) = "other" => Refusals' = Refusals \cup {n}
    BY <1>1, <1>4, <1>5 DEF Refusals
  <2> QED
    BY <2>1, <2>2
<1>10. CodeOf(accepted) # "other" => Refusals' = Refusals
  BY <1>1, <1>4, <1>5, RunsInFlight DEF Refusals
<1>11. /\ Cardinality(Converging') = Cardinality(Converging) - 1
       /\ CodeOf(accepted) = "other" => Cardinality(Refusals') = Cardinality(Refusals) + 1
  <2> HIDE DEF n
  <2>1. IsFiniteSet(Converging) /\ IsFiniteSet(Refusals)
    BY <1>1, InFlight
  <2>2. Cardinality(Converging \ {n}) = Cardinality(Converging) - 1
    BY <1>8, <2>1, FS_RemoveElement
  <2>3. n \notin Refusals => Cardinality(Refusals \cup {n}) = Cardinality(Refusals) + 1
    BY <2>1, FS_AddElement
  <2> QED
    BY <1>8, <1>9, <2>2, <2>3
<1>12. /\ Cardinality(Converging) \in Nat /\ Cardinality(Converging') \in Nat
       /\ Cardinality(Refusals) \in Nat
       /\ unreported \in Nat /\ refused \in Nat /\ ccrsRejected \in Nat
  <2>1. IsFiniteSet(Converging')
    BY <1>1, <1>8, InFlight, FS_RemoveElement
  <2> QED
    BY <1>1, <1>3, <2>1, InFlight, FS_CardinalityType DEF TypeOK
<1>13. /\ unreported = ccrsIngested + ccrsRejected + Cardinality(Unaccounted)
       /\ config.DataCollector => refused = ccrsRejected + Cardinality(Refusals)
       /\ ~config.DataCollector => ccrsIngested = 0
       /\ refused + Cardinality(Converging) <= unreported
  BY <1>1, <1>3 DEF Accounts
<1>14. /\ refused' \in Nat /\ refused' + Cardinality(Converging') <= unreported
       /\ refused' \in 0 .. unreported
       /\ config.DataCollector => refused' = ccrsRejected + Cardinality(Refusals')
  BY <1>2, <1>5, <1>10, <1>11, <1>12, <1>13
<1>15. TypeOK'
  BY <1>1, <1>3, <1>4, <1>6, <1>14, SameConfig DEF TypeOK
<1>16. (Loops /\ Slice /\ PanicsExplained)'
  BY <1>1, SameLoops
<1>17. Goroutines'
  BY <1>1, <1>3, <1>4, <1>5, SameConfig DEF Goroutines
<1>18. Forwarders'
  <2>1. \A m : Chan(m)' = Chan(m)
    BY <1>1, SameConfig DEF Chan
  <2> QED
    BY <1>1, <1>3, <1>4, <1>5, <2>1, SameConfig DEF Forwarders
<1>19. Accounts'
  BY <1>1, <1>3, <1>7, <1>13, <1>14, SameConfig DEF Accounts
<1> QED
  BY <1>15, <1>16, <1>17, <1>18, <1>19 DEF IInv

\* A code on its way through a forwarder stays in flight.
LEMMA ForwardInFlight ==
  ASSUME IInv, NEW g \in ccrs, NEW k \in DOMAIN forwarders, Forward(g, k)
  PROVE  Unaccounted' = Unaccounted /\ Refusals' = Refusals /\ Converging' = Converging
<1> DEFINE n == g.chan.node
           new == [chan |-> g.chan, at |-> "close", code |-> NoCode]
<1>1. /\ pc # "panic" /\ g.at = "send" /\ forwarders[k].at = "receive"
      /\ forwarders[k].chan = g.chan
      /\ forwarders' = [forwarders EXCEPT ![k].at = "send", ![k].code = g.code]
      /\ ccrs' = (ccrs \ {g}) \cup {new}
  BY DEF Forward, Advance, Running
<1>2. new.chan = g.chan /\ new.at = "close"
  OBVIOUS
<1>3. DOMAIN forwarders' = DOMAIN forwarders
      /\ \A m \in DOMAIN forwarders :
           /\ forwarders'[m].chan = forwarders[m].chan
           /\ forwarders'[m].code = IF m = k THEN g.code ELSE forwarders[m].code
           /\ forwarders'[m].at = IF m = k THEN "send" ELSE forwarders[m].at
  BY <1>1, RunsInFlight
<1> HIDE DEF new
<1>4. Unaccounted' = Unaccounted
  <2>1. \A m : m \in Unaccounted <=>
          \/ m = n
          \/ \E h \in ccrs : h # g /\ h.at \in {"converge", "send"} /\ h.chan.node = m
          \/ \E f \in DOMAIN forwarders : f # k /\ forwarders[f].at = "send" /\ forwarders[f].chan.node = m
    BY <1>1 DEF Unaccounted
  <2>2. \A m : m \in Unaccounted' <=>
          \/ m = n
          \/ \E h \in ccrs : h # g /\ h.at \in {"converge", "send"} /\ h.chan.node = m
          \/ \E f \in DOMAIN forwarders : f # k /\ forwarders[f].at = "send" /\ forwarders[f].chan.node = m
    BY <1>1, <1>2, <1>3 DEF Unaccounted
  <2> QED
    BY <2>1, <2>2
<1>5. Refusals' = Refusals
  <2>1. \A m : m \in Refusals <=>
          \/ m = n /\ g.code = "other"
          \/ \E h \in ccrs : h # g /\ h.at = "send" /\ h.code = "other" /\ h.chan.node = m
          \/ \E f \in DOMAIN forwarders : /\ f # k /\ forwarders[f].at = "send"
                                          /\ forwarders[f].code = "other"
                                          /\ forwarders[f].chan.node = m
    BY <1>1 DEF Refusals
  <2>2. \A m : m \in Refusals' <=>
          \/ m = n /\ g.code = "other"
          \/ \E h \in ccrs : h # g /\ h.at = "send" /\ h.code = "other" /\ h.chan.node = m
          \/ \E f \in DOMAIN forwarders : /\ f # k /\ forwarders[f].at = "send"
                                          /\ forwarders[f].code = "other"
                                          /\ forwarders[f].chan.node = m
    BY <1>1, <1>2, <1>3 DEF Refusals
  <2> QED
    BY <2>1, <2>2
<1>6. Converging' = Converging
  BY <1>1, <1>2 DEF Converging
<1> QED
  BY <1>4, <1>5, <1>6

\* Forwarder k takes the code from the goroutine.
LEMMA ForwardStep ==
  ASSUME IInv, NEW g \in ccrs, NEW k \in DOMAIN forwarders, Forward(g, k)
  PROVE  IInv'
<1> DEFINE n == g.chan.node
           new == [chan |-> g.chan, at |-> "close", code |-> NoCode]
<1>1. /\ UNCHANGED <<config, ccrsTotal, pc, c, j, i, channels, rejects, ccrsIngested,
                     ccrsRejected, runs, unreported, refused>>
      /\ pc # "panic" /\ g.at = "send" /\ forwarders[k].at = "receive"
      /\ forwarders[k].chan = g.chan
      /\ forwarders' = [forwarders EXCEPT ![k].at = "send", ![k].code = g.code]
      /\ ccrs' = (ccrs \ {g}) \cup {new}
  BY DEF Forward, Advance, Running, loopVars, tally, history
<1>2. TypeOK /\ Loops /\ Goroutines /\ Forwarders /\ Accounts
  BY DEF IInv
<1>3. /\ new.chan = g.chan /\ new.at = "close" /\ new.code = NoCode
      /\ new \in [chan : Channel, at : {"converge", "send", "close"}, code : Codes \cup {NoCode}]
  BY <1>1, RunsInFlight
<1>4. g.code \in Codes /\ (g.code = "200" => config.DataCollector)
  BY <1>1, RunsInFlight
<1>5. DOMAIN forwarders' = DOMAIN forwarders
      /\ \A m \in DOMAIN forwarders :
           /\ forwarders'[m].chan = forwarders[m].chan
           /\ forwarders'[m].code = IF m = k THEN g.code ELSE forwarders[m].code
           /\ forwarders'[m].at = IF m = k THEN "send" ELSE forwarders[m].at
           /\ forwarders'[m] \in [chan : Channel \cup {NilChannel},
                                  at : {"receive", "send", "done"}, code : Codes \cup {NoCode}]
  BY <1>1, <1>4, RunsInFlight
<1> HIDE DEF new
<1>6. \A h \in ccrs : h.chan.node = n => h = g
  BY <1>1, RunsInFlight
<1>7. \A m \in DOMAIN forwarders : forwarders[m].chan.node = n => m = k
  BY <1>1, RunsInFlight
<1>8. Unaccounted' = Unaccounted /\ Refusals' = Refusals /\ Converging' = Converging
  BY ForwardInFlight
<1>9. TypeOK'
  BY <1>1, <1>2, <1>3, <1>5, SameConfig DEF TypeOK
<1>10. (Loops /\ Slice /\ PanicsExplained)'
  BY <1>1, SameLoops
<1>11. Goroutines'
  BY <1>1, <1>2, <1>3, SameConfig DEF Goroutines, NoCode
<1>12. Forwarders'
  <2>1. \A m : Chan(m)' = Chan(m)
    BY <1>1, SameConfig DEF Chan
  <2>2. pc = "collect" /\ DOMAIN forwarders = 0 .. i - 1
    BY <1>1, <1>2, RunsInFlight DEF Forwarders
  <2>3. ASSUME NEW m \in DOMAIN forwarders
        PROVE  /\ forwarders'[m].chan = Chan(m)
               /\ forwarders'[m].code = "200" => config.DataCollector
               /\ forwarders'[m].at = "send" => forwarders'[m].code \in Codes
               /\ \A h \in ccrs' : h.chan.node = m + j * Threads =>
                    /\ forwarders'[m].at # "done"
                    /\ h.at # "close" => forwarders'[m].at = "receive"
    <3>1. forwarders[m].chan.node = m + j * Threads /\ forwarders[m].chan = Chan(m)
      BY <1>1, RunsInFlight
    <3>2. CASE m = k
      <4>1. forwarders'[m].chan = Chan(m) /\ forwarders'[m].code = g.code
            /\ forwarders'[m].at = "send"
        BY <1>5, <3>1, <3>2
      <4>2. \A h \in ccrs' : h.chan.node = m + j * Threads => h.at = "close"
        BY <1>1, <1>3, <1>6, <3>1, <3>2
      <4> QED
        BY <1>4, <4>1, <4>2
    <3>3. CASE m # k
      <4>1. forwarders'[m].chan = Chan(m) /\ forwarders'[m].code = forwarders[m].code
            /\ forwarders'[m].at = forwarders[m].at
        BY <1>5, <3>1, <3>3
      <4>2. n # m + j * Threads
        BY <1>7, <3>1, <3>3
      <4>3. \A h \in ccrs' : h.chan.node = m + j * Threads => h \in ccrs
        BY <1>1, <1>3, <4>2
      <4> QED
        BY <1>1, <3>1, <4>1, <4>3, RunsInFlight
    <3> QED
      BY <3>2, <3>3
  <2> QED
    BY <1>1, <1>5, <2>1, <2>2, <2>3, SameConfig DEF Forwarders
<1>13. Accounts'
  BY <1>1, <1>2, <1>8, SameConfig DEF Accounts
<1> QED
  BY <1>9, <1>10, <1>11, <1>12, <1>13 DEF IInv

\* The goroutine closes its channel and ends.
LEMMA CloseStep ==
  ASSUME IInv, NEW g \in ccrs, Close(g)
  PROVE  IInv'
<1>1. /\ UNCHANGED <<config, ccrsTotal, pc, c, j, i, channels, forwarders, rejects, ccrsIngested,
                     ccrsRejected, runs, unreported, refused>>
      /\ pc # "panic" /\ g.at = "close" /\ ccrs' = ccrs \ {g}
  BY DEF Close, Running, loopVars, tally, history
<1>2. TypeOK /\ Loops /\ Goroutines /\ Forwarders /\ Accounts
  BY DEF IInv
<1>3. Unaccounted' = Unaccounted /\ Refusals' = Refusals /\ Converging' = Converging
  BY <1>1 DEF Unaccounted, Refusals, Converging
<1>4. TypeOK'
  BY <1>1, <1>2, SameConfig DEF TypeOK
<1>5. (Loops /\ Slice /\ PanicsExplained)'
  BY <1>1, SameLoops
<1>6. Goroutines'
  BY <1>1, <1>2, SameConfig DEF Goroutines
<1>7. Forwarders'
  <2>1. \A m : Chan(m)' = Chan(m)
    BY <1>1, SameConfig DEF Chan
  <2> QED
    BY <1>1, <1>2, <2>1, SameConfig DEF Forwarders
<1>8. Accounts'
  BY <1>1, <1>2, <1>3, SameConfig DEF Accounts
<1> QED
  BY <1>4, <1>5, <1>6, <1>7, <1>8 DEF IInv

\* Forwarder k is done when the goroutine of its channel has ended.
LEMMA DoneStep ==
  ASSUME IInv, NEW k \in DOMAIN forwarders, Done(k)
  PROVE  IInv'
<1>1. /\ UNCHANGED <<config, ccrsTotal, pc, c, j, i, channels, ccrs, rejects, ccrsIngested,
                     ccrsRejected, runs, unreported, refused>>
      /\ pc # "panic" /\ forwarders[k].at = "receive"
      /\ forwarders' = [forwarders EXCEPT ![k].at = "done"]
      /\ \A g \in ccrs : g.chan # forwarders[k].chan
  BY DEF Done, Running, IsClosed, loopVars, tally, history
<1>2. TypeOK /\ Loops /\ Goroutines /\ Forwarders /\ Accounts
  BY DEF IInv
<1>3. \A m \in DOMAIN forwarders :
        forwarders[m].chan.node = m + j * Threads /\ forwarders[m].chan = Chan(m)
  BY <1>1, RunsInFlight
<1>4. \A g \in ccrs : g.chan.node # k + j * Threads
  BY <1>1, <1>3, RunsInFlight DEF Chan
<1>5. DOMAIN forwarders' = DOMAIN forwarders
      /\ \A m \in DOMAIN forwarders :
           /\ forwarders'[m].chan = forwarders[m].chan
           /\ forwarders'[m].code = forwarders[m].code
           /\ forwarders'[m].at = IF m = k THEN "done" ELSE forwarders[m].at
           /\ forwarders'[m] \in [chan : Channel \cup {NilChannel},
                                  at : {"receive", "send", "done"}, code : Codes \cup {NoCode}]
  BY <1>1, RunsInFlight
<1>6. Unaccounted' = Unaccounted /\ Refusals' = Refusals /\ Converging' = Converging
  BY <1>1, <1>5 DEF Unaccounted, Refusals, Converging
<1>7. TypeOK'
  BY <1>1, <1>2, <1>5, SameConfig DEF TypeOK
<1>8. (Loops /\ Slice /\ PanicsExplained)'
  BY <1>1, SameLoops
<1>9. Goroutines'
  BY <1>1, <1>2, SameConfig DEF Goroutines
<1>10. Forwarders'
  <2>1. \A m : Chan(m)' = Chan(m)
    BY <1>1, SameConfig DEF Chan
  <2> QED
    BY <1>1, <1>2, <1>4, <1>5, <2>1, SameConfig DEF Forwarders
<1>11. Accounts'
  BY <1>1, <1>2, <1>6, SameConfig DEF Accounts
<1> QED
  BY <1>7, <1>8, <1>9, <1>10, <1>11 DEF IInv

-----------------------------------------------------------------------------
(* The theorems *)

\* Every step keeps the invariant.
LEMMA StepIInv == IInv /\ [Next]_vars => IInv'
<1> SUFFICES ASSUME IInv, [Next]_vars PROVE IInv'
  OBVIOUS
<1>1. CASE Main
  BY <1>1, PrepareStep, RoundStep, StartBatchStep, EndRoundStep, LaunchStep, MergeStep,
     EndCollectStep, PauseStep, CollectStep DEF Main
<1>2. CASE CCRStep
  BY <1>2, ConvergeStep, CloseStep DEF CCRStep
<1>3. CASE ForwarderStep
  BY <1>3, DoneStep, ForwardStep DEF ForwarderStep
<1>4. CASE Terminated \/ UNCHANGED vars
  <2>1. UNCHANGED vars
    BY <1>4 DEF Terminated
  <2>2. /\ UNCHANGED <<config, pc, ccrsTotal, c, j, i, channels, ccrs, forwarders, rejects,
                       ccrsIngested, ccrsRejected, runs, unreported, refused>>
    BY <2>1 DEF vars, loopVars, tally, history
  <2>3. Started' = Started /\ BatchSize' = BatchSize /\ (LeftShort' <=> LeftShort)
        /\ \A k : Chan(k)' = Chan(k)
    BY <2>2, SameConfig DEF Started, BatchSize, LeftShort, Chan
  <2>4. TypeOK' /\ Loops'
    BY <2>2, <2>3, SameConfig DEF IInv, TypeOK, Loops
  <2>5. Slice' /\ Goroutines' /\ Forwarders'
    BY <2>2, <2>3, SameConfig DEF IInv, Slice, Goroutines, Forwarders
  <2>6. Accounts' /\ PanicsExplained'
    BY <2>2, SameConfig, SameRuns DEF IInv, Accounts, PanicsExplained
  <2> QED
    BY <2>4, <2>5, <2>6 DEF IInv
<1> QED
  BY <1>1, <1>2, <1>3, <1>4 DEF Next

\* The invariant holds in every reachable state, for every set of
\* configurations.
THEOREM Invariance == Spec => []IInv
BY InitIInv, StepIInv, PTL DEF Spec

\* Loop variables, slice, goroutines, forwarders and counters have their types.
THEOREM TypeCorrect == Spec => []TypeOK
<1>1. IInv => TypeOK
  BY DEF IInv
<1> QED
  BY <1>1, Invariance, PTL

\* GenerateCCRs itself panics before the first run because of a bad configuration,
\* or later because of the slice that a short last batch has left behind.
THEOREM DeathsAreExplained == Spec => []PanicsExplained
<1>1. IInv => PanicsExplained
  BY DEF IInv
<1> QED
  BY <1>1, Invariance, PTL

\* After every batch each run is counted once, and as what the data collector
\* made of it.
THEOREM NoCodeIsLost == Spec => []CountersAddUp
<1>1. IInv => CountersAddUp
  <2> SUFFICES ASSUME IInv, pc \in {"batch", "pause", "round", "done"}
               PROVE  /\ ccrsRejected = IF config.DataCollector THEN refused ELSE unreported
                      /\ ccrsIngested = unreported - ccrsRejected
    BY DEF CountersAddUp
  <2>1. TypeOK /\ Accounts /\ ccrs = {} /\ forwarders = <<>>
    BY DEF IInv, Goroutines, Forwarders
  <2>2. /\ unreported = ccrsIngested + ccrsRejected
        /\ config.DataCollector => refused = ccrsRejected
    BY <2>1, AccountsAtRest
  <2>3. ~config.DataCollector => ccrsIngested = 0
    BY <2>1 DEF Accounts
  <2> QED
    BY <2>1, <2>2, <2>3 DEF TypeOK
<1> QED
  BY <1>1, Invariance, PTL

\* A batch starts only when all runs of the batch before have ended and been
\* counted, so that never more than Threads nodes converge at a time.
THEOREM BatchesDoNotOverlap == Spec => []BatchBarrier
<1>1. IInv => BatchBarrier
  <2> SUFFICES ASSUME IInv, pc # "panic", ccrs # {}
               PROVE  /\ \A g \in ccrs : /\ g.chan.round = c
                                         /\ g.chan.node \div Threads = j
                                         /\ pc \in {"launch", "collect"}
                      /\ Cardinality(ccrs) <= Threads
    BY DEF BatchBarrier
  <2>1. TypeOK /\ Loops /\ Goroutines /\ pc \in {"launch", "collect"}
    BY DEF IInv, Goroutines
  <2>2. Usable /\ j < batches /\ i <= BatchSize
    <3>1. (pc = "launch" => i <= BatchSize) /\ (pc = "collect" => i = BatchSize)
      BY <2>1 DEF Loops
    <3>2. Usable /\ j < batches
      BY <2>1 DEF Loops
    <3>3. i \in Nat /\ j \in Nat
      BY <2>1, <3>2, UsableThreads DEF TypeOK
    <3>4. BatchSize \in 0 .. Threads /\ Threads \in Nat
      BY <2>1, <3>2, <3>3, OpenBatch, UsableThreads
    <3> QED
      BY <2>1, <3>1, <3>2, <3>3, <3>4
  <2>3. /\ i \in Nat /\ j \in Nat /\ Threads \in Nat /\ BatchSize \in 0 .. Threads
        /\ j * Threads \in Nat
    BY <2>1, <2>2, UsableThreads, OpenBatch DEF TypeOK
  <2>4. \A g \in ccrs : /\ g.chan.node \in j * Threads .. j * Threads + i - 1
                        /\ \A h \in ccrs : h.chan.node = g.chan.node => h = g
    BY <2>1 DEF Goroutines
  <2>5. ASSUME NEW g \in ccrs PROVE g.chan.node \div Threads = j
    <3>1. PICK k \in Int : k = g.chan.node - j * Threads
      BY <2>3, <2>4
    <3>2. k \in 0 .. Threads - 1 /\ g.chan.node = j * Threads + k
      BY <2>2, <2>3, <2>4, <3>1
    <3> QED
      BY <2>3, <3>2, BatchOfNode
  <2>6. Cardinality(ccrs) \in Nat /\ Cardinality(ccrs) <= i
    <3> DEFINE S == j * Threads .. j * Threads + i - 1
               f == [g \in ccrs |-> g.chan.node]
    <3>1. IsFiniteSet(S) /\ Cardinality(S) = i
      BY <2>3, FS_Interval
    <3>2. f \in Injection(ccrs, S)
      BY <2>4 DEF Injection, IsInjective
    <3> HIDE DEF S, f
    <3>3. IsFiniteSet(ccrs) /\ Cardinality(ccrs) <= Cardinality(S)
      BY <3>1, <3>2, FS_Injection
    <3> QED
      BY <3>1, <3>3, FS_CardinalityType
  <2>7. Cardinality(ccrs) <= Threads
    BY <2>2, <2>3, <2>6
  <2> QED
    BY <2>1, <2>5, <2>7, RunsInFlight
<1> QED
  BY <1>1, Invariance, PTL

\* As many runs, Interval minutes apart, as fit a number of days.
LEMMA FullDays ==
  ASSUME NEW M \in Nat, NEW I \in Nat, NEW D \in Nat, I > 0, D > 0
  PROVE  LET total == (M \div I) * D IN
         /\ total % D = 0
         /\ total * I <= M * D
         /\ (total + D) * I > M * D
<1>1. PICK q \in Nat : q = M \div I
  OBVIOUS
<1>2. q * I <= M /\ M + 1 <= (q + 1) * I
  BY <1>1
<1>3. (q * D) * I = (q * I) * D /\ (q * D + D) * I = ((q + 1) * I) * D
  OBVIOUS
<1>4. (q * I) * D <= M * D /\ (M + 1) * D <= ((q + 1) * I) * D
  <2>1. q * I \in Int /\ (q + 1) * I \in Int /\ M + 1 \in Int
    OBVIOUS
  <2> QED
    BY <1>2, <2>1, TimesIsMonotonic
<1>5. (M + 1) * D = M * D + D /\ M * D \in Nat
  OBVIOUS
<1>6. (q * D) % D = 0
  OBVIOUS
<1> QED
  BY <1>1, <1>3, <1>4, <1>5, <1>6

\* When GenerateCCRs returns, the runs of every node fill the days asked for.
THEOREM HistoryIsComplete == Spec => []RunsFillTheDays
<1>1. IInv => RunsFillTheDays
  <2> SUFFICES ASSUME IInv, pc = "done", NEW n \in Nodes
               PROVE  IF Historical
                        THEN /\ runs[n] % config.DaysBack = 0
                             /\ runs[n] * config.Interval <= MinutesPerDay * config.DaysBack
                             /\ (runs[n] + config.DaysBack) * config.Interval
                                  > MinutesPerDay * config.DaysBack
                        ELSE runs[n] = 1
    BY DEF RunsFillTheDays
  <2>1. TypeOK /\ Loops /\ Usable /\ ccrsTotal = RunsPerNode /\ c = ccrsTotal
    BY DEF IInv, Loops
  <2>2. n \in Nat
    BY <2>1, ConfigTypes DEF Nodes
  <2>3. runs[n] = RunsPerNode
    BY <2>1, <2>2 DEF Loops, Started
  <2>4. CASE Historical
    <3>1. config.Interval \in Nat /\ config.Interval > 0
          /\ config.DaysBack \in Nat /\ config.DaysBack > 0 /\ MinutesPerDay \in Nat
      BY <2>1, <2>4, ConfigTypes DEF Usable, BadInterval, Historical, MinutesPerDay
    <3>2. runs[n] = (MinutesPerDay \div config.Interval) * config.DaysBack
      BY <2>3, <2>4 DEF RunsPerNode
    <3> QED
      BY <2>4, <3>1, <3>2, FullDays
  <2>5. CASE ~Historical
    BY <2>3, <2>5 DEF RunsPerNode
  <2> QED
    BY <2>4, <2>5
<1> QED
  BY <1>1, Invariance, PTL
================================================================================
