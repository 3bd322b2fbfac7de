--------------------------- MODULE GenerateDataProofs ---------------------------
(***************************************************************************)
(* Theorems about GenerateData and the generators it is made of, for every *)
(* set of configurations, node names and environments.                     *)
(***************************************************************************)
EXTENDS GenerateData, FiniteSetTheorems, TLAPS

-----------------------------------------------------------------------------
(* The inductive invariant *)

\* The generators that run, and those of them that send for themselves.
Busy == {g \in Generator : Runs(g)}
Senders == {g \in Busy : g # "ccrs"}

\* The WaitGroup counts the generators that run; those that were passed by
\* were started or are not wanted.
WaitGroup ==
  /\ wg = Cardinality(Busy)
  /\ \A k \in DOMAIN Order : main <= k => gens[Order[k]] = "new"
  /\ \A k \in DOMAIN Order :
       k < main /\ gens[Order[k]] = "new" => Order[k] = "liveness" /\ ~config.LivenessAgent
  /\ gens["liveness"] # "new" => config.LivenessAgent
  /\ main = Profiling => wg = 0

\* A round there is can be counted.
Prepared == round # -1 => ~BadInterval

\* Between the rounds no run is left.
Rounds == ~Runs("ccrs") \/ round = -1 => AllEnded

\* Every request is with its sender, with the aggregator, or counted.
Transit ==
  /\ handing \subseteq Nodes \cup Senders
  /\ asked = counted + Cardinality(handing) + IF holding = Nobody THEN 0 ELSE 1

\* While the profile is printed one request at most has not been added.
Late ==
  /\ adding <= counted
  /\ main # Profiling => adding = 0
  /\ main = Profiling => asked <= counted - adding + 1

\* How many of the reports of a node are less than a day old.
Youngest ==
  LET young == (Day - 1) \div interval + 1
  IN  IF young < maxScansNode THEN young ELSE maxScansNode

\* The open node and its reports.
Scanning ==
  /\ at = "scan" =>
       /\ nodeIndex < config.Nodes /\ totalScans < config.TotalMaxScans
       /\ interval # 0 /\ scanIndex <= maxScansNode
       /\ earlier <= totalScans
       /\ ofNode = IF Direct THEN maxScansNode - scanIndex ELSE 0
       /\ lastDay = IF Direct /\ scanIndex < Youngest THEN Youngest - scanIndex ELSE 0
  /\ at = "node" => earlier + ofNode <= totalScans
  /\ at = "start" => ofNode = 0 /\ earlier = 0 /\ totalScans = 0

\* What a run knows of its node on the Chef Server.
Unsettled == {"createClient", "getNode", "postNode"}
Draws ==
  \A n \in Nodes :
    /\ ~ChefServer => server[n] = None
    /\ stage[n] = "postNode" => server[n] = None
    /\ stage[n] \notin Unsettled /\ server[n] # None /\ ~unread[n] => env[n] = server[n]

IInv ==
  /\ DataTypeOK
  /\ WaitGroup
  /\ Prepared
  /\ Rounds
  /\ Transit
  /\ Late
  /\ Scanning
  /\ ReportsWithinLimits
  /\ Draws
  /\ DeathsExplained
  /\ ProfileMissesAtMostOne

-----------------------------------------------------------------------------
(* Constants and configurations *)

\* The four generators.
LEMMA Generators4 ==
  /\ DOMAIN Order = 1 .. 4 /\ Len(Order) = 4 /\ Waiting = 5 /\ Profiling = 6
  /\ Order[1] = "compliance" /\ Order[2] = "actions" /\ Order[3] = "ccrs"
  /\ Order[4] = "liveness"
  /\ Generator = {"compliance", "actions", "ccrs", "liveness"}
BY DEF Order, Generator, Waiting, Profiling

\* A configuration has a Chef Server or a data collector.
LEMMA ConfigFields ==
  ASSUME config \in Configs
  PROVE  /\ ChefServer \in BOOLEAN /\ Direct \in BOOLEAN /\ (ChefServer \/ Direct)
         /\ config.LivenessAgent \in BOOLEAN
         /\ config.NumNodes \in Nat /\ config.NumActions \in Nat
         /\ config.DaysBack \in Nat /\ config.Interval \in Nat /\ config.Threads \in Int
         /\ config.Platforms \in Nat /\ config.Nodes \in Nat /\ config.Days \in Nat
         /\ config.MaxScans \in Nat /\ config.TotalMaxScans \in Nat
         /\ config.ChefServer \in {"org", "noOrg", "relative"}
<1>1. config \in ConfigType
  BY ConfigsAssumption
<1>2. PICK raw \in RawConfig : Accepts(raw) /\ config.mode = FromViper(raw)
  BY <1>1 DEF ConfigType
<1>3. config.mode.RunChefClient = raw.ChefServerURL
      /\ config.mode.DataCollectorURL = raw.DataCollectorURL
  BY <1>2 DEF FromViper
<1>4. /\ raw.ChefServerURL \in BOOLEAN /\ raw.DataCollectorURL \in BOOLEAN
      /\ (raw.ChefServerURL \/ raw.DataCollectorURL)
  BY <1>2 DEF RawConfig, Accepts
<1>5. ChefServer \in BOOLEAN /\ Direct \in BOOLEAN /\ (ChefServer \/ Direct)
  BY <1>3, <1>4, Zenon DEF ChefServer, Direct
<1> QED
  BY <1>1, <1>5 DEF ConfigType

\* The number of runs per node is a number when there is no division by zero.
LEMMA RoundsAreCounted ==
  ASSUME config \in Configs, ~BadInterval
  PROVE  ccrsTotal \in Nat
<1>1. PICK back \in Nat, minutes \in Nat : back = config.DaysBack /\ minutes = config.Interval
  BY ConfigFields
<1>2. CASE back > 0
  <2>1. minutes > 0
    BY <1>1, <1>2 DEF BadInterval
  <2>2. PICK perDay \in Nat : perDay = 1440 \div minutes
    BY <2>1
  <2>3. perDay * back \in Nat
    OBVIOUS
  <2> QED
    BY <1>1, <1>2, <2>2, <2>3 DEF ccrsTotal, MinutesPerDay
<1>3. CASE ~(back > 0)
  BY <1>1, <1>3 DEF ccrsTotal
<1> QED
  BY <1>2, <1>3

\* The names of the nodes.
LEMMA NodesAre ==
  ASSUME config \in Configs
  PROVE  /\ IsFiniteSet(Nodes) /\ Nobody \notin Nodes /\ Nobody \notin Generator
         /\ Nodes \cap Generator = {}
<1>1. 1 .. config.NumNodes \subseteq DOMAIN NodeNames /\ config.NumNodes \in Nat
  BY ConfigFields, RandomRunAssumption
<1>2. Nobody \notin Nodes /\ Nodes \cap Generator = {}
  BY <1>1, GoroutinesAssumption DEF Nodes
<1>3. Nobody \notin Generator
  BY Generators4 DEF Nobody
<1>4. IsFiniteSet(1 .. config.NumNodes)
  BY <1>1, FS_Interval
<1>5. IsFiniteSet(Nodes)
  <2> DEFINE f == [k \in 1 .. config.NumNodes |-> NodeNames[k]]
  <2>1. f \in Surjection(1 .. config.NumNodes, Nodes)
    BY DEF Nodes, Surjection
  <2> QED
    BY <1>4, <2>1, FS_Surjection
<1> QED
  BY <1>2, <1>3, <1>5

\* The names of the stages, and the stage after each.
StageNames == {Stages[k] : k \in 1 .. Len(Stages)}

\* Every stage of randomChefClientRun is followed by a stage.
LEMMA AfterIsAStage ==
  ASSUME NEW s \in StageNames
  PROVE  After(s) \in StageNames
<1>1. Len(Stages) = 13
  BY DEF Stages
<1>2. \E k \in 1 .. Len(Stages) : Stages[k] = s
  BY DEF StageNames
<1>3. PICK k \in 1 .. 13 : k = CHOOSE x \in 1 .. Len(Stages) : Stages[x] = s
  BY <1>1, <1>2, Zenon
<1>4. After(s) = Stages[(k % 13) + 1]
  BY <1>1, <1>3 DEF After
<1>5. (k % 13) + 1 \in 1 .. 13
  OBVIOUS
<1> QED
  BY <1>1, <1>4, <1>5 DEF StageNames

-----------------------------------------------------------------------------
(* Intervals and scans *)

\* Multiplication keeps the order.
LEMMA TimesKeepsOrder ==
  ASSUME NEW T \in Nat, NEW a \in Int, NEW b \in Int, a <= b
  PROVE  a * T <= b * T
  OBVIOUS

\* An interval of whole minutes, zero only by the limit of the most frequent
\* tenth.
LEMMA Intervals ==
  ASSUME config \in Configs, NEW index \in Nat, index > 0
  PROVE  /\ intervalMinutes(index) \in Nat
         /\ intervalMinutes(index) = 0 =>
              /\ config.MaxScans = 0 \/ config.MaxScans > Day
              /\ config.Nodes >= 10
         /\ 10 * index <= config.Nodes => intervalMinutes(index) = Often
<1>1. config.Nodes \in Nat /\ config.MaxScans \in Nat
  BY ConfigFields
<1>2. Often \in Nat /\ (Often = 0 => config.MaxScans = 0 \/ config.MaxScans > Day)
  <2>1. CASE config.MaxScans = 0
    BY <2>1 DEF Often
  <2>2. CASE config.MaxScans # 0
    <3>1. Day \div config.MaxScans \in Nat
      BY <1>1, <2>2 DEF Day
    <3>2. config.MaxScans <= Day => Day \div config.MaxScans > 0
      BY <1>1, <2>2 DEF Day
    <3> QED
      BY <1>1, <2>2, <3>1, <3>2 DEF Often, Day
  <2> QED
    BY <2>1, <2>2
<1>3. Day = 1440
  BY DEF Day
<1> QED
  BY <1>1, <1>2, <1>3 DEF intervalMinutes

\* At least one scan for every node.
LEMMA Scans ==
  ASSUME config \in Configs, nodeIndex \in Nat, interval # 0
  PROVE  /\ interval \in Nat /\ interval > 0
         /\ maxScansNode \in Nat /\ maxScansNode > 0
         /\ Youngest \in Nat /\ Youngest > 0 /\ Youngest <= maxScansNode
<1>1. interval \in Nat /\ interval > 0
  BY Intervals DEF interval
<1>2. PICK I \in Nat : I = interval
  BY <1>1
<1>3. PICK t \in Nat : t = config.Days * Day
  BY ConfigFields DEF Day
<1>4. t \div I \in Nat /\ (Day - 1) \div I \in Nat
  BY <1>1, <1>2 DEF Day
<1>5. maxScansNode = (t \div I) + 1
  BY <1>2, <1>3 DEF maxScansNode
<1> QED
  BY <1>1, <1>2, <1>4, <1>5 DEF Youngest

\* Which scans are less than a day old.
LEMMA LessThanADay ==
  ASSUME NEW I \in Nat, I > 0, NEW index \in Nat
  PROVE  I * index < Day <=> index < (Day - 1) \div I + 1
<1>1. PICK q \in Nat : q = (Day - 1) \div I
  BY DEF Day
<1>2. q * I <= 1439 /\ 1439 < (q + 1) * I
  BY <1>1 DEF Day
<1>3. (index <= q => index * I <= q * I) /\ (q + 1 <= index => (q + 1) * I <= index * I)
  BY TimesKeepsOrder
<1>4. index * I = I * index /\ I * index \in Nat /\ q * I \in Nat /\ (q + 1) * I \in Nat
  OBVIOUS
<1> QED
  BY <1>1, <1>2, <1>3, <1>4 DEF Day

\* The most frequent nodes get max_scans reports in a day and less than twice
\* as many, and none of them is cut off when there is a day to report on.
LEMMA MostFrequent ==
  ASSUME NEW M \in Nat, M > 0, NEW D \in Nat, D > 0, NEW I \in Nat, I > 0, I = Day \div M
  PROVE  LET young == (Day - 1) \div I + 1 IN
         /\ M <= young /\ young < 2 * M
         /\ young <= (D * Day) \div I + 1
<1>1. PICK y \in Nat : y = (Day - 1) \div I
  BY DEF Day
<1>2. M * I <= 1440 /\ 1440 < M * I + M
  BY DEF Day
<1>3. M \in 1 .. 1440
  <2>1. I >= 1 => M * 1 <= M * I
    OBVIOUS
  <2> QED
    BY <1>2, <2>1
<1>4. M - 1 < y + 1
  <2>1. I * (M - 1) < 1440
    <3>1. I * (M - 1) = M * I - I
      OBVIOUS
    <3> QED
      BY <1>2, <3>1
  <2> QED
    BY <1>1, <1>3, <2>1, LessThanADay DEF Day
<1>5. ~(2 * M - 1 < y + 1)
  <2>1. I * (2 * M - 1) = M * I + (M - 1) * I
    OBVIOUS
  <2>2. (M - 1) * I >= M - 1
    <3>1. 1 * (M - 1) <= I * (M - 1)
      BY <1>3, TimesKeepsOrder
    <3> QED
      BY <1>3, <3>1
  <2>3. ~(I * (2 * M - 1) < 1440)
    BY <1>2, <1>3, <2>1, <2>2
  <2>4. 2 * M - 1 \in Nat
    BY <1>3
  <2> QED
    BY <1>1, <2>3, <2>4, LessThanADay DEF Day
<1>6. y <= (D * Day) \div I
  <2>1. PICK t \in Nat : t = D * Day
    BY DEF Day
  <2>2. t >= 1439
    <3>1. 1 * Day <= D * Day
      BY TimesKeepsOrder DEF Day
    <3> QED
      BY <2>1, <3>1 DEF Day
  <2>3. PICK z \in Nat : z = t \div I
    OBVIOUS
  <2>4. t < (z + 1) * I /\ y * I <= 1439
    BY <1>1, <2>3 DEF Day
  <2>5. z + 1 <= y => (z + 1) * I <= y * I
    BY TimesKeepsOrder
  <2>6. y <= z
    <3>1. (z + 1) * I \in Nat /\ y * I \in Nat
      OBVIOUS
    <3> QED
      BY <2>2, <2>4, <2>5, <3>1
  <2> QED
    BY <2>1, <2>3, <2>6
<1> QED
  <2>1. y + 1 <= (D * Day) \div I + 1
    <3>1. PICK z \in Int : z = (D * Day) \div I
      BY DEF Day
    <3> QED
      BY <1>6, <3>1
  <2>2. M <= y + 1 /\ y + 1 < 2 * M
    BY <1>3, <1>4, <1>5
  <2> QED
    BY <1>1, <2>1, <2>2

\* The order of the stages.
LEMMA AfterIs ==
  ASSUME NEW k \in 1 .. 13
  PROVE  After(Stages[k]) = Stages[(k % 13) + 1]
<1>1. Len(Stages) = 13
  BY DEF Stages
<1>2. \A a, b \in 1 .. 13 : Stages[a] = Stages[b] => a = b
  BY DEF Stages
<1>3. (CHOOSE x \in 1 .. 13 : Stages[x] = Stages[k]) = k
  <2>1. PICK y : y = CHOOSE x \in 1 .. 13 : Stages[x] = Stages[k]
    OBVIOUS
  <2>2. y \in 1 .. 13 /\ Stages[y] = Stages[k]
    BY <2>1, Zenon
  <2> QED
    BY <1>2, <2>1, <2>2
<1> QED
  BY <1>1, <1>3 DEF After

\* A run creates its client first, then reads the node, and only then posts it.
LEMMA StagesInOrder ==
  /\ After("ended") = "createClient"
  /\ After("createClient") = "getNode"
  /\ \A s \in StageNames : After(s) = "postNode" => s = "getNode"
<1>1. Stages[1] = "ended" /\ Stages[2] = "createClient" /\ Stages[3] = "getNode"
  BY DEF Stages
<1>2. After("ended") = "createClient" /\ After("createClient") = "getNode"
  BY <1>1, AfterIs, 1 % 13 = 1, 2 % 13 = 2
<1>3. ASSUME NEW s \in StageNames, After(s) = "postNode"
      PROVE  s = "getNode"
  <2>1. PICK k \in 1 .. 13 : Stages[k] = s
    BY DEF StageNames, Stages
  <2>2. Stages[(k % 13) + 1] = "postNode"
    BY <1>3, <2>1, AfterIs
  <2>3. (k % 13) + 1 = 4
    BY <2>2 DEF Stages
  <2> QED
    BY <1>1, <2>1, <2>3
<1> QED
  BY <1>2, <1>3

-----------------------------------------------------------------------------
(* What a step leaves alone *)

\* The parts of the type invariant.
SharedTypeOK ==
  /\ config \in Configs
  /\ process \in {"running", "exited"} \cup Deaths
  /\ handing \subseteq Nodes \cup Generator
  /\ holding \in Nodes \cup Generator \cup {Nobody}
  /\ counted \in 0 .. asked /\ asked \in Nat
RoundOK == round = -1 \/ round \in 0 .. ccrsTotal
LoopTypeOK ==
  /\ main \in 1 .. Profiling
  /\ wg \in 0 .. Len(Order)
  /\ gens \in [Generator -> {"new", "running", "done"}]
  /\ RoundOK
  /\ actions \in 0 .. config.NumActions /\ pings \in 0 .. config.NumNodes
  /\ adding \in Nat /\ profile \in 0 .. asked

\* The type invariant, by the generator that changes a variable.
LEMMA TypeParts == DataTypeOK <=> SharedTypeOK /\ LoopTypeOK /\ ReportsTypeOK /\ RunsTypeOK
BY DEF DataTypeOK, SharedTypeOK, LoopTypeOK, RoundOK

\* What depends on the configuration alone.
LEMMA SameNodes ==
  ASSUME config' = config
  PROVE  /\ Nodes' = Nodes
         /\ ChefServer' = ChefServer /\ Direct' = Direct
BY DEF Nodes, ChefServer, Direct

\* What may end GenerateCCRs depends on the configuration alone, too.
LEMMA SameBatches ==
  ASSUME config' = config
  PROVE  /\ ccrsTotal' = ccrsTotal
         /\ BadInterval' = BadInterval /\ BadClient' = BadClient /\ BadThreads' = BadThreads
         /\ ShortBatch' = ShortBatch
BY SameNodes DEF ccrsTotal, BadInterval, BadClient, BadThreads, ShortBatch

\* Only GenerateCCRs counts its rounds.
LEMMA SameRound ==
  ASSUME IInv, UNCHANGED <<config, round>>
  PROVE  RoundOK' /\ Prepared'
<1>1. RoundOK /\ Prepared
  BY TypeParts DEF IInv, LoopTypeOK
<1>2. ccrsTotal' = ccrsTotal /\ BadInterval' = BadInterval
  BY SameBatches
<1> QED
  BY <1>1, <1>2 DEF RoundOK, Prepared

\* The other goroutines do not meddle with the reports.
LEMMA SameReports ==
  ASSUME IInv, UNCHANGED <<config, reportVars>>
  PROVE  ReportsTypeOK' /\ Scanning' /\ ReportsWithinLimits'
<1>1. UNCHANGED <<config, at, nodeIndex, totalScans, scanIndex, ofNode, lastDay, earlier>>
  BY DEF reportVars, reportHistory
<1>2. /\ interval' = interval /\ maxScansNode' = maxScansNode /\ Youngest' = Youngest
      /\ Direct' = Direct
  BY <1>1 DEF interval, intervalMinutes, Often, maxScansNode, Youngest, Direct
<1>3. ReportsTypeOK /\ Scanning /\ ReportsWithinLimits
  BY TypeParts DEF IInv
<1> QED
  BY <1>1, <1>2, <1>3 DEF ReportsTypeOK, Scanning, ReportsWithinLimits

\* Nor with the runs.
LEMMA SameRuns ==
  ASSUME IInv, UNCHANGED <<config, runVars>>
  PROVE  RunsTypeOK' /\ Draws'
<1>1. UNCHANGED <<config, stage, env, reportingAvailable, server, unread>>
  BY DEF runVars
<1>2. RunsTypeOK /\ Draws
  BY TypeParts DEF IInv
<1> QED
  BY <1>1, <1>2, SameNodes DEF RunsTypeOK, Draws

\* Nor with who runs.
LEMMA SameGenerators ==
  ASSUME IInv, UNCHANGED <<config, main, wg, gens>>
  PROVE  /\ WaitGroup' /\ Busy' = Busy /\ Senders' = Senders
         /\ \A g : Runs(g)' <=> Runs(g)
<1>1. WaitGroup
  BY DEF IInv
<1>2. Busy' = Busy
  BY DEF Busy, Runs
<1> QED
  BY <1>1, <1>2 DEF WaitGroup, Senders, Runs

\* What does not end the process has nothing to explain.
LEMMA StillAlive ==
  ASSUME process' = "running"
  PROVE  DeathsExplained' /\ ProfileMissesAtMostOne'
BY DEF DeathsExplained, ProfileMissesAtMostOne, Alive

-----------------------------------------------------------------------------
(* Generators and requests *)

\* There are four generators at most.
LEMMA CountBusy ==
  ASSUME NEW S \in SUBSET Generator
  PROVE  IsFiniteSet(S) /\ Cardinality(S) \in 0 .. Len(Order)
<1>1. Order \in Surjection(1 .. 4, Generator)
  BY Generators4 DEF Surjection, Generator, Order
<1>2. IsFiniteSet(1 .. 4) /\ Cardinality(1 .. 4) = 4
  <2>1. \A b \in Nat : IsFiniteSet(1 .. b) /\ (b > 0 => Cardinality(1 .. b) = b)
    BY FS_Interval
  <2>2. 4 \in Nat /\ 4 > 0
    OBVIOUS
  <2> QED
    BY <2>1, <2>2, Zenon
<1>3. IsFiniteSet(Generator) /\ Cardinality(Generator) <= 4
  BY <1>1, <1>2, FS_Surjection
<1>4. IsFiniteSet(S) /\ Cardinality(S) <= Cardinality(Generator)
  BY <1>3, FS_Subset
<1> QED
  BY <1>3, <1>4, Generators4, FS_CardinalityType

\* Whoever can be in a send.
LEMMA HandingIsFinite ==
  ASSUME SharedTypeOK
  PROVE  IsFiniteSet(handing) /\ Cardinality(handing) \in Nat
<1>1. IsFiniteSet(Nodes) /\ IsFiniteSet(Generator)
  BY NodesAre, CountBusy DEF SharedTypeOK
<1>2. IsFiniteSet(Nodes \cup Generator)
  BY <1>1, FS_Union
<1> QED
  BY <1>2, FS_Subset, FS_CardinalityType DEF SharedTypeOK

\* While anything runs the WaitGroup is not at zero.
LEMMA BusyIsCounted ==
  ASSUME IInv, wg = 0
  PROVE  Busy = {} /\ handing = {} /\ AllEnded
<1>1. Busy = {}
  <2>1. IsFiniteSet(Busy) /\ Cardinality(Busy) = 0
    BY CountBusy DEF IInv, WaitGroup, Busy
  <2> QED
    BY <2>1, FS_EmptySet
<1>2. AllEnded
  BY <1>1, Generators4 DEF IInv, Rounds, Busy
<1>3. handing = {}
  BY <1>1, <1>2 DEF IInv, Transit, Senders, AllEnded, Ended
<1> QED
  BY <1>1, <1>2, <1>3

\* So nobody makes a request when the profile is printed.
LEMMA NobodyAtTheEnd ==
  ASSUME IInv, main = Profiling
  PROVE  (\A g \in Generator : ~Runs(g)) /\ handing = {} /\ AllEnded
BY BusyIsCounted DEF IInv, WaitGroup, Busy

\* A sender hands over its request.
LEMMA HandOverStep ==
  ASSUME IInv, NEW s \in Nodes \cup Senders, Free(s), HandOver(s), main # Profiling,
         UNCHANGED <<main, wg, gens, adding>>
  PROVE  /\ SharedTypeOK' /\ Transit' /\ Late' /\ asked' = asked + 1
         /\ WaitGroup' /\ DeathsExplained' /\ ProfileMissesAtMostOne'
<1>1. /\ UNCHANGED <<config, process, holding, counted>> /\ asked' = asked + 1
      /\ handing' = handing \cup {s} /\ s \notin handing /\ process = "running"
  BY DEF Free, HandOver, Alive
<1>2. SharedTypeOK /\ Transit /\ Late
  BY TypeParts DEF IInv
<1>3. Nodes' = Nodes /\ Busy' = Busy /\ Senders' = Senders /\ WaitGroup'
  BY <1>1, SameNodes, SameGenerators
<1>4. Senders \subseteq Generator
  BY DEF Senders, Busy
<1>5. SharedTypeOK'
  BY <1>1, <1>2, <1>3, <1>4 DEF SharedTypeOK
<1>6. Transit'
  <2>1. Cardinality(handing') = Cardinality(handing) + 1 /\ Cardinality(handing) \in Nat
    BY <1>1, <1>2, HandingIsFinite, FS_AddElement
  <2>2. asked \in Nat /\ counted \in Nat
    BY <1>2 DEF SharedTypeOK
  <2> QED
    BY <1>1, <1>2, <1>3, <2>1, <2>2 DEF Transit
<1>7. Late'
  BY <1>1, <1>2 DEF Late
<1> QED
  BY <1>1, <1>3, <1>5, <1>6, <1>7, StillAlive

\* A generator returns when it has no request on its way.
LEMMA ReturnStep ==
  ASSUME IInv, NEW g \in Generator, Runs(g), Return(g), g # "ccrs" => g \notin handing,
         UNCHANGED <<sharedVars, main, adding>>, process = "running"
  PROVE  /\ SharedTypeOK' /\ Transit' /\ Late' /\ WaitGroup' /\ wg' \in 0 .. Len(Order)
         /\ gens' \in [Generator -> {"new", "running", "done"}]
         /\ DeathsExplained' /\ ProfileMissesAtMostOne'
         /\ g # "ccrs" => (Runs("ccrs")' <=> Runs("ccrs"))
         /\ g = "ccrs" => ~Runs("ccrs")'
<1>1. /\ UNCHANGED <<config, process, handing, holding, counted, asked>>
      /\ gens' = [gens EXCEPT ![g] = "done"] /\ wg' = wg - 1
  BY DEF Return, sharedVars, channelVars
<1>2. SharedTypeOK /\ LoopTypeOK /\ Transit /\ Late /\ WaitGroup
  BY TypeParts DEF IInv
<1>3. gens \in [Generator -> {"new", "running", "done"}] /\ gens[g] = "running"
  BY <1>2 DEF LoopTypeOK, Runs
<1>4. \A h \in Generator : gens'[h] = IF h = g THEN "done" ELSE gens[h]
  BY <1>1, <1>3
<1>5. g \in Busy /\ Busy' = Busy \ {g}
  BY <1>3, <1>4 DEF Busy, Runs
<1>6. Cardinality(Busy') = Cardinality(Busy) - 1 /\ Cardinality(Busy') \in 0 .. Len(Order)
  BY <1>5, CountBusy, FS_RemoveElement DEF Busy
<1>7. main # Profiling
  BY NobodyAtTheEnd
<1>8. WaitGroup'
  BY <1>1, <1>2, <1>3, <1>4, <1>6, <1>7, Generators4 DEF WaitGroup
<1>9. Senders' = Senders \ {g}
  BY <1>5 DEF Senders
<1>10. Transit'
  BY <1>1, <1>2, <1>9, SameNodes DEF Transit, Senders
<1>11. SharedTypeOK' /\ Late'
  BY <1>1, <1>2, SameNodes DEF SharedTypeOK, Late
<1>12. wg' \in 0 .. Len(Order)
  BY <1>1, <1>2, <1>6 DEF WaitGroup
<1>13. Runs("ccrs")' <=> gens'["ccrs"] = "running"
  BY DEF Runs
<1> QED
  BY <1>1, <1>3, <1>4, <1>8, <1>10, <1>11, <1>12, <1>13, StillAlive, Generators4 DEF Runs

-----------------------------------------------------------------------------
(* The initial states *)

\* The invariant holds before the first generator is spawned.
LEMMA InitIInv == DataInit => IInv
<1> SUFFICES ASSUME DataInit PROVE IInv
  OBVIOUS
<1>1. /\ config \in Configs /\ process = "running" /\ handing = {} /\ holding = Nobody
      /\ counted = 0 /\ asked = 0
      /\ at = "start" /\ nodeIndex = 0 /\ totalScans = 0 /\ scanIndex = 0
      /\ ofNode = 0 /\ lastDay = 0 /\ earlier = 0
      /\ main = 1 /\ wg = 0 /\ gens = [g \in Generator |-> "new"] /\ round = -1
      /\ actions = 0 /\ pings = 0 /\ adding = 0 /\ profile = 0
  BY DEF DataInit, SharedInit, ReportsInit
<1>2. /\ stage = [n \in Nodes |-> "ended"] /\ env = [n \in Nodes |-> None]
      /\ reportingAvailable = [n \in Nodes |-> TRUE] /\ server = [n \in Nodes |-> None]
      /\ unread = [n \in Nodes |-> FALSE]
  BY DEF DataInit, RunsInit
<1>3. SharedTypeOK
  BY <1>1 DEF SharedTypeOK
<1>4. LoopTypeOK /\ Prepared
  BY <1>1, Generators4, ConfigFields DEF LoopTypeOK, RoundOK, Prepared
<1>5. ReportsTypeOK
  BY <1>1, ConfigFields DEF ReportsTypeOK
<1>6. RunsTypeOK
  <2>1. Stages[1] = "ended" /\ 1 \in 1 .. Len(Stages)
    BY DEF Stages
  <2>3. stage \in [Nodes -> {Stages[k] : k \in 1 .. Len(Stages)}]
    BY <1>2, <2>1
  <2>4. /\ env \in [Nodes -> Environments \cup {None}]
        /\ server \in [Nodes -> Environments \cup {None}]
    BY <1>2
  <2>5. reportingAvailable \in [Nodes -> BOOLEAN] /\ unread \in [Nodes -> BOOLEAN]
    BY <1>2, Zenon
  <2> QED
    BY <2>3, <2>4, <2>5 DEF RunsTypeOK
<1>7. WaitGroup
  <2>1. Busy = {}
    BY <1>1 DEF Busy, Runs
  <2> QED
    BY <1>1, <2>1, FS_EmptySet, Generators4 DEF WaitGroup
<1>8. Rounds /\ Transit
  BY <1>1, <1>2, FS_EmptySet DEF Rounds, Transit, AllEnded, Ended
<1>9. Late
  BY <1>1, Generators4 DEF Late
<1>10. Scanning /\ ReportsWithinLimits
  BY <1>1 DEF Scanning, ReportsWithinLimits
<1>11. Draws
  BY <1>2 DEF Draws
<1>12. DeathsExplained /\ ProfileMissesAtMostOne
  BY <1>1 DEF DeathsExplained, ProfileMissesAtMostOne, Alive
<1> QED
  BY <1>3, <1>4, <1>5, <1>6, <1>7, <1>8, <1>9, <1>10, <1>11, <1>12, TypeParts DEF IInv

-----------------------------------------------------------------------------
(* The main goroutine *)

\* Spawn starts a generator and adds it to the WaitGroup, or passes it by.
LEMMA SpawnStep ==
  ASSUME IInv, Spawn
  PROVE  IInv'
<1> DEFINE g == Order[main]
<1>1. /\ UNCHANGED <<config, process, handing, holding, counted, asked>>
      /\ UNCHANGED reportVars /\ UNCHANGED runVars
      /\ UNCHANGED <<round, actions, pings, adding, profile>>
      /\ process = "running" /\ main \in 1 .. 4 /\ main' = main + 1
  BY Generators4 DEF Spawn, Alive, sharedVars, channelVars
<1>0. RoundOK' /\ Prepared'
  BY <1>1, SameRound
<1>2. SharedTypeOK /\ LoopTypeOK /\ WaitGroup /\ Rounds /\ Transit /\ Late
  BY TypeParts DEF IInv
<1>3. (ReportsTypeOK /\ Scanning /\ ReportsWithinLimits /\ RunsTypeOK /\ Draws)'
  BY <1>1, SameReports, SameRuns
<1>4. (DeathsExplained /\ ProfileMissesAtMostOne)'
  BY <1>1, StillAlive
<1>5. SharedTypeOK' /\ Late'
  BY <1>1, <1>2, SameNodes, Generators4 DEF SharedTypeOK, Late
<1>6. g \in Generator /\ gens[g] = "new" /\ main \in DOMAIN Order
  BY <1>1, <1>2, Generators4 DEF WaitGroup
<1>7. AllEnded => AllEnded'
  BY <1>1, SameNodes DEF AllEnded, Ended, runVars
<1>8. CASE g = "liveness" /\ ~config.LivenessAgent
  <2>1. UNCHANGED <<wg, gens>>
    BY <1>8 DEF Spawn
  <2>2. Busy' = Busy /\ Senders' = Senders
    BY <2>1 DEF Busy, Senders, Runs
  <2>3. LoopTypeOK'
    BY <1>0, <1>1, <1>2, <2>1, Generators4 DEF LoopTypeOK
  <2>4. WaitGroup'
    BY <1>1, <1>2, <1>8, <2>1, <2>2, Generators4 DEF WaitGroup
  <2>5. Rounds' /\ Transit'
    BY <1>1, <1>2, <1>7, <2>1, <2>2, SameNodes DEF Rounds, Transit, Runs
  <2> QED
    BY <1>0, <1>3, <1>4, <1>5, <2>3, <2>4, <2>5 DEF IInv, DataTypeOK, SharedTypeOK, LoopTypeOK, RoundOK
<1>9. CASE ~(g = "liveness" /\ ~config.LivenessAgent)
  <2>1. wg' = wg + 1 /\ gens' = [gens EXCEPT ![g] = "running"]
    BY <1>9 DEF Spawn
  <2>2. gens \in [Generator -> {"new", "running", "done"}]
    BY <1>2 DEF LoopTypeOK
  <2>3. \A h \in Generator : gens'[h] = IF h = g THEN "running" ELSE gens[h]
    BY <1>6, <2>1, <2>2
  <2>4. g \notin Busy /\ Busy' = Busy \cup {g}
    BY <1>6, <2>3 DEF Busy, Runs
  <2>5. Cardinality(Busy') = Cardinality(Busy) + 1 /\ Cardinality(Busy') \in 0 .. Len(Order)
    <3>1. Busy \subseteq Generator /\ Busy' \subseteq Generator
      BY DEF Busy
    <3> QED
      BY <2>4, <3>1, CountBusy, FS_AddElement
  <2>6. LoopTypeOK'
    BY <1>0, <1>1, <1>2, <1>6, <2>1, <2>2, <2>5, Generators4 DEF LoopTypeOK, WaitGroup
  <2>7. WaitGroup'
    <3>1. wg' = Cardinality(Busy')
      BY <1>2, <2>1, <2>5 DEF WaitGroup
    <3>2. \A k \in DOMAIN Order : main' <= k => gens'[Order[k]] = "new"
      BY <1>1, <1>2, <2>3, Generators4 DEF WaitGroup
    <3>3. \A k \in DOMAIN Order :
            k < main' /\ gens'[Order[k]] = "new" => Order[k] = "liveness" /\ ~config.LivenessAgent
      BY <1>1, <1>2, <2>3, Generators4 DEF WaitGroup
    <3>4. gens'["liveness"] # "new" => config.LivenessAgent
      BY <1>2, <1>9, <2>3, Generators4 DEF WaitGroup
    <3> QED
      BY <1>1, <3>1, <3>2, <3>3, <3>4, Generators4 DEF WaitGroup
  <2>8. Rounds'
    BY <1>1, <1>2, <1>6, <1>7, <2>3, Generators4 DEF Rounds, Runs
  <2>9. Transit'
    <3>1. Senders \subseteq Senders'
      BY <2>4 DEF Senders
    <3> QED
      BY <1>1, <1>2, <3>1, SameNodes DEF Transit
  <2> QED
    BY <1>0, <1>3, <1>4, <1>5, <2>6, <2>7, <2>8, <2>9 DEF IInv, DataTypeOK, SharedTypeOK, LoopTypeOK, RoundOK
<1> QED
  BY <1>8, <1>9

\* EndWait finds no generator at work, and so no request with its sender.
LEMMA EndWaitStep ==
  ASSUME IInv, EndWait
  PROVE  IInv'
<1>1. /\ UNCHANGED <<config, process, handing, holding, counted, asked>>
      /\ UNCHANGED reportVars /\ UNCHANGED runVars
      /\ UNCHANGED <<wg, gens, round, actions, pings, adding, profile>>
      /\ process = "running" /\ wg = 0 /\ main = Waiting /\ main' = Profiling
  BY DEF EndWait, Alive, sharedVars, channelVars
<1>0. RoundOK' /\ Prepared'
  BY <1>1, SameRound
<1>2. SharedTypeOK /\ LoopTypeOK /\ WaitGroup /\ Rounds /\ Transit /\ Late
  BY TypeParts DEF IInv
<1>3. (ReportsTypeOK /\ Scanning /\ ReportsWithinLimits /\ RunsTypeOK /\ Draws)'
  BY <1>1, SameReports, SameRuns
<1>4. (DeathsExplained /\ ProfileMissesAtMostOne)'
  BY <1>1, StillAlive
<1>5. SharedTypeOK' /\ LoopTypeOK'
  BY <1>0, <1>1, <1>2, SameNodes, Generators4 DEF SharedTypeOK, LoopTypeOK
<1>6. Busy' = Busy /\ Senders' = Senders
  BY <1>1 DEF Busy, Senders, Runs
<1>7. WaitGroup'
  BY <1>1, <1>2, <1>6, Generators4 DEF WaitGroup
<1>8. Rounds' /\ Transit'
  BY <1>1, <1>2, <1>6, SameNodes DEF Rounds, Transit, Runs, AllEnded, Ended, runVars
<1>9. Late'
  <2>1. Cardinality(handing) = 0
    BY <1>1, BusyIsCounted, FS_EmptySet
  <2>2. asked = counted + IF holding = Nobody THEN 0 ELSE 1
    BY <1>2, <2>1 DEF Transit, SharedTypeOK
  <2>3. adding = 0
    BY <1>1, <1>2, Generators4 DEF Late
  <2> QED
    BY <1>1, <1>2, <2>2, <2>3 DEF Late, SharedTypeOK
<1> QED
  BY <1>0, <1>3, <1>4, <1>5, <1>7, <1>8, <1>9 DEF IInv, DataTypeOK, SharedTypeOK, LoopTypeOK, RoundOK

\* The arithmetic of the profile: of the asked requests counted were added,
\* adding of them while the total was read.
LEMMA AtMostOneMissing ==
  ASSUME NEW total \in Int, NEW a \in Nat, NEW c \in Nat, NEW late \in Nat,
         c - late <= total, total <= c, c <= a, a <= c - late + 1
  PROVE  a - total \in {0, 1}
OBVIOUS

\* EndPrint may miss what was added after EndWait.
LEMMA EndPrintStep ==
  ASSUME IInv, EndPrint
  PROVE  IInv'
<1>1. /\ UNCHANGED <<config, handing, holding, counted, asked>>
      /\ UNCHANGED reportVars /\ UNCHANGED runVars
      /\ UNCHANGED <<main, wg, gens, round, actions, pings, adding>>
      /\ main = Profiling /\ process' = "exited" /\ profile' \in counted - adding .. counted
  BY DEF EndPrint, channelVars
<1>0. RoundOK' /\ Prepared'
  BY <1>1, SameRound
<1>2. SharedTypeOK /\ LoopTypeOK /\ WaitGroup /\ Rounds /\ Transit /\ Late
  BY TypeParts DEF IInv
<1>3. (ReportsTypeOK /\ Scanning /\ ReportsWithinLimits /\ RunsTypeOK /\ Draws)'
  BY <1>1, SameReports, SameRuns
<1>4. SharedTypeOK' /\ LoopTypeOK'
  <2>1. profile' \in 0 .. asked
    BY <1>1, <1>2 DEF SharedTypeOK, LoopTypeOK, Late
  <2> QED
    BY <1>0, <1>1, <1>2, <2>1, SameNodes DEF SharedTypeOK, LoopTypeOK
<1>5. Busy' = Busy /\ Senders' = Senders /\ WaitGroup'
  BY <1>1, SameGenerators
<1>6. Rounds' /\ Transit' /\ Late'
  BY <1>1, <1>2, <1>5, SameNodes DEF Rounds, Transit, Late, Runs, AllEnded, Ended, runVars
<1>7. DeathsExplained'
  BY <1>1 DEF DeathsExplained, Alive
<1>8. ProfileMissesAtMostOne'
  <2>1. handing = {} /\ AllEnded
    BY <1>1, NobodyAtTheEnd
  <2>2. \A n \in Nodes' : Ended(n)'
    BY <1>1, <2>1, SameNodes DEF AllEnded, Ended, runVars
  <2>3. PICK p \in Int : p = profile' /\ counted - adding <= p /\ p <= counted
    BY <1>1, <1>2 DEF SharedTypeOK, LoopTypeOK
  <2>4. /\ asked \in Nat /\ counted \in Nat /\ adding \in Nat
        /\ counted <= asked /\ asked <= counted - adding + 1
    BY <1>1, <1>2 DEF SharedTypeOK, LoopTypeOK, Late
  <2>5. asked - p \in {0, 1}
    BY <2>3, <2>4, AtMostOneMissing
  <2>6. asked' - profile' \in {0, 1}
    BY <1>1, <2>3, <2>5, Zenon
  <2> QED
    BY <1>1, <2>1, <2>2, <2>6 DEF ProfileMissesAtMostOne
<1> QED
  BY <1>0, <1>3, <1>4, <1>5, <1>6, <1>7, <1>8 DEF IInv, DataTypeOK, SharedTypeOK, LoopTypeOK, RoundOK

\* The aggregator takes a request over.
LEMMA ReceivesStep ==
  ASSUME IInv, NEW s \in handing, AggregatorReceives(s)
  PROVE  IInv'
<1>1. /\ UNCHANGED <<config, process, counted, asked>> /\ process = "running"
      /\ UNCHANGED reportVars /\ UNCHANGED runVars
      /\ UNCHANGED <<main, wg, gens, round, actions, pings, adding, profile>>
      /\ holding = Nobody /\ handing' = handing \ {s} /\ holding' = s
  BY DEF AggregatorReceives, Receive, Alive, dataVars
<1>0. RoundOK' /\ Prepared'
  BY <1>1, SameRound
<1>2. SharedTypeOK /\ LoopTypeOK /\ WaitGroup /\ Rounds /\ Transit /\ Late
  BY TypeParts DEF IInv
<1>3. (ReportsTypeOK /\ Scanning /\ ReportsWithinLimits /\ RunsTypeOK /\ Draws)'
  BY <1>1, SameReports, SameRuns
<1>4. (DeathsExplained /\ ProfileMissesAtMostOne)'
  BY <1>1, StillAlive
<1>5. SharedTypeOK' /\ LoopTypeOK'
  BY <1>0, <1>1, <1>2, SameNodes DEF SharedTypeOK, LoopTypeOK
<1>6. Busy' = Busy /\ Senders' = Senders /\ WaitGroup' /\ (Runs("ccrs")' <=> Runs("ccrs"))
  BY <1>1, SameGenerators
<1>7. Rounds'
  BY <1>1, <1>2, <1>6, SameNodes DEF Rounds, AllEnded, Ended, runVars
<1>8. Transit'
  <2>1. s # Nobody
    BY <1>2, NodesAre DEF SharedTypeOK
  <2>2. Cardinality(handing') = Cardinality(handing) - 1 /\ Cardinality(handing) \in Nat
    BY <1>1, <1>2, HandingIsFinite, FS_RemoveElement
  <2>3. asked = counted + Cardinality(handing)
    BY <1>1, <1>2, <2>2 DEF Transit, SharedTypeOK
  <2>4. counted \in Nat
    BY <1>2 DEF SharedTypeOK
  <2>5. asked = counted + Cardinality(handing') + 1
    BY <2>2, <2>3, <2>4
  <2> QED
    BY <1>1, <1>2, <1>6, <2>1, <2>5, SameNodes DEF Transit
<1>9. Late'
  BY <1>1, <1>2 DEF Late
<1> QED
  BY <1>0, <1>3, <1>4, <1>5, <1>6, <1>7, <1>8, <1>9 DEF IInv, DataTypeOK, SharedTypeOK, LoopTypeOK, RoundOK

\* The aggregator adds it to the map, and may end the process at that.
LEMMA AddsStep ==
  ASSUME IInv, AggregatorAdds
  PROVE  IInv'
<1>1. /\ UNCHANGED <<config, handing, asked>> /\ process = "running"
      /\ UNCHANGED reportVars /\ UNCHANGED runVars
      /\ UNCHANGED <<main, wg, gens, round, actions, pings, profile>>
      /\ holding # Nobody /\ holding' = Nobody /\ counted' = counted + 1
      /\ process' \in {"running", "mapRace"} /\ (main # Profiling => process' = "running")
      /\ adding' = IF main = Profiling THEN adding + 1 ELSE adding
  BY DEF AggregatorAdds, Add, Alive
<1>0. RoundOK' /\ Prepared'
  BY <1>1, SameRound
<1>2. SharedTypeOK /\ LoopTypeOK /\ WaitGroup /\ Rounds /\ Transit /\ Late
  BY TypeParts DEF IInv
<1>3. (ReportsTypeOK /\ Scanning /\ ReportsWithinLimits /\ RunsTypeOK /\ Draws)'
  BY <1>1, SameReports, SameRuns
<1>4. asked = counted + Cardinality(handing) + 1 /\ Cardinality(handing) \in Nat
      /\ counted \in Nat /\ asked \in Nat /\ adding \in Nat
  BY <1>1, <1>2, HandingIsFinite DEF Transit, SharedTypeOK, LoopTypeOK
<1>5. SharedTypeOK' /\ LoopTypeOK'
  BY <1>0, <1>1, <1>2, <1>4, SameNodes DEF SharedTypeOK, LoopTypeOK, Deaths
<1>6. Busy' = Busy /\ Senders' = Senders /\ WaitGroup' /\ (Runs("ccrs")' <=> Runs("ccrs"))
  BY <1>1, SameGenerators
<1>7. Rounds'
  BY <1>1, <1>2, <1>6, SameNodes DEF Rounds, AllEnded, Ended, runVars
<1>8. Transit' /\ Late'
  BY <1>1, <1>2, <1>4, <1>6, SameNodes DEF Transit, Late
<1>9. DeathsExplained' /\ ProfileMissesAtMostOne'
  <2>1. CASE process' = "running"
    BY <2>1, StillAlive
  <2>2. CASE process' = "mapRace"
    <3>1. main' = Profiling /\ wg' = 0
      BY <1>1, <1>2, <2>2 DEF WaitGroup
    <3> QED
      BY <2>2, <3>1, Generators4 DEF DeathsExplained, ProfileMissesAtMostOne
  <2> QED
    BY <1>1, <2>1, <2>2
<1> QED
  BY <1>0, <1>3, <1>5, <1>6, <1>7, <1>8, <1>9 DEF IInv, DataTypeOK, SharedTypeOK, LoopTypeOK, RoundOK

-----------------------------------------------------------------------------
(* What a generator does to the rest of the process *)

\* A step that makes no request.
LEMMA QuietStep ==
  ASSUME IInv, process = "running", UNCHANGED <<sharedVars, main, wg, gens, adding>>
  PROVE  /\ SharedTypeOK' /\ Transit' /\ Late'
         /\ WaitGroup' /\ DeathsExplained' /\ ProfileMissesAtMostOne'
<1>1. UNCHANGED <<config, process, handing, holding, counted, asked>>
  BY DEF sharedVars, channelVars
<1>2. SharedTypeOK /\ Transit /\ Late
  BY TypeParts DEF IInv
<1>3. Senders' = Senders /\ WaitGroup'
  BY <1>1, SameGenerators
<1> QED
  BY <1>1, <1>2, <1>3, SameNodes, StillAlive DEF SharedTypeOK, Transit, Late

\* A step that ends the process.
LEMMA DieStep ==
  ASSUME IInv, process = "running", NEW why \in Deaths, Die(why),
         UNCHANGED <<main, wg, gens, adding>>
  PROVE  /\ SharedTypeOK' /\ Transit' /\ Late'
         /\ WaitGroup' /\ ProfileMissesAtMostOne' /\ process' = why
<1>1. UNCHANGED <<config, handing, holding, counted, asked>> /\ process' = why
  BY DEF Die, channelVars
<1>2. SharedTypeOK /\ Transit /\ Late
  BY TypeParts DEF IInv
<1>3. Senders' = Senders /\ WaitGroup'
  BY <1>1, SameGenerators
<1>4. why # "exited"
  BY DEF Deaths
<1> QED
  BY <1>1, <1>2, <1>3, <1>4, SameNodes
     DEF SharedTypeOK, Transit, Late, ProfileMissesAtMostOne

-----------------------------------------------------------------------------
(* The compliance generator *)

\* The intervals depend on the configuration and the node.
LEMMA SameInterval ==
  ASSUME UNCHANGED <<config, nodeIndex>>
  PROVE  /\ interval' = interval /\ maxScansNode' = maxScansNode
         /\ Youngest' = Youngest /\ Direct' = Direct
BY DEF interval, intervalMinutes, Often, maxScansNode, Youngest, Direct

\* GenerateNodes opens no node yet.
LEMMA GenerateNodesReports ==
  ASSUME IInv, GenerateNodes
  PROVE  ReportsTypeOK' /\ Scanning' /\ ReportsWithinLimits'
<1>1. /\ UNCHANGED <<config, nodeIndex, totalScans, scanIndex, ofNode, lastDay, earlier>>
      /\ at = "start" /\ at' \in {"start", "node"}
  BY DEF GenerateNodes, reportHistory, Die, sharedVars
<1>2. ReportsTypeOK /\ Scanning
  BY TypeParts DEF IInv
<1> QED
  BY <1>1, <1>2 DEF ReportsTypeOK, Scanning, ReportsWithinLimits

\* StartNode leaves the reports of the node before to the history.
LEMMA StartNodeReports ==
  ASSUME IInv, StartNode
  PROVE  ReportsTypeOK' /\ Scanning' /\ ReportsWithinLimits'
<1>1. /\ UNCHANGED <<config, nodeIndex, totalScans>>
      /\ at = "node" /\ nodeIndex < config.Nodes /\ totalScans < config.TotalMaxScans
  BY DEF StartNode, MoreNodes, Die, sharedVars
<1>2. ReportsTypeOK /\ Scanning /\ config \in Configs /\ nodeIndex \in Nat
  BY TypeParts, ConfigFields DEF IInv, SharedTypeOK, ReportsTypeOK
<1>3. CASE interval = 0
  <2>1. UNCHANGED <<config, reportVars>>
    BY <1>1, <1>3 DEF StartNode, reportVars
  <2> QED
    BY <2>1, SameReports
<1>4. CASE interval # 0
  <2>1. /\ at' = "scan" /\ scanIndex' = maxScansNode /\ ofNode' = 0 /\ lastDay' = 0
        /\ earlier' = earlier + ofNode
    BY <1>4 DEF StartNode
  <2>2. /\ maxScansNode \in Nat /\ Youngest \in Nat /\ Youngest <= maxScansNode
    BY <1>2, <1>4, Scans
  <2>3. ReportsTypeOK'
    BY <1>1, <1>2, <2>1, <2>2 DEF ReportsTypeOK
  <2>4. Scanning'
    <3>1. earlier + ofNode <= totalScans
      BY <1>1, <1>2 DEF Scanning
    <3> QED
      BY <1>1, <1>4, <2>1, <2>2, <3>1, SameInterval DEF Scanning
  <2>5. ReportsWithinLimits'
    BY <2>1 DEF ReportsWithinLimits
  <2> QED
    BY <2>3, <2>4, <2>5
<1> QED
  BY <1>3, <1>4

\* Scan posts one report, which is less than a day old when it is among the
\* youngest.
LEMMA ScanReports ==
  ASSUME IInv, Scan
  PROVE  ReportsTypeOK' /\ Scanning' /\ ReportsWithinLimits'
<1>1. /\ UNCHANGED <<config, at, nodeIndex, totalScans, earlier>>
      /\ at = "scan" /\ scanIndex > 0 /\ scanIndex' = scanIndex - 1
      /\ totalScans < config.TotalMaxScans
  BY DEF Scan, Update, Die, HandOver, sharedVars
<1>2. ReportsTypeOK /\ Scanning /\ config \in Configs /\ nodeIndex \in Nat
  BY TypeParts, ConfigFields DEF IInv, SharedTypeOK, ReportsTypeOK
<1>3. /\ scanIndex \in Nat /\ ofNode \in Nat /\ lastDay \in 0 .. ofNode /\ earlier \in Nat
      /\ totalScans \in Nat /\ nodeIndex \in 0 .. config.Nodes
  BY <1>2 DEF ReportsTypeOK
<1>4. /\ interval # 0 /\ nodeIndex < config.Nodes /\ scanIndex <= maxScansNode
      /\ earlier <= totalScans
      /\ ofNode = IF Direct THEN maxScansNode - scanIndex ELSE 0
      /\ lastDay = IF Direct /\ scanIndex < Youngest THEN Youngest - scanIndex ELSE 0
  BY <1>1, <1>2 DEF Scanning
<1>5. /\ interval \in Nat /\ interval > 0 /\ maxScansNode \in Nat /\ Youngest \in Nat
  BY <1>2, <1>4, Scans
<1>6. config.TotalMaxScans \in Nat /\ config.Nodes \in Nat
  BY <1>2, ConfigFields
<1>7. /\ ofNode' = IF Direct THEN ofNode + 1 ELSE ofNode
      /\ lastDay' = IF Direct /\ scanIndex' < Youngest THEN lastDay + 1 ELSE lastDay
  <2>1. CASE Direct
    <3>1. ofNode' = ofNode + 1
      BY <2>1 DEF Scan
    <3>2. lastDay' = IF interval * scanIndex' < Day THEN lastDay + 1 ELSE lastDay
      BY <2>1 DEF Scan, dataCollectorComplianceReport
    <3>3. PICK I \in Nat : I = interval /\ I > 0
      BY <1>5
    <3>4. PICK index \in Nat : index = scanIndex'
      BY <1>1, <1>3
    <3>5. PICK young \in Nat : young = (Day - 1) \div I + 1
      BY <3>3 DEF Day
    <3>6. I * index < Day <=> index < young
      BY <3>3, <3>5, LessThanADay
    <3>7. index < maxScansNode
      BY <1>1, <1>3, <1>4, <1>5, <3>4
    <3>8. Youngest = IF young < maxScansNode THEN young ELSE maxScansNode
      BY <3>3, <3>5 DEF Youngest
    <3>9. index < young <=> index < Youngest
      BY <1>5, <3>7, <3>8
    <3> QED
      BY <2>1, <3>1, <3>2, <3>3, <3>4, <3>6, <3>9
  <2>2. CASE ~Direct
    BY <2>2 DEF Scan
  <2> QED
    BY <2>1, <2>2
<1>8. ReportsTypeOK'
  BY <1>1, <1>2, <1>3, <1>7 DEF ReportsTypeOK
<1>9. Scanning'
  <2>1. ofNode' = IF Direct THEN maxScansNode - scanIndex' ELSE 0
    BY <1>1, <1>3, <1>4, <1>5, <1>7
  <2>2. lastDay' = IF Direct /\ scanIndex' < Youngest THEN Youngest - scanIndex' ELSE 0
    BY <1>1, <1>3, <1>4, <1>5, <1>7
  <2>3. scanIndex' <= maxScansNode
    BY <1>1, <1>3, <1>4, <1>5
  <2> QED
    BY <1>1, <1>4, <2>1, <2>2, <2>3, SameInterval DEF Scanning
<1>10. ReportsWithinLimits'
  BY <1>1, <1>3, <1>4, <1>6 DEF ReportsWithinLimits
<1> QED
  BY <1>8, <1>9, <1>10

\* NullSample leaves the reports alone.
LEMMA NullSampleReports ==
  ASSUME IInv, NullSample
  PROVE  ReportsTypeOK' /\ Scanning' /\ ReportsWithinLimits'
BY SameReports DEF NullSample, Die

\* EndNode finds all scans of the node done.
LEMMA EndNodeReports ==
  ASSUME IInv, EndNode
  PROVE  ReportsTypeOK' /\ Scanning' /\ ReportsWithinLimits'
<1>1. /\ UNCHANGED <<config, scanIndex, ofNode, lastDay, earlier>>
      /\ at = "scan" /\ at' = "node" /\ nodeIndex' = nodeIndex + 1
      /\ totalScans' = totalScans + maxScansNode
      /\ ~(scanIndex > 0 /\ totalScans < config.TotalMaxScans)
  BY DEF EndNode, sharedVars, reportHistory
<1>2. ReportsTypeOK /\ Scanning /\ config \in Configs /\ nodeIndex \in Nat
  BY TypeParts, ConfigFields DEF IInv, SharedTypeOK, ReportsTypeOK
<1>3. /\ scanIndex \in Nat /\ ofNode \in Nat /\ lastDay \in 0 .. ofNode /\ earlier \in Nat
      /\ totalScans \in Nat /\ nodeIndex \in 0 .. config.Nodes
  BY <1>2 DEF ReportsTypeOK
<1>4. /\ interval # 0 /\ nodeIndex < config.Nodes /\ totalScans < config.TotalMaxScans
      /\ earlier <= totalScans
      /\ ofNode = IF Direct THEN maxScansNode - scanIndex ELSE 0
      /\ lastDay = IF Direct /\ scanIndex < Youngest THEN Youngest - scanIndex ELSE 0
  BY <1>1, <1>2 DEF Scanning
<1>5. /\ interval \in Nat /\ interval > 0 /\ maxScansNode \in Nat /\ maxScansNode > 0
      /\ Youngest \in Nat /\ Youngest > 0
  BY <1>2, <1>4, Scans
<1>6. /\ config.Nodes \in Nat /\ config.MaxScans \in Nat /\ config.Days \in Nat
      /\ config.TotalMaxScans \in Nat
  BY <1>2, ConfigFields
<1>7. scanIndex = 0
  BY <1>1, <1>3, <1>4, <1>6
<1>8. ofNode > 0 => ofNode = maxScansNode /\ lastDay = Youngest
  BY <1>4, <1>5, <1>7
<1>9. ReportsTypeOK'
  BY <1>1, <1>3, <1>4, <1>5, <1>6 DEF ReportsTypeOK
<1>10. Scanning'
  <2>1. ofNode <= maxScansNode
    BY <1>3, <1>5, <1>8
  <2>2. earlier + ofNode <= totalScans + maxScansNode
    BY <1>3, <1>4, <1>5, <2>1
  <2> QED
    BY <1>1, <2>2 DEF Scanning
<1>11. ASSUME ofNode > 0, config.Days > 0, 10 * (nodeIndex + 1) <= config.Nodes
       PROVE  config.MaxScans <= Youngest /\ Youngest < 2 * config.MaxScans
  <2>1. interval = Often
    <3>1. PICK index \in Nat : index = nodeIndex + 1 /\ index > 0
      BY <1>2
    <3>2. intervalMinutes(index) = Often
      BY <1>2, <1>11, <3>1, Intervals
    <3> QED
      BY <3>1, <3>2 DEF interval
  <2>2. config.MaxScans > 0 /\ interval = Day \div config.MaxScans
    BY <1>5, <1>6, <2>1 DEF Often
  <2>3. PICK M \in Nat, D \in Nat, I \in Nat :
          /\ M = config.MaxScans /\ D = config.Days /\ I = interval
          /\ M > 0 /\ D > 0 /\ I > 0 /\ I = Day \div M
    BY <1>5, <1>6, <1>11, <2>2
  <2>4. PICK young \in Nat : young = (Day - 1) \div I + 1
    BY <2>3 DEF Day
  <2>5. /\ M <= young /\ young < 2 * M
        /\ young <= (D * Day) \div I + 1
    BY <2>3, <2>4, MostFrequent
  <2>6. maxScansNode = (D * Day) \div I + 1
    BY <2>3 DEF maxScansNode
  <2>7. Youngest = IF young < maxScansNode THEN young ELSE maxScansNode
    BY <2>3, <2>4 DEF Youngest
  <2>8. Youngest = young
    BY <1>5, <2>5, <2>6, <2>7
  <2> QED
    BY <2>3, <2>5, <2>8
<1>12. ReportsWithinLimits'
  <2>1. ofNode' > 0 => earlier' < config'.TotalMaxScans
    BY <1>1, <1>3, <1>4, <1>6
  <2>2. ofNode' > 0 => lastDay' > 0
    BY <1>1, <1>5, <1>8
  <2>3. ofNode' > 0 /\ config'.Days > 0 /\ 10 * nodeIndex' <= config'.Nodes =>
          config'.MaxScans <= lastDay' /\ lastDay' < 2 * config'.MaxScans
    BY <1>1, <1>8, <1>11
  <2> QED
    BY <2>1, <2>2, <2>3 DEF ReportsWithinLimits
<1> QED
  BY <1>9, <1>10, <1>12

\* ReportsReturn leaves the counts.
LEMMA ReportsReturnReports ==
  ASSUME IInv, ReportsReturn
  PROVE  ReportsTypeOK' /\ Scanning' /\ ReportsWithinLimits'
<1>1. /\ UNCHANGED <<config, nodeIndex, totalScans, scanIndex, ofNode, lastDay, earlier>>
      /\ at = "node" /\ at' = "returned"
  BY DEF ReportsReturn, sharedVars, reportHistory
<1>2. ReportsTypeOK /\ Scanning /\ ReportsWithinLimits
  BY TypeParts DEF IInv
<1> QED
  BY <1>1, <1>2 DEF ReportsTypeOK, Scanning, ReportsWithinLimits

\* The goroutines of the nodes are left alone by the other generators.
LEMMA SameEnded ==
  ASSUME SharedTypeOK, UNCHANGED <<config, runVars>>, NEW g \in Generator,
         handing' = handing \/ handing' = handing \cup {g}
  PROVE  AllEnded' <=> AllEnded
<1>1. Nodes' = Nodes /\ stage' = stage
  BY SameNodes DEF runVars
<1>2. g \notin Nodes
  BY NodesAre DEF SharedTypeOK
<1> QED
  BY <1>1, <1>2 DEF AllEnded, Ended

\* The compliance generator works, posts, gives up or returns.
LEMMA ComplianceStep ==
  ASSUME IInv, Compliance
  PROVE  IInv'
<1>1. /\ Runs("compliance") /\ "compliance" \in Generator /\ Me = "compliance"
      /\ UNCHANGED runVars /\ UNCHANGED <<main, round, actions, pings, adding, profile>>
      /\ IF at' = "returned" THEN Return("compliance") ELSE UNCHANGED <<gens, wg>>
      /\ ReportsStep
  BY Generators4 DEF Compliance, Me
<1>2. SharedTypeOK /\ LoopTypeOK /\ WaitGroup /\ Rounds /\ ReportsTypeOK /\ Scanning
  BY TypeParts DEF IInv
<1>3. ReportsTypeOK' /\ Scanning' /\ ReportsWithinLimits'
  BY <1>1, GenerateNodesReports, StartNodeReports, NullSampleReports, ScanReports,
     EndNodeReports, ReportsReturnReports DEF ReportsStep
<1>4. process = "running" /\ "compliance" \notin handing /\ main # Profiling
      /\ "compliance" \in Senders
  BY <1>1, NobodyAtTheEnd
     DEF ReportsStep, GenerateNodes, StartNode, NullSample, Scan, EndNode, ReportsReturn,
         Free, Alive, Senders, Busy
<1>5. \/ UNCHANGED sharedVars
      \/ HandOver(Me) /\ at' # "returned"
      \/ Die("platforms") /\ config.Platforms = 0 /\ config.Nodes > 0 /\ at' # "returned"
      \/ Die("interval") /\ interval = 0 /\ MoreNodes /\ at' # "returned"
      \/ /\ at = "scan" /\ at' # "returned"
         /\ \/ Die("nullMap") /\ "sample_report" \in config.Malformed
            \/ Die("collectorURL") /\ MalformedURL
  BY <1>1 DEF ReportsStep, GenerateNodes, StartNode, NullSample, Scan, Update, EndNode,
              ReportsReturn, reportVars
<1>6. at' = "returned" => UNCHANGED sharedVars
  BY <1>5
<1>7. UNCHANGED config /\ (handing' = handing \/ handing' = handing \cup {"compliance"})
      /\ asked' \in {asked, asked + 1}
  BY <1>1, <1>5 DEF sharedVars, channelVars, HandOver, Die
<1>0. RoundOK' /\ Prepared'
  BY <1>1, <1>7, SameRound
<1>8. RunsTypeOK' /\ Draws'
  BY <1>1, <1>7, SameRuns
<1>9. /\ SharedTypeOK' /\ Transit' /\ Late' /\ WaitGroup'
      /\ DeathsExplained' /\ ProfileMissesAtMostOne'
  <2>1. CASE at' = "returned"
    BY <1>1, <1>4, <1>6, <2>1, ReturnStep
  <2>2. CASE at' # "returned" /\ UNCHANGED sharedVars
    BY <1>1, <1>4, <2>2, QuietStep
  <2>3. CASE HandOver(Me) /\ at' # "returned"
    <3>1. Free("compliance") /\ UNCHANGED <<main, wg, gens, adding>>
      BY <1>1, <1>4, <2>3 DEF Free, Alive
    <3> QED
      BY <1>1, <1>4, <2>3, <3>1, HandOverStep
  <2>4. CASE Die("platforms") /\ config.Platforms = 0 /\ config.Nodes > 0 /\ at' # "returned"
    <3>1. /\ SharedTypeOK' /\ Transit' /\ Late'
          /\ WaitGroup' /\ ProfileMissesAtMostOne' /\ process' = "platforms"
      BY <1>1, <1>4, <2>4, DieStep DEF Deaths
    <3>2. DeathsExplained'
      BY <1>7, <2>4, <3>1 DEF DeathsExplained
    <3> QED
      BY <3>1, <3>2
  <2>5. CASE Die("interval") /\ interval = 0 /\ MoreNodes /\ at' # "returned"
    <3>1. /\ SharedTypeOK' /\ Transit' /\ Late'
          /\ WaitGroup' /\ ProfileMissesAtMostOne' /\ process' = "interval"
      BY <1>1, <1>4, <2>5, DieStep DEF Deaths
    <3>2. config.MaxScans = 0 \/ config.MaxScans > Day
      BY <1>2, <2>5, Intervals, nodeIndex + 1 > 0
         DEF interval, SharedTypeOK, ReportsTypeOK
    <3>3. config.Nodes >= 10
      BY <1>2, <2>5, Intervals DEF interval, SharedTypeOK, ReportsTypeOK
    <3>4. config.TotalMaxScans > 0
      BY <1>2, <2>5, ConfigFields DEF MoreNodes, ReportsTypeOK, SharedTypeOK
    <3>5. DeathsExplained'
      BY <1>7, <3>1, <3>2, <3>3, <3>4 DEF DeathsExplained
    <3> QED
      BY <3>1, <3>5
  <2>6. CASE at = "scan" /\ at' # "returned" /\ Die("nullMap") /\ "sample_report" \in config.Malformed
    <3>1. /\ SharedTypeOK' /\ Transit' /\ Late'
          /\ WaitGroup' /\ ProfileMissesAtMostOne' /\ process' = "nullMap"
      BY <1>1, <1>4, <2>6, DieStep DEF Deaths
    <3>2. config.Nodes > 0 /\ config.TotalMaxScans > 0
      BY <1>2, <2>6, ConfigFields DEF Scanning, ReportsTypeOK, SharedTypeOK
    <3>3. DeathsExplained'
      BY <1>7, <2>6, <3>1, <3>2 DEF DeathsExplained
    <3> QED
      BY <3>1, <3>3
  <2>7. CASE at = "scan" /\ at' # "returned" /\ Die("collectorURL") /\ MalformedURL
    <3>1. /\ SharedTypeOK' /\ Transit' /\ Late'
          /\ WaitGroup' /\ ProfileMissesAtMostOne' /\ process' = "collectorURL"
      BY <1>1, <1>4, <2>7, DieStep DEF Deaths
    <3>2. config.Nodes > 0 /\ config.TotalMaxScans > 0
      BY <1>2, <2>7, ConfigFields DEF Scanning, ReportsTypeOK, SharedTypeOK
    <3>3. DeathsExplained'
      BY <1>7, <2>7, <3>1, <3>2, SameNodes DEF DeathsExplained, MalformedURL
    <3> QED
      BY <3>1, <3>3
  <2> QED
    BY <1>5, <2>1, <2>2, <2>3, <2>4, <2>5, <2>6, <2>7
<1>10. LoopTypeOK' /\ (Runs("ccrs")' <=> Runs("ccrs"))
  <2>1. /\ gens' \in [Generator -> {"new", "running", "done"}] /\ wg' \in 0 .. Len(Order)
        /\ (Runs("ccrs")' <=> Runs("ccrs"))
    BY <1>1, <1>2, <1>4, <1>6, ReturnStep DEF LoopTypeOK, Runs
  <2>2. profile' \in 0 .. asked'
    BY <1>1, <1>2, <1>7 DEF LoopTypeOK, SharedTypeOK
  <2> QED
    BY <1>0, <1>1, <1>2, <1>7, <2>1, <2>2 DEF LoopTypeOK
<1>11. Rounds'
  BY <1>1, <1>2, <1>7, <1>10, SameEnded DEF Rounds
<1> QED
  BY <1>0, <1>3, <1>8, <1>9, <1>10, <1>11 DEF IInv, DataTypeOK, SharedTypeOK, LoopTypeOK, RoundOK

-----------------------------------------------------------------------------
(* The other generators *)

\* The actions are counted up to their number.
LEMMA ActionStep ==
  ASSUME IInv, Action
  PROVE  IInv'
<1>1. /\ Runs("actions") /\ "actions" \in Generator
      /\ UNCHANGED reportVars /\ UNCHANGED runVars
      /\ UNCHANGED <<main, round, pings, adding, profile>>
      /\ process = "running" /\ "actions" \notin handing
  BY Generators4 DEF Action, Free, Alive
<1>2. SharedTypeOK /\ LoopTypeOK /\ WaitGroup /\ Rounds /\ config.NumActions \in Nat
  BY TypeParts, ConfigFields DEF IInv, SharedTypeOK
<1>3. main # Profiling /\ "actions" \in Senders
  BY <1>1, NobodyAtTheEnd DEF Senders, Busy
<1>4. CASE actions < config.NumActions /\ ~MalformedURL
  <2>1. HandOver("actions") /\ UNCHANGED <<gens, wg>> /\ actions' = actions + 1
    BY <1>4 DEF Action, Update
  <2>2. /\ SharedTypeOK' /\ Transit' /\ Late' /\ asked' = asked + 1
        /\ WaitGroup' /\ DeathsExplained' /\ ProfileMissesAtMostOne'
    BY <1>1, <1>3, <2>1, HandOverStep DEF Action
  <2>3. UNCHANGED config /\ handing' = handing \cup {"actions"}
    BY <2>1 DEF HandOver
  <2>0. RoundOK' /\ Prepared'
    BY <1>1, <2>3, SameRound
  <2>4. LoopTypeOK'
    <3>1. actions' \in 0 .. config'.NumActions
      BY <1>2, <1>4, <2>1, <2>3 DEF LoopTypeOK
    <3>2. profile' \in 0 .. asked'
      BY <1>1, <1>2, <2>2 DEF LoopTypeOK, SharedTypeOK
    <3> QED
      BY <1>1, <1>2, <2>0, <2>1, <2>3, <3>1, <3>2 DEF LoopTypeOK
  <2>5. Rounds'
    BY <1>1, <1>2, <2>1, <2>3, SameEnded DEF Rounds, Runs
  <2>6. (ReportsTypeOK /\ Scanning /\ ReportsWithinLimits /\ RunsTypeOK /\ Draws)'
    BY <1>1, <2>3, SameReports, SameRuns
  <2> QED
    BY <2>0, <2>2, <2>4, <2>5, <2>6 DEF IInv, DataTypeOK, SharedTypeOK, LoopTypeOK, RoundOK
<1>5. CASE ~(actions < config.NumActions)
  <2>1. Return("actions") /\ UNCHANGED <<sharedVars, actions>>
    BY <1>5 DEF Action
  <2>2. /\ SharedTypeOK' /\ Transit' /\ Late' /\ WaitGroup' /\ wg' \in 0 .. Len(Order)
        /\ gens' \in [Generator -> {"new", "running", "done"}]
        /\ DeathsExplained' /\ ProfileMissesAtMostOne'
        /\ (Runs("ccrs")' <=> Runs("ccrs"))
    BY <1>1, <2>1, ReturnStep
  <2>3. UNCHANGED <<config, handing, asked>>
    BY <2>1 DEF sharedVars, channelVars
  <2>0. RoundOK' /\ Prepared'
    BY <1>1, <2>3, SameRound
  <2>4. LoopTypeOK'
    BY <1>1, <1>2, <2>0, <2>1, <2>2, <2>3 DEF LoopTypeOK
  <2>5. Rounds'
    BY <1>1, <1>2, <2>2, <2>3, SameEnded DEF Rounds
  <2>6. (ReportsTypeOK /\ Scanning /\ ReportsWithinLimits /\ RunsTypeOK /\ Draws)'
    BY <1>1, <2>3, SameReports, SameRuns
  <2> QED
    BY <2>0, <2>2, <2>4, <2>5, <2>6 DEF IInv, DataTypeOK, SharedTypeOK, LoopTypeOK, RoundOK
<1>6. CASE actions < config.NumActions /\ MalformedURL
  <2>1. Die("collectorURL") /\ UNCHANGED <<gens, wg>> /\ actions' = actions + 1
    BY <1>6 DEF Action, Update
  <2>2. /\ SharedTypeOK' /\ Transit' /\ Late'
        /\ WaitGroup' /\ ProfileMissesAtMostOne' /\ process' = "collectorURL"
    BY <1>1, <2>1, DieStep DEF Deaths
  <2>3. UNCHANGED <<config, handing, asked>>
    BY <2>1 DEF Die, channelVars
  <2>0. RoundOK' /\ Prepared'
    BY <1>1, <2>3, SameRound
  <2>4. config.NumActions > 0
    BY <1>2, <1>6 DEF LoopTypeOK
  <2>5. DeathsExplained'
    BY <1>6, <2>2, <2>3, <2>4, SameNodes DEF DeathsExplained, MalformedURL
  <2>6. LoopTypeOK'
    <3>1. actions' \in 0 .. config'.NumActions
      BY <1>2, <1>6, <2>1, <2>3 DEF LoopTypeOK
    <3> QED
      BY <1>1, <1>2, <2>0, <2>1, <2>3, <3>1 DEF LoopTypeOK
  <2>7. Rounds'
    BY <1>1, <1>2, <2>1, <2>3, SameEnded DEF Rounds, Runs
  <2>8. (ReportsTypeOK /\ Scanning /\ ReportsWithinLimits /\ RunsTypeOK /\ Draws)'
    BY <1>1, <2>3, SameReports, SameRuns
  <2> QED
    BY <2>0, <2>2, <2>5, <2>6, <2>7, <2>8 DEF IInv, DataTypeOK, SharedTypeOK, LoopTypeOK, RoundOK
<1> QED
  BY <1>4, <1>5, <1>6

\* The liveness generator runs only when it is wanted, and dies of the URL only
\* when there is a node to ping.
LEMMA LivenessStep ==
  ASSUME IInv, Liveness
  PROVE  IInv'
<1>1. /\ Runs("liveness") /\ "liveness" \in Generator
      /\ UNCHANGED reportVars /\ UNCHANGED runVars
      /\ UNCHANGED <<main, round, actions, adding, profile>>
      /\ process = "running" /\ "liveness" \notin handing
  BY Generators4 DEF Liveness, Free, Alive
<1>2. SharedTypeOK /\ LoopTypeOK /\ WaitGroup /\ Rounds /\ config.NumNodes \in Nat
  BY TypeParts, ConfigFields DEF IInv, SharedTypeOK
<1>3. main # Profiling /\ "liveness" \in Senders
  BY <1>1, NobodyAtTheEnd DEF Senders, Busy
<1>4. CASE config.ChefServer = "relative" \/ pings = config.NumNodes
  <2>1. Return("liveness") /\ UNCHANGED <<sharedVars, pings>>
    BY <1>4 DEF Liveness
  <2>2. /\ SharedTypeOK' /\ Transit' /\ Late' /\ WaitGroup' /\ wg' \in 0 .. Len(Order)
        /\ gens' \in [Generator -> {"new", "running", "done"}]
        /\ DeathsExplained' /\ ProfileMissesAtMostOne'
        /\ (Runs("ccrs")' <=> Runs("ccrs"))
    BY <1>1, <2>1, ReturnStep
  <2>3. UNCHANGED <<config, handing, asked>>
    BY <2>1 DEF sharedVars, channelVars
  <2>0. RoundOK' /\ Prepared'
    BY <1>1, <2>3, SameRound
  <2>4. LoopTypeOK'
    BY <1>1, <1>2, <2>0, <2>1, <2>2, <2>3 DEF LoopTypeOK
  <2>5. Rounds'
    BY <1>1, <1>2, <2>2, <2>3, SameEnded DEF Rounds
  <2>6. (ReportsTypeOK /\ Scanning /\ ReportsWithinLimits /\ RunsTypeOK /\ Draws)'
    BY <1>1, <2>3, SameReports, SameRuns
  <2> QED
    BY <2>0, <2>2, <2>4, <2>5, <2>6 DEF IInv, DataTypeOK, SharedTypeOK, LoopTypeOK, RoundOK
<1>5. CASE ~(config.ChefServer = "relative" \/ pings = config.NumNodes)
           /\ config.ChefServer # "noOrg" /\ ~MalformedURL
  <2>1. HandOver("liveness") /\ UNCHANGED <<gens, wg>> /\ pings' = pings + 1
    BY <1>5 DEF Liveness, Update
  <2>2. /\ SharedTypeOK' /\ Transit' /\ Late' /\ asked' = asked + 1
        /\ WaitGroup' /\ DeathsExplained' /\ ProfileMissesAtMostOne'
    BY <1>1, <1>3, <2>1, HandOverStep DEF Liveness
  <2>3. UNCHANGED config /\ handing' = handing \cup {"liveness"}
    BY <2>1 DEF HandOver
  <2>0. RoundOK' /\ Prepared'
    BY <1>1, <2>3, SameRound
  <2>4. LoopTypeOK'
    <3>1. pings' \in 0 .. config'.NumNodes
      BY <1>2, <1>5, <2>1, <2>3 DEF LoopTypeOK
    <3>2. profile' \in 0 .. asked'
      BY <1>1, <1>2, <2>2 DEF LoopTypeOK, SharedTypeOK
    <3> QED
      BY <1>1, <1>2, <2>0, <2>1, <2>3, <3>1, <3>2 DEF LoopTypeOK
  <2>5. Rounds'
    BY <1>1, <1>2, <2>1, <2>3, SameEnded DEF Rounds, Runs
  <2>6. (ReportsTypeOK /\ Scanning /\ ReportsWithinLimits /\ RunsTypeOK /\ Draws)'
    BY <1>1, <2>3, SameReports, SameRuns
  <2> QED
    BY <2>0, <2>2, <2>4, <2>5, <2>6 DEF IInv, DataTypeOK, SharedTypeOK, LoopTypeOK, RoundOK
<1>6. CASE ~(config.ChefServer = "relative" \/ pings = config.NumNodes)
           /\ config.ChefServer = "noOrg"
  <2>1. Die("organization") /\ UNCHANGED <<gens, wg, pings>>
    BY <1>6 DEF Liveness
  <2>2. /\ SharedTypeOK' /\ Transit' /\ Late'
        /\ WaitGroup' /\ ProfileMissesAtMostOne' /\ process' = "organization"
    BY <1>1, <2>1, DieStep DEF Deaths
  <2>3. UNCHANGED <<config, handing, asked>>
    BY <2>1 DEF Die, channelVars
  <2>0. RoundOK' /\ Prepared'
    BY <1>1, <2>3, SameRound
  <2>4. config.LivenessAgent /\ config.NumNodes > 0
    BY <1>1, <1>2, <1>6 DEF WaitGroup, Runs, LoopTypeOK
  <2>5. DeathsExplained'
    BY <1>6, <2>2, <2>3, <2>4 DEF DeathsExplained
  <2>6. LoopTypeOK'
    BY <1>1, <1>2, <2>0, <2>1, <2>3 DEF LoopTypeOK
  <2>7. Rounds'
    BY <1>1, <1>2, <2>1, <2>3, SameEnded DEF Rounds, Runs
  <2>8. (ReportsTypeOK /\ Scanning /\ ReportsWithinLimits /\ RunsTypeOK /\ Draws)'
    BY <1>1, <2>3, SameReports, SameRuns
  <2> QED
    BY <2>0, <2>2, <2>5, <2>6, <2>7, <2>8 DEF IInv, DataTypeOK, SharedTypeOK, LoopTypeOK, RoundOK
<1>7. CASE ~(config.ChefServer = "relative" \/ pings = config.NumNodes)
           /\ config.ChefServer # "noOrg" /\ MalformedURL
  <2>1. Die("collectorURL") /\ UNCHANGED <<gens, wg>> /\ pings' = pings + 1
    BY <1>7 DEF Liveness, Update
  <2>2. /\ SharedTypeOK' /\ Transit' /\ Late'
        /\ WaitGroup' /\ ProfileMissesAtMostOne' /\ process' = "collectorURL"
    BY <1>1, <2>1, DieStep DEF Deaths
  <2>3. UNCHANGED <<config, handing, asked>>
    BY <2>1 DEF Die, channelVars
  <2>0. RoundOK' /\ Prepared'
    BY <1>1, <2>3, SameRound
  <2>4. config.NumNodes > 0
    BY <1>2, <1>7 DEF LoopTypeOK
  <2>5. DeathsExplained'
    BY <1>7, <2>2, <2>3, <2>4, SameNodes DEF DeathsExplained, MalformedURL
  <2>6. LoopTypeOK'
    <3>1. pings' \in 0 .. config'.NumNodes
      BY <1>2, <1>7, <2>1, <2>3 DEF LoopTypeOK
    <3> QED
      BY <1>1, <1>2, <2>0, <2>1, <2>3, <3>1 DEF LoopTypeOK
  <2>7. Rounds'
    BY <1>1, <1>2, <2>1, <2>3, SameEnded DEF Rounds, Runs
  <2>8. (ReportsTypeOK /\ Scanning /\ ReportsWithinLimits /\ RunsTypeOK /\ Draws)'
    BY <1>1, <2>3, SameReports, SameRuns
  <2> QED
    BY <2>0, <2>2, <2>5, <2>6, <2>7, <2>8 DEF IInv, DataTypeOK, SharedTypeOK, LoopTypeOK, RoundOK
<1> QED
  BY <1>4, <1>5, <1>6, <1>7

\* PrepareCCRs dies of the first of three causes, or begins with the first round.
LEMMA PrepareCCRsStep ==
  ASSUME IInv, PrepareCCRs
  PROVE  IInv'
<1>1. /\ Runs("ccrs") /\ process = "running" /\ round = -1
      /\ UNCHANGED reportVars /\ UNCHANGED runVars
      /\ UNCHANGED <<main, wg, gens, actions, pings, adding, profile>>
  BY DEF PrepareCCRs, Alive
<1>2. SharedTypeOK /\ LoopTypeOK /\ WaitGroup /\ Rounds
  BY TypeParts DEF IInv
<1>3. UNCHANGED <<config, handing, asked>>
  BY DEF PrepareCCRs, Die, sharedVars, channelVars
<1>4. (ReportsTypeOK /\ Scanning /\ ReportsWithinLimits /\ RunsTypeOK /\ Draws)'
  BY <1>1, <1>3, SameReports, SameRuns
<1>5. AllEnded'
  BY <1>1, <1>2, <1>3, SameEnded, Generators4 DEF Rounds
<1>6. Rounds'
  BY <1>5 DEF Rounds
<1>7. CASE BadInterval \/ BadClient \/ BadThreads
  <2>1. Die(FirstFailure) /\ UNCHANGED round
    BY <1>7 DEF PrepareCCRs
  <2>2. PICK why \in {"ccrInterval", "apiClient", "threads"} :
          /\ why = FirstFailure
          /\ why = "ccrInterval" => BadInterval
          /\ why = "apiClient" => BadClient /\ ~BadInterval
          /\ why = "threads" => BadThreads /\ ~BadClient /\ ~BadInterval
    <3>1. CASE BadInterval
      BY <3>1 DEF FirstFailure
    <3>2. CASE ~BadInterval /\ BadClient
      BY <3>2 DEF FirstFailure
    <3>3. CASE ~BadInterval /\ ~BadClient
      BY <1>7, <3>3 DEF FirstFailure
    <3> QED
      BY <3>1, <3>2, <3>3
  <2>3. why \in Deaths /\ Die(why)
    BY <2>1, <2>2 DEF Deaths
  <2>4. /\ SharedTypeOK' /\ Transit' /\ Late'
        /\ WaitGroup' /\ ProfileMissesAtMostOne' /\ process' = why
    BY <1>1, <2>3, DieStep
  <2>5. DeathsExplained'
    BY <1>3, <2>2, <2>4, SameBatches DEF DeathsExplained
  <2>6. RoundOK' /\ Prepared'
    BY <1>3, <2>1, SameRound
  <2>7. LoopTypeOK'
    BY <1>1, <1>2, <1>3, <2>6 DEF LoopTypeOK
  <2> QED
    BY <1>4, <1>6, <2>4, <2>5, <2>6, <2>7 DEF IInv, DataTypeOK, SharedTypeOK, LoopTypeOK, RoundOK
<1>8. CASE ~(BadInterval \/ BadClient \/ BadThreads)
  <2>1. UNCHANGED sharedVars /\ round' = 0
    BY <1>8 DEF PrepareCCRs
  <2>2. /\ SharedTypeOK' /\ Transit' /\ Late'
        /\ WaitGroup' /\ DeathsExplained' /\ ProfileMissesAtMostOne'
    BY <1>1, <2>1, QuietStep
  <2>3. RoundOK' /\ Prepared'
    <3>1. ccrsTotal \in Nat
      BY <1>2, <1>8, RoundsAreCounted DEF SharedTypeOK
    <3>2. ccrsTotal' \in Nat /\ ~BadInterval'
      BY <1>3, <1>8, <3>1, SameBatches
    <3> QED
      BY <2>1, <3>2 DEF RoundOK, Prepared
  <2>4. LoopTypeOK'
    BY <1>1, <1>2, <1>3, <2>3 DEF LoopTypeOK
  <2> QED
    BY <1>4, <1>6, <2>2, <2>3, <2>4 DEF IInv, DataTypeOK, SharedTypeOK, LoopTypeOK, RoundOK
<1> QED
  BY <1>7, <1>8

\* A round begins with runs that have not asked for their nodes.
LEMMA StartRunsRuns ==
  ASSUME IInv, UNCHANGED config, StartRuns
  PROVE  RunsTypeOK' /\ Draws'
<1>1. RunsTypeOK /\ Draws /\ Nodes' = Nodes /\ ChefServer' = ChefServer
  BY TypeParts, SameNodes DEF IInv
<1>2. /\ stage' = [n \in Nodes |-> "createClient"]
      /\ reportingAvailable' = [n \in Nodes |-> TRUE]
      /\ unread' = [n \in Nodes |-> FALSE] /\ server' = server
  BY StagesInOrder DEF StartRuns
<1>5. env' \in [Nodes -> Environments] \/ env' = env
  BY DEF StartRuns
<1>3. RunsTypeOK'
  <2>1. Stages[2] = "createClient" /\ 2 \in 1 .. Len(Stages)
    BY DEF Stages
  <2>2. stage' \in [Nodes -> {Stages[k] : k \in 1 .. Len(Stages)}]
    BY <1>2, <2>1
  <2>3. env' \in [Nodes -> Environments \cup {None}]
    BY <1>1, <1>5 DEF RunsTypeOK
  <2>4. reportingAvailable' \in [Nodes -> BOOLEAN] /\ unread' \in [Nodes -> BOOLEAN]
    BY <1>2, Zenon
  <2> QED
    BY <1>1, <1>2, <2>2, <2>3, <2>4 DEF RunsTypeOK
<1>4. Draws'
  <2>1. \A n \in Nodes : stage'[n] = "createClient"
    BY <1>2
  <2> QED
    BY <1>1, <1>2, <2>1 DEF Draws, Unsettled
<1> QED
  BY <1>3, <1>4

\* GenerateCCRs begins a round, or returns after the last one.
LEMMA EndRoundStep ==
  ASSUME IInv, EndRound
  PROVE  IInv'
<1>1. /\ Runs("ccrs") /\ "ccrs" \in Generator /\ process = "running" /\ round >= 0 /\ AllEnded
      /\ UNCHANGED reportVars /\ UNCHANGED sharedVars
      /\ UNCHANGED <<main, actions, pings, adding, profile>>
  BY Generators4 DEF EndRound, Alive
<1>2. SharedTypeOK /\ LoopTypeOK /\ WaitGroup /\ Rounds /\ Prepared /\ RoundOK
  BY TypeParts DEF IInv, LoopTypeOK
<1>7. round # -1 /\ ~BadInterval /\ round \in 0 .. ccrsTotal /\ ccrsTotal \in Nat
  BY <1>1, <1>2, RoundsAreCounted DEF Prepared, RoundOK, SharedTypeOK
<1>3. UNCHANGED <<config, handing, asked>>
  BY <1>1 DEF sharedVars, channelVars
<1>4. (ReportsTypeOK /\ Scanning /\ ReportsWithinLimits)'
  BY <1>1, <1>3, SameReports
<1>5. CASE round < ccrsTotal
  <2>1. StartRuns /\ round' = round + 1 /\ UNCHANGED <<gens, wg>>
    BY <1>5 DEF EndRound
  <2>2. /\ SharedTypeOK' /\ Transit' /\ Late'
        /\ WaitGroup' /\ DeathsExplained' /\ ProfileMissesAtMostOne'
    BY <1>1, <2>1, QuietStep
  <2>3. RunsTypeOK' /\ Draws'
    BY <1>3, <2>1, StartRunsRuns
  <2>0. RoundOK' /\ Prepared'
    <3>1. ccrsTotal' = ccrsTotal /\ ~BadInterval'
      BY <1>3, <1>7, SameBatches
    <3>2. round' \in 0 .. ccrsTotal'
      BY <1>5, <1>7, <2>1, <3>1
    <3> QED
      BY <3>1, <3>2 DEF RoundOK, Prepared
  <2>4. LoopTypeOK'
    BY <1>1, <1>2, <1>3, <2>0, <2>1 DEF LoopTypeOK
  <2>5. Rounds'
    <3>1. round' # -1
      BY <1>7, <2>1
    <3>2. Runs("ccrs")'
      BY <1>1, <2>1 DEF Runs
    <3> QED
      BY <3>1, <3>2 DEF Rounds
  <2> QED
    BY <1>4, <2>0, <2>2, <2>3, <2>4, <2>5 DEF IInv, DataTypeOK, SharedTypeOK, LoopTypeOK, RoundOK
<1>6. CASE ~(round < ccrsTotal)
  <2>1. Return("ccrs") /\ UNCHANGED <<runVars, round>>
    BY <1>6 DEF EndRound
  <2>2. UNCHANGED runVars /\ UNCHANGED round
    BY <2>1
  <2>3. /\ SharedTypeOK' /\ Transit' /\ Late' /\ WaitGroup' /\ wg' \in 0 .. Len(Order)
        /\ gens' \in [Generator -> {"new", "running", "done"}]
        /\ DeathsExplained' /\ ProfileMissesAtMostOne'
    BY <1>1, <2>1, ReturnStep
  <2>4. RunsTypeOK' /\ Draws'
    BY <1>3, <2>2, SameRuns
  <2>0. RoundOK' /\ Prepared'
    BY <1>3, <2>2, SameRound
  <2>5. LoopTypeOK'
    BY <1>1, <1>2, <1>3, <2>0, <2>2, <2>3 DEF LoopTypeOK
  <2>6. Rounds'
    BY <1>1, <1>2, <1>3, <2>2, SameEnded DEF Rounds
  <2> QED
    BY <1>4, <2>0, <2>3, <2>4, <2>5, <2>6 DEF IInv, DataTypeOK, SharedTypeOK, LoopTypeOK, RoundOK
<1> QED
  BY <1>5, <1>6

\* OutOfRange ends the process in the middle of a batch.
LEMMA OutOfRangeStep ==
  ASSUME IInv, OutOfRange
  PROVE  IInv'
<1>1. /\ process = "running" /\ Die("slice") /\ round > 1 /\ ShortBatch
      /\ UNCHANGED reportVars /\ UNCHANGED runVars
      /\ UNCHANGED <<main, wg, gens, round, actions, pings, adding, profile>>
  BY DEF OutOfRange, Alive, dataVars
<1>2. SharedTypeOK /\ LoopTypeOK /\ Rounds
  BY TypeParts DEF IInv
<1>3. UNCHANGED <<config, handing, asked>>
  BY <1>1 DEF Die, channelVars
<1>4. /\ SharedTypeOK' /\ Transit' /\ Late'
      /\ WaitGroup' /\ ProfileMissesAtMostOne' /\ process' = "slice"
  BY <1>1, DieStep DEF Deaths
<1>5. DeathsExplained'
  BY <1>1, <1>3, <1>4, SameBatches DEF DeathsExplained
<1>6. RoundOK' /\ Prepared'
  BY <1>1, <1>3, SameRound
<1>7. LoopTypeOK'
  BY <1>1, <1>2, <1>3, <1>6 DEF LoopTypeOK
<1>8. Rounds'
  BY <1>1, <1>2, <1>3, SameEnded, Generators4 DEF Rounds, Runs
<1>9. (ReportsTypeOK /\ Scanning /\ ReportsWithinLimits /\ RunsTypeOK /\ Draws)'
  BY <1>1, <1>3, SameReports, SameRuns
<1> QED
  BY <1>4, <1>5, <1>6, <1>7, <1>8, <1>9 DEF IInv, DataTypeOK, SharedTypeOK, LoopTypeOK, RoundOK

-----------------------------------------------------------------------------
(* The chef-client runs *)

\* The stages that are about the Chef Server's node are wanted when there is a
\* Chef Server.
LEMMA WantedForTheNode ==
  ASSUME NEW n, NEW s \in {"getNode", "postNode", "save"}
  PROVE  Wanted(n, s) <=> ChefServer
<1>1. s \notin Messages /\ s # "reportStart" /\ s # "reportEnd" /\ s # "download"
  BY DEF Messages
<1> QED
  BY <1>1, Zenon DEF Wanted

\* What each step of a run does to the process: it makes no request, or hands
\* one over; the zero client is never used, because a request that is wanted
\* has a Chef Server or is a message to the data collector.
LEMMA RunStepShared ==
  ASSUME IInv, NEW n \in Nodes, RunStep(n)
  PROVE  /\ process = "running" /\ n \notin handing /\ stage[n] # "ended"
         /\ \/ UNCHANGED sharedVars
            \/ HandOver(n)
            \/ Stumble(n) /\ \E why \in Failures(stage[n]) : Die(why)
<1>1. SharedTypeOK
  BY TypeParts DEF IInv
<1>2. ASSUME NEW s, Ask(n, s)
      PROVE  process = "running" /\ n \notin handing /\ stage[n] = s /\ HandOver(n)
  <2>1. Free(n) /\ stage[n] = s /\ Wanted(n, s)
    BY <1>2 DEF Ask
  <2>2. ChefServer \in BOOLEAN /\ (ChefServer \/ Direct)
    BY <1>1, ConfigFields DEF SharedTypeOK
  <2>3. ChefServer \/ s \in Messages
    BY <2>1, Zenon DEF Wanted
  <2>4. HandOver(n)
    BY <1>2, <2>2, <2>3 DEF Ask
  <2> QED
    BY <2>1, <2>4 DEF Free, Alive
<1>3. CASE Skip(n)
  BY <1>3 DEF Skip, Free, Alive
<1>4. CASE BlindCall(n)
  <2>1. stage[n] # "ended" /\ Ask(n, stage[n])
    BY <1>4 DEF BlindCall
  <2> QED
    BY <1>2, <2>1
<1>5. CASE GetNode(n)
  BY <1>2, <1>5 DEF GetNode
<1>6. CASE PostNode(n)
  BY <1>2, <1>6 DEF PostNode
<1>7. CASE ReportStart(n)
  BY <1>2, <1>7 DEF ReportStart
<1>8. CASE Save(n)
  BY <1>2, <1>8 DEF Save
<1>9. CASE Stumble(n)
  <2>1. stage[n] # "ended"
    BY <1>9 DEF Stumble, Failures
  <2> QED
    BY <1>9, <2>1 DEF Stumble, Free, Alive
<1> QED
  BY <1>3, <1>4, <1>5, <1>6, <1>7, <1>8, <1>9 DEF RunStep

\* A run moves on: the other runs stay where they are.
LEMMA ToAStage ==
  ASSUME RunsTypeOK, NEW n \in Nodes, NEW s \in StageNames, To(n, s)
  PROVE  /\ stage' \in [Nodes -> {Stages[k] : k \in 1 .. Len(Stages)}]
         /\ \A m \in Nodes : stage'[m] = IF m = n THEN s ELSE stage[m]
BY DEF RunsTypeOK, To, StageNames

\* A run goes through its stages.
LEMMA StageIsOne ==
  ASSUME RunsTypeOK, NEW n \in Nodes
  PROVE  stage[n] \in StageNames /\ After(stage[n]) \in StageNames
BY AfterIsAStage DEF RunsTypeOK, StageNames

\* A stage without a request leads to a stage, to the next one with a Chef Server.
LEMMA FollowingIs ==
  ASSUME RunsTypeOK, NEW n \in Nodes
  PROVE  /\ Following(stage[n]) \in StageNames
         /\ Following(stage[n]) = After(stage[n]) \/ ~ChefServer
<1>1. After(stage[n]) \in StageNames
  BY StageIsOne
<1>2. Stages[7] = "runStart" /\ Stages[12] = "runStop" /\ {7, 12} \subseteq 1 .. Len(Stages)
  BY DEF Stages
<1>3. "runStart" \in StageNames /\ "runStop" \in StageNames
  BY <1>2 DEF StageNames
<1>4. CASE ~ChefServer /\ stage[n] = "createClient"
  BY <1>3, <1>4 DEF Following
<1>5. CASE ~ChefServer /\ stage[n] = "solve"
  BY <1>3, <1>5 DEF Following
<1>6. CASE ~(~ChefServer /\ stage[n] \in {"createClient", "solve"})
  BY <1>1, <1>6 DEF Following
<1> QED
  BY <1>4, <1>5, <1>6

\* A stage that neither reads nor writes the node.
LEMMA PassingStage ==
  ASSUME IInv, UNCHANGED config, NEW n \in Nodes, NEW s \in StageNames, To(n, s),
         s = After(stage[n]) \/ ~ChefServer,
         stage[n] = "getNode" => ~ChefServer,
         UNCHANGED <<env, server, unread>>, reportingAvailable' \in [Nodes -> BOOLEAN]
  PROVE  RunsTypeOK' /\ Draws'
<1>1. RunsTypeOK /\ Draws /\ Nodes' = Nodes /\ ChefServer' = ChefServer
  BY TypeParts, SameNodes DEF IInv
<1>2. /\ stage' \in [Nodes -> {Stages[k] : k \in 1 .. Len(Stages)}]
      /\ \A m \in Nodes : stage'[m] = IF m = n THEN s ELSE stage[m]
  BY <1>1, ToAStage
<1>3. RunsTypeOK'
  BY <1>1, <1>2, Zenon DEF RunsTypeOK
<1>4. stage'[n] = "postNode" => server[n] = None
  BY <1>1, <1>2, StageIsOne, StagesInOrder DEF Draws
<1>5. stage'[n] \notin Unsettled /\ server[n] # None /\ ~unread[n] => env[n] = server[n]
  <2>1. CASE stage[n] \notin Unsettled
    BY <1>1, <2>1 DEF Draws
  <2>2. CASE stage[n] = "createClient" /\ ChefServer
    BY <1>2, <2>2, StagesInOrder DEF Unsettled
  <2>3. CASE stage[n] \in {"getNode", "postNode"}
    BY <1>1, <2>3 DEF Draws
  <2>4. CASE ~ChefServer
    BY <1>1, <2>4 DEF Draws
  <2> QED
    BY <2>1, <2>2, <2>3, <2>4 DEF Unsettled
<1>6. Draws'
  BY <1>1, <1>2, <1>4, <1>5 DEF Draws
<1> QED
  BY <1>3, <1>6

\* The node that is read is what the server has, when there is one.
LEMMA GetNodeRuns ==
  ASSUME IInv, UNCHANGED config, NEW n \in Nodes, GetNode(n)
  PROVE  RunsTypeOK' /\ Draws'
<1>1. RunsTypeOK /\ Draws /\ Nodes' = Nodes /\ ChefServer' = ChefServer
  BY TypeParts, SameNodes DEF IInv
<1>2. ChefServer /\ UNCHANGED <<reportingAvailable, server>>
  BY WantedForTheNode DEF GetNode, Ask
<1>3. PICK reply \in Replies :
        /\ reply = "ok" => server[n] # None
        /\ reply = "404" => server[n] = None
        /\ env' = [env EXCEPT ![n] = EnvironmentAfter(n, reply)]
        /\ unread' = [unread EXCEPT ![n] = reply \in {"error", "silent"}]
        /\ To(n, IF reply = "404" THEN "postNode" ELSE "environment")
  BY DEF GetNode
<1>4. PICK s \in {"postNode", "environment"} :
        s = IF reply = "404" THEN "postNode" ELSE "environment"
  OBVIOUS
<1>5. s \in StageNames
  <2>1. Stages[4] = "postNode" /\ Stages[5] = "environment" /\ {4, 5} \subseteq 1 .. Len(Stages)
    BY DEF Stages
  <2> QED
    BY <2>1 DEF StageNames
<1>6. /\ stage' \in [Nodes -> {Stages[k] : k \in 1 .. Len(Stages)}]
      /\ \A m \in Nodes : stage'[m] = IF m = n THEN s ELSE stage[m]
  BY <1>1, <1>3, <1>4, <1>5, ToAStage
<1>7. /\ env \in [Nodes -> Environments \cup {None}]
      /\ server \in [Nodes -> Environments \cup {None}]
      /\ unread \in [Nodes -> BOOLEAN]
  BY <1>1 DEF RunsTypeOK
<1>8. /\ env' \in [Nodes -> Environments \cup {None}]
      /\ \A m \in Nodes : env'[m] = IF m = n /\ reply = "ok" THEN server[n] ELSE env[m]
  BY <1>3, <1>7 DEF EnvironmentAfter
<1>9. unread' \in [Nodes -> BOOLEAN]
  <2>1. PICK u \in BOOLEAN : u <=> reply \in {"error", "silent"}
    <3>1. CASE reply \in {"error", "silent"}
      BY <3>1, TRUE \in BOOLEAN
    <3>2. CASE reply \notin {"error", "silent"}
      BY <3>2, FALSE \in BOOLEAN
    <3> QED
      BY <3>1, <3>2
  <2>2. unread' = [unread EXCEPT ![n] = u]
    BY <1>3, <2>1
  <2> QED
    BY <1>7, <2>2, Zenon
<1>10. \A m \in Nodes : m # n => unread'[m] = unread[m]
  BY <1>3, <1>7
<1>11. reply # "404" /\ ~unread'[n] => reply = "ok"
  BY <1>3, <1>7 DEF Replies
<1>12. RunsTypeOK'
  BY <1>1, <1>2, <1>6, <1>8, <1>9, Zenon DEF RunsTypeOK
<1>13. Draws'
  <2>1. ASSUME NEW m \in Nodes, m # n
        PROVE  /\ stage'[m] = "postNode" => server[m] = None
               /\ stage'[m] \notin Unsettled /\ server[m] # None /\ ~unread'[m] =>
                    env'[m] = server[m]
    BY <1>1, <1>6, <1>8, <1>10, <2>1 DEF Draws
  <2>2. stage'[n] = "postNode" => server[n] = None
    BY <1>3, <1>4, <1>6
  <2>3. stage'[n] \notin Unsettled /\ server[n] # None /\ ~unread'[n] => env'[n] = server[n]
    BY <1>3, <1>4, <1>6, <1>8, <1>11
  <2> QED
    BY <1>1, <1>2, <2>1, <2>2, <2>3 DEF Draws
<1> QED
  BY <1>12, <1>13

\* A request that writes the node writes the run's environment, or nothing.
LEMMA WriteIs ==
  ASSUME RunsTypeOK, NEW n \in Nodes, NEW possible, Write(n, possible)
  PROVE  /\ server' \in [Nodes -> Environments \cup {None}]
         /\ \A m \in Nodes : m # n => server'[m] = server[m]
         /\ server'[n] = server[n] \/ server'[n] = env[n]
<1>1. /\ server \in [Nodes -> Environments \cup {None}]
      /\ env[n] \in Environments \cup {None}
  BY DEF RunsTypeOK
<1>2. server' = server \/ server' = [server EXCEPT ![n] = env[n]]
  BY Zenon DEF Write
<1> QED
  BY <1>1, <1>2

\* PostNode and Save leave the server with what it had, or with what the run
\* has.
LEMMA WriteRuns ==
  ASSUME IInv, UNCHANGED config, NEW n \in Nodes, NEW possible, Write(n, possible),
         stage[n] \in {"postNode", "save"}, To(n, After(stage[n])), ChefServer,
         UNCHANGED <<env, reportingAvailable, unread>>
  PROVE  RunsTypeOK' /\ Draws'
<1>1. RunsTypeOK /\ Draws /\ Nodes' = Nodes /\ ChefServer' = ChefServer
  BY TypeParts, SameNodes DEF IInv
<1>2. /\ stage' \in [Nodes -> {Stages[k] : k \in 1 .. Len(Stages)}]
      /\ \A m \in Nodes : stage'[m] = IF m = n THEN After(stage[n]) ELSE stage[m]
  BY <1>1, StageIsOne, ToAStage
<1>3. /\ server' \in [Nodes -> Environments \cup {None}]
      /\ \A m \in Nodes : m # n => server'[m] = server[m]
      /\ server'[n] = server[n] \/ server'[n] = env[n]
  BY <1>1, WriteIs
<1>4. RunsTypeOK'
  BY <1>1, <1>2, <1>3, Zenon DEF RunsTypeOK
<1>5. stage'[n] # "postNode"
  BY <1>1, <1>2, StageIsOne, StagesInOrder
<1>6. server'[n] # None /\ ~unread[n] => env[n] = server'[n]
  <2>1. CASE stage[n] = "postNode"
    BY <1>1, <1>3, <2>1 DEF Draws
  <2>2. CASE stage[n] = "save"
    BY <1>1, <1>3, <2>2 DEF Draws, Unsettled
  <2> QED
    BY <2>1, <2>2
<1>7. Draws'
  BY <1>1, <1>2, <1>3, <1>5, <1>6 DEF Draws
<1> QED
  BY <1>4, <1>7

\* A step of a run.
LEMMA RunStepRuns ==
  ASSUME IInv, UNCHANGED config, NEW n \in Nodes, RunStep(n)
  PROVE  RunsTypeOK' /\ Draws'
<1>1. RunsTypeOK /\ reportingAvailable \in [Nodes -> BOOLEAN]
  BY TypeParts DEF IInv, RunsTypeOK
<1>2. CASE Skip(n)
  <2>1. stage[n] = "getNode" => ~ChefServer
    BY <1>2, WantedForTheNode DEF Skip
  <2> QED
    BY <1>1, <1>2, <2>1, FollowingIs, PassingStage DEF Skip
<1>3. CASE BlindCall(n)
  <2>1. stage[n] # "getNode"
    BY <1>3 DEF BlindCall
  <2> QED
    BY <1>1, <1>3, <2>1, StageIsOne, PassingStage DEF BlindCall
<1>4. CASE GetNode(n)
  BY <1>4, GetNodeRuns
<1>5. CASE PostNode(n)
  <2>1. stage[n] = "postNode" /\ ChefServer
    BY <1>5, WantedForTheNode DEF PostNode, Ask
  <2> QED
    BY <1>5, <2>1, WriteRuns DEF PostNode
<1>6. CASE ReportStart(n)
  <2>1. stage[n] = "reportStart"
    BY <1>6 DEF ReportStart, Ask
  <2>2. reportingAvailable' \in [Nodes -> BOOLEAN]
    <3>1. PICK reply \in Replies :
            reportingAvailable' = [reportingAvailable EXCEPT ![n] = reply # "404"]
      BY <1>6 DEF ReportStart
    <3>2. PICK u \in BOOLEAN : u = (reply # "404")
      OBVIOUS
    <3> QED
      BY <1>1, <3>1, <3>2, Zenon
  <2> QED
    BY <1>1, <1>6, <2>1, <2>2, StageIsOne, PassingStage DEF ReportStart
<1>7. CASE Save(n)
  <2>1. stage[n] = "save" /\ ChefServer
    BY <1>7, WantedForTheNode DEF Save, Ask
  <2> QED
    BY <1>7, <2>1, WriteRuns DEF Save
<1>8. CASE Stumble(n)
  BY <1>8, SameRuns DEF Stumble
<1> QED
  BY <1>2, <1>3, <1>4, <1>5, <1>6, <1>7, <1>8 DEF RunStep

\* A step of a run belongs to a round.
LEMMA CCRStep ==
  ASSUME IInv, NEW n \in Nodes, CCR(n)
  PROVE  IInv'
<1>1. RunStep(n) /\ UNCHANGED reportVars
      /\ UNCHANGED <<main, wg, gens, round, actions, pings, adding, profile>>
  BY DEF CCR, dataVars
<1>2. /\ process = "running" /\ n \notin handing /\ stage[n] # "ended"
      /\ \/ UNCHANGED sharedVars
         \/ HandOver(n)
         \/ Stumble(n) /\ \E why \in Failures(stage[n]) : Die(why)
  BY <1>1, RunStepShared
<1>3. SharedTypeOK /\ LoopTypeOK /\ WaitGroup /\ Rounds
  BY TypeParts DEF IInv
<1>4. UNCHANGED config /\ asked' \in {asked, asked + 1}
  BY <1>2 DEF sharedVars, channelVars, HandOver, Die
<1>0. RoundOK' /\ Prepared'
  BY <1>1, <1>4, SameRound
<1>5. RunsTypeOK' /\ Draws'
  BY <1>1, <1>4, RunStepRuns
<1>6. ReportsTypeOK' /\ Scanning' /\ ReportsWithinLimits'
  BY <1>1, <1>4, SameReports
<1>7. ~AllEnded
  BY <1>2 DEF AllEnded, Ended
<1>8. Runs("ccrs") /\ round # -1 /\ main # Profiling
  BY <1>3, <1>7, NobodyAtTheEnd DEF Rounds
<1>9. Rounds'
  BY <1>1, <1>8 DEF Rounds, Runs
<1>10. /\ SharedTypeOK' /\ Transit' /\ Late'
       /\ WaitGroup' /\ DeathsExplained' /\ ProfileMissesAtMostOne'
  <2>1. CASE UNCHANGED sharedVars
    BY <1>1, <1>2, <2>1, QuietStep
  <2>2. CASE HandOver(n)
    <3>1. Free(n)
      BY <1>2 DEF Free, Alive
    <3> QED
      BY <1>1, <1>8, <2>2, <3>1, HandOverStep
  <2>3. CASE Stumble(n) /\ \E why \in Failures(stage[n]) : Die(why)
    <3>1. PICK why \in Failures(stage[n]) : Die(why)
      BY <2>3
    <3>2. why \in {"nullMap", "request", "collectorURL"} /\ why \in Deaths
      BY DEF Failures, Deaths
    <3>3. /\ why = "nullMap" => "ohai_json_file" \in config.Malformed
          /\ why = "request" => ChefServer /\ "node_name_prefix" \in config.Malformed
          /\ why = "collectorURL" => MalformedURL
      BY DEF Failures
    <3>4. /\ SharedTypeOK' /\ Transit' /\ Late'
          /\ WaitGroup' /\ ProfileMissesAtMostOne' /\ process' = why
      BY <1>1, <1>2, <3>1, <3>2, DieStep
    <3>5. config.NumNodes > 0
      BY <1>3, ConfigFields DEF Nodes, SharedTypeOK
    <3>6. DeathsExplained'
      BY <1>4, <3>2, <3>3, <3>4, <3>5, SameNodes DEF DeathsExplained, MalformedURL
    <3> QED
      BY <3>4, <3>6
  <2> QED
    BY <1>2, <2>1, <2>2, <2>3
<1>11. LoopTypeOK'
  <2>1. profile' \in 0 .. asked'
    BY <1>1, <1>3, <1>4 DEF LoopTypeOK, SharedTypeOK
  <2> QED
    BY <1>0, <1>1, <1>3, <1>4, <2>1 DEF LoopTypeOK
<1> QED
  BY <1>0, <1>5, <1>6, <1>9, <1>10, <1>11 DEF IInv, DataTypeOK, SharedTypeOK, LoopTypeOK, RoundOK

-----------------------------------------------------------------------------
(* The theorems *)

\* Every step keeps the invariant.
LEMMA StepIInv == IInv /\ [DataNext]_allVars => IInv'
<1> SUFFICES ASSUME IInv, [DataNext]_allVars PROVE IInv'
  OBVIOUS
<1>1. CASE Main
  BY <1>1, SpawnStep, EndWaitStep, EndPrintStep DEF Main
<1>2. CASE Compliance
  BY <1>2, ComplianceStep
<1>3. CASE Action
  BY <1>3, ActionStep
<1>4. CASE Liveness
  BY <1>4, LivenessStep
<1>5. CASE CCRs
  BY <1>5, PrepareCCRsStep, EndRoundStep, OutOfRangeStep DEF CCRs
<1>6. CASE \E n \in Nodes : CCR(n)
  BY <1>6, CCRStep
<1>7. CASE Aggregator
  BY <1>7, ReceivesStep, AddsStep DEF Aggregator
<1>8. CASE UNCHANGED allVars
  <2>1. /\ UNCHANGED <<config, process, handing, holding, counted, asked>>
        /\ UNCHANGED reportVars /\ UNCHANGED runVars
        /\ UNCHANGED <<main, wg, gens, round, actions, pings, adding, profile>>
    BY <1>8 DEF allVars, sharedVars, channelVars, dataVars
  <2>2. SharedTypeOK /\ LoopTypeOK /\ WaitGroup /\ Rounds /\ Transit /\ Late
        /\ DeathsExplained /\ ProfileMissesAtMostOne
    BY TypeParts DEF IInv
  <2>0. RoundOK' /\ Prepared'
    BY <2>1, SameRound
  <2>3. (ReportsTypeOK /\ Scanning /\ ReportsWithinLimits /\ RunsTypeOK /\ Draws)'
    BY <2>1, SameReports, SameRuns
  <2>4. /\ Nodes' = Nodes /\ ChefServer' = ChefServer /\ Direct' = Direct
        /\ Senders' = Senders /\ WaitGroup' /\ (Runs("ccrs")' <=> Runs("ccrs"))
    BY <2>1, SameNodes, SameGenerators
  <2>5. SharedTypeOK' /\ LoopTypeOK' /\ Transit' /\ Late'
    BY <2>0, <2>1, <2>2, <2>4 DEF SharedTypeOK, LoopTypeOK, Transit, Late
  <2>6. Rounds'
    BY <2>1, <2>2, <2>4 DEF Rounds, AllEnded, Ended, runVars
  <2>7. DeathsExplained'
    <3>1. /\ BadInterval' = BadInterval /\ BadClient' = BadClient /\ BadThreads' = BadThreads
          /\ ShortBatch' = ShortBatch
      BY <2>1, SameBatches
    <3>2. UNCHANGED <<config, process, main, wg, round>>
      BY <2>1
    <3> QED
      BY <2>2, <2>4, <3>1, <3>2 DEF DeathsExplained, Alive
  <2>8. ProfileMissesAtMostOne'
    BY <2>1, <2>2, <2>4 DEF ProfileMissesAtMostOne, Ended, runVars
  <2> QED
    BY <2>0, <2>3, <2>4, <2>5, <2>6, <2>7, <2>8 DEF IInv, DataTypeOK, SharedTypeOK, LoopTypeOK, RoundOK
<1>9. Terminated => UNCHANGED allVars
  BY DEF Terminated
<1> QED
  BY <1>1, <1>2, <1>3, <1>4, <1>5, <1>6, <1>7, <1>8, <1>9 DEF DataNext

\* The inductive invariant holds in every state of generate.
THEOREM DataInvariance == DataSpec => []IInv
<1>1. DataInit => IInv
  BY InitIInv
<1>2. IInv /\ [DataNext]_allVars => IInv'
  BY StepIInv
<1> QED
  BY <1>1, <1>2, PTL DEF DataSpec

\* Type correctness of generate and its generators: among other things the
\* WaitGroup never goes below zero, at which Go panics, and no more than the
\* configured actions, pings and rounds are done.
THEOREM DataTypeCorrect == DataSpec => []DataTypeOK
<1>1. IInv => DataTypeOK
  BY DEF IInv
<1> QED
  BY <1>1, DataInvariance, PTL

\* The profile that generate prints misses one request at most, with whatever
\* generators, nodes and rounds.
THEOREM ProfileIsAlmostComplete == DataSpec => []ProfileMissesAtMostOne
<1>1. IInv => ProfileMissesAtMostOne
  BY DEF IInv
<1> QED
  BY <1>1, DataInvariance, PTL

\* Each failure of generate that is modelled has its cause: options that do not
\* go together, or are malformed, at a point of the process where they matter;
\* or the race of printAPIRequestProfile with the aggregator.  This is for every
\* number of nodes, threads, rounds and days, GenerateCCRs' own panics included.
THEOREM GenerateDeathsAreExplained == DataSpec => []DeathsExplained
<1>1. IInv => DeathsExplained
  BY DEF IInv
<1> QED
  BY <1>1, DataInvariance, PTL

\* total_max_scans and max_scans hold for every number of nodes, days and scans.
THEOREM ReportsStayWithinLimits == DataSpec => []ReportsWithinLimits
<1>1. IInv => ReportsWithinLimits
  BY DEF IInv
<1> QED
  BY <1>1, DataInvariance, PTL

\* A step that replaces what the Chef Server has of a node belongs to a run
\* whose read of the node failed.
LEMMA ReplacedUnread ==
  ASSUME IInv, [DataNext]_allVars, NEW m \in DOMAIN server, server[m] # None,
         server'[m] # server[m]
  PROVE  unread[m]
<1>1. RunsTypeOK /\ Draws
  BY TypeParts DEF IInv
<1>2. m \in Nodes
  BY <1>1 DEF RunsTypeOK
<1>3. ~UNCHANGED server
  OBVIOUS
<1>4. PICK n \in Nodes : RunStep(n)
  <2>1. Main => UNCHANGED server
    BY DEF Main, Spawn, EndWait, EndPrint, runVars
  <2>2. Compliance \/ Action \/ Liveness \/ Aggregator => UNCHANGED server
    BY DEF Compliance, Action, Liveness, Aggregator, AggregatorReceives, AggregatorAdds, runVars
  <2>3. CCRs => UNCHANGED server
    BY DEF CCRs, PrepareCCRs, EndRound, OutOfRange, StartRuns, runVars
  <2>4. UNCHANGED allVars \/ Terminated => UNCHANGED server
    BY DEF Terminated, allVars, runVars
  <2> QED
    BY <1>3, <2>1, <2>2, <2>3, <2>4 DEF DataNext, CCR
<1>5. PostNode(n) \/ Save(n)
  BY <1>3, <1>4 DEF RunStep, Stumble, Skip, BlindCall, GetNode, ReportStart, runVars
<1>6. \E possible : Write(n, possible)
  BY <1>5 DEF PostNode, Save
<1>7. /\ \A k \in Nodes : k # n => server'[k] = server[k]
      /\ server'[n] = server[n] \/ server'[n] = env[n]
  BY <1>1, <1>6, WriteIs
<1>8. m = n /\ server'[n] = env[n]
  BY <1>2, <1>7
<1>9. CASE PostNode(n)
  BY <1>1, <1>8, <1>9 DEF Draws, PostNode, Ask
<1>10. CASE Save(n)
  BY <1>1, <1>8, <1>10 DEF Draws, Save, Ask, Unsettled
<1> QED
  BY <1>5, <1>9, <1>10

\* The environment that the first run puts on the Chef Server stays there,
\* however often answers get lost: only a run that could not read it puts its
\* own draw there.
THEOREM FirstDrawIsKept == DataSpec => FirstDrawStays
<1> DEFINE Step == \A n \in DOMAIN server :
                     server[n] # None /\ server'[n] # server[n] => unread[n]
<1>1. IInv /\ [DataNext]_allVars => [Step]_<<sharedVars, runVars>>
  BY ReplacedUnread
<1> QED
  BY <1>1, DataInvariance, PTL DEF DataSpec, FirstDrawStays
================================================================================
