----------------------------- MODULE GenerateData -----------------------------
(***************************************************************************)
(* The process `chef-load generate' (lib/generator.go: GenerateData).  The *)
(* main goroutine starts the aggregator and up to four generators, waits   *)
(* for the generators with a WaitGroup, prints the profile of the requests *)
(* and exits.  The generators are ComplianceReports, the rounds of         *)
(* RandomRun, GenerateChefActions and GenerateLivenessData.  GenerateCCRs  *)
(* has the batches, which are one batch per round here.                    *)
(***************************************************************************)
EXTENDS ComplianceReports, RandomRun

VARIABLES
  main,     \* where the main goroutine is
  wg,       \* the WaitGroup's counter
  gens,     \* per generator, whether its goroutine is "new", "running" or "done"
  round,    \* c in GenerateCCRs
  actions,  \* actions made
  pings,    \* pings made
  adding,   \* additions to the map since the main goroutine began to read it
  profile   \* the total that was printed

dataVars == <<main, wg, gens, round, actions, pings, adding, profile>>
allVars == <<sharedVars, reportVars, runVars, dataVars>>

\* In the order in which they are started.
Order == <<"compliance", "actions", "ccrs", "liveness">>
Generator == {Order[k] : k \in DOMAIN Order}

\* A node's name ends with a number: it is none of the words that stand for
\* the other goroutines.
ASSUME GoroutinesAssumption ==
  \A k \in DOMAIN NodeNames : NodeNames[k] \notin Generator \cup {Nobody}

DataInit ==
  /\ SharedInit
  /\ ReportsInit
  /\ RunsInit
  /\ main = 1
  /\ wg = 0
  /\ gens = [g \in Generator |-> "new"]
  /\ round = -1
  /\ actions = 0 /\ pings = 0
  /\ adding = 0 /\ profile = 0

-----------------------------------------------------------------------------
(* The main goroutine; main is the number of the generator that is next,   *)
(* then "wait" and "print" as numbers.                                     *)

Waiting == Len(Order) + 1
Profiling == Len(Order) + 2

\* Slip: the optional generator is not added to the WaitGroup.
Spawn__AddThree ==
  /\ Alive
  /\ main \in DOMAIN Order
  /\ main' = main + 1
  /\ IF Order[main] = "liveness"
       THEN /\ UNCHANGED wg
            /\ gens' = IF config.LivenessAgent
                        THEN [gens EXCEPT ![Order[main]] = "running"] ELSE gens
       ELSE wg' = wg + 1 /\ gens' = [gens EXCEPT ![Order[main]] = "running"]
  /\ UNCHANGED <<sharedVars, reportVars, runVars, round, actions, pings, adding, profile>>

\* wg.Add(1) and the go statement.
Spawn ==
  /\ Alive
  /\ main \in DOMAIN Order
  /\ main' = main + 1
  /\ IF Order[main] = "liveness" /\ ~config.LivenessAgent
       THEN UNCHANGED <<wg, gens>>
       ELSE wg' = wg + 1 /\ gens' = [gens EXCEPT ![Order[main]] = "running"]
  /\ UNCHANGED <<sharedVars, reportVars, runVars, round, actions, pings, adding, profile>>

\* wg.Wait() returns.
EndWait ==
  /\ Alive
  /\ main = Waiting
  /\ wg = 0
  /\ main' = Profiling
  /\ UNCHANGED <<sharedVars, reportVars, runVars, wg, gens, round, actions, pings,
                 adding, profile>>

\* printAPIRequestProfile has read the map, and may or may not have seen what
\* was added meanwhile.  The process exits.
EndPrint ==
  /\ Alive
  /\ main = Profiling
  /\ profile' \in counted - adding .. counted
  /\ process' = "exited"
  /\ UNCHANGED <<config, channelVars, reportVars, runVars, main, wg, gens, round,
                 actions, pings, adding>>

-----------------------------------------------------------------------------
(* The generators *)

Runs(g) == gens[g] = "running"

\* Slip: a generator that gives up does not call Done.
Return__GivesUp(g) ==
  /\ gens' = [gens EXCEPT ![g] = "done"]
  /\ wg' = IF g = "liveness" /\ config.ChefServer = "relative" THEN wg ELSE wg - 1

\* A generator's deferred wg.Done().
Return(g) ==
  /\ gens' = [gens EXCEPT ![g] = "done"]
  /\ wg' = wg - 1

Compliance ==
  /\ Runs("compliance")
  /\ ReportsStep
  /\ IF at' = "returned" THEN Return("compliance") ELSE UNCHANGED <<gens, wg>>
  /\ UNCHANGED <<runVars, main, round, actions, pings, adding, profile>>

\* GenerateChefActions posts NumActions actions, with or without a
\* data_collector_url to post them to, and then returns.
Action ==
  /\ Runs("actions")
  /\ Free("actions")
  /\ IF actions < config.NumActions
       THEN actions' = actions + 1 /\ Update("actions") /\ UNCHANGED <<gens, wg>>
       ELSE Return("actions") /\ UNCHANGED <<sharedVars, actions>>
  /\ UNCHANGED <<reportVars, runVars, main, round, pings, adding, profile>>

\* GenerateLivenessData gives up on a URL that is not absolute, and pings each
\* node once; the name of the organization is cut out of the path per ping.
Liveness ==
  /\ Runs("liveness")
  /\ Free("liveness")
  /\ IF config.ChefServer = "relative" \/ pings = config.NumNodes
       THEN Return("liveness") /\ UNCHANGED <<sharedVars, pings>>
       ELSE /\ UNCHANGED <<gens, wg>>
            /\ IF config.ChefServer = "noOrg"
                 THEN Die("organization") /\ UNCHANGED pings
                 ELSE pings' = pings + 1 /\ Update("liveness")
  /\ UNCHANGED <<reportVars, runVars, main, round, actions, adding, profile>>

MinutesPerDay == 1440

\* The runs per node; interval is only looked at with historical data.
ccrsTotal ==
  IF config.DaysBack > 0 THEN (MinutesPerDay \div config.Interval) * config.DaysBack ELSE 1

\* What ends GenerateCCRs before its first round, in the order of the code.
BadInterval == config.DaysBack > 0 /\ config.Interval = 0
BadClient == ChefServer /\ ~config.ClientKeyReadable
BadThreads == config.NumNodes > config.Threads /\ config.Threads <= 0
FirstFailure ==
  CASE BadInterval -> "ccrInterval"
    [] ~BadInterval /\ BadClient -> "apiClient"
    [] OTHER -> "threads"

\* GenerateCCRs up to its first round.
PrepareCCRs ==
  /\ Runs("ccrs") /\ Alive
  /\ round = -1
  /\ IF BadInterval \/ BadClient \/ BadThreads
       THEN Die(FirstFailure) /\ UNCHANGED round
       ELSE round' = 0 /\ UNCHANGED sharedVars
  /\ UNCHANGED <<reportVars, runVars, main, wg, gens, actions, pings, adding, profile>>

AllEnded == \A n \in Nodes : Ended(n)

\* Slip: the runs of the last round are not waited for.
EndRound__NoWait ==
  /\ Runs("ccrs") /\ Alive
  /\ round >= 0
  /\ round < ccrsTotal => AllEnded
  /\ IF round < ccrsTotal
       THEN StartRuns /\ round' = round + 1 /\ UNCHANGED <<gens, wg>>
       ELSE Return("ccrs") /\ UNCHANGED <<runVars, round>>
  /\ UNCHANGED <<sharedVars, reportVars, main, actions, pings, adding, profile>>

\* When all runs of a round have ended the next one begins.
EndRound ==
  /\ Runs("ccrs") /\ Alive
  /\ round >= 0
  /\ AllEnded
  /\ IF round < ccrsTotal
       THEN StartRuns /\ round' = round + 1 /\ UNCHANGED <<gens, wg>>
       ELSE Return("ccrs") /\ UNCHANGED <<runVars, round>>
  /\ UNCHANGED <<sharedVars, reportVars, main, actions, pings, adding, profile>>

\* The last batch of a round is a short one, for which the slice of channels is
\* shortened, and a server that accepts all its runs leaves it so.  (Whether it
\* did is in GenerateCCRs; without data_collector_url every run is rejected.)
ShortBatch ==
  /\ config.DaysBack > 0 /\ Direct
  /\ config.NumNodes > config.Threads /\ config.Threads > 0
  /\ config.NumNodes % config.Threads # 0

\* In the first batch of a later round the slice is indexed past its end, after
\* as many runs as it has room for, and one more, have been started.
OutOfRange ==
  /\ Runs("ccrs") /\ Alive
  /\ round > 1
  /\ ShortBatch
  /\ \A k \in (config.NumNodes % config.Threads) + 2 .. config.NumNodes :
       stage[NodeNames[k]] = After("ended") /\ NodeNames[k] \notin handing
  /\ Die("slice")
  /\ UNCHANGED <<reportVars, runVars, dataVars>>

CCR(n) ==
  /\ RunStep(n)
  /\ UNCHANGED <<reportVars, dataVars>>

CCRs == PrepareCCRs \/ EndRound \/ OutOfRange

-----------------------------------------------------------------------------
(* The aggregator *)

AggregatorReceives(s) ==
  /\ Receive(s)
  /\ UNCHANGED <<reportVars, runVars, dataVars>>

\* An addition while the main goroutine ranges over the map is a data race:
\* the Go runtime may notice and end the process.
AggregatorAdds ==
  /\ Add
  /\ process' \in IF main = Profiling THEN {"running", "mapRace"} ELSE {"running"}
  /\ adding' = IF main = Profiling THEN adding + 1 ELSE adding
  /\ UNCHANGED <<reportVars, runVars, main, wg, gens, round, actions, pings, profile>>

Aggregator == (\E s \in handing : AggregatorReceives(s)) \/ AggregatorAdds

-----------------------------------------------------------------------------

Main == Spawn \/ EndWait \/ EndPrint

Terminated == ~Alive /\ UNCHANGED allVars

DataNext ==
  \/ Main
  \/ Compliance \/ Action \/ Liveness \/ CCRs
  \/ \E n \in Nodes : CCR(n)
  \/ Aggregator
  \/ Terminated

DataSpec == DataInit /\ [][DataNext]_allVars

\* Goroutines that can run do run, and the servers answer every request or
\* refuse it.
DataFairness ==
  /\ WF_allVars(Main)
  /\ WF_allVars(Compliance) /\ WF_allVars(Action) /\ WF_allVars(Liveness)
  /\ WF_allVars(CCRs)
  /\ WF_allVars(\E n \in Nodes : CCR(n))
  /\ WF_allVars(Aggregator)

FairDataSpec == DataSpec /\ DataFairness

-----------------------------------------------------------------------------
(* Properties *)

DataTypeOK ==
  /\ config \in Configs
  /\ process \in {"running", "exited"} \cup Deaths
  /\ handing \subseteq Nodes \cup Generator
  /\ holding \in Nodes \cup Generator \cup {Nobody}
  /\ counted \in 0 .. asked /\ asked \in Nat
  /\ ReportsTypeOK /\ RunsTypeOK
  /\ main \in 1 .. Profiling
  /\ wg \in 0 .. Len(Order)
  /\ gens \in [Generator -> {"new", "running", "done"}]
  /\ round = -1 \/ round \in 0 .. ccrsTotal
  /\ actions \in 0 .. config.NumActions /\ pings \in 0 .. config.NumNodes
  /\ adding \in Nat /\ profile \in 0 .. asked

\* The profile of generate: when it is printed nobody is left who made a
\* request and has not handed it over, of whichever generator and however
\* the goroutines were interleaved.  Of the requests at most one is missing,
\* the last one, which the aggregator had received but not added.
ProfileMissesAtMostOne ==
  process = "exited" =>
    /\ handing = {} /\ \A n \in Nodes : Ended(n)
    /\ asked - profile \in {0, 1}

\* Of the failures modelled, each has its cause in the configuration, in what it
\* was combined with there, and in how far the process had come.  GenerateCCRs
\* fails before its first round for the first of its reasons only, and by the
\* short slice only in a later round; a run, a ping, an action or a report has to
\* be made before a malformed option shows; a max_scans that is zero or makes the
\* interval zero minutes takes the ten nodes there must be to have a most
\* frequent one; the map is raced for at the very end.  No request is ever signed
\* with the zero client.  Not modelled, and taken as well formed, are what servers
\* answer (environments and URLs that requests are made of, say), and
\* chef_server_url up to its path.
DeathsExplained ==
  LET flawed(option) == option \in config.Malformed
      reports == config.Nodes > 0 /\ config.TotalMaxScans > 0 IN
  CASE process = "ccrInterval" -> BadInterval
    [] process = "apiClient" -> BadClient /\ ~BadInterval
    [] process = "threads" -> BadThreads /\ ~BadClient /\ ~BadInterval
    [] process = "slice" -> ShortBatch /\ round > 1
    [] process = "request" -> ChefServer /\ config.NumNodes > 0 /\ flawed("node_name_prefix")
    [] process = "collectorURL" ->
         /\ Direct /\ flawed("data_collector_url")
         /\ config.NumNodes > 0 \/ config.NumActions > 0 \/ reports
    [] process = "nullMap" -> \/ config.NumNodes > 0 /\ flawed("ohai_json_file")
                              \/ reports /\ flawed("sample_report")
    [] process = "organization" -> /\ config.LivenessAgent /\ config.NumNodes > 0
                                   /\ config.ChefServer = "noOrg"
    [] process = "platforms" -> config.Platforms = 0 /\ config.Nodes > 0
    [] process = "interval" -> /\ config.MaxScans = 0 \/ config.MaxScans > Day
                               /\ config.Nodes >= 10 /\ config.TotalMaxScans > 0
    [] process = "mapRace" -> main = Profiling /\ wg = 0
    [] OTHER -> Alive \/ process = "exited"

\* generate ends: nobody waits for ever, neither the WaitGroup for a
\* generator nor a generator for the aggregator.
Finishes == <>~Alive
==============================================================================
