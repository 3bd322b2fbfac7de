----------------------------- MODULE GenerateCCRs -----------------------------
(***************************************************************************)
(* The chef-client runs of `chef-load generate' (lib/generator.go:         *)
(* GenerateCCRs, ccr, merge).  Every node runs ccrsTotal times.  A round   *)
(* (loop variable c) runs every node once, in batches (j) of at most       *)
(* Threads goroutines.  ccr starts a goroutine that runs one node, sends   *)
(* the status code of its last request on a channel of its own and closes  *)
(* the channel; merge starts a forwarder per channel and a goroutine that  *)
(* closes the merged channel once all forwarders are done; the main        *)
(* goroutine counts the codes until then.                                  *)
(* What happens between the start of a run and its code is in RandomRun.   *)
(***************************************************************************)
EXTENDS Integers, FiniteSets

CONSTANT Configs  \* the configurations a behaviour may start with

\* Nothing in the code checks these numbers.  DataCollector stands for
\* data_collector_url # "", BrokenClient for a Chef Server whose client key
\* cannot be read.
ASSUME GenerateAssumption ==
  \A cfg \in Configs :
    /\ cfg.NumNodes \in Nat
    /\ cfg.Threads \in Int
    /\ cfg.DaysBack \in Nat
    /\ cfg.Interval \in Nat
    /\ cfg.DataCollector \in BOOLEAN
    /\ cfg.BrokenClient \in BOOLEAN

VARIABLES
  config,
  pc,        \* where the main goroutine is
  ccrsTotal, \* runs per node
  c, j, i,   \* its loop variables: round, batch, goroutine of the batch
  channels,  \* the slice, a function from its indices to channels
  ccrs,      \* the goroutines started by ccr
  forwarders,\* the goroutines started by merge, by index of their channel
  rejects, ccrsIngested, ccrsRejected,
  \* History, for the properties only:
  runs,      \* how often each node has been run
  unreported,\* runs started since the counters were last reset
  refused    \* those of them whose last message the server did not accept

loopVars == <<c, j, i>>
tally == <<rejects, ccrsIngested, ccrsRejected>>
history == <<runs, unreported, refused>>
vars == <<config, pc, ccrsTotal, loopVars, channels, ccrs, forwarders, tally,
          history>>

NumNodes == config.NumNodes
Threads == config.Threads
Nodes == 0 .. NumNodes - 1
Historical == config.DaysBack > 0

\* A channel is named by the run that sends on it.
Channel == [node : Nat, round : Nat]
NilChannel == [node |-> -1, round |-> -1]
NilSlice(size) == [k \in 0 .. size - 1 |-> NilChannel]
Limit(cfg) == IF cfg.NumNodes > cfg.Threads THEN cfg.Threads ELSE cfg.NumNodes

MinutesPerDay == 1440

\* A status code is 200 or something else; what counts is code != 200.
Codes == {"200", "other"}
NoCode == "none"

\* Slip: the short last batch is forgotten.
batches__Floor == IF NumNodes > Threads THEN NumNodes \div Threads ELSE 1

batches ==
  IF NumNodes > Threads
    THEN NumNodes \div Threads + (IF NumNodes % Threads = 0 THEN 0 ELSE 1)
    ELSE 1

Init ==
  /\ config \in Configs
  /\ pc = "start"
  /\ ccrsTotal = 1
  /\ c = 0 /\ j = 0 /\ i = 0
  /\ channels = <<>>
  /\ ccrs = {}
  /\ forwarders = <<>>
  /\ rejects = FALSE /\ ccrsIngested = 0 /\ ccrsRejected = 0
  /\ runs = [n \in Nodes |-> 0]
  /\ unreported = 0 /\ refused = 0

-----------------------------------------------------------------------------
(* The main goroutine *)

RunsPerNode ==
  IF Historical THEN (MinutesPerDay \div config.Interval) * config.DaysBack ELSE 1

\* The ways to fail before the first run, in the order of the code: a division
\* by zero, a client made from an unreadable key (getAPIClient), a division by
\* Threads, a slice of negative length.
BadInterval == Historical /\ config.Interval = 0
BadThreads == NumNodes > Threads /\ Threads <= 0

\* The number of runs per node, the client, the batches and their slice.
Prepare ==
  /\ pc = "start"
  /\ IF BadInterval \/ config.BrokenClient \/ BadThreads
       THEN pc' = "panic" /\ UNCHANGED <<ccrsTotal, channels>>
       ELSE /\ pc' = "round"
            /\ ccrsTotal' = RunsPerNode
            /\ channels' = NilSlice(Limit(config))
  /\ UNCHANGED <<config, loopVars, ccrs, forwarders, tally, history>>

\* Slip: one round too many.
Round__TooMany ==
  /\ pc = "round"
  /\ pc' = IF c <= ccrsTotal THEN "batch" ELSE "done"
  /\ j' = 0
  /\ UNCHANGED <<config, ccrsTotal, c, i, channels, ccrs, forwarders, tally, history>>

Round ==
  /\ pc = "round"
  /\ pc' = IF c < ccrsTotal THEN "batch" ELSE "done"
  /\ j' = 0
  /\ UNCHANGED <<config, ccrsTotal, c, i, channels, ccrs, forwarders, tally, history>>

\* Slip: the slice keeps its length for a last batch that does not fill it.
StartBatch__SameSlice ==
  /\ pc = "batch"
  /\ j < batches
  /\ i' = 0
  /\ pc' = "launch"
  /\ UNCHANGED <<config, ccrsTotal, c, j, channels, ccrs, forwarders, tally, history>>

\* Slip: a batch that needs all of the slice gets an empty one.
StartBatch__Empty ==
  /\ pc = "batch"
  /\ j < batches
  /\ channels' = IF Threads > 0 /\ (j + 1) * Threads >= NumNodes
                   THEN NilSlice(NumNodes % Threads) ELSE channels
  /\ i' = 0
  /\ pc' = "launch"
  /\ UNCHANGED <<config, ccrsTotal, c, j, ccrs, forwarders, tally, history>>

\* A batch that does not need all of the slice gets a shorter one.
StartBatch ==
  /\ pc = "batch"
  /\ j < batches
  /\ channels' = IF (j + 1) * Threads > NumNodes
                   THEN NilSlice(NumNodes % Threads) ELSE channels
  /\ i' = 0
  /\ pc' = "launch"
  /\ UNCHANGED <<config, ccrsTotal, c, j, ccrs, forwarders, tally, history>>

EndRound ==
  /\ pc = "batch"
  /\ j = batches
  /\ c' = c + 1
  /\ pc' = "round"
  /\ UNCHANGED <<config, ccrsTotal, j, i, channels, ccrs, forwarders, tally, history>>

nodeNum == i + j * Threads
MoreToLaunch == i < Threads /\ nodeNum < NumNodes

\* channels[i] = ccr(...): the goroutine is started first, then the index is
\* checked against the length of the slice.
Launch ==
  /\ pc = "launch"
  /\ MoreToLaunch
  /\ LET ch == [node |-> nodeNum, round |-> c] IN
       /\ ccrs' = ccrs \cup {[chan |-> ch, at |-> "converge", code |-> NoCode]}
       /\ IF i \in DOMAIN channels
            THEN /\ channels' = [channels EXCEPT ![i] = ch]
                 /\ i' = i + 1
                 /\ UNCHANGED pc
            ELSE /\ pc' = "panic"
                 /\ UNCHANGED <<channels, i>>
       /\ runs' = [runs EXCEPT ![nodeNum] = @ + 1]
  /\ unreported' = unreported + 1
  /\ UNCHANGED <<config, ccrsTotal, c, j, forwarders, tally, refused>>

\* merge(channels...)
Merge ==
  /\ pc = "launch"
  /\ ~MoreToLaunch
  /\ forwarders' = [k \in DOMAIN channels |->
                      [chan |-> channels[k], at |-> "receive", code |-> NoCode]]
  /\ pc' = "collect"
  /\ UNCHANGED <<config, ccrsTotal, loopVars, channels, ccrs, tally, history>>

\* Slip: only the last code of the batch decides.
Collect__LastCode(k) ==
  /\ pc = "collect"
  /\ forwarders[k].at = "send"
  /\ forwarders' = [forwarders EXCEPT ![k].at = "receive"]
  /\ rejects' = (forwarders[k].code # "200")
  /\ IF rejects' THEN ccrsRejected' = ccrsRejected + 1 /\ UNCHANGED ccrsIngested
                 ELSE ccrsIngested' = ccrsIngested + 1 /\ UNCHANGED ccrsRejected
  /\ UNCHANGED <<config, ccrsTotal, pc, loopVars, channels, ccrs, history>>

\* The main goroutine receives a code from forwarder k and counts it.
Collect(k) ==
  /\ pc = "collect"
  /\ forwarders[k].at = "send"
  /\ forwarders' = [forwarders EXCEPT ![k].at = "receive"]
  /\ IF forwarders[k].code # "200"
       THEN rejects' = TRUE /\ ccrsRejected' = ccrsRejected + 1 /\ UNCHANGED ccrsIngested
       ELSE ccrsIngested' = ccrsIngested + 1 /\ UNCHANGED <<rejects, ccrsRejected>>
  /\ UNCHANGED <<config, ccrsTotal, pc, loopVars, channels, ccrs, history>>

AfterBatch ==
  /\ forwarders' = <<>>
  /\ IF Historical /\ rejects
       THEN pc' = "pause" /\ UNCHANGED j
       ELSE pc' = "batch" /\ j' = j + 1
  /\ UNCHANGED <<config, ccrsTotal, c, i, channels, ccrs, tally, history>>

\* Slip: the merged channel is closed by the first forwarder that is done.
EndCollect__FirstDone ==
  /\ pc = "collect"
  /\ DOMAIN forwarders # {} => \E k \in DOMAIN forwarders : forwarders[k].at = "done"
  /\ AfterBatch

\* All forwarders are done, the closer has closed the merged channel, and the
\* range loop over it ends.
EndCollect ==
  /\ pc = "collect"
  /\ \A k \in DOMAIN forwarders : forwarders[k].at = "done"
  /\ AfterBatch

\* Slip: the pause leaves ccrsRejected alone.
Pause__KeepRejected ==
  /\ pc = "pause"
  /\ rejects' = FALSE /\ ccrsIngested' = 0 /\ UNCHANGED ccrsRejected
  /\ unreported' = 0 /\ refused' = 0
  /\ channels' = NilSlice(Limit(config))
  /\ j' = j + 1
  /\ pc' = "batch"
  /\ UNCHANGED <<config, ccrsTotal, c, i, ccrs, forwarders, runs>>

\* Log the counters, sleep, and reset counters and slice.
Pause ==
  /\ pc = "pause"
  /\ rejects' = FALSE /\ ccrsIngested' = 0 /\ ccrsRejected' = 0
  /\ unreported' = 0 /\ refused' = 0
  /\ channels' = NilSlice(Limit(config))
  /\ j' = j + 1
  /\ pc' = "batch"
  /\ UNCHANGED <<config, ccrsTotal, c, i, ccrs, forwarders, runs>>

-----------------------------------------------------------------------------
(* The goroutines of ccr and merge.  A panic ends them all. *)

Running == pc # "panic"

Advance(g, at, code) ==
  ccrs' = (ccrs \ {g}) \cup {[chan |-> g.chan, at |-> at, code |-> code]}

\* Only the data collector's answer to the last message becomes the code of a
\* run.  Without data_collector_url the code stays 0, whatever the answers.
CodeOf(accepted) == IF config.DataCollector /\ accepted THEN "200" ELSE "other"

\* randomChefClientRun returns.
Converge(g) ==
  /\ Running
  /\ g.at = "converge"
  /\ \E accepted \in BOOLEAN :
       /\ Advance(g, "send", CodeOf(accepted))
       /\ refused' = IF accepted THEN refused ELSE refused + 1
  /\ UNCHANGED <<config, ccrsTotal, pc, loopVars, channels, forwarders, tally, runs,
                 unreported>>

\* Forwarder k receives the code on its channel.
Forward(g, k) ==
  /\ Running
  /\ g.at = "send"
  /\ forwarders[k].at = "receive"
  /\ forwarders[k].chan = g.chan
  /\ forwarders' = [forwarders EXCEPT ![k].at = "send", ![k].code = g.code]
  /\ Advance(g, "close", NoCode)
  /\ UNCHANGED <<config, ccrsTotal, pc, loopVars, channels, tally, history>>

\* The goroutine closes its channel and ends.
Close(g) ==
  /\ Running
  /\ g.at = "close"
  /\ ccrs' = ccrs \ {g}
  /\ UNCHANGED <<config, ccrsTotal, pc, loopVars, channels, forwarders, tally, history>>

\* A receive on a nil channel blocks for ever.
IsClosed(ch) == ch # NilChannel /\ \A g \in ccrs : g.chan # ch

\* Forwarder k finds its channel closed and calls wg.Done.
Done(k) ==
  /\ Running
  /\ forwarders[k].at = "receive"
  /\ IsClosed(forwarders[k].chan)
  /\ forwarders' = [forwarders EXCEPT ![k].at = "done"]
  /\ UNCHANGED <<config, ccrsTotal, pc, loopVars, channels, ccrs, tally, history>>

-----------------------------------------------------------------------------

Main ==
  \/ Prepare \/ Round \/ StartBatch \/ EndRound \/ Launch \/ Merge \/ EndCollect \/ Pause
  \/ \E k \in DOMAIN forwarders : Collect(k)

CCRStep == \E g \in ccrs : Converge(g) \/ Close(g)

ForwarderStep ==
  \E k \in DOMAIN forwarders : Done(k) \/ \E g \in ccrs : Forward(g, k)

\* GenerateCCRs has returned, or the process is gone.
Terminated ==
  /\ pc = "panic" \/ (pc = "done" /\ ccrs = {})
  /\ UNCHANGED vars

Next == Main \/ CCRStep \/ ForwarderStep \/ Terminated

Spec == Init /\ [][Next]_vars

\* Goroutines that can run do run, and the servers answer every request.
Fairness == WF_vars(Main) /\ WF_vars(CCRStep) /\ WF_vars(ForwarderStep)

FairSpec == Spec /\ Fairness

-----------------------------------------------------------------------------
(* Properties *)

TypeOK ==
  /\ config \in Configs
  /\ pc \in {"start", "round", "batch", "launch", "collect", "pause", "done", "panic"}
  /\ ccrsTotal \in Nat
  /\ c \in 0 .. ccrsTotal
  /\ pc \notin {"start", "panic"} => j \in 0 .. batches
  /\ i \in 0 .. NumNodes
  /\ \E size \in 0 .. NumNodes :
       channels \in [0 .. size - 1 -> Channel \cup {NilChannel}]
  /\ ccrs \subseteq [chan : Channel, at : {"converge", "send", "close"},
                     code : Codes \cup {NoCode}]
  /\ DOMAIN forwarders \subseteq DOMAIN channels
  /\ \A k \in DOMAIN forwarders :
       forwarders[k] \in [chan : Channel \cup {NilChannel},
                          at : {"receive", "send", "done"},
                          code : Codes \cup {NoCode}]
  /\ rejects \in BOOLEAN
  /\ ccrsIngested \in Nat
  /\ ccrsRejected \in Nat
  /\ runs \in [Nodes -> 0 .. ccrsTotal]
  /\ unreported \in Nat
  /\ refused \in 0 .. unreported

\* A batch starts only when all runs of the batch before have ended and been
\* counted: while batch j of round c is open, every goroutine is one of its
\* own.  So never more than Threads nodes converge at a time, in whatever
\* order the runs of a batch end and their codes are merged.
BatchBarrier ==
  pc # "panic" =>
    /\ \A g \in ccrs : /\ g.chan.round = c
                       /\ g.chan.node \div Threads = j
                       /\ pc \in {"launch", "collect"}
    /\ ccrs # {} => Cardinality(ccrs) <= Threads

\* When a batch has been collected, every run since the last reset of the
\* counters has been counted once, and as what the data collector made of it:
\* no code is lost, doubled or swapped on its way through two channels.
\* Without data_collector_url every run counts as rejected.
CountersAddUp ==
  pc \in {"batch", "pause", "round", "done"} =>
    /\ ccrsRejected = IF config.DataCollector THEN refused ELSE unreported
    /\ ccrsIngested = unreported - ccrsRejected

\* The runs whose code the main goroutine has not received.
Unaccounted ==
  {g.chan.node : g \in {x \in ccrs : x.at \in {"converge", "send"}}}
  \cup {forwarders[k].chan.node :
          k \in {x \in DOMAIN forwarders : forwarders[x].at = "send"}}

\* Loops, goroutines, channels and slice implement the rounds of Batches.
Abstract == INSTANCE Batches WITH ran <- runs, busy <- Unaccounted, rejected <- rejects

\* Whatever the interleaving, the servers see the behaviour of Batches: each
\* step starts a run whose turn it is, accounts for one run, ends a pause that
\* a rejection made necessary, or is invisible.  No rejection goes without its
\* pause, whichever run of a batch it came from.
ImplementsBatches == Abstract!BatchSpec

\* When GenerateCCRs returns, all nodes have run equally often, and with
\* historical data a node's runs, Interval minutes apart, fit the days asked
\* for while one more run a day would not.  An interval of more than a day
\* leaves every node without any run.
RunsFillTheDays ==
  pc = "done" =>
    \A n \in Nodes :
      IF Historical
        THEN /\ runs[n] % config.DaysBack = 0
             /\ runs[n] * config.Interval <= MinutesPerDay * config.DaysBack
             /\ (runs[n] + config.DaysBack) * config.Interval
                  > MinutesPerDay * config.DaysBack
        ELSE runs[n] = 1

\* GenerateCCRs itself panics because of a configuration before the first run,
\* or of the slice: that takes a round after one whose last batch is shorter
\* than the slice and was not rejected, so that nobody has restored the slice,
\* and a code other than 0, that is, a data collector.  (What a run may die of
\* is in RandomRun.)
PanicsExplained ==
  pc = "panic" =>
    \/ BadInterval \/ config.BrokenClient \/ BadThreads
    \/ /\ NumNodes > Threads /\ NumNodes % Threads # 0
       /\ c > 0 /\ j = 0 /\ i = NumNodes % Threads
       /\ ~rejects /\ config.DataCollector /\ Historical

\* No forwarder and no run is left blocked: the function returns or panics.
Terminates == <>(pc \in {"done", "panic"})

\* The comment on the outer loop: "For the total of CCRs per node, run a
\* converge".  The index panic of PanicsExplained keeps it from doing so.
TotalIsRun ==
  [](pc = "round" => <>(\A n \in Nodes : runs[n] = ccrsTotal))
=============================================================================
