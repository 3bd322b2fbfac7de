# A TLA+ model of chef-load

chef-load puts load on a Chef Server and on Chef Automate's data collector by
simulating chef-client runs (CCRs). `chef-load start` keeps a fleet of simulated
nodes converging at an interval until it is stopped; `chef-load generate`
produces a given amount of data and ends. The program is `main.go`, `commands/`
and `lib/`; everything else in the repository is vendored.

This directory holds TLA+ modules for both processes and for the decisions of a
run, TLC configurations that check them, and TLAPS proofs of every safety
property that the runs check, the three refinements included. Section 1 is the inventory, 2 the plan, 3
to 7 say how the modules correspond to the code, 8 what each run checks, 9 bounds
and fairness, 10 the proofs, 11 the disagreements between code and
documentation, 12 what is left out.

## 1. Inventory

| Component | Source | State | Operations |
|---|---|---|---|
| Scheduling loop | `lib/service.go` 164-201 | `nodes` (runner per slot), `nodeNameIdx`, channel `ccrCompletion`, `timeout` | seed, sleep, receive a slot, replace its node, start a CCR, time out |
| CCR | `lib/chef_client_run.go` | node object, `reportingAvailable`, `dataCollectorAvailable`, run lists | some twenty requests in order; closer that returns the slot |
| Aggregator | `lib/service.go` 100-117, `lib/util.go` | map of request counts, signal channel | count a request, take a signal, print the profile, exit |
| Pinger, actions goroutine | `lib/service.go` 119-161, `lib/liveness_agent.go`, `lib/chef_actions.go` | loop index | start one goroutine per message |
| HTTP clients | `lib/util.go` `apiRequest`, `lib/data_collector.go` | none | one request, its handover to the aggregator |
| Batches of generate | `lib/generator.go` `GenerateCCRs`, `ccr`, `merge` | loop variables, slice of channels, `rejects` and counters | start a batch, merge its codes, count, pause |
| Random CCR | `lib/generator.go` `randomChefClientRun` | node object, result code | the stages of a CCR with random data |
| GenerateData | `lib/generator.go` 37-83 | WaitGroup, aggregator map | run four generators, print the profile |
| Compliance generator | `lib/compliance_generator.go` | scan counters | send one report per simulated scan |
| Run lists | `lib/run_list.go`, `lib/role.go`, `lib/cookbooks.go` | memo of applied roles | expand, resolve, download |
| Configuration | `commands/root.go`, `lib/config.go` | the `Config` record | validate, choose the mode |
| Random data, `init`, `version` | `lib/random_data.go`, `commands/` | none | draw from tables; print |

**Interactions.** The loop and the CCRs share the buffered channel
`ccrCompletion`: slot numbers travel over it, one token per slot. Every
goroutine that makes a request then blocks in a send on the one unbuffered
channel `requests` until the aggregator receives it; the aggregator receives
from the signal channel in the same `select` and ends the process there. In
`generate`, each run of a batch has a channel of its own, and `merge` fans the
channels of a batch into one that the main goroutine drains before the next
batch. Its four generators share `requests` with an aggregator of their own, and
a WaitGroup with the main goroutine, which reads the aggregator's map once the
generators are done.

**What is hard.** The order in which runs end against pacing, timeouts and
replacement; the moment at which arguments of a `go` statement are evaluated;
servers that never answer (no HTTP client has a timeout); one unbuffered channel
for everybody; a signal between an answer and its handover; a fan-in whose
closing must come after the last value; a slice that is resized in one round and
indexed in the next; a map that is read while its last entry may still be
written; divisions by numbers nobody checks; dropped errors of `url.Parse` and
`NewRequest` and JSON files with `null`, which end the process far from the option
that is wrong; failed reads of a node that is later written back. The list, line by line, is under `hazards` in `PROJECT.json`.

**What makes each component correct.**
Scheduling loop: no slot is lost or doubled, no node runs twice at a time,
`FirstRun` marks the first run of a node, launches are paced, working slots keep
running. Start process: no request is lost from the profile, nobody starves at
the aggregator, a signal ends the process. Generate: at most `Threads` runs at a
time, batches do not overlap, every run is counted, a rejection is followed by a
pause, all runs are made. CCR: requests are signed with a real client, the
client of a node is created once, what is saved is the node in the configured
environment with the attributes found on the server. Run lists: expansion ends
and finds every reachable recipe once per path allowed by the memo. GenerateData:
the process ends, its profile lacks no request but perhaps the last, and each of
the failures modelled has its cause in the options and in how far the process has
come. Compliance: the number of reports
respects the limits.

## 2. Plan

Modelled and checked:

1. `Fleet`, `Scheduler`; `Service`, which extends `Scheduler`.
2. `Config`, `ChefClientRun`, `RunList`.
3. `Batches` and `GenerateCCRs`.
4. `Generators`, `ComplianceReports` and `RandomRun`, which extend it, and
   `GenerateData`, which extends both and composes them.

Proved, for every value of the constants: every invariant and every safety
property of the passing runs, among them that `Scheduler` implements `Fleet`,
that `Service` refines `Scheduler`, and that `GenerateCCRs` implements `Batches`
(section 10). Liveness stays with TLC.

What is left of the code is in section 12.

## 3. Fleet and Scheduler

`Scheduler` is the main goroutine of `Start` from the creation of
`ccrCompletion` on, and the CCR goroutines reduced to start and end.

| Code | Model |
|---|---|
| `nodes[n]`, `nodeNameIdx`, `timeout` | variables of the same names; a node name `prefix-k` is the number `k` |
| channel `ccrCompletion` | a sequence of at most `NumNodes` slots |
| program counter of `Start` | `pc`: `seed`, `pace`, `select` |
| a running goroutine `ChefClientRun(...)` | an element of `running` with its arguments |
| 172-176 | `Seed`, `EndSeed` |
| 181-183 | `Pace` |
| 185-195 | `Relaunch` or `Replace`, both ending in `StartRun` |
| 196-199 | `TimeOut` |
| `closer` in `ChefClientRun` | `Finish` |

`rand.Float64() < NodeReplacementRate` is a free choice, except for the rates 0
and 1 (`ReplacementRate`). `TimeOut` is enabled also when a slot is free: Go
looks at the channel and the timer when the goroutine is scheduled, and a
goroutine that was descheduled for 100 ms finds both ready. `slept` and
`launched` are history variables.

`Fleet` says what the servers see: a fleet of at most `FleetSize` nodes, each
with at most one run, new nodes with fresh names, first runs of nodes never met.
It has no slots, tokens, timeouts or sleeps. `ImplementsFleet` maps seeded
slots to the fleet, `running` to `busy`, `launched` to `met`.

## 4. Service

`Service` extends `Scheduler` with what its goroutines share. A step of the loop
is `MainStep(A)` for an action `A` of `Scheduler`. A CCR of slot `n` alternates
between computing, waiting for an answer (`Request`, `Answer`) and waiting for
the aggregator (`HandleRequest`), at most `MaxCalls` times, and ends with
`EndRun` whenever it computes. `Ping` and `Action` put one more request in
flight and go on at once. A request that fails is handed over like one that is
answered (status 999), so `Answer` stands for both.

Requests are not told apart, so the aggregator's map is one counter. `answered`
counts the requests that have an outcome, `counted` those the aggregator has
taken, both modulo `CounterMod`, which exceeds the number of requests that can be
in between; the assumption `ServiceAssumption` says so. `HandleSignal` prints
the total and stops everything (`os.Exit`).

## 5. GenerateCCRs

`Prepare` is the part before the loops: the number of runs per node, the client,
the batches and the slice. It panics for the inputs that the code divides by or
allocates with and nobody checks. The loops of `GenerateCCRs` with the program counter `pc`, the slice `channels`
as a function from its indices, one record in `ccrs` per goroutine of `ccr`
(converge, send, close), one in `forwarders` per goroutine of `merge`. The wait
group and the closing of the merged channel are the guard of `EndCollect`. A
receive on a nil channel blocks for ever, and indexing past the end of the slice
panics after the goroutine was started (`ccr` is called first): `pc = "panic"`.
Codes are 200 or not, and
`CodeOf` says where they come from: only the data collector's answer to the last
message sets a code, so without `data_collector_url` it stays 0. The
configuration is chosen in the initial state from
`Configs`, so that one run covers many. `runs`, `unreported` and `refused` are history.

`Batches` says what this amounts to: nodes run in rounds, in order, a batch at a
time, and with historical data a rejection is followed by a pause before anything
else starts. It has no goroutines, channels, slices or loop variables.
`ImplementsBatches` maps `runs` to `ran`, `rejects` to `rejected`, and the nodes
whose code is on its way through the two channels to `busy`.

## 6. Config and ChefClientRun

`Config` is the validation in `configFromViper`. `ChefClientRun` is the sequence
of runs of one node: `Begin`, then the stages in the order of the function. Each
stage is skipped or makes its requests as the configuration, the mode, `firstRun`
and earlier replies say (`Wanted`). Replies are classes: `ok`, `404`, `error`
(any other status, or a body that does not decode) and `silent` (no response; a
request without response may have been carried out). Stages with replies that
the code ignores are one action, `BlindCall`. A stage of several requests
(expansion, downloads, `api_get_requests`) is one step, which may stand for none.

A run may take the process with it, which is `pc = "dead"`. `Starts` says when it
gets as far as its first request: a `chef_server_url` without an organization
panics at line 52, a key that cannot be read in `getAPIClient`, and an
`ohai_json_file` that holds `null` leaves a nil map that is written at 95. `Panics`
are the stages at which it may die later (`Panic`): the requests whose URL is made
of a `node_name_prefix`, a `chef_environment`, a `data_collector_url` or one of
`api_get_requests` that no URL can be made of, because the errors of `NewRequest`
(`util.go` 48) and `url.Parse` (`data_collector.go` 62) are dropped and the nil
result is used; and the type assertions on a converge JSON of another shape.
`Malformed` is the set of options that hold such values.

A node object keeps what the properties are about: whether it bears the node's
name, its environment, its run list, and whether its normal attributes are those
found on the server. The Chef Server (`server`) is external: it has a node or
not, gives it, takes a new one, and takes a save for a node that it has and that
bears the right name.

### RunList

The stage `expand` in detail: `expandRunList` with an explicit stack, one element
per call in progress on a list (the recursion over the rest of a list, a tail
call, shifts the top element). `AddRecipe`, `SkipRole` and `AskForRole` are the
cases of the `switch`, `GetRole` the return of `roleRunListFor`, `Return` the end
of a list. Strings of run lists are classes: which of the three patterns of
`parseRunList` they match, or none, with a name and perhaps a version. The pattern
of bare strings takes names with brackets (`run_list.go` 110), the other two do not,
so `BracketNames` are names of bare strings only. `ItemString` is what
`toStringSlice` makes of an item: `recipe[...]` around such a name is a bare string
with a longer name (`InBrackets`), and with a version behind the name it matches no
pattern and is dropped. A request for a role that fails leaves the
zero role with no run list, and the role counts as applied.

The loop of `parseRunList`, which appends what it recognizes, is written without
recursion: the n-th item comes from the place that has n recognized strings up to
it (`ItemsOf`). `ShouldSee` and `Reached` say independently of the actions what
the result should hold. `Reached` is the least set of roles that is closed under
what lists contain, and recipes are counted by the places at which they stand.

## 7. GenerateData

`Generators` has what the goroutines of `generate` share. A goroutine that makes a
request (`HandOver`) is in `handing` from then on, until the aggregator receives it
(`Receive`); the aggregator then holds it and adds it to the map in a step of its
own (`Add`), of which the sender sees nothing. Requests are not told apart, so the
map is the number `counted`; `asked` is history. `process` is `running`, `exited`,
or the reason why it died (`Deaths`).

| Code | Model |
|---|---|
| `generateNodes`, the loops of `generateReports` | `ComplianceReports`: `GenerateNodes`, `StartNode`, `Scan`, `EndNode`, `ReportsReturn` |
| `intervalMinutes` | `intervalMinutes`, with exact tenths for the quotients |
| `dataCollectorComplianceReport` | the record of node and age |
| `randomChefClientRun` | `RandomRun`: the stages in order, with `Wanted` as in `ChefClientRun`; `stage`, `env` and `reportingAvailable` per node, `server` external; without a Chef Server the stages between the messages are passed at once (`Following`) |
| panics in a run | `Stumble`: an `ohai_json_file` with `null`, a name no URL can be made of, a malformed `data_collector_url` (`Update` where other generators post to it) |
| a sample report with `null` | `NullSample` |
| `wg.Add`, `go`, `wg.Wait` | `Spawn`, `EndWait` |
| `wg.Done`, deferred | `Return` |
| `GenerateChefActions`, `GenerateLivenessData` | `Action`, `Liveness` |
| `GenerateCCRs` up to its loops | `PrepareCCRs`: the division by the interval, the client, the divisions by threads, in this order (`FirstFailure`) |
| its loops | `EndRound`: all nodes of a round at once; `OutOfRange`: the slice that a short batch left is indexed past its end in the next round |
| `printAPIRequestProfile` | `EndPrint` |

Every drawn node has an environment from a small set, which `GET nodes/<name>`
replaces when it decodes into the drawn node (`EnvironmentAfter`), and the PUT
writes back. This is about the environment only. The drawn attributes are maps
that are not nil (`generator.go` 375-388), and decoding into such a map adds to it
(403): what a run saves after a good read are the attributes of the server merged
with newly drawn ones. They are not modelled and nothing is claimed of them.
Whether the short batch of a round had a rejection, which resets the slice, is left
open here (`ShortBatch`); `GenerateCCRs` has it exactly.

The lists that are drawn hold recipes
only, and the run list is parsed before the node is read, so the expansion makes
no request. Between `EndWait` and `EndPrint` the main goroutine ranges over the
map; an addition in that time is a data race, for which the runtime may end the
process (`mapRace`) and which the profile may or may not show.

## 8. Runs

| Run | Shows |
|---|---|
| `scheduler` | Three slots, one of which may hang, and two replacements. Tokens are conserved; closers never block; no two goroutines impersonate one node; arguments of the `go` statement are current; `FirstRun` goes to the first run only; replaced nodes stay away; launches are paced; working slots run again and again; the loop implements `Fleet`. |
| `service` | Two slots with requests, pings, actions, aggregator, signals. The printed profile misses exactly the requests on their way; every behaviour is one of `Scheduler`; a signal ends the process; no CCR waits for the aggregator for ever; slots keep running, now from the fairness of single requests. |
| `generate_ccrs` | Up to five nodes and three threads, with and without historical data, data collector and readable key, and the edges: no threads, no interval, intervals that do not divide the day or exceed it. Batches do not overlap and never exceed `Threads`; every run is counted once, as what its last message met; the loops and channels implement `Batches`, so a rejection is followed by the pause; on return the runs fill the days that were asked for; every panic of the function itself is explained by the configuration or by a short batch in the round before; no goroutine of a batch hangs the function. |
| `generate_data` | The generators together and by themselves, with all failures modelled. The process ends; when it prints, no request is on its way and the profile lacks at most the last one; each failure has its cause, and the first of several is the one that shows; the compliance reports keep to `total_max_scans` up to one node and to between one and two times `max_scans` in the last day; a node on the server keeps the environment first drawn for it unless a read failed. |
| `chef_client_run` | All accepted configurations with at most one malformed option, all replies. Requests are signed with a real client; the failures modelled end the first run or none, those of `Starts` before any request; what belongs to the first run happens once; the node keeps its name unless the read got no response; saves are in the configured environment; attributes on the server survive unless the read failed. |
| `run_list` | Three roles that may contain themselves and each other, with and without run lists per environment, any of them unreadable, and recipes with a bracket in the name. The expansion ends; each role is asked for once; each recipe is found as often as it stands in the lists that are reached; what a role gives comes before what follows it; the strings of the expansion parse back, those of the configured list exactly when no name has a bracket. |
| `scheduler_skip`, `service_usr1`, `service_ping`, `generate_total`, `ccr_collector`, `ccr_runlists` | Each refutes one statement of the documentation, see section 11. |

Each property of a passing run has a mutant in `PROJECT.json`: a slip in one
definition (named `Action__Slip` in the module) with which TLC finds the
property violated under the same configuration.

## 9. Bounds and fairness

* `NumNodes = 3`, `MaxNames = 5` in `scheduler`: three slots allow two others to
  overtake a slow one, and two replacements can hit the same slot or two. The
  slots are numbers, so there is no symmetry. `MaxNames` stops replacements only.
* `NumNodes = 2`, `MaxCalls = 1`, `MaxBackground = 1` in `service`: two CCRs and
  one background request compete for the aggregator; one call per run already
  separates request, answer, handover and end. Nothing in the code limits
  background requests; those beyond the bound are taken as never answered.
  Replacement, which has no part in this, is off. Deadlock is not checked there
  because the process stops on a signal.
* `generate_ccrs`: fewer nodes than threads, as many, a multiple, more with a
  short last batch; two rounds are what the panic needs.
* `generate_data`: configurations are about one concern each, so that they add
  up instead of multiplying. One node on a Chef Server runs twice, because a
  second run is what reads and overwrites; two nodes run at once with a data
  collector; all four generators run at once with one item each. Ten nodes meet
  all bands of the compliance generator, nine have no most frequent one, 20 have
  two; `max_scans` is 0, 1, a number that does not divide the day, one whose
  interval is a minute (721, where the overshoot is largest), and one too large.
  The interval and the threads are zero, alone and together with a key that cannot
  be read; three nodes on two threads, twice, are the shortest way to the index past
  the end of the slice; each option is malformed in turn, where a run, an action or
  a report meets it and where nothing does. Negative numbers other than of threads
  are left out, a run downloads one file at most, and the batches of a round are one.
* `run_list`: three roles are enough for cycles of length one to three, for a role
  reached on two ways, and for one list inside another inside another. The
  lists are chosen in `MCRunList`, and all combinations of them are tried. The
  names are `x`, `y` and `z] `, the shape of the sample in `config.go` 239.
* `chef_client_run`: one malformed option at a time, because a run dies of the
  first it meets; the proof has any number of them. Counts of clients and downloads saturate at 2, nothing else
  is bounded; a node runs any number of times.

Fairness. Goroutines that can run do run, which is the Go scheduler's promise:
weak fairness of their steps. Where a `select` has several ready cases Go draws
one at random, and goroutines blocked in sends on a channel are served in order:
strong fairness of the receive case of the loop, of the signal case, and of each
handover. Servers answer, except those of the slots in `Hung`; neither
`http.Client` has a timeout (`lib/data_collector.go` 71, go-chef's client), so no
fairness is claimed for these. Signals need not arrive. `ChefClientRun`
states no liveness: its stages form a straight line. In `RunList` requests end and
the one goroutine goes on. In `GenerateData` each goroutine, the aggregator
and the runs together get weak fairness, and servers answer or refuse: `generate`
makes no claim to end with a server that does neither. Weak fairness is enough
there because everybody's work is finite.

## 10. Proofs

TLAPS proves, for every value of the constants that satisfies the named
assumptions, all that the runs check except liveness: every invariant, every
action property and the three refinements. A component has an inductive invariant
in named parts (`IInv`, in `ServiceProofs` `ServiceIInv`). It holds at the start,
every action keeps it, each in a step or a lemma of its own, and the theorems
follow from it. Few of the properties are inductive as they stand; what the
invariant adds to them is what the code takes for granted.

| Module | Theorems | From |
|---|---|---|
| `SchedulerProofs` | `TypeCorrect`, `SlotsConserved`, `ClosersNeverBlock`, `CurrentNodesRun`, `NodesRunAlone`, `FirstRunOnce`, `LaunchesArePaced` | `SchedulerAssumption` |
| `SchedulerRefinement` | `LoopImplementsFleet`, `RetiredNodesStayRetired` | the same |
| `ServiceProofs` | `ProcessRefinesLoop`, `ProcessImplementsFleet`, `ProcessConservesSlots`, `ServiceTypeCorrect`, `NothingElseIsMissing` | and `ServiceAssumption` |
| `GenerateCCRsProofs` | `TypeCorrect`, `BatchesDoNotOverlap`, `NoCodeIsLost`, `HistoryIsComplete`, `DeathsAreExplained` | `GenerateAssumption` |
| `GenerateCCRsRefinement` | `GoroutinesImplementBatches` | the same |
| `GenerateDataProofs` | `DataTypeCorrect`, `ProfileIsAlmostComplete`, `GenerateDeathsAreExplained`, `ReportsStayWithinLimits`, `FirstDrawIsKept` | `ConfigsAssumption`, `RandomRunAssumption`, `GoroutinesAssumption` |
| `ChefClientRunProofs` | `RunTypeCorrect`, `EveryClientIsReal`, `FirstRunHappensOnce`, `PreparedNodeIsNamed`, `SavesConfiguredEnvironment`, `AttributesAreKept` | `ConfigsAssumption` |
| `RunListProofs` | `RolesAskedOnce`, `ExpansionTypeCorrect`, `ExpansionIsExact`, `OrderIsKept`, `StringsParseBack` | `RunListAssumption`, `NobodyAssumption`, `BracketAssumption` |

`PROJECT.json` says which property of a run each theorem states. `CurrentNodesRun`
(the arguments of every goroutine are those its slot has now) and the two about
the process as a whole have no run of their own, because stronger ones do.

### Scheduler and Service

The seeding loop has not passed `NumNodes` and nothing runs during it
(`Seeding`); only seeded slots are in the channel or run (`OnlySeeded`); the
tokens in the channel and the CCRs together number the seeded slots (`Tally`);
seeded slots have different nodes with names below `nodeNameIdx`
(`DistinctNodes`); a slot's `FirstRun` is up exactly when its node is not in
`launched` (`FirstRunFlag`); and a select, or a timeout that is remembered, comes
after a sleep (`Pacing`). `Tally` gives the room in the channel that
`CloserNeverBlocks` needs: with a CCR running, fewer than `NumNodes` tokens are
left. `OnlyCurrentNodesRun` and `DistinctNodes` give `OneRunPerNode`. Launches
with and without replacement share `LaunchIInv`; `AppendToken` and `ReceiveToken`
say what a send and a receive do to the tokens.

The refinement maps each action to what it is for `Fleet`: `Seed` enlists a node,
a relaunch starts a run, a replacement retires a node for a fresh one and starts
the run of that, `Finish` ends a run, all others stutter. `FleetIsSmall`
and `FreeSlotIsIdle` are the guards of `Fleet`'s actions: there is room for another
node while slots are seeded, and the node of a free slot has no run.

`ServiceStep` shows that a step of the process is a step of the loop or changes
none of its variables, so every theorem about the loop holds in the process.
`ServiceIInv` adds that the requests in the background are bounded
(`Background`), that every answer has been counted or waits for the aggregator
(`AnswersAccounted`: `counted` and the number that wait make `answered`, up to one
turn of the counters), and that nothing is counted after the print (`Printed`).

### GenerateCCRs

`Loops` bounds the loop variables and says how many runs of each node have been
started. `Slice` is the invariant the code does not have: the slice is as long as
the batch needs, or it is what the short last batch of the round before left, of
length `NumNodes % Threads`, while batch 0 is launched; the panic of section 11
happens exactly there. `Goroutines` and `Forwarders` say that
every goroutine belongs to the open batch, one per node, with its `merge` goroutine
behind it. `Accounts` equates the runs since the last reset with the codes that
are counted and those on their way, and bounds the refused ones. `BatchBarrier`
and `CountersAddUp` are then arithmetic (`TimesIsMonotonic` and the lemmas after
it); `RunsFillTheDays` follows from `Loops` at the end of the last round.

For `Batches`, all steps between a start and the count of a code are invisible:
where the code is, in a goroutine, in its channel or in a forwarder, does not show
in the set of nodes whose code is on its way. `Launch`, `Collect` and `Pause` are the
steps that show.

### GenerateData

`WaitGroup` equates `wg` with the number of generators that run; `Rounds` says that
no run is left between rounds; `Transit` that every request is with its
sender, with the aggregator or counted. Together they leave at most the request
that the aggregator holds when the WaitGroup is zero (`Late`), which is
`ProfileMissesAtMostOne`. `Scanning` gives the number of reports that are due from
the open node, from the division in `intervalMinutes`, for any `max_scans`.
`Draws` says that once a node is settled its run has the server's environment,
unless the read failed. `Prepared` says that a round that has begun was preceded by
no division by zero, without which the number of rounds means nothing. The cause of
a death is in the guard of the step that dies; what the process must have done
before, in where its goroutines are.

### ChefClientRun

`GotThrough` says that a run that is past a stage of `Panics` did not meet that
panic, and that a node that has been run is past all of them: so a failure ends the first
run or none (`ClientIsReal`). `NoDownloadYet` and `FirstRunOnly` tie the counts to `ranBefore`; `Unread` says that
the node is the zero one until it is read; `ServerNode` that the server has a node
of this name or none, and none when one is created; `RunNode` that the run has the
configured environment after the preparation, the attributes of the server
unless the read failed, and no name after a read without response. The order of
the stages (`AfterIs` and the lemmas behind it) is derived from the list `Stages`.

### RunList

`AskedOnce` is inductive with the domain of `fetches` because a role is remembered
in the step that asks for it. The others need to know what is still to come. `Todo`
is what is left on the stack as a function from places to entries, the level
of a call and the place from the end of its list; a step takes the place of
the first entry (`TodoTail`), adds those of a list (`TodoPushed`), or changes
nothing (`TodoPopped`), and moves no other.

* `OnlyReached`, `AllReached`: the roles applied or left lie in every set that is
  closed as far as lists have arrived, and are such a set themselves. Nothing is
  left at the end, and the applied roles are the least closed set, `Reached`.
* `Counted`: the places of a recipe in the result and in `Todo` are as many as in
  the lists that have arrived. `AddedCount` counts a pushed list by the
  bijection that reverses it.
* `Outermost`, `Inner`, `OrderSoFar`: the outermost call has an end of the configured
  list left, the recipes of known roles are in the result or left to inner
  calls, and so the roles before a recipe of the configured list are done when it
  is added.
* `ParsedWhole` (a list of recognized strings is parsed one by one) with `Bare`
  (the result has bare recipes only) gives the second part of `ParsesBack`. For the
  first part, the items of the configured list come back one by one if none has a
  bracket; if one has, its string is dropped, and the list gets shorter, or its item
  has the name `InBrackets[n]`, which is not `n` (`BracketAssumption`).

### What the proofs found

Each of these was true in the checked instance, or a matter of form, and not in
general; the model was changed where it was wrong:

* The type of `pingIdx` in `Service` did not hold for `NumNodes = 0`, where the
  loop index starts at 1, beyond the number of nodes.
* `Rounds` is inductive only if the names of nodes differ from those the model has for
  other goroutines. `GoroutinesAssumption` says so; `generator.go` 157 makes the
  names from a prefix and a number.
* In `RandomRun` the type of `stage` is now a function from `Nodes` to the stages
  of a run, which the order of the stages rests on.
* `parseRunList` selected with a recursive function and `Reached` was one; both
  now have definitions without recursion, with the same meaning (section 6).

### Only model-checked

Liveness under fairness is outside the prover's reach and stays with TLC:
`EverySlotKeepsRunning`, `SlotsKeepRunning`, `SignalEndsTheProcess`,
`HandoverEnds`, and the `Terminates` or `Finishes` of `GenerateCCRs`, `RunList` and
`GenerateData`. So do the statements of section 11, which are refuted.


## 11. Disagreements found

Checked by a run that TLC ends with a counterexample:

* `scheduler_skip`: with `skip_client_creation` nodes are still replaced
  (`service.go` 187; `config.go` 300-301 says the rate is ignored).
* `service_usr1`: USR1 ends the process (`service.go` 110-114; `README.md` 128-150
  shows the session going on).
* `service_ping`: node 0 is never pinged (`service.go` 135 against 172-174).
* `generate_total`: the second round panics when `NumNodes` exceeds `Threads`, is
  no multiple of it, and the short batch had no rejection (`generator.go` 145-158).
* `ccr_collector`: compliance reports go on after the data collector was found
  missing (`chef_client_run.go` 252-258; `config.go` 173-174).
* `ccr_runlists`: with a Chef Server, a list of `run_lists` is expanded and the node
  then saved with `run_list` (`chef_client_run.go` 206, 222; `config.go` 237).

Met while reading, not checked: `run_list` is also what the ends of the run report
when `run_lists` is set (227, 232); the second list of the sample at `config.go` 239
has `"role[role_name_2] "`, with a space at the end, which is parsed as a recipe of
that name and does not survive `toStringSlice` and `parseRunList` (`ParsesBack` has
the condition); `README.md` 74 starts node names at 1, `start` at
0; after a read of the node without a response the run saves a node without name
(`chef_client_run.go` 119-124; `NodeIsNamed` allows for it); `fqdn` in the
compliance report is always empty because `node.Name` is read before the node is
(65); `total_ccrs_ingested` counts rejected runs of earlier batches as ingested
(`generator.go` 178); a 204, which the data collector answers in `README.md`,
counts as a rejection (`generator.go` 162); the comment at `generator.go` 104
has 40 for 48; `-profile-logs` (`README.md` 162) is declared and not implemented.

The same for `generate`, partly visible in the models: `num_actions` is "ignored if
data_collector_url is not set" (`config.go` 217-218), while `GenerateChefActions`
posts to an empty URL and counts status 999 (`Action`); `max_scans` is a maximum
per day (`root.go` 61), while 7 gives 8 reports in the last day and 721 gives 1440
(`ReportsWithinLimits` has the true bounds); historical data without a data
collector pauses after every batch, because every code is 0 (`CodeOf`), where
the comment at 171 speaks of rejected messages; `download_cookbooks = "first"`
downloads in every run; the sample configuration has the key `sample_format`
where `config.go` 39 reads `format`; a relative `chef_server_url` makes the liveness
generator return an error that nobody looks at (`Liveness`).

## 12. Not modelled

* Message bodies (except node and age of a compliance report), logging, the
  layout and grouping of the profile, file parsing, flags and defaults.
* Random attributes, tags, times and the fields of actions: draws from constant
  tables that are not empty, without state, and no control depends on them. So is
  the merging of drawn and read attributes (section 7).
* Failures whose cause is none of the options listed: what servers answer (URLs of
  cookbook files, names of environments on the server), role and cookbook names that
  no URL can be made of, `chef_server_url` before its path, and JSON files of other
  shapes than those named.
* Time: the values of delays and intervals between runs. `Paced` is about the
  order of sleeps and launches. So `num_nodes = 0` in `start`, where a delay is
  computed from +Inf and the ping loop spins (`service.go` 87, 119), cannot be
  told from normal operation.
* A limit on the goroutines of pings and actions (`service.go` 137): there is none
  in the code, so there is nothing to state.
* `init` and `version`, which print. Vendored libraries are external: their
  behaviour is in the replies.
