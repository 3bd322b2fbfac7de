------------------------------ MODULE RandomRun ------------------------------
(***************************************************************************)
(* randomChefClientRun (lib/generator.go): one goroutine per node and run, *)
(* each going through the stages of a chef-client run with a node that is  *)
(* drawn at random.  GenerateCCRs starts the goroutines in batches; here a *)
(* batch is all nodes.  The expansion of the run list makes no request,    *)
(* because the lists that are drawn hold recipes only.                     *)
(***************************************************************************)
EXTENDS Generators, Sequences

CONSTANTS
  NodeNames,    \* the names a configuration takes the first NumNodes of
  Environments  \* the table of environments

ASSUME RandomRunAssumption ==
  /\ NodeNames \in Seq(STRING)
  /\ \A cfg \in Configs : cfg.NumNodes <= Len(NodeNames)
  /\ Environments # {}

VARIABLES
  stage,       \* per node, the stage its goroutine is in, or "ended"
  env,         \* node.Environment
  reportingAvailable,
  server,      \* the environment of the node on the Chef Server, or None
  \* History, for the properties only:
  unread       \* the run could not read a node that may be there

runVars == <<stage, env, reportingAvailable, server, unread>>

None == "none"
Nodes == {NodeNames[k] : k \in 1 .. config.NumNodes}
ChefServer == config.mode.RunChefClient
Replies == {"ok", "404", "error", "silent"}

Stages ==
  <<"ended", "createClient", "getNode", "postNode", "environment", "reportStart",
    "runStart", "solve", "download", "save", "reportEnd", "runStop", "action">>
After(s) ==
  LET k == CHOOSE x \in 1 .. Len(Stages) : Stages[x] = s
  IN  Stages[(k % Len(Stages)) + 1]

\* The messages to the data collector, which go through the Chef Server when
\* there is no data_collector_url.  Nobody ever clears dataCollectorAvailable.
Messages == {"runStart", "runStop", "action"}

Wanted(n, s) ==
  CASE s \in Messages -> TRUE
    [] s = "reportStart" -> ChefServer /\ config.EnableReporting
    [] s = "reportEnd" -> ChefServer /\ config.EnableReporting /\ reportingAvailable[n]
    [] s = "download" -> ChefServer /\ config.Downloads
    [] OTHER -> ChefServer

RunsInit ==
  /\ stage = [n \in Nodes |-> "ended"]
  /\ env = [n \in Nodes |-> None]
  /\ reportingAvailable = [n \in Nodes |-> TRUE]
  /\ server = [n \in Nodes |-> None]
  /\ unread = [n \in Nodes |-> FALSE]

Ended(n) == stage[n] = "ended" /\ n \notin handing

\* The runs of a round start, each with a node of its own draw.  Without a Chef
\* Server the environment decides nothing, and is not drawn here.
StartRuns ==
  /\ stage' = [n \in Nodes |-> After("ended")]
  /\ IF ChefServer THEN env' \in [Nodes -> Environments] ELSE UNCHANGED env
  /\ reportingAvailable' = [n \in Nodes |-> TRUE]
  /\ unread' = [n \in Nodes |-> FALSE]
  /\ UNCHANGED server

To(n, s) == stage' = [stage EXCEPT ![n] = s]

\* Why a run dies at the beginning of a stage: the map of its automatic
\* attributes is nil, or a request cannot be made.
Failures(s) ==
  {why \in {"nullMap", "request", "collectorURL"} :
     \/ why = "nullMap" /\ s = "createClient" /\ "ohai_json_file" \in config.Malformed
     \/ why = "request" /\ s = "getNode" /\ ChefServer /\ "node_name_prefix" \in config.Malformed
     \/ why = "collectorURL" /\ s = "runStart" /\ MalformedURL}

Stumble(n) ==
  /\ Free(n)
  /\ \E why \in Failures(stage[n]) : Die(why)
  /\ UNCHANGED runVars

\* Without a Chef Server the stages between the messages are passed at once.
Following(s) ==
  CASE ~ChefServer /\ s = "createClient" -> "runStart"
    [] ~ChefServer /\ s = "solve" -> "runStop"
    [] OTHER -> After(s)

\* A stage without a request.  A download may have no file.
Skip(n) ==
  /\ Free(n)
  /\ stage[n] # "ended"
  /\ Wanted(n, stage[n]) => stage[n] = "download"
  /\ Failures(stage[n]) = {}
  /\ To(n, Following(stage[n]))
  /\ UNCHANGED <<sharedVars, env, reportingAvailable, server, unread>>

\* The client that signs the request is the one of getAPIClient.
Ask(n, s) ==
  /\ Free(n)
  /\ stage[n] = s
  /\ Wanted(n, s)
  /\ Failures(s) = {}
  /\ IF ChefServer \/ (s \in Messages /\ Direct) THEN HandOver(n) ELSE Die("zeroClient")

\* Stages whose replies are ignored; of many files one is downloaded.
BlindCall(n) ==
  /\ stage[n] \in {"createClient", "environment", "runStart", "solve", "download",
                   "reportEnd", "runStop", "action"}
  /\ Ask(n, stage[n])
  /\ To(n, After(stage[n]))
  /\ UNCHANGED <<env, reportingAvailable, server, unread>>

\* Slip: what the server has of the node is not looked at.
EnvironmentAfter__Drawn(n, reply) == env[n]

\* A node that is read is decoded over the one that was drawn, and its
\* environment replaces the drawn one.  (Its attributes do not: they are decoded
\* into the maps that were drawn, whose other keys stay and are saved.)
EnvironmentAfter(n, reply) == IF reply = "ok" THEN server[n] ELSE env[n]

GetNode(n) ==
  /\ Ask(n, "getNode")
  /\ \E reply \in Replies :
       /\ reply = "ok" => server[n] # None
       /\ reply = "404" => server[n] = None
       /\ env' = [env EXCEPT ![n] = EnvironmentAfter(n, reply)]
       /\ unread' = [unread EXCEPT ![n] = reply \in {"error", "silent"}]
       /\ To(n, IF reply = "404" THEN "postNode" ELSE "environment")
  /\ UNCHANGED <<reportingAvailable, server>>

\* A request to write env[n] over a node that is there (or not yet there);
\* without an answer it may have been carried out.
Write(n, possible) ==
  \E reply \in Replies :
    /\ reply = "ok" => possible
    /\ server' \in CASE reply = "ok" -> {[server EXCEPT ![n] = env[n]]}
                     [] reply = "silent" /\ possible -> {server, [server EXCEPT ![n] = env[n]]}
                     [] OTHER -> {server}

PostNode(n) ==
  /\ Ask(n, "postNode")
  /\ Write(n, server[n] = None)
  /\ To(n, After("postNode"))
  /\ UNCHANGED <<env, reportingAvailable, unread>>

ReportStart(n) ==
  /\ Ask(n, "reportStart")
  /\ \E reply \in Replies :
       reportingAvailable' = [reportingAvailable EXCEPT ![n] = reply # "404"]
  /\ To(n, After("reportStart"))
  /\ UNCHANGED <<env, server, unread>>

Save(n) ==
  /\ Ask(n, "save")
  /\ Write(n, server[n] # None)
  /\ To(n, After("save"))
  /\ UNCHANGED <<env, reportingAvailable, unread>>

RunStep(n) ==
  Stumble(n) \/ Skip(n) \/ BlindCall(n) \/ GetNode(n) \/ PostNode(n) \/ ReportStart(n) \/ Save(n)

-----------------------------------------------------------------------------
(* Properties *)

RunsTypeOK ==
  /\ stage \in [Nodes -> {Stages[k] : k \in 1 .. Len(Stages)}]
  /\ env \in [Nodes -> Environments \cup {None}]
  /\ reportingAvailable \in [Nodes -> BOOLEAN]
  /\ server \in [Nodes -> Environments \cup {None}]
  /\ unread \in [Nodes -> BOOLEAN]

\* Every run draws an environment of its own, but the one of the node that the
\* first run creates stays: a later run saves the node in the environment it has
\* read.  Only a run whose read failed replaces it by its own draw.
FirstDrawStays ==
  [][\A n \in DOMAIN server :
       server[n] # None /\ server'[n] # server[n] => unread[n]]_<<sharedVars, runVars>>
==============================================================================
