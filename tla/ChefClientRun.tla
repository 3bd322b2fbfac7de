---------------------------- MODULE ChefClientRun ----------------------------
(***************************************************************************)
(* ChefClientRun (lib/chef_client_run.go): the chef-client runs of one     *)
(* node, one after the other.  Scheduler shows that the runs of a node do  *)
(* not overlap and that FirstRun marks the first; the model relies on both.*)
(*                                                                         *)
(* A run is a sequence of stages.  A stage that is wanted makes its request*)
(* and looks, or does not look, at the reply.  The servers are external:   *)
(* they may fail any request, and a request without an answer may have     *)
(* been carried out all the same.                                          *)
(***************************************************************************)
EXTENDS Config, Naturals, Sequences

CONSTANT
  Configs                 \* the configurations that are considered

VARIABLES
  config,
  pc,                     \* the stage that is next, "idle" between runs, or "dead"
  firstRun,               \* the parameter
  node,                   \* the chef.Node that is built and saved
  chosen,                 \* rl: the run list that is expanded
  reportingAvailable,
  dataCollectorAvailable,
  server,                 \* the node object on the Chef Server
  \* History, for the properties only:
  ranBefore,              \* the node has been run
  sent,                   \* the stages of this run that made their request
  unread,                 \* reading the node failed: "no", "error", "silent"
  clients,                \* how often creation of the client was asked for, up to 2
  downloads               \* how many runs downloaded cookbooks, up to 2

locals == <<firstRun, chosen, reportingAvailable, dataCollectorAvailable>>
history == <<ranBefore, unread, clients, downloads>>
vars == <<config, pc, locals, node, server, sent, history>>

\* What an option may hold that nothing checks: a URL or a name no URL can be
\* made of, or a JSON file with a value of another shape (null for
\* ohai_json_file, a run_list that is no array for converge_status_json_file).
Options ==
  {"ohai_json_file", "node_name_prefix", "chef_environment", "data_collector_url",
   "api_get_requests", "converge_status_json_file"}

\* Organization: chef_server_url is a URL whose path names one.
\* ClientKeyReadable: there is a private key in the file client_key.
ConfigType ==
  [mode : {FromViper(raw) : raw \in {x \in RawConfig : Accepts(x)}},
   Organization : BOOLEAN, ClientKeyReadable : BOOLEAN, Malformed : SUBSET Options,
   SkipClientCreation : BOOLEAN, EnableReporting : BOOLEAN, Compliance : BOOLEAN,
   DownloadCookbooks : {"never", "first", "always"}, RunLists : BOOLEAN,
   NodeSaveFrequency : {"never", "sometimes", "always"}]

\* The made-up URL of data collector mode names an organization, and no key is
\* read there.
ASSUME ConfigsAssumption ==
  \A cfg \in Configs :
    /\ cfg \in ConfigType
    /\ cfg.mode.RunChefClient \/ (cfg.Organization /\ cfg.ClientKeyReadable)

ChefServer == config.mode.RunChefClient
Direct == config.mode.DataCollectorURL

\* What a request ends in: res and err of apiRequest.  "error" is any status
\* but 2xx and 404, or a body that cannot be decoded; "silent" has res = nil.
Replies == {"ok", "404", "error", "silent"}

\* A node object: whether it bears the node's name, its environment, the run
\* list, and whether the normal attributes are those found on the server.
Node == [Name : {"", "self"}, Environment : {"", "config", "other"},
         RunList : {"none", "run_list", "run_lists"}, Attributes : {"old", "new"}]
EmptyNode == [Name |-> "", Environment |-> "", RunList |-> "none",
              Attributes |-> "new"]
Absent == [EmptyNode EXCEPT !.RunList = "absent"]
NamedNode == [EmptyNode EXCEPT !.Name = "self"]

Stages ==
  <<"idle", "createClient", "getNode", "postNode", "prepare", "expand",
    "environment", "reportStart", "runStart", "solve", "download", "apiGets",
    "converge", "save", "reportEnd", "runStop", "action", "compliance">>
After(s) ==
  LET at == CHOOSE k \in 1 .. Len(Stages) : Stages[k] = s
  IN  Stages[(at % Len(Stages)) + 1]

Collector == {"runStart", "runStop", "action", "compliance"}

\* Stages whose replies make no difference to the run.
Blind == {"expand", "environment", "solve", "apiGets", "reportEnd",
          "runStop", "action", "compliance"}

\* Does the run make the request(s) of stage s?
Wanted(s) ==
  CASE s = "createClient" -> ChefServer /\ firstRun /\ ~config.SkipClientCreation
    [] s = "reportStart" -> ChefServer /\ config.EnableReporting
    [] s = "download" -> /\ ChefServer
                         /\ \/ config.DownloadCookbooks = "always"
                            \/ config.DownloadCookbooks = "first" /\ firstRun
    [] s = "save" -> ChefServer /\ config.NodeSaveFrequency # "never"
    [] s = "reportEnd" -> ChefServer /\ config.EnableReporting /\ reportingAvailable
    [] s \in {"runStop", "action"} -> Direct \/ dataCollectorAvailable
    [] s = "compliance" -> config.Compliance
    [] s = "runStart" -> TRUE
    [] OTHER -> ChefServer

UpToTwo(count) == IF count < 2 THEN count + 1 ELSE count

Init ==
  /\ config \in Configs
  /\ pc = "idle"
  /\ firstRun = FALSE
  /\ node = EmptyNode
  /\ chosen = "run_list"
  /\ reportingAvailable = TRUE /\ dataCollectorAvailable = TRUE
  /\ server \in {Absent, [Name |-> "self", Environment |-> "other",
                          RunList |-> "none", Attributes |-> "old"]}
  /\ ranBefore = FALSE /\ sent = {} /\ unread = "no" /\ clients = 0 /\ downloads = 0

-----------------------------------------------------------------------------

\* A run dies, and the process with it, before its first request: when it takes
\* the organization out of the URL, in getAPIClient when there is no key to make
\* a client of, or when it writes into the map of a JSON file that holds null.
Starts ==
  /\ config.Organization
  /\ ChefServer => config.ClientKeyReadable
  /\ "ohai_json_file" \notin config.Malformed

\* It dies later on at the first request whose URL cannot be made, for the error
\* of NewRequest, or of url.Parse, is dropped and the nil result used, and at
\* the type assertions on the converge JSON, wanted or not.
Panics(s) ==
  \/ s = "getNode" /\ ChefServer /\ "node_name_prefix" \in config.Malformed
  \/ s = "environment" /\ ChefServer /\ "chef_environment" \in config.Malformed
  \/ s = "runStart" /\ Direct /\ "data_collector_url" \in config.Malformed
  \/ s = "apiGets" /\ ChefServer /\ "api_get_requests" \in config.Malformed
  \/ s = "runStop" /\ "converge_status_json_file" \in config.Malformed

StartOf(isFirst) ==
  /\ pc = "idle"
  /\ pc' = IF Starts THEN After(pc) ELSE "dead"
  /\ firstRun' = isFirst
  /\ ranBefore' = TRUE
  /\ node' = EmptyNode
  /\ chosen' = "run_list"
  /\ reportingAvailable' = TRUE /\ dataCollectorAvailable' = TRUE
  /\ sent' = {} /\ unread' = "no"
  /\ UNCHANGED <<config, server, clients, downloads>>

\* Slip: FirstRun is never cleared.
Begin__AlwaysFirst == StartOf(TRUE)

\* The next run of the node.
Begin == StartOf(~ranBefore)

Panic ==
  /\ Panics(pc)
  /\ pc' = "dead"
  /\ UNCHANGED <<config, locals, node, server, sent, history>>

\* A stage that makes no request.  Saving is also left to chance.
Skip ==
  /\ pc \notin {"idle", "getNode", "postNode", "prepare", "converge", "dead"}
  /\ Wanted(pc) => pc = "save" /\ config.NodeSaveFrequency = "sometimes"
  /\ ~Panics(pc)
  /\ pc' = After(pc)
  /\ UNCHANGED <<config, locals, node, server, sent, history>>

\* The request of the stage is made.
Ask(s) ==
  /\ pc = s
  /\ Wanted(s)
  /\ ~Panics(s)
  /\ sent' = sent \cup {s}
  /\ UNCHANGED config

\* Requests whose replies are ignored.  expand also picks the run list.
BlindCall ==
  /\ pc \in Blind
  /\ Ask(pc)
  /\ pc' = After(pc)
  /\ IF pc = "expand" /\ config.RunLists THEN chosen' = "run_lists" ELSE UNCHANGED chosen
  /\ UNCHANGED <<firstRun, reportingAvailable, dataCollectorAvailable, node, server,
                 history>>

CreateClient ==
  /\ Ask("createClient")
  /\ pc' = After(pc)
  /\ clients' = UpToTwo(clients)
  /\ UNCHANGED <<locals, node, server, ranBefore, unread, downloads>>

\* Slip: after an error the zero node goes on.
NodeAfter__KeepZero(reply) == IF reply = "ok" THEN server ELSE node

\* Slip: the body of a 404 is decoded like a node.
NodeAfter__Decode404(reply) == IF reply \in {"ok", "404"} THEN server ELSE NamedNode

\* The node after GET nodes/<name>.  Without any response the zero node stays.
NodeAfter(reply) ==
  CASE reply = "ok" -> server [] reply = "error" -> NamedNode [] OTHER -> node

\* A 404 leads to the creation of the node.
GetNode ==
  /\ Ask("getNode")
  /\ \E reply \in Replies :
       /\ reply = "ok" => server # Absent
       /\ reply = "404" => server = Absent
       /\ node' = NodeAfter(reply)
       /\ unread' = IF reply \in {"error", "silent"} THEN reply ELSE "no"
       /\ pc' = IF reply = "404" THEN "postNode" ELSE "prepare"
  /\ UNCHANGED <<locals, server, ranBefore, clients, downloads>>

\* In data collector mode the node is made up.
NoNode ==
  /\ pc = "getNode"
  /\ ~ChefServer
  /\ node' = NamedNode
  /\ pc' = "prepare"
  /\ UNCHANGED <<config, locals, server, sent, history>>

\* POST nodes.
PostNode ==
  /\ Ask("postNode")
  /\ \E reply \in Replies \ {"404"} :
       LET body == [NamedNode EXCEPT !.Environment = "config"] IN
       /\ node' = IF reply = "ok" THEN body ELSE NamedNode
       /\ server' \in CASE reply = "ok" -> {body}
                        [] reply = "error" -> {server}
                        [] OTHER -> {server, body}
  /\ pc' = After(pc)
  /\ UNCHANGED <<locals, history>>

\* Slip: the environment is only set for nodes that have none.
Prepare__KeepEnvironment ==
  /\ pc = "prepare"
  /\ node' = IF node.Environment = "" THEN [node EXCEPT !.Environment = "config"] ELSE node
  /\ pc' = After(pc)
  /\ UNCHANGED <<config, locals, server, sent, history>>

\* Environment and automatic attributes are set whatever the server said.
Prepare ==
  /\ pc = "prepare"
  /\ node' = [node EXCEPT !.Environment = "config"]
  /\ pc' = After(pc)
  /\ UNCHANGED <<config, locals, server, sent, history>>

ReportStart ==
  /\ Ask("reportStart")
  /\ \E reply \in Replies : reportingAvailable' = (reply # "404")
  /\ pc' = After(pc)
  /\ UNCHANGED <<firstRun, chosen, dataCollectorAvailable, node, server, history>>

\* The first message to the data collector.  Only through the Chef Server
\* does a 404 switch data collection off.
RunStart ==
  /\ Ask("runStart")
  /\ \E reply \in Replies : dataCollectorAvailable' = (Direct \/ reply # "404")
  /\ pc' = After(pc)
  /\ UNCHANGED <<firstRun, chosen, reportingAvailable, node, server, history>>

Download ==
  /\ Ask("download")
  /\ downloads' = UpToTwo(downloads)
  /\ pc' = After(pc)
  /\ UNCHANGED <<locals, node, server, ranBefore, unread, clients>>

\* Slip: the normal attributes are replaced when they have no tags.
Converge__NewAttributes ==
  /\ pc = "converge"
  /\ node' = [node EXCEPT !.RunList = "run_list", !.Attributes = "new"]
  /\ pc' = After(pc)
  /\ UNCHANGED <<config, locals, server, sent, history>>

\* The simulated converge, after which the node gets its run list and tags.
Converge ==
  /\ pc = "converge"
  /\ node' = [node EXCEPT !.RunList = "run_list"]
  /\ pc' = After(pc)
  /\ UNCHANGED <<config, locals, server, sent, history>>

\* PUT nodes/<name>.  The server takes it for a node it has, of that name.
Save ==
  /\ Ask("save")
  /\ \E reply \in Replies :
       /\ reply = "404" => server = Absent
       /\ reply = "ok" => server # Absent /\ node.Name = "self"
       /\ server' \in CASE reply = "ok" -> {node}
                        [] reply = "silent" /\ server # Absent /\ node.Name = "self"
                             -> {server, node}
                        [] OTHER -> {server}
  /\ pc' = After(pc)
  /\ UNCHANGED <<locals, node, history>>

Step ==
  \/ Skip \/ BlindCall \/ CreateClient \/ GetNode \/ NoNode \/ PostNode
  \/ Prepare \/ ReportStart \/ RunStart \/ Download \/ Converge \/ Save

Died == pc = "dead" /\ UNCHANGED vars

Next == Begin \/ Step \/ Panic \/ Died

Spec == Init /\ [][Next]_vars

-----------------------------------------------------------------------------
(* Properties *)

TypeOK ==
  /\ config \in Configs
  /\ pc = "dead" \/ \E k \in 1 .. Len(Stages) : pc = Stages[k]
  /\ firstRun \in BOOLEAN
  /\ node \in Node
  /\ chosen \in {"run_list", "run_lists"}
  /\ reportingAvailable \in BOOLEAN /\ dataCollectorAvailable \in BOOLEAN
  /\ server \in Node \cup {Absent}
  /\ ranBefore \in BOOLEAN
  /\ \A s \in sent : \E k \in 1 .. Len(Stages) : s = Stages[k]
  /\ unread \in {"no", "error", "silent"}
  /\ clients \in 0 .. 2 /\ downloads \in 0 .. 2

\* The configuration cannot be run with: one of the failures modelled awaits.
Flawed == ~Starts \/ \E k \in 1 .. Len(Stages) : Panics(Stages[k])

\* Every request to the Chef Server is signed with a client that getAPIClient
\* made from a name and a key: nodeClient is never used as the zero value.
\* The mode of the data collector decides that far from the validation of the
\* configuration it depends on.  Of the failures modelled (Starts and Panics;
\* what servers answer and the names in run lists are taken as well formed),
\* those of Starts come before the first request, all of them end the first
\* run, and a node that got through one run has nothing to fear from its next.
ClientIsReal ==
  /\ \A s \in sent :
       \/ s \in Collector /\ Direct
       \/ ChefServer /\ config.mode.Credentials /\ config.ClientKeyReadable
  /\ ~Starts => sent = {}
  /\ pc = "dead" => firstRun /\ Flawed
  /\ ranBefore /\ (pc = "idle" \/ ~firstRun) => ~Flawed

\* What belongs to the first run happens in one run of a node's life, whatever
\* becomes of the requests: its client is asked for once (and never when
\* creation is to be skipped), and with download_cookbooks = "first" only one
\* run downloads.
FirstRunOnly ==
  /\ clients <= 1
  /\ pc # "dead" =>
       clients = IF /\ ChefServer /\ ~config.SkipClientCreation /\ ranBefore
                    /\ ~(firstRun /\ pc = "createClient") THEN 1 ELSE 0
  /\ config.DownloadCookbooks = "first" => downloads <= 1
  /\ config.DownloadCookbooks = "never" => downloads = 0

\* From its preparation on, the node bears its name; only a read that got no
\* response at all leaves it without one.
NodeIsNamed ==
  pc \notin {"idle", "createClient", "getNode", "postNode", "dead"} =>
    (node.Name = "self" \/ unread = "silent")

\* Whatever a run saves is in the configured environment, also when the node
\* was found on the server in another one.
SavesEnvironment ==
  [][server' # server /\ server' # Absent => server'.Environment = "config"]_vars

\* Normal attributes found on the server survive the runs, unless the read of
\* the node failed in that very run: then the save writes over them.
AttributesSurvive ==
  [][server # Absent /\ server.Attributes = "old" /\ server' # server
       => server'.Attributes = "old" \/ unread = "error"]_vars

\* The sample configuration: if the data collector proxy is missing, "chef-load
\* will detect this and disable data collection".  The compliance report is
\* sent without looking at dataCollectorAvailable.
DetectsMissingCollector ==
  [][~dataCollectorAvailable => (sent' \ sent) \cap Collector = {}]_vars

\* The sample configuration: if run_lists is provided, "run_list is ignored".
\* The node is saved with run_list after one of run_lists was expanded.
RunListsReplaceRunList ==
  [][chosen = "run_lists" /\ server' # server => server'.RunList # "run_list"]_vars
=============================================================================
