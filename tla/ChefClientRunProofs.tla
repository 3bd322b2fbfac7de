-------------------------- MODULE ChefClientRunProofs --------------------------
(***************************************************************************)
(* Theorems about ChefClientRun, for every configuration and any number of *)
(* runs of the node, with whatever replies.                                *)
(***************************************************************************)
EXTENDS ChefClientRun, TLAPS

-----------------------------------------------------------------------------
(* The inductive invariant *)

StageNames == {Stages[k] : k \in 1 .. Len(Stages)}

\* Before the node is prepared, and before the cookbooks are downloaded.
Early == {"idle", "createClient", "getNode", "postNode", "dead"}
BeforePreparation == Early \cup {"prepare"}
BeforeDownload ==
  {"createClient", "getNode", "postNode", "prepare", "expand", "environment",
   "reportStart", "runStart", "solve", "download"}

\* A node that is not run has not been downloaded for.
NoDownloadYet ==
  /\ pc # "idle" => ranBefore
  /\ ~ranBefore \/ (firstRun /\ pc \in BeforeDownload) => downloads = 0

\* What the Chef Server has of the node: nothing when the node is created,
\* else a node of that name.
ServerNode ==
  /\ server # Absent => server.Name = "self"
  /\ pc = "postNode" => server = Absent

\* What the run has of the node: the environment of the configuration, and the
\* attributes it has read.
RunNode ==
  /\ pc \notin BeforePreparation => node.Environment = "config"
  /\ pc \notin Early /\ ChefServer /\ unread = "no" /\ server # Absent
       /\ server.Attributes = "old" => node.Attributes = "old"
  /\ pc \notin Early /\ unread = "silent" => node.Name = ""

\* Until it is read the node is the zero one, and no read has failed.
Unread ==
  /\ pc \in {"createClient", "getNode"} => node = EmptyNode
  /\ pc \in {"createClient", "getNode", "postNode"} => unread = "no"

\* The stages of a run up to those that may fail.
UpToGetNode == {"createClient", "getNode"}
UpToEnvironment == UpToGetNode \cup {"postNode", "prepare", "expand", "environment"}
UpToRunStart == UpToEnvironment \cup {"reportStart", "runStart"}
UpToApiGets == UpToRunStart \cup {"solve", "download", "apiGets"}
UpToRunStop == UpToApiGets \cup {"converge", "save", "reportEnd", "runStop"}

\* A run that is under way has got through the stages behind it, and the runs
\* after the first through all of them.
GotThrough ==
  ranBefore /\ pc # "dead" =>
    /\ Starts
    /\ Panics("getNode") => firstRun /\ pc \in UpToGetNode
    /\ Panics("environment") => firstRun /\ pc \in UpToEnvironment
    /\ Panics("runStart") => firstRun /\ pc \in UpToRunStart
    /\ Panics("apiGets") => firstRun /\ pc \in UpToApiGets
    /\ Panics("runStop") => firstRun /\ pc \in UpToRunStop

IInv ==
  /\ TypeOK
  /\ ClientIsReal
  /\ GotThrough
  /\ FirstRunOnly
  /\ NodeIsNamed
  /\ NoDownloadYet
  /\ Unread
  /\ ServerNode
  /\ RunNode

-----------------------------------------------------------------------------
(* The order of the stages *)

\* The stage after the one at a place of the list.
LEMMA AfterIs ==
  ASSUME NEW k \in 1 .. 18
  PROVE  After(Stages[k]) = Stages[(k % 18) + 1]
<1>1. Len(Stages) = 18
  BY DEF Stages
<1>2. \A a, b \in 1 .. 18 : Stages[a] = Stages[b] => a = b
  BY DEF Stages
<1>3. (CHOOSE x \in 1 .. 18 : Stages[x] = Stages[k]) = k
  <2>1. PICK y : y = CHOOSE x \in 1 .. 18 : Stages[x] = Stages[k]
    OBVIOUS
  <2>2. y \in 1 .. 18 /\ Stages[y] = Stages[k]
    BY <2>1, Zenon
  <2> QED
    BY <1>2, <2>1, <2>2
<1> QED
  BY <1>1, <1>3 DEF After

\* The stage after every stage.
LEMMA StageAfter ==
  /\ After("idle") = "createClient" /\ After("createClient") = "getNode"
  /\ After("getNode") = "postNode" /\ After("postNode") = "prepare"
  /\ After("prepare") = "expand" /\ After("expand") = "environment"
  /\ After("environment") = "reportStart" /\ After("reportStart") = "runStart"
  /\ After("runStart") = "solve" /\ After("solve") = "download"
  /\ After("download") = "apiGets" /\ After("apiGets") = "converge"
  /\ After("converge") = "save" /\ After("save") = "reportEnd"
  /\ After("reportEnd") = "runStop" /\ After("runStop") = "action"
  /\ After("action") = "compliance" /\ After("compliance") = "idle"
<1>1. After(Stages[18]) = Stages[1]
  <2>1. After(Stages[18]) = Stages[(18 % 18) + 1]
    BY AfterIs
  <2>2. (18 % 18) + 1 = 1
    OBVIOUS
  <2> QED
    BY <2>1, <2>2
<1>2. ASSUME NEW k \in 1 .. 17
      PROVE  After(Stages[k]) = Stages[k + 1]
  <2>1. k % 18 = k
    OBVIOUS
  <2> QED
    BY <2>1, AfterIs
<1>3. /\ Stages[1] = "idle" /\ Stages[2] = "createClient" /\ Stages[3] = "getNode"
      /\ Stages[4] = "postNode" /\ Stages[5] = "prepare" /\ Stages[6] = "expand"
      /\ Stages[7] = "environment" /\ Stages[8] = "reportStart" /\ Stages[9] = "runStart"
      /\ Stages[10] = "solve" /\ Stages[11] = "download" /\ Stages[12] = "apiGets"
      /\ Stages[13] = "converge" /\ Stages[14] = "save" /\ Stages[15] = "reportEnd"
      /\ Stages[16] = "runStop" /\ Stages[17] = "action" /\ Stages[18] = "compliance"
  BY DEF Stages
<1>4. /\ After(Stages[1]) = Stages[2] /\ After(Stages[2]) = Stages[3]
      /\ After(Stages[3]) = Stages[4] /\ After(Stages[4]) = Stages[5]
      /\ After(Stages[5]) = Stages[6] /\ After(Stages[6]) = Stages[7]
  BY <1>2
<1>5. /\ After(Stages[7]) = Stages[8] /\ After(Stages[8]) = Stages[9]
      /\ After(Stages[9]) = Stages[10] /\ After(Stages[10]) = Stages[11]
      /\ After(Stages[11]) = Stages[12] /\ After(Stages[12]) = Stages[13]
  BY <1>2
<1>6. /\ After(Stages[13]) = Stages[14] /\ After(Stages[14]) = Stages[15]
      /\ After(Stages[15]) = Stages[16] /\ After(Stages[16]) = Stages[17]
      /\ After(Stages[17]) = Stages[18]
  BY <1>2
<1> QED
  BY <1>1, <1>3, <1>4, <1>5, <1>6

\* The stages by name.
LEMMA StageNamesAre ==
  StageNames = {"idle", "createClient", "getNode", "postNode", "prepare", "expand",
    "environment", "reportStart", "runStart", "solve", "download", "apiGets",
    "converge", "save", "reportEnd", "runStop", "action", "compliance"}
BY DEF StageNames, Stages

\* How a run goes on.
LEMMA StageOrder ==
  ASSUME NEW s \in StageNames
  PROVE  /\ After(s) \in StageNames
         /\ After(s) = "createClient" => s = "idle"
         /\ After(s) = "getNode" => s = "createClient"
         /\ After(s) = "postNode" => s = "getNode"
         /\ After(s) \notin Early => s \notin Early \/ s = "postNode"
         /\ After(s) \notin BeforePreparation => s \notin Early
         /\ After(s) \in BeforeDownload => s # "download" /\ s \in BeforeDownload \cup {"idle"}
BY StageNamesAre, StageAfter DEF Early, BeforePreparation, BeforeDownload

-----------------------------------------------------------------------------
(* Configurations, nodes and requests *)

\* A configuration has a Chef Server with credentials, or a data collector.
LEMMA ConfigFields ==
  ASSUME config \in Configs
  PROVE  /\ ChefServer \in BOOLEAN /\ Direct \in BOOLEAN /\ (ChefServer \/ Direct)
         /\ ChefServer => config.mode.Credentials
         /\ ~ChefServer => config.Organization /\ config.ClientKeyReadable
<1>1. PICK raw \in RawConfig : Accepts(raw) /\ config.mode = FromViper(raw)
  BY ConfigsAssumption DEF ConfigType
<1>2. /\ config.mode.RunChefClient = raw.ChefServerURL
      /\ config.mode.DataCollectorURL = raw.DataCollectorURL
  BY <1>1 DEF FromViper
<1>3. config.mode.Credentials = (raw.ClientName /\ raw.ClientKey)
  BY <1>1 DEF FromViper
<1>4. /\ raw.ChefServerURL \in BOOLEAN /\ raw.DataCollectorURL \in BOOLEAN
      /\ raw.ChefServerURL \/ raw.DataCollectorURL
      /\ raw.ChefServerURL => raw.ClientName /\ raw.ClientKey
  BY <1>1 DEF RawConfig, Accepts
<1>5. ChefServer \/ (config.Organization /\ config.ClientKeyReadable)
  BY ConfigsAssumption DEF ChefServer
<1> QED
  BY <1>2, <1>3, <1>4, <1>5, Zenon DEF ChefServer, Direct

\* Without a Chef Server only messages to the data collector are wanted.
LEMMA WantedHasATarget ==
  ASSUME NEW s, Wanted(s)
  PROVE  ChefServer \/ s \in Collector
<1>1. SUFFICES ASSUME s \notin Collector PROVE ChefServer
  OBVIOUS
<1>2. s # "runStop" /\ s # "action" /\ s # "compliance" /\ s # "runStart"
  BY <1>1 DEF Collector
<1>3. s \notin {"runStop", "action"}
  BY <1>2
<1> QED
  BY <1>2, <1>3, Zenon DEF Wanted

\* What the stages ask of the configuration.
LEMMA WantedIs ==
  /\ Wanted("createClient") <=> ChefServer /\ firstRun /\ ~config.SkipClientCreation
  /\ Wanted("download") => /\ config.DownloadCookbooks # "never"
                           /\ config.DownloadCookbooks = "first" => firstRun
  /\ Wanted("save") => ChefServer
  /\ Wanted("getNode") => ChefServer
<1>1. Wanted("createClient") <=> ChefServer /\ firstRun /\ ~config.SkipClientCreation
  BY Zenon DEF Wanted
<1>2. Wanted("download") => \/ config.DownloadCookbooks = "always"
                            \/ config.DownloadCookbooks = "first" /\ firstRun
  BY Zenon, "download" # "createClient", "download" # "reportStart" DEF Wanted
<1>3. Wanted("save") => ChefServer
  BY WantedHasATarget DEF Collector
<1>4. Wanted("getNode") => ChefServer
  BY WantedHasATarget DEF Collector
<1> QED
  BY <1>1, <1>2, <1>3, <1>4

\* The nodes there are.
LEMMA Nodes ==
  /\ EmptyNode \in Node /\ NamedNode \in Node
  /\ [NamedNode EXCEPT !.Environment = "config"] \in Node
  /\ Absent \notin Node /\ EmptyNode # Absent
  /\ EmptyNode.Name = "" /\ NamedNode.Name = "self"
  /\ LET body == [NamedNode EXCEPT !.Environment = "config"]
     IN  body.Name = "self" /\ body.Environment = "config" /\ body.Attributes = "new"
BY DEF EmptyNode, NamedNode, Node, Absent

\* Where a run may fail.
LEMMA FailingStages ==
  ASSUME NEW s, Panics(s)
  PROVE  /\ s \in {"getNode", "environment", "runStart", "apiGets", "runStop"}
         /\ s \in StageNames
BY StageNamesAre DEF Panics

\* What the configuration is flawed by.
LEMMA FlawedIs ==
  Flawed <=> \/ ~Starts
             \/ Panics("getNode") \/ Panics("environment") \/ Panics("runStart")
             \/ Panics("apiGets") \/ Panics("runStop")
<1>1. ASSUME NEW k \in 1 .. Len(Stages), Panics(Stages[k])
      PROVE  \/ Panics("getNode") \/ Panics("environment") \/ Panics("runStart")
             \/ Panics("apiGets") \/ Panics("runStop")
  BY <1>1, FailingStages
<1>2. ASSUME NEW s, Panics(s)
      PROVE  Flawed
  <2>1. s \in StageNames
    BY <1>2, FailingStages
  <2> QED
    BY <1>2, <2>1 DEF Flawed, StageNames
<1>3. ~Starts => Flawed
  BY DEF Flawed
<1> QED
  BY <1>1, <1>2, <1>3, Zenon DEF Flawed

\* None of the failures depends on anything but the configuration.
LEMMA SameFailures ==
  ASSUME config' = config
  PROVE  /\ Starts' = Starts /\ Flawed' = Flawed
         /\ ChefServer' = ChefServer /\ Direct' = Direct
         /\ \A s : Panics(s)' = Panics(s)
<1>1. ChefServer' = ChefServer /\ Direct' = Direct /\ Starts' = Starts
  BY DEF ChefServer, Direct, Starts
<1>2. \A s : Panics(s)' = Panics(s)
  BY <1>1 DEF Panics
<1> QED
  BY <1>1, <1>2 DEF Flawed

-----------------------------------------------------------------------------
(* The initial states and the beginning of a run *)

\* A node that has not been run.
LEMMA InitIInv == Init => IInv
<1> SUFFICES ASSUME Init PROVE IInv
  OBVIOUS
<1>1. /\ config \in Configs /\ pc = "idle" /\ firstRun = FALSE /\ node = EmptyNode
      /\ chosen = "run_list" /\ reportingAvailable = TRUE /\ dataCollectorAvailable = TRUE
      /\ ranBefore = FALSE /\ sent = {} /\ unread = "no" /\ clients = 0 /\ downloads = 0
  BY DEF Init
<1>2. server \in Node \cup {Absent} /\ (server # Absent => server.Name = "self")
  <2>1. PICK there : there = [Name |-> "self", Environment |-> "other",
                              RunList |-> "none", Attributes |-> "old"]
    OBVIOUS
  <2>2. there \in Node /\ there.Name = "self"
    BY <2>1 DEF Node
  <2>3. server = Absent \/ server = there
    BY <2>1 DEF Init
  <2> QED
    BY <2>2, <2>3
<1>3. Stages[1] = "idle" /\ 1 \in 1 .. Len(Stages)
  BY DEF Stages
<1>4. \E k \in 1 .. Len(Stages) : pc = Stages[k]
  BY <1>1, <1>3
<1>5. TypeOK
  <2>1. /\ firstRun \in BOOLEAN /\ reportingAvailable \in BOOLEAN
        /\ dataCollectorAvailable \in BOOLEAN /\ ranBefore \in BOOLEAN
    BY <1>1, Zenon
  <2>2. node \in Node
    BY <1>1, Nodes, Zenon
  <2>3. clients \in 0 .. 2 /\ downloads \in 0 .. 2
    <3>1. 0 \in 0 .. 2
      OBVIOUS
    <3> QED
      BY <1>1, <3>1, Zenon
  <2> QED
    BY <1>1, <1>2, <1>4, <2>1, <2>2, <2>3, Zenon DEF TypeOK
<1>6. ClientIsReal /\ GotThrough /\ FirstRunOnly /\ NodeIsNamed
  BY <1>1 DEF ClientIsReal, GotThrough, FirstRunOnly, NodeIsNamed
<1>7. NoDownloadYet /\ Unread /\ ServerNode /\ RunNode
  BY <1>1, <1>2 DEF NoDownloadYet, Unread, ServerNode, RunNode, Early, BeforePreparation
<1> QED
  BY <1>5, <1>6, <1>7 DEF IInv

\* A run begins, or the process dies; only before the first run is it possible
\* that it dies.
LEMMA BeginIInv ==
  ASSUME IInv, Begin
  PROVE  IInv'
<1>1. /\ pc = "idle" /\ pc' = IF Starts THEN "createClient" ELSE "dead"
      /\ firstRun' = ~ranBefore /\ ranBefore' = TRUE /\ node' = EmptyNode
      /\ chosen' = "run_list" /\ reportingAvailable' = TRUE /\ dataCollectorAvailable' = TRUE
      /\ sent' = {} /\ unread' = "no"
      /\ UNCHANGED <<config, server, clients, downloads>>
  BY StageAfter DEF Begin, StartOf
<1>2. /\ TypeOK /\ ClientIsReal /\ GotThrough /\ FirstRunOnly /\ NoDownloadYet /\ ServerNode
  BY DEF IInv
<1>3. /\ Starts' = Starts /\ Flawed' = Flawed /\ ChefServer' = ChefServer
      /\ \A s : Panics(s)' = Panics(s)
  BY <1>1, SameFailures
<1>4. ASSUME ranBefore
      PROVE  ~Flawed
  BY <1>1, <1>2, <1>4 DEF ClientIsReal
<1>5. ranBefore \in BOOLEAN /\ firstRun' \in BOOLEAN
  BY <1>1, <1>2, Zenon DEF TypeOK
<1>6. TypeOK'
  <2>1. pc' = "dead" \/ \E k \in 1 .. Len(Stages) : pc' = Stages[k]
    <3>1. Stages[2] = "createClient" /\ 2 \in 1 .. Len(Stages)
      BY DEF Stages
    <3> QED
      BY <1>1, <3>1
  <2> QED
    BY <1>1, <1>2, <1>5, <2>1, Nodes DEF TypeOK
<1>7. ClientIsReal' /\ GotThrough'
  <2>1. ~Starts => Flawed
    BY FlawedIs
  <2>2. pc' = "dead" => firstRun' /\ Flawed
    BY <1>1, <1>4, <2>1
  <2>3. ClientIsReal'
    BY <1>1, <1>3, <1>4, <2>2 DEF ClientIsReal
  <2>4. pc' # "dead" => Starts /\ pc' = "createClient"
    BY <1>1
  <2>5. /\ Panics("getNode") => ~ranBefore
        /\ Panics("environment") => ~ranBefore
        /\ Panics("runStart") => ~ranBefore
        /\ Panics("apiGets") => ~ranBefore
        /\ Panics("runStop") => ~ranBefore
    BY <1>4, FlawedIs
  <2>6. GotThrough'
    BY <1>1, <1>3, <2>4, <2>5
       DEF GotThrough, UpToGetNode, UpToEnvironment, UpToRunStart, UpToApiGets, UpToRunStop
  <2> QED
    BY <2>3, <2>6
<1>8. FirstRunOnly'
  <2>1. /\ clients = IF ChefServer /\ ~config.SkipClientCreation /\ ranBefore THEN 1 ELSE 0
        /\ clients <= 1
    BY <1>1, <1>2 DEF FirstRunOnly
  <2>2. CASE ranBefore
    <3>1. clients' = IF ChefServer' /\ ~config'.SkipClientCreation THEN 1 ELSE 0
      BY <1>1, <1>3, <2>1, <2>2
    <3>2. ~firstRun' /\ ranBefore'
      BY <1>1, <2>2
    <3> QED
      BY <1>1, <1>2, <2>1, <3>1, <3>2 DEF FirstRunOnly
  <2>3. CASE ~ranBefore
    <3>1. clients' = 0 /\ firstRun' /\ (pc' # "dead" => pc' = "createClient")
      BY <1>1, <2>1, <2>3
    <3> QED
      BY <1>1, <1>2, <2>1, <3>1 DEF FirstRunOnly
  <2> QED
    BY <2>2, <2>3
<1>9. NodeIsNamed' /\ Unread' /\ RunNode'
  BY <1>1 DEF NodeIsNamed, Unread, RunNode, Early, BeforePreparation
<1>10. NoDownloadYet' /\ ServerNode'
  BY <1>1, <1>2, <1>5 DEF NoDownloadYet, ServerNode
<1> QED
  BY <1>6, <1>7, <1>8, <1>9, <1>10 DEF IInv

-----------------------------------------------------------------------------
(* A stage of a run *)

\* What every stage keeps and how it goes on.
LEMMA StageStep ==
  ASSUME IInv, Step
  PROVE  /\ UNCHANGED <<config, firstRun, ranBefore>>
         /\ pc \in StageNames /\ pc # "idle" /\ pc' \in StageNames /\ ~Panics(pc)
         /\ pc' = After(pc) \/ (pc = "getNode" /\ pc' = "prepare")
         /\ sent' = sent \/ (Wanted(pc) /\ sent' = sent \cup {pc})
         /\ clients' = IF pc = "createClient" /\ Wanted(pc) THEN UpToTwo(clients) ELSE clients
         /\ \/ downloads' = downloads
            \/ pc = "download" /\ Wanted(pc) /\ downloads' = UpToTwo(downloads)
<1>1. pc # "dead" => pc \in StageNames
  BY DEF IInv, TypeOK, StageNames
<1>2. ASSUME pc \in StageNames
      PROVE  After(pc) \in StageNames /\ "prepare" \in StageNames
  BY <1>2, StageOrder, StageNamesAre
<1>3. CASE Skip
  BY <1>1, <1>2, <1>3 DEF Skip, locals, history
<1>4. CASE BlindCall
  BY <1>1, <1>2, <1>4 DEF BlindCall, Ask, Blind, history
<1>5. CASE CreateClient
  BY <1>1, <1>2, <1>5 DEF CreateClient, Ask, locals
<1>6. CASE GetNode
  BY <1>1, <1>2, <1>6, StageAfter DEF GetNode, Ask, locals
<1>7. CASE NoNode
  BY <1>1, <1>2, <1>7 DEF NoNode, locals, history, Panics
<1>8. CASE PostNode
  BY <1>1, <1>2, <1>8 DEF PostNode, Ask, locals, history
<1>9. CASE Prepare
  BY <1>1, <1>2, <1>9 DEF Prepare, locals, history, Panics
<1>10. CASE ReportStart
  BY <1>1, <1>2, <1>10 DEF ReportStart, Ask, history
<1>11. CASE RunStart
  BY <1>1, <1>2, <1>11 DEF RunStart, Ask, history
<1>12. CASE Download
  BY <1>1, <1>2, <1>12 DEF Download, Ask, locals
<1>13. CASE Converge
  BY <1>1, <1>2, <1>13 DEF Converge, locals, history, Panics
<1>14. CASE Save
  BY <1>1, <1>2, <1>14 DEF Save, Ask, locals, history
<1> QED
  BY <1>3, <1>4, <1>5, <1>6, <1>7, <1>8, <1>9, <1>10, <1>11, <1>12, <1>13, <1>14 DEF Step

\* Every request has a client, or goes to the data collector itself.
LEMMA StageClients ==
  ASSUME IInv, Step
  PROVE  ClientIsReal' /\ GotThrough'
<1>1. /\ UNCHANGED <<config, firstRun, ranBefore>>
      /\ pc \in StageNames /\ pc # "idle" /\ pc' \in StageNames /\ ~Panics(pc)
      /\ pc' = After(pc) \/ (pc = "getNode" /\ pc' = "prepare")
      /\ sent' = sent \/ (Wanted(pc) /\ sent' = sent \cup {pc})
  BY StageStep
<1>2. TypeOK /\ ClientIsReal /\ GotThrough /\ NoDownloadYet /\ config \in Configs
  BY DEF IInv, TypeOK
<1>3. pc # "dead" /\ pc' # "dead" /\ ranBefore
  BY <1>1, <1>2, StageNamesAre DEF NoDownloadYet
<1>4. /\ Starts' = Starts /\ Flawed' = Flawed /\ ChefServer' = ChefServer /\ Direct' = Direct
      /\ \A s : Panics(s)' = Panics(s)
  BY <1>1, SameFailures
<1>5. Starts
  BY <1>2, <1>3 DEF GotThrough
<1>6. ASSUME Wanted(pc)
      PROVE  \/ pc \in Collector /\ Direct
             \/ ChefServer /\ config.mode.Credentials /\ config.ClientKeyReadable
  <2>1. CASE ChefServer
    BY <1>2, <1>5, <2>1, ConfigFields DEF Starts
  <2>2. CASE ~ChefServer
    BY <1>2, <1>6, <2>2, ConfigFields, WantedHasATarget
  <2> QED
    BY <2>1, <2>2
<1>7. \A s \in sent' : \/ s \in Collector /\ Direct
                       \/ ChefServer /\ config.mode.Credentials /\ config.ClientKeyReadable
  BY <1>1, <1>2, <1>6 DEF ClientIsReal
<1>8. GotThrough'
  <2>1. /\ Panics("getNode") => firstRun /\ pc' \in UpToGetNode
        /\ Panics("environment") => firstRun /\ pc' \in UpToEnvironment
    BY <1>1, <1>2, <1>3, StageAfter DEF GotThrough, UpToGetNode, UpToEnvironment
  <2>2. Panics("runStart") => firstRun /\ pc' \in UpToRunStart
    BY <1>1, <1>2, <1>3, StageAfter DEF GotThrough, UpToGetNode, UpToEnvironment, UpToRunStart
  <2>3. Panics("apiGets") => firstRun /\ pc' \in UpToApiGets
    BY <1>1, <1>2, <1>3, StageAfter
       DEF GotThrough, UpToGetNode, UpToEnvironment, UpToRunStart, UpToApiGets
  <2>4. Panics("runStop") => firstRun /\ pc' \in UpToRunStop
    BY <1>1, <1>2, <1>3, StageAfter
       DEF GotThrough, UpToGetNode, UpToEnvironment, UpToRunStart, UpToApiGets, UpToRunStop
  <2> QED
    BY <1>1, <1>4, <1>5, <2>1, <2>2, <2>3, <2>4
       DEF GotThrough, UpToGetNode, UpToEnvironment, UpToRunStart, UpToApiGets, UpToRunStop
<1>9. (pc' = "idle" \/ ~firstRun) => ~Flawed
  <2>1. SUFFICES ASSUME pc' = "idle" \/ ~firstRun PROVE ~Flawed
    OBVIOUS
  <2>2. pc' = "idle" => pc = "compliance"
    BY <1>1, StageNamesAre, StageAfter
  <2>3. ~firstRun \/ pc \notin UpToRunStop
    BY <2>1, <2>2
       DEF UpToGetNode, UpToEnvironment, UpToRunStart, UpToApiGets, UpToRunStop
  <2>4. /\ ~Panics("getNode") /\ ~Panics("environment") /\ ~Panics("runStart")
        /\ ~Panics("apiGets") /\ ~Panics("runStop")
    BY <1>2, <1>3, <2>3
       DEF GotThrough, UpToEnvironment, UpToRunStart, UpToApiGets, UpToRunStop
  <2> QED
    BY <1>5, <2>4, FlawedIs
<1>10. ClientIsReal'
  BY <1>1, <1>3, <1>4, <1>5, <1>7, <1>9 DEF ClientIsReal
<1> QED
  BY <1>8, <1>10

\* A run that panics is a first one: those after it get through.
LEMMA PanicIInv ==
  ASSUME IInv, Panic
  PROVE  IInv'
<1>1. /\ Panics(pc) /\ pc' = "dead"
      /\ UNCHANGED <<config, firstRun, chosen, reportingAvailable, dataCollectorAvailable,
                     node, server, sent, ranBefore, unread, clients, downloads>>
  BY DEF Panic, locals, history
<1>2. /\ TypeOK /\ ClientIsReal /\ GotThrough /\ FirstRunOnly /\ NoDownloadYet /\ ServerNode
  BY DEF IInv
<1>3. pc \in {"getNode", "environment", "runStart", "apiGets", "runStop"}
  BY <1>1, FailingStages
<1>4. ranBefore /\ pc # "dead"
  BY <1>2, <1>3 DEF NoDownloadYet
<1>5. firstRun /\ Flawed
  <2>1. firstRun
    BY <1>1, <1>2, <1>3, <1>4 DEF GotThrough
  <2>2. Flawed
    BY <1>1, <1>3, FlawedIs
  <2> QED
    BY <2>1, <2>2
<1>6. /\ Starts' = Starts /\ Flawed' = Flawed /\ ChefServer' = ChefServer /\ Direct' = Direct
  BY <1>1, SameFailures
<1>7. TypeOK'
  BY <1>1, <1>2 DEF TypeOK
<1>8. ClientIsReal' /\ GotThrough'
  BY <1>1, <1>2, <1>5, <1>6 DEF ClientIsReal, GotThrough
<1>9. FirstRunOnly' /\ NoDownloadYet'
  BY <1>1, <1>2, <1>4 DEF FirstRunOnly, NoDownloadYet, BeforeDownload
<1>10. NodeIsNamed' /\ Unread' /\ ServerNode' /\ RunNode'
  BY <1>1, <1>2 DEF NodeIsNamed, Unread, ServerNode, RunNode, Early, BeforePreparation
<1> QED
  BY <1>7, <1>8, <1>9, <1>10 DEF IInv

\* The client is created, and the cookbooks are downloaded, in the first run.
LEMMA StageFirstRun ==
  ASSUME IInv, Step
  PROVE  FirstRunOnly' /\ NoDownloadYet' /\ clients' \in 0 .. 2 /\ downloads' \in 0 .. 2
<1>1. /\ UNCHANGED <<config, firstRun, ranBefore>>
      /\ pc \in StageNames /\ pc # "idle" /\ pc' \in StageNames
      /\ pc' = After(pc) \/ (pc = "getNode" /\ pc' = "prepare")
      /\ clients' = IF pc = "createClient" /\ Wanted(pc) THEN UpToTwo(clients) ELSE clients
      /\ \/ downloads' = downloads
         \/ pc = "download" /\ Wanted(pc) /\ downloads' = UpToTwo(downloads)
  BY StageStep
<1>2. /\ FirstRunOnly /\ NoDownloadYet /\ config \in Configs
      /\ clients \in 0 .. 2 /\ downloads \in 0 .. 2
  BY DEF IInv, TypeOK
<1>3. pc # "dead" /\ pc' # "dead" /\ ranBefore /\ ChefServer' = ChefServer
  BY <1>1, <1>2, StageNamesAre DEF NoDownloadYet, ChefServer
<1>4. pc' # "createClient"
  BY <1>1, StageOrder
<1>5. clients' = IF ChefServer /\ ~config.SkipClientCreation THEN 1 ELSE 0
  <2>1. CASE pc = "createClient"
    <3>1. Wanted(pc) <=> ChefServer /\ firstRun /\ ~config.SkipClientCreation
      BY <2>1, WantedIs
    <3>2. clients = IF ChefServer /\ ~config.SkipClientCreation /\ ~firstRun THEN 1 ELSE 0
      BY <1>2, <1>3, <2>1 DEF FirstRunOnly
    <3> QED
      BY <1>1, <2>1, <3>1, <3>2 DEF UpToTwo
  <2>2. CASE pc # "createClient"
    BY <1>1, <1>2, <1>3, <2>2 DEF FirstRunOnly
  <2> QED
    BY <2>1, <2>2
<1>6. /\ config.DownloadCookbooks = "first" => downloads' <= 1
      /\ config.DownloadCookbooks = "never" => downloads' = 0
      /\ downloads' \in 0 .. 2
  <2>1. CASE downloads' = downloads
    BY <1>2, <2>1 DEF FirstRunOnly
  <2>2. CASE pc = "download" /\ Wanted(pc) /\ downloads' = UpToTwo(downloads)
    <3>1. /\ config.DownloadCookbooks # "never"
          /\ config.DownloadCookbooks = "first" => firstRun
      BY <2>2, WantedIs
    <3>2. config.DownloadCookbooks = "first" => downloads = 0
      BY <1>2, <2>2, <3>1 DEF NoDownloadYet, BeforeDownload
    <3> QED
      BY <1>2, <2>2, <3>1, <3>2 DEF UpToTwo
  <2> QED
    BY <1>1, <2>1, <2>2
<1>7. FirstRunOnly'
  <2>1. clients' <= 1
    BY <1>5
  <2> QED
    BY <1>1, <1>3, <1>4, <1>5, <1>6, <2>1 DEF FirstRunOnly
<1>8. NoDownloadYet'
  <2>1. ASSUME firstRun', pc' \in BeforeDownload
        PROVE  downloads' = 0
    <3>1. pc # "download" /\ pc \in BeforeDownload
      BY <1>1, <2>1, StageOrder DEF BeforeDownload
    <3> QED
      BY <1>1, <1>2, <2>1, <3>1 DEF NoDownloadYet
  <2> QED
    BY <1>1, <1>3, <2>1 DEF NoDownloadYet
<1> QED
  BY <1>2, <1>5, <1>6, <1>7, <1>8

\* Requests that do not concern the node.
LEMMA OtherStages ==
  ASSUME IInv, UNCHANGED <<config, node, server, unread>>, pc \in StageNames,
         pc' = After(pc), pc \notin {"getNode", "postNode", "prepare"}
  PROVE  NodeIsNamed' /\ ServerNode' /\ RunNode'
<1>1. NodeIsNamed /\ ServerNode /\ RunNode /\ ChefServer' = ChefServer
  BY DEF IInv, ChefServer
<1>2. /\ pc' \notin Early => pc \notin Early
      /\ pc' \notin BeforePreparation => pc \notin BeforePreparation
      /\ pc' # "postNode"
  BY StageOrder DEF BeforePreparation, Early
<1>3. NodeIsNamed'
  BY <1>1, <1>2 DEF NodeIsNamed, Early
<1> QED
  BY <1>1, <1>2, <1>3 DEF ServerNode, RunNode

\* The node after the read: the one on the server, or a named one, and without
\* an answer the zero node.
LEMMA GetNodeNodes ==
  ASSUME IInv, GetNode
  PROVE  NodeIsNamed' /\ ServerNode' /\ RunNode' /\ node' \in Node /\ server' = server
<1>1. /\ pc = "getNode" /\ UNCHANGED <<config, server>>
  BY DEF GetNode, Ask
<1>2. PICK reply \in Replies :
        /\ reply = "ok" => server # Absent
        /\ reply = "404" => server = Absent
        /\ node' = NodeAfter(reply)
        /\ unread' = IF reply \in {"error", "silent"} THEN reply ELSE "no"
        /\ pc' = IF reply = "404" THEN "postNode" ELSE "prepare"
  BY DEF GetNode
<1>3. /\ TypeOK /\ NodeIsNamed /\ ServerNode /\ RunNode
      /\ server \in Node \cup {Absent} /\ node \in Node
  BY DEF IInv, TypeOK
<1>4. node = EmptyNode
  BY <1>1 DEF IInv, Unread
<1>5. CASE reply = "ok"
  <2>1. node' = server /\ unread' = "no" /\ pc' = "prepare" /\ server # Absent
    BY <1>2, <1>5, Zenon DEF NodeAfter
  <2> QED
    BY <1>1, <1>3, <2>1 DEF NodeIsNamed, ServerNode, RunNode, BeforePreparation, Early
<1>6. CASE reply = "error"
  <2>1. node' = NamedNode /\ unread' = "error" /\ pc' = "prepare"
    BY <1>2, <1>6 DEF NodeAfter
  <2> QED
    BY <1>1, <1>3, <2>1, Nodes DEF NodeIsNamed, ServerNode, RunNode, BeforePreparation, Early
<1>7. CASE reply = "404"
  <2>1. node' = node /\ unread' = "no" /\ pc' = "postNode" /\ server = Absent
    BY <1>2, <1>7 DEF NodeAfter
  <2> QED
    BY <1>1, <1>3, <2>1 DEF NodeIsNamed, ServerNode, RunNode, BeforePreparation, Early
<1>8. CASE reply = "silent"
  <2>1. node' = node /\ unread' = "silent" /\ pc' = "prepare"
    BY <1>2, <1>8 DEF NodeAfter
  <2> QED
    BY <1>1, <1>3, <1>4, <2>1, Nodes DEF NodeIsNamed, ServerNode, RunNode, BeforePreparation, Early
<1> QED
  BY <1>2, <1>5, <1>6, <1>7, <1>8 DEF Replies

\* In data collector mode the node is made up, whatever a server may have.
LEMMA NoNodeNodes ==
  ASSUME IInv, NoNode
  PROVE  NodeIsNamed' /\ ServerNode' /\ RunNode' /\ node' \in Node
<1>1. /\ pc = "getNode" /\ pc' = "prepare" /\ ~ChefServer /\ node' = NamedNode
      /\ UNCHANGED <<config, server, unread>>
  BY DEF NoNode, history
<1>2. ServerNode /\ unread = "no" /\ ~ChefServer'
  BY <1>1 DEF IInv, Unread, ChefServer
<1> QED
  BY <1>1, <1>2, Nodes DEF NodeIsNamed, ServerNode, RunNode, BeforePreparation, Early

\* A node that is not there is created, or is not.
LEMMA PostNodeNodes ==
  ASSUME IInv, PostNode
  PROVE  /\ NodeIsNamed' /\ ServerNode' /\ RunNode'
         /\ node' \in Node /\ server' \in Node \cup {Absent}
<1> DEFINE body == [NamedNode EXCEPT !.Environment = "config"]
<1>1. /\ pc = "postNode" /\ pc' = "prepare" /\ UNCHANGED <<config, unread>>
  BY StageAfter DEF PostNode, Ask, history
<1>2. server = Absent
  BY <1>1 DEF IInv, ServerNode
<1>3. PICK reply \in Replies \ {"404"} :
        /\ node' = IF reply = "ok" THEN body ELSE NamedNode
        /\ server' \in CASE reply = "ok" -> {body}
                         [] reply = "error" -> {server}
                         [] OTHER -> {server, body}
  BY DEF PostNode
<1>4. server' = server \/ server' = body
  BY <1>3, Zenon
<1>5. node' = body \/ node' = NamedNode
  BY <1>3
<1>6. body \in Node /\ body.Name = "self" /\ body.Attributes = "new" /\ Absent \notin Node
  BY Nodes
<1>7. node' \in Node /\ node'.Name = "self"
  BY <1>5, <1>6, Nodes
<1>8. unread # "silent"
  BY <1>1 DEF IInv, Unread
<1> HIDE DEF body
<1>9. server' = Absent \/ (server' # Absent /\ server'.Name = "self" /\ server'.Attributes = "new")
  BY <1>2, <1>4, <1>6
<1>10. NodeIsNamed' /\ ServerNode'
  BY <1>1, <1>7, <1>9 DEF NodeIsNamed, ServerNode
<1>11. RunNode'
  BY <1>1, <1>8, <1>9 DEF RunNode, BeforePreparation
<1> QED
  BY <1>2, <1>4, <1>6, <1>7, <1>10, <1>11

\* Prepare and Converge change neither the name nor the attributes.
LEMMA PrepareNodes ==
  ASSUME IInv, Prepare \/ Converge
  PROVE  NodeIsNamed' /\ ServerNode' /\ RunNode' /\ node' \in Node /\ server' = server
<1>1. /\ UNCHANGED <<config, server, unread>> /\ pc \in {"prepare", "converge"}
      /\ pc' \in {"expand", "save"}
      /\ \/ node' = [node EXCEPT !.Environment = "config"]
         \/ pc = "converge" /\ node' = [node EXCEPT !.RunList = "run_list"]
  BY StageAfter DEF Prepare, Converge, history
<1>2. /\ NodeIsNamed /\ ServerNode /\ RunNode /\ node \in Node /\ ChefServer' = ChefServer
  BY <1>1 DEF IInv, TypeOK, ChefServer
<1>3. /\ node' \in Node /\ node'.Name = node.Name /\ node'.Attributes = node.Attributes
      /\ node'.Environment = "config"
  <2>1. CASE node' = [node EXCEPT !.Environment = "config"]
    BY <1>2, <2>1 DEF Node
  <2>2. CASE pc = "converge" /\ node' = [node EXCEPT !.RunList = "run_list"]
    BY <1>2, <2>2 DEF Node, RunNode, BeforePreparation, Early
  <2> QED
    BY <1>1, <2>1, <2>2
<1> QED
  BY <1>1, <1>2, <1>3 DEF NodeIsNamed, ServerNode, RunNode, BeforePreparation, Early

\* What Save puts on the server is the run's node, and bears its name.
LEMMA SaveNodes ==
  ASSUME IInv, Save
  PROVE  /\ NodeIsNamed' /\ ServerNode' /\ RunNode' /\ server' \in Node \cup {Absent}
         /\ server' = server \/ (server' = node /\ node.Name = "self" /\ ChefServer)
<1>1. /\ pc = "save" /\ pc' = "reportEnd" /\ UNCHANGED <<config, node, unread>> /\ ChefServer
  BY StageAfter, WantedIs DEF Save, Ask, history
<1>2. PICK reply \in Replies :
        /\ reply = "ok" => server # Absent /\ node.Name = "self"
        /\ server' \in CASE reply = "ok" -> {node}
                         [] reply = "silent" /\ server # Absent /\ node.Name = "self"
                              -> {server, node}
                         [] OTHER -> {server}
  BY DEF Save
<1>3. server' = server \/ (server' = node /\ node.Name = "self")
  BY <1>2, Zenon
<1>4. /\ NodeIsNamed /\ ServerNode /\ RunNode /\ node \in Node /\ ChefServer' = ChefServer
      /\ server \in Node \cup {Absent}
  BY <1>1 DEF IInv, TypeOK, ChefServer
<1>5. NodeIsNamed' /\ ServerNode' /\ RunNode'
  BY <1>1, <1>3, <1>4 DEF NodeIsNamed, ServerNode, RunNode, BeforePreparation, Early
<1> QED
  BY <1>1, <1>3, <1>4, <1>5

\* Nothing but the read touches the node before it is read.
LEMMA StageUnread ==
  ASSUME IInv, Step
  PROVE  Unread'
<1>1. /\ pc \in StageNames /\ pc # "idle"
      /\ pc' = After(pc) \/ (pc = "getNode" /\ pc' = "prepare")
  BY StageStep
<1>2. Unread
  BY DEF IInv
<1>3. CASE pc = "createClient"
  <2>1. Skip \/ CreateClient
    BY <1>3 DEF Step, BlindCall, Blind, GetNode, NoNode, PostNode, Prepare, ReportStart,
                RunStart, Download, Converge, Save, Ask
  <2>2. UNCHANGED <<node, unread>>
    BY <2>1 DEF Skip, CreateClient, history
  <2> QED
    BY <1>2, <1>3, <2>2, <1>1, StageAfter DEF Unread
<1>4. CASE pc = "getNode"
  <2>1. pc' = "postNode" => unread' = "no"
    <3>1. GetNode \/ NoNode
      BY <1>4 DEF Step, Skip, BlindCall, Blind, CreateClient, PostNode, Prepare, ReportStart,
                  RunStart, Download, Converge, Save, Ask
    <3>2. CASE GetNode
      BY <3>2 DEF GetNode
    <3>3. CASE NoNode
      BY <3>3 DEF NoNode
    <3> QED
      BY <3>1, <3>2, <3>3
  <2>2. pc' \in {"postNode", "prepare"}
    BY <1>1, <1>4, StageAfter
  <2> QED
    BY <2>1, <2>2 DEF Unread
<1>5. CASE pc \notin {"createClient", "getNode"}
  BY <1>1, <1>5, StageOrder DEF Unread
<1> QED
  BY <1>3, <1>4, <1>5

\* The node and its image on the server, for every stage.
LEMMA StageNodes ==
  ASSUME IInv, Step
  PROVE  /\ NodeIsNamed' /\ ServerNode' /\ RunNode'
         /\ node' \in Node /\ server' \in Node \cup {Absent}
<1>1. pc \in StageNames /\ node \in Node /\ server \in Node \cup {Absent} /\ UNCHANGED config
  BY StageStep DEF IInv, TypeOK
<1>2. CASE GetNode
  BY <1>1, <1>2, GetNodeNodes
<1>3. CASE NoNode
  BY <1>1, <1>3, NoNodeNodes DEF NoNode
<1>4. CASE PostNode
  BY <1>4, PostNodeNodes
<1>5. CASE Prepare \/ Converge
  BY <1>1, <1>5, PrepareNodes
<1>6. CASE Save
  <2>1. node' = node
    BY <1>6 DEF Save
  <2> QED
    BY <1>1, <1>6, <2>1, SaveNodes
<1>7. CASE Skip \/ BlindCall \/ CreateClient \/ ReportStart \/ RunStart \/ Download
  <2>1. /\ UNCHANGED <<node, server, unread>> /\ pc' = After(pc)
        /\ pc \notin {"getNode", "postNode", "prepare"}
    BY <1>7 DEF Skip, BlindCall, Blind, CreateClient, ReportStart, RunStart, Download, Ask,
                history
  <2> QED
    BY <1>1, <2>1, OtherStages
<1> QED
  BY <1>2, <1>3, <1>4, <1>5, <1>6, <1>7 DEF Step

\* The other variables keep their types.
LEMMA StageTypes ==
  ASSUME IInv, Step
  PROVE  TypeOK'
<1>1. /\ UNCHANGED <<config, firstRun, ranBefore>>
      /\ pc \in StageNames /\ pc' \in StageNames
      /\ sent' = sent \/ (Wanted(pc) /\ sent' = sent \cup {pc})
  BY StageStep
<1>2. TypeOK
  BY DEF IInv
<1>3. \A s \in sent' : \E k \in 1 .. Len(Stages) : s = Stages[k]
  BY <1>1, <1>2 DEF TypeOK, StageNames
<1>4. chosen' \in {"run_list", "run_lists"}
  <2>1. chosen' = chosen \/ chosen' = "run_lists"
    BY DEF Step, Skip, BlindCall, CreateClient, GetNode, NoNode, PostNode, Prepare,
           ReportStart, RunStart, Download, Converge, Save, locals
  <2> QED
    BY <1>2, <2>1 DEF TypeOK
<1>5. reportingAvailable' \in BOOLEAN /\ dataCollectorAvailable' \in BOOLEAN
  <2>1. reportingAvailable \in BOOLEAN /\ dataCollectorAvailable \in BOOLEAN
        /\ Direct \in BOOLEAN
    BY <1>2, ConfigFields DEF TypeOK
  <2>2. CASE ReportStart
    <3>1. PICK reply \in Replies : reportingAvailable' = (reply # "404")
      BY <2>2 DEF ReportStart
    <3>2. dataCollectorAvailable' = dataCollectorAvailable
      BY <2>2 DEF ReportStart
    <3> QED
      BY <2>1, <3>1, <3>2
  <2>3. CASE RunStart
    <3>1. PICK reply \in Replies : dataCollectorAvailable' = (Direct \/ reply # "404")
      BY <2>3 DEF RunStart
    <3>2. reportingAvailable' = reportingAvailable
      BY <2>3 DEF RunStart
    <3> QED
      BY <2>1, <3>1, <3>2
  <2>4. CASE ~ReportStart /\ ~RunStart
    <3>1. UNCHANGED <<reportingAvailable, dataCollectorAvailable>>
      BY <2>4 DEF Step, Skip, BlindCall, CreateClient, GetNode, NoNode, PostNode, Prepare,
                  Download, Converge, Save, locals
    <3> QED
      BY <2>1, <3>1
  <2> QED
    BY <2>2, <2>3, <2>4
<1>6. unread' \in {"no", "error", "silent"}
  <2>1. CASE GetNode
    BY <2>1 DEF GetNode
  <2>2. CASE ~GetNode
    <3>1. unread' = unread
      BY <2>2 DEF Step, Skip, BlindCall, CreateClient, NoNode, PostNode, Prepare,
                  ReportStart, RunStart, Download, Converge, Save, history
    <3> QED
      BY <1>2, <3>1 DEF TypeOK
  <2> QED
    BY <2>1, <2>2
<1>7. clients' \in 0 .. 2 /\ downloads' \in 0 .. 2
  BY StageFirstRun
<1>8. node' \in Node /\ server' \in Node \cup {Absent}
  BY StageNodes
<1>9. /\ config' \in Configs /\ firstRun' \in BOOLEAN /\ ranBefore' \in BOOLEAN
      /\ \E k \in 1 .. Len(Stages) : pc' = Stages[k]
  BY <1>1, <1>2 DEF TypeOK, StageNames
<1> QED
  BY <1>3, <1>4, <1>5, <1>6, <1>7, <1>8, <1>9, Zenon DEF TypeOK

-----------------------------------------------------------------------------
(* The theorems *)

\* Every step keeps the invariant.
LEMMA StepIInv == IInv /\ [Next]_vars => IInv'
<1> SUFFICES ASSUME IInv, [Next]_vars PROVE IInv'
  OBVIOUS
<1>1. CASE Begin
  BY <1>1, BeginIInv
<1>2. CASE Step
  BY <1>2, StageTypes, StageClients, StageFirstRun, StageUnread, StageNodes DEF IInv
<1>3. CASE Panic
  BY <1>3, PanicIInv
<1>4. CASE UNCHANGED vars
  <2>1. UNCHANGED <<config, pc, firstRun, chosen, reportingAvailable, dataCollectorAvailable,
                    node, server, sent, ranBefore, unread, clients, downloads>>
    BY <1>4 DEF vars, locals, history
  <2>2. /\ Starts' = Starts /\ Flawed' = Flawed /\ ChefServer' = ChefServer /\ Direct' = Direct
        /\ \A s : Panics(s)' = Panics(s)
    BY <2>1, SameFailures
  <2>3. TypeOK'
    BY <2>1 DEF IInv, TypeOK
  <2>4. ClientIsReal' /\ GotThrough' /\ FirstRunOnly' /\ NoDownloadYet'
    BY <2>1, <2>2 DEF IInv, ClientIsReal, GotThrough, FirstRunOnly, NoDownloadYet
  <2>5. NodeIsNamed' /\ Unread' /\ ServerNode' /\ RunNode'
    BY <2>1, <2>2 DEF IInv, NodeIsNamed, Unread, ServerNode, RunNode
  <2> QED
    BY <2>3, <2>4, <2>5 DEF IInv
<1> QED
  BY <1>1, <1>2, <1>3, <1>4 DEF Next, Died

\* The inductive invariant holds in every state of the runs of a node.
THEOREM RunInvariance == Spec => []IInv
<1>1. IInv /\ [Next]_vars => IInv'
  BY StepIInv
<1> QED
  BY InitIInv, <1>1, PTL DEF Spec

\* Type correctness of the runs of a node.
THEOREM RunTypeCorrect == Spec => []TypeOK
<1>1. IInv => TypeOK
  BY DEF IInv
<1> QED
  BY <1>1, RunInvariance, PTL

\* No request is signed with the zero client, in whichever configuration that
\* is accepted; of the failures modelled, a flawed configuration meets one in the
\* first run, and none is left for the runs after it.
THEOREM EveryClientIsReal == Spec => []ClientIsReal
<1>1. IInv => ClientIsReal
  BY DEF IInv
<1> QED
  BY <1>1, RunInvariance, PTL

\* A node's client is created once, and cookbooks that belong to the first run
\* are not downloaded again, however often the node is run.
THEOREM FirstRunHappensOnce == Spec => []FirstRunOnly
<1>1. IInv => FirstRunOnly
  BY DEF IInv
<1> QED
  BY <1>1, RunInvariance, PTL

\* A prepared node bears its name unless its read got no response.
THEOREM PreparedNodeIsNamed == Spec => []NodeIsNamed
<1>1. IInv => NodeIsNamed
  BY DEF IInv
<1> QED
  BY <1>1, RunInvariance, PTL

\* A step that changes what the Chef Server has of the node creates the node
\* or saves the run's.
LEMMA ServerChanges ==
  ASSUME IInv, [Next]_vars, server' # server
  PROVE  /\ server'.Environment = "config"
         /\ server # Absent =>
              /\ server' = node /\ node.Name = "self" /\ ChefServer /\ pc = "save"
<1>1. PostNode \/ Save
  BY DEF Next, Begin, StartOf, Died, Panic, Step, Skip, BlindCall, CreateClient, GetNode, NoNode,
         Prepare, ReportStart, RunStart, Download, Converge, vars
<1>2. CASE PostNode
  <2>1. server = Absent
    BY <1>2 DEF IInv, ServerNode, PostNode, Ask
  <2>2. PICK reply \in Replies \ {"404"} :
          server' \in CASE reply = "ok" -> {[NamedNode EXCEPT !.Environment = "config"]}
                        [] reply = "error" -> {server}
                        [] OTHER -> {server, [NamedNode EXCEPT !.Environment = "config"]}
    BY <1>2 DEF PostNode
  <2>3. server' = [NamedNode EXCEPT !.Environment = "config"]
    BY <2>2, Zenon
  <2> QED
    BY <2>1, <2>3, Nodes
<1>3. CASE Save
  <2>1. server' = node /\ node.Name = "self" /\ ChefServer
    BY <1>3, SaveNodes
  <2>2. pc = "save"
    BY <1>3 DEF Save, Ask
  <2> QED
    BY <2>1, <2>2 DEF IInv, RunNode, BeforePreparation, Early
<1> QED
  BY <1>1, <1>2, <1>3

\* The saved environment is the configured one.
THEOREM SavesConfiguredEnvironment == Spec => SavesEnvironment
<1>1. IInv /\ [Next]_vars
        => [server' # server /\ server' # Absent => server'.Environment = "config"]_vars
  BY ServerChanges
<1> QED
  BY <1>1, RunInvariance, PTL DEF Spec, SavesEnvironment

\* Normal attributes are not lost by any number of runs whose reads succeed or
\* get no response at all.
THEOREM AttributesAreKept == Spec => AttributesSurvive
<1>1. IInv /\ [Next]_vars
        => [server # Absent /\ server.Attributes = "old" /\ server' # server
              => server'.Attributes = "old" \/ unread = "error"]_vars
  <2>1. SUFFICES ASSUME IInv, [Next]_vars, server # Absent, server.Attributes = "old",
                        server' # server, unread # "error"
                 PROVE  server'.Attributes = "old"
    OBVIOUS
  <2>2. server' = node /\ node.Name = "self" /\ ChefServer /\ pc = "save"
    BY <2>1, ServerChanges
  <2>3. unread \in {"no", "silent"}
    BY <2>1 DEF IInv, TypeOK
  <2> QED
    BY <2>1, <2>2, <2>3 DEF IInv, RunNode, Early
<1> QED
  BY <1>1, RunInvariance, PTL DEF Spec, AttributesSurvive
================================================================================
