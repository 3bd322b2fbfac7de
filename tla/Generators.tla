------------------------------ MODULE Generators ------------------------------
(***************************************************************************)
(* What the generators of `chef-load generate' share (lib/generator.go,    *)
(* GenerateData): the configuration, the process, and the unbuffered       *)
(* channel `requests' with the goroutine that receives from it and counts  *)
(* in the map numRequests.  A sender is a goroutine; it makes a request,   *)
(* gets an answer or an error, and then blocks in its send until the       *)
(* aggregator has received.  Receiving and adding to the map are two steps *)
(* of the aggregator, and only the first one is seen by the sender.        *)
(***************************************************************************)
EXTENDS Integers, Config

CONSTANT Configs  \* the configurations a behaviour may start with

\* What an option may hold that nothing checks: a URL, or a name, that no URL
\* can be made of, or a JSON file with null.  sample_report is the sample of one
\* of the platforms in compliance_sample_reports_dir.
Options == {"data_collector_url", "node_name_prefix", "ohai_json_file", "sample_report"}

\* mode is what configFromViper made of the URLs.  ClientKeyReadable: there
\* is a private key in the file client_key.  ChefServer: the URL names an
\* organization, has no organization, or is no absolute URL.  Platforms is
\* the number of matrix.samples.platforms; the next four are matrix.simulation.
ConfigType ==
  [mode : {FromViper(raw) : raw \in {x \in RawConfig : Accepts(x)}},
   ClientKeyReadable : BOOLEAN,
   ChefServer : {"org", "noOrg", "relative"},
   Malformed : SUBSET Options,
   LivenessAgent : BOOLEAN, EnableReporting : BOOLEAN, Downloads : BOOLEAN,
   NumNodes : Nat, NumActions : Nat, DaysBack : Nat, Interval : Nat, Threads : Int,
   Platforms : Nat, Nodes : Nat, Days : Nat, MaxScans : Nat, TotalMaxScans : Nat]

\* Negative numbers but those of threads are left out.  Without a Chef Server of its own a
\* configuration gets a URL with an organization.
ASSUME ConfigsAssumption ==
  \A cfg \in Configs :
    /\ cfg \in ConfigType
    /\ ~cfg.mode.RunChefClient => cfg.ChefServer = "org"

VARIABLES
  config,
  process,  \* "running", "exited" or why the process died
  handing,  \* the goroutines blocked in a send on `requests'
  holding,  \* the sender whose request is received and not yet added, if any
  counted,  \* the sum of the map numRequests
  \* History, for the properties only:
  asked     \* how many requests were made

channelVars == <<handing, holding, counted, asked>>
sharedVars == <<config, process, channelVars>>

Nobody == "nobody"
Alive == process = "running"
Direct == config.mode.DataCollectorURL

\* Why a process may die: in GenerateCCRs, a division by interval, a nil pointer
\* in getAPIClient, a division or a slice by threads, an index of that slice; in
\* the runs, a request signed with the zero client, or one whose URL cannot be
\* made; in all generators, the nil URL of the data collector's client; the map
\* of a JSON file with null; in the other generators, the organization of the
\* URL, a draw from no platforms, a division by or to zero; the map numRequests.
Deaths == {"ccrInterval", "apiClient", "threads", "slice", "zeroClient", "request",
           "collectorURL", "nullMap", "organization", "platforms", "interval", "mapRace"}

SharedInit ==
  /\ config \in Configs
  /\ process = "running"
  /\ handing = {} /\ holding = Nobody
  /\ counted = 0 /\ asked = 0

\* Goroutine s can take a step.
Free(s) == Alive /\ s \notin handing

\* s has made a request and goes on when the aggregator has received it.
HandOver(s) ==
  /\ handing' = handing \cup {s}
  /\ asked' = asked + 1
  /\ UNCHANGED <<config, process, holding, counted>>

Die(why) ==
  /\ process' = why
  /\ UNCHANGED <<config, channelVars>>

\* A message to the data collector, if there is a data_collector_url.  The error
\* of url.Parse is dropped, and the nil URL used.
MalformedURL == Direct /\ "data_collector_url" \in config.Malformed
Update(s) == IF MalformedURL THEN Die("collectorURL") ELSE HandOver(s)

Receive(s) ==
  /\ Alive
  /\ holding = Nobody
  /\ s \in handing
  /\ handing' = handing \ {s}
  /\ holding' = s
  /\ UNCHANGED <<config, process, counted, asked>>

\* addRequest
Add ==
  /\ Alive
  /\ holding # Nobody
  /\ holding' = Nobody
  /\ counted' = counted + 1
  /\ UNCHANGED <<config, handing, asked>>
==============================================================================
