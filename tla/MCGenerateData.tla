--------------------------- MODULE MCGenerateData ---------------------------
(* Instances of GenerateData for TLC.  A configuration is about one concern, *)
(* so that the concerns add up instead of multiplying.                       *)
EXTENDS GenerateData

MCNodeNames == <<"n1", "n2", "n3">>
MCEnvironments == {"e1", "e2"}

Mode(chef, direct) ==
  FromViper([ChefServerURL |-> chef, DataCollectorURL |-> direct,
             ClientName |-> chef, ClientKey |-> chef])

\* Nothing to do.
Idle ==
  [mode |-> Mode(FALSE, TRUE), ClientKeyReadable |-> TRUE, ChefServer |-> "org",
   LivenessAgent |-> FALSE, EnableReporting |-> FALSE, Downloads |-> FALSE,
   Malformed |-> {},
   NumNodes |-> 0, NumActions |-> 0, DaysBack |-> 0, Interval |-> 720, Threads |-> 3,
   Platforms |-> 1, Nodes |-> 0, Days |-> 1, MaxScans |-> 2, TotalMaxScans |-> 2]

\* One node on a Chef Server, twice, with all options or none, and one action.
OnServer ==
  {[Idle EXCEPT !.mode = Mode(TRUE, options), !.NumNodes = 1, !.DaysBack = 1,
                !.EnableReporting = options, !.Downloads = options, !.NumActions = 1] :
     options \in BOOLEAN}

\* With a data collector only: all generators at once, and two nodes at once.
Together ==
  {[Idle EXCEPT !.NumNodes = 1, !.LivenessAgent = TRUE, !.NumActions = 1, !.Nodes = 1],
   [Idle EXCEPT !.NumNodes = 2]}

\* The compliance generator by itself: all bands, with and without a limit.
Compliant ==
  {[Idle EXCEPT !.Nodes = nodes, !.Days = days, !.MaxScans = max, !.TotalMaxScans = total] :
     nodes \in {1, 10}, days \in {0, 1, 2}, max \in {0, 1, 7, 1441},
     total \in {0, 5, 40}}
  \cup {[Idle EXCEPT !.Nodes = 9, !.MaxScans = max] : max \in {0, 7, 1441}}
  \cup {[Idle EXCEPT !.Nodes = 20, !.Days = 2, !.MaxScans = 7, !.TotalMaxScans = 40]}
  \cup {[Idle EXCEPT !.Nodes = 10, !.MaxScans = 721, !.TotalMaxScans = 1]}

\* The ways to die, and the ways not to.
Edges ==
  {[Idle EXCEPT !.mode = Mode(TRUE, TRUE), !.ClientKeyReadable = readable,
                !.ChefServer = url, !.LivenessAgent = TRUE, !.NumNodes = nodes] :
     readable \in BOOLEAN, url \in {"org", "noOrg", "relative"}, nodes \in {0, 1}}
  \cup {[Idle EXCEPT !.mode = Mode(TRUE, FALSE), !.Platforms = 0, !.Nodes = nodes] :
          nodes \in {0, 10}}
  \cup {[Idle EXCEPT !.mode = Mode(TRUE, FALSE), !.Nodes = 10]}

\* The edges of GenerateCCRs: divisions, the slice, the first of several reasons,
\* and a short last batch (of one node) before a second round.
CCREdges ==
  {[Idle EXCEPT !.NumNodes = 1, !.Threads = threads, !.DaysBack = back, !.Interval = minutes] :
     threads \in {-1, 0}, back \in {0, 1}, minutes \in {0, 720}}
  \cup {[Idle EXCEPT !.mode = Mode(TRUE, FALSE), !.ClientKeyReadable = FALSE, !.NumNodes = 1,
                     !.Threads = 0, !.DaysBack = 1, !.Interval = minutes] :
          minutes \in {0, 720}}
  \cup {[Idle EXCEPT !.NumNodes = 3, !.Threads = 2, !.DaysBack = 1]}

\* What nothing checks before it is used.
Unchecked ==
  {[Idle EXCEPT !.mode = mode, !.NumNodes = 1, !.Malformed = {option}] :
     mode \in {Mode(TRUE, FALSE), Mode(FALSE, TRUE)}, option \in Options}
  \cup {[Idle EXCEPT !.mode = mode, !.Nodes = 1, !.NumActions = number, !.Malformed = {option}] :
          mode \in {Mode(TRUE, FALSE), Mode(FALSE, TRUE)}, number \in {0, 1}, option \in Options}
  \cup {[Idle EXCEPT !.NumNodes = 1, !.LivenessAgent = TRUE, !.Malformed = {"data_collector_url"}]}

MCConfigs == OnServer \cup Together \cup Compliant \cup Edges \cup CCREdges \cup Unchecked
==============================================================================
