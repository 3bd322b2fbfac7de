--------------------------- MODULE MCGenerateCCRs ---------------------------
(* Instances of GenerateCCRs for TLC. *)
EXTENDS GenerateCCRs

\* Fewer nodes than threads, as many, a multiple of them, and more with a
\* short last batch; no historical data, two runs in one day or in two, and
\* an interval of more than a day.
Loads ==
  {cfg \in [NumNodes : 0 .. 5, Threads : 1 .. 3, DaysBack : 0 .. 2,
            Interval : {720, 1440, 1441}, DataCollector : BOOLEAN,
            BrokenClient : {FALSE}] :
     \/ cfg.DaysBack = 0 /\ cfg.Interval = 720
     \/ cfg.DaysBack = 1 /\ cfg.Interval = 720
     \/ cfg.DaysBack = 2 /\ cfg.Interval \in {1440, 1441}}

\* Values that end the process before the first run, or just do not.
Edges ==
  [NumNodes : 0 .. 1, Threads : -1 .. 1, DaysBack : 0 .. 1, Interval : {0, 1440},
   DataCollector : {TRUE}, BrokenClient : BOOLEAN]

MCConfigs == Loads \cup Edges
==============================================================================
