-------------------------- MODULE ComplianceReports --------------------------
(***************************************************************************)
(* The compliance generator (lib/compliance_generator.go:                  *)
(* GenerateComplianceData).  It makes up Simulation.Nodes nodes and then,  *)
(* node by node, posts the reports of the last Days days from the oldest   *)
(* to the youngest, until total_max_scans is reached.                      *)
(***************************************************************************)
EXTENDS Generators

VARIABLES
  at,         \* where the generator is
  nodeIndex,  \* the node, from 0
  totalScans, \* scans of the nodes before, as the loops count them
  scanIndex,  \* scans left for this node
  \* History, for the properties only:
  ofNode,     \* reports made for this node
  lastDay,    \* those of them that are less than a day old
  earlier     \* reports posted for the nodes before

reportHistory == <<ofNode, lastDay, earlier>>
reportVars == <<at, nodeIndex, totalScans, scanIndex, reportHistory>>

Me == "compliance"
Day == 24 * 60

ReportsInit ==
  /\ at = "start"
  /\ nodeIndex = 0 /\ totalScans = 0 /\ scanIndex = 0
  /\ ofNode = 0 /\ lastDay = 0 /\ earlier = 0

\* The interval of the most frequent nodes; 0 stands for a division by zero.
Often == IF config.MaxScans = 0 THEN 0 ELSE Day \div config.MaxScans

\* Slip: the index counts from 0.
intervalMinutes__FromZero(index) ==
  LET share == 10 * (index - 1) IN
  CASE share <= config.Nodes -> Often
    [] config.Nodes < share /\ share <= 4 * config.Nodes -> Day
    [] 4 * config.Nodes < share /\ share <= 8 * config.Nodes -> 7 * Day
    [] OTHER -> 30 * Day

\* intervalMinutes(nodesCount, index, maxScansPerDay): the share of the nodes up
\* to this one decides.  The code compares float32 quotients with .1, .4 and .8;
\* rounding keeps the order of exact quotients for less than 2^20 nodes.
intervalMinutes(index) ==
  LET share == 10 * index IN
  CASE share <= config.Nodes -> Often
    [] config.Nodes < share /\ share <= 4 * config.Nodes -> Day
    [] 4 * config.Nodes < share /\ share <= 8 * config.Nodes -> 7 * Day
    [] OTHER -> 30 * Day

interval == intervalMinutes(nodeIndex + 1)
maxScansNode == (config.Days * Day) \div interval + 1

\* generateNodes draws a platform for every node.
GenerateNodes ==
  /\ Free(Me)
  /\ at = "start"
  /\ IF config.Nodes > 0 /\ config.Platforms = 0
       THEN Die("platforms") /\ UNCHANGED at
       ELSE at' = "node" /\ UNCHANGED sharedVars
  /\ UNCHANGED <<nodeIndex, totalScans, scanIndex, reportHistory>>

MoreNodes == nodeIndex < config.Nodes /\ totalScans < config.TotalMaxScans

\* The next node: its interval and its number of scans.
StartNode ==
  /\ Free(Me)
  /\ at = "node"
  /\ MoreNodes
  /\ IF interval = 0
       THEN Die("interval") /\ UNCHANGED <<at, scanIndex, reportHistory>>
       ELSE /\ at' = "scan"
            /\ scanIndex' = maxScansNode
            /\ ofNode' = 0 /\ lastDay' = 0
            /\ earlier' = earlier + ofNode
            /\ UNCHANGED sharedVars
  /\ UNCHANGED <<nodeIndex, totalScans>>

\* The body of a report: of the fields that are written over the sample, the
\* ones of the node, by its index, and the end time, as the age in minutes.
\* The sample belongs to the node and a post is over before the next report,
\* so that no report in transit is written over.
dataCollectorComplianceReport(index) ==
  [node |-> nodeIndex, age |-> interval * index]

\* The sample of a node's platform may be the one with null: its first report
\* writes into a nil map, whether or not it is to be posted.
NullSample ==
  /\ Free(Me)
  /\ at = "scan"
  /\ scanIndex = maxScansNode
  /\ "sample_report" \in config.Malformed
  /\ Die("nullMap")
  /\ UNCHANGED reportVars

\* One report.  Without data_collector_url it is not posted.
Scan ==
  /\ Free(Me)
  /\ at = "scan"
  /\ scanIndex > 0 /\ totalScans < config.TotalMaxScans
  /\ scanIndex' = scanIndex - 1
  /\ IF Direct
       THEN /\ Update(Me)
            /\ ofNode' = ofNode + 1
            /\ lastDay' = IF dataCollectorComplianceReport(scanIndex').age < Day
                            THEN lastDay + 1 ELSE lastDay
       ELSE UNCHANGED <<sharedVars, ofNode, lastDay>>
  /\ UNCHANGED <<at, nodeIndex, totalScans, earlier>>

\* Slip: only scans that are left count towards the limit.
EndNode__CountLeft ==
  /\ Free(Me)
  /\ at = "scan"
  /\ ~(scanIndex > 0 /\ totalScans < config.TotalMaxScans)
  /\ totalScans' = totalScans + scanIndex
  /\ nodeIndex' = nodeIndex + 1
  /\ at' = "node"
  /\ UNCHANGED <<sharedVars, scanIndex, reportHistory>>

\* The limit takes notice of the scans of a node when they are done.
EndNode ==
  /\ Free(Me)
  /\ at = "scan"
  /\ ~(scanIndex > 0 /\ totalScans < config.TotalMaxScans)
  /\ totalScans' = totalScans + maxScansNode
  /\ nodeIndex' = nodeIndex + 1
  /\ at' = "node"
  /\ UNCHANGED <<sharedVars, scanIndex, reportHistory>>

ReportsReturn ==
  /\ Free(Me)
  /\ at = "node"
  /\ ~MoreNodes
  /\ at' = "returned"
  /\ UNCHANGED <<sharedVars, nodeIndex, totalScans, scanIndex, reportHistory>>

ReportsStep == GenerateNodes \/ StartNode \/ NullSample \/ Scan \/ EndNode \/ ReportsReturn

-----------------------------------------------------------------------------
(* Properties *)

ReportsTypeOK ==
  /\ at \in {"start", "node", "scan", "returned"}
  /\ nodeIndex \in 0 .. config.Nodes
  /\ totalScans \in Nat /\ scanIndex \in Nat
  /\ ofNode \in Nat /\ lastDay \in 0 .. ofNode /\ earlier \in Nat

\* total_max_scans is overrun by less than the scans of one node: a node is
\* only begun below the limit.  A node that is done has a report of this
\* very moment.  The most frequent tenth of the nodes gets max_scans reports
\* in the last day or more, because the interval is rounded to minutes and
\* the youngest report is an extra one, but never twice as many or more.
ReportsWithinLimits ==
  /\ ofNode > 0 => earlier < config.TotalMaxScans
  /\ at = "node" /\ ofNode > 0 => lastDay > 0
  /\ at = "node" /\ ofNode > 0 /\ config.Days > 0 /\ 10 * nodeIndex <= config.Nodes =>
       config.MaxScans <= lastDay /\ lastDay < 2 * config.MaxScans
==============================================================================
