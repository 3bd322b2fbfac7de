------------------------------- MODULE Service -------------------------------
(***************************************************************************)
(* The process `chef-load start' (lib/service.go): the scheduling loop of  *)
(* Scheduler together with what its goroutines share.                      *)
(*                                                                         *)
(* Every API request of every goroutine ends in a send on the unbuffered   *)
(* channel `requests' (apiRequest, DataCollectorClient.Update).  One       *)
(* aggregator goroutine receives from it, and in the same select from the  *)
(* signal channel: on a signal it prints the profile of the requests it    *)
(* has counted and exits the process.  Besides the CCRs, a pinger and an   *)
(* actions goroutine start one goroutine per message and never wait for    *)
(* the answer.                                                             *)
(***************************************************************************)
EXTENDS Scheduler

CONSTANTS
  LivenessAgent,  \* config.LivenessAgent
  SendsActions,   \* config.DataCollectorURL # "" and config.NumActions > 0
  MaxCalls,       \* bound of the model: API requests of one CCR
  MaxBackground,  \* bound of the model: pings and actions in flight
  CounterMod      \* the counters of the profile are kept modulo CounterMod

ASSUME ServiceAssumption ==
  /\ LivenessAgent \in BOOLEAN /\ SendsActions \in BOOLEAN
  /\ MaxCalls \in Nat
  /\ MaxBackground \in Nat
  /\ CounterMod \in Nat /\ CounterMod > NumNodes + MaxBackground

\* The signals that signal.Notify asks for; SIGINT is treated like SIGTERM.
Signals == {"SIGTERM", "SIGUSR1"}
NoSignal == "none"

VARIABLES
  call,      \* per slot, what its CCR is doing: see CallState
  left,      \* per slot, how many requests its CCR may still make
  inFlight,  \* pings and actions that wait for the server
  reporting, \* pings and actions that wait to hand over their request
  pingIdx,   \* i in the pinger's loop
  answered,  \* requests answered (or failed) since the start
  counted,   \* requests counted by the aggregator
  sigs,      \* the signal channel
  stoppedBy, \* the signal on which the process exited
  profile    \* the total that was printed

callVars == <<call, left>>
pingVars == <<inFlight, reporting, pingIdx>>
tallyVars == <<answered, counted>>
exitVars == <<sigs, stoppedBy, profile>>
serviceVars == <<vars, callVars, pingVars, tallyVars, exitVars>>

\* A CCR computes, waits for an answer, or waits for the aggregator to take
\* the request off its hands.
CallState == {"compute", "http", "handover"}

SignalCapacity == 1

ServiceInit ==
  /\ Init
  /\ call = [n \in Slots |-> "compute"]
  /\ left = [n \in Slots |-> 0]
  /\ inFlight = 0
  /\ reporting = 0
  /\ pingIdx = 1
  /\ answered = 0
  /\ counted = 0
  /\ sigs = <<>>
  /\ stoppedBy = NoSignal
  /\ profile = 0

Alive == stoppedBy = NoSignal
Plus(counter) == (counter + 1) % CounterMod

-----------------------------------------------------------------------------
(* The main goroutine *)

\* A step of the loop.  A launch gives the new CCR its budget of requests.
MainStep(A) ==
  /\ Alive
  /\ A
  /\ left' = [n \in Slots |->
       IF \E r \in running' \ running : r.slot = n THEN MaxCalls ELSE left[n]]
  /\ UNCHANGED <<call, pingVars, tallyVars, exitVars>>

-----------------------------------------------------------------------------
(* The CCR of slot n *)

Request(n) ==
  /\ Alive
  /\ IsRunning(n)
  /\ call[n] = "compute"
  /\ left[n] > 0
  /\ call' = [call EXCEPT ![n] = "http"]
  /\ left' = [left EXCEPT ![n] = @ - 1]
  /\ UNCHANGED <<vars, pingVars, tallyVars, exitVars>>

\* Slip: a request without an answer (status 999) is not reported.
Answer__ErrorsUnreported(n) ==
  /\ Alive
  /\ call[n] = "http"
  /\ call' \in {[call EXCEPT ![n] = "handover"], [call EXCEPT ![n] = "compute"]}
  /\ answered' = Plus(answered)
  /\ UNCHANGED <<vars, left, pingVars, counted, exitVars>>

\* The server answers, or the request fails and is reported with status 999.
Answer(n) ==
  /\ Alive
  /\ call[n] = "http"
  /\ call' = [call EXCEPT ![n] = "handover"]
  /\ answered' = Plus(answered)
  /\ UNCHANGED <<vars, left, pingVars, counted, exitVars>>

\* Slip: a run that dies on the way does not give its slot back.
EndRun__Dies(n) ==
  /\ Alive
  /\ call[n] = "compute"
  /\ \E r \in running : r.slot = n /\ running' = running \ {r}
  /\ UNCHANGED <<pc, nodes, nodeNameIdx, ccrCompletion, timeout, slept, launched>>
  /\ UNCHANGED <<callVars, pingVars, tallyVars, exitVars>>

\* The run is over: the deferred closer gives the slot back.
EndRun(n) ==
  /\ Alive
  /\ call[n] = "compute"
  /\ FinishSlot(n)
  /\ UNCHANGED <<callVars, pingVars, tallyVars, exitVars>>

-----------------------------------------------------------------------------
(* The pinger and the actions goroutine *)

\* One more request in flight.  Nothing in the code limits them; beyond
\* MaxBackground the model takes a request to be one that is never answered.
Send == inFlight' = IF inFlight + reporting < MaxBackground
                      THEN inFlight + 1 ELSE inFlight

\* Slip: the loop runs one name too far.
Ping__PastEnd ==
  /\ Alive
  /\ LivenessAgent
  /\ Send
  /\ pingIdx' = IF pingIdx > NumNodes THEN 1 ELSE pingIdx + 1
  /\ UNCHANGED <<vars, callVars, reporting, tallyVars, exitVars>>

\* The pinger walks over the names 1 .. NumNodes, whatever the fleet is.
Ping ==
  /\ Alive
  /\ LivenessAgent
  /\ NumNodes > 0
  /\ Send
  /\ pingIdx' = IF pingIdx = NumNodes THEN 1 ELSE pingIdx + 1
  /\ UNCHANGED <<vars, callVars, reporting, tallyVars, exitVars>>

Action ==
  /\ Alive
  /\ SendsActions
  /\ Send
  /\ UNCHANGED <<vars, callVars, reporting, pingIdx, tallyVars, exitVars>>

BackgroundAnswer ==
  /\ Alive
  /\ inFlight > 0
  /\ inFlight' = inFlight - 1
  /\ reporting' = reporting + 1
  /\ answered' = Plus(answered)
  /\ UNCHANGED <<vars, callVars, pingIdx, counted, exitVars>>

-----------------------------------------------------------------------------
(* The aggregator *)

\* Slip: requests are counted when no CCR waits for an answer any more.
HandleRequest__AllIn(n) ==
  /\ Alive
  /\ call[n] = "handover"
  /\ \A m \in Slots : call[m] # "http"
  /\ call' = [call EXCEPT ![n] = "compute"]
  /\ counted' = Plus(counted)
  /\ UNCHANGED <<vars, left, pingVars, answered, exitVars>>

\* The aggregator takes the request of slot n's CCR, which may go on.
HandleRequest(n) ==
  /\ Alive
  /\ call[n] = "handover"
  /\ call' = [call EXCEPT ![n] = "compute"]
  /\ counted' = Plus(counted)
  /\ UNCHANGED <<vars, left, pingVars, answered, exitVars>>

HandleBackground ==
  /\ Alive
  /\ reporting > 0
  /\ reporting' = reporting - 1
  /\ counted' = Plus(counted)
  /\ UNCHANGED <<vars, callVars, inFlight, pingIdx, answered, exitVars>>

\* A signal arrives.  The runtime drops it when the channel is full.
Notify(s) ==
  /\ Alive
  /\ Len(sigs) < SignalCapacity
  /\ sigs' = Append(sigs, s)
  /\ UNCHANGED <<vars, callVars, pingVars, tallyVars, stoppedBy, profile>>

\* What printAPIRequestProfile adds up.  The model does not tell requests
\* apart, so the aggregator's map is its total.
TotalAmount == counted

\* Slip: requests have priority over signals.
HandleSignal__RequestsFirst ==
  /\ Alive
  /\ sigs # <<>>
  /\ reporting = 0 /\ \A n \in Slots : call[n] # "handover"
  /\ stoppedBy' = Head(sigs)
  /\ sigs' = Tail(sigs)
  /\ profile' = TotalAmount
  /\ UNCHANGED <<vars, callVars, pingVars, tallyVars>>

\* Every signal prints the profile and ends the process.
HandleSignal ==
  /\ Alive
  /\ sigs # <<>>
  /\ stoppedBy' = Head(sigs)
  /\ sigs' = Tail(sigs)
  /\ profile' = TotalAmount
  /\ UNCHANGED <<vars, callVars, pingVars, tallyVars>>

-----------------------------------------------------------------------------

CCRStep(n) == Request(n) \/ Answer(n) \/ EndRun(n)

ServiceNext ==
  \/ MainStep(Main)
  \/ \E n \in Slots : CCRStep(n) \/ HandleRequest(n)
  \/ Ping \/ Action \/ BackgroundAnswer \/ HandleBackground
  \/ \E s \in Signals : Notify(s)
  \/ HandleSignal

ServiceSpec == ServiceInit /\ [][ServiceNext]_serviceVars

(***************************************************************************)
(* Fairness.  Goroutines that can run do run (WF).  The select of the main *)
(* loop, the select of the aggregator, and the choice among the goroutines *)
(* blocked in a send on `requests' pass nobody over for ever (SF).  Servers*)
(* answer every request but those of the slots in Hung; a background       *)
(* request may go unanswered.  No signal needs to arrive.                  *)
(***************************************************************************)
ServiceFairness ==
  /\ WF_serviceVars(MainStep(Seed \/ EndSeed \/ Pace))
  /\ SF_serviceVars(MainStep(Receive))
  /\ \A n \in Slots :
       /\ WF_serviceVars(Request(n) \/ EndRun(n))
       /\ n \notin Hung => WF_serviceVars(Answer(n))
       /\ SF_serviceVars(HandleRequest(n))
  /\ WF_serviceVars(Ping)
  /\ SF_serviceVars(HandleBackground)
  /\ SF_serviceVars(HandleSignal)

FairServiceSpec == ServiceSpec /\ ServiceFairness

-----------------------------------------------------------------------------
(* Properties *)

ServiceTypeOK ==
  /\ TypeOK
  /\ call \in [Slots -> CallState]
  /\ left \in [Slots -> 0 .. MaxCalls]
  /\ inFlight \in 0 .. MaxBackground
  /\ reporting \in 0 .. MaxBackground
  /\ pingIdx \in 1 .. NumNodes \/ pingIdx = 1
  /\ answered \in 0 .. CounterMod - 1
  /\ counted \in 0 .. CounterMod - 1
  /\ sigs \in Seq(Signals)
  /\ stoppedBy \in Signals \cup {NoSignal}
  /\ profile \in 0 .. CounterMod - 1

Waiting == reporting + Cardinality({n \in Slots : call[n] = "handover"})

\* The profile that is printed at the end misses exactly the answers that
\* some goroutine was just handing over: none is lost or counted twice.
ProfileIsComplete ==
  ~Alive => (profile + Waiting) % CounterMod = answered

\* The loop never learns more from a CCR than its completion: with requests,
\* aggregator, background traffic and signals the process still behaves as
\* the scheduling loop on its own.
RefinesScheduler == Spec

\* A signal ends the process, however many requests keep the aggregator busy.
SignalEndsTheProcess == sigs # <<>> ~> ~Alive

\* No goroutine of a CCR waits for the aggregator for ever, not even while
\* background traffic floods it.
HandoverEnds ==
  \A n \in Slots : call[n] = "handover" ~> (call[n] # "handover" \/ ~Alive)

\* As long as the process lives, the slots whose servers answer are run again
\* and again, from the fairness of single requests.
SlotsKeepRunning ==
  \A n \in Slots \ Hung :
    /\ []<>(IsRunning(n) \/ ~Alive)
    /\ []<>(~IsRunning(n) \/ ~Alive)

\* README.md: a USR1 signal prints a profile, and the session shown there goes
\* on after it until an INT.  The code exits on every signal.
ProfileSignalDoesNotStop == stoppedBy # "SIGUSR1"

\* service.go announces an interval for "each node's liveness ping".  The ping
\* loop counts from 1 and the nodes from 0, so it never comes to node 0.
EachNodeIsPinged ==
  LivenessAgent =>
    \A n \in Slots : <>(~Alive \/ pingIdx = nodes[n].NodeName)
=============================================================================
