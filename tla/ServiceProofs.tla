----------------------------- MODULE ServiceProofs -----------------------------
(***************************************************************************)
(* Theorems about Service: the process around the scheduling loop takes    *)
(* nothing away from what is proved of the loop alone, and its profile     *)
(* accounts for every answer.                                              *)
(***************************************************************************)
EXTENDS Service, SchedulerRefinement

-----------------------------------------------------------------------------
(* The loop within the process *)

\* Whatever the goroutines do, the variables of the loop take one of its own
\* steps or none.
LEMMA ServiceStep == [ServiceNext]_serviceVars => [Next]_vars
<1> SUFFICES ASSUME [ServiceNext]_serviceVars PROVE [Next]_vars
  OBVIOUS
<1>1. CASE MainStep(Main)
  BY <1>1 DEF MainStep, Next
<1>2. ASSUME NEW n \in Slots, CCRStep(n) \/ HandleRequest(n)
      PROVE  [Next]_vars
  <2>1. CASE Request(n) \/ Answer(n) \/ HandleRequest(n)
    BY <2>1 DEF Request, Answer, HandleRequest
  <2>2. CASE EndRun(n)
    BY <2>2 DEF EndRun, FinishSlot, Next
  <2> QED
    BY <1>2, <2>1, <2>2 DEF CCRStep
<1>3. CASE Ping \/ Action \/ BackgroundAnswer \/ HandleBackground
  BY <1>3 DEF Ping, Action, BackgroundAnswer, HandleBackground
<1>4. CASE (\E s \in Signals : Notify(s)) \/ HandleSignal
  BY <1>4 DEF Notify, HandleSignal
<1>5. CASE UNCHANGED serviceVars
  BY <1>5 DEF serviceVars
<1> QED
  BY <1>1, <1>2, <1>3, <1>4, <1>5 DEF ServiceNext

\* The process behaves as the scheduling loop on its own.
THEOREM ProcessRefinesLoop == ServiceSpec => RefinesScheduler
<1>1. ServiceInit => Init
  BY DEF ServiceInit
<1> QED
  BY <1>1, ServiceStep, PTL DEF ServiceSpec, RefinesScheduler, Spec

\* So it also implements the fleet of Fleet, signals and all.
THEOREM ProcessImplementsFleet == ServiceSpec => ImplementsFleet
  BY ProcessRefinesLoop, LoopImplementsFleet, PTL DEF RefinesScheduler

\* A slot is never lost in the process, and never run twice at a time.
THEOREM ProcessConservesSlots == ServiceSpec => []SlotConservation
  BY ProcessRefinesLoop, SlotsConserved, PTL DEF RefinesScheduler

-----------------------------------------------------------------------------
(* Arithmetic and counting *)

\* A counter of the profile after one more request.
LEMMA PlusOne ==
  ASSUME NEW k \in 0 .. CounterMod - 1
  PROVE  /\ Plus(k) \in 0 .. CounterMod - 1
         /\ Plus(k) = IF k + 1 = CounterMod THEN 0 ELSE k + 1
BY ServiceAssumption, SchedulerAssumption DEF Plus

\* The slots whose CCR waits for the aggregator.
Handing == {n \in Slots : call[n] = "handover"}

\* Any slots are finitely many, and no more than there are.
LEMMA FewSlots ==
  ASSUME NEW S, S \subseteq Slots
  PROVE  IsFiniteSet(S) /\ Cardinality(S) \in 0 .. NumNodes
<1>1. IsFiniteSet(Slots) /\ Cardinality(Slots) = NumNodes
  BY SchedulerAssumption, FS_Interval DEF Slots
<1>2. IsFiniteSet(S) /\ Cardinality(S) <= Cardinality(Slots)
  BY <1>1, FS_Subset
<1> QED
  BY <1>1, <1>2, FS_CardinalityType

\* Fewer requests wait than the counters can tell apart.
LEMMA WaitingIsShort ==
  ASSUME NEW S, S \subseteq Slots, NEW r \in 0 .. MaxBackground
  PROVE  r + Cardinality(S) \in 0 .. CounterMod - 1
BY FewSlots, ServiceAssumption, SchedulerAssumption

\* One more answer, and one more request that waits: the account is kept.
LEMMA AnswerKeepsAccount ==
  ASSUME NEW a \in 0 .. CounterMod - 1, NEW k \in 0 .. CounterMod - 1,
         NEW w \in Nat, w + 1 < CounterMod, k + w \in {a, a + CounterMod}
  PROVE  k + (w + 1) \in {Plus(a), Plus(a) + CounterMod}
BY PlusOne, ServiceAssumption

\* One more request counted, and one less that waits: the account is kept.
LEMMA CountKeepsAccount ==
  ASSUME NEW a \in 0 .. CounterMod - 1, NEW k \in 0 .. CounterMod - 1,
         NEW w \in Nat, w > 0, w < CounterMod, k + w \in {a, a + CounterMod}
  PROVE  Plus(k) + (w - 1) \in {a, a + CounterMod}
BY PlusOne, ServiceAssumption

\* A CCR that gets its answer joins them.
LEMMA JoinsHanding ==
  ASSUME ServiceTypeOK, NEW n \in Slots, call[n] # "handover",
         call' = [call EXCEPT ![n] = "handover"]
  PROVE  Cardinality(Handing') = Cardinality(Handing) + 1
<1>1. Handing' = Handing \cup {n} /\ n \notin Handing
  BY DEF Handing, ServiceTypeOK
<1>2. Handing \subseteq Slots
  BY DEF Handing
<1> QED
  BY <1>1, <1>2, FewSlots, FS_AddElement

\* A CCR that hands its request over leaves them.
LEMMA LeavesHanding ==
  ASSUME ServiceTypeOK, NEW n \in Slots, call[n] = "handover",
         call' = [call EXCEPT ![n] = "compute"]
  PROVE  Cardinality(Handing') = Cardinality(Handing) - 1
<1>1. Handing' = Handing \ {n} /\ n \in Handing
  BY DEF Handing, ServiceTypeOK
<1>2. Handing \subseteq Slots
  BY DEF Handing
<1> QED
  BY <1>1, <1>2, FewSlots, FS_RemoveElement

-----------------------------------------------------------------------------
(* The inductive invariant *)

\* The bound of the model holds for what is in flight and what waits together.
Background == inFlight + reporting <= MaxBackground

\* Every answer has been counted or waits for the aggregator.  Fewer wait than
\* the counters can tell apart, so that the counters differ by their number,
\* once around at most.
AnswersAccounted ==
  counted + Waiting \in {answered, answered + CounterMod}

\* What was printed is what had been counted: nothing is counted afterwards.
Printed == ~Alive => profile = counted

ServiceIInv ==
  /\ ServiceTypeOK
  /\ Background
  /\ AnswersAccounted
  /\ Printed

\* The invariant holds when the process starts.
LEMMA ServiceInitIInv == ServiceInit => ServiceIInv
<1> SUFFICES ASSUME ServiceInit PROVE ServiceIInv
  OBVIOUS
<1>1. TypeOK
  BY InitIInv DEF ServiceInit, IInv
<1>2. ServiceTypeOK
  <2>1. sigs \in Seq(Signals)
    BY EmptySeq DEF ServiceInit
  <2> QED
    BY <1>1, <2>1, ServiceAssumption, SchedulerAssumption
    DEF ServiceInit, ServiceTypeOK, CallState
<1>3. Waiting = 0
  <2>1. Handing = {} /\ reporting = 0
    BY DEF ServiceInit, Handing
  <2>2. Waiting = reporting + Cardinality(Handing)
    BY DEF Waiting, Handing
  <2>3. Cardinality({}) = 0
    BY FS_EmptySet
  <2> QED
    BY <2>1, <2>2, <2>3
<1>4. Background /\ AnswersAccounted /\ Printed
  BY <1>3, ServiceAssumption
  DEF ServiceInit, Background, AnswersAccounted, Printed, Alive
<1> QED
  BY <1>2, <1>4 DEF ServiceIInv

\* A step that changes neither the counters nor who waits keeps the account.
LEMMA QuietProcessStep ==
  ASSUME ServiceIInv, TypeOK', UNCHANGED <<call, inFlight, reporting, answered,
                                          counted, stoppedBy, profile>>,
         left' \in [Slots -> 0 .. MaxCalls],
         pingIdx' \in 1 .. NumNodes \/ pingIdx' = 1,
         sigs' \in Seq(Signals)
  PROVE  ServiceIInv'
<1>1. ServiceTypeOK'
  BY DEF ServiceIInv, ServiceTypeOK
<1>2. Background' /\ AnswersAccounted' /\ Printed'
  BY DEF ServiceIInv, Background, AnswersAccounted, Printed, Waiting, Alive
<1> QED
  BY <1>1, <1>2 DEF ServiceIInv

\* Waiting, by its two parts.
LEMMA WaitingParts ==
  ASSUME ServiceTypeOK
  PROVE  /\ Waiting = reporting + Cardinality(Handing)
         /\ Waiting \in 0 .. CounterMod - 1
         /\ reporting \in Nat /\ Cardinality(Handing) \in Nat
<1>1. Handing \subseteq Slots
  BY DEF Handing
<1> QED
  BY <1>1, FewSlots, WaitingIsShort DEF Waiting, Handing, ServiceTypeOK

\* What the account was, in numbers.
LEMMA Account ==
  ASSUME ServiceIInv
  PROVE  /\ answered \in 0 .. CounterMod - 1 /\ counted \in 0 .. CounterMod - 1
         /\ Waiting \in 0 .. CounterMod - 1
         /\ counted + Waiting \in {answered, answered + CounterMod}
BY WaitingParts DEF ServiceIInv, ServiceTypeOK, AnswersAccounted

\* The account after an answer.
LEMMA AccountAfterAnswer ==
  ASSUME ServiceIInv, Waiting' = Waiting + 1, Waiting' < CounterMod,
         counted' = counted, answered' = Plus(answered)
  PROVE  AnswersAccounted'
<1>1. counted + (Waiting + 1) \in {Plus(answered), Plus(answered) + CounterMod}
  <2>1. Waiting \in Nat /\ Waiting + 1 < CounterMod
    BY Account, ServiceAssumption
  <2> QED
    BY <2>1, Account, AnswerKeepsAccount
<1> QED
  BY <1>1 DEF AnswersAccounted

\* The account after a request has been counted.
LEMMA AccountAfterCount ==
  ASSUME ServiceIInv, Waiting' = Waiting - 1, Waiting # 0,
         counted' = Plus(counted), answered' = answered
  PROVE  AnswersAccounted'
<1>1. Plus(counted) + (Waiting - 1) \in {answered, answered + CounterMod}
  <2>1. Waiting \in Nat /\ Waiting > 0 /\ Waiting < CounterMod
    BY Account, ServiceAssumption
  <2> QED
    BY <2>1, Account, CountKeepsAccount
<1> QED
  BY <1>1 DEF AnswersAccounted

\* The server answers a CCR: one more answer, and one more that waits.
LEMMA AnswerIInv ==
  ASSUME ServiceIInv, TypeOK', NEW n \in Slots, Answer(n)
  PROVE  ServiceIInv'
<1>1. ServiceTypeOK'
  BY PlusOne DEF ServiceIInv, ServiceTypeOK, Answer, CallState, pingVars, exitVars
<1>2. Waiting' = Waiting + 1 /\ Waiting' < CounterMod
  <2>1. Cardinality(Handing') = Cardinality(Handing) + 1
    BY JoinsHanding DEF ServiceIInv, Answer
  <2>2. Waiting' = reporting + Cardinality(Handing') /\ Handing' \subseteq Slots
    BY DEF Waiting, Handing, Answer, pingVars
  <2> QED
    BY <2>1, <2>2, WaitingParts, WaitingIsShort, ServiceAssumption
    DEF ServiceIInv, ServiceTypeOK
<1>3. AnswersAccounted'
  BY <1>2, AccountAfterAnswer DEF Answer
<1>4. Background' /\ Printed'
  BY DEF ServiceIInv, Background, Printed, Answer, Alive, pingVars, exitVars
<1> QED
  BY <1>1, <1>3, <1>4 DEF ServiceIInv

\* The aggregator takes the request of a CCR and counts it.
LEMMA HandleRequestIInv ==
  ASSUME ServiceIInv, TypeOK', NEW n \in Slots, HandleRequest(n)
  PROVE  ServiceIInv'
<1>1. ServiceTypeOK'
  BY PlusOne DEF ServiceIInv, ServiceTypeOK, HandleRequest, CallState, pingVars, exitVars
<1>2. Waiting' = Waiting - 1 /\ Waiting # 0
  <2>1. Cardinality(Handing') = Cardinality(Handing) - 1
    BY LeavesHanding DEF ServiceIInv, HandleRequest
  <2>2. Waiting' = reporting + Cardinality(Handing') /\ Handing' \subseteq Slots
    BY DEF Waiting, Handing, HandleRequest, pingVars
  <2>3. Cardinality(Handing') \in Nat
    BY <2>2, FewSlots
  <2> QED
    BY <2>1, <2>2, <2>3, WaitingParts DEF ServiceIInv
<1>3. AnswersAccounted'
  BY <1>2, AccountAfterCount DEF HandleRequest
<1>4. Background' /\ Printed'
  BY DEF ServiceIInv, Background, Printed, HandleRequest, Alive, pingVars, exitVars
<1> QED
  BY <1>1, <1>3, <1>4 DEF ServiceIInv

\* A ping or an action is answered, and waits for the aggregator.
LEMMA BackgroundAnswerIInv ==
  ASSUME ServiceIInv, TypeOK', BackgroundAnswer
  PROVE  ServiceIInv'
<1>1. ServiceTypeOK' /\ Background'
  BY PlusOne, ServiceAssumption
  DEF ServiceIInv, ServiceTypeOK, Background, BackgroundAnswer, callVars, exitVars
<1>2. Waiting' = Waiting + 1 /\ Waiting' < CounterMod
  <2>1. Waiting' = (reporting + 1) + Cardinality(Handing) /\ Handing \subseteq Slots
    BY DEF Waiting, Handing, BackgroundAnswer, callVars
  <2>2. reporting + 1 \in 0 .. MaxBackground
    BY <1>1 DEF ServiceTypeOK, BackgroundAnswer
  <2> QED
    BY <2>1, <2>2, WaitingParts, WaitingIsShort, ServiceAssumption DEF ServiceIInv
<1>3. AnswersAccounted'
  BY <1>2, AccountAfterAnswer DEF BackgroundAnswer
<1>4. Printed'
  BY DEF ServiceIInv, Printed, BackgroundAnswer, Alive, exitVars
<1> QED
  BY <1>1, <1>3, <1>4 DEF ServiceIInv

\* The aggregator takes the request of a ping or an action and counts it.
LEMMA HandleBackgroundIInv ==
  ASSUME ServiceIInv, TypeOK', HandleBackground
  PROVE  ServiceIInv'
<1>1. ServiceTypeOK' /\ Background'
  BY PlusOne, ServiceAssumption
  DEF ServiceIInv, ServiceTypeOK, Background, HandleBackground, callVars, exitVars
<1>2. Waiting' = Waiting - 1 /\ Waiting # 0
  <2>1. Waiting' = (reporting - 1) + Cardinality(Handing) /\ reporting > 0
    BY DEF Waiting, Handing, HandleBackground, callVars
  <2> QED
    BY <2>1, WaitingParts DEF ServiceIInv
<1>3. AnswersAccounted'
  BY <1>2, AccountAfterCount DEF HandleBackground
<1>4. Printed'
  BY DEF ServiceIInv, Printed, HandleBackground, Alive, exitVars
<1> QED
  BY <1>1, <1>3, <1>4 DEF ServiceIInv

\* The process exits with what has been counted.
LEMMA HandleSignalIInv ==
  ASSUME ServiceIInv, TypeOK', HandleSignal
  PROVE  ServiceIInv'
<1>1. ServiceTypeOK'
  <2>1. Head(sigs) \in Signals /\ Tail(sigs) \in Seq(Signals)
    BY HeadTailProperties DEF ServiceIInv, ServiceTypeOK, HandleSignal
  <2> QED
    BY <2>1 DEF ServiceIInv, ServiceTypeOK, HandleSignal, TotalAmount,
                callVars, pingVars, tallyVars
<1>2. Background' /\ AnswersAccounted'
  BY DEF ServiceIInv, Background, AnswersAccounted, Waiting, HandleSignal,
         callVars, pingVars, tallyVars
<1>3. Printed'
  BY DEF Printed, HandleSignal, TotalAmount, tallyVars
<1> QED
  BY <1>1, <1>2, <1>3 DEF ServiceIInv

\* One more request in flight, up to the bound of the model.
LEMMA SendIInv ==
  ASSUME ServiceIInv, TypeOK', Send, pingIdx' \in 1 .. NumNodes \/ pingIdx' = 1,
         UNCHANGED <<callVars, reporting, tallyVars, exitVars>>
  PROVE  ServiceIInv'
<1>1. ServiceTypeOK' /\ Background'
  BY ServiceAssumption
  DEF ServiceIInv, ServiceTypeOK, Background, Send, callVars, tallyVars, exitVars
<1>2. AnswersAccounted' /\ Printed'
  BY DEF ServiceIInv, AnswersAccounted, Printed, Waiting, Alive, callVars,
         tallyVars, exitVars
<1> QED
  BY <1>1, <1>2 DEF ServiceIInv

\* Every step of the process keeps the invariant.
LEMMA ServiceNextIInv == ServiceIInv /\ TypeOK' /\ [ServiceNext]_serviceVars => ServiceIInv'
<1> SUFFICES ASSUME ServiceIInv, TypeOK', [ServiceNext]_serviceVars PROVE ServiceIInv'
  OBVIOUS
<1>1. CASE MainStep(Main)
  <2>1. left' \in [Slots -> 0 .. MaxCalls]
    BY <1>1, ServiceAssumption DEF MainStep, ServiceIInv, ServiceTypeOK
  <2> QED
    BY <1>1, <2>1, QuietProcessStep
    DEF MainStep, ServiceIInv, ServiceTypeOK, pingVars, tallyVars, exitVars
<1>2. ASSUME NEW n \in Slots, Request(n)
      PROVE  ServiceIInv'
  <2>1. ServiceTypeOK'
    <3>1. left' \in [Slots -> 0 .. MaxCalls]
      BY <1>2, ServiceAssumption DEF Request, ServiceIInv, ServiceTypeOK
    <3>2. call' \in [Slots -> CallState]
      BY <1>2 DEF Request, ServiceIInv, ServiceTypeOK, CallState
    <3> QED
      BY <1>2, <3>1, <3>2
      DEF Request, ServiceIInv, ServiceTypeOK, pingVars, tallyVars, exitVars
  <2>2. Waiting' = Waiting
    <3>1. Handing' = Handing
      BY <1>2 DEF Request, ServiceIInv, ServiceTypeOK, Handing
    <3> QED
      BY <1>2, <3>1 DEF Request, Waiting, Handing, pingVars
  <2> QED
    BY <1>2, <2>1, <2>2 DEF Request, ServiceIInv, Background, AnswersAccounted,
       Printed, Alive, pingVars, tallyVars, exitVars
<1>3. ASSUME NEW n \in Slots, EndRun(n)
      PROVE  ServiceIInv'
  BY <1>3, QuietProcessStep
  DEF EndRun, ServiceIInv, ServiceTypeOK, callVars, pingVars, tallyVars, exitVars
<1>4. CASE Ping
  BY <1>4, SendIInv, SchedulerAssumption DEF Ping, ServiceIInv, ServiceTypeOK
<1>5. CASE Action
  BY <1>5, SendIInv DEF Action, ServiceIInv, ServiceTypeOK
<1>6. ASSUME NEW s \in Signals, Notify(s)
      PROVE  ServiceIInv'
  <2>1. sigs' \in Seq(Signals)
    BY <1>6 DEF Notify, ServiceIInv, ServiceTypeOK
  <2> QED
    BY <1>6, <2>1, QuietProcessStep
    DEF Notify, ServiceIInv, ServiceTypeOK, callVars, pingVars, tallyVars
<1>7. CASE UNCHANGED serviceVars
  BY <1>7, QuietProcessStep
  DEF serviceVars, ServiceIInv, ServiceTypeOK, callVars, pingVars, tallyVars, exitVars
<1> QED
  BY <1>1, <1>2, <1>3, <1>4, <1>5, <1>6, <1>7, AnswerIInv, HandleRequestIInv,
     BackgroundAnswerIInv, HandleBackgroundIInv, HandleSignalIInv
  DEF ServiceNext, CCRStep

-----------------------------------------------------------------------------
(* Theorems *)

\* The strengthened invariant holds throughout; the types of the loop are
\* those of the loop on its own.
THEOREM ServiceInvariance == ServiceSpec => []ServiceIInv
<1>1. ServiceSpec => []TypeOK
  BY ProcessRefinesLoop, TypeCorrect, PTL DEF RefinesScheduler
<1> QED
  BY <1>1, ServiceInitIInv, ServiceNextIInv, PTL DEF ServiceSpec

\* The variables of the process keep their types.
THEOREM ServiceTypeCorrect == ServiceSpec => []ServiceTypeOK
<1>1. ServiceIInv => ServiceTypeOK
  BY DEF ServiceIInv
<1> QED
  BY <1>1, ServiceInvariance, PTL

\* The profile that is printed misses exactly the answers that were just being
\* handed over.
THEOREM NothingElseIsMissing == ServiceSpec => []ProfileIsComplete
<1>1. ServiceIInv => ProfileIsComplete
  <2> SUFFICES ASSUME ServiceIInv, ~Alive
               PROVE  (profile + Waiting) % CounterMod = answered
    BY DEF ProfileIsComplete
  <2>1. profile = counted
    BY DEF ServiceIInv, Printed
  <2>2. counted + Waiting = answered \/ counted + Waiting = answered + CounterMod
    BY Account
  <2>3. /\ CounterMod \in Nat /\ CounterMod > 0
        /\ answered \in 0 .. CounterMod - 1
    BY Account, ServiceAssumption
  <2>4. answered % CounterMod = answered
        /\ (answered + CounterMod) % CounterMod = answered
    BY <2>3
  <2> QED
    BY <2>1, <2>2, <2>4
<1> QED
  BY <1>1, ServiceInvariance, PTL
================================================================================
