----------------------- MODULE ThreadRunControllerProofs -----------------------
(***************************************************************************)
(* Proofs about ThreadRunController, for every number of runs and every      *)
(* bound.                                                                   *)
(***************************************************************************)
EXTENDS ThreadRunController, WellFoundedInduction, TLAPS

--------------------------------------------------------------------------------
\* Facts about the operators.

\* The oldest run of a set of runs is one of them, and no other is older.
LEMMA OldestExists ==
  ASSUME NEW S, S \subseteq Runs, S # {}
  PROVE  Min(S) \in S /\ \A y \in S : Min(S) <= y
<1>1. S \subseteq Nat
  BY ConstantsAssumption DEF Runs
<1>2. PICK x \in S : \A y \in S : ~ (<<y, x>> \in OpToRel(<, Nat))
  BY <1>1, NatLessThanWellFounded, WFMin
<1>3. \A y \in S : x <= y
  <2> TAKE y \in S
  <2>1. ~ (y < x)
    BY <1>1, <1>2 DEF OpToRel
  <2> QED BY <1>1, <2>1
<1> QED BY <1>3 DEF Min

\* A verdict is an outcome.
LEMMA VerdictIsOutcome ==
  ASSUME TypeOK, NEW r \in Runs
  PROVE  VerdictOf(r) \in {Rejected} \cup Runs
BY ConstantsAssumption DEF TypeOK, Answers, VerdictOf

\* The books: pending runs are the submitted ones without an outcome.
Open(P, O) ==
  \A r \in Runs : IF r <= submitted THEN r \in P <=> O[r] = None
                ELSE r \notin P /\ O[r] = None

\* Attribution only changes what it may: the outcome of one run.
LEMMA AttributionTyped ==
  ASSUME TypeOK, PendingMeansOpen, OnUserMessageStart
  PROVE  /\ pending' \subseteq Runs /\ delivered' \subseteq Runs
         /\ outcome' \in [Runs -> {None, Rejected} \cup Runs]
         /\ activeRun' \in Runs \cup {None}
         /\ activeRun' # None => activeRun' \in pending' \cap delivered'
         /\ Open(pending', outcome')
<1> DEFINE next == Min(Undelivered)
           done == activeRun # None /\ activeRun # next
<1>1. CASE disposed \/ Undelivered = {}
  BY <1>1 DEF OnUserMessageStart, TypeOK, PendingMeansOpen, Open
<1>2. CASE ~ (disposed \/ Undelivered = {})
  <2>1. next \in Undelivered
    BY <1>2, OldestExists DEF TypeOK, Undelivered
  <2>2. next \in pending /\ next \in Runs
    BY <2>1 DEF Undelivered, TypeOK
  <2>3. delivered' = delivered \cup {next} /\ activeRun' = next
    BY <1>2 DEF OnUserMessageStart
  <2>4. CASE ~done
    <3>1. outcome' = outcome /\ pending' = pending
      BY <1>2, <2>4 DEF OnUserMessageStart
    <3> QED BY <2>2, <2>3, <3>1 DEF TypeOK, PendingMeansOpen, Open
  <2>5. CASE done
    <3>1. /\ outcome' = [outcome EXCEPT ![activeRun] = VerdictOf(activeRun)]
          /\ pending' = pending \ {activeRun}
      BY <1>2, <2>5 DEF OnUserMessageStart
    <3>2. activeRun \in Runs /\ activeRun \in pending /\ activeRun # next
      BY <2>5 DEF TypeOK, PendingMeansOpen, Open
    <3>3. VerdictOf(activeRun) \in {Rejected} \cup Runs
      BY <3>2, VerdictIsOutcome
    <3> HIDE DEF next
    <3> QED BY <2>2, <2>3, <3>1, <3>2, <3>3, ConstantsAssumption DEF TypeOK, PendingMeansOpen, Open
  <2> QED BY <2>4, <2>5
<1> QED BY <1>1, <1>2

\* Failing a set of pending runs leaves the books in order.
LEMMA FailingTyped ==
  ASSUME TypeOK, PendingMeansOpen, NEW failed \in SUBSET pending, FailRuns(failed)
  PROVE  /\ pending' \subseteq Runs
         /\ outcome' \in [Runs -> {None, Rejected} \cup Runs]
         /\ activeRun' \in Runs \cup {None}
         /\ activeRun' # None => activeRun' \in pending' \cap delivered
         /\ Open(pending', outcome')
BY ConstantsAssumption DEF TypeOK, PendingMeansOpen, FailRuns, Open

\* The end of the agent loop closes every pending run.
LEMMA AgentEndTyped ==
  ASSUME TypeOK, PendingMeansOpen, OnAgentEnd
  PROVE  /\ pending' \subseteq Runs
         /\ outcome' \in [Runs -> {None, Rejected} \cup Runs]
         /\ activeRun' = None
         /\ Open(pending', outcome')
<1>1. \A r \in Runs : VerdictOf(r) \in {Rejected} \cup Runs
  BY VerdictIsOutcome
<1> QED BY <1>1, ConstantsAssumption DEF TypeOK, PendingMeansOpen, OnAgentEnd, Open

\* The message the session answers next is the message of a run.
LEMMA NextMessageIsRun ==
  ASSUME TypeOK
  PROVE  NextMessage \in Runs \cup {None}
<1>1. steerQueue # {} => Min(steerQueue) \in Runs
  BY OldestExists DEF TypeOK
<1>2. followUpQueue # {} => Min(followUpQueue) \in Runs
  BY OldestExists DEF TypeOK
<1> QED BY <1>1, <1>2 DEF TypeOK, NextMessage

--------------------------------------------------------------------------------
\* The inductive invariant: the three properties together.

ControllerInv == TypeOK /\ PendingMeansOpen /\ BusyMeansInFlight

LEMMA InitHolds == Init => ControllerInv
<1> SUFFICES ASSUME Init PROVE ControllerInv
  OBVIOUS
<1>1. TypeOK
  <2>1. 0 \in 0..MaxRuns /\ 0 \in 0..MaxRefusals /\ 0 \in 0..MaxEarlyEnds
    BY ConstantsAssumption
  <2>2. lastAssistant \in [Runs -> {None} \cup Answers]
    BY DEF Init
  <2>3. outcome \in [Runs -> {None, Rejected} \cup Runs]
    BY DEF Init
  <2> QED BY <2>1, <2>2, <2>3 DEF Init, TypeOK, LoopStates
<1>2. PendingMeansOpen
  <2>1. \A r \in Runs : ~ (r <= submitted)
    BY ConstantsAssumption DEF Init, Runs
  <2> QED BY <2>1 DEF Init, PendingMeansOpen
<1>3. BusyMeansInFlight
  BY DEF Init, BusyMeansInFlight
<1> QED BY <1>1, <1>2, <1>3 DEF ControllerInv

LEMMA SubmitPreserves == ControllerInv /\ Submit => ControllerInv'
<1> SUFFICES ASSUME ControllerInv, Submit PROVE ControllerInv'
  OBVIOUS
<1> DEFINE r == submitted + 1
<1>1. /\ r \in Runs /\ submitted \in Nat /\ r \in 0..MaxRuns
      /\ \A q \in Runs : q <= r <=> q = r \/ q <= submitted
  BY ConstantsAssumption DEF Submit, ControllerInv, TypeOK, Runs
<1>2. /\ submitted' = r /\ pending' = pending \cup {r} /\ tail' = tail \cup {r}
      /\ steer' \subseteq steer \cup {r}
  BY DEF Submit
<1> HIDE DEF r
<1>3. TypeOK'
  BY <1>1, <1>2 DEF Submit, ControllerInv, TypeOK, session
<1>4. PendingMeansOpen'
  <2>1. r = submitted + 1
    BY DEF r
  <2>2. outcome[r] = None
    <3>1. ~ (r <= submitted)
      BY <1>1, <2>1
    <3>2. r \notin pending
      BY <1>1, <3>1 DEF ControllerInv, PendingMeansOpen
    <3> QED BY <1>1, <3>1 DEF ControllerInv, PendingMeansOpen
  <2> QED BY <1>1, <1>2, <2>2 DEF Submit, ControllerInv, PendingMeansOpen
<1>5. BusyMeansInFlight'
  BY DEF Submit, ControllerInv, BusyMeansInFlight, session
<1> QED BY <1>3, <1>4, <1>5 DEF ControllerInv

LEMMA DispatchingPreserves == ControllerInv /\ Dispatching => ControllerInv'
<1> SUFFICES ASSUME ControllerInv, Dispatching PROVE ControllerInv'
  OBVIOUS
<1> USE DEF ControllerInv, Open
<1>1. CASE BeginDispatch
  <2>1. Min(tail) \in Runs
    BY <1>1, OldestExists DEF BeginDispatch, TypeOK
  <2> QED BY <1>1, <2>1 DEF BeginDispatch, TypeOK, PendingMeansOpen, BusyMeansInFlight, session
<1>2. CASE EndDispatch
  <2>1. TypeOK'
    BY <1>2 DEF EndDispatch, TypeOK, LoopStates
  <2>2. PendingMeansOpen'
    BY <1>2 DEF EndDispatch, PendingMeansOpen
  <2>3. BusyMeansInFlight'
    BY <1>2 DEF EndDispatch, BusyMeansInFlight
  <2> QED BY <2>1, <2>2, <2>3
<1>3. CASE DispatchFails
  <2>1. FailRuns({reading} \cap pending)
    BY <1>3 DEF DispatchFails
  <2> QED BY <1>3, <2>1, FailingTyped
          DEF DispatchFails, TypeOK, PendingMeansOpen, BusyMeansInFlight, session
<1> QED BY <1>1, <1>2, <1>3 DEF Dispatching

LEMMA PromptRefusedPreserves == ControllerInv /\ PromptRefused => ControllerInv'
<1> SUFFICES ASSUME ControllerInv, PromptRefused PROVE ControllerInv'
  OBVIOUS
<1> USE DEF ControllerInv, Open
<1>1. FailRuns({prompted} \cap pending)
  BY DEF PromptRefused
<1>2. refusals' \in 0..MaxRefusals
  BY ConstantsAssumption DEF PromptRefused, TypeOK
<1> QED BY <1>1, <1>2, FailingTyped
        DEF PromptRefused, TypeOK, PendingMeansOpen, BusyMeansInFlight, LoopStates

LEMMA DisposePreserves == ControllerInv /\ Dispose => ControllerInv'
<1> SUFFICES ASSUME ControllerInv, Dispose PROVE ControllerInv'
  OBVIOUS
<1> USE DEF ControllerInv, Open
<1>1. FailRuns(pending)
  BY DEF Dispose
<1> QED BY <1>1, FailingTyped
        DEF Dispose, TypeOK, PendingMeansOpen, BusyMeansInFlight, session

LEMMA SessionPreserves == ControllerInv /\ Session => ControllerInv'
<1> SUFFICES ASSUME ControllerInv, Session PROVE ControllerInv'
  OBVIOUS
<1> USE DEF ControllerInv, Open
<1>1. CASE AgentStart
  BY <1>1 DEF AgentStart, TypeOK, PendingMeansOpen, BusyMeansInFlight, controller, LoopStates
<1>2. CASE UserMessageStart
  <2>1. NextMessage \in Runs
    BY <1>2, NextMessageIsRun DEF UserMessageStart
  <2>2. OnUserMessageStart
    BY <1>2 DEF UserMessageStart
  <2>3. TypeOK'
    BY <1>2, <2>1, <2>2, AttributionTyped DEF UserMessageStart, TypeOK, LoopStates
  <2>4. PendingMeansOpen'
    BY <1>2, <2>2, AttributionTyped DEF UserMessageStart, PendingMeansOpen
  <2>5. BusyMeansInFlight'
    BY <1>2 DEF UserMessageStart, BusyMeansInFlight
  <2> QED BY <2>3, <2>4, <2>5
<1>3. ASSUME NEW ok \in BOOLEAN, AssistantMessageEnd(ok) PROVE ControllerInv'
  <2>1. earlyEnds' \in 0..MaxEarlyEnds /\ loop' \in LoopStates
    BY <1>3, ConstantsAssumption DEF AssistantMessageEnd, TypeOK, LoopStates
  <2>2. lastAssistant' \in [Runs -> {None} \cup Answers]
    <3>1. CASE disposed \/ activeRun = None
      BY <1>3, <3>1 DEF AssistantMessageEnd, TypeOK
    <3>2. CASE ~ (disposed \/ activeRun = None)
      <4> DEFINE snapshot == [answers |-> current, ok |-> ok]
      <4>1. lastAssistant' = [lastAssistant EXCEPT ![activeRun] = snapshot]
        BY <1>3, <3>2 DEF AssistantMessageEnd
      <4>2. snapshot \in Answers
        BY <1>3 DEF TypeOK, AssistantMessageEnd, Answers
      <4> HIDE DEF snapshot
      <4> QED BY <4>1, <4>2 DEF TypeOK
    <3> QED BY <3>1, <3>2
  <2> QED BY <1>3, <2>1, <2>2
          DEF AssistantMessageEnd, TypeOK, PendingMeansOpen, BusyMeansInFlight
<1>4. CASE AgentEnd
  <2>1. CASE disposed
    BY <1>4, <2>1 DEF AgentEnd, TypeOK, PendingMeansOpen, BusyMeansInFlight, LoopStates
  <2>2. CASE ~disposed
    <3>1. OnAgentEnd
      BY <1>4, <2>2 DEF AgentEnd
    <3>2. inFlight' \in BOOLEAN
      BY <3>1 DEF OnAgentEnd
    <3> QED BY <1>4, <3>1, <3>2, AgentEndTyped
            DEF AgentEnd, TypeOK, PendingMeansOpen, BusyMeansInFlight, LoopStates
  <2> QED BY <2>1, <2>2
<1> QED BY <1>1, <1>2, <1>3, <1>4 DEF Session

LEMMA NextPreserves == ControllerInv /\ [Next]_vars => ControllerInv'
<1> SUFFICES ASSUME ControllerInv, [Next]_vars PROVE ControllerInv'
  OBVIOUS
<1>1. CASE UNCHANGED vars
  BY <1>1 DEF ControllerInv, TypeOK, PendingMeansOpen, BusyMeansInFlight,
              vars, controller, session
<1> QED BY <1>1, SubmitPreserves, DispatchingPreserves, PromptRefusedPreserves,
           DisposePreserves, SessionPreserves DEF Next

--------------------------------------------------------------------------------
\* Without steering: which answer is whose.

\* No run up to r was rejected.
CleanTo(r) == \A q \in Runs : q <= r => outcome[q] # Rejected

\* Messages in the session that it has not taken, and all that it will take.
Queued == ({prompted} \ {None}) \cup followUpQueue
Waiting == Queued \cup ({reading} \ {None}) \cup tail

\* Messages come to the session in run order; only what was left behind a loop that ended
\* is passed by the next prompt.
QueueOrder ==
  /\ Waiting \cup delivered \subseteq 1..submitted
  /\ \A m \in Queued : (reading # None => m < reading) /\ \A t \in tail : m < t
  /\ reading # None => \A t \in tail : reading < t
  /\ steerQueue = {} /\ prompted \notin followUpQueue
  /\ prompted # None => loop \in {"starting", "ready"}
  /\ \A f \in followUpQueue : CleanTo(f) => inFlight /\ (prompted # None => prompted < f)

\* Before the first rejected run, a run is delivered when the session took its message.
DeliveredWhenTaken ==
  /\ \A r \in Runs : r <= submitted /\ CleanTo(r) => (r \in delivered <=> r \notin Waiting)
  /\ \A r \in Runs : outcome[r] \in Runs => r \in delivered

\* Runs are delivered one at a time, the oldest first; a message of a settled run has no
\* pending run before it.
OldestFirst ==
  /\ pending \cap delivered \subseteq {activeRun}
  /\ activeRun # None => \A r \in pending : activeRun <= r
  /\ \A m \in Waiting \ pending : \A r \in pending : r > m
  /\ disposed => pending = {}

\* Before the first rejected run, the active run is the one whose message the agent answers,
\* and an answer kept for a run answers its message.
AnswerKept ==
  /\ activeRun # None /\ CleanTo(activeRun) => current = activeRun
  /\ \A r \in Runs : lastAssistant[r] # None =>
       lastAssistant[r].answers = r \/ \E q \in Runs : q < r /\ outcome[q] = Rejected

Ordered == QueueOrder /\ DeliveredWhenTaken /\ OldestFirst /\ AnswerKept /\ AnswersInOrder

OrderInv == steer = {} => Ordered

\* A rejected run stays rejected.
LEMMA RejectedStays ==
  ASSUME ControllerInv, NEW r \in Runs, CleanTo(r)',
         \A q \in Runs : q \notin pending => outcome'[q] = outcome[q]
  PROVE  CleanTo(r)
BY ConstantsAssumption DEF ControllerInv, TypeOK, PendingMeansOpen, CleanTo

\* Before the first rejected run, the message of a run is with the run.
LEMMA WaitingIsPending ==
  ASSUME ControllerInv, QueueOrder, DeliveredWhenTaken, NEW r \in Waiting, CleanTo(r)
  PROVE  r \in pending /\ r \notin delivered /\ r \in Runs
<1>1. r \in Runs /\ r <= submitted
  BY ConstantsAssumption DEF QueueOrder, Runs, ControllerInv, TypeOK
<1>2. r \notin delivered /\ outcome[r] \notin Runs
  BY <1>1 DEF DeliveredWhenTaken
<1>3. outcome[r] # Rejected
  BY <1>1 DEF CleanTo, Runs
<1>4. outcome[r] = None
  BY <1>1, <1>2, <1>3 DEF ControllerInv, TypeOK
<1> QED
  BY <1>1, <1>2, <1>4 DEF ControllerInv, PendingMeansOpen

\* Runs fail whose messages the session will not take, or all.
LEMMA FailingKeepsOrder ==
  ASSUME ControllerInv, Ordered, steer = {}, NEW failed \in SUBSET pending, FailRuns(failed),
         UNCHANGED <<submitted, steer, delivered, lastAssistant, inFlight, tail, current, steerQueue,
                     followUpQueue>>,
         reading' \in {reading, None}, prompted' \in {prompted, None},
         prompted' # None => loop' \in {"starting", "ready"},
         (Waiting \ Waiting') \cap pending \subseteq failed,
         failed \cap Waiting' = {} \/ failed = pending,
         disposed' => disposed \/ failed = pending
  PROVE  Ordered'
<1> USE DEF Ordered
<1>1. /\ Waiting' \subseteq Waiting /\ Queued' \subseteq Queued
      /\ pending' = pending \ failed /\ activeRun' \in {activeRun, None}
      /\ \A q \in Runs : outcome'[q] = IF q \in failed THEN Rejected ELSE outcome[q]
  BY DEF Waiting, Queued, FailRuns
<1>2. \A r \in Runs : CleanTo(r)' => CleanTo(r)
  BY <1>1, RejectedStays
<1>3. QueueOrder'
  <2>1. /\ \A f \in followUpQueue : f \in Runs
        /\ Waiting' \cup delivered' \subseteq 1..submitted'
    BY <1>1 DEF QueueOrder, ControllerInv, TypeOK
  <2>2. \A f \in followUpQueue' : CleanTo(f)' => inFlight' /\ (prompted' # None => prompted' < f)
    BY <1>2, <2>1 DEF QueueOrder
  <2>3. /\ \A m \in Queued' : (reading' # None => m < reading') /\ \A t \in tail' : m < t
        /\ reading' # None => \A t \in tail' : reading' < t
    BY <1>1 DEF QueueOrder
  <2>4. /\ steerQueue' = {} /\ prompted' \notin followUpQueue'
        /\ prompted' # None => loop' \in {"starting", "ready"}
    BY ConstantsAssumption DEF QueueOrder, ControllerInv, TypeOK
  <2> QED
    BY <2>1, <2>2, <2>3, <2>4 DEF QueueOrder
<1>4. DeliveredWhenTaken'
  <2>1. ASSUME NEW r \in Runs, r <= submitted', CleanTo(r)'
        PROVE  r \in delivered' <=> r \notin Waiting'
    <3>1. r \in delivered <=> r \notin Waiting
      BY <1>2, <2>1 DEF DeliveredWhenTaken
    <3>2. r \in Waiting => r \in pending
      BY <1>2, <2>1, WaitingIsPending
    <3>3. r \notin failed
      BY <1>1, <2>1 DEF CleanTo, Runs
    <3> QED
      BY <1>1, <3>1, <3>2, <3>3
  <2>2. \A r \in Runs : outcome'[r] \in Runs => r \in delivered'
    BY <1>1, ConstantsAssumption DEF DeliveredWhenTaken
  <2> QED
    BY <2>1, <2>2 DEF DeliveredWhenTaken
<1>5. OldestFirst'
  <2>1. activeRun # activeRun' => activeRun \in failed
    BY DEF FailRuns
  <2> QED
    BY <1>1, <2>1 DEF OldestFirst
<1>6. AnswerKept'
  <2>1. activeRun' # None /\ CleanTo(activeRun)' => current' = activeRun'
    BY <1>1, <1>2 DEF AnswerKept, ControllerInv, TypeOK
  <2>2. \A q \in Runs : outcome[q] = Rejected => outcome'[q] = Rejected
    BY <1>1
  <2> QED
    BY <2>1, <2>2 DEF AnswerKept
<1>7. AnswersInOrder'
  BY <1>1 DEF AnswersInOrder
<1> QED
  BY <1>3, <1>4, <1>5, <1>6, <1>7

\* A run submitted is the youngest.
LEMMA SubmitKeepsOrder ==
  ControllerInv /\ Ordered /\ steer = {} /\ steer' = {} /\ Submit => Ordered'
<1> SUFFICES ASSUME ControllerInv, Ordered, steer = {}, steer' = {}, Submit PROVE Ordered'
  OBVIOUS
<1> USE DEF Ordered
<1> DEFINE n == submitted + 1
<1>1. /\ n \in Runs /\ n \in 1..n /\ 1..submitted \subseteq 1..n /\ \A m \in 1..submitted : m < n
      /\ n \notin 1..submitted /\ submitted \in Nat
      /\ \A r \in Runs : r <= n <=> r = n \/ r <= submitted
  BY ConstantsAssumption DEF Submit, ControllerInv, TypeOK, Runs
<1>2. /\ submitted' = n /\ pending' = pending \cup {n} /\ tail' = tail \cup {n}
      /\ ~disposed /\ Waiting' = Waiting \cup {n} /\ Queued' = Queued
      /\ UNCHANGED <<delivered, lastAssistant, outcome, activeRun, inFlight, reading, disposed,
                     loop, prompted, current, steerQueue, followUpQueue>>
  BY DEF Submit, session, Waiting, Queued
<1> HIDE DEF n
<1>3. \A r : CleanTo(r)' <=> CleanTo(r)
  BY <1>2 DEF CleanTo
<1>4. QueueOrder'
  <2>1. \A m \in Waiting : m < n
    BY <1>1 DEF QueueOrder
  <2>2. Queued \subseteq Waiting /\ (reading # None => reading \in Waiting)
    BY DEF Waiting
  <2> QED
    BY <1>1, <1>2, <1>3, <2>1, <2>2 DEF QueueOrder
<1>5. n \notin delivered /\ n \notin pending /\ outcome[n] = None
  <2>1. ~ (n <= submitted)
    BY <1>1 DEF n
  <2> QED
    BY <1>1, <2>1 DEF QueueOrder, ControllerInv, PendingMeansOpen
<1>6. DeliveredWhenTaken'
  BY <1>1, <1>2, <1>3, <1>5 DEF DeliveredWhenTaken
<1>7. OldestFirst'
  <2>1. \A m \in Waiting : m < n
    BY <1>1 DEF QueueOrder
  <2>2. activeRun # None => activeRun <= n
    BY <1>1 DEF QueueOrder, ControllerInv, PendingMeansOpen
  <2> QED
    BY <1>1, <1>2, <1>5, <2>1, <2>2 DEF OldestFirst
<1>8. AnswerKept' /\ AnswersInOrder'
  BY <1>2, <1>3 DEF AnswerKept, AnswersInOrder
<1> QED
  BY <1>4, <1>6, <1>7, <1>8

\* What a dispatch passes over was completed, behind a rejected run.
LEMMA BeginDispatchKeepsOrder == ControllerInv /\ Ordered /\ BeginDispatch => Ordered'
<1> SUFFICES ASSUME ControllerInv, Ordered, BeginDispatch PROVE Ordered'
  OBVIOUS
<1> USE DEF Ordered
<1> DEFINE r == Min(tail)
<1>1. r \in tail /\ r \in Runs /\ tail \subseteq Nat /\ \A t \in tail : r <= t
  <2>1. tail \subseteq Runs /\ tail # {} /\ tail \subseteq Nat
    BY ConstantsAssumption DEF BeginDispatch, ControllerInv, TypeOK, Runs
  <2> QED
    BY <2>1, OldestExists
<1>2. /\ tail' = tail \ {r} /\ reading' = (IF r \in pending THEN r ELSE None) /\ reading = None
      /\ UNCHANGED <<submitted, steer, pending, delivered, lastAssistant, outcome, activeRun, inFlight,
                     disposed, loop, prompted, current, steerQueue, followUpQueue>>
  BY DEF BeginDispatch, session
<1> HIDE DEF r
<1>3. \A q : CleanTo(q)' <=> CleanTo(q)
  BY <1>2 DEF CleanTo
<1>4. /\ Waiting' \subseteq Waiting /\ Waiting \subseteq Waiting' \cup {r} /\ r \in Waiting
      /\ r \in pending => r \in Waiting'
      /\ Queued' = Queued
  BY <1>1, <1>2, ConstantsAssumption DEF Waiting, Queued
<1>5. QueueOrder'
  <2>1. \A t \in tail' : r < t
    BY <1>1, <1>2
  <2> QED
    BY <1>1, <1>2, <1>3, <1>4, <2>1 DEF QueueOrder
<1>6. DeliveredWhenTaken'
  <2>1. CleanTo(r) => r \in pending
    BY <1>4, WaitingIsPending
  <2> QED
    BY <1>2, <1>3, <1>4, <2>1 DEF DeliveredWhenTaken
<1>7. OldestFirst' /\ AnswerKept' /\ AnswersInOrder'
  BY <1>2, <1>3, <1>4 DEF OldestFirst, AnswerKept, AnswersInOrder
<1> QED
  BY <1>5, <1>6, <1>7

\* A message comes to the session behind those it has; a prompt comes to an idle session,
\* and what an earlier loop left queued is then behind a rejected run.
LEMMA EndDispatchKeepsOrder ==
  ControllerInv /\ Ordered /\ steer = {} /\ EndDispatch => Ordered'
<1> SUFFICES ASSUME ControllerInv, Ordered, steer = {}, EndDispatch PROVE Ordered'
  OBVIOUS
<1> USE DEF Ordered
<1>1. /\ UNCHANGED <<submitted, steer, pending, delivered, lastAssistant, outcome, activeRun, tail,
                     disposed, current, steerQueue>>
      /\ reading # None /\ reading' = None /\ reading \in Runs
  BY DEF EndDispatch, ControllerInv, TypeOK
<1>2. \A q : CleanTo(q)' <=> CleanTo(q)
  BY <1>1 DEF CleanTo
<1>3. inFlight \/ prompted = None
  BY DEF QueueOrder, ControllerInv, BusyMeansInFlight
<1>4. CASE inFlight
  <2>1. followUpQueue' = followUpQueue \cup {reading} /\ UNCHANGED <<inFlight, loop, prompted>>
    BY <1>4 DEF EndDispatch
  <2>2. Waiting' = Waiting /\ Queued' = Queued \cup {reading}
    BY <1>1, <2>1 DEF Waiting, Queued
  <2>3. QueueOrder'
    <3>1. \A m \in Queued : m < reading
      BY <1>1 DEF QueueOrder
    <3>2. prompted # None => prompted \in Queued
      BY DEF Queued
    <3>3. prompted # reading
      BY <1>1, <3>1, <3>2, ConstantsAssumption DEF Runs
    <3> QED
      BY <1>1, <1>2, <1>4, <2>1, <2>2, <3>1, <3>2, <3>3 DEF QueueOrder
  <2> QED
    BY <1>1, <1>2, <2>1, <2>2, <2>3 DEF DeliveredWhenTaken, OldestFirst, AnswerKept, AnswersInOrder
<1>5. CASE ~inFlight
  <2>1. /\ inFlight' = TRUE /\ loop' = "starting" /\ prompted' = reading
        /\ UNCHANGED followUpQueue
    BY <1>5 DEF EndDispatch
  <2>2. Waiting' = Waiting /\ Queued' = Queued \cup {reading}
    BY <1>1, <1>3, <1>5, <2>1, ConstantsAssumption DEF Waiting, Queued
  <2>3. QueueOrder'
    <3>1. \A m \in Queued : m < reading
      BY <1>1 DEF QueueOrder
    <3>2. reading \notin followUpQueue
      BY <1>1, <3>1, ConstantsAssumption DEF Runs, Queued
    <3>3. \A f \in followUpQueue : ~CleanTo(f)
      BY <1>5 DEF QueueOrder
    <3> QED
      BY <1>1, <1>2, <2>1, <2>2, <3>1, <3>2, <3>3 DEF QueueOrder
  <2> QED
    BY <1>1, <1>2, <2>1, <2>2, <2>3 DEF DeliveredWhenTaken, OldestFirst, AnswerKept, AnswersInOrder
<1> QED
  BY <1>4, <1>5


\* What the loop takes, before the first rejected run, is the oldest undelivered run's.
LEMMA TakenIsOldest ==
  ASSUME ControllerInv, Ordered, NextMessage # None, ~disposed, NEW r \in Undelivered, CleanTo(r),
         \A q \in Undelivered : r <= q
  PROVE  NextMessage = r
<1> USE DEF Ordered
<1> DEFINE m == NextMessage
<1>1. /\ m \in Queued /\ m \in Runs /\ m \in Nat
      /\ \A f \in followUpQueue : prompted # None \/ m <= f
  <2>1. followUpQueue # {} => /\ Min(followUpQueue) \in followUpQueue
                              /\ \A f \in followUpQueue : Min(followUpQueue) <= f
    BY OldestExists DEF ControllerInv, TypeOK
  <2>2. CASE prompted # None
    BY <2>2, ConstantsAssumption DEF NextMessage, Queued, ControllerInv, TypeOK, Runs
  <2>3. CASE prompted = None
    <3>1. followUpQueue # {} /\ m = Min(followUpQueue)
      BY <2>3 DEF NextMessage, QueueOrder
    <3>2. m \in followUpQueue /\ \A f \in followUpQueue : m <= f
      BY <2>1, <3>1
    <3>3. m \in Runs /\ m \in Nat
      BY <3>2, ConstantsAssumption DEF ControllerInv, TypeOK, Runs
    <3> QED
      BY <3>2, <3>3 DEF Queued
  <2> QED
    BY <2>2, <2>3
<1>2. prompted # None => m = prompted
  BY DEF NextMessage
<1> HIDE DEF m
<1>3. r \in pending /\ r \notin delivered /\ r \in Runs /\ r \in Nat /\ r <= submitted
  BY ConstantsAssumption DEF Undelivered, ControllerInv, TypeOK, PendingMeansOpen, Runs
<1>4. r \in Waiting
  BY <1>3 DEF DeliveredWhenTaken
<1>5. m <= r
  <2>1. CASE r \in tail \/ r = reading
    BY <1>1, <1>3, <2>1, ConstantsAssumption DEF QueueOrder
  <2>2. CASE r \in followUpQueue
    BY <1>1, <1>2, <1>3, <2>2, ConstantsAssumption DEF QueueOrder, ControllerInv, TypeOK
  <2>3. CASE r = prompted
    BY <1>1, <1>2, <1>3, <2>3, ConstantsAssumption
  <2> QED
    BY <1>3, <1>4, <2>1, <2>2, <2>3 DEF Waiting, Queued
<1>6. CleanTo(m)
  BY <1>1, <1>3, <1>5, ConstantsAssumption DEF CleanTo, Runs
<1>7. m \in Undelivered
  BY <1>1, <1>6, WaitingIsPending DEF Waiting, Undelivered
<1>8. m = r
  BY <1>1, <1>3, <1>5, <1>7
<1> QED
  BY <1>8 DEF m

\* Before the first rejected run, a message taken has its run undelivered.
LEMMA TakenIsUndelivered ==
  ASSUME ControllerInv, Ordered, NextMessage # None, CleanTo(NextMessage)
  PROVE  NextMessage \in Undelivered
<1>1. NextMessage \in Waiting
  <2>1. followUpQueue # {} => Min(followUpQueue) \in followUpQueue
    BY OldestExists DEF ControllerInv, TypeOK
  <2> QED
    BY <2>1 DEF NextMessage, Waiting, Queued, Ordered, QueueOrder
<1> QED
  BY <1>1, WaitingIsPending DEF Ordered, Undelivered

\* The verdict of the active run, before the first rejected run, is its own.
LEMMA VerdictIsOwn ==
  ASSUME ControllerInv, Ordered, NEW r \in Runs
  PROVE  VerdictOf(r) \in {Rejected, r} \/ \E q \in Runs : q < r /\ outcome[q] = Rejected
BY DEF Ordered, AnswerKept, VerdictOf

\* Attribution by age.
LEMMA UserMessageStartKeepsOrder ==
  ControllerInv /\ ControllerInv' /\ Ordered /\ steer = {} /\ UserMessageStart => Ordered'
<1> SUFFICES ASSUME ControllerInv, ControllerInv', Ordered, steer = {}, UserMessageStart PROVE Ordered'
  OBVIOUS
<1> USE DEF Ordered
<1> DEFINE m == NextMessage
<1>1. /\ UNCHANGED <<submitted, steer, lastAssistant, inFlight, tail, reading, disposed>>
      /\ current' = m /\ prompted' = None /\ followUpQueue' = followUpQueue \ {m}
      /\ steerQueue' = steerQueue \ {m} /\ m # None
  BY DEF UserMessageStart
<1>2. /\ m \in Queued /\ m \in Runs /\ m \in Nat /\ m <= submitted
      /\ Queued' = Queued \ {m} /\ Waiting' = Waiting \ {m}
  <2>1. m \in Queued
    <3>1. followUpQueue # {} => Min(followUpQueue) \in followUpQueue
      BY OldestExists DEF ControllerInv, TypeOK
    <3> QED
      BY <1>1, <3>1 DEF NextMessage, Queued, QueueOrder
  <2>2. m \in Runs /\ m \in Nat /\ m <= submitted
    BY <2>1, ConstantsAssumption DEF QueueOrder, Waiting, ControllerInv, TypeOK, Runs
  <2>3. Queued' = Queued \ {m}
    BY <1>1, ConstantsAssumption DEF Queued, NextMessage
  <2> HIDE DEF m
  <2>4. m # reading /\ m \notin tail
    <3>1. reading # None => m < reading
      BY <2>1 DEF QueueOrder
    <3>2. \A t \in tail : m < t
      BY <2>1 DEF QueueOrder
    <3> QED
      BY <1>1, <2>2, <3>1, <3>2
  <2> QED
    BY <1>1, <2>1, <2>2, <2>3, <2>4 DEF Waiting
<1> HIDE DEF m

<1>3. \A q \in Runs : q \in delivered' /\ q \notin delivered => q \in Undelivered
  BY OldestExists DEF UserMessageStart, OnUserMessageStart, Undelivered, ControllerInv, TypeOK
<1>4. \A r \in Runs : CleanTo(r)' => CleanTo(r)
  <2>1. \A q \in Runs : q \notin pending => outcome'[q] = outcome[q]
    BY DEF UserMessageStart, OnUserMessageStart, ControllerInv, TypeOK, PendingMeansOpen
  <2> QED
    BY <2>1, RejectedStays
<1>5. QueueOrder'
  <2>1. delivered' \subseteq 1..submitted'
    BY <1>1, <1>3, ConstantsAssumption
    DEF Undelivered, QueueOrder, ControllerInv, TypeOK, PendingMeansOpen, Runs
  <2>2. Waiting' \subseteq 1..submitted'
    BY <1>1, <1>2 DEF QueueOrder
  <2>3. /\ \A q \in Queued' : (reading' # None => q < reading') /\ \A t \in tail' : q < t
        /\ reading' # None => \A t \in tail' : reading' < t
    BY <1>1, <1>2 DEF QueueOrder
  <2>4. \A f \in followUpQueue' : CleanTo(f)' => inFlight'
    BY <1>1, <1>4 DEF QueueOrder, ControllerInv, TypeOK
  <2>5. steerQueue' = {} /\ prompted' \notin followUpQueue'
    BY <1>1, ConstantsAssumption DEF QueueOrder, ControllerInv, TypeOK
  <2> QED
    BY <1>1, <2>1, <2>2, <2>3, <2>4, <2>5 DEF QueueOrder
<1>6. CASE disposed \/ Undelivered = {}
  <2>1. UNCHANGED <<pending, delivered, outcome, activeRun>>
    BY <1>6 DEF UserMessageStart, OnUserMessageStart
  <2>2. disposed => pending = {} /\ activeRun = None
    BY DEF OldestFirst, ControllerInv, PendingMeansOpen
  <2>3. ~CleanTo(m)
    BY <1>1, <1>6, <2>2, TakenIsUndelivered DEF m, Undelivered
  <2>4. DeliveredWhenTaken'
    BY <1>1, <1>2, <1>4, <2>1, <2>3 DEF DeliveredWhenTaken
  <2>5. OldestFirst'
    BY <1>1, <1>2, <2>1 DEF OldestFirst
  <2>6. ~(activeRun # None /\ CleanTo(activeRun))
    <3> SUFFICES ASSUME activeRun # None, CleanTo(activeRun)
                 PROVE  FALSE
      OBVIOUS
    <3>1. activeRun \in Runs /\ activeRun \in pending /\ activeRun \in delivered
      BY DEF ControllerInv, TypeOK, PendingMeansOpen
    <3>2. CASE m \in pending
      BY <1>6, <2>2, <2>3, <3>2 DEF Undelivered, OldestFirst
    <3>3. CASE m \notin pending
      <4>1. m < activeRun
        BY <1>2, <3>1, <3>3, ConstantsAssumption DEF OldestFirst, Waiting, Runs
      <4> QED
        BY <1>2, <2>3, <3>1, <4>1, ConstantsAssumption DEF CleanTo, Runs
    <3> QED
      BY <3>2, <3>3
  <2>7. AnswerKept'
    BY <1>1, <1>4, <2>1, <2>6 DEF AnswerKept, ControllerInv, TypeOK
  <2> QED
    BY <1>1, <1>5, <2>1, <2>4, <2>5, <2>7 DEF AnswersInOrder
<1>7. CASE ~(disposed \/ Undelivered = {})
  <2> DEFINE c == Min(Undelivered)
             done == activeRun # None /\ activeRun # c
  <2>1. c \in Undelivered /\ c \in Runs /\ c \in Nat /\ \A u \in Undelivered : c <= u
    <3>1. Undelivered \subseteq Runs /\ Undelivered # {}
      BY <1>7 DEF Undelivered, ControllerInv, TypeOK
    <3>2. c \in Undelivered /\ \A u \in Undelivered : c <= u
      BY <3>1, OldestExists
    <3> HIDE DEF c
    <3>3. Undelivered \subseteq Nat
      BY <3>1, ConstantsAssumption DEF Runs
    <3> QED
      BY <3>1, <3>2, <3>3
  <2>2. /\ delivered' = delivered \cup {c} /\ activeRun' = c
        /\ outcome' = IF done THEN [outcome EXCEPT ![activeRun] = VerdictOf(activeRun)] ELSE outcome
        /\ pending' = IF done THEN pending \ {activeRun} ELSE pending
    BY <1>7 DEF UserMessageStart, OnUserMessageStart
  <2> HIDE DEF c
  <2>3. c \in pending /\ c \notin delivered
    BY <2>1 DEF Undelivered
  <2>4. /\ activeRun # None => activeRun \in Runs /\ activeRun \in pending /\ activeRun \in delivered
        /\ done <=> activeRun # None
    BY <2>3 DEF ControllerInv, TypeOK, PendingMeansOpen
  <2> HIDE DEF done
  <2>5. \A q \in Runs : q # activeRun => outcome'[q] = outcome[q]
    BY <2>2, <2>4 DEF ControllerInv, TypeOK
  <2>6. CleanTo(c) => m = c
    BY <1>1, <1>7, <2>1, TakenIsOldest DEF m
  <2>7. DeliveredWhenTaken'
    <3>1. CleanTo(m) => m = c
      <4>1. CleanTo(m) => m \in Undelivered
        BY <1>1, TakenIsUndelivered DEF m
      <4>2. CleanTo(m) => CleanTo(c)
        BY <1>2, <2>1, <4>1, ConstantsAssumption DEF CleanTo, Runs
      <4> QED
        BY <2>6, <4>2
    <3>2. \A r \in Runs : outcome'[r] \in Runs => r \in delivered'
      BY <2>2, <2>4, <2>5 DEF DeliveredWhenTaken
    <3>3. ASSUME NEW r \in Runs, r <= submitted', CleanTo(r)'
          PROVE  r \in delivered' <=> r \notin Waiting'
      <4>1. CleanTo(r) /\ r <= submitted
        BY <1>1, <1>4, <3>3
      <4>2. CASE r = m \/ r = c
        BY <1>2, <2>2, <2>6, <3>1, <4>1, <4>2
      <4>3. CASE r # m /\ r # c
        BY <1>2, <2>2, <4>1, <4>3 DEF DeliveredWhenTaken
      <4> QED
        BY <4>2, <4>3
    <3> QED
      BY <3>2, <3>3 DEF DeliveredWhenTaken
  <2>8. OldestFirst'
    <3>1. pending' \cap delivered' \subseteq {c}
      <4> SUFFICES ASSUME NEW x \in pending', x \in delivered', x # c
                   PROVE  FALSE
        OBVIOUS
      <4>1. x \in pending /\ x \in delivered /\ x \in Runs
        BY <2>2 DEF ControllerInv, TypeOK
      <4>2. x = activeRun /\ activeRun # None
        BY <4>1, ConstantsAssumption DEF OldestFirst
      <4> QED
        BY <2>2, <2>4, <4>2
    <3>2. \A r \in pending' : c <= r
      <4> SUFFICES ASSUME NEW r \in pending'
                   PROVE  c <= r
        OBVIOUS
      <4>1. r \in pending
        BY <2>2
      <4>2. r = c \/ r \in Undelivered
        BY <2>2, <3>1, <4>1 DEF Undelivered
      <4> QED
        BY <2>1, <4>2
    <3>3. ASSUME NEW x \in Waiting' \ pending', NEW r \in pending'
          PROVE  r > x
      <4>1. x \in Waiting /\ r \in pending /\ r \in Runs
        BY <1>2, <2>2, <3>3 DEF ControllerInv, TypeOK
      <4>2. CASE x \notin pending
        BY <4>1, <4>2 DEF OldestFirst
      <4>3. CASE x \in pending
        <5>1. x = activeRun /\ activeRun # None /\ r # x
          BY <2>2, <3>3, <4>3, <2>4
        <5> QED
          BY <2>4, <4>1, <5>1, ConstantsAssumption DEF OldestFirst, Runs
      <4> QED
        BY <4>2, <4>3
    <3> QED
      BY <1>1, <1>7, <2>2, <3>1, <3>2, <3>3 DEF OldestFirst
  <2>9. \A q \in Runs : outcome[q] = Rejected => outcome'[q] = Rejected
    BY <2>4, <2>5, ConstantsAssumption DEF ControllerInv, PendingMeansOpen
  <2>10. AnswerKept'
    BY <1>1, <1>4, <2>1, <2>2, <2>6, <2>9 DEF AnswerKept
  <2>11. AnswersInOrder'
    <3>1. ASSUME NEW r \in Runs
          PROVE  outcome'[r] \in {None, Rejected, r} \/ \E q \in Runs : q < r /\ outcome[q] = Rejected
      <4>1. CASE r = activeRun
        <5>1. outcome'[r] = VerdictOf(r)
          BY <2>2, <2>4, <4>1, ConstantsAssumption DEF ControllerInv, TypeOK
        <5> QED
          BY <5>1, VerdictIsOwn
      <4>2. CASE r # activeRun
        BY <2>5, <4>2 DEF AnswersInOrder
      <4> QED
        BY <4>1, <4>2
    <3> QED
      BY <2>9, <3>1 DEF AnswersInOrder
  <2> QED
    BY <1>5, <2>7, <2>8, <2>10, <2>11
<1> QED
  BY <1>6, <1>7

\* The answer is kept for the active run.
LEMMA AssistantMessageEndKeepsOrder ==
  ASSUME ControllerInv, Ordered, NEW ok \in BOOLEAN, AssistantMessageEnd(ok)
  PROVE  Ordered'
<1> USE DEF Ordered
<1>1. /\ UNCHANGED <<submitted, steer, pending, delivered, outcome, activeRun, inFlight, tail,
                     reading, disposed, prompted, current, steerQueue, followUpQueue>>
      /\ prompted = None
  BY DEF AssistantMessageEnd, QueueOrder
<1>2. \A q : CleanTo(q)' <=> CleanTo(q)
  BY <1>1 DEF CleanTo
<1>3. Waiting' = Waiting /\ Queued' = Queued
  BY <1>1 DEF Waiting, Queued
<1>4. QueueOrder'
  BY <1>1, <1>2, <1>3 DEF QueueOrder
<1>5. DeliveredWhenTaken' /\ OldestFirst' /\ AnswersInOrder'
  BY <1>1, <1>2, <1>3 DEF DeliveredWhenTaken, OldestFirst, AnswersInOrder
<1>6. AnswerKept'
  <2>1. ASSUME NEW r \in Runs, lastAssistant'[r] # None
        PROVE  lastAssistant'[r].answers = r \/ \E q \in Runs : q < r /\ outcome[q] = Rejected
    <3>1. CASE lastAssistant'[r] = lastAssistant[r]
      BY <2>1, <3>1 DEF AnswerKept
    <3>2. CASE lastAssistant'[r] # lastAssistant[r]
      <4>1. r = activeRun /\ activeRun # None /\ lastAssistant'[r].answers = current
        BY <3>2 DEF AssistantMessageEnd, ControllerInv, TypeOK
      <4>2. outcome[r] = None
        BY <4>1 DEF ControllerInv, TypeOK, PendingMeansOpen
      <4>3. CleanTo(r) \/ \E q \in Runs : q < r /\ outcome[q] = Rejected
        BY <4>2, ConstantsAssumption DEF CleanTo, Runs
      <4> QED
        BY <4>1, <4>3 DEF AnswerKept
    <3> QED
      BY <3>1, <3>2
  <2> QED
    BY <1>1, <1>2, <2>1 DEF AnswerKept
<1> QED
  BY <1>4, <1>5, <1>6

\* The end of the loop rejects what it leaves queued.
LEMMA AgentEndKeepsOrder ==
  ControllerInv /\ ControllerInv' /\ Ordered /\ steer = {} /\ AgentEnd => Ordered'
<1> SUFFICES ASSUME ControllerInv, ControllerInv', Ordered, steer = {}, AgentEnd
             PROVE  Ordered'
  OBVIOUS
<1> USE DEF Ordered
<1>1. /\ UNCHANGED <<submitted, steer, delivered, lastAssistant, tail, reading, disposed, prompted,
                     steerQueue, followUpQueue>>
      /\ prompted = None
  BY DEF AgentEnd, QueueOrder
<1>2. Waiting' = Waiting /\ Queued' = Queued
  BY <1>1 DEF Waiting, Queued
<1>3. pending' = {} /\ activeRun' = None
  BY DEF AgentEnd, OnAgentEnd, OldestFirst, ControllerInv, PendingMeansOpen
<1>4. \A q \in Runs : q \notin pending => outcome'[q] = outcome[q]
  <2>1. \A q \in Runs : q \notin pending => q # activeRun
    BY ConstantsAssumption DEF ControllerInv, PendingMeansOpen
  <2> QED
    BY <2>1 DEF AgentEnd, OnAgentEnd
<1>5. \A r \in Runs : CleanTo(r)' => CleanTo(r)
  BY <1>4, RejectedStays
<1>6. \A r \in Waiting : r \in Runs /\ ~CleanTo(r)'
  <2> SUFFICES ASSUME NEW r \in Waiting, r \in Runs => CleanTo(r)'
               PROVE  FALSE
    OBVIOUS
  <2>1. r \in Runs /\ r \in 1..submitted
    BY ConstantsAssumption DEF QueueOrder, ControllerInv, TypeOK, Runs
  <2>2. r \in pending /\ r \notin delivered
    BY <1>5, <2>1, WaitingIsPending
  <2>3. ~disposed /\ r # activeRun
    BY <2>1, <2>2, ConstantsAssumption DEF OldestFirst, ControllerInv, PendingMeansOpen
  <2>4. outcome'[r] = Rejected
    BY <2>1, <2>2, <2>3 DEF AgentEnd, OnAgentEnd
  <2> QED
    BY <2>1, <2>4 DEF CleanTo, Runs
<1>7. QueueOrder'
  BY <1>1, <1>2, <1>6 DEF QueueOrder, Waiting, Queued
<1>8. \A r \in Runs : outcome[r] = None => r \in pending \/ r > submitted
  BY ConstantsAssumption DEF ControllerInv, TypeOK, PendingMeansOpen, Runs
<1>9. DeliveredWhenTaken'
  <2>1. ASSUME NEW r \in Runs, outcome'[r] \in Runs
        PROVE  r \in delivered
    <3>1. CASE outcome'[r] = outcome[r]
      BY <2>1, <3>1 DEF DeliveredWhenTaken
    <3>2. CASE outcome'[r] # outcome[r]
      BY <2>1, <3>2, ConstantsAssumption
      DEF AgentEnd, OnAgentEnd, ControllerInv, TypeOK, PendingMeansOpen
    <3> QED
      BY <3>1, <3>2
  <2> QED
    BY <1>1, <1>2, <1>5, <2>1 DEF DeliveredWhenTaken
<1>10. OldestFirst'
  BY <1>1, <1>2, <1>3 DEF OldestFirst
<1>11. \A q \in Runs : outcome[q] = Rejected => outcome'[q] = Rejected
  BY <1>4, ConstantsAssumption DEF ControllerInv, TypeOK, PendingMeansOpen
<1>12. AnswerKept'
  BY <1>1, <1>3, <1>11 DEF AnswerKept
<1>13. AnswersInOrder'
  <2>1. ASSUME NEW r \in Runs
        PROVE  outcome'[r] \in {None, Rejected, r} \/ \E q \in Runs : q < r /\ outcome[q] = Rejected
    <3>1. outcome'[r] \in {VerdictOf(r), Rejected, outcome[r]}
      BY DEF AgentEnd, OnAgentEnd
    <3> QED
      BY <3>1, VerdictIsOwn DEF AnswersInOrder
  <2> QED
    BY <1>11, <2>1 DEF AnswersInOrder
<1> QED
  BY <1>7, <1>9, <1>10, <1>12, <1>13

\* Nothing is submitted.
LEMMA InitOrdered == Init => OrderInv
<1> SUFFICES ASSUME Init
             PROVE  Ordered
  BY DEF OrderInv
<1>1. Waiting = {} /\ Queued = {}
  BY DEF Init, Waiting, Queued
<1>2. \A r \in Runs : ~(r <= submitted)
  BY ConstantsAssumption DEF Init, Runs
<1> QED
  BY <1>1, <1>2, ConstantsAssumption
  DEF Init, Ordered, QueueOrder, DeliveredWhenTaken, OldestFirst, AnswerKept, AnswersInOrder

\* Every step.
LEMMA NextKeepsOrder == ControllerInv /\ OrderInv /\ [Next]_vars => OrderInv'
<1> SUFFICES ASSUME ControllerInv, OrderInv, [Next]_vars, steer' = {}
             PROVE  Ordered'
  BY DEF OrderInv
<1>1. ControllerInv'
  BY NextPreserves
<1>2. steer = {}
  BY DEF Next, Submit, Dispatching, BeginDispatch, EndDispatch, DispatchFails, PromptRefused, Dispose,
         Session, AgentStart, UserMessageStart, AssistantMessageEnd, AgentEnd, vars, controller
<1>3. Ordered
  BY <1>2 DEF OrderInv
<1>4. CASE UNCHANGED vars \/ AgentStart
  BY <1>3, <1>4
  DEF vars, controller, session, AgentStart, Ordered, QueueOrder, DeliveredWhenTaken, OldestFirst,
      AnswerKept, AnswersInOrder, Waiting, Queued, CleanTo
<1>5. CASE Submit
  BY <1>2, <1>3, <1>5, SubmitKeepsOrder
<1>6. CASE BeginDispatch \/ EndDispatch
  BY <1>2, <1>3, <1>6, BeginDispatchKeepsOrder, EndDispatchKeepsOrder
<1>7. CASE DispatchFails
  BY <1>2, <1>3, <1>7, FailingKeepsOrder
  DEF DispatchFails, session, Waiting, Queued, Ordered, QueueOrder
<1>8. CASE PromptRefused
  <2>1. prompted \in Runs => prompted \in Queued /\ prompted \in Nat
    BY ConstantsAssumption DEF Queued, Runs
  <2>2. /\ Waiting' = (({reading} \ {None}) \cup tail \cup followUpQueue)
        /\ Waiting \subseteq Waiting' \cup {prompted}
    BY <1>8 DEF PromptRefused, Waiting, Queued
  <2>3. prompted \in Runs => prompted \notin Waiting'
    BY <1>3, <2>1, <2>2 DEF Ordered, QueueOrder
  <2>4. /\ UNCHANGED <<submitted, steer, delivered, lastAssistant, inFlight, tail, reading, disposed,
                       current, steerQueue, followUpQueue>>
        /\ prompted' = None /\ FailRuns({prompted} \cap pending)
    BY <1>8 DEF PromptRefused
  <2>5. ({prompted} \cap pending) \cap Waiting' = {}
    BY <2>3 DEF ControllerInv, TypeOK
  <2> QED
    BY <1>2, <1>3, <2>2, <2>4, <2>5, FailingKeepsOrder
<1>9. CASE Dispose
  BY <1>2, <1>3, <1>9, FailingKeepsOrder
  DEF Dispose, session, Waiting, Queued, Ordered, QueueOrder
<1>10. CASE UserMessageStart \/ AgentEnd
  BY <1>1, <1>2, <1>3, <1>10, UserMessageStartKeepsOrder, AgentEndKeepsOrder
<1>11. CASE \E ok \in BOOLEAN : AssistantMessageEnd(ok)
  BY <1>3, <1>11, AssistantMessageEndKeepsOrder
<1> QED
  BY <1>4, <1>5, <1>6, <1>7, <1>8, <1>9, <1>10, <1>11 DEF Next, Dispatching, Session

--------------------------------------------------------------------------------
\* The invariant holds throughout.
THEOREM InductiveInvariant == Spec => []ControllerInv
BY InitHolds, NextPreserves, PTL DEF Spec

\* Every variable of the controller and of the session keeps its type.
THEOREM TypeCorrect == Spec => []TypeOK
BY InductiveInvariant, PTL DEF ControllerInv

\* pendingRuns is the set of submitted runs without an outcome, and the run that
\* receives the session's progress is a delivered one of them.
THEOREM PendingCorrect == Spec => []PendingMeansOpen
BY InductiveInvariant, PTL DEF ControllerInv

\* prompt() never meets a session whose loop is under way.
THEOREM PromptWhenIdle == Spec => []BusyMeansInFlight
BY InductiveInvariant, PTL DEF ControllerInv

\* Without steering, the invariant of the order of messages holds throughout.
THEOREM OrderInvariant == Spec => []OrderInv
BY InitOrdered, NextKeepsOrder, InductiveInvariant, PTL DEF Spec

\* Without steering, every answer before the first rejected run goes to the run it answers,
\* although the controller attributes messages by age alone (onUserMessageStart).
THEOREM AnswersFindTheirRuns == Spec => []AnswersInOrder
<1>1. OrderInv => AnswersInOrder
  BY DEF OrderInv, Ordered, AnswersInOrder
<1> QED
  BY <1>1, OrderInvariant, PTL
================================================================================
