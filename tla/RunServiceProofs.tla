--------------------------- MODULE RunServiceProofs ---------------------------
(***************************************************************************)
(* Proofs about RunService, for every set of requests, every number of rows *)
(* and every bound.                                                         *)
(***************************************************************************)
EXTENDS RunService, FiniteSetTheorems, TLAPS

USE DEF NoRun

--------------------------------------------------------------------------------
\* Facts about the operators.

\* Appending to a sequence adds one element to its range.
LEMMA RangeOfAppend ==
  ASSUME NEW S, NEW s \in Seq(S), NEW x \in S
  PROVE  RangeOf(Append(s, x)) = RangeOf(s) \cup {x}
<1>1. /\ Append(s, x) \in Seq(S)
      /\ Len(s) \in Nat
      /\ DOMAIN s = 1..Len(s)
      /\ DOMAIN Append(s, x) = 1..(Len(s) + 1)
      /\ Append(s, x)[Len(s) + 1] = x
      /\ \A i \in 1..Len(s) : Append(s, x)[i] = s[i]
  OBVIOUS
<1>2. ASSUME NEW y \in RangeOf(Append(s, x)) PROVE y \in RangeOf(s) \cup {x}
  <2>1. PICK i \in 1..(Len(s) + 1) : y = Append(s, x)[i]
    BY <1>1, <1>2 DEF RangeOf
  <2>2. CASE i = Len(s) + 1
    BY <1>1, <2>1, <2>2
  <2>3. CASE i \in 1..Len(s)
    BY <1>1, <2>1, <2>3 DEF RangeOf
  <2> QED BY <1>1, <2>1, <2>2, <2>3
<1>3. ASSUME NEW y \in RangeOf(s) PROVE y \in RangeOf(Append(s, x))
  <2>1. PICK i \in 1..Len(s) : y = s[i]
    BY <1>1, <1>3 DEF RangeOf
  <2>2. i \in DOMAIN Append(s, x) /\ Append(s, x)[i] = y
    BY <1>1, <2>1
  <2> QED BY <2>2 DEF RangeOf
<1>4. x \in RangeOf(Append(s, x))
  <2>1. Len(s) + 1 \in DOMAIN Append(s, x)
    BY <1>1
  <2> QED BY <1>1, <2>1 DEF RangeOf
<1> QED BY <1>2, <1>3, <1>4

\* Dropping the head adds nothing to the range.
LEMMA RangeOfTail ==
  ASSUME NEW S, NEW s \in Seq(S), s # <<>>
  PROVE  /\ RangeOf(Tail(s)) \subseteq RangeOf(s)
         /\ Head(s) \in RangeOf(s)
<1>1. /\ Len(s) \in Nat /\ Len(s) > 0
      /\ DOMAIN s = 1..Len(s)
      /\ Head(s) = s[1]
      /\ DOMAIN Tail(s) = 1..(Len(s) - 1)
      /\ \A i \in 1..(Len(s) - 1) : Tail(s)[i] = s[i + 1]
  OBVIOUS
<1>2. Head(s) \in RangeOf(s)
  BY <1>1 DEF RangeOf
<1>3. ASSUME NEW y \in RangeOf(Tail(s)) PROVE y \in RangeOf(s)
  <2>1. PICK i \in 1..(Len(s) - 1) : y = Tail(s)[i]
    BY <1>1, <1>3 DEF RangeOf
  <2>2. i + 1 \in DOMAIN s /\ s[i + 1] = y
    BY <1>1, <2>1
  <2> QED BY <2>2 DEF RangeOf
<1> QED BY <1>2, <1>3

\* What is scheduled is a run.
LEMMA ScheduledType ==
  ASSUME tails \in [Threads -> Seq(Runs)]
  PROVE  Scheduled \subseteq Runs
<1>1. \A t \in Threads : RangeOf(tails[t]) \subseteq Runs
  BY DEF RangeOf
<1> QED BY <1>1 DEF Scheduled

\* A recovery pass looks at rows of the table only.
LEMMA ListRunningRunsType == ListRunningRuns \subseteq {r \in Runs : status[r] = "running"}
  BY DEF ListRunningRuns

--------------------------------------------------------------------------------
\* Types.

\* Initially every variable has its type.
LEMMA InitTypeOK == Init => TypeOK
<1> SUFFICES ASSUME Init PROVE TypeOK
  OBVIOUS
<1> USE DEF Init
<1>1. created \in 0..MaxRuns /\ stops \in 0..MaxStops /\ faults \in 0..MaxFaults
  BY BoundsAssumption
<1>2. handoff \in Seq(Runs) /\ tails \in [Threads -> Seq(Runs)]
  OBVIOUS
<1>3. /\ row \in [Runs -> Messages \cup {NoMessage}]
      /\ status \in [Runs -> Statuses]
      /\ ingest \in [Keys -> Runs \cup {NoRun}]
  BY DEF Statuses
<1>4. /\ announced \in [Runs -> {"none"} \cup Outcomes]
      /\ launched \in [Runs -> Nat]
      /\ phase \in Phases
      /\ recovering \in BOOLEAN
  BY DEF Phases
<1>5. /\ recoveryLeft \subseteq Runs /\ active \subseteq Runs /\ awaited \subseteq Runs
      /\ live \subseteq Execution
      /\ replies \subseteq [message : Messages, run : Runs \cup {Rejected}]
  OBVIOUS
<1> QED BY <1>1, <1>2, <1>3, <1>4, <1>5 DEF TypeOK

\* The memory of a process that just began has its type.
LEMMA LoseMemoryType ==
  ASSUME LoseMemory
  PROVE  /\ handoff' \in Seq(Runs)
         /\ tails' \in [Threads -> Seq(Runs)]
         /\ active' \subseteq Runs
         /\ live' \subseteq Execution
         /\ awaited' \subseteq Runs
         /\ announced' \in [Runs -> {"none"} \cup Outcomes]
         /\ launched' \in [Runs -> Nat]
  BY DEF LoseMemory

\* Startup and shutdown preserve the types.
LEMMA LifecycleTypeOK == TypeOK /\ Lifecycle => TypeOK'
<1> SUFFICES ASSUME TypeOK, Lifecycle PROVE TypeOK'
  OBVIOUS
<1> USE BoundsAssumption DEF TypeOK, tables, process, seen, history, Phases
<1>1. CASE Boot
  <2>1. recoveryLeft' \subseteq Runs
    BY <1>1, ListRunningRunsType DEF Boot
  <2> QED BY <1>1, <2>1, LoseMemoryType DEF Boot
<1>2. CASE Crash
  <2>1. stops' \in 0..MaxStops /\ recoveryLeft' \subseteq Runs
    BY <1>2 DEF Crash
  <2> QED BY <1>2, <2>1, LoseMemoryType DEF Crash
<1>3. CASE BeginShutdown
  BY <1>3 DEF BeginShutdown
<1>4. CASE StopScheduler
  BY <1>4, ScheduledType DEF StopScheduler
<1>5. CASE AwaitCompletions
  BY <1>5 DEF AwaitCompletions
<1>6. CASE CloseDatabase
  BY <1>6 DEF CloseDatabase
<1> QED BY <1>1, <1>2, <1>3, <1>4, <1>5, <1>6 DEF Lifecycle

\* Schedule keeps the dispatch queues queues of runs.
LEMMA ScheduleType ==
  ASSUME tails \in [Threads -> Seq(Runs)], NEW r \in Runs, Schedule(r)
  PROVE  tails' \in [Threads -> Seq(Runs)]
<1>1. CASE r \in Scheduled
  BY <1>1 DEF Schedule
<1>2. CASE r \notin Scheduled
  <2>1. tails' = [tails EXCEPT ![ThreadOf(r)] = Append(@, r)]
    BY <1>2 DEF Schedule
  <2>2. \A t \in Threads : Append(tails[t], r) \in Seq(Runs)
    OBVIOUS
  <2> QED BY <2>1, <2>2
<1> QED BY <1>1, <1>2

\* Ingest preserves the types.
LEMMA IngestTypeOK == TypeOK /\ RowsInv /\ Ingest => TypeOK'
<1> SUFFICES ASSUME TypeOK, RowsInv, Ingest PROVE TypeOK'
  OBVIOUS
<1> USE BoundsAssumption, MessagesAssumption DEF TypeOK, tables, seen, history
<1>1. CASE EnqueueCreatedRun
  <2> DEFINE r == Head(handoff)
  <2>1. r \in Runs /\ handoff' \in Seq(Runs)
    BY <1>1 DEF EnqueueCreatedRun
  <2>2. tails' \in [Threads -> Seq(Runs)]
    BY <1>1, <2>1, ScheduleType DEF EnqueueCreatedRun
  <2>3. row[r] \in Messages
    <3>1. r \in RangeOf(handoff)
      BY <1>1, RangeOfTail DEF EnqueueCreatedRun
    <3> QED BY <2>1, <3>1 DEF RowsInv
  <2>4. replies' \subseteq [message : Messages, run : Runs \cup {Rejected}]
    BY <1>1, <2>1, <2>3 DEF EnqueueCreatedRun
  <2> QED BY <1>1, <2>1, <2>2, <2>4 DEF EnqueueCreatedRun
<1>2. ASSUME NEW m \in Messages, IngestMessage(m) PROVE TypeOK'
  <2>1. CASE CreateRun(m)
    <3>1. created + 1 \in Runs
      BY <2>1 DEF CreateRun, Runs
    <3> QED BY <1>2, <2>1, <3>1 DEF IngestMessage, CreateRun, Statuses
  <2>2. CASE Deduplicate(m)
    <3>1. DuplicateOf(m) \in Runs
      BY <2>2 DEF Deduplicate, DuplicateOf
    <3> QED BY <1>2, <2>2, <3>1 DEF IngestMessage, Deduplicate
  <2> QED BY <1>2, <2>1, <2>2 DEF IngestMessage
<1> QED BY <1>1, <1>2 DEF Ingest

\* Dispatch preserves the types.
LEMMA SchedulingTypeOK == TypeOK /\ Scheduling => TypeOK'
<1> SUFFICES ASSUME TypeOK, NEW t \in Threads, Dispatch(t) \/ DispatchFails(t) PROVE TypeOK'
  BY DEF Scheduling
<1> USE DEF TypeOK, tables, seen
<1>1. tails[t] # <<>> /\ tails' \in [Threads -> Seq(Runs)] /\ Head(tails[t]) \in Runs
  <2>1. tails[t] # <<>> /\ tails' = [tails EXCEPT ![t] = Tail(@)]
    BY DEF Dispatch, DispatchFails
  <2>2. Head(tails[t]) \in Runs /\ Tail(tails[t]) \in Seq(Runs)
    BY <2>1
  <2> QED BY <2>1, <2>2
<1>2. CASE Dispatch(t)
  <2>1. CASE SchedulerStarted /\ Runnable(Head(tails[t]))
    <3>1. Launch(Head(tails[t]))
      BY <1>2, <2>1 DEF Dispatch
    <3>2. launched' \in [Runs -> Nat] /\ active' \subseteq Runs
      BY <1>1, <3>1 DEF Launch
    <3>3. live' \subseteq Execution
      BY <1>1, <3>1 DEF Launch, Execution, Pcs
    <3> QED BY <1>1, <1>2, <3>2, <3>3 DEF Dispatch
  <2>2. CASE ~(SchedulerStarted /\ Runnable(Head(tails[t])))
    BY <1>1, <1>2, <2>2 DEF Dispatch
  <2> QED BY <2>1, <2>2
<1>3. CASE DispatchFails(t)
  BY <1>1, <1>3, BoundsAssumption DEF DispatchFails
<1> QED BY <1>2, <1>3

\* The steps of an execution preserve the types.
LEMMA ExecutingTypeOK == TypeOK /\ Executing => TypeOK'
<1> SUFFICES ASSUME TypeOK, Executing PROVE TypeOK'
  OBVIOUS
<1> USE BoundsAssumption DEF TypeOK, tables, seen, history
<1>1. PICK e \in live : \/ ExecutorRejects(e) \/ ExecutorResolves(e) \/ MarkSucceededFails(e)
                        \/ MarkFailed(e) \/ MarkFailedFails(e) \/ AnnounceOutcome(e)
  BY DEF Executing
<1>2. e.run \in Runs /\ e.pc \in Pcs
  BY DEF Execution
<1>3. ASSUME NEW pc \in Pcs, Moves(e, pc) PROVE live' \subseteq Execution
  <2>1. [e EXCEPT !.pc = pc] \in Execution
    BY <1>1 DEF Execution
  <2> QED BY <1>3, <2>1 DEF Moves
<1>4. ASSUME Returns(e) PROVE live' \subseteq Execution /\ active' \subseteq Runs
  BY <1>4 DEF Returns
<1>5. ASSUME NEW outcome \in Outcomes, MarkTerminal(e.run, outcome)
      PROVE  status' \in [Runs -> Statuses]
  BY <1>2, <1>5 DEF MarkTerminal, Outcomes, Statuses
<1>6. CASE ExecutorRejects(e)
  <2>1. live' \subseteq Execution
    BY <1>3, <1>6 DEF ExecutorRejects, Pcs
  <2> QED BY <1>6, <2>1 DEF ExecutorRejects
<1>7. CASE ExecutorResolves(e)
  <2>1. live' \subseteq Execution
    BY <1>3, <1>7 DEF ExecutorResolves, Pcs
  <2>2. status' \in [Runs -> Statuses]
    BY <1>5, <1>7 DEF ExecutorResolves, Outcomes
  <2> QED BY <1>7, <2>1, <2>2 DEF ExecutorResolves
<1>8. CASE MarkSucceededFails(e)
  <2>1. live' \subseteq Execution
    BY <1>3, <1>8 DEF MarkSucceededFails, Pcs
  <2> QED BY <1>8, <2>1 DEF MarkSucceededFails
<1>9. CASE MarkFailed(e)
  <2>1. live' \subseteq Execution /\ active' \subseteq Runs
    BY <1>3, <1>4, <1>9 DEF MarkFailed, Pcs
  <2>2. status' \in [Runs -> Statuses]
    BY <1>5, <1>9 DEF MarkFailed, Outcomes
  <2> QED BY <1>9, <2>1, <2>2 DEF MarkFailed
<1>10. CASE MarkFailedFails(e)
  BY <1>4, <1>10 DEF MarkFailedFails
<1>11. CASE AnnounceOutcome(e)
  <2>1. announced' \in [Runs -> {"none"} \cup Outcomes]
    BY <1>2, <1>11 DEF AnnounceOutcome
  <2> QED BY <1>4, <1>11, <2>1 DEF AnnounceOutcome
<1> QED BY <1>1, <1>6, <1>7, <1>8, <1>9, <1>10, <1>11

\* Recovery preserves the types.
LEMMA RecoveringTypeOK == TypeOK /\ Recovering => TypeOK'
<1> SUFFICES ASSUME TypeOK, Recovering PROVE TypeOK'
  OBVIOUS
<1> USE DEF TypeOK, tables, seen, history
<1>1. CASE RecoveryTick
  <2>1. recoveryLeft' \subseteq Runs
    BY <1>1, ListRunningRunsType DEF RecoveryTick
  <2> QED BY <1>1, <2>1 DEF RecoveryTick
<1>2. CASE RecoverNextRun
  <2>1. tails' \in [Threads -> Seq(Runs)]
    BY <1>2, ScheduleType DEF RecoverNextRun
  <2>2. recoveryLeft' \subseteq Runs
    BY <1>2 DEF RecoverNextRun
  <2> QED BY <1>2, <2>1, <2>2 DEF RecoverNextRun
<1>3. CASE EndRecovery
  BY <1>3 DEF EndRecovery, Phases
<1> QED BY <1>1, <1>2, <1>3 DEF Recovering

\* Every step preserves the types.
LEMMA NextTypeOK == TypeOK /\ RowsInv /\ [Next]_vars => TypeOK'
<1> SUFFICES ASSUME TypeOK, RowsInv, [Next]_vars PROVE TypeOK'
  OBVIOUS
<1>1. CASE Next
  BY <1>1, LifecycleTypeOK, IngestTypeOK, SchedulingTypeOK, ExecutingTypeOK,
     RecoveringTypeOK DEF Next
<1>2. CASE UNCHANGED vars
  BY <1>2 DEF vars, tables, process, seen, history, TypeOK
<1> QED BY <1>1, <1>2

--------------------------------------------------------------------------------
\* Which steps change what.

\* Only ingest changes the request columns, the keys and the replies.
LEMMA IngestFrame ==
  ASSUME Lifecycle \/ Scheduling \/ Executing \/ Recovering
  PROVE  /\ UNCHANGED <<created, row, ingest, replies>>
         /\ handoff' = handoff \/ handoff' = <<>>
<1> USE DEF tables, seen
<1>1. CASE Lifecycle
  BY <1>1 DEF Lifecycle, Boot, Crash, BeginShutdown, StopScheduler, AwaitCompletions,
              CloseDatabase, LoseMemory
<1>2. CASE Scheduling
  BY <1>2 DEF Scheduling, Dispatch, DispatchFails
<1>3. CASE Executing
  BY <1>3 DEF Executing, ExecutorRejects, ExecutorResolves, MarkSucceededFails, MarkFailed,
              MarkFailedFails, AnnounceOutcome
<1>4. CASE Recovering
  BY <1>4 DEF Recovering, RecoveryTick, RecoverNextRun, EndRecovery
<1> QED BY <1>1, <1>2, <1>3, <1>4

\* Only ingest and executions change the status column.
LEMMA StatusFrame ==
  ASSUME Lifecycle \/ Scheduling \/ Recovering
  PROVE  UNCHANGED status
<1> USE DEF tables, seen
<1>1. CASE Lifecycle
  BY <1>1 DEF Lifecycle, Boot, Crash, BeginShutdown, StopScheduler, AwaitCompletions,
              CloseDatabase
<1>2. CASE Scheduling
  BY <1>2 DEF Scheduling, Dispatch, DispatchFails
<1>3. CASE Recovering
  BY <1>3 DEF Recovering, RecoveryTick, RecoverNextRun, EndRecovery
<1> QED BY <1>1, <1>2, <1>3

\* An execution changes a status at most from "running" to an outcome.
LEMMA ExecutingStatus ==
  ASSUME TypeOK, Executing
  PROVE  \/ UNCHANGED status
         \/ \E r \in Runs, outcome \in Outcomes :
              status[r] = "running" /\ status' = [status EXCEPT ![r] = outcome]
<1>1. PICK e \in live : \/ ExecutorRejects(e) \/ ExecutorResolves(e) \/ MarkSucceededFails(e)
                        \/ MarkFailed(e) \/ MarkFailedFails(e) \/ AnnounceOutcome(e)
  BY DEF Executing
<1>2. e.run \in Runs
  BY DEF TypeOK, Execution
<1>3. CASE ExecutorResolves(e)
  BY <1>2, <1>3 DEF ExecutorResolves, MarkTerminal, Outcomes
<1>4. CASE MarkFailed(e)
  BY <1>2, <1>4 DEF MarkFailed, MarkTerminal, Outcomes
<1>5. CASE ExecutorRejects(e) \/ MarkSucceededFails(e) \/ MarkFailedFails(e) \/ AnnounceOutcome(e)
  BY <1>5 DEF ExecutorRejects, MarkSucceededFails, MarkFailedFails, AnnounceOutcome, tables
<1> QED BY <1>1, <1>3, <1>4, <1>5

--------------------------------------------------------------------------------
\* Rows, keys and replies.

\* A row, once written, is the run of the id it was given.
LEMMA NextRowsInv == TypeOK /\ RowsInv /\ [Next]_vars => RowsInv'
<1> SUFFICES ASSUME TypeOK, RowsInv, [Next]_vars PROVE RowsInv'
  OBVIOUS
<1> RangeOf(<<>>) = {}
  BY DEF RangeOf
<1>1. CASE Lifecycle \/ Scheduling \/ Recovering
  BY <1>1, IngestFrame, StatusFrame DEF RowsInv
<1>2. CASE Executing
  <2>1. UNCHANGED <<created, row>> /\ RangeOf(handoff') \subseteq 1..created'
    BY <1>2, IngestFrame DEF RowsInv
  <2>2. \A r \in Runs : status'[r] = "absent" <=> status[r] = "absent"
    BY <1>2, ExecutingStatus DEF TypeOK, Outcomes
  <2> QED BY <2>1, <2>2 DEF RowsInv
<1>3. CASE EnqueueCreatedRun
  <2>1. RangeOf(handoff') \subseteq RangeOf(handoff)
    BY <1>3, RangeOfTail DEF EnqueueCreatedRun, TypeOK
  <2> QED BY <1>3, <2>1 DEF RowsInv, EnqueueCreatedRun, tables
<1>4. ASSUME NEW m \in Messages, IngestMessage(m) PROVE RowsInv'
  <2>1. CASE CreateRun(m)
    <3>1. created + 1 \in Runs /\ created \in Nat
      BY <2>1, BoundsAssumption DEF CreateRun, Runs, TypeOK
    <3>2. RangeOf(handoff') = RangeOf(handoff) \cup {created + 1}
      BY <2>1, <3>1, RangeOfAppend DEF CreateRun, TypeOK
    <3>3. RangeOf(handoff') \subseteq 1..created'
      BY <2>1, <3>1, <3>2 DEF CreateRun, RowsInv
    <3>4. \A r \in Runs : r \in Nat
      BY DEF Runs
    <3>5. m # NoMessage
      BY MessagesAssumption
    <3>6. \A r \in Runs : row'[r] # NoMessage <=> r <= created'
      BY <2>1, <3>1, <3>4, <3>5 DEF CreateRun, RowsInv, TypeOK
    <3>7. \A r \in Runs : status'[r] = "absent" <=> r > created'
      BY <2>1, <3>1, <3>4 DEF CreateRun, RowsInv, TypeOK
    <3> QED BY <3>3, <3>6, <3>7 DEF RowsInv
  <2>2. CASE Deduplicate(m)
    BY <2>2 DEF Deduplicate, RowsInv, tables
  <2> QED BY <1>4, <2>1, <2>2 DEF IngestMessage
<1>5. CASE UNCHANGED vars
  BY <1>5 DEF vars, tables, process, RowsInv
<1> QED BY <1>1, <1>2, <1>3, <1>4, <1>5 DEF Next, Ingest

\* A key and the row it names keep naming each other.
LEMMA NextKeysInv == TypeOK /\ RowsInv /\ KeysInv /\ [Next]_vars => KeysInv'
<1> SUFFICES ASSUME TypeOK, RowsInv, KeysInv, [Next]_vars PROVE KeysInv'
  OBVIOUS
<1>1. CASE Lifecycle \/ Scheduling \/ Executing \/ Recovering
  BY <1>1, IngestFrame DEF KeysInv
<1>2. CASE EnqueueCreatedRun
  BY <1>2 DEF EnqueueCreatedRun, tables, KeysInv
<1>3. ASSUME NEW m \in Messages, IngestMessage(m) PROVE KeysInv'
  <2>1. CASE CreateRun(m)
    <3> DEFINE n == created + 1
    <3>1. n \in Runs /\ n # NoRun
      BY <2>1, BoundsAssumption DEF CreateRun, Runs, TypeOK
    <3>2. row' = [row EXCEPT ![n] = m] /\ row[n] = NoMessage
      BY <2>1, <3>1 DEF CreateRun, RowsInv, Runs, TypeOK
    <3>3. m # NoMessage /\ m.idempotencyKey \in Keys \cup {NoKey}
      BY MessagesAssumption
    <3>4. \A r \in Runs : row[r] # NoMessage => row[r].idempotencyKey \in Keys \cup {NoKey}
      BY MessagesAssumption DEF TypeOK
    <3>5. CASE m.idempotencyKey = NoKey
      <4>1. ingest' = ingest
        BY <2>1, <3>5 DEF CreateRun
      <4> QED BY <3>1, <3>2, <3>3, <3>5, <4>1 DEF KeysInv, TypeOK
    <3>6. CASE m.idempotencyKey # NoKey
      <4>1. ingest' = [ingest EXCEPT ![m.idempotencyKey] = n]
        BY <2>1, <3>6 DEF CreateRun
      <4>2. ingest[m.idempotencyKey] = NoRun
        BY <2>1, <3>6 DEF CreateRun, DuplicateOf
      <4>3. ASSUME NEW r \in Runs, row'[r] # NoMessage, row'[r].idempotencyKey # NoKey
            PROVE  ingest'[row'[r].idempotencyKey] = r
        <5>1. CASE r = n
          BY <3>1, <3>2, <3>3, <3>6, <4>1, <5>1 DEF TypeOK
        <5>2. CASE r # n
          <6>1. row'[r] = row[r]
            BY <3>1, <3>2, <5>2 DEF TypeOK
          <6>2. ingest[row[r].idempotencyKey] = r
            BY <4>3, <6>1 DEF KeysInv
          <6>3. r # NoRun
            BY DEF Runs
          <6> QED BY <3>4, <4>1, <4>2, <4>3, <6>1, <6>2, <6>3 DEF TypeOK
        <5> QED BY <5>1, <5>2
      <4>4. ASSUME NEW k \in Keys, ingest'[k] # NoRun
            PROVE  row'[ingest'[k]] # NoMessage /\ row'[ingest'[k]].idempotencyKey = k
        <5>1. CASE k = m.idempotencyKey
          BY <3>1, <3>2, <3>3, <4>1, <5>1 DEF TypeOK
        <5>2. CASE k # m.idempotencyKey
          <6>1. ingest'[k] = ingest[k] /\ ingest[k] \in Runs
            BY <4>1, <4>4, <5>2 DEF TypeOK
          <6> QED BY <3>2, <4>4, <6>1 DEF KeysInv, TypeOK
        <5> QED BY <5>1, <5>2
      <4> QED BY <4>3, <4>4 DEF KeysInv
    <3> QED BY <3>5, <3>6
  <2>2. CASE Deduplicate(m)
    BY <2>2 DEF Deduplicate, KeysInv, tables
  <2> QED BY <1>3, <2>1, <2>2 DEF IngestMessage
<1>4. CASE UNCHANGED vars
  BY <1>4 DEF vars, tables, KeysInv
<1> QED BY <1>1, <1>2, <1>3, <1>4 DEF Next, Ingest

\* What was replied stays true: rows and keys are written once.
LEMMA NextRepliesInv ==
  TypeOK /\ RowsInv /\ KeysInv /\ RepliesInv /\ [Next]_vars => RepliesInv'
<1> SUFFICES ASSUME TypeOK, RowsInv, KeysInv, RepliesInv, [Next]_vars PROVE RepliesInv'
  OBVIOUS
<1>1. CASE Lifecycle \/ Scheduling \/ Executing \/ Recovering
  BY <1>1, IngestFrame DEF RepliesInv
<1>2. CASE EnqueueCreatedRun
  <2> DEFINE r == Head(handoff)
  <2>1. UNCHANGED <<row, ingest>>
    BY <1>2 DEF EnqueueCreatedRun, tables
  <2>2. replies' = replies \/ replies' = replies \cup {[message |-> row[r], run |-> r]}
    BY <1>2 DEF EnqueueCreatedRun
  <2>3. r \in Runs /\ r # Rejected /\ row[r] # NoMessage
    <3>1. handoff # <<>> /\ r \in RangeOf(handoff) /\ r \in Runs
      BY <1>2, RangeOfTail DEF EnqueueCreatedRun, TypeOK
    <3> QED BY <3>1, MessagesAssumption DEF RowsInv
  <2>4. row[r].idempotencyKey # NoKey => ingest[row[r].idempotencyKey] = r
    BY <2>3 DEF KeysInv
  <2> QED BY <2>1, <2>2, <2>3, <2>4 DEF RepliesInv
<1>3. ASSUME NEW m \in Messages, IngestMessage(m) PROVE RepliesInv'
  <2>1. CASE CreateRun(m)
    <3> DEFINE n == created + 1
    <3>1. n \in Runs /\ row[n] = NoMessage
      BY <2>1, BoundsAssumption DEF CreateRun, RowsInv, Runs, TypeOK
    <3>2. \A r \in Runs : row[r] # NoMessage => row'[r] = row[r]
      BY <2>1, <3>1 DEF CreateRun, TypeOK
    <3>3. \A k \in Keys : ingest[k] # NoRun => ingest'[k] = ingest[k]
      BY <2>1, MessagesAssumption DEF CreateRun, DuplicateOf, TypeOK
    <3>4. SUFFICES ASSUME NEW x \in replies
                   PROVE  /\ x.run # Rejected =>
                               /\ row'[x.run] # NoMessage
                               /\ PayloadHash(row'[x.run]) = PayloadHash(x.message)
                               /\ x.message.idempotencyKey # NoKey =>
                                    ingest'[x.message.idempotencyKey] = x.run
                          /\ x.run = Rejected =>
                               /\ x.message.idempotencyKey # NoKey
                               /\ ingest'[x.message.idempotencyKey] # NoRun
                               /\ PayloadHash(row'[ingest'[x.message.idempotencyKey]])
                                    # PayloadHash(x.message)
      BY <2>1 DEF CreateRun, RepliesInv
    <3>5. x.run \in Runs \cup {Rejected} /\ x.message.idempotencyKey \in Keys \cup {NoKey}
      BY MessagesAssumption DEF TypeOK
    <3>6. CASE x.run # Rejected
      <4>1. row'[x.run] = row[x.run]
        BY <3>2, <3>5, <3>6 DEF RepliesInv
      <4>2. x.run # NoRun
        BY <3>5, <3>6 DEF Runs
      <4> QED BY <3>3, <3>5, <3>6, <4>1, <4>2 DEF RepliesInv
    <3>7. CASE x.run = Rejected
      <4> DEFINE k == x.message.idempotencyKey
      <4>1. k \in Keys /\ ingest[k] # NoRun /\ ingest[k] \in Runs
        BY <3>5, <3>7 DEF RepliesInv, TypeOK
      <4>2. ingest'[k] = ingest[k] /\ row'[ingest[k]] = row[ingest[k]]
        BY <3>2, <3>3, <4>1 DEF KeysInv
      <4> QED BY <3>7, <4>1, <4>2 DEF RepliesInv
    <3> QED BY <3>6, <3>7
  <2>2. CASE Deduplicate(m)
    <3> DEFINE k == m.idempotencyKey
               r == ingest[k]
               reply == [message |-> m,
                         run |-> IF PayloadHash(row[r]) = PayloadHash(m) THEN r ELSE Rejected]
    <3>1. k \in Keys /\ r \in Runs /\ r # NoRun /\ r # Rejected /\ row[r] # NoMessage
      BY <2>2, MessagesAssumption DEF Deduplicate, DuplicateOf, KeysInv, TypeOK
    <3>2. replies' = replies \cup {reply} /\ UNCHANGED <<row, ingest>>
      BY <2>2, <3>1, MessagesAssumption DEF Deduplicate, DuplicateOf, tables
    <3>3. k # NoKey
      BY <3>1, MessagesAssumption
    <3>4. CASE PayloadHash(row[r]) = PayloadHash(m)
      BY <3>1, <3>2, <3>3, <3>4 DEF RepliesInv
    <3>5. CASE PayloadHash(row[r]) # PayloadHash(m)
      BY <3>1, <3>2, <3>3, <3>5 DEF RepliesInv
    <3> QED BY <3>4, <3>5
  <2> QED BY <1>3, <2>1, <2>2 DEF IngestMessage
<1>4. CASE UNCHANGED vars
  BY <1>4 DEF vars, tables, seen, RepliesInv
<1> QED BY <1>1, <1>2, <1>3, <1>4 DEF Next, Ingest

--------------------------------------------------------------------------------
\* Executions.

ExecutionInvs == ExecutionInv /\ NoOverlap /\ ExecutesOnlyRunning /\ AnnouncedIsPersisted

\* Ingest gives a status only to a row that had none, and no execution has that row.
LEMMA IngestExecution ==
  TypeOK /\ RowsInv /\ ExecutionInvs /\ Ingest => ExecutionInvs'
<1> SUFFICES ASSUME TypeOK, RowsInv, ExecutionInvs, Ingest PROVE ExecutionInvs'
  OBVIOUS
<1> USE DEF ExecutionInvs, ExecutionInv, NoOverlap, ExecutesOnlyRunning, AnnouncedIsPersisted
<1>1. UNCHANGED <<active, live, announced>>
  BY DEF Ingest, IngestMessage, EnqueueCreatedRun
<1>2. UNCHANGED status \/ \E n \in Runs : status[n] = "absent" /\ status' = [status EXCEPT ![n] = "running"]
  <2>1. CASE EnqueueCreatedRun
    BY <2>1 DEF EnqueueCreatedRun, tables
  <2>2. ASSUME NEW m \in Messages, IngestMessage(m), CreateRun(m)
        PROVE  \E n \in Runs : status[n] = "absent" /\ status' = [status EXCEPT ![n] = "running"]
    <3>1. created + 1 \in Runs /\ status[created + 1] = "absent"
      BY <2>2, BoundsAssumption DEF CreateRun, RowsInv, Runs, TypeOK
    <3> QED BY <2>2, <3>1 DEF CreateRun
  <2>3. ASSUME NEW m \in Messages, IngestMessage(m), Deduplicate(m) PROVE UNCHANGED status
    BY <2>3 DEF Deduplicate, tables
  <2> QED BY <2>1, <2>2, <2>3 DEF Ingest, IngestMessage
<1>3. CASE UNCHANGED status
  BY <1>1, <1>3
<1>4. ASSUME NEW n \in Runs, status[n] = "absent", status' = [status EXCEPT ![n] = "running"]
      PROVE  ExecutionInvs'
  <2>1. \A e \in live : e.run \in Runs /\ e.pc \in Pcs
    BY DEF TypeOK, Execution
  <2>2. \A e \in live : e.run # n
    BY <1>4, <2>1 DEF Pcs, Outcomes
  <2>3. announced[n] = "none"
    BY <1>4 DEF TypeOK, Outcomes
  <2> QED BY <1>1, <1>4, <2>1, <2>2, <2>3 DEF TypeOK
<1> QED BY <1>2, <1>3, <1>4

\* A dispatch begins an execution only of a run that has none.
LEMMA SchedulingExecution == TypeOK /\ ExecutionInvs /\ Scheduling => ExecutionInvs'
<1> SUFFICES ASSUME TypeOK, ExecutionInvs, NEW t \in Threads, Dispatch(t) \/ DispatchFails(t)
             PROVE  ExecutionInvs'
  BY DEF Scheduling
<1> USE DEF ExecutionInvs, ExecutionInv, NoOverlap, ExecutesOnlyRunning, AnnouncedIsPersisted
<1>1. UNCHANGED <<status, announced>>
  BY DEF Dispatch, DispatchFails, tables, seen
<1>2. CASE UNCHANGED <<active, live>>
  BY <1>1, <1>2
<1>3. CASE Runnable(Head(tails[t])) /\ Launch(Head(tails[t]))
  <2> DEFINE r == Head(tails[t])
             e0 == [run |-> r, attempt |-> launched[r] + 1, pc |-> "executing"]
  <2>1. status[r] = "running" /\ r \notin active
    BY <1>3 DEF Runnable
  <2>2. live' = live \cup {e0} /\ active' = active \cup {r}
    BY <1>3 DEF Launch
  <2>3. e0.run = r /\ e0.pc = "executing"
    OBVIOUS
  <2>4. \A e \in live : e.run # r
    BY <2>1
  <2> HIDE DEF e0
  <2> QED BY <1>1, <2>1, <2>2, <2>3, <2>4 DEF Outcomes
<1> QED BY <1>2, <1>3 DEF Dispatch, DispatchFails

\* An execution commits its outcome before it announces it, and leaves after.
LEMMA ExecutingExecution == TypeOK /\ ExecutionInvs /\ Executing => ExecutionInvs'
<1> SUFFICES ASSUME TypeOK, ExecutionInvs, Executing PROVE ExecutionInvs'
  OBVIOUS
<1> USE DEF ExecutionInvs, ExecutionInv, NoOverlap, ExecutesOnlyRunning, AnnouncedIsPersisted
<1>1. PICK e \in live : \/ ExecutorRejects(e) \/ ExecutorResolves(e) \/ MarkSucceededFails(e)
                        \/ MarkFailed(e) \/ MarkFailedFails(e) \/ AnnounceOutcome(e)
  BY DEF Executing
<1>2. e \in Execution /\ e.run \in Runs /\ \A f \in live : f # e => f.run # e.run
  BY DEF TypeOK, Execution
<1>3. ASSUME NEW pc \in Pcs PROVE [e EXCEPT !.pc = pc].run = e.run /\ [e EXCEPT !.pc = pc].pc = pc
  BY <1>2 DEF Execution
<1>4. ASSUME Returns(e), UNCHANGED <<status, announced>> PROVE ExecutionInvs'
  BY <1>2, <1>4 DEF Returns
<1>5. ASSUME NEW pc \in {"rejected"}, Moves(e, pc), e.pc = "executing",
             UNCHANGED <<status, announced, active>>
      PROVE  ExecutionInvs'
  <2> DEFINE f0 == [e EXCEPT !.pc = "rejected"]
  <2>1. f0.run = e.run /\ f0.pc = "rejected" /\ "rejected" \notin Outcomes
    BY <1>3 DEF Pcs, Outcomes
  <2>2. live' = (live \ {e}) \cup {f0}
    BY <1>5 DEF Moves
  <2> HIDE DEF f0
  <2> QED BY <1>2, <1>5, <2>1, <2>2
<1>6. ASSUME NEW pc \in Outcomes, Moves(e, pc), MarkTerminal(e.run, pc), status[e.run] = "running",
             UNCHANGED <<announced, active>>
      PROVE  ExecutionInvs'
  <2> DEFINE f0 == [e EXCEPT !.pc = pc]
  <2>1. f0.run = e.run /\ f0.pc = pc /\ pc \notin {"executing", "rejected"}
    BY <1>3, <1>6 DEF Pcs, Outcomes
  <2>2. live' = (live \ {e}) \cup {f0} /\ status' = [status EXCEPT ![e.run] = pc]
    BY <1>6 DEF Moves, MarkTerminal
  <2>3. announced[e.run] = "none"
    BY <1>2, <1>6 DEF TypeOK, Outcomes
  <2> HIDE DEF f0
  <2>4. \A f \in live : f.run \in Runs
    BY DEF TypeOK, Execution
  <2>5. status'[e.run] = pc /\ \A r \in Runs : r # e.run => status'[r] = status[r]
    BY <1>2, <2>2 DEF TypeOK
  <2> QED BY <1>2, <1>6, <2>1, <2>2, <2>3, <2>4, <2>5
<1>7. CASE ExecutorRejects(e)
  BY <1>5, <1>7 DEF ExecutorRejects, tables, seen
<1>8. CASE MarkSucceededFails(e)
  BY <1>5, <1>8 DEF MarkSucceededFails, tables, seen
<1>9. CASE ExecutorResolves(e)
  BY <1>5, <1>6, <1>9 DEF ExecutorResolves, seen, Outcomes
<1>10. CASE MarkFailed(e)
  BY <1>4, <1>6, <1>10 DEF MarkFailed, seen, Outcomes
<1>11. CASE MarkFailedFails(e)
  BY <1>4, <1>11 DEF MarkFailedFails, tables, seen
<1>12. CASE AnnounceOutcome(e)
  <2>1. status[e.run] = e.pc /\ announced' = [announced EXCEPT ![e.run] = e.pc]
    BY <1>12 DEF AnnounceOutcome
  <2>2. UNCHANGED status /\ Returns(e)
    BY <1>12 DEF AnnounceOutcome, tables
  <2>3. \A r \in Runs : announced'[r] # "none" => announced'[r] = status[r]
    BY <1>2, <2>1 DEF TypeOK
  <2> QED BY <1>2, <2>2, <2>3 DEF Returns
<1> QED BY <1>1, <1>7, <1>8, <1>9, <1>10, <1>11, <1>12

\* No step breaks what is said of executions.
LEMMA NextExecutionInvs ==
  TypeOK /\ RowsInv /\ ExecutionInvs /\ [Next]_vars => ExecutionInvs'
<1> SUFFICES ASSUME TypeOK, RowsInv, ExecutionInvs, [Next]_vars PROVE ExecutionInvs'
  OBVIOUS
<1> DEFINE Kept == UNCHANGED <<status, active, live, announced>>
<1>1. Kept => ExecutionInvs'
  BY DEF ExecutionInvs, ExecutionInv, NoOverlap, ExecutesOnlyRunning, AnnouncedIsPersisted
<1>2. CASE Lifecycle
  <2>1. UNCHANGED status
    BY <1>2, StatusFrame
  <2>2. \/ UNCHANGED <<active, live>>
        \/ active' = {} /\ live' = {}
    BY <1>2 DEF Lifecycle, Boot, Crash, BeginShutdown, StopScheduler, AwaitCompletions,
                CloseDatabase, LoseMemory
  <2>3. UNCHANGED announced \/ announced' = [r \in Runs |-> "none"]
    BY <1>2 DEF Lifecycle, Boot, Crash, BeginShutdown, StopScheduler, AwaitCompletions,
                CloseDatabase, LoseMemory, seen
  <2> QED BY <2>1, <2>2, <2>3
          DEF ExecutionInvs, ExecutionInv, NoOverlap, ExecutesOnlyRunning, AnnouncedIsPersisted
<1>3. CASE Recovering
  <2>1. Kept
    BY <1>3 DEF Recovering, RecoveryTick, RecoverNextRun, EndRecovery, tables, seen
  <2> QED BY <1>1, <2>1
<1>4. CASE UNCHANGED vars
  <2>1. Kept
    BY <1>4 DEF vars, tables, process, seen
  <2> QED BY <1>1, <2>1
<1> QED BY <1>2, <1>3, <1>4, IngestExecution, SchedulingExecution, ExecutingExecution DEF Next

--------------------------------------------------------------------------------
\* Shutdown.

\* Taking a dispatch off its queue schedules nothing.
LEMMA ScheduledShrinks ==
  ASSUME tails \in [Threads -> Seq(Runs)], NEW t \in Threads, tails[t] # <<>>,
         tails' = [tails EXCEPT ![t] = Tail(@)]
  PROVE  Scheduled' \subseteq Scheduled
<1>1. \A u \in Threads : RangeOf(tails'[u]) \subseteq RangeOf(tails[u])
  <2> TAKE u \in Threads
  <2>1. CASE u = t
    BY <2>1, RangeOfTail
  <2>2. CASE u # t
    BY <2>2
  <2> QED BY <2>1, <2>2
<1> QED BY <1>1 DEF Scheduled

\* With the scheduler stopped, what is scheduled and what is active only shrinks.
LEMMA StoppedShrinks ==
  ASSUME TypeOK, phase \in {"stopping", "awaiting", "closed"},
         Ingest \/ Scheduling \/ Executing \/ Recovering
  PROVE  /\ Scheduled' \subseteq Scheduled
         /\ active' \subseteq active
         /\ UNCHANGED <<phase, awaited>>
<1> USE DEF tables, seen, history
<1>1. ~SchedulerStarted
  BY DEF SchedulerStarted
<1>2. UNCHANGED tails => Scheduled' = Scheduled
  BY DEF Scheduled
<1>3. CASE Ingest
  <2>1. UNCHANGED <<tails, active, phase, awaited>>
    BY <1>1, <1>3 DEF Ingest, IngestMessage, EnqueueCreatedRun
  <2> QED BY <1>2, <2>1
<1>4. CASE Scheduling
  <2>1. PICK t \in Threads : Dispatch(t) \/ DispatchFails(t)
    BY <1>4 DEF Scheduling
  <2>2. UNCHANGED <<active, phase, awaited>>
    BY <1>1, <2>1 DEF Dispatch, DispatchFails
  <2>3. Scheduled' \subseteq Scheduled
    BY <2>1, ScheduledShrinks DEF Dispatch, DispatchFails, TypeOK
  <2> QED BY <2>2, <2>3
<1>5. CASE Executing
  <2>1. UNCHANGED <<tails, phase, awaited>> /\ active' \subseteq active
    BY <1>5 DEF Executing, ExecutorRejects, ExecutorResolves, MarkSucceededFails, MarkFailed,
                MarkFailedFails, AnnounceOutcome, Returns
  <2> QED BY <1>2, <2>1
<1>6. CASE Recovering
  <2>1. UNCHANGED <<tails, active, phase, awaited>>
    BY <1>1, <1>6 DEF Recovering, RecoveryTick, RecoverNextRun, EndRecovery
  <2> QED BY <1>2, <2>1
<1> QED BY <1>3, <1>4, <1>5, <1>6

\* Each await of shutdown covers what it has to.
LEMMA NextShutdownInv == TypeOK /\ ShutdownInv /\ [Next]_vars => ShutdownInv'
<1> SUFFICES ASSUME TypeOK, ShutdownInv, [Next]_vars PROVE ShutdownInv'
  OBVIOUS
<1> USE DEF ShutdownInv
<1>1. UNCHANGED tails => Scheduled' = Scheduled
  BY DEF Scheduled
<1>2. CASE Boot \/ Crash \/ BeginShutdown
  BY <1>2 DEF Boot, Crash, BeginShutdown
<1>3. CASE StopScheduler
  BY <1>1, <1>3 DEF StopScheduler
<1>4. CASE AwaitCompletions
  BY <1>1, <1>4 DEF AwaitCompletions
<1>5. CASE CloseDatabase
  BY <1>1, <1>5 DEF CloseDatabase
<1>6. CASE Ingest \/ Scheduling \/ Executing \/ Recovering
  <2>1. CASE phase \in {"stopping", "awaiting", "closed"}
    BY <1>6, <2>1, StoppedShrinks
  <2>2. CASE phase \notin {"stopping", "awaiting", "closed"}
    <3>1. phase' = phase \/ phase' = "up"
      BY <1>6 DEF Ingest, IngestMessage, EnqueueCreatedRun, Scheduling, Dispatch, DispatchFails,
                  Executing, ExecutorRejects, ExecutorResolves, MarkSucceededFails, MarkFailed,
                  MarkFailedFails, AnnounceOutcome, Recovering, RecoveryTick, RecoverNextRun,
                  EndRecovery
    <3> QED BY <2>2, <3>1
  <2> QED BY <2>1, <2>2
<1>7. CASE UNCHANGED vars
  BY <1>1, <1>7 DEF vars, process
<1> QED BY <1>2, <1>3, <1>4, <1>5, <1>6, <1>7 DEF Next, Lifecycle

--------------------------------------------------------------------------------
\* Theorems.

\* The initial states satisfy the inductive invariant.
LEMMA InitIndInv == Init => IndInv
<1> SUFFICES ASSUME Init PROVE IndInv
  OBVIOUS
<1>1. TypeOK
  BY InitTypeOK
<1>2. RowsInv
  BY DEF Init, RowsInv, Runs, RangeOf
<1>3. KeysInv /\ RepliesInv /\ ShutdownInv
  BY DEF Init, KeysInv, RepliesInv, ShutdownInv
<1>4. ExecutionInv /\ NoOverlap /\ ExecutesOnlyRunning /\ AnnouncedIsPersisted
  BY DEF Init, ExecutionInv, NoOverlap, ExecutesOnlyRunning, AnnouncedIsPersisted
<1> QED BY <1>1, <1>2, <1>3, <1>4 DEF IndInv

\* The invariant is inductive, whatever order the event loop runs things in.
THEOREM InductiveInvariant == Spec => []IndInv
<1>1. Init => IndInv
  BY InitIndInv
<1>2. IndInv /\ [Next]_vars => IndInv'
  BY NextTypeOK, NextRowsInv, NextKeysInv, NextRepliesInv, NextShutdownInv, NextExecutionInvs
     DEF IndInv, ExecutionInvs
<1> QED BY <1>1, <1>2, PTL DEF Spec

\* Every variable keeps its type.
THEOREM TypeCorrect == Spec => []TypeOK
<1>1. IndInv => TypeOK
  BY DEF IndInv
<1> QED BY <1>1, InductiveInvariant, PTL

\* A run is never executed twice at the same time, and never once it has an outcome.
THEOREM ExecutedOnce == Spec => [](NoOverlap /\ ExecutesOnlyRunning)
<1>1. IndInv => NoOverlap /\ ExecutesOnlyRunning
  BY DEF IndInv
<1> QED BY <1>1, InductiveInvariant, PTL

\* A terminal event tells what the database says.
THEOREM AnnouncedCorrect == Spec => []AnnouncedIsPersisted
<1>1. IndInv => AnnouncedIsPersisted
  BY DEF IndInv
<1> QED BY <1>1, InductiveInvariant, PTL

\* An idempotency key stands for one run, through retries, crashes and restarts.
THEOREM KeyedRunUnique == Spec => []KeyedOnce
<1>1. IndInv => KeyedOnce
  BY DEF IndInv, KeysInv, KeyedOnce
<1> QED BY <1>1, InductiveInvariant, PTL

\* Callers get the run of the payload they sent, and the same answer on every retry.
THEOREM RepliesCorrect == Spec => []RepliesConsistent
<1>1. IndInv => RepliesConsistent
  <2> SUFFICES ASSUME IndInv PROVE RepliesConsistent
    OBVIOUS
  <2>1. ASSUME NEW x \in replies, x.run # Rejected
        PROVE  ThreadOf(x.run) = x.message.threadKey /\ row[x.run].payload = x.message.payload
    BY <2>1 DEF IndInv, RepliesInv, PayloadHash, ThreadOf
  <2>2. ASSUME NEW x \in replies, NEW y \in replies,
               x.message = y.message, x.message.idempotencyKey # NoKey
        PROVE  x.run = y.run
    BY <2>2 DEF IndInv, RepliesInv
  <2> QED BY <2>1, <2>2 DEF RepliesConsistent
<1> QED BY <1>1, InductiveInvariant, PTL

\* A clean shutdown closes the database under nobody's feet.
THEOREM CleanShutdown == Spec => []QuietWhenClosed
<1>1. IndInv => QuietWhenClosed
  BY DEF IndInv, ShutdownInv, ExecutionInv, QuietWhenClosed
<1> QED BY <1>1, InductiveInvariant, PTL

--------------------------------------------------------------------------------
\* Refinement: the component implements RunLedger.

LedgerStep == [Ledger!Next]_(Ledger!ledgerVars)

\* A step that changes nothing the ledger sees is a stutter of the ledger.
LEMMA LedgerStutters == UNCHANGED <<status, ingest, Working>> => LedgerStep
  BY DEF LedgerStep, Ledger!ledgerVars

\* Startup and shutdown halt the ledger or leave it alone.
LEMMA LifecycleRefines == Lifecycle => LedgerStep
<1> SUFFICES ASSUME Lifecycle PROVE LedgerStep
  OBVIOUS
<1>1. UNCHANGED <<status, ingest>>
  BY IngestFrame, StatusFrame
<1>2. UNCHANGED live \/ live' = {}
  BY DEF Lifecycle, Boot, Crash, BeginShutdown, StopScheduler, AwaitCompletions,
         CloseDatabase, LoseMemory
<1>3. CASE UNCHANGED live
  BY <1>1, <1>3, LedgerStutters DEF Working
<1>4. CASE live' = {}
  <2>1. Working' = {}
    BY <1>4 DEF Working
  <2> QED BY <1>1, <2>1 DEF LedgerStep, Ledger!Next, Ledger!Halt
<1> QED BY <1>2, <1>3, <1>4

\* Creating a run accepts it; nothing else of ingest is seen by the ledger.
LEMMA IngestRefines == IndInv /\ Ingest => LedgerStep
<1> SUFFICES ASSUME IndInv, Ingest PROVE LedgerStep
  OBVIOUS
<1>1. Working' = Working
  BY DEF Ingest, IngestMessage, EnqueueCreatedRun, Working
<1>2. CASE EnqueueCreatedRun
  BY <1>1, <1>2, LedgerStutters DEF EnqueueCreatedRun, tables
<1>3. ASSUME NEW m \in Messages, IngestMessage(m) PROVE LedgerStep
  <2>1. CASE CreateRun(m)
    <3> DEFINE n == created + 1
               k == m.idempotencyKey
    <3>1. n \in Runs /\ status[n] = "absent"
      BY <2>1, BoundsAssumption DEF CreateRun, IndInv, RowsInv, TypeOK, Runs
    <3>2. k \in Keys \cup {NoKey}
      BY MessagesAssumption
    <3>3. status' = [status EXCEPT ![n] = "running"]
      BY <2>1 DEF CreateRun
    <3>4. \/ k = NoKey /\ ingest' = ingest
          \/ k \in Keys /\ ingest[k] = NoRun /\ ingest' = [ingest EXCEPT ![k] = n]
      BY <2>1, <3>2 DEF CreateRun, DuplicateOf
    <3>5. Ledger!Accept(n, k)
      BY <1>1, <3>1, <3>3, <3>4 DEF Ledger!Accept
    <3> QED BY <3>1, <3>2, <3>5 DEF LedgerStep, Ledger!Next
  <2>2. CASE Deduplicate(m)
    BY <1>1, <2>2, LedgerStutters DEF Deduplicate, tables
  <2> QED BY <1>3, <2>1, <2>2 DEF IngestMessage
<1> QED BY <1>2, <1>3 DEF Ingest

\* A dispatch starts an execution or is not seen.
LEMMA SchedulingRefines == IndInv /\ Scheduling => LedgerStep
<1> SUFFICES ASSUME IndInv, NEW t \in Threads, Dispatch(t) \/ DispatchFails(t) PROVE LedgerStep
  BY DEF Scheduling
<1> DEFINE r == Head(tails[t])
<1>1. UNCHANGED <<status, ingest>>
  BY IngestFrame, StatusFrame DEF Scheduling
<1>2. CASE UNCHANGED live
  BY <1>1, <1>2, LedgerStutters DEF Working
<1>3. CASE Runnable(r) /\ Launch(r)
  <2>1. r \in Runs
    BY DEF Dispatch, DispatchFails, IndInv, TypeOK
  <2>2. status[r] = "running" /\ r \notin Working
    BY <1>3 DEF Runnable, Working, IndInv, ExecutionInv
  <2>3. Working' = Working \cup {r}
    <3> DEFINE e0 == [run |-> r, attempt |-> launched[r] + 1, pc |-> "executing"]
    <3>1. live' = live \cup {e0} /\ e0.run = r /\ e0.pc = "executing"
      BY <1>3 DEF Launch
    <3> HIDE DEF e0
    <3> QED BY <3>1 DEF Working
  <2>4. Ledger!Start(r)
    BY <1>1, <2>2, <2>3 DEF Ledger!Start
  <2> QED BY <2>1, <2>4 DEF LedgerStep, Ledger!Next
<1> QED BY <1>2, <1>3 DEF Dispatch, DispatchFails

\* Committing an outcome finishes the execution, failing to commit abandons it.
LEMMA ExecutingRefines == IndInv /\ Executing => LedgerStep
<1> SUFFICES ASSUME IndInv, Executing PROVE LedgerStep
  OBVIOUS
<1>1. PICK e \in live : \/ ExecutorRejects(e) \/ ExecutorResolves(e) \/ MarkSucceededFails(e)
                        \/ MarkFailed(e) \/ MarkFailedFails(e) \/ AnnounceOutcome(e)
  BY DEF Executing
<1>2. ingest' = ingest
  BY IngestFrame
<1>3. e \in Execution /\ e.run \in Runs /\ \A f \in live : f # e => f.run # e.run
  BY DEF IndInv, TypeOK, Execution, NoOverlap
<1>4. ASSUME NEW pc \in Pcs PROVE [e EXCEPT !.pc = pc].run = e.run /\ [e EXCEPT !.pc = pc].pc = pc
  BY <1>3 DEF Execution
<1>5. e.pc \in {"executing", "rejected"} => e.run \in Working /\ status[e.run] = "running"
  BY DEF Working, IndInv, ExecutesOnlyRunning
<1>6. ASSUME Moves(e, "rejected"), e.pc = "executing" PROVE Working' = Working
  <2> DEFINE f0 == [e EXCEPT !.pc = "rejected"]
  <2>1. f0.run = e.run /\ f0.pc = "rejected" /\ live' = (live \ {e}) \cup {f0}
    BY <1>4, <1>6 DEF Moves, Pcs
  <2> HIDE DEF f0
  <2> QED BY <1>6, <2>1 DEF Working
<1>7. ASSUME NEW pc \in Outcomes, Moves(e, pc), MarkTerminal(e.run, pc),
             e.pc \in {"executing", "rejected"}
      PROVE  LedgerStep
  <2> DEFINE f0 == [e EXCEPT !.pc = pc]
  <2>1. f0.pc = pc /\ live' = (live \ {e}) \cup {f0}
    BY <1>4, <1>7 DEF Moves, Pcs, Outcomes
  <2>2. pc \notin {"executing", "rejected"}
    BY <1>7 DEF Outcomes
  <2> HIDE DEF f0
  <2>3. Working' = Working \ {e.run}
    BY <1>3, <1>7, <2>1, <2>2 DEF Working
  <2>4. Ledger!Finish(e.run, pc)
    BY <1>2, <1>5, <1>7, <2>3 DEF Ledger!Finish, MarkTerminal
  <2> QED BY <1>3, <2>4 DEF LedgerStep, Ledger!Next, Ledger!Outcomes, Outcomes
<1>8. CASE ExecutorRejects(e)
  BY <1>2, <1>6, <1>8, LedgerStutters DEF ExecutorRejects, tables
<1>9. CASE MarkSucceededFails(e)
  BY <1>2, <1>6, <1>9, LedgerStutters DEF MarkSucceededFails, tables
<1>10. CASE ExecutorResolves(e)
  BY <1>5, <1>7, <1>10 DEF ExecutorResolves, Outcomes
<1>11. CASE MarkFailed(e)
  BY <1>5, <1>7, <1>11 DEF MarkFailed, Outcomes
<1>12. CASE MarkFailedFails(e)
  <2>1. Working' = Working \ {e.run}
    BY <1>3, <1>12 DEF MarkFailedFails, Returns, Working
  <2>2. Ledger!Abandon(e.run)
    BY <1>2, <1>5, <1>12, <2>1 DEF MarkFailedFails, Ledger!Abandon, tables
  <2> QED BY <1>3, <2>2 DEF LedgerStep, Ledger!Next
<1>13. CASE AnnounceOutcome(e)
  <2>1. Working' = Working
    BY <1>13 DEF AnnounceOutcome, Returns, Working, Outcomes
  <2> QED BY <1>2, <1>13, <2>1, LedgerStutters DEF AnnounceOutcome, tables
<1> QED BY <1>1, <1>8, <1>9, <1>10, <1>11, <1>12, <1>13

\* Every behaviour of the component is one the ledger allows.
THEOREM LedgerRefinement == Spec => ImplementsLedger
<1>1. Init => Ledger!Init
  BY DEF Init, Ledger!Init, Working
<1>2. IndInv /\ [Next]_vars => [Ledger!Next]_(Ledger!ledgerVars)
  <2> SUFFICES ASSUME IndInv, [Next]_vars PROVE LedgerStep
    BY DEF LedgerStep
  <2>1. CASE Recovering
    <3>1. UNCHANGED <<status, ingest, live>>
      BY <2>1 DEF Recovering, RecoveryTick, RecoverNextRun, EndRecovery, tables
    <3> QED BY <3>1, LedgerStutters DEF Working
  <2>2. CASE UNCHANGED vars
    <3>1. UNCHANGED <<status, ingest, live>>
      BY <2>2 DEF vars, tables, process
    <3> QED BY <3>1, LedgerStutters DEF Working
  <2> QED BY <2>1, <2>2, LifecycleRefines, IngestRefines, SchedulingRefines, ExecutingRefines
          DEF Next
<1> QED BY <1>1, <1>2, InductiveInvariant, PTL DEF Spec, ImplementsLedger, Ledger!Spec

--------------------------------------------------------------------------------
\* The order in which runs begin.

\* With a backlog that fits the limit, a recovery pass looks at every running row.
LEMMA RecoveryListsAll ==
  ASSUME BacklogFits
  PROVE  ListRunningRuns = {r \in Runs : status[r] = "running"}
<1> DEFINE running == {r \in Runs : status[r] = "running"}
<1>1. IsFiniteSet(Runs)
  <2>1. 1 \in Int /\ MaxRuns \in Int
    BY BoundsAssumption
  <2> QED BY <2>1, FS_Interval DEF Runs
<1>2. IsFiniteSet(running) /\ Cardinality(running) \in Nat
  <2>1. running \subseteq Runs
    OBVIOUS
  <2>2. IsFiniteSet(running)
    BY <1>1, <2>1, FS_Subset
  <2> QED BY <2>2, FS_CardinalityType
<1>3. ASSUME NEW r \in running
      PROVE  Cardinality({q \in running : q < r}) < RecoveryLimit
  <2> DEFINE older == {q \in running : q < r}
  <2>1. older \subseteq running \ {r}
    BY DEF Runs
  <2>2. /\ IsFiniteSet(running \ {r})
        /\ Cardinality(running \ {r}) = Cardinality(running) - 1
    BY <1>2, <1>3, FS_RemoveElement
  <2>3. Cardinality(older) <= Cardinality(running \ {r}) /\ IsFiniteSet(older)
    BY <2>1, <2>2, FS_Subset
  <2>4. Cardinality(older) \in Nat
    BY <2>3, FS_CardinalityType
  <2>5. Cardinality(running) <= RecoveryLimit
    BY DEF BacklogFits
  <2>6. Cardinality(older) < RecoveryLimit
    <3> HIDE DEF running, older
    <3> QED BY <1>2, <2>2, <2>3, <2>4, <2>5, BoundsAssumption
  <2> QED BY <2>6
<1> QED BY <1>3 DEF ListRunningRuns

\* Scheduling a run puts it into the queue of its thread and leaves the rest.
LEMMA ScheduleAdds ==
  ASSUME tails \in [Threads -> Seq(Runs)], NEW r \in Runs, ThreadOf(r) \in Threads, Schedule(r)
  PROVE  /\ Scheduled \cup {r} \subseteq Scheduled'
         /\ \A t \in Threads : \A x \in RangeOf(tails'[t]) :
              x \in RangeOf(tails[t]) \/ (x = r /\ t = ThreadOf(r))
<1>1. CASE r \in Scheduled
  <2>1. tails' = tails
    BY <1>1 DEF Schedule
  <2> QED BY <1>1, <2>1 DEF Scheduled
<1>2. CASE r \notin Scheduled
  <2> DEFINE t == ThreadOf(r)
  <2>1. tails' = [tails EXCEPT ![t] = Append(@, r)]
    BY <1>2 DEF Schedule
  <2> HIDE DEF t
  <2>2. RangeOf(tails'[t]) = RangeOf(tails[t]) \cup {r} /\ t \in Threads
    BY <2>1, RangeOfAppend DEF t
  <2>3. \A u \in Threads : u # t => RangeOf(tails'[u]) = RangeOf(tails[u])
    BY <2>1
  <2>4. \A u \in Threads : RangeOf(tails[u]) \subseteq RangeOf(tails'[u])
    BY <2>2, <2>3
  <2>5. Scheduled \cup {r} \subseteq Scheduled'
    BY <2>2, <2>4 DEF Scheduled
  <2> QED BY <2>2, <2>3, <2>5 DEF t
<1> QED BY <1>1, <1>2

\* A row that exists is a request, of a thread.
LEMMA RowsHaveThreads ==
  ASSUME TypeOK, RowsInv, NEW r \in Runs, r <= created
  PROVE  ThreadOf(r) \in Threads
<1>1. row[r] \in Messages
  BY DEF TypeOK, RowsInv
<1> QED BY <1>1, MessagesAssumption DEF ThreadOf

\* What is scheduled is in the queue of its thread.
LEMMA ScheduledInOwnQueue ==
  ASSUME TypeOK, QueuesInv, NEW q \in Scheduled
  PROVE  ThreadOf(q) \in Threads /\ q \in RangeOf(tails[ThreadOf(q)])
<1>1. PICK t \in Threads : q \in RangeOf(tails[t])
  BY DEF Scheduled
<1>2. ThreadOf(q) = t
  BY <1>1 DEF QueuesInv
<1> QED BY <1>1, <1>2

\* Executions change neither the queues nor what has begun.
LEMMA ExecutingFrame ==
  ASSUME Executing
  PROVE  /\ UNCHANGED <<created, row, phase, handoff, tails, recovering, recoveryLeft, launched>>
         /\ active' \subseteq active
  BY DEF Executing, ExecutorRejects, ExecutorResolves, MarkSucceededFails, MarkFailed,
         MarkFailedFails, AnnounceOutcome, Returns, tables, history

\* A step of an execution leaves no run yet to begin that was not so before.
LEMMA ExecutingUnbegun ==
  ASSUME TypeOK, Executing, NEW r \in Runs, Unbegun(r)'
  PROVE  Unbegun(r)
<1>1. launched' = launched
  BY ExecutingFrame
<1>2. status'[r] = "running" => status[r] = "running"
  BY ExecutingStatus DEF TypeOK, Outcomes
<1> QED BY <1>1, <1>2 DEF Unbegun

\* A new row leaves the older ones as they are.
LEMMA CreateRunFrame ==
  ASSUME TypeOK, NEW m \in Messages, CreateRun(m)
  PROVE  /\ created + 1 \in Runs /\ created' = created + 1 /\ created \in Nat
         /\ \A r \in Runs : r <= created => row'[r] = row[r] /\ status'[r] = status[r]
         /\ handoff' = Append(handoff, created + 1)
<1>1. created + 1 \in Runs /\ created \in Nat
  BY BoundsAssumption DEF CreateRun, Runs, TypeOK
<1>2. \A r \in Runs : r <= created => r # created + 1
  BY <1>1 DEF Runs
<1> QED BY <1>1, <1>2 DEF CreateRun, TypeOK

\* All of a queue but its head is in its tail.
LEMMA RangeWithoutHead ==
  ASSUME NEW s \in Seq(Runs), s # <<>>, NEW x \in RangeOf(s), x # Head(s)
  PROVE  x \in RangeOf(Tail(s))
<1>1. /\ Len(s) \in Nat /\ Len(s) > 0
      /\ DOMAIN s = 1..Len(s)
      /\ Head(s) = s[1]
      /\ DOMAIN Tail(s) = 1..(Len(s) - 1)
      /\ \A i \in 1..(Len(s) - 1) : Tail(s)[i] = s[i + 1]
  OBVIOUS
<1>2. PICK i \in 1..Len(s) : x = s[i]
  BY <1>1 DEF RangeOf
<1>3. i - 1 \in DOMAIN Tail(s) /\ Tail(s)[i - 1] = s[i]
  BY <1>1, <1>2
<1> QED BY <1>2, <1>3 DEF RangeOf

\* A sequence that increases goes on increasing with a greater element behind it.
LEMMA IncreasingAppend ==
  ASSUME NEW s \in Seq(Runs), NEW n \in Runs, \A x \in RangeOf(s) : x < n,
         \A i, j \in DOMAIN s : i < j => s[i] < s[j]
  PROVE  \A i, j \in DOMAIN Append(s, n) : i < j => Append(s, n)[i] < Append(s, n)[j]
<1>1. /\ Len(s) \in Nat
      /\ DOMAIN s = 1..Len(s)
      /\ DOMAIN Append(s, n) = 1..(Len(s) + 1)
      /\ Append(s, n)[Len(s) + 1] = n
      /\ \A i \in 1..Len(s) : Append(s, n)[i] = s[i]
  OBVIOUS
<1> SUFFICES ASSUME NEW i \in 1..(Len(s) + 1), NEW j \in 1..(Len(s) + 1), i < j
             PROVE  Append(s, n)[i] < Append(s, n)[j]
  BY <1>1
<1>2. i \in 1..Len(s)
  BY <1>1
<1>3. CASE j = Len(s) + 1
  <2>1. s[i] < n
    BY <1>1, <1>2 DEF RangeOf
  <2> QED BY <1>1, <1>2, <1>3, <2>1
<1>4. CASE j \in 1..Len(s)
  BY <1>1, <1>2, <1>4
<1> QED BY <1>1, <1>3, <1>4

\* It goes on increasing without its head, which is less than the rest.
LEMMA IncreasingTail ==
  ASSUME NEW s \in Seq(Runs), s # <<>>, \A i, j \in DOMAIN s : i < j => s[i] < s[j]
  PROVE  /\ \A i, j \in DOMAIN Tail(s) : i < j => Tail(s)[i] < Tail(s)[j]
         /\ \A x \in RangeOf(Tail(s)) : Head(s) < x
         /\ RangeOf(s) = RangeOf(Tail(s)) \cup {Head(s)}
<1>1. /\ Len(s) \in Nat /\ Len(s) > 0
      /\ DOMAIN s = 1..Len(s)
      /\ Head(s) = s[1]
      /\ DOMAIN Tail(s) = 1..(Len(s) - 1)
      /\ \A i \in 1..(Len(s) - 1) : Tail(s)[i] = s[i + 1]
  OBVIOUS
<1>2. ASSUME NEW i \in DOMAIN Tail(s), NEW j \in DOMAIN Tail(s), i < j
      PROVE  Tail(s)[i] < Tail(s)[j]
  <2>1. i + 1 \in DOMAIN s /\ j + 1 \in DOMAIN s /\ i + 1 < j + 1
    BY <1>1, <1>2
  <2>2. s[i + 1] < s[j + 1]
    BY <2>1
  <2> QED BY <1>1, <2>2
<1>3. ASSUME NEW x \in RangeOf(Tail(s)) PROVE Head(s) < x
  <2>1. PICK i \in 1..(Len(s) - 1) : x = s[i + 1]
    BY <1>1, <1>3 DEF RangeOf
  <2>2. 1 \in DOMAIN s /\ i + 1 \in DOMAIN s /\ 1 < i + 1
    BY <1>1, <2>1
  <2> QED BY <1>1, <2>1, <2>2
<1> QED BY <1>2, <1>3, RangeOfTail, RangeWithoutHead

\* What is queued, recovered and active stays as QueuesInv says.
LEMMA NextQueuesInv == TypeOK /\ RowsInv /\ QueuesInv /\ [Next]_vars => QueuesInv'
<1> SUFFICES ASSUME TypeOK, RowsInv, QueuesInv, [Next]_vars PROVE QueuesInv'
  OBVIOUS
<1> USE DEF tables, seen, history
<1>1. RangeOf(<<>>) = {} /\ DOMAIN <<>> = {}
  BY DEF RangeOf
<1>2. \A r \in ListRunningRuns : r \in Runs /\ r <= created
  <2>1. \A r \in Runs : status[r] = "running" => r <= created
    BY DEF RowsInv, Runs, TypeOK
  <2> QED BY <2>1, ListRunningRunsType
<1>3. CASE Boot
  <2>1. /\ handoff' = <<>> /\ tails' = [t \in Threads |-> <<>>] /\ active' = {}
        /\ recovering' = TRUE /\ phase' = "starting"
        /\ recoveryLeft' = ListRunningRuns /\ created' = created
    BY <1>3 DEF Boot, LoseMemory
  <2> QED BY <1>1, <1>2, <2>1 DEF QueuesInv, SchedulerStarted
<1>4. CASE Crash
  <2>1. /\ handoff' = <<>> /\ tails' = [t \in Threads |-> <<>>] /\ active' = {}
        /\ recovering' = FALSE /\ phase' = "down" /\ recoveryLeft' = {}
    BY <1>4 DEF Crash, LoseMemory
  <2> QED BY <1>1, <2>1 DEF QueuesInv
<1>5. CASE BeginShutdown \/ StopScheduler \/ AwaitCompletions \/ CloseDatabase
  <2>1. UNCHANGED <<created, row, handoff, tails, active, recovering, recoveryLeft, launched>>
    BY <1>5 DEF BeginShutdown, StopScheduler, AwaitCompletions, CloseDatabase
  <2>2. phase' # "starting" /\ (recovering' => SchedulerStarted')
    BY <1>5 DEF BeginShutdown, StopScheduler, AwaitCompletions, CloseDatabase, QueuesInv,
                SchedulerStarted
  <2> QED BY <2>1, <2>2 DEF QueuesInv, ThreadOf
<1>6. CASE EnqueueCreatedRun
  <2> DEFINE r == Head(handoff)
  <2>1. /\ handoff # <<>> /\ handoff' = Tail(handoff)
        /\ UNCHANGED <<created, row, active, recovering, recoveryLeft, launched, phase>>
        /\ Schedule(r) \/ UNCHANGED tails
    BY <1>6 DEF EnqueueCreatedRun
  <2>2. r \in Runs /\ r <= created
    <3>1. r \in Runs /\ r \in RangeOf(handoff)
      BY <2>1, RangeOfTail DEF TypeOK
    <3>2. r \in 1..created
      BY <3>1 DEF RowsInv
    <3> QED BY <3>1, <3>2
  <2> HIDE DEF r
  <2>3. ThreadOf(r) \in Threads
    BY <2>2, RowsHaveThreads
  <2>4. \A t \in Threads : \A x \in RangeOf(tails'[t]) :
          x \in RangeOf(tails[t]) \/ (x = r /\ t = ThreadOf(r))
    BY <2>1, <2>2, <2>3, ScheduleAdds DEF TypeOK
  <2>5. \A i, j \in DOMAIN handoff' : i < j => handoff'[i] < handoff'[j]
    BY <2>1, IncreasingTail DEF QueuesInv, TypeOK
  <2>6. \A t \in Threads : \A x \in RangeOf(tails'[t]) : x <= created' /\ ThreadOf(x)' = t
    BY <2>1, <2>2, <2>4 DEF QueuesInv, ThreadOf
  <2>7. phase' # "starting"
    BY <2>1 DEF QueuesInv
  <2> QED BY <2>1, <2>5, <2>6, <2>7 DEF QueuesInv, SchedulerStarted
<1>7. ASSUME NEW m \in Messages, IngestMessage(m) PROVE QueuesInv'
  <2>1. UNCHANGED <<tails, active, recovering, recoveryLeft, launched, phase>> /\ phase # "starting"
    BY <1>7 DEF IngestMessage
  <2>2. CASE CreateRun(m)
    <3>1. /\ created + 1 \in Runs /\ created' = created + 1 /\ created \in Nat
          /\ \A r \in Runs : r <= created => row'[r] = row[r]
          /\ handoff' = Append(handoff, created + 1)
      BY <2>2, CreateRunFrame
    <3>2. \A x \in RangeOf(handoff) : x < created + 1
      BY <3>1 DEF RowsInv
    <3>3. \A i, j \in DOMAIN handoff' : i < j => handoff'[i] < handoff'[j]
      BY <3>1, <3>2, IncreasingAppend DEF QueuesInv, TypeOK
    <3>4. \A t \in Threads : \A x \in RangeOf(tails[t]) : x \in Runs
      BY DEF TypeOK, RangeOf
    <3>5. \A t \in Threads : \A x \in RangeOf(tails'[t]) : x <= created' /\ ThreadOf(x)' = t
      <4> TAKE t \in Threads
      <4> TAKE x \in RangeOf(tails'[t])
      <4>1. x \in Runs /\ x <= created /\ ThreadOf(x) = t
        BY <2>1, <3>4 DEF QueuesInv
      <4>2. x <= created + 1
        BY <3>1, <4>1 DEF Runs
      <4> QED BY <3>1, <4>1, <4>2 DEF ThreadOf
    <3>6. \A r \in recoveryLeft' : r <= created'
      <4>1. \A r \in recoveryLeft : r \in Runs /\ r <= created
        BY DEF QueuesInv, TypeOK
      <4> QED BY <2>1, <3>1, <4>1 DEF Runs
    <3> QED BY <2>1, <3>3, <3>5, <3>6 DEF QueuesInv, SchedulerStarted
  <2>3. CASE Deduplicate(m)
    BY <2>1, <2>3 DEF Deduplicate, QueuesInv, ThreadOf, SchedulerStarted
  <2> QED BY <1>7, <2>2, <2>3 DEF IngestMessage
<1>8. CASE Scheduling
  <2>1. PICK t \in Threads : Dispatch(t) \/ DispatchFails(t)
    BY <1>8 DEF Scheduling
  <2>2. /\ UNCHANGED <<created, row, phase, handoff, recovering, recoveryLeft>>
        /\ tails[t] # <<>> /\ tails' = [tails EXCEPT ![t] = Tail(@)]
    BY <2>1 DEF Dispatch, DispatchFails
  <2>3. \A u \in Threads : RangeOf(tails'[u]) \subseteq RangeOf(tails[u])
    <3> TAKE u \in Threads
    <3>1. CASE u = t
      BY <2>2, <3>1, RangeOfTail DEF TypeOK
    <3>2. CASE u # t
      BY <2>2, <3>2 DEF TypeOK
    <3> QED BY <3>1, <3>2
  <2>4. \A r \in active' : launched'[r] > 0
    <3>1. CASE UNCHANGED <<active, launched>>
      BY <3>1 DEF QueuesInv
    <3>2. CASE Launch(Head(tails[t]))
      <4>1. Head(tails[t]) \in Runs
        BY <2>2 DEF TypeOK
      <4> QED BY <3>2, <4>1 DEF Launch, QueuesInv, TypeOK
    <3> QED BY <2>1, <3>1, <3>2 DEF Dispatch, DispatchFails
  <2> QED BY <2>2, <2>3, <2>4 DEF QueuesInv, ThreadOf, SchedulerStarted
<1>9. CASE Executing
  BY <1>9, ExecutingFrame DEF QueuesInv, ThreadOf, SchedulerStarted
<1>10. CASE RecoveryTick
  <2>1. /\ UNCHANGED <<created, row, handoff, tails, active, launched, phase>>
        /\ recovering' = TRUE /\ recoveryLeft' = ListRunningRuns /\ phase = "up"
    BY <1>10 DEF RecoveryTick
  <2> QED BY <1>2, <2>1 DEF QueuesInv, ThreadOf, SchedulerStarted
<1>11. CASE RecoverNextRun
  <2>1. PICK r \in recoveryLeft : /\ recoveryLeft' = recoveryLeft \ {r}
                                  /\ Schedule(r) \/ UNCHANGED tails
    BY <1>11 DEF RecoverNextRun
  <2>2. UNCHANGED <<created, row, handoff, active, launched, phase, recovering>>
    BY <1>11 DEF RecoverNextRun
  <2>3. r \in Runs /\ r <= created
    BY DEF QueuesInv, TypeOK
  <2>4. ThreadOf(r) \in Threads
    BY <2>3, RowsHaveThreads
  <2>5. \A t \in Threads : \A x \in RangeOf(tails'[t]) :
          x \in RangeOf(tails[t]) \/ (x = r /\ t = ThreadOf(r))
    BY <2>1, <2>3, <2>4, ScheduleAdds DEF TypeOK
  <2>6. \A t \in Threads : \A x \in RangeOf(tails'[t]) : x <= created' /\ ThreadOf(x)' = t
    BY <2>2, <2>3, <2>5 DEF QueuesInv, ThreadOf
  <2> QED BY <2>1, <2>2, <2>6 DEF QueuesInv, SchedulerStarted
<1>12. CASE EndRecovery
  <2>1. /\ UNCHANGED <<created, row, handoff, tails, active, launched, recoveryLeft>>
        /\ recoveryLeft = {} /\ recovering' = FALSE
        /\ phase' = phase \/ phase' = "up"
    BY <1>12 DEF EndRecovery
  <2> QED BY <2>1 DEF QueuesInv, ThreadOf
<1>13. CASE UNCHANGED vars
  BY <1>13 DEF vars, process, QueuesInv, ThreadOf, SchedulerStarted
<1> QED BY <1>3, <1>4, <1>5, <1>6, <1>7, <1>8, <1>9, <1>10, <1>11, <1>12, <1>13
        DEF Next, Lifecycle, Ingest, Recovering

\* Initially there is nothing to order.
LEMMA InitBeginInv == Init => BeginInv
<1> SUFFICES ASSUME Init PROVE BeginInv
  OBVIOUS
<1>1. RangeOf(<<>>) = {} /\ DOMAIN <<>> = {}
  BY DEF RangeOf
<1>2. \A t \in Threads : tails[t] = <<>>
  BY DEF Init
<1>3. QueuesInv
  BY <1>1, <1>2 DEF Init, QueuesInv
<1>4. OnTheWayInv /\ NoneOvertakesInv
  <2>1. phase = "down" /\ recoveryLeft = {}
    BY DEF Init
  <2> QED BY <2>1 DEF OnTheWayInv, NoneOvertakesInv, SchedulerStarted
<1> QED BY <1>3, <1>4 DEF BeginInv

\* A queue stays in order when fewer wait.
LEMMA FewerWait ==
  ASSUME NEW s, NEW P, NEW Q \in SUBSET P, InOrder(s, P)
  PROVE  InOrder(s, Q)
  BY DEF InOrder

\* A queue stays in order when one that is younger than all of it begins to wait.
LEMMA YoungerWaits ==
  ASSUME NEW s \in Seq(Runs), NEW P \in SUBSET Runs, NEW n \in Runs, NEW Q \in SUBSET (P \cup {n}),
         \A x \in RangeOf(s) : x < n, InOrder(s, P)
  PROVE  InOrder(s, Q)
<1> SUFFICES ASSUME NEW i \in DOMAIN s, NEW q \in Q, s[i] \in Q, q < s[i]
             PROVE  \E j \in DOMAIN s : j < i /\ s[j] = q
  BY DEF InOrder
<1>1. s[i] \in Runs /\ s[i] < n
  BY DEF RangeOf
<1>2. q \in Runs /\ q # n /\ s[i] # n
  BY <1>1 DEF Runs
<1>3. q \in P /\ s[i] \in P
  BY <1>2
<1> QED BY <1>3 DEF InOrder

\* A queue stays in order when a run joins it behind every older one that waits.
LEMMA JoinsInOrder ==
  ASSUME NEW s \in Seq(Runs), NEW r \in Runs, NEW P \in SUBSET Runs, InOrder(s, P),
         \A q \in P : r \in P /\ q < r => q \in RangeOf(s)
  PROVE  InOrder(Append(s, r), P)
<1>1. /\ Len(s) \in Nat
      /\ DOMAIN s = 1..Len(s)
      /\ DOMAIN Append(s, r) = 1..(Len(s) + 1)
      /\ Append(s, r)[Len(s) + 1] = r
      /\ \A i \in 1..Len(s) : Append(s, r)[i] = s[i]
  OBVIOUS
<1> SUFFICES ASSUME NEW i \in 1..(Len(s) + 1), NEW q \in P,
                    Append(s, r)[i] \in P, q < Append(s, r)[i]
             PROVE  \E j \in 1..(Len(s) + 1) : j < i /\ Append(s, r)[j] = q
  BY <1>1 DEF InOrder
<1>2. CASE i \in 1..Len(s)
  <2>1. PICK j \in DOMAIN s : j < i /\ s[j] = q
    BY <1>1, <1>2 DEF InOrder
  <2>2. j \in 1..(Len(s) + 1) /\ Append(s, r)[j] = q
    BY <1>1, <2>1
  <2> QED BY <2>1, <2>2
<1>3. CASE i = Len(s) + 1
  <2>1. q \in RangeOf(s)
    BY <1>1, <1>3
  <2>2. PICK j \in 1..Len(s) : s[j] = q
    BY <1>1, <2>1 DEF RangeOf
  <2>3. j \in 1..(Len(s) + 1) /\ j < i /\ Append(s, r)[j] = q
    BY <1>1, <1>3, <2>2
  <2> QED BY <2>3
<1> QED BY <1>1, <1>2, <1>3

\* A queue stays in order without its head when the head does not wait.
LEMMA LeavesInOrder ==
  ASSUME NEW s \in Seq(Runs), s # <<>>, NEW P \in SUBSET Runs, Head(s) \notin P, InOrder(s, P)
  PROVE  InOrder(Tail(s), P)
<1>1. /\ Len(s) \in Nat /\ Len(s) > 0
      /\ DOMAIN s = 1..Len(s)
      /\ Head(s) = s[1]
  OBVIOUS
<1> DEFINE tail == Tail(s)
<1>2. /\ DOMAIN tail = 1..(Len(s) - 1)
      /\ \A i \in 1..(Len(s) - 1) : tail[i] = s[i + 1]
  BY <1>1
<1> HIDE DEF tail
<1>3. ASSUME NEW i \in 1..(Len(s) - 1), NEW q \in P, s[i + 1] \in P, q < s[i + 1]
      PROVE  \E j \in DOMAIN tail : j < i /\ tail[j] = q
  <2>1. i + 1 \in DOMAIN s
    BY <1>1
  <2>2. PICK j \in DOMAIN s : j < i + 1 /\ s[j] = q
    BY <1>3, <2>1 DEF InOrder
  <2>3. j # 1
    BY <1>1, <1>3, <2>2
  <2>4. j - 1 \in DOMAIN tail /\ j - 1 < i /\ tail[j - 1] = q
    BY <1>1, <1>2, <2>2, <2>3
  <2> QED BY <2>4
<1>4. InOrder(tail, P)
  BY <1>2, <1>3 DEF InOrder
<1> QED BY <1>4 DEF tail

\* What is said of the way runs take depends on these variables only, and survives
\* when fewer runs are left to begin.
LEMMA OrderFrame ==
  ASSUME OnTheWayInv, NoneOvertakesInv,
         UNCHANGED <<row, phase, handoff, tails, recoveryLeft>>,
         \A r \in Runs : Unbegun(r)' => Unbegun(r)
  PROVE  OnTheWayInv' /\ NoneOvertakesInv'
<1>1. Scheduled' = Scheduled /\ SchedulerStarted' = SchedulerStarted
  BY DEF Scheduled, SchedulerStarted
<1>2. OnTheWayInv'
  BY <1>1 DEF OnTheWayInv
<1>3. \A t \in Threads : UnbegunOf(t)' \subseteq UnbegunOf(t)
  BY DEF UnbegunOf, ThreadOf
<1>4. \A t \in Threads : InOrder(tails[t], UnbegunOf(t)) => InOrder(tails'[t], UnbegunOf(t)')
  BY <1>3, FewerWait
<1> QED BY <1>1, <1>2, <1>4 DEF NoneOvertakesInv

\* A dispatch begins the run it takes off the queue, unless that run has begun before
\* or is settled: none that is yet to begin is lost.
LEMMA DispatchOrder ==
  ASSUME TypeOK, QueuesInv, OnTheWayInv, NoneOvertakesInv, NEW t \in Threads, Dispatch(t)
  PROVE  OnTheWayInv' /\ NoneOvertakesInv'
<1>1. PICK h \in Runs : h = Head(tails[t]) /\ tails[t] # <<>>
  BY DEF TypeOK, Dispatch
<1>2. /\ UNCHANGED <<created, row, status, phase, handoff, recovering, recoveryLeft>>
      /\ tails' = [tails EXCEPT ![t] = Tail(@)]
      /\ IF SchedulerStarted /\ Runnable(h) THEN Launch(h) ELSE UNCHANGED <<active, live, launched>>
  BY <1>1 DEF Dispatch, tables
<1>3. /\ tails'[t] = Tail(tails[t])
      /\ \A u \in Threads : u # t => tails'[u] = tails[u]
  BY <1>2 DEF TypeOK
<1>4. \A r \in Runs : Unbegun(r)' => Unbegun(r)
  <2>1. \A r \in Runs : launched[r] \in Nat /\ (launched'[r] = launched[r] \/ launched'[r] = launched[r] + 1)
    BY <1>1, <1>2 DEF Launch, TypeOK
  <2>2. \A r \in Runs : launched'[r] = 0 => launched[r] = 0
    BY <2>1
  <2> QED BY <1>2, <2>2 DEF Unbegun
<1>5. SchedulerStarted => ~Unbegun(h)'
  <2> SUFFICES ASSUME SchedulerStarted, Unbegun(h)' PROVE FALSE
    OBVIOUS
  <2>1. Unbegun(h)
    BY <1>4
  <2>2. h \notin active
    <3>1. launched[h] = 0
      BY <2>1 DEF Unbegun
    <3> QED BY <3>1 DEF QueuesInv
  <2>3. launched' = [launched EXCEPT ![h] = @ + 1]
    BY <1>2, <2>1, <2>2 DEF Runnable, Unbegun, Launch
  <2>4. launched'[h] = launched[h] + 1 /\ launched[h] = 0
    BY <2>1, <2>3 DEF TypeOK, Unbegun
  <2> QED BY <2>4 DEF Unbegun
<1>6. \A x \in Scheduled : x \in Scheduled' \/ x = h
  <2> SUFFICES ASSUME NEW x \in Scheduled, x # h PROVE x \in Scheduled'
    OBVIOUS
  <2>1. PICK u \in Threads : x \in RangeOf(tails[u])
    BY DEF Scheduled
  <2>2. x \in RangeOf(tails'[u])
    <3>1. CASE u = t
      BY <1>1, <1>3, <2>1, <3>1, RangeWithoutHead DEF TypeOK
    <3>2. CASE u # t
      BY <1>3, <2>1, <3>2
    <3> QED BY <3>1, <3>2
  <2> QED BY <2>2 DEF Scheduled
<1>7. phase' = phase /\ SchedulerStarted' = SchedulerStarted
  BY <1>2 DEF SchedulerStarted
<1>8. OnTheWayInv'
  <2>1. phase \in {"starting", "up", "draining"} => SchedulerStarted
    BY DEF SchedulerStarted
  <2> QED BY <1>2, <1>4, <1>5, <1>6, <2>1 DEF OnTheWayInv
<1>9. \A r \in recoveryLeft' : \A q \in Runs :
        q < r /\ Unbegun(q)' => q \in Scheduled' \cup recoveryLeft'
  <2>1. \A r \in recoveryLeft : SchedulerStarted
    BY DEF QueuesInv
  <2> QED BY <1>2, <1>4, <1>5, <1>6, <2>1 DEF NoneOvertakesInv
<1>10. ASSUME SchedulerStarted, NEW u \in Threads PROVE InOrder(tails'[u], UnbegunOf(u)')
  <2>1. /\ UnbegunOf(u)' \subseteq UnbegunOf(u) /\ UnbegunOf(u)' \subseteq Runs
        /\ h \notin UnbegunOf(u)'
    BY <1>2, <1>4, <1>5, <1>10 DEF UnbegunOf, ThreadOf
  <2>2. InOrder(tails[u], UnbegunOf(u)')
    BY <1>10, <2>1, FewerWait DEF NoneOvertakesInv
  <2>3. CASE u = t
    <3>1. tails[t] \in Seq(Runs) /\ tails[t] # <<>> /\ Head(tails[t]) \notin UnbegunOf(t)'
      BY <1>1, <2>1, <2>3 DEF TypeOK
    <3>2. InOrder(Tail(tails[t]), UnbegunOf(t)')
      BY <2>1, <2>2, <2>3, <3>1, LeavesInOrder
    <3> QED BY <1>3, <2>3, <3>2
  <2>4. CASE u # t
    BY <1>3, <2>2, <2>4
  <2> QED BY <2>3, <2>4
<1> QED BY <1>7, <1>8, <1>9, <1>10 DEF NoneOvertakesInv

\* The queues stay in order when a run joins its own behind every older run of its
\* thread that has yet to begin.
LEMMA ScheduleKeepsOrder ==
  ASSUME TypeOK, NEW r \in Runs, ThreadOf(r) \in Threads, Schedule(r),
         UNCHANGED <<row, status, launched>>,
         \A q \in UnbegunOf(ThreadOf(r)) :
           r \in UnbegunOf(ThreadOf(r)) /\ q < r => q \in RangeOf(tails[ThreadOf(r)]),
         \A t \in Threads : InOrder(tails[t], UnbegunOf(t))
  PROVE  \A t \in Threads : InOrder(tails'[t], UnbegunOf(t)')
<1> TAKE t \in Threads
<1>1. UnbegunOf(t)' = UnbegunOf(t) /\ UnbegunOf(t) \subseteq Runs
  BY DEF UnbegunOf, Unbegun, ThreadOf
<1>2. CASE tails'[t] = tails[t]
  BY <1>1, <1>2
<1>3. CASE tails'[t] # tails[t]
  <2>1. t = ThreadOf(r) /\ tails'[t] = Append(tails[t], r)
    BY <1>3 DEF Schedule, TypeOK
  <2>2. tails[t] \in Seq(Runs)
    BY DEF TypeOK
  <2>3. InOrder(Append(tails[t], r), UnbegunOf(t))
    BY <1>1, <2>1, <2>2, JoinsInOrder
  <2> QED BY <1>1, <2>1, <2>3
<1> QED BY <1>2, <1>3

\* A run that ingest enqueues joins its queue behind the older runs of its thread.
LEMMA EnqueueOrder ==
  ASSUME TypeOK, RowsInv, QueuesInv, OnTheWayInv, NoneOvertakesInv, EnqueueCreatedRun
  PROVE  OnTheWayInv' /\ NoneOvertakesInv'
<1>1. PICK r \in Runs : r = Head(handoff) /\ handoff # <<>> /\ r <= created
  <2>1. handoff # <<>> /\ Head(handoff) \in Runs /\ Head(handoff) \in RangeOf(handoff)
    BY RangeOfTail DEF EnqueueCreatedRun, TypeOK
  <2>2. Head(handoff) \in 1..created
    BY <2>1 DEF RowsInv
  <2> QED BY <2>1, <2>2
<1>2. /\ UNCHANGED <<created, row, status, phase, recovering, recoveryLeft, launched>>
      /\ handoff' = Tail(handoff)
      /\ IF SchedulerStarted THEN Schedule(r) ELSE UNCHANGED tails
  BY <1>1 DEF EnqueueCreatedRun, tables, history
<1>3. /\ \A x \in Runs : Unbegun(x)' <=> Unbegun(x)
      /\ SchedulerStarted' = SchedulerStarted
  BY <1>2 DEF Unbegun, SchedulerStarted
<1>4. ThreadOf(r) \in Threads
  BY <1>1, RowsHaveThreads
<1>5. CASE ~SchedulerStarted
  <2>1. recoveryLeft = {} /\ phase \notin {"starting", "up", "draining"}
    BY <1>5 DEF QueuesInv, SchedulerStarted
  <2> QED BY <1>2, <1>3, <1>5, <2>1 DEF OnTheWayInv, NoneOvertakesInv
<1>6. CASE SchedulerStarted
  <2>1. Schedule(r) /\ Scheduled \cup {r} \subseteq Scheduled'
    BY <1>2, <1>4, <1>6, ScheduleAdds DEF TypeOK
  <2>2. phase # "starting" /\ phase \in {"up", "draining"}
    BY <1>1, <1>6 DEF QueuesInv, SchedulerStarted
  <2>3. /\ \A x \in RangeOf(handoff') : r < x
        /\ RangeOf(handoff) = RangeOf(handoff') \cup {r}
    BY <1>1, <1>2, IncreasingTail DEF QueuesInv, TypeOK
  <2>4. OnTheWayInv'
    BY <1>2, <1>3, <2>1, <2>2, <2>3 DEF OnTheWayInv
  <2>5. \A x \in recoveryLeft' : \A q \in Runs :
          q < x /\ Unbegun(q)' => q \in Scheduled' \cup recoveryLeft'
    BY <1>2, <1>3, <2>1 DEF NoneOvertakesInv
  <2>6. ASSUME NEW q \in Runs, q < r, ThreadOf(q) = ThreadOf(r), Unbegun(q)
        PROVE  q \in RangeOf(tails[ThreadOf(r)])
    <3>1. q \in Scheduled \cup RangeOf(handoff)
      BY <2>2, <2>6 DEF OnTheWayInv
    <3>2. q \notin RangeOf(handoff') /\ q # r
      BY <2>3, <2>6 DEF Runs
    <3>3. q \in Scheduled
      BY <2>3, <3>1, <3>2
    <3> QED BY <2>6, <3>3, ScheduledInOwnQueue
  <2>7. \A q \in UnbegunOf(ThreadOf(r)) :
          r \in UnbegunOf(ThreadOf(r)) /\ q < r => q \in RangeOf(tails[ThreadOf(r)])
    BY <2>6 DEF UnbegunOf
  <2>8. \A t \in Threads : InOrder(tails'[t], UnbegunOf(t)')
    BY <1>2, <1>4, <1>6, <2>1, <2>7, ScheduleKeepsOrder DEF NoneOvertakesInv
  <2> QED BY <1>3, <2>4, <2>5, <2>8 DEF NoneOvertakesInv
<1> QED BY <1>5, <1>6

\* A run that is created is the newest of all.
LEMMA IngestOrder ==
  ASSUME TypeOK, RowsInv, QueuesInv, OnTheWayInv, NoneOvertakesInv,
         NEW m \in Messages, IngestMessage(m)
  PROVE  OnTheWayInv' /\ NoneOvertakesInv'
<1>1. /\ UNCHANGED <<phase, tails, recovering, recoveryLeft, launched>> /\ phase # "starting"
      /\ CreateRun(m) \/ Deduplicate(m)
  BY DEF IngestMessage, history
<1>2. CASE Deduplicate(m)
  <2>1. UNCHANGED <<created, row, status, handoff>>
    BY <1>2 DEF Deduplicate, tables
  <2>2. \A r \in Runs : Unbegun(r)' => Unbegun(r)
    BY <1>1, <2>1 DEF Unbegun
  <2> QED BY <1>1, <2>1, <2>2, OrderFrame
<1>3. CASE CreateRun(m)
  <2> DEFINE n == created + 1
  <2>1. /\ n \in Runs /\ created \in Nat
        /\ \A r \in Runs : r <= created => row'[r] = row[r] /\ status'[r] = status[r]
        /\ handoff' = Append(handoff, n)
    BY <1>3, CreateRunFrame
  <2>2. \A r \in Runs : r # n => status'[r] = status[r]
    BY <1>3, <2>1 DEF CreateRun, TypeOK
  <2>3. RangeOf(handoff') = RangeOf(handoff) \cup {n}
    BY <2>1, RangeOfAppend DEF TypeOK
  <2>4. \A r \in Runs : r <= created => r < n
    BY <2>1 DEF Runs
  <2> HIDE DEF n
  <2>5. \A r \in Runs : r # n => (Unbegun(r)' <=> Unbegun(r))
    BY <1>1, <2>2 DEF Unbegun
  <2>6. Scheduled' = Scheduled /\ SchedulerStarted' = SchedulerStarted
    BY <1>1 DEF Scheduled, SchedulerStarted
  <2>7. OnTheWayInv'
    BY <1>1, <2>3, <2>5, <2>6 DEF OnTheWayInv
  <2>8. \A r \in recoveryLeft' : \A q \in Runs :
          q < r /\ Unbegun(q)' => q \in Scheduled' \cup recoveryLeft'
    <3> SUFFICES ASSUME NEW r \in recoveryLeft, NEW q \in Runs, q < r, Unbegun(q)'
                 PROVE  q \in Scheduled \cup recoveryLeft
      BY <1>1, <2>6
    <3>1. r \in Runs /\ r < n
      BY <2>4 DEF QueuesInv, TypeOK
    <3>2. q # n
      BY <2>1, <3>1 DEF Runs
    <3> QED BY <2>5, <3>2 DEF NoneOvertakesInv
  <2>9. ASSUME NEW t \in Threads, InOrder(tails[t], UnbegunOf(t))
        PROVE  InOrder(tails'[t], UnbegunOf(t)')
    <3>1. /\ tails'[t] = tails[t] /\ tails[t] \in Seq(Runs)
          /\ \A x \in RangeOf(tails[t]) : x \in Runs /\ x <= created
      BY <1>1 DEF TypeOK, QueuesInv, RangeOf
    <3>2. UnbegunOf(t)' \subseteq UnbegunOf(t) \cup {n}
      <4> SUFFICES ASSUME NEW q \in UnbegunOf(t)', q # n PROVE q \in UnbegunOf(t)
        OBVIOUS
      <4>1. q \in Runs /\ Unbegun(q) /\ ThreadOf(q)' = t
        BY <2>5 DEF UnbegunOf
      <4>2. q <= created
        BY <4>1 DEF Unbegun, RowsInv, TypeOK, Runs
      <4>3. ThreadOf(q) = t
        BY <2>1, <4>1, <4>2 DEF ThreadOf
      <4> QED BY <4>1, <4>3 DEF UnbegunOf
    <3>3. UnbegunOf(t) \subseteq Runs /\ \A x \in RangeOf(tails[t]) : x < n
      BY <2>4, <3>1 DEF UnbegunOf
    <3> QED BY <2>1, <2>9, <3>1, <3>2, <3>3, YoungerWaits
  <2> QED BY <2>6, <2>8, <2>7, <2>9 DEF NoneOvertakesInv
<1> QED BY <1>1, <1>2, <1>3

\* A process that starts has the whole backlog in its recovery pass; one that stops
\* has finished its pass.
LEMMA LifecycleOrder ==
  ASSUME TypeOK, QueuesInv, OnTheWayInv, NoneOvertakesInv, BacklogFits, Lifecycle
  PROVE  OnTheWayInv' /\ NoneOvertakesInv'
<1>1. CASE Boot
  <2>1. /\ phase' = "starting" /\ tails' = [t \in Threads |-> <<>>]
        /\ recoveryLeft' = {r \in Runs : status[r] = "running"} /\ status' = status
    BY <1>1, RecoveryListsAll DEF Boot, LoseMemory, tables
  <2>2. \A r \in Runs : Unbegun(r)' => r \in recoveryLeft'
    BY <2>1 DEF Unbegun
  <2>3. \A t \in Threads : InOrder(tails'[t], UnbegunOf(t)')
    BY <2>1 DEF InOrder
  <2> QED BY <2>1, <2>2, <2>3 DEF OnTheWayInv, NoneOvertakesInv
<1>2. CASE Crash
  BY <1>2 DEF Crash, OnTheWayInv, NoneOvertakesInv, SchedulerStarted
<1>3. CASE BeginShutdown
  <2>1. /\ UNCHANGED <<row, status, tails, handoff, recoveryLeft, launched>>
        /\ phase = "up" /\ phase' = "draining"
    BY <1>3 DEF BeginShutdown, tables
  <2>2. Scheduled' = Scheduled /\ SchedulerStarted /\ \A r \in Runs : Unbegun(r)' <=> Unbegun(r)
    BY <2>1 DEF Scheduled, SchedulerStarted, Unbegun
  <2>3. \A t \in Threads : UnbegunOf(t)' = UnbegunOf(t)
    BY <2>1 DEF UnbegunOf, Unbegun, ThreadOf
  <2> QED BY <2>1, <2>2, <2>3 DEF OnTheWayInv, NoneOvertakesInv
<1>4. CASE StopScheduler \/ AwaitCompletions \/ CloseDatabase
  <2>1. /\ recoveryLeft' = recoveryLeft
        /\ phase' \in {"stopping", "awaiting", "closed"}
    BY <1>4 DEF StopScheduler, AwaitCompletions, CloseDatabase
  <2>2. recoveryLeft = {}
    BY <1>4 DEF StopScheduler, AwaitCompletions, CloseDatabase, QueuesInv, SchedulerStarted
  <2> QED BY <2>1, <2>2 DEF OnTheWayInv, NoneOvertakesInv, SchedulerStarted
<1> QED BY <1>1, <1>2, <1>3, <1>4 DEF Lifecycle

\* A pass begins with the whole backlog and schedules the oldest first, so a run joins
\* its queue when the older ones of its thread are in it.
LEMMA RecoveringOrder ==
  ASSUME TypeOK, RowsInv, QueuesInv, OnTheWayInv, NoneOvertakesInv, BacklogFits, Recovering
  PROVE  OnTheWayInv' /\ NoneOvertakesInv'
<1>1. UNCHANGED <<created, row, status, handoff, active, launched>>
  BY DEF Recovering, RecoveryTick, RecoverNextRun, EndRecovery, tables, history
<1>2. /\ \A x \in Runs : Unbegun(x)' <=> Unbegun(x)
      /\ \A t \in Threads : UnbegunOf(t)' = UnbegunOf(t)
  BY <1>1 DEF UnbegunOf, Unbegun, ThreadOf
<1>3. UNCHANGED tails => Scheduled' = Scheduled
  BY DEF Scheduled
<1>4. CASE RecoveryTick
  <2>1. /\ UNCHANGED <<phase, tails>> /\ phase = "up"
        /\ recoveryLeft' = {r \in Runs : status[r] = "running"}
    BY <1>4, RecoveryListsAll DEF RecoveryTick
  <2>2. \A r \in Runs : Unbegun(r)' => r \in recoveryLeft'
    BY <1>1, <2>1 DEF Unbegun
  <2>3. SchedulerStarted
    BY <2>1 DEF SchedulerStarted
  <2> QED BY <1>1, <1>2, <1>3, <2>1, <2>2, <2>3 DEF OnTheWayInv, NoneOvertakesInv
<1>5. CASE RecoverNextRun
  <2>1. PICK r \in recoveryLeft :
          /\ \A q \in recoveryLeft : r <= q
          /\ recoveryLeft' = recoveryLeft \ {r}
          /\ IF r \in active \/ ~SchedulerStarted THEN UNCHANGED tails ELSE Schedule(r)
    BY <1>5 DEF RecoverNextRun
  <2>2. SchedulerStarted /\ phase' = phase /\ r \in Runs /\ r <= created
    BY <1>5 DEF QueuesInv, TypeOK, RecoverNextRun
  <2>3. SchedulerStarted' = SchedulerStarted
    BY <2>2 DEF SchedulerStarted
  <2>4. ThreadOf(r) \in Threads
    BY <2>2, RowsHaveThreads
  <2>5. Scheduled \subseteq Scheduled' /\ (Unbegun(r) => r \in Scheduled')
    <3>1. CASE r \in active
      <4>1. launched[r] > 0
        BY <3>1 DEF QueuesInv
      <4>2. ~Unbegun(r)
        BY <4>1 DEF Unbegun
      <4> QED BY <1>3, <2>1, <3>1, <4>2
    <3>2. CASE r \notin active
      BY <2>1, <2>2, <2>4, <3>2, ScheduleAdds DEF TypeOK
    <3> QED BY <3>1, <3>2
  <2>6. OnTheWayInv'
    BY <1>1, <1>2, <2>1, <2>2, <2>5 DEF OnTheWayInv
  <2>7. \A x \in recoveryLeft' : \A q \in Runs :
          q < x /\ Unbegun(q)' => q \in Scheduled' \cup recoveryLeft'
    BY <1>2, <2>1, <2>5 DEF NoneOvertakesInv
  <2>8. ASSUME NEW q \in UnbegunOf(ThreadOf(r)), q < r
        PROVE  q \in RangeOf(tails[ThreadOf(r)])
    <3>1. q \in Runs /\ Unbegun(q) /\ ThreadOf(q) = ThreadOf(r)
      BY <2>8 DEF UnbegunOf
    <3>2. q \notin recoveryLeft
      BY <2>1, <2>2, <2>8, <3>1 DEF Runs
    <3>3. q \in Scheduled
      BY <2>8, <3>1, <3>2 DEF NoneOvertakesInv
    <3> QED BY <3>1, <3>3, ScheduledInOwnQueue
  <2>9. \A t \in Threads : InOrder(tails'[t], UnbegunOf(t)')
    <3>1. \A t \in Threads : InOrder(tails[t], UnbegunOf(t))
      BY <2>2 DEF NoneOvertakesInv
    <3>2. CASE UNCHANGED tails
      BY <1>2, <3>1, <3>2
    <3>3. CASE Schedule(r)
      BY <1>1, <2>2, <2>4, <2>8, <3>1, <3>3, ScheduleKeepsOrder
    <3> QED BY <2>1, <3>2, <3>3
  <2> QED BY <2>6, <2>7, <2>9 DEF NoneOvertakesInv
<1>6. CASE EndRecovery
  <2>1. /\ UNCHANGED <<tails, recoveryLeft>> /\ recoveryLeft = {} /\ recovering
        /\ phase' = IF phase = "starting" THEN "up" ELSE phase
    BY <1>6 DEF EndRecovery
  <2>2. SchedulerStarted
    BY <2>1 DEF QueuesInv
  <2> QED BY <1>1, <1>2, <1>3, <2>1, <2>2 DEF OnTheWayInv, NoneOvertakesInv
<1> QED BY <1>4, <1>5, <1>6 DEF Recovering

\* The database fails no more often than it has so far, unless a step is a failure.
LEMMA FaultsOnlyGrow ==
  ASSUME TypeOK, [Next]_vars, faults' = 0
  PROVE  faults = 0 /\ ~(\E t \in Threads : DispatchFails(t))
<1> USE DEF TypeOK, tables, process, seen, history
<1>1. faults \in Nat
  OBVIOUS
<1>2. ASSUME NEW t \in Threads, DispatchFails(t) PROVE FALSE
  BY <1>1, <1>2 DEF DispatchFails
<1>3. faults' = faults \/ faults' = faults + 1
  BY DEF vars, Next, Lifecycle, Boot, Crash, BeginShutdown, StopScheduler, AwaitCompletions,
         CloseDatabase, Ingest, IngestMessage, EnqueueCreatedRun, Scheduling, Dispatch,
         DispatchFails, Executing, ExecutorRejects, ExecutorResolves, MarkSucceededFails,
         MarkFailed, MarkFailedFails, AnnounceOutcome, Recovering, RecoveryTick,
         RecoverNextRun, EndRecovery
<1> QED BY <1>1, <1>2, <1>3

\* The invariant behind ThreadOrder is inductive as long as the backlog fits.
LEMMA NextBeginInv ==
  TypeOK /\ RowsInv /\ BeginInv /\ BacklogFits /\ [Next]_vars => BeginInv'
<1> SUFFICES ASSUME TypeOK, RowsInv, BeginInv, BacklogFits, [Next]_vars PROVE BeginInv'
  OBVIOUS
<1>1. QueuesInv /\ QueuesInv'
  BY NextQueuesInv DEF BeginInv
<1>2. ASSUME faults' = 0 PROVE OnTheWayInv' /\ NoneOvertakesInv'
  <2>1. OnTheWayInv /\ NoneOvertakesInv /\ ~(\E t \in Threads : DispatchFails(t))
    BY <1>2, FaultsOnlyGrow DEF BeginInv
  <2>2. CASE Lifecycle
    BY <1>1, <2>1, <2>2, LifecycleOrder
  <2>3. CASE Ingest
    BY <1>1, <2>1, <2>3, EnqueueOrder, IngestOrder DEF Ingest
  <2>4. CASE Scheduling
    BY <1>1, <2>1, <2>4, DispatchOrder DEF Scheduling
  <2>5. CASE Executing
    <3>1. \A r \in Runs : Unbegun(r)' => Unbegun(r)
      BY <2>5, ExecutingUnbegun
    <3> QED BY <2>1, <2>5, <3>1, ExecutingFrame, OrderFrame
  <2>6. CASE Recovering
    BY <1>1, <2>1, <2>6, RecoveringOrder
  <2>7. CASE UNCHANGED vars
    <3>1. \A r \in Runs : Unbegun(r)' => Unbegun(r)
      BY <2>7 DEF vars, tables, history, Unbegun
    <3>2. UNCHANGED <<row, phase, handoff, tails, recoveryLeft>>
      BY <2>7 DEF vars, tables, process
    <3> QED BY <2>1, <3>1, <3>2, OrderFrame
  <2> QED BY <2>2, <2>3, <2>4, <2>5, <2>6, <2>7 DEF Next
<1> QED BY <1>1, <1>2 DEF BeginInv

\* A run begins in a dispatch only, of the queue it is the head of.
LEMMA BeginsInDispatch ==
  ASSUME TypeOK, [Next]_vars, NEW r \in Runs, launched[r] = 0, launched'[r] = 1
  PROVE  \E t \in Threads : Dispatch(t) /\ r = Head(tails[t])
<1> launched'[r] # launched[r]
  OBVIOUS
<1>1. CASE Lifecycle
  BY <1>1 DEF Lifecycle, Boot, Crash, LoseMemory, BeginShutdown, StopScheduler,
              AwaitCompletions, CloseDatabase, history
<1>2. CASE Ingest \/ Executing \/ Recovering \/ UNCHANGED vars
  <2>1. UNCHANGED launched
    BY <1>2, ExecutingFrame DEF Ingest, IngestMessage, EnqueueCreatedRun, Recovering,
         RecoveryTick, RecoverNextRun, EndRecovery, vars, history
  <2> QED BY <2>1
<1>3. CASE Scheduling
  <2>1. PICK t \in Threads : Dispatch(t) \/ DispatchFails(t)
    BY <1>3 DEF Scheduling
  <2>2. Dispatch(t) /\ Launch(Head(tails[t]))
    BY <2>1 DEF Dispatch, DispatchFails
  <2>3. launched' = [launched EXCEPT ![Head(tails[t])] = @ + 1]
    BY <2>2 DEF Launch
  <2>4. r = Head(tails[t])
    BY <2>3 DEF TypeOK
  <2> QED BY <2>2, <2>4
<1> QED BY <1>1, <1>2, <1>3 DEF Next

\* Runs of a thread begin in the order they were accepted in, through crashes,
\* restarts and shutdowns, as long as the database does not fail and no recovery pass
\* leaves a running row out.
THEOREM BeginInOrder == Spec /\ []BacklogFits => ThreadOrder
<1>1. Init => BeginInv
  BY InitBeginInv
<1>2. TypeOK /\ RowsInv /\ BeginInv /\ BacklogFits /\ [Next]_vars => BeginInv'
  BY NextBeginInv
<1>3. IndInv => TypeOK /\ RowsInv
  BY DEF IndInv
<1>4. TypeOK /\ BeginInv /\ [Next]_vars => [BeginsInOrder]_vars
  <2> SUFFICES ASSUME TypeOK, BeginInv, [Next]_vars,
                      NEW r \in Runs, faults = 0, launched[r] = 0, launched'[r] = 1,
                      NEW q \in Runs, q < r, status[q] = "running", ThreadOf(q) = ThreadOf(r)
               PROVE  launched[q] > 0
    BY DEF BeginsInOrder
  <2>1. PICK t \in Threads : Dispatch(t) /\ r = Head(tails[t])
    BY BeginsInDispatch
  <2>2. SchedulerStarted /\ Runnable(r)
    <3>1. launched' # launched
      OBVIOUS
    <3> QED BY <2>1, <3>1 DEF Dispatch
  <2>3. tails[t] \in Seq(Runs) /\ tails[t] # <<>>
    BY <2>1 DEF TypeOK, Dispatch
  <2>4. 1 \in DOMAIN tails[t] /\ r = tails[t][1] /\ DOMAIN tails[t] \subseteq Nat \ {0}
    BY <2>1, <2>3
  <2>5. ThreadOf(r) = t
    BY <2>4 DEF BeginInv, QueuesInv, RangeOf
  <2>6. Unbegun(r) /\ r \in UnbegunOf(t)
    BY <2>2, <2>5 DEF Unbegun, UnbegunOf, Runnable
  <2> SUFFICES ASSUME launched[q] = 0 PROVE FALSE
    BY DEF TypeOK
  <2>7. q \in UnbegunOf(t)
    BY <2>5 DEF Unbegun, UnbegunOf
  <2>8. InOrder(tails[t], UnbegunOf(t))
    BY <2>2 DEF BeginInv, NoneOvertakesInv
  <2>9. \E j \in DOMAIN tails[t] : j < 1 /\ tails[t][j] = q
    BY <2>4, <2>6, <2>7, <2>8 DEF InOrder
  <2> QED BY <2>4, <2>9
<1> QED BY <1>1, <1>2, <1>3, <1>4, InductiveInvariant, PTL DEF Spec, ThreadOrder

================================================================================
