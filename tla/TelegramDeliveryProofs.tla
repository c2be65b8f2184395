-------------------------- MODULE TelegramDeliveryProofs --------------------------
(***************************************************************************)
(* Proofs about TelegramDelivery, for any runs and threads and every bound,  *)
(* and about the messages it sends (TelegramMarkdown), for every answer the  *)
(* renderers can make, every text and every limit.                           *)
(***************************************************************************)
EXTENDS MCTelegramDelivery, SequenceTheorems, FiniteSetTheorems, WellFoundedInduction, TLAPS

\* The updates and the runners.
BotInv ==
  /\ handle \in BOOLEAN /\ starting \in Nat /\ loops \in Nat
  /\ status \in [Runs -> {"none", "running", "ended"}]
  /\ held \subseteq TextRuns /\ fetched \subseteq TextRuns
  /\ cancels \in Nat
  /\ handle => loops > 0
  /\ process = "stopping" => handle

Typed ==
  /\ process \in {"up", "aborting", "stopping", "stopped", "closing", "exited"}
  /\ used \in 0..MaxDeliveries /\ run \in [Ids -> Runs \cup {None}]
  /\ stage \in [Ids -> {"none", "starting", "polling", "replying", "telling",
                        "silent", "over"}]
  /\ aborted \in [Ids -> BOOLEAN]
  /\ taskOf \in [Runs -> Ids \cup {None}]
  /\ tasks \subseteq Ids /\ controllers \subseteq Ids /\ awaited \subseteq Ids
  /\ exposed \subseteq Ids /\ late \subseteq Ids
  /\ cancelling \subseteq Threads

\* A delivery that has begun has a run, and the others have nothing.
StartedInv ==
  /\ \A d \in Ids : stage[d] # "none" => d <= used /\ run[d] \in Runs
  /\ \A d \in Ids : d > used => ~aborted[d] /\ d \notin controllers
  /\ \A d \in Ids : d <= used => run[d] \in Runs

\* Until the maps are cleared, the registry knows every delivery under way.
Tracked ==
  process \in {"up", "aborting"} =>
    \A d \in Ids : InProgress(d) => taskOf[run[d]] = d /\ d \in tasks /\ d \in controllers

\* abortAllAndWait awaits all that were under way when it began.
AwaitedInv ==
  process = "aborting" => \A d \in Ids : InProgress(d) => d \in awaited \/ d \in late

\* Only a stop that concerns a delivery aborts it, or is about to.
AbortInv ==
  \A d \in Ids : InProgress(d) /\ (aborted[d] \/ ThreadOf[run[d]] \in cancelling) => d \in exposed

CoreInv ==
  /\ Typed /\ StartedInv /\ Tracked /\ AwaitedInv /\ AbortInv
  /\ SilencedOnlyByItsThread /\ OneDeliveryPerRun /\ LeftoversAreLate

IndInv == BotInv /\ CoreInv

--------------------------------------------------------------------------------
\* The registry.

\* A step that changes neither the deliveries nor what the registry knows of them.
core == <<process, registry, stage, aborted, awaited, cancelling, exposed>>

LEMMA CoreKept ==
  ASSUME CoreInv, UNCHANGED core
  PROVE  CoreInv'
BY DEF core, registry, CoreInv, Typed, StartedInv, Tracked, AwaitedInv, AbortInv, InProgress,
       SilencedOnlyByItsThread, OneDeliveryPerRun, LeftoversAreLate

\* startBackgroundTask or the next registration: a delivery begins, not yet in the registry.
LEMMA StartStep ==
  ASSUME CoreInv, NEW r \in Runs, taskOf[r] = None, StartDelivery(r), process # "exited",
         UNCHANGED <<process, aborted, awaited, cancelling>>
  PROVE  CoreInv'
<1> DEFINE n == used + 1
<1> USE DEF CoreInv
<1>1. n \in Ids /\ n > used /\ used' = n /\ used' \in 0..MaxDeliveries
  BY ConstantsAssumption DEF StartDelivery, Typed, Ids
<1>2. stage[n] = "none" /\ ~aborted[n]
  BY <1>1 DEF StartedInv, Typed, Ids
<1>3. /\ run' = [run EXCEPT ![n] = r] /\ stage' = [stage EXCEPT ![n] = "starting"]
      /\ tasks' = tasks \cup {n} /\ taskOf' = [taskOf EXCEPT ![r] = n]
      /\ controllers' = controllers \cup {n}
      /\ late' = IF process = "up" THEN late ELSE late \cup {n}
      /\ exposed' = IF ThreadOf[r] \in cancelling THEN exposed \cup {n} ELSE exposed
  BY DEF StartDelivery
<1>4. Typed'
  BY <1>1, <1>3 DEF Typed
<1>5. StartedInv'
  BY <1>1, <1>2, <1>3 DEF Typed, StartedInv, Ids
<1>6. /\ \A d \in Ids : d # n => stage'[d] = stage[d] /\ run'[d] = run[d] /\ (InProgress(d)' <=> InProgress(d))
      /\ run'[n] = r /\ stage'[n] = "starting" /\ aborted'[n] = FALSE
      /\ \A d \in Ids : InProgress(d) => run[d] \in Runs
  BY <1>1, <1>2, <1>3 DEF Typed, InProgress, StartedInv
<1>7. Tracked'
  <2>1. taskOf'[r] = n /\ \A q \in Runs : q # r => taskOf'[q] = taskOf[q]
    BY <1>3 DEF Typed
  <2>2. process \in {"up", "aborting"} => \A d \in Ids : InProgress(d) => run[d] # r
    BY ConstantsAssumption DEF Tracked
  <2> QED
    BY <1>1, <1>3, <1>6, <2>1, <2>2 DEF Tracked
<1>8. AwaitedInv' /\ LeftoversAreLate'
  BY <1>3, <1>6 DEF AwaitedInv, LeftoversAreLate
<1>9. AbortInv' /\ SilencedOnlyByItsThread'
  BY <1>2, <1>3, <1>6 DEF AbortInv, SilencedOnlyByItsThread
<1>10. OneDeliveryPerRun'
  <2>1. process \in {"up", "aborting"} => \A d \in Ids : InProgress(d) => run[d] # r
    BY ConstantsAssumption DEF Tracked
  <2>2. process \notin {"up", "aborting"} => n \in late'
    BY <1>3
  <2> QED
    BY <1>3, <1>6, <2>1, <2>2 DEF OneDeliveryPerRun
<1> QED
  BY <1>4, <1>5, <1>7, <1>8, <1>9, <1>10

LEMMA RegisterStep ==
  ASSUME CoreInv, NEW r \in Runs, Register(r), process # "exited",
         UNCHANGED <<process, aborted, awaited, cancelling>>
  PROVE  CoreInv'
BY StartStep, CoreKept DEF Register, core

\* A delivery moves on, to a stage under way or to an end.
LEMMA MoveStep ==
  ASSUME CoreInv, NEW d \in Ids, InProgress(d),
         UNCHANGED <<aborted, awaited, cancelling, exposed>>,
         NEW how \in {"polling", "replying", "telling", "silent", "over"},
         how = "silent" => aborted[d],
         \/ Ends(d, how) /\ how \in {"silent", "over"}
         \/ stage' = [stage EXCEPT ![d] = how] /\ UNCHANGED registry /\ how \notin {"silent", "over"},
         process' = process \/ process' = "exited"
  PROVE  CoreInv'
<1> USE DEF CoreInv
<1>1. /\ UNCHANGED <<used, run, late>> /\ stage' = [stage EXCEPT ![d] = how]
      /\ \A e \in Ids : e # d => (InProgress(e)' <=> InProgress(e)) /\ stage'[e] = stage[e]
      /\ tasks' \subseteq tasks /\ controllers' \subseteq controllers
  BY DEF Ends, registry, Typed, InProgress
<1>2. \A e \in Ids : InProgress(e)' => InProgress(e)
  BY <1>1
<1>3. Typed'
  BY <1>1 DEF Ends, registry, Typed
<1>4. StartedInv'
  BY <1>1 DEF StartedInv, Typed, InProgress
<1>5. Tracked'
  <2>1. CASE UNCHANGED registry
    BY <1>1, <1>2, <2>1 DEF Tracked, registry
  <2>2. CASE Ends(d, how) /\ how \in {"silent", "over"}
    <3>1. ~InProgress(d)'
      BY <1>1, <2>2 DEF InProgress, Typed
    <3>2. ASSUME process \in {"up", "aborting"}, NEW e \in Ids, e # d, InProgress(e)
          PROVE  taskOf'[run[e]] = e /\ e \in tasks' /\ e \in controllers'
      <4>1. taskOf[run[e]] = e /\ taskOf[run[d]] = d /\ e \in tasks /\ e \in controllers
        BY <3>2 DEF Tracked
      <4>2. run[e] # run[d] /\ run[e] \in Runs /\ run[d] \in Runs
        BY <3>2, <4>1 DEF StartedInv, InProgress
      <4> QED
        BY <2>2, <3>2, <4>1, <4>2 DEF Ends, Typed
    <3> QED
      BY <1>1, <3>1, <3>2 DEF Tracked
  <2> QED
    BY <2>1, <2>2
<1>6. AwaitedInv' /\ LeftoversAreLate'
  BY <1>1, <1>2 DEF AwaitedInv, LeftoversAreLate
<1>7. AbortInv'
  BY <1>1, <1>2 DEF AbortInv
<1>8. SilencedOnlyByItsThread'
  BY <1>1 DEF SilencedOnlyByItsThread, AbortInv, Typed
<1>9. OneDeliveryPerRun'
  BY <1>1, <1>2 DEF OneDeliveryPerRun
<1> QED
  BY <1>3, <1>4, <1>5, <1>6, <1>7, <1>8, <1>9

--------------------------------------------------------------------------------
\* Stops of a thread, and the shutdown.

\* A step that aborts deliveries or is about to, and exposes at least these.
LEMMA AbortStep ==
  ASSUME CoreInv, UNCHANGED <<process, registry, stage, awaited>>,
         exposed \subseteq exposed', exposed' \subseteq Ids, cancelling' \subseteq Threads,
         NEW D \in SUBSET controllers, UNCHANGED aborted \/ Abort(D),
         \A d \in Ids : InProgress(d) /\ (d \in D \/ ThreadOf[run[d]] \in cancelling' \ cancelling)
                          => d \in exposed'
  PROVE  CoreInv'
<1> USE DEF CoreInv
<1>1. /\ aborted' \in [Ids -> BOOLEAN]
      /\ \A d \in Ids : aborted'[d] => aborted[d] \/ d \in D
  BY DEF Abort, Typed
<1>2. Typed' /\ StartedInv'
  BY <1>1 DEF Typed, StartedInv, registry
<1>3. Tracked' /\ AwaitedInv' /\ OneDeliveryPerRun' /\ LeftoversAreLate'
  BY DEF registry, InProgress, Tracked, AwaitedInv, OneDeliveryPerRun, LeftoversAreLate
<1>4. AbortInv'
  BY <1>1 DEF registry, InProgress, AbortInv
<1>5. SilencedOnlyByItsThread'
  BY DEF SilencedOnlyByItsThread
<1> QED
  BY <1>2, <1>3, <1>4, <1>5

LEMMA CancelRunStep ==
  ASSUME CoreInv, NEW t \in Threads, CancelRun(t)
  PROVE  CoreInv'
<1>1. /\ UNCHANGED <<process, registry, stage, awaited, aborted>>
      /\ cancelling' = cancelling \cup {t}
      /\ exposed' = exposed \cup {d \in Ids : InProgress(d) /\ ThreadOf[run[d]] = t}
  BY DEF CancelRun
<1>2. exposed \subseteq exposed' /\ exposed' \subseteq Ids /\ cancelling' \subseteq Threads
  BY <1>1 DEF CoreInv, Typed
<1>3. \A d \in Ids : InProgress(d) /\ (d \in {} \/ ThreadOf[run[d]] \in cancelling' \ cancelling) => d \in exposed'
  BY <1>1
<1>4. {} \in SUBSET controllers
  OBVIOUS
<1> QED
  BY <1>1, <1>2, <1>3, <1>4, AbortStep

LEMMA CancelRepliedStep ==
  ASSUME CoreInv, NEW t \in Threads, CancelReplied(t)
  PROVE  CoreInv'
<1>1. /\ UNCHANGED <<process, registry, stage, awaited, exposed>> /\ t \in cancelling
      /\ cancelling' = cancelling \ {t}
      /\ UNCHANGED aborted \/ Abort(OfThread(t))
  BY DEF CancelReplied
<1>2. OfThread(t) \in SUBSET controllers
  BY DEF OfThread
<1>3. exposed' \subseteq Ids /\ cancelling' \subseteq Threads
  BY <1>1 DEF CoreInv, Typed
<1>4. \A d \in Ids : InProgress(d) /\ (d \in OfThread(t) \/ ThreadOf[run[d]] \in cancelling' \ cancelling)
                       => d \in exposed'
  BY <1>1 DEF OfThread, CoreInv, AbortInv
<1> QED
  BY <1>1, <1>2, <1>3, <1>4, AbortStep

LEMMA DeleteTopicStep ==
  ASSUME CoreInv, NEW t \in Threads, DeleteTopic(t)
  PROVE  CoreInv'
<1>1. /\ UNCHANGED <<process, registry, stage, awaited, cancelling>> /\ Abort(OfThread(t))
      /\ exposed' = exposed \cup {d \in Ids : InProgress(d) /\ ThreadOf[run[d]] = t}
  BY DEF DeleteTopic
<1>2. OfThread(t) \in SUBSET controllers
  BY DEF OfThread
<1>3. exposed \subseteq exposed' /\ exposed' \subseteq Ids /\ cancelling' \subseteq Threads
  BY <1>1 DEF CoreInv, Typed
<1>4. \A d \in Ids : InProgress(d) /\ (d \in OfThread(t) \/ ThreadOf[run[d]] \in cancelling' \ cancelling)
                       => d \in exposed'
  BY <1>1 DEF OfThread
<1>5. UNCHANGED <<process, registry, stage, awaited>> /\ (UNCHANGED aborted \/ Abort(OfThread(t)))
  BY <1>1
<1> QED
  BY <1>2, <1>3, <1>4, <1>5, AbortStep

LEMMA BeginStopStep ==
  ASSUME CoreInv, BeginStop
  PROVE  CoreInv'
<1> USE DEF CoreInv
<1>1. /\ process = "up" /\ process' = "aborting" /\ Abort(controllers) /\ awaited' = tasks
      /\ exposed' = exposed \cup controllers /\ UNCHANGED <<registry, stage, cancelling>>
  BY DEF BeginStop
<1>2. /\ aborted' \in [Ids -> BOOLEAN]
      /\ \A d \in Ids : aborted'[d] => aborted[d] \/ d \in controllers
  BY <1>1 DEF Abort, Typed
<1>3. Typed' /\ StartedInv'
  BY <1>1, <1>2 DEF Typed, StartedInv, registry
<1>4. Tracked' /\ AwaitedInv' /\ OneDeliveryPerRun' /\ LeftoversAreLate'
  BY <1>1 DEF registry, InProgress, Tracked, AwaitedInv, OneDeliveryPerRun, LeftoversAreLate
<1>5. AbortInv'
  <2>1. UNCHANGED <<stage, run, cancelling>>
    BY <1>1 DEF registry
  <2> QED
    BY <1>1, <1>2, <2>1 DEF InProgress, AbortInv
<1>6. SilencedOnlyByItsThread'
  BY <1>1 DEF SilencedOnlyByItsThread
<1> QED
  BY <1>3, <1>4, <1>5, <1>6

\* Once the wait is over, what is under way was registered after it began.
LEMMA TasksSettledStep ==
  ASSUME CoreInv, TasksSettled
  PROVE  CoreInv'
<1> USE DEF CoreInv
<1>1. /\ process = "aborting" /\ process' \in {"stopping", "stopped"}
      /\ tasks' = {} /\ taskOf' = [r \in Runs |-> None] /\ controllers' = {}
      /\ UNCHANGED <<used, run, late, stage, aborted, awaited, cancelling, exposed>>
      /\ \A d \in awaited : ~InProgress(d)
  BY DEF TasksSettled, AwaitedSettled
<1>2. Typed' /\ StartedInv' /\ Tracked' /\ AwaitedInv'
  BY <1>1 DEF Typed, StartedInv, Tracked, AwaitedInv
<1>3. LeftoversAreLate' /\ OneDeliveryPerRun'
  BY <1>1 DEF InProgress, AwaitedInv, LeftoversAreLate, OneDeliveryPerRun
<1>4. AbortInv' /\ SilencedOnlyByItsThread'
  BY <1>1 DEF InProgress, AbortInv, SilencedOnlyByItsThread
<1> QED
  BY <1>2, <1>3, <1>4

LEMMA CloseStep ==
  ASSUME CoreInv, RunnerStopped \/ CloseServer
  PROVE  CoreInv'
<1>1. /\ process \in {"stopping", "stopped", "closing"} /\ process' \in {"stopped", "closing", "exited"}
      /\ UNCHANGED <<registry, stage, aborted, awaited, cancelling, exposed>>
  BY DEF RunnerStopped, CloseServer
<1> QED
  BY <1>1 DEF registry, CoreInv, Typed, StartedInv, Tracked, AwaitedInv, AbortInv, InProgress,
     SilencedOnlyByItsThread, OneDeliveryPerRun, LeftoversAreLate

--------------------------------------------------------------------------------
\* Theorems.

LEMMA DeliveriesStep ==
  ASSUME CoreInv, NEW d \in Ids, Deliveries(d)
  PROVE  CoreInv'
<1>1. CASE ReporterStarted(d)
  BY <1>1, MoveStep DEF ReporterStarted, Delivers, InProgress
<1>2. CASE Poll(d)
  BY <1>2, MoveStep DEF Poll, SeesAbort, Delivers, InProgress
<1>3. CASE PollFails(d)
  BY <1>3, MoveStep DEF PollFails, Delivers, InProgress
<1>4. CASE Reply(d)
  BY <1>4, MoveStep DEF Reply, Delivers, InProgress
<1>5. CASE Tell(d)
  BY <1>5, MoveStep DEF Tell, InProgress
<1> QED
  BY <1>1, <1>2, <1>3, <1>4, <1>5 DEF Deliveries

LEMMA CoreStep ==
  ASSUME CoreInv, [Next]_vars
  PROVE  CoreInv'
<1>1. ASSUME NEW r \in TextRuns, HandleText(r) PROVE CoreInv'
  BY <1>1, RegisterStep DEF HandleText, Runs
<1>2. ASSUME NEW r \in TaskRuns, DeliverTaskRun(r) PROVE CoreInv'
  BY <1>2, RegisterStep DEF DeliverTaskRun, Runs
<1>3. ASSUME \/ \E r \in Runs : RunEnds(r)
             \/ ConfirmUpdates \/ BeginStart \/ BotInited \/ UNCHANGED vars
      PROVE  CoreInv'
  <2>1. UNCHANGED core
    BY <1>3 DEF RunEnds, ConfirmUpdates, BeginStart, BotInited, vars, core
  <2> QED
    BY <2>1, CoreKept
<1>4. ASSUME NEW t \in Threads, CancelRun(t) \/ CancelReplied(t) \/ DeleteTopic(t) PROVE CoreInv'
  BY <1>4, CancelRunStep, CancelRepliedStep, DeleteTopicStep
<1>5. ASSUME NEW d \in Ids, Deliveries(d) PROVE CoreInv'
  BY <1>5, DeliveriesStep
<1>6. ASSUME Shutdown PROVE CoreInv'
  BY <1>6, BeginStopStep, TasksSettledStep, CloseStep DEF Shutdown
<1> QED
  BY <1>1, <1>2, <1>3, <1>4, <1>5, <1>6 DEF Next

LEMMA BotStep ==
  ASSUME BotInv, [Next]_vars
  PROVE  BotInv'
<1> USE DEF BotInv
<1>1. ASSUME NEW r \in TextRuns, HandleText(r) PROVE BotInv'
  BY <1>1 DEF HandleText, Runs
<1>2. ASSUME NEW r \in TaskRuns, DeliverTaskRun(r) PROVE BotInv'
  BY <1>2 DEF DeliverTaskRun, Runs, bot
<1>3. ASSUME NEW r \in Runs, RunEnds(r) PROVE BotInv'
  BY <1>3 DEF RunEnds, bot
<1>4. ASSUME ConfirmUpdates \/ BeginStart \/ BotInited PROVE BotInv'
  <2>1. CASE ConfirmUpdates
    BY <2>1 DEF ConfirmUpdates
  <2>2. CASE BeginStart
    BY <2>2 DEF BeginStart
  <2>3. CASE BotInited
    BY <2>3 DEF BotInited
  <2> QED
    BY <1>4, <2>1, <2>2, <2>3
<1>5. ASSUME NEW t \in Threads, CancelRun(t) \/ CancelReplied(t) \/ DeleteTopic(t) PROVE BotInv'
  BY <1>5 DEF CancelRun, CancelReplied, DeleteTopic, bot
<1>6. ASSUME NEW d \in Ids, Deliveries(d) PROVE BotInv'
  <2>1. /\ UNCHANGED <<handle, starting, loops, status, held, fetched, cancels>>
        /\ process' = process \/ process' = "exited"
    <3>1. ReporterStarted(d) \/ Poll(d) \/ PollFails(d) \/ Reply(d) => Delivers(d)
      BY DEF ReporterStarted, Poll, PollFails, Reply
    <3>2. Tell(d) => UNCHANGED <<bot, status, cancels>> /\ (process' = process \/ process' = "exited")
      BY DEF Tell
    <3> QED
      BY <1>6, <3>1, <3>2 DEF Deliveries, Delivers, bot
  <2> QED
    BY <2>1
<1>7. ASSUME Shutdown PROVE BotInv'
  <2>1. CASE BeginStop
    BY <2>1 DEF BeginStop, bot
  <2>2. CASE TasksSettled
    BY <2>2 DEF TasksSettled, bot
  <2>3. CASE RunnerStopped
    <3>1. loops > 0
      BY <2>3 DEF RunnerStopped
    <3>2. /\ loops' = loops - 1 /\ handle' = FALSE /\ process' = "stopped"
          /\ UNCHANGED <<starting, status, held, fetched, cancels>>
      BY <2>3 DEF RunnerStopped
    <3>3. loops' \in Nat
      BY <3>1, <3>2
    <3> QED
      BY <3>2, <3>3
  <2>4. CASE CloseServer
    BY <2>4 DEF CloseServer, bot
  <2> QED
    BY <1>7, <2>1, <2>2, <2>3, <2>4 DEF Shutdown
<1>8. ASSUME UNCHANGED vars PROVE BotInv'
  BY <1>8 DEF vars, bot
<1> HIDE DEF BotInv
<1> QED
  BY <1>1, <1>2, <1>3, <1>4, <1>5, <1>6, <1>7, <1>8 DEF Next

\* The whole invariant holds in the initial state and is kept by every step.
THEOREM InductiveInvariant == Spec => []IndInv
<1>1. Init => IndInv
  <2> SUFFICES ASSUME Init PROVE IndInv
    OBVIOUS
  <2>1. BotInv
    BY DEF Init, BotInv
  <2>2. Typed /\ StartedInv
    BY ConstantsAssumption DEF Init, Typed, StartedInv, Ids
  <2>3. Tracked /\ AwaitedInv /\ AbortInv /\ SilencedOnlyByItsThread /\ OneDeliveryPerRun /\ LeftoversAreLate
    BY DEF Init, InProgress, Tracked, AwaitedInv, AbortInv, SilencedOnlyByItsThread, OneDeliveryPerRun,
       LeftoversAreLate
  <2> QED
    BY <2>1, <2>2, <2>3 DEF IndInv, CoreInv
<1>2. IndInv /\ [Next]_vars => IndInv'
  BY BotStep, CoreStep DEF IndInv
<1> QED
  BY <1>1, <1>2, PTL DEF Spec

\* Every variable of the adapter, the registry and the deliveries keeps its type.
THEOREM TypeCorrect == Spec => []TypeOK
<1>1. IndInv => TypeOK
  BY DEF IndInv, BotInv, CoreInv, Typed, TypeOK
<1> QED
  BY <1>1, InductiveInvariant, PTL

\* An answer is left out only after a stop that concerned its run.
THEOREM OthersAreAnswered == Spec => []SilencedOnlyByItsThread
<1>1. IndInv => SilencedOnlyByItsThread
  BY DEF IndInv, CoreInv
<1> QED
  BY <1>1, InductiveInvariant, PTL

\* Two deliveries of one run are never under way, but for those the shutdown forgot.
THEOREM DeliveredOnce == Spec => []OneDeliveryPerRun
<1>1. IndInv => OneDeliveryPerRun
  BY DEF IndInv, CoreInv
<1> QED
  BY <1>1, InductiveInvariant, PTL

\* What abortAllAndWait leaves under way was registered after it began.
THEOREM StopWaits == Spec => []LeftoversAreLate
<1>1. IndInv => LeftoversAreLate
  BY DEF IndInv, CoreInv
<1> QED
  BY <1>1, InductiveInvariant, PTL

--------------------------------------------------------------------------------
\* Numbers, and recursive functions over 0..n.

\* A set of numbers has a least one.
LEMMA LeastExists ==
  ASSUME NEW S, S \subseteq Nat, S # {}
  PROVE  \E x \in S : \A y \in S : x <= y
<1>1. PICK x \in S : \A y \in S : ~ (<<y, x>> \in OpToRel(<, Nat))
  BY NatLessThanWellFounded, WFMin
<1>2. \A y \in S : x <= y
  <2> TAKE y \in S
  <2>1. ~ (y < x)
    BY <1>1 DEF OpToRel
  <2> QED
    BY <2>1
<1> QED
  BY <1>2

\* A bounded set of numbers has a greatest one.
LEMMA GreatestExists ==
  ASSUME NEW n \in Nat, NEW S, S \subseteq 0..n, S # {}
  PROVE  \E x \in S : \A y \in S : y <= x
<1> DEFINE T == {m \in 0..n : \A y \in S : y <= m}
<1>1. n \in T /\ T \subseteq Nat
  OBVIOUS
<1>2. PICK m \in T : \A k \in T : m <= k
  BY <1>1, LeastExists
<1>3. m \in S
  <2> SUFFICES ASSUME m \notin S PROVE FALSE
    OBVIOUS
  <2>1. \A y \in S : y < m
    BY <1>2
  <2>2. m # 0
    <3>1. PICK y \in S : TRUE
      OBVIOUS
    <3>2. y \in Nat /\ y < m
      BY <2>1, <3>1
    <3> QED
      BY <3>2
  <2>3. m - 1 \in 0..n /\ \A y \in S : y <= m - 1
    BY <1>2, <2>1, <2>2
  <2>4. m - 1 \in T
    BY <2>3
  <2> QED
    BY <1>2, <2>4
<1> QED
  BY <1>2, <1>3

\* Induction over the numbers up to n, for a set of them.
LEMMA Reaches ==
  ASSUME NEW n \in Nat, NEW S, 0 \in S, \A k \in 0..(n - 1) : k \in S => k + 1 \in S
  PROVE  0..n \subseteq S
<1> SUFFICES ASSUME (0..n) \ S # {} PROVE FALSE
  OBVIOUS
<1> DEFINE R == (0..n) \ S
<1>1. R \subseteq Nat
  OBVIOUS
<1>2. PICK m \in R : \A k \in R : m <= k
  BY <1>1, LeastExists
<1>3. m # 0 /\ m - 1 \in 0..(n - 1) /\ m - 1 \notin R
  BY <1>2
<1> QED
  BY <1>2, <1>3

\* A function that begins with base and goes on with step.
Goes(f, n, base, step) == f = [k \in 0..n |-> IF k = 0 THEN base ELSE step[<<f[k - 1], k>>]]

\* There is one.
LEMMA RecursionExists ==
  ASSUME NEW n \in Nat, NEW base, NEW step
  PROVE  \E f : Goes(f, n, base, step)
<1> DEFINE S == {k \in 0..n : \E h : Goes(h, k, base, step)}
<1>1. 0 \in S
  <2> DEFINE h == [c \in 0..0 |-> base]
  <2>1. Goes(h, 0, base, step)
    BY DEF Goes
  <2> QED
    BY <2>1
<1>2. ASSUME NEW k \in 0..(n - 1), k \in S
      PROVE  k + 1 \in S
  <2>1. PICK h : Goes(h, k, base, step)
    BY <1>2
  <2> DEFINE g == [c \in 0..(k + 1) |-> IF c = k + 1 THEN step[<<h[k], k + 1>>] ELSE h[c]]
  <2>2. ASSUME NEW c \in 0..(k + 1)
        PROVE  g[c] = IF c = 0 THEN base ELSE step[<<g[c - 1], c>>]
    <3>1. CASE c = k + 1
      <4>1. k \in 0..(k + 1) /\ c # 0 /\ c - 1 = k /\ k # k + 1
        BY <3>1
      <4>2. g[k] = h[k] /\ g[c] = step[<<h[k], k + 1>>]
        BY <3>1, <4>1
      <4> HIDE DEF g
      <4> QED
        BY <3>1, <4>1, <4>2
    <3>2. CASE c # k + 1 /\ c # 0
      <4>1. c \in 0..k /\ c - 1 \in 0..(k + 1) /\ c - 1 # k + 1
        BY <3>2
      <4>2. g[c] = h[c] /\ g[c - 1] = h[c - 1]
        BY <3>2, <4>1
      <4>3. h[c] = step[<<h[c - 1], c>>]
        BY <2>1, <3>2, <4>1 DEF Goes
      <4> HIDE DEF g
      <4> QED
        BY <3>2, <4>2, <4>3
    <3>3. CASE c # k + 1 /\ c = 0
      <4>1. c \in 0..k
        BY <3>3
      <4>2. g[c] = h[c]
        BY <3>3
      <4>3. h[c] = base
        BY <2>1, <3>3, <4>1 DEF Goes
      <4> HIDE DEF g
      <4> QED
        BY <3>3, <4>2, <4>3
    <3> QED
      BY <3>1, <3>2, <3>3
  <2>3. DOMAIN g = 0..(k + 1) /\ g = [c \in 0..(k + 1) |-> g[c]]
    OBVIOUS
  <2> HIDE DEF g
  <2>4. Goes(g, k + 1, base, step)
    BY <2>2, <2>3 DEF Goes
  <2>5. k + 1 \in 0..n
    OBVIOUS
  <2> QED
    BY <2>4, <2>5
<1> HIDE DEF S
<1>3. 0..n \subseteq S
  BY <1>1, <1>2, Reaches
<1>4. n \in S
  BY <1>3
<1> QED
  BY <1>4 DEF S

\* The steps lead from values of V to values of V.
Steps(V, n, step) == \A v \in V, k \in 1..n : step[<<v, k>>] \in V

\* It is what its equations say, and its values are of V if the steps lead from V to V.
Starts(V, n, base, step) == n \in Nat /\ base \in V /\ Steps(V, n, step)
\* The function obeys its rule up to n, and stays within V.
Follows(f, V, n, base, step) ==
  /\ f \in [0..n -> V] /\ f[0] = base
  /\ \A k \in 1..n : f[k] = step[<<f[k - 1], k>>]

\* A recursive function over 0..n, as Goes defines it, follows its rule.
LEMMA RecursionIs ==
  \A V, n, base, step, f : Starts(V, n, base, step) /\ Goes(f, n, base, step) => Follows(f, V, n, base, step)
<1> SUFFICES ASSUME NEW V, NEW n, NEW base, NEW step, NEW f, Starts(V, n, base, step), Goes(f, n, base, step)
             PROVE  Follows(f, V, n, base, step)
  OBVIOUS
<1>0. n \in Nat /\ base \in V /\ Steps(V, n, step)
  BY DEF Starts
<1>1. f[0] = base
  BY <1>0 DEF Goes
<1>2. \A k \in 1..n : f[k] = step[<<f[k - 1], k>>]
  <2> TAKE k \in 1..n
  <2>1. k \in 0..n /\ k # 0
    BY <1>0
  <2> QED
    BY <2>1 DEF Goes
<1> DEFINE S == {k \in 0..n : f[k] \in V}
<1>3. 0 \in S
  BY <1>0, <1>1
<1>4. ASSUME NEW k \in 0..(n - 1), k \in S
      PROVE  k + 1 \in S
  <2>1. k + 1 \in 1..n /\ (k + 1) - 1 = k /\ k + 1 \in 0..n
    BY <1>0
  <2>2. f[k + 1] = step[<<f[k], k + 1>>]
    BY <1>2, <2>1
  <2>3. f[k] \in V
    BY <1>4
  <2>4. f[k + 1] \in V
    BY <1>0, <2>1, <2>2, <2>3 DEF Steps
  <2> QED
    BY <2>1, <2>4
<1> HIDE DEF S
<1>5. 0..n \subseteq S
  BY <1>0, <1>3, <1>4, Reaches
<1>6. \A k \in 0..n : f[k] \in V
  BY <1>5 DEF S
<1>7. f = [k \in 0..n |-> f[k]]
  BY DEF Goes
<1> QED
  BY <1>1, <1>2, <1>6, <1>7 DEF Follows

--------------------------------------------------------------------------------
\* Where the renderers' segments are cut.

\* lastIndexOf finds a line break, if any, at or before its second argument.
LEMMA LastBreakIs ==
  ASSUME NEW text \in Seq(Chars), NEW n \in Nat
  PROVE  /\ LastBreak(text, n) \in 0..n
         /\ LastBreak(text, n) > 0 => LastBreak(text, n) < Len(text) /\ text[LastBreak(text, n) + 1] = NL
<1> DEFINE breaks == {i \in 0..n : i < Len(text) /\ text[i + 1] = NL}
<1>1. CASE breaks = {}
  BY <1>1 DEF LastBreak
<1>2. CASE breaks # {}
  <2>1. \E i \in breaks : \A j \in breaks : j <= i
    BY <1>2, GreatestExists
  <2>2. LastBreak(text, n) = CHOOSE i \in breaks : \A j \in breaks : j <= i
    BY <1>2 DEF LastBreak
  <2>3. LastBreak(text, n) \in breaks
    BY <2>1, <2>2
  <2> QED
    BY <2>3
<1> QED
  BY <1>1, <1>2

\* avoidSplittingEntityBoundary keeps the end or moves it to where a split entity begins.
LEMMA AvoidSplittingIs ==
  ASSUME NEW entities \in SUBSET Entities, NEW start \in Nat, NEW end \in Nat, start < end
  PROVE  LET to == AvoidSplitting(entities, start, end) IN
         /\ to \in (start + 1)..end
         /\ to = end \/ \E e \in entities : e.offset = to /\ End(e) > end
<1> DEFINE split == {e \in entities : start < e.offset /\ e.offset < end /\ end < End(e)}
           offsets == {e.offset : e \in split}
           to == AvoidSplitting(entities, start, end)
<1>1. CASE split = {}
  BY <1>1 DEF AvoidSplitting
<1>2. CASE split # {}
  <2>1. \A e \in split : e.offset \in Nat
    BY DEF Entities
  <2>2. offsets \subseteq Nat /\ offsets # {}
    BY <1>2, <2>1
  <2>3. PICK o \in offsets : \A p \in offsets : o <= p
    BY <2>2, LeastExists
  <2>4. \E o2 \in offsets : \A e \in split : o2 <= e.offset
    BY <2>3
  <2>5. to = CHOOSE o2 \in offsets : \A e \in split : o2 <= e.offset
    BY <1>2 DEF AvoidSplitting
  <2>6. to \in offsets
    BY <2>4, <2>5
  <2>7. PICK e \in split : to = e.offset
    BY <2>6
  <2>8. to \in Nat /\ start < to /\ to < end /\ End(e) > end /\ e \in entities
    <3>1. End(e) \in Nat
      BY <2>7 DEF Entities, End
    <3> QED
      BY <2>1, <2>7, <3>1
  <2> QED
    BY <2>7, <2>8
<1> QED
  BY <1>1, <1>2

\* A message takes at least one character and at most limit; where it may be blank.
BlankOnlyAt(s, start, end, third) ==
  \/ end = Len(s.text)
  \/ HasBlanks(s.text, third + 2)
  \/ \E e \in s.entities : e.offset = end /\ End(e) > start + third + 1

\* Where it may end within a character.
SplitOnlyAt(s, start, end, limit) ==
  SplitsPair(s.text, end) => end = start + limit \/ \E e \in s.entities : e.offset = end

\* A part of a sequence: its type, its length and its elements.
LEMMA SubSeqIs ==
  ASSUME NEW X, NEW text \in Seq(X), NEW a \in Nat, NEW b \in Nat, a <= b, b <= Len(text)
  PROVE  /\ SubSeq(text, a + 1, b) \in Seq(X) /\ Len(SubSeq(text, a + 1, b)) = b - a
         /\ \A i \in 1..(b - a) : SubSeq(text, a + 1, b)[i] = text[a + i]
<1>1. Len(text) \in Nat /\ a + 1 \in Nat /\ b \in 0..Len(text)
  OBVIOUS
<1>2. SubSeq(text, a + 1, b) = [i \in 1..(b - a) |-> text[a + i]]
  BY <1>1
<1>3. \A i \in 1..(b - a) : a + i \in 1..Len(text)
  BY <1>1
<1>4. \A i \in 1..(b - a) : text[a + i] \in X
  BY <1>3
<1> QED
  BY <1>1, <1>2, <1>4

\* The characters of a blank part are blank.
LEMMA BlankPart ==
  ASSUME NEW text \in Seq(Chars), NEW a \in Nat, NEW b \in Nat, a <= b, b <= Len(text),
         Blank(SubSeq(text, a + 1, b))
  PROVE  \A i \in (a + 1)..b : IsBlank(text[i])
<1> DEFINE part == SubSeq(text, a + 1, b)
<1>1. Len(part) = b - a /\ \A i \in 1..(b - a) : part[i] = text[a + i]
  BY SubSeqIs
<1>2. \A i \in 1..(b - a) : IsBlank(part[i])
  BY <1>1 DEF Blank
<1> HIDE DEF part
<1> TAKE i \in (a + 1)..b
<1>3. i - a \in 1..(b - a) /\ a + (i - a) = i
  OBVIOUS
<1> QED
  BY <1>1, <1>2, <1>3

\* So many blanks in a row are found by HasBlanks.
LEMMA BlanksAre ==
  ASSUME NEW text \in Seq(Chars), NEW a \in Nat, NEW b \in Nat, b <= Len(text),
         \A i \in (a + 1)..b : IsBlank(text[i]), NEW number \in Nat, number <= b - a
  PROVE  HasBlanks(text, number)
<1>1. a \in 0..(Len(text) - number)
  OBVIOUS
<1>2. \A j \in 1..number : a + j \in (a + 1)..b
  OBVIOUS
<1>3. \A j \in 1..number : IsBlank(text[a + j])
  BY <1>2
<1> QED
  BY <1>1, <1>3 DEF HasBlanks

\* A third of the limit leaves room for two more characters.
LEMMA ThirdIs ==
  ASSUME NEW limit \in Nat \ {0, 1}
  PROVE  limit \div 3 \in Nat /\ limit \div 3 + 2 <= limit
OBVIOUS

\* A message has from one to limit units; it splits a character and is blank only where
\* SplitOnlyAt and BlankOnlyAt say.
LEMMA EndOfChunkIs ==
  ASSUME NEW s, Rendered(s), NEW limit \in Nat \ {0, 1}, NEW start \in Nat, start < Len(s.text)
  PROVE  LET end == EndOfChunk(s, start, limit) IN
         /\ end \in (start + 1)..Len(s.text) /\ end <= start + limit
         /\ Blank(SubSeq(s.text, start + 1, end)) => BlankOnlyAt(s, start, end, limit \div 3)
         /\ SplitOnlyAt(s, start, end, limit)
<1> DEFINE n == Len(s.text)
           full == Smaller(start + limit, n)
           break == LastBreak(s.text, full)
           third == limit \div 3
           breaks == full < n /\ break > start + third
           end == IF breaks THEN break ELSE full
           to == AvoidSplitting(s.entities, start, end)
<1>1. s.text \in Seq(Chars) /\ n \in Nat /\ s.entities \in SUBSET Entities
  BY DEF Rendered, Segments
<1>2. \A e \in s.entities : End(e) <= n
  BY DEF Rendered, Acceptable
<1>3. third \in Nat /\ third + 2 <= limit
  BY ThirdIs
<1>4. full \in Nat /\ full <= n /\ full <= start + limit /\ full > start /\ (full < n => full = start + limit)
  BY <1>1 DEF Smaller
<1>5. break \in 0..full /\ (break > 0 => break < n /\ s.text[break + 1] = NL)
  BY <1>1, <1>4, LastBreakIs
<1> HIDE DEF full, break, third
<1>6. end \in Nat /\ start < end /\ end <= full /\ (full = n => end = n)
  BY <1>1, <1>3, <1>4, <1>5
<1>7. end < n => end >= start + third + 1
  BY <1>1, <1>3, <1>4, <1>5
<1>8. to \in (start + 1)..end /\ (to = end \/ \E e \in s.entities : e.offset = to /\ End(e) > end)
  <2> HIDE DEF end
  <2> QED
    BY <1>1, <1>6, AvoidSplittingIs
<1>9. EndOfChunk(s, start, limit) = to
  <2>1. EndOfChunk(s, start, limit) = IF to > start THEN to ELSE end
    BY DEF EndOfChunk, full, break, third
  <2>2. to > start
    BY <1>6, <1>8
  <2> QED
    BY <2>1, <2>2
<1> HIDE DEF to
<1>10. ASSUME Blank(SubSeq(s.text, start + 1, to))
       PROVE  BlankOnlyAt(s, start, to, third)
  <2>1. to <= n /\ to \in Nat
    BY <1>4, <1>6, <1>8
  <2>2. \A i \in (start + 1)..to : IsBlank(s.text[i])
    BY <1>1, <1>6, <1>8, <1>10, <2>1, BlankPart
  <2>3. CASE to # end
    <3>1. PICK e \in s.entities : e.offset = to /\ End(e) > end
      BY <1>8, <2>3
    <3>2. End(e) \in Nat /\ End(e) <= n
      BY <1>1, <1>2 DEF Entities, End
    <3>3. end < n
      BY <1>1, <1>6, <3>1, <3>2
    <3>4. End(e) > start + third + 1
      BY <1>3, <1>6, <1>7, <3>1, <3>2, <3>3
    <3> QED
      BY <3>1, <3>4 DEF BlankOnlyAt
  <2>4. CASE to = end /\ end = n
    BY <2>4 DEF BlankOnlyAt
  <2>5. CASE to = end /\ breaks
    <3>1. break \in Nat /\ break > 0 /\ break = end
      BY <1>3, <1>4, <1>5, <2>5
    <3>1a. break < n /\ s.text[break + 1] = NL
      BY <1>5, <3>1
    <3>1b. IsBlank(s.text[break + 1])
      BY <3>1a DEF IsBlank
    <3>2. \A i \in (start + 1)..(break + 1) : IsBlank(s.text[i])
      <4> TAKE i \in (start + 1)..(break + 1)
      <4>1. CASE i = break + 1
        BY <3>1b, <4>1
      <4>2. CASE i # break + 1
        <5>1. i \in (start + 1)..to
          BY <2>5, <3>1, <4>2
        <5> QED
          BY <2>2, <5>1
      <4> QED
        BY <4>1, <4>2
    <3>3. third + 2 <= (break + 1) - start /\ break + 1 <= n /\ third + 2 \in Nat /\ break + 1 \in Nat
      BY <1>1, <1>3, <2>5, <3>1, <3>1a
    <3>4. HasBlanks(s.text, third + 2)
      BY <1>1, <3>2, <3>3, BlanksAre
    <3> QED
      BY <3>4 DEF BlankOnlyAt
  <2>6. CASE to = end /\ end # n /\ ~breaks
    <3>1. end = start + limit
      BY <1>1, <1>4, <1>6, <2>6
    <3>2. third + 2 <= to - start /\ third + 2 \in Nat
      BY <1>3, <2>6, <3>1
    <3>3. HasBlanks(s.text, third + 2)
      BY <1>1, <2>1, <2>2, <3>2, BlanksAre
    <3> QED
      BY <3>3 DEF BlankOnlyAt
  <2> HIDE DEF breaks, end
  <2> QED
    BY <2>3, <2>4, <2>5, <2>6
<1>11. to \in (start + 1)..n /\ to <= start + limit
  <2> HIDE DEF end
  <2> QED
    BY <1>1, <1>4, <1>6, <1>8
<1>12. SplitOnlyAt(s, start, to, limit)
  <2> SUFFICES ASSUME SplitsPair(s.text, to), \A e \in s.entities : e.offset # to
               PROVE  to = start + limit
    BY DEF SplitOnlyAt
  <2>1. to = end /\ to < n /\ s.text[to + 1] # NL
    BY <1>8, TextAssumption DEF SplitsPair, TextAssumption, n
  <2>2. ~breaks
    BY <1>3, <1>5, <2>1
  <2> HIDE DEF breaks
  <2> QED
    BY <1>1, <1>4, <2>1, <2>2
<1> HIDE DEF end
<1> QED
  BY <1>9, <1>10, <1>11, <1>12 DEF third

\* At the end of the text nothing is left.
LEMMA EndOfChunkAtEnd ==
  ASSUME NEW s, Rendered(s), NEW limit \in Nat \ {0, 1}
  PROVE  EndOfChunk(s, Len(s.text), limit) = Len(s.text)
<1> DEFINE n == Len(s.text)
<1>1. n \in Nat
  BY DEF Rendered
<1>2. Smaller(n + limit, n) = n
  BY <1>1 DEF Smaller
<1>3. {e \in s.entities : n < e.offset /\ e.offset < n /\ n < End(e)} = {}
  <2>1. \A e \in s.entities : e.offset \in Nat
    BY DEF Rendered, Segments, Entities
  <2> QED
    BY <1>1, <2>1
<1>4. AvoidSplitting(s.entities, n, n) = n
  BY <1>3 DEF AvoidSplitting
<1>5. ~(n < n)
  BY <1>1
<1> QED
  BY <1>2, <1>4, <1>5 DEF EndOfChunk

--------------------------------------------------------------------------------
\* Sequences, cut and joined.

\* A function of 1..m is a sequence of length m.
LEMMA SequenceOf ==
  ASSUME NEW X, NEW m \in Nat, NEW f \in [1..m -> X]
  PROVE  f \in Seq(X) /\ Len(f) = m
OBVIOUS

\* The other way round.
LEMMA SequenceIs ==
  ASSUME NEW X, NEW f \in Seq(X), NEW m, m = Len(f)
  PROVE  f \in [1..m -> X]
OBVIOUS

\* FlattenSeq joins the sequences one after the other.
Flattens(f, seqs) == f = [i \in 1..Len(seqs) |-> IF i = 1 THEN seqs[i] ELSE f[i - 1] \o seqs[i]]

\* FlattenSeq is the last value of a function that appends one sequence at a time.
LEMMA FlattenGoes ==
  ASSUME NEW X, NEW seqs \in Seq(Seq(X))
  PROVE  \E f : /\ f \in [0..Len(seqs) -> Seq(X)] /\ f[0] = <<>>
                /\ \A k \in 1..Len(seqs) : f[k] = f[k - 1] \o seqs[k]
                /\ FlattenSeq(seqs) = f[Len(seqs)]
<1> DEFINE m == Len(seqs)
           step == [p \in Seq(X) \X (1..m) |-> p[1] \o seqs[p[2]]]
           V == Seq(X)
           none == <<>>
<1>1. m \in Nat /\ \A k \in 1..m : seqs[k] \in Seq(X)
  OBVIOUS
<1>2. \A v \in V, k \in 1..m : step[<<v, k>>] = v \o seqs[k] /\ v \o seqs[k] \in V
  <2> TAKE v \in V, k \in 1..m
  <2>1. v \o seqs[k] \in Seq(X)
    BY <1>1
  <2>2. <<v, k>> \in Seq(X) \X (1..m)
    OBVIOUS
  <2> QED
    BY <2>1, <2>2
<1>3. none \in V
  OBVIOUS
<1> HIDE DEF step, V, none
<1>4. PICK f : Goes(f, m, none, step)
  BY <1>1, RecursionExists
<1>5. /\ f \in [0..m -> V] /\ f[0] = none
      /\ \A k \in 1..m : f[k] = step[<<f[k - 1], k>>]
  <2>1. Starts(V, m, none, step)
    BY <1>1, <1>2, <1>3 DEF Starts, Steps
  <2> QED
    BY <1>4, <2>1, RecursionIs DEF Follows
<1>6. \A k \in 1..m : f[k] = f[k - 1] \o seqs[k]
  <2> TAKE k \in 1..m
  <2>0. k - 1 \in 0..m
    BY <1>1
  <2>1. f[k - 1] \in V
    BY <1>5, <2>0
  <2> QED
    BY <1>2, <1>5, <2>1
<1>7. FlattenSeq(seqs) = f[m]
  <2>1. CASE m = 0
    <3>1. seqs = <<>>
      BY <2>1
    <3> QED
      BY <1>5, <2>1, <3>1 DEF FlattenSeq, none
  <2>2. CASE m # 0
    <3> DEFINE g == [i \in 1..m |-> f[i]]
               h == CHOOSE h : Flattens(h, seqs)
    <3>1. ASSUME NEW i \in 1..m
          PROVE  g[i] = IF i = 1 THEN seqs[i] ELSE g[i - 1] \o seqs[i]
      <4>1. CASE i = 1
        <5>0. 1 \in 1..m /\ 1 - 1 = 0
          BY <4>1
        <5>1. f[1] = f[0] \o seqs[1]
          BY <1>6, <5>0
        <5>2. <<>> \o seqs[1] = seqs[1]
          BY <1>1, <4>1
        <5> QED
          BY <1>5, <4>1, <5>1, <5>2 DEF none
      <4>2. CASE i # 1
        <5>1. i - 1 \in 1..m
          BY <1>1, <4>2
        <5> QED
          BY <1>6, <4>2, <5>1
      <4> QED
        BY <4>1, <4>2
    <3>2. Flattens(g, seqs)
      BY <3>1 DEF Flattens
    <3>3. Flattens(h, seqs)
      BY <3>2
    <3> HIDE DEF g, h
    <3>4. \A i \in 1..m : h[i] = IF i = 1 THEN seqs[i] ELSE h[i - 1] \o seqs[i]
      BY <3>3 DEF Flattens
    <3> DEFINE S == {k \in 0..m : k > 0 => h[k] = f[k]}
    <3>5. 0 \in S
      BY <1>1
    <3>6. ASSUME NEW k \in 0..(m - 1), k \in S
          PROVE  k + 1 \in S
      <4>1. k + 1 \in 1..m /\ (k + 1) - 1 = k /\ k + 1 \in 0..m
        BY <1>1
      <4>2. f[k + 1] = f[k] \o seqs[k + 1]
        BY <1>6, <4>1
      <4>3. CASE k = 0
        <5>1. 1 \in 1..m /\ k + 1 = 1
          BY <4>1, <4>3
        <5>2. <<>> \o seqs[1] = seqs[1] /\ h[1] = seqs[1]
          BY <1>1, <3>4, <5>1
        <5>3. f[1] = <<>> \o seqs[1]
          BY <1>5, <4>2, <4>3, <5>1 DEF none
        <5> QED
          BY <4>1, <5>1, <5>2, <5>3
      <4>4. CASE k # 0
        <5>1. h[k] = f[k]
          BY <1>1, <3>6, <4>4
        <5>2. h[k + 1] = h[k] \o seqs[k + 1]
          <6>1. k + 1 # 1
            BY <4>4
          <6> QED
            BY <3>4, <4>1, <6>1
        <5> QED
          BY <4>1, <4>2, <5>1, <5>2
      <4> QED
        BY <4>3, <4>4
    <3> HIDE DEF S
    <3>7. 0..m \subseteq S
      BY <1>1, <3>5, <3>6, Reaches
    <3>8. h[m] = f[m]
      BY <1>1, <2>2, <3>7 DEF S
    <3>9. FlattenSeq(seqs) = h[m]
      BY <2>2 DEF FlattenSeq, h, Flattens
    <3> QED
      BY <3>8, <3>9
  <2> QED
    BY <2>1, <2>2
<1> QED
  BY <1>5, <1>6, <1>7 DEF V, none

\* The parts of a sequence that is cut make it up.
Cutting(cut, m, n) ==
  /\ cut \in [0..m -> 0..n] /\ cut[0] = 0 /\ cut[m] = n
  /\ \A k \in 1..m : cut[k - 1] <= cut[k]
Parts(whole, cut, m) == [k \in 1..m |-> SubSeq(whole, cut[k - 1] + 1, cut[k])]

\* What Cutting says of one place.
LEMMA CuttingIs ==
  ASSUME NEW n \in Nat, NEW m \in Nat, NEW cut, Cutting(cut, m, n), NEW k \in 1..m
  PROVE  /\ cut[k - 1] \in Nat /\ cut[k] \in Nat /\ cut[k - 1] <= cut[k] /\ cut[k] <= n
<1>1. k - 1 \in 0..m /\ k \in 0..m
  OBVIOUS
<1>2. cut[k - 1] \in 0..n /\ cut[k] \in 0..n
  BY <1>1 DEF Cutting
<1> QED
  BY <1>2 DEF Cutting

\* The parts between the places a sequence is cut at make up the sequence.
LEMMA PartsMakeUp ==
  ASSUME NEW X, NEW whole \in Seq(X), NEW m \in Nat, NEW cut, Cutting(cut, m, Len(whole))
  PROVE  FlattenSeq(Parts(whole, cut, m)) = whole
<1> DEFINE seqs == Parts(whole, cut, m)
<1>0. Len(whole) \in Nat
  OBVIOUS
<1>0a. cut[0] = 0 /\ cut[m] = Len(whole)
  BY DEF Cutting
<1>1. ASSUME NEW k \in 1..m
      PROVE  /\ cut[k - 1] \in Nat /\ cut[k] \in Nat /\ cut[k - 1] <= cut[k] /\ cut[k] <= Len(whole)
             /\ seqs[k] = SubSeq(whole, cut[k - 1] + 1, cut[k]) /\ seqs[k] \in Seq(X)
  <2>1. cut[k - 1] \in Nat /\ cut[k] \in Nat /\ cut[k - 1] <= cut[k] /\ cut[k] <= Len(whole)
    BY <1>0, CuttingIs
  <2>2. seqs[k] = SubSeq(whole, cut[k - 1] + 1, cut[k])
    BY DEF Parts
  <2>3. SubSeq(whole, cut[k - 1] + 1, cut[k]) \in Seq(X)
    BY <2>1, SubSeqIs
  <2> QED
    BY <2>1, <2>2, <2>3
<1>2. seqs \in Seq(Seq(X)) /\ Len(seqs) = m
  <2>2. seqs \in [1..m -> Seq(X)]
    BY <1>1 DEF Parts
  <2> HIDE DEF seqs
  <2> QED
    BY <2>2, SequenceOf
<1> HIDE DEF seqs
<1>3. PICK f : /\ f \in [0..m -> Seq(X)] /\ f[0] = <<>>
               /\ \A k \in 1..m : f[k] = f[k - 1] \o seqs[k]
               /\ FlattenSeq(seqs) = f[m]
  <2>1. \E f : /\ f \in [0..Len(seqs) -> Seq(X)] /\ f[0] = <<>>
               /\ \A k \in 1..Len(seqs) : f[k] = f[k - 1] \o seqs[k]
               /\ FlattenSeq(seqs) = f[Len(seqs)]
    BY <1>2, FlattenGoes
  <2> QED
    BY <1>2, <2>1
<1> DEFINE S == {k \in 0..m : f[k] = SubSeq(whole, 1, cut[k])}
<1>4. 0 \in S
  <2>1. SubSeq(whole, 1, 0) = <<>>
    BY SubSeqEmpty
  <2> QED
    BY <1>0a, <1>3, <2>1
<1>5. ASSUME NEW k \in 0..(m - 1), k \in S
      PROVE  k + 1 \in S
  <2>1. k + 1 \in 1..m /\ (k + 1) - 1 = k /\ k + 1 \in 0..m /\ k \in 0..m
    OBVIOUS
  <2>2. f[k + 1] = f[k] \o seqs[k + 1] /\ f[k] = SubSeq(whole, 1, cut[k])
    BY <1>3, <1>5, <2>1
  <2>3. /\ cut[k] \in Nat /\ cut[k + 1] \in Nat /\ cut[k] <= cut[k + 1] /\ cut[k + 1] <= Len(whole)
        /\ seqs[k + 1] = SubSeq(whole, cut[k] + 1, cut[k + 1])
    BY <1>1, <2>1
  <2>4. 1 \in 1..(Len(whole) + 1) /\ cut[k] \in (1 - 1)..Len(whole) /\ cut[k + 1] \in cut[k]..Len(whole)
    BY <2>3
  <2>5. SubSeq(whole, 1, cut[k]) \o SubSeq(whole, cut[k] + 1, cut[k + 1]) = SubSeq(whole, 1, cut[k + 1])
    BY <2>4, ConcatAdjacentSubSeq
  <2> QED
    BY <2>1, <2>2, <2>3, <2>5
<1> HIDE DEF S
<1>6. 0..m \subseteq S
  BY <1>4, <1>5, Reaches
<1>7. f[m] = SubSeq(whole, 1, Len(whole))
  BY <1>0a, <1>6 DEF S
<1> QED
  BY <1>3, <1>7, SubSeqFull DEF seqs

\* Cuts that go on until the end reach it after as many parts as begin before it.
Advancing(cut, n) ==
  /\ cut \in [0..n -> 0..n] /\ cut[0] = 0
  /\ \A k \in 1..n : IF cut[k - 1] = n THEN cut[k] = n ELSE cut[k - 1] < cut[k]

\* A function that advances until n has reached it after as many steps as are below n.
LEMMA AdvancingReaches ==
  ASSUME NEW n \in Nat, NEW cut, Advancing(cut, n)
  PROVE  LET last == Cardinality({k \in DOMAIN cut : cut[k] < n}) IN
         /\ last \in 0..n /\ cut[last] = n
         /\ \A k \in 0..(last - 1) : cut[k] < n
<1> DEFINE behind == {k \in 0..n : cut[k] < n}
           done == {k \in 0..n : cut[k] = n}
           S == {k \in 0..n : cut[k] >= k}
<1>1. /\ \A k \in 0..n : cut[k] \in 0..n
      /\ cut[0] = 0 /\ DOMAIN cut = 0..n
      /\ \A k \in 1..n : IF cut[k - 1] = n THEN cut[k] = n ELSE cut[k - 1] < cut[k]
  BY DEF Advancing
<1>2. 0 \in S
  BY <1>1
<1>3. ASSUME NEW k \in 0..(n - 1), k \in S
      PROVE  k + 1 \in S
  <2>1. k + 1 \in 1..n /\ (k + 1) - 1 = k /\ k + 1 \in 0..n /\ k \in 0..n
    OBVIOUS
  <2>2. cut[k] >= k /\ cut[k] \in 0..n /\ cut[k + 1] \in 0..n
    BY <1>1, <1>3, <2>1
  <2>3. IF cut[k] = n THEN cut[k + 1] = n ELSE cut[k] < cut[k + 1]
    BY <1>1, <2>1
  <2>4. cut[k + 1] >= k + 1
    BY <2>1, <2>2, <2>3
  <2> QED
    BY <2>1, <2>4
<1> HIDE DEF S
<1>4. 0..n \subseteq S
  BY <1>2, <1>3, Reaches
<1>5. n \in done
  <2>1. n \in 0..n
    OBVIOUS
  <2>2. cut[n] >= n /\ cut[n] \in 0..n
    BY <1>1, <1>4, <2>1 DEF S
  <2> QED
    BY <2>1, <2>2
<1>6. PICK m \in done : \A k \in done : m <= k
  <2>1. done \subseteq Nat
    OBVIOUS
  <2> HIDE DEF done
  <2> QED
    BY <1>5, <2>1, LeastExists
<1>7. m \in 0..n /\ cut[m] = n
  BY <1>6
<1>8. \A k \in 0..(m - 1) : cut[k] < n
  <2> TAKE k \in 0..(m - 1)
  <2>1. k \in 0..n /\ ~ (m <= k)
    BY <1>7
  <2>2. cut[k] # n
    BY <1>6, <2>1
  <2> QED
    BY <1>1, <2>1, <2>2
<1> DEFINE T == {k \in 0..n : k >= m => cut[k] = n}
<1>9. 0 \in T
  BY <1>7
<1>10. ASSUME NEW k \in 0..(n - 1), k \in T
       PROVE  k + 1 \in T
  <2>1. k + 1 \in 1..n /\ (k + 1) - 1 = k /\ k + 1 \in 0..n
    OBVIOUS
  <2>2. CASE k >= m
    <3>1. cut[k] = n
      BY <1>10, <2>2
    <3> QED
      BY <1>1, <2>1, <3>1
  <2>3. CASE ~ (k >= m)
    <3>1. k + 1 >= m => k + 1 = m
      BY <1>7, <2>3
    <3> QED
      BY <1>7, <2>1, <3>1
  <2> QED
    BY <2>2, <2>3
<1> HIDE DEF T
<1>11. 0..n \subseteq T
  BY <1>9, <1>10, Reaches
<1>12. behind = 0..(m - 1)
  <2>1. \A k \in 0..n : k >= m => ~ (cut[k] < n)
    BY <1>11 DEF T
  <2>2. behind \subseteq 0..(m - 1)
    BY <1>7, <2>1
  <2>3. 0..(m - 1) \subseteq behind
    BY <1>7, <1>8
  <2> QED
    BY <2>2, <2>3
<1>13. Cardinality(0..(m - 1)) = m
  <2>1. m \in Nat /\ m - 1 \in Int /\ 0 \in Int
    BY <1>7
  <2>2. Cardinality(0..(m - 1)) = IF 0 > m - 1 THEN 0 ELSE (m - 1) - 0 + 1
    BY <2>1, FS_Interval
  <2> QED
    BY <2>1, <2>2
<1>14. Cardinality({k \in DOMAIN cut : cut[k] < n}) = m
  BY <1>1, <1>12, <1>13
<1> QED
  BY <1>7, <1>8, <1>14

--------------------------------------------------------------------------------
\* The message cut from a segment.

\* What Rendered says, part by part.
LEMMA RenderedIs ==
  ASSUME NEW s, Rendered(s)
  PROVE  /\ s.text \in Seq(Chars) /\ Len(s.text) \in Nat /\ DOMAIN s.text = 1..Len(s.text)
         /\ s.entities \in SUBSET Entities /\ IsFiniteSet(s.entities)
         /\ s.formats \in Seq(SUBSET Types) /\ Len(s.formats) = Len(s.text)
         /\ s.within \in Seq(SUBSET Constructs) /\ Len(s.within) = Len(s.text)
         /\ \A i \in 1..Len(s.text) : Shows(s.formats[i], s.within[i])
         /\ s = [text |-> s.text, entities |-> s.entities, formats |-> s.formats, within |-> s.within]
<1>1. s \in Segments
  BY DEF Rendered
<1>2. /\ s.text \in Seq(Chars) /\ s.entities \in SUBSET Entities
      /\ s.formats \in Seq(SUBSET Types) /\ s.within \in Seq(SUBSET Constructs)
  BY <1>1 DEF Segments
<1>3. DOMAIN s.text = 1..Len(s.text) /\ Len(s.text) \in Nat
  BY <1>2
<1>4. DOMAIN s.formats = DOMAIN s.text
  BY DEF Rendered, FormatsOf
<1>5. Len(s.formats) = Len(s.text)
  BY <1>2, <1>3, <1>4
<1>6. s = [text |-> s.text, entities |-> s.entities, formats |-> s.formats, within |-> s.within]
  BY <1>1 DEF Segments
<1> QED
  BY <1>2, <1>3, <1>5, <1>6 DEF Rendered

\* The part of an entity that a message shows, where it begins and ends in the message.
SliceOf(e, a, b) == Entity(e.type, Larger(e.offset, a) - a, Smaller(End(e), b) - Larger(e.offset, a))

\* A slice lies within its message, and its ends are those of the entity, clipped.
LEMMA SliceOfIs ==
  ASSUME NEW e \in Entities, NEW a \in Nat, NEW b \in Nat, a <= b,
         Larger(e.offset, a) < Smaller(End(e), b)
  PROVE  LET c == SliceOf(e, a, b) IN
         /\ c.type = e.type /\ c.offset \in Nat /\ c.length \in Nat \ {0} /\ End(c) \in Nat /\ End(c) <= b - a
         /\ c.offset = Larger(e.offset, a) - a /\ End(c) = Smaller(End(e), b) - a
<1>1. e.offset \in Nat /\ e.length \in Nat /\ End(e) \in Nat
  BY DEF Entities, End
<1>2. Larger(e.offset, a) \in Nat /\ Larger(e.offset, a) >= a
  BY <1>1 DEF Larger
<1>3. Smaller(End(e), b) \in Nat /\ Smaller(End(e), b) <= b
  BY <1>1 DEF Smaller
<1> DEFINE c == SliceOf(e, a, b)
<1>4. c.type = e.type /\ c.offset = Larger(e.offset, a) - a /\ c.length = Smaller(End(e), b) - Larger(e.offset, a)
  BY DEF SliceOf, Entity
<1> HIDE DEF c
<1>5. End(c) = Smaller(End(e), b) - a
  BY <1>2, <1>3, <1>4 DEF End
<1> QED
  BY <1>2, <1>3, <1>4, <1>5 DEF c

\* Clipping keeps the order of places.
LEMMA ClipsKeep ==
  ASSUME NEW x \in Nat, NEW y \in Nat, x <= y, NEW a \in Nat, NEW b \in Nat
  PROVE  Larger(x, a) - a <= Larger(y, a) - a /\ Smaller(x, b) - a <= Smaller(y, b) - a
BY DEF Larger, Smaller

\* Clipped ranges that meet belong to ranges that meet.
LEMMA ClipsMeet ==
  ASSUME NEW x \in Nat, NEW y \in Nat, NEW a \in Nat, NEW b \in Nat, Larger(x, a) - a < Smaller(y, b) - a
  PROVE  x < y
BY DEF Larger, Smaller

\* sliceEntities clips each entity that has a character in the message, and no other.
LEMMA SlicesAre ==
  ASSUME NEW entities \in SUBSET Entities, NEW a \in Nat, NEW b \in Nat
  PROVE  \A c : c \in SliceEntities(entities, a, b) <=>
                \E e \in entities : Larger(e.offset, a) < Smaller(End(e), b) /\ c = SliceOf(e, a, b)
BY DEF SliceEntities, SliceOf

\* A message shows what the text shows between its ends, in a way Telegram takes.
Part(s, a, b) == [text |-> SubSeq(s.text, a + 1, b), entities |-> SliceEntities(s.entities, a, b)]

\* Telegram takes a message cut from a rendered segment, and it looks as its part did.
LEMMA SliceIs ==
  ASSUME NEW s, Rendered(s), NEW a \in Nat, NEW b \in Nat, a <= b, b <= Len(s.text)
  PROVE  /\ Part(s, a, b).text = SubSeq(s.text, a + 1, b) /\ Len(Part(s, a, b).text) = b - a
         /\ Acceptable(Part(s, a, b)) /\ FormatsOf(Part(s, a, b)) = SubSeq(s.formats, a + 1, b)
<1> DEFINE n == Len(s.text)
           m == Part(s, a, b)
           shown(e) == Larger(e.offset, a) < Smaller(End(e), b)
<1>1. /\ s.text \in Seq(Chars) /\ n \in Nat /\ s.entities \in SUBSET Entities
      /\ s.formats \in Seq(SUBSET Types) /\ Len(s.formats) = n
  BY RenderedIs
<1>2. /\ m.text = SubSeq(s.text, a + 1, b) /\ m.entities = SliceEntities(s.entities, a, b)
  BY DEF Part
<1> HIDE DEF m
<1>3. m.text \in Seq(Chars) /\ Len(m.text) = b - a
  BY <1>1, <1>2, SubSeqIs
<1>4. \A c : c \in m.entities <=> \E e \in s.entities : shown(e) /\ c = SliceOf(e, a, b)
  <2>1. \A c : c \in SliceEntities(s.entities, a, b) <=> \E e \in s.entities : shown(e) /\ c = SliceOf(e, a, b)
    BY <1>1, SlicesAre
  <2> QED
    BY <1>2, <2>1
<1>5. ASSUME NEW e \in s.entities, shown(e)
      PROVE  LET c == SliceOf(e, a, b) IN
             /\ c.type = e.type /\ c.offset \in Nat /\ c.length \in Nat \ {0} /\ End(c) \in Nat /\ End(c) <= b - a
             /\ c.offset = Larger(e.offset, a) - a /\ End(c) = Smaller(End(e), b) - a
  <2>1. e \in Entities
    BY <1>1
  <2> QED
    BY <1>5, <2>1, SliceOfIs
<1>6. \A e \in s.entities : e.offset \in Nat /\ e.length \in Nat /\ End(e) \in Nat
  BY <1>1 DEF Entities, End
<1>7. Acceptable(m)
  <2> SUFFICES ASSUME NEW c \in m.entities, NEW d \in m.entities
               PROVE  /\ c.length > 0 /\ End(c) <= Len(m.text)
                      /\ Overlaps(c, d) => Covers(c, d) \/ Covers(d, c)
                      /\ c # d /\ Overlaps(c, d) => ~IsCode(c.type)
    BY DEF Acceptable
  <2>1. PICK e \in s.entities : shown(e) /\ c = SliceOf(e, a, b)
    BY <1>4
  <2>2. PICK f \in s.entities : shown(f) /\ d = SliceOf(f, a, b)
    BY <1>4
  <2>3. /\ c.type = e.type /\ c.offset \in Nat /\ c.length \in Nat \ {0} /\ End(c) \in Nat /\ End(c) <= b - a
        /\ c.offset = Larger(e.offset, a) - a /\ End(c) = Smaller(End(e), b) - a
    BY <1>5, <2>1
  <2>4. /\ d.type = f.type /\ d.offset \in Nat /\ d.length \in Nat \ {0} /\ End(d) \in Nat /\ End(d) <= b - a
        /\ d.offset = Larger(f.offset, a) - a /\ End(d) = Smaller(End(f), b) - a
    BY <1>5, <2>2
  <2>5. /\ e.offset \in Nat /\ End(e) \in Nat /\ f.offset \in Nat /\ End(f) \in Nat
    BY <1>6
  <2>6. Overlaps(c, d) => Overlaps(e, f)
    <3>1. Larger(e.offset, a) - a < Smaller(End(f), b) - a => e.offset < End(f)
      BY <2>5, ClipsMeet
    <3>2. Larger(f.offset, a) - a < Smaller(End(e), b) - a => f.offset < End(e)
      BY <2>5, ClipsMeet
    <3> QED
      BY <2>3, <2>4, <3>1, <3>2 DEF Overlaps
  <2>7. (Covers(e, f) => Covers(c, d)) /\ (Covers(f, e) => Covers(d, c))
    <3>1. /\ e.offset <= f.offset => Larger(e.offset, a) - a <= Larger(f.offset, a) - a
          /\ f.offset <= e.offset => Larger(f.offset, a) - a <= Larger(e.offset, a) - a
      BY <2>5, ClipsKeep
    <3>2. /\ End(f) <= End(e) => Smaller(End(f), b) - a <= Smaller(End(e), b) - a
          /\ End(e) <= End(f) => Smaller(End(e), b) - a <= Smaller(End(f), b) - a
      BY <2>5, ClipsKeep
    <3> QED
      BY <2>3, <2>4, <3>1, <3>2 DEF Covers
  <2>8. c # d => e # f
    BY <2>1, <2>2
  <2>9. /\ Overlaps(e, f) => Covers(e, f) \/ Covers(f, e)
        /\ e # f /\ Overlaps(e, f) => ~IsCode(e.type)
    BY DEF Rendered, Acceptable
  <2> QED
    BY <1>3, <2>3, <2>6, <2>7, <2>8, <2>9
<1>8. ASSUME NEW i \in 1..(b - a)
      PROVE  FormatsOf(m)[i] = s.formats[a + i]
  <2>1. i \in DOMAIN m.text /\ a + i \in DOMAIN s.text
    BY <1>1, <1>3
  <2>2. FormatsOf(m)[i] = {c.type : c \in {c \in m.entities : c.offset < i /\ i <= End(c)}}
    BY <2>1 DEF FormatsOf
  <2>3. s.formats[a + i] = {e.type : e \in {e \in s.entities : e.offset < a + i /\ a + i <= End(e)}}
    BY <2>1 DEF Rendered, FormatsOf
  <2>4. ASSUME NEW e \in s.entities
        PROVE  e.offset < a + i /\ a + i <= End(e)
               <=> shown(e) /\ SliceOf(e, a, b).offset < i /\ i <= End(SliceOf(e, a, b))
    <3>1. e.offset \in Nat /\ End(e) \in Nat
      BY <1>6
    <3>2. CASE shown(e)
      <4>1. /\ SliceOf(e, a, b).offset = Larger(e.offset, a) - a
            /\ End(SliceOf(e, a, b)) = Smaller(End(e), b) - a
        BY <1>5, <3>2
      <4> QED
        BY <3>1, <3>2, <4>1 DEF Larger, Smaller
    <3>3. CASE ~shown(e)
      BY <3>1, <3>3 DEF Larger, Smaller
    <3> QED
      BY <3>2, <3>3
  <2>5. ASSUME NEW type
        PROVE  type \in FormatsOf(m)[i] <=> type \in s.formats[a + i]
    <3>1. ASSUME type \in FormatsOf(m)[i] PROVE type \in s.formats[a + i]
      <4>1. PICK c \in m.entities : c.offset < i /\ i <= End(c) /\ c.type = type
        BY <2>2, <3>1
      <4>2. PICK e \in s.entities : shown(e) /\ c = SliceOf(e, a, b)
        BY <1>4
      <4>3. e.type = type
        BY <1>5, <4>1, <4>2
      <4> QED
        BY <2>3, <2>4, <4>1, <4>2, <4>3
    <3>2. ASSUME type \in s.formats[a + i] PROVE type \in FormatsOf(m)[i]
      <4>1. PICK e \in s.entities : e.offset < a + i /\ a + i <= End(e) /\ e.type = type
        BY <2>3, <3>2
      <4>2. shown(e) /\ SliceOf(e, a, b).offset < i /\ i <= End(SliceOf(e, a, b))
        BY <2>4, <4>1
      <4>3. SliceOf(e, a, b) \in m.entities /\ SliceOf(e, a, b).type = type
        BY <1>4, <1>5, <4>1, <4>2
      <4> QED
        BY <2>2, <4>2, <4>3
    <3> QED
      BY <3>1, <3>2
  <2> QED
    BY <2>2, <2>3, <2>5
<1>9. FormatsOf(m) = SubSeq(s.formats, a + 1, b)
  <2>1. DOMAIN m.text = 1..(b - a)
    BY <1>3
  <2>2. SubSeq(s.formats, a + 1, b) = [i \in 1..(b - a) |-> s.formats[a + i]]
    BY <1>1
  <2>3. FormatsOf(m) = [i \in 1..(b - a) |-> FormatsOf(m)[i]]
    BY <2>1 DEF FormatsOf
  <2> QED
    BY <1>8, <2>2, <2>3
<1> QED
  BY <1>2, <1>3, <1>7, <1>9 DEF m

--------------------------------------------------------------------------------
\* What the renderers build is as normalizeEntities leaves it.

\* Earlier orders entities totally.
LEMMA EarlierOrders ==
  /\ \A e \in Entities : ~Earlier(e, e)
  /\ \A e, f, g \in Entities : Earlier(e, f) /\ Earlier(f, g) => Earlier(e, g)
  /\ \A e, f \in Entities : e = f \/ Earlier(e, f) \/ Earlier(f, e)
<1>1. \A type \in Types : Place(type) \in Nat
  BY DEF Place, Types
<1>2. \A t, u \in Types : Place(t) = Place(u) => t = u
  BY DEF Place, Types
<1>3. \A e \in Entities : e.offset \in Nat /\ e.length \in Nat /\ e.type \in Types
  BY DEF Entities
<1>4. \A e, f \in Entities : e.type = f.type /\ e.offset = f.offset /\ e.length = f.length => e = f
  BY DEF Entities
<1> HIDE DEF Place
<1>5. \A e, f \in Entities : e = f \/ Earlier(e, f) \/ Earlier(f, e)
  <2> TAKE e, f \in Entities
  <2>1. Place(e.type) \in Nat /\ Place(f.type) \in Nat
    BY <1>1, <1>3
  <2>2. CASE e.offset # f.offset \/ e.length # f.length
    BY <1>3, <2>2 DEF Earlier
  <2>3. CASE e.offset = f.offset /\ e.length = f.length /\ Place(e.type) # Place(f.type)
    BY <2>1, <2>3 DEF Earlier
  <2>4. CASE e.offset = f.offset /\ e.length = f.length /\ Place(e.type) = Place(f.type)
    <3>1. e.type = f.type
      BY <1>2, <1>3, <2>4
    <3> QED
      BY <1>4, <2>4, <3>1
  <2> QED
    BY <2>2, <2>3, <2>4
<1>6. \A e \in Entities : ~Earlier(e, e)
  <2> TAKE e \in Entities
  <2>1. Place(e.type) \in Nat
    BY <1>1, <1>3
  <2> QED
    BY <1>3, <2>1 DEF Earlier
<1>7. \A e, f, g \in Entities : Earlier(e, f) /\ Earlier(f, g) => Earlier(e, g)
  <2> TAKE e, f, g \in Entities
  <2>1. Place(e.type) \in Nat /\ Place(f.type) \in Nat /\ Place(g.type) \in Nat
    BY <1>1, <1>3
  <2>2. /\ e.offset \in Nat /\ f.offset \in Nat /\ g.offset \in Nat
        /\ e.length \in Nat /\ f.length \in Nat /\ g.length \in Nat
    BY <1>3
  <2> QED
    BY <2>1, <2>2 DEF Earlier
<1> QED
  BY <1>5, <1>6, <1>7

\* What is put in the order of Earlier holds each entity.
LEMMA SortedIs ==
  ASSUME NEW S, S \subseteq Entities, IsFiniteSet(S)
  PROVE  /\ Cardinality(S) \in Nat /\ Sorted(S) \in Seq(S) /\ Len(Sorted(S)) = Cardinality(S)
         /\ \A e \in S : \E k \in 1..Cardinality(S) : Sorted(S)[k] = e
<1> DEFINE n == Cardinality(S)
           before(e) == {f \in S : Earlier(f, e)}
           rank(e) == Cardinality(before(e))
           f == [e \in S |-> rank(e)]
<1>1. n \in Nat
  BY FS_CardinalityType
<1>2. ASSUME NEW e \in S
      PROVE  rank(e) \in 0..(n - 1)
  <2>1. before(e) \in SUBSET S /\ before(e) # S
    BY EarlierOrders
  <2>2. IsFiniteSet(before(e)) /\ rank(e) <= n /\ rank(e) # n
    BY <2>1, FS_Subset
  <2>3. rank(e) \in Nat
    BY <2>2, FS_CardinalityType
  <2> QED
    BY <1>1, <2>2, <2>3
<1>3. ASSUME NEW e \in S, NEW g \in S, Earlier(e, g)
      PROVE  rank(e) < rank(g)
  <2>1. before(e) \in SUBSET before(g)
    BY <1>3, EarlierOrders
  <2>2. e \in before(g) /\ e \notin before(e)
    BY <1>3, EarlierOrders
  <2>3. IsFiniteSet(before(g))
    <3>1. before(g) \in SUBSET S
      OBVIOUS
    <3> QED
      BY <3>1, FS_Subset
  <2>4. rank(e) <= rank(g) /\ rank(e) # rank(g)
    BY <2>1, <2>2, <2>3, FS_Subset
  <2>5. rank(e) \in Int /\ rank(g) \in Int
    BY <1>2
  <2> HIDE DEF rank
  <2> QED
    BY <2>4, <2>5
<1> HIDE DEF rank
<1>4. \A e, g \in S : rank(e) = rank(g) => e = g
  <2> TAKE e, g \in S
  <2>1. (Earlier(e, g) => rank(e) < rank(g)) /\ (Earlier(g, e) => rank(g) < rank(e))
    BY <1>3
  <2>2. e = g \/ Earlier(e, g) \/ Earlier(g, e)
    BY EarlierOrders
  <2>3. rank(e) \in Int /\ rank(g) \in Int
    BY <1>2
  <2> QED
    BY <2>1, <2>2, <2>3
<1>5. f \in Injection(S, 0..(n - 1))
  BY <1>2, <1>4 DEF Injection, IsInjective
<1>6. IsFiniteSet(0..(n - 1)) /\ Cardinality(0..(n - 1)) = n
  BY <1>1, FS_Interval
<1>7. f \in Surjection(S, 0..(n - 1))
  BY <1>5, <1>6, FS_Injection
<1>8. \A k \in 0..(n - 1) : \E e \in S : rank(e) = k
  BY <1>7 DEF Surjection
<1>9. \A k \in 1..n : Sorted(S)[k] = CHOOSE e \in S : rank(e) = k - 1
  BY DEF Sorted, rank
<1>10. ASSUME NEW k \in 1..n
       PROVE  Sorted(S)[k] \in S /\ rank(Sorted(S)[k]) = k - 1
  <2>1. k - 1 \in 0..(n - 1)
    BY <1>1
  <2>2. PICK e \in S : rank(e) = k - 1
    BY <1>8, <2>1
  <2> QED
    BY <1>9, <2>2
<1>11. ASSUME NEW e \in S
       PROVE  \E k \in 1..n : Sorted(S)[k] = e
  <2>1. rank(e) + 1 \in 1..n /\ rank(e) = (rank(e) + 1) - 1
    BY <1>1, <1>2
  <2>2. rank(Sorted(S)[rank(e) + 1]) = rank(e) /\ Sorted(S)[rank(e) + 1] \in S
    BY <1>10, <2>1
  <2> QED
    BY <1>4, <2>1, <2>2
<1>12. Sorted(S) \in [1..n -> S]
  BY <1>10 DEF Sorted
<1>13. Sorted(S) \in Seq(S) /\ Len(Sorted(S)) = n
  BY <1>1, <1>12, SequenceOf
<1> QED
  BY <1>1, <1>11, <1>13

\* Entities as Telegram takes them stand beside each other.
Peaceful(entities) == \A e, f \in entities : CanCoexist(e, f) /\ e.length > 0

\* Entities that Telegram takes can stand beside each other in normalizeEntities.
LEMMA AcceptableIsPeaceful ==
  ASSUME NEW m, Acceptable(m), m.entities \subseteq Entities
  PROVE  Peaceful(m.entities)
<1> SUFFICES ASSUME NEW e \in m.entities, NEW f \in m.entities, Overlaps(e, f)
             PROVE  (Covers(e, f) \/ Covers(f, e)) /\ CanContain(e, f) /\ CanContain(f, e)
  <2>1. \A e \in m.entities : e.length > 0
    BY DEF Acceptable
  <2> QED
    BY <2>1 DEF Peaceful, CanCoexist
<1>1. Covers(e, f) \/ Covers(f, e)
  BY DEF Acceptable
<1>2. CASE e = f
  BY <1>1, <1>2 DEF CanContain
<1>3. CASE e # f
  <2>1. Overlaps(f, e)
    BY DEF Overlaps
  <2>2. ~IsCode(e.type) /\ ~IsCode(f.type)
    BY <1>3, <2>1 DEF Acceptable
  <2>3. e.type \in Types /\ f.type \in Types
    BY DEF Entities
  <2>4. /\ e.type = "text_link" \/ IsFormatting(e.type)
        /\ f.type = "text_link" \/ IsFormatting(f.type)
    BY <2>2, <2>3 DEF Types, IsCode, IsFormatting
  <2> QED
    BY <1>1, <2>2, <2>4 DEF CanContain
<1> QED
  BY <1>2, <1>3

\* Among such entities the loop keeps all.
LEMMA NormalizedIs ==
  ASSUME NEW S, S \subseteq Entities, IsFiniteSet(S), Peaceful(S)
  PROVE  NormalizeEntities(S) = S
<1> DEFINE n == Len(Sorted(S))
           V == SUBSET S
           none == {}
           step == [p \in V \X (1..n) |-> Admit(p[1], Sorted(S)[p[2]])]
<1>1. {e \in S : e.length > 0} = S
  BY DEF Peaceful
<1>2. /\ n = Cardinality(S) /\ n \in Nat /\ \A k \in 1..n : Sorted(S)[k] \in S
      /\ \A e \in S : \E k \in 1..n : Sorted(S)[k] = e
  <2>1. /\ Cardinality(S) \in Nat /\ Sorted(S) \in Seq(S) /\ n = Cardinality(S)
        /\ \A e \in S : \E k \in 1..Cardinality(S) : Sorted(S)[k] = e
    BY SortedIs
  <2> QED
    BY <2>1
<1>3. \A kept \in V, e \in S : Admit(kept, e) = kept \cup {e}
  <2> TAKE kept \in V, e \in S
  <2>1. {c \in kept : ~CanCoexist(c, e)} = {}
    BY DEF Peaceful
  <2> QED
    BY <2>1 DEF Admit
<1>4. \A kept \in V, k \in 1..n : step[<<kept, k>>] = kept \cup {Sorted(S)[k]} /\ kept \cup {Sorted(S)[k]} \in V
  <2> TAKE kept \in V, k \in 1..n
  <2>1. <<kept, k>> \in V \X (1..n) /\ Sorted(S)[k] \in S
    BY <1>2
  <2>2. step[<<kept, k>>] = Admit(kept, Sorted(S)[k])
    BY <2>1
  <2> HIDE DEF step
  <2> QED
    BY <1>3, <2>1, <2>2
<1>5. none \in V
  OBVIOUS
<1> DEFINE Keeps(f) == f = [k \in 0..n |-> IF k = 0 THEN {} ELSE Admit(f[k - 1], Sorted(S)[k])]
           kept == CHOOSE f : Keeps(f)
<1>6. NormalizeEntities(S) = kept[n]
  BY <1>1 DEF NormalizeEntities
<1> HIDE DEF step, V, none
<1>7. PICK f : Goes(f, n, none, step)
  BY <1>2, RecursionExists
<1>8. Follows(f, V, n, none, step)
  <2>1. Starts(V, n, none, step)
    BY <1>2, <1>4, <1>5 DEF Starts, Steps
  <2> QED
    BY <1>7, <2>1, RecursionIs
<1>9. f[0] = {} /\ \A k \in 0..n : f[k] \in SUBSET S
  BY <1>8 DEF Follows, V, none
<1>10. \A k \in 1..n : f[k] = Admit(f[k - 1], Sorted(S)[k])
  <2> TAKE k \in 1..n
  <2>1. k - 1 \in 0..n
    BY <1>2
  <2>2. f[k] = step[<<f[k - 1], k>>] /\ f[k - 1] \in V
    BY <1>8, <2>1 DEF Follows
  <2>3. step[<<f[k - 1], k>>] = f[k - 1] \cup {Sorted(S)[k]}
    BY <1>4, <2>2
  <2>4. Admit(f[k - 1], Sorted(S)[k]) = f[k - 1] \cup {Sorted(S)[k]}
    BY <1>2, <1>3, <2>2
  <2> QED
    BY <2>2, <2>3, <2>4
<1>11. f = [k \in 0..n |-> f[k]]
  BY <1>8 DEF Follows
<1>12. Keeps(f)
  <2>1. \A k \in 0..n : f[k] = IF k = 0 THEN {} ELSE Admit(f[k - 1], Sorted(S)[k])
    <3> TAKE k \in 0..n
    <3>1. CASE k = 0
      BY <1>9, <3>1
    <3>2. CASE k # 0
      <4>1. k \in 1..n
        BY <1>2, <3>2
      <4> QED
        BY <1>10, <3>2, <4>1
    <3> QED
      BY <3>1, <3>2
  <2> QED
    BY <1>11, <2>1
<1>13. Keeps(kept)
  BY <1>12
<1> HIDE DEF kept
<1>14. kept[0] = {} /\ \A k \in 1..n : kept[k] = Admit(kept[k - 1], Sorted(S)[k])
  <2>1. \A k \in 0..n : kept[k] = IF k = 0 THEN {} ELSE Admit(kept[k - 1], Sorted(S)[k])
    BY <1>13
  <2>2. 0 \in 0..n /\ \A k \in 1..n : k \in 0..n /\ k # 0
    BY <1>2
  <2> QED
    BY <2>1, <2>2
<1> HIDE DEF Keeps
<1> DEFINE T == {k \in 0..n : kept[k] = {Sorted(S)[i] : i \in 1..k}}
<1>15. 0 \in T
  <2>1. 1..0 = {} /\ 0 \in 0..n
    BY <1>2
  <2> QED
    BY <1>14, <2>1
<1>16. ASSUME NEW k \in 0..(n - 1), k \in T
       PROVE  k + 1 \in T
  <2>1. k + 1 \in 1..n /\ (k + 1) - 1 = k /\ k + 1 \in 0..n
    BY <1>2
  <2>2. kept[k] = {Sorted(S)[i] : i \in 1..k}
    BY <1>16
  <2>3. \A i \in 1..k : i \in 1..n
    BY <1>2
  <2>4. kept[k] \in V /\ Sorted(S)[k + 1] \in S
    BY <1>2, <2>1, <2>2, <2>3 DEF V
  <2>5. kept[k + 1] = Admit(kept[k], Sorted(S)[k + 1])
    BY <1>14, <2>1
  <2>6. kept[k + 1] = kept[k] \cup {Sorted(S)[k + 1]}
    BY <1>3, <2>4, <2>5
  <2>7. 1..(k + 1) = 1..k \cup {k + 1}
    BY <1>2
  <2>8. kept[k + 1] = {Sorted(S)[i] : i \in 1..(k + 1)}
    BY <2>2, <2>6, <2>7
  <2> QED
    BY <2>1, <2>8
<1> HIDE DEF T
<1>17. 0..n \subseteq T
  BY <1>2, <1>15, <1>16, Reaches
<1>18. kept[n] = {Sorted(S)[i] : i \in 1..n}
  BY <1>2, <1>17 DEF T
<1>19. kept[n] = S
  BY <1>2, <1>18
<1> QED
  BY <1>6, <1>19

\* normalizeEntities leaves a rendered segment as it is.
LEMMA RenderedNormalized ==
  ASSUME NEW s, Rendered(s)
  PROVE  Normalized(s) = s
<1>1. s = [text |-> s.text, entities |-> s.entities, formats |-> s.formats, within |-> s.within]
  BY RenderedIs
<1>2. s.entities \subseteq Entities /\ IsFiniteSet(s.entities)
  BY RenderedIs
<1>3. Peaceful(s.entities)
  BY <1>2, AcceptableIsPeaceful DEF Rendered
<1>4. NormalizeEntities(s.entities) = s.entities
  BY <1>2, <1>3, NormalizedIs
<1> QED
  BY <1>1, <1>4 DEF Normalized

--------------------------------------------------------------------------------
\* The messages of a segment.

\* The cuts of a segment go on until its end.
LEMMA CutsAdvance ==
  ASSUME NEW s, Rendered(s), NEW limit \in Nat \ {0, 1}
  PROVE  LET cut == Cuts(s, limit)
             n == Len(s.text)
         IN Advancing(cut, n) /\ \A k \in 1..n : cut[k] = EndOfChunk(s, cut[k - 1], limit)
<1> DEFINE n == Len(s.text)
           V == 0..n
           zero == 0
           step == [p \in V \X (1..n) |-> EndOfChunk(s, p[1], limit)]
           Goal(f) == f = [k \in 0..n |-> IF k = 0 THEN 0 ELSE EndOfChunk(s, f[k - 1], limit)]
           cut == CHOOSE f : Goal(f)
<1>1. n \in Nat
  BY RenderedIs
<1>2. ASSUME NEW a \in 0..n
      PROVE  EndOfChunk(s, a, limit) \in 0..n /\ IF a = n THEN EndOfChunk(s, a, limit) = n ELSE a < EndOfChunk(s, a, limit)
  <2>1. CASE a = n
    <3>1. EndOfChunk(s, a, limit) = n
      BY <2>1, EndOfChunkAtEnd
    <3> QED
      BY <1>1, <2>1, <3>1
  <2>2. CASE a # n
    <3>1. a \in Nat /\ a < n
      BY <1>1, <2>2
    <3>2. EndOfChunk(s, a, limit) \in (a + 1)..n
      BY <3>1, EndOfChunkIs
    <3> QED
      BY <1>1, <2>2, <3>1, <3>2
  <2> QED
    BY <2>1, <2>2
<1>3. \A v \in V, k \in 1..n : step[<<v, k>>] = EndOfChunk(s, v, limit)
  <2> TAKE v \in V, k \in 1..n
  <2>1. <<v, k>> \in V \X (1..n)
    OBVIOUS
  <2> QED
    BY <2>1
<1>4. Cuts(s, limit) = cut
  BY DEF Cuts
<1> HIDE DEF step
<1>5. \A v \in V, k \in 1..n : step[<<v, k>>] \in V
  BY <1>2, <1>3
<1>6. zero \in V
  BY <1>1
<1> HIDE DEF V, zero, n
<1>7. PICK f : Goes(f, n, zero, step)
  BY <1>1, RecursionExists
<1>8. Follows(f, V, n, zero, step)
  <2>1. Starts(V, n, zero, step)
    BY <1>1, <1>5, <1>6 DEF Starts, Steps
  <2> QED
    BY <1>7, <2>1, RecursionIs
<1>9. Goal(f)
  <2>1. \A k \in 0..n : f[k] = IF k = 0 THEN 0 ELSE EndOfChunk(s, f[k - 1], limit)
    <3> TAKE k \in 0..n
    <3>1. CASE k = 0
      BY <1>8, <3>1 DEF Follows, zero
    <3>2. CASE k # 0
      <4>1. k \in 1..n /\ k - 1 \in 0..n
        BY <1>1, <3>2
      <4>2. f[k] = step[<<f[k - 1], k>>] /\ f[k - 1] \in V
        BY <1>8, <4>1 DEF Follows
      <4>3. f[k] = EndOfChunk(s, f[k - 1], limit)
        BY <1>3, <4>1, <4>2
      <4> QED
        BY <3>2, <4>3
    <3> QED
      BY <3>1, <3>2
  <2>2. f = [k \in 0..n |-> f[k]]
    BY <1>8 DEF Follows
  <2> QED
    BY <2>1, <2>2
<1>10. Goal(cut)
  BY <1>9
<1> HIDE DEF cut
<1>11. DOMAIN cut = 0..n /\ cut = [k \in 0..n |-> cut[k]]
  BY <1>10
<1>12. cut[0] = 0 /\ \A k \in 1..n : cut[k] = EndOfChunk(s, cut[k - 1], limit)
  <2>1. \A k \in 0..n : cut[k] = IF k = 0 THEN 0 ELSE EndOfChunk(s, cut[k - 1], limit)
    BY <1>10
  <2>2. 0 \in 0..n /\ \A k \in 1..n : k \in 0..n /\ k # 0
    BY <1>1
  <2> QED
    BY <2>1, <2>2
<1> HIDE DEF Goal
<1> DEFINE S == {k \in 0..n : cut[k] \in 0..n}
<1>13. 0 \in S
  BY <1>1, <1>12
<1>14. ASSUME NEW k \in 0..(n - 1), k \in S
       PROVE  k + 1 \in S
  <2>1. k + 1 \in 1..n /\ (k + 1) - 1 = k /\ k + 1 \in 0..n
    BY <1>1
  <2>2. cut[k + 1] = EndOfChunk(s, cut[k], limit) /\ cut[k] \in 0..n
    BY <1>12, <1>14, <2>1
  <2>3. cut[k + 1] \in 0..n
    BY <1>2, <2>2 DEF n
  <2> QED
    BY <2>1, <2>3
<1> HIDE DEF S
<1>15. 0..n \subseteq S
  BY <1>1, <1>13, <1>14, Reaches
<1>16. \A k \in 0..n : cut[k] \in 0..n
  BY <1>15 DEF S
<1>17. ASSUME NEW k \in 1..n
       PROVE  IF cut[k - 1] = n THEN cut[k] = n ELSE cut[k - 1] < cut[k]
  <2>1. k - 1 \in 0..n
    BY <1>1
  <2>2. cut[k - 1] \in 0..n /\ cut[k] = EndOfChunk(s, cut[k - 1], limit)
    BY <1>12, <1>16, <2>1
  <2> QED
    BY <1>2, <2>2 DEF n
<1>18. cut \in [0..n -> 0..n]
  BY <1>11, <1>16
<1>19. Advancing(cut, n)
  BY <1>12, <1>17, <1>18 DEF Advancing
<1> QED
  BY <1>4, <1>12, <1>19 DEF n

\* What the renderers build arrives whole.
LEMMA RenderedArrives ==
  ASSUME NEW s, Rendered(s), NEW limit \in Nat \ {0, 1}
  PROVE  Faithful(s, limit)
<1> DEFINE n == Len(s.text)
           cut == Cuts(s, limit)
           last == Cardinality({k \in DOMAIN cut : cut[k] < n})
           message(k) == Part(s, cut[k - 1], cut[k])
           messages == Messages(s, limit)
           upTo == [k \in 0..last |-> cut[k]]
           third == limit \div 3
<1>1. /\ s.text \in Seq(Chars) /\ n \in Nat
      /\ s.formats \in Seq(SUBSET Types) /\ Len(s.formats) = n
  BY RenderedIs
<1>2. Normalized(s) = s
  BY RenderedNormalized
<1>3. messages = [k \in 1..last |-> message(k)]
  BY <1>2 DEF Messages, Part
<1>4. Advancing(cut, n) /\ \A k \in 1..n : cut[k] = EndOfChunk(s, cut[k - 1], limit)
  BY CutsAdvance
<1> HIDE DEF cut
<1>5. last \in 0..n /\ cut[last] = n /\ \A k \in 0..(last - 1) : cut[k] < n
  BY <1>1, <1>4, AdvancingReaches
<1> HIDE DEF last, messages, message, n
<1>6. ASSUME NEW k \in 1..last
      PROVE  /\ cut[k - 1] \in Nat /\ cut[k] \in Nat /\ cut[k - 1] < cut[k] /\ cut[k] <= n
             /\ cut[k] <= cut[k - 1] + limit
             /\ Blank(SubSeq(s.text, cut[k - 1] + 1, cut[k])) => BlankOnlyAt(s, cut[k - 1], cut[k], third)
             /\ SplitOnlyAt(s, cut[k - 1], cut[k], limit)
  <2>1. k \in 1..n /\ k - 1 \in 0..(last - 1) /\ k - 1 \in 0..n
    BY <1>1, <1>5
  <2>2. cut[k - 1] \in 0..n /\ cut[k - 1] < n
    BY <1>4, <1>5, <2>1 DEF Advancing
  <2>3. cut[k] = EndOfChunk(s, cut[k - 1], limit)
    BY <1>4, <2>1
  <2>4. /\ EndOfChunk(s, cut[k - 1], limit) \in (cut[k - 1] + 1)..n
        /\ EndOfChunk(s, cut[k - 1], limit) <= cut[k - 1] + limit
        /\ Blank(SubSeq(s.text, cut[k - 1] + 1, EndOfChunk(s, cut[k - 1], limit)))
             => BlankOnlyAt(s, cut[k - 1], EndOfChunk(s, cut[k - 1], limit), third)
        /\ SplitOnlyAt(s, cut[k - 1], EndOfChunk(s, cut[k - 1], limit), limit)
    BY <1>1, <2>2, EndOfChunkIs DEF n
  <2> QED
    BY <1>1, <2>2, <2>3, <2>4
<1>7. ASSUME NEW k \in 1..last
      PROVE  /\ messages[k] = message(k)
             /\ messages[k].text = SubSeq(s.text, cut[k - 1] + 1, cut[k])
             /\ Len(messages[k].text) = cut[k] - cut[k - 1]
             /\ Acceptable(messages[k])
             /\ FormatsOf(messages[k]) = SubSeq(s.formats, cut[k - 1] + 1, cut[k])
  <2>1. messages[k] = message(k)
    BY <1>3
  <2>2. cut[k - 1] \in Nat /\ cut[k] \in Nat /\ cut[k - 1] <= cut[k] /\ cut[k] <= Len(s.text)
    BY <1>6 DEF n
  <2>3. /\ message(k).text = SubSeq(s.text, cut[k - 1] + 1, cut[k])
        /\ Len(message(k).text) = cut[k] - cut[k - 1] /\ Acceptable(message(k))
        /\ FormatsOf(message(k)) = SubSeq(s.formats, cut[k - 1] + 1, cut[k])
    BY <2>2, SliceIs DEF message
  <2> QED
    BY <2>1, <2>3
<1>8. DOMAIN messages = 1..last /\ last \in Nat /\ Len(messages) = last
  <2>1. DOMAIN messages = 1..last /\ last \in Nat
    BY <1>1, <1>3, <1>5
  <2> QED
    BY <2>1
<1>9. Cutting(upTo, last, n)
  <2>1. \A k \in 0..last : k \in 0..n
    BY <1>1, <1>5
  <2>2. \A k \in 0..last : cut[k] \in 0..n
    BY <1>4, <2>1 DEF Advancing
  <2>3. upTo \in [0..last -> 0..n]
    BY <2>2
  <2>4. upTo[0] = 0 /\ upTo[last] = n
    BY <1>4, <1>5, <1>8 DEF Advancing
  <2>5. \A k \in 1..last : upTo[k - 1] <= upTo[k]
    <3> TAKE k \in 1..last
    <3>1. k - 1 \in 0..last /\ k \in 0..last
      BY <1>8
    <3> QED
      BY <1>6, <3>1
  <2> QED
    BY <2>3, <2>4, <2>5 DEF Cutting
<1>10. \A k \in 1..last : upTo[k - 1] = cut[k - 1] /\ upTo[k] = cut[k]
  <2> TAKE k \in 1..last
  <2>1. k - 1 \in 0..last /\ k \in 0..last
    BY <1>8
  <2> QED
    BY <2>1
<1> HIDE DEF upTo
<1> DEFINE texts == [k \in 1..last |-> messages[k].text]
           formats == [k \in 1..last |-> FormatsOf(messages[k])]
<1>11. texts = Parts(s.text, upTo, last)
  BY <1>7, <1>10 DEF Parts
<1>12. formats = Parts(s.formats, upTo, last)
  BY <1>7, <1>10 DEF Parts
<1>13. FlattenSeq(texts) = s.text
  <2>1. FlattenSeq(Parts(s.text, upTo, last)) = s.text
    BY <1>1, <1>8, <1>9, PartsMakeUp DEF n
  <2> QED
    BY <1>11, <2>1
<1>14. FlattenSeq(formats) = s.formats /\ \A i \in DOMAIN s.text : Shows(s.formats[i], s.within[i])
  <2>1. FlattenSeq(Parts(s.formats, upTo, last)) = s.formats
    BY <1>1, <1>8, <1>9, PartsMakeUp
  <2> QED
    BY <1>12, <2>1 DEF Rendered
<1>15. ASSUME NEW k \in 1..last
       PROVE  /\ Len(texts[k]) \in 1..limit /\ Acceptable(messages[k])
              /\ SplitsPair(s.text, cut[k]) => Len(texts[k]) = limit \/ \E e \in s.entities : e.offset = cut[k]
              /\ Blank(texts[k]) =>
                   \/ k = Len(messages)
                   \/ HasBlanks(s.text, third + 2)
                   \/ \E e \in s.entities : e.offset = cut[k] /\ End(e) > cut[k - 1] + third + 1
  <2>1. texts[k] = SubSeq(s.text, cut[k - 1] + 1, cut[k]) /\ Len(texts[k]) = cut[k] - cut[k - 1]
    BY <1>7
  <2> HIDE DEF texts, third
  <2>2. Len(texts[k]) \in 1..limit
    <3>1. cut[k] - cut[k - 1] \in 1..limit
      BY <1>6
    <3> QED
      BY <2>1, <3>1
  <2>3. cut[k] = n => k = last
    <3> SUFFICES ASSUME k # last PROVE cut[k] < n
      BY <1>6
    <3>1. k \in 0..(last - 1)
      BY <1>8
    <3> QED
      BY <1>5, <3>1
  <2>4. Blank(texts[k]) => BlankOnlyAt(s, cut[k - 1], cut[k], third)
    BY <1>6, <2>1 DEF third
  <2>5. BlankOnlyAt(s, cut[k - 1], cut[k], third) =>
          \/ k = Len(messages)
          \/ HasBlanks(s.text, third + 2)
          \/ \E e \in s.entities : e.offset = cut[k] /\ End(e) > cut[k - 1] + third + 1
    BY <1>8, <2>3 DEF BlankOnlyAt, n
  <2>6. SplitsPair(s.text, cut[k]) => Len(texts[k]) = limit \/ \E e \in s.entities : e.offset = cut[k]
    <3>1. cut[k] = cut[k - 1] + limit => cut[k] - cut[k - 1] = limit
      BY <1>6
    <3> QED
      BY <1>6, <2>1, <3>1 DEF SplitOnlyAt
  <2> QED
    BY <1>7, <2>2, <2>4, <2>5, <2>6
<1> HIDE DEF texts, formats, third
<1> QED
  BY <1>2, <1>8, <1>13, <1>14, <1>15 DEF Faithful, texts, formats, third, messages, cut

--------------------------------------------------------------------------------
\* Texts that are not Markdown.

\* trimStart skips blanks and nothing else.
LEMMA SkipBlanksIs ==
  ASSUME NEW text \in Seq(Chars), NEW from \in 0..Len(text)
  PROVE  LET to == SkipBlanks(text, from) IN
         to \in from..Len(text) /\ \A j \in (from + 1)..to : IsBlank(text[j])
<1> DEFINE n == Len(text)
           stops == {i \in from..n : i = n \/ ~IsBlank(text[i + 1])}
           Stop(i) == (\A j \in (from + 1)..i : IsBlank(text[j])) /\ (i = n \/ ~IsBlank(text[i + 1]))
<1>1. n \in Nat /\ from \in Nat /\ stops \subseteq Nat /\ n \in stops
  OBVIOUS
<1>2. PICK i \in stops : \A j \in stops : i <= j
  <2> HIDE DEF stops
  <2> QED
    BY <1>1, LeastExists
<1>3. ASSUME NEW j \in (from + 1)..i
      PROVE  IsBlank(text[j])
  <2>1. j - 1 \in from..n /\ ~(i <= j - 1) /\ j - 1 # n /\ (j - 1) + 1 = j
    BY <1>1
  <2>2. j - 1 \notin stops
    BY <1>2, <2>1
  <2> QED
    BY <2>1, <2>2
<1>4. i \in from..n /\ Stop(i)
  BY <1>3
<1>5. SkipBlanks(text, from) = CHOOSE c \in from..n : Stop(c)
  BY DEF SkipBlanks
<1> HIDE DEF Stop
<1>6. SkipBlanks(text, from) \in from..n /\ Stop(SkipBlanks(text, from))
  BY <1>4, <1>5
<1> QED
  BY <1>6 DEF Stop

\* A message of chunkMessage has from one to limit characters.
LEMMA SplitAtIs ==
  ASSUME NEW text \in Seq(Chars), NEW limit \in Nat \ {0, 1}, NEW start \in 0..Len(text)
  PROVE  LET end == SplitAt(text, start, limit) IN
         /\ end \in start..Len(text) /\ end <= start + limit
         /\ IF start = Len(text) THEN end = start ELSE start < end
         /\ SplitsPair(text, end) => end = start + limit
<1> DEFINE n == Len(text)
           rest == SubSeq(text, start + 1, n)
           break == LastBreak(rest, limit)
           end == SplitAt(text, start, limit)
<1>1. n \in Nat /\ start \in Nat /\ start <= n
  OBVIOUS
<1>2. /\ rest \in Seq(Chars) /\ Len(rest) = n - start
      /\ \A i \in 1..(n - start) : rest[i] = text[start + i]
  BY <1>1, SubSeqIs
<1> HIDE DEF rest
<1>3. break \in 0..limit /\ (break > 0 => break < n - start /\ rest[break + 1] = NL)
  BY <1>2, LastBreakIs
<1>4. end = IF n - start <= limit THEN n ELSE start + (IF 3 * break > limit THEN break ELSE limit)
  BY <1>2 DEF SplitAt, rest
<1> HIDE DEF break, end
<1>5. CASE n - start <= limit
  <2>1. ~SplitsPair(text, n)
    BY <1>1 DEF SplitsPair, n
  <2> QED
    BY <1>1, <1>4, <1>5, <2>1 DEF end
<1>6. CASE ~ (n - start <= limit) /\ 3 * break > limit
  <2>1. break \in Nat /\ break > 0
    BY <1>3, <1>6
  <2>2. break + 1 \in 1..(n - start)
    BY <1>1, <1>3, <2>1
  <2>3. text[start + (break + 1)] = NL
    BY <1>2, <1>3, <2>1, <2>2
  <2>4. start + (break + 1) = (start + break) + 1
    BY <1>1, <2>1
  <2>5. ~SplitsPair(text, start + break)
    BY <2>3, <2>4, TextAssumption DEF SplitsPair, TextAssumption
  <2> QED
    BY <1>1, <1>3, <1>4, <1>6, <2>5 DEF end
<1>7. CASE ~ (n - start <= limit) /\ ~ (3 * break > limit)
  BY <1>1, <1>3, <1>4, <1>7 DEF end
<1> QED
  BY <1>5, <1>6, <1>7

\* The messages of a text begin further and further, until its end.
LEMMA BeginsAdvance ==
  ASSUME NEW text \in Seq(Chars), NEW limit \in Nat \ {0, 1}
  PROVE  LET begin == Begins(text, limit)
             n == Len(text)
         IN Advancing(begin, n) /\ \A k \in 1..n : begin[k] = SkipBlanks(text, SplitAt(text, begin[k - 1], limit))
<1> DEFINE n == Len(text)
           V == 0..n
           zero == 0
           next(a) == SkipBlanks(text, SplitAt(text, a, limit))
           step == [p \in V \X (1..n) |-> next(p[1])]
           Goal(f) == f = [k \in 0..n |-> IF k = 0 THEN 0 ELSE next(f[k - 1])]
           begin == CHOOSE f : Goal(f)
<1>1. n \in Nat
  OBVIOUS
<1>2. ASSUME NEW a \in 0..n
      PROVE  next(a) \in 0..n /\ IF a = n THEN next(a) = n ELSE a < next(a)
  <2>1. /\ SplitAt(text, a, limit) \in a..n
        /\ IF a = n THEN SplitAt(text, a, limit) = a ELSE a < SplitAt(text, a, limit)
    BY SplitAtIs
  <2>2. SplitAt(text, a, limit) \in 0..n
    BY <1>1, <2>1
  <2>3. next(a) \in SplitAt(text, a, limit)..n
    BY <2>2, SkipBlanksIs
  <2> HIDE DEF next
  <2> QED
    BY <1>1, <2>1, <2>2, <2>3
<1>3. \A v \in V, k \in 1..n : step[<<v, k>>] = next(v)
  <2> TAKE v \in V, k \in 1..n
  <2>1. <<v, k>> \in V \X (1..n)
    OBVIOUS
  <2> QED
    BY <2>1
<1>4. Begins(text, limit) = begin
  BY DEF Begins
<1> HIDE DEF step, next
<1>5. \A v \in V, k \in 1..n : step[<<v, k>>] \in V
  BY <1>2, <1>3
<1>6. zero \in V
  BY <1>1
<1> HIDE DEF V, zero, n
<1>7. PICK f : Goes(f, n, zero, step)
  BY <1>1, RecursionExists
<1>8. Follows(f, V, n, zero, step)
  <2>1. Starts(V, n, zero, step)
    BY <1>1, <1>5, <1>6 DEF Starts, Steps
  <2> QED
    BY <1>7, <2>1, RecursionIs
<1>9. Goal(f)
  <2>1. \A k \in 0..n : f[k] = IF k = 0 THEN 0 ELSE next(f[k - 1])
    <3> TAKE k \in 0..n
    <3>1. CASE k = 0
      BY <1>8, <3>1 DEF Follows, zero
    <3>2. CASE k # 0
      <4>1. k \in 1..n /\ k - 1 \in 0..n
        BY <1>1, <3>2
      <4>2. f[k] = step[<<f[k - 1], k>>] /\ f[k - 1] \in V
        BY <1>8, <4>1 DEF Follows
      <4>3. f[k] = next(f[k - 1])
        BY <1>3, <4>1, <4>2
      <4> QED
        BY <3>2, <4>3
    <3> QED
      BY <3>1, <3>2
  <2>2. f = [k \in 0..n |-> f[k]]
    BY <1>8 DEF Follows
  <2> QED
    BY <2>1, <2>2
<1>10. Goal(begin)
  BY <1>9
<1> HIDE DEF begin
<1>11. DOMAIN begin = 0..n /\ begin = [k \in 0..n |-> begin[k]]
  BY <1>10
<1>12. begin[0] = 0 /\ \A k \in 1..n : begin[k] = next(begin[k - 1])
  <2>1. \A k \in 0..n : begin[k] = IF k = 0 THEN 0 ELSE next(begin[k - 1])
    BY <1>10
  <2>2. 0 \in 0..n /\ \A k \in 1..n : k \in 0..n /\ k # 0
    BY <1>1
  <2> QED
    BY <2>1, <2>2
<1> HIDE DEF Goal
<1> DEFINE S == {k \in 0..n : begin[k] \in 0..n}
<1>13. 0 \in S
  BY <1>1, <1>12
<1>14. ASSUME NEW k \in 0..(n - 1), k \in S
       PROVE  k + 1 \in S
  <2>1. k + 1 \in 1..n /\ (k + 1) - 1 = k /\ k + 1 \in 0..n
    BY <1>1
  <2>2. begin[k + 1] = next(begin[k]) /\ begin[k] \in 0..n
    BY <1>12, <1>14, <2>1
  <2>3. begin[k + 1] \in 0..n
    BY <1>2, <2>2
  <2> QED
    BY <2>1, <2>3
<1> HIDE DEF S
<1>15. 0..n \subseteq S
  BY <1>1, <1>13, <1>14, Reaches
<1>16. \A k \in 0..n : begin[k] \in 0..n
  BY <1>15 DEF S
<1>17. ASSUME NEW k \in 1..n
       PROVE  IF begin[k - 1] = n THEN begin[k] = n ELSE begin[k - 1] < begin[k]
  <2>1. k - 1 \in 0..n
    BY <1>1
  <2>2. begin[k - 1] \in 0..n /\ begin[k] = next(begin[k - 1])
    BY <1>12, <1>16, <2>1
  <2> QED
    BY <1>2, <2>2
<1>18. begin \in [0..n -> 0..n]
  BY <1>11, <1>16
<1>19. Advancing(begin, n)
  BY <1>12, <1>17, <1>18 DEF Advancing
<1> QED
  BY <1>4, <1>12, <1>19 DEF n, next

\* A text loses nothing but the blanks between its messages.
LEMMA TextArrives ==
  ASSUME NEW text \in Seq(Chars), text # <<>>, NEW limit \in Nat \ {0, 1}
  PROVE  Complete(text, limit)
<1> DEFINE n == Len(text)
           begin == Begins(text, limit)
           last == Cardinality({k \in DOMAIN begin : begin[k] < n})
           split(k) == SplitAt(text, begin[k - 1], limit)
           messages == ChunkMessage(text, limit)
           end(k) == begin[k - 1] + Len(messages[k])
<1>1. n \in Nat /\ n # 0
  OBVIOUS
<1>2. messages = [k \in 1..last |-> SubSeq(text, begin[k - 1] + 1, split(k))]
  BY <1>1 DEF ChunkMessage
<1>3. Advancing(begin, n) /\ \A k \in 1..n : begin[k] = SkipBlanks(text, SplitAt(text, begin[k - 1], limit))
  BY BeginsAdvance
<1> HIDE DEF begin
<1>4. last \in 0..n /\ begin[last] = n /\ \A k \in 0..(last - 1) : begin[k] < n
  BY <1>1, <1>3, AdvancingReaches
<1> HIDE DEF last, n, messages
<1>5. \A k \in 0..n : begin[k] \in 0..n
  BY <1>3 DEF Advancing
<1>6. ASSUME NEW k \in 1..last
      PROVE  /\ k - 1 \in 0..n /\ k \in 0..n
             /\ begin[k - 1] \in 0..n /\ begin[k] \in 0..n
             /\ split(k) \in (begin[k - 1] + 1)..n /\ split(k) <= begin[k - 1] + limit
             /\ begin[k] \in split(k)..n
             /\ \A j \in (split(k) + 1)..begin[k] : IsBlank(text[j])
             /\ SplitsPair(text, split(k)) => split(k) = begin[k - 1] + limit
  <2>1. k \in 1..n /\ k - 1 \in 0..(last - 1) /\ k - 1 \in 0..n /\ k \in 0..n
    BY <1>1, <1>4
  <2>2. begin[k - 1] \in 0..n /\ begin[k - 1] < n /\ begin[k] \in 0..n
    BY <1>4, <1>5, <2>1
  <2>3. /\ split(k) \in begin[k - 1]..n /\ split(k) <= begin[k - 1] + limit
        /\ begin[k - 1] < split(k)
        /\ SplitsPair(text, split(k)) => split(k) = begin[k - 1] + limit
    BY <1>1, <2>2, SplitAtIs DEF n
  <2>4. split(k) \in 0..n
    BY <1>1, <2>2, <2>3
  <2>5. begin[k] = SkipBlanks(text, split(k))
    BY <1>3, <2>1
  <2>6. /\ SkipBlanks(text, split(k)) \in split(k)..n
        /\ \A j \in (split(k) + 1)..SkipBlanks(text, split(k)) : IsBlank(text[j])
    BY <2>4, SkipBlanksIs DEF n
  <2> HIDE DEF split
  <2> QED
    BY <1>1, <2>1, <2>2, <2>3, <2>4, <2>5, <2>6
<1> HIDE DEF split
<1>7. ASSUME NEW k \in 1..last
      PROVE  /\ messages[k] = SubSeq(text, begin[k - 1] + 1, split(k))
             /\ Len(messages[k]) = split(k) - begin[k - 1] /\ end(k) = split(k)
  <2>1. messages[k] = SubSeq(text, begin[k - 1] + 1, split(k))
    BY <1>2
  <2>2. begin[k - 1] \in Nat /\ split(k) \in Nat /\ begin[k - 1] <= split(k) /\ split(k) <= Len(text)
    BY <1>1, <1>6 DEF n
  <2>3. Len(SubSeq(text, begin[k - 1] + 1, split(k))) = split(k) - begin[k - 1]
    BY <2>2, SubSeqIs
  <2> QED
    BY <2>1, <2>2, <2>3
<1>8. DOMAIN messages = 1..last /\ last \in Nat
  BY <1>1, <1>2, <1>4
<1>9. ASSUME NEW k \in 1..last
      PROVE  /\ Len(messages[k]) \in 1..limit /\ messages[k] = SubSeq(text, begin[k - 1] + 1, end(k))
             /\ SplitsPair(text, end(k)) => Len(messages[k]) = limit
             /\ end(k) <= begin[k]
  <2>1. /\ split(k) - begin[k - 1] \in 1..limit /\ split(k) <= begin[k]
        /\ SplitsPair(text, split(k)) => split(k) - begin[k - 1] = limit
    BY <1>1, <1>6
  <2> HIDE DEF end
  <2> QED
    BY <1>7, <2>1
<1> HIDE DEF end
<1>10. ASSUME NEW i \in DOMAIN text, ~IsBlank(text[i])
       PROVE  \E k \in DOMAIN messages : begin[k - 1] < i /\ i <= end(k)
  <2>1. i \in 1..n
    BY DEF n
  <2> DEFINE reached == {k \in 0..last : begin[k] >= i}
  <2>2. reached \subseteq Nat /\ last \in reached
    BY <1>4, <1>8, <2>1
  <2>3. PICK k \in reached : \A j \in reached : k <= j
    <3> HIDE DEF reached
    <3> QED
      BY <2>2, LeastExists
  <2>4. k # 0
    <3>1. begin[0] = 0
      BY <1>3 DEF Advancing
    <3> QED
      BY <2>1, <2>3, <3>1
  <2>5. k \in 1..last /\ k - 1 \in 0..last /\ ~ (k <= k - 1)
    BY <1>8, <2>3, <2>4
  <2>6. ~ (begin[k - 1] >= i)
    BY <2>3, <2>5
  <2>7. begin[k - 1] < i
    BY <1>1, <1>6, <2>1, <2>5, <2>6
  <2>8. i <= split(k)
    <3> SUFFICES ASSUME ~ (i <= split(k)) PROVE FALSE
      OBVIOUS
    <3>1. i \in (split(k) + 1)..begin[k]
      BY <1>1, <1>6, <2>1, <2>3, <2>5
    <3> QED
      BY <1>6, <1>10, <2>5, <3>1
  <2> QED
    BY <1>7, <1>8, <2>5, <2>7, <2>8
<1>11. Len(messages) = last
  BY <1>8
<1> QED
  BY <1>8, <1>9, <1>10, <1>11 DEF Complete, messages, begin, end

\* An answer of the renderers and a text both arrive whole, whatever the limit.
LEMMA EveryMessageFaithful ==
  ASSUME TextAssumption, AnswersAssumption
  PROVE  MessagesFaithful
<1> SUFFICES ASSUME NEW limit \in MessageLimits
             PROVE  (\A s \in Answers : Faithful(s, limit)) /\ (\A t \in Texts : Complete(t, limit))
  BY DEF MessagesFaithful
<1>1. limit \in Nat \ {0, 1}
  BY TextAssumption DEF TextAssumption
<1>2. ASSUME NEW s \in Answers PROVE Faithful(s, limit)
  <2>1. Rendered(s)
    BY AnswersAssumption DEF AnswersAssumption
  <2> QED
    BY <1>1, <2>1, RenderedArrives
<1>3. ASSUME NEW t \in Texts PROVE Complete(t, limit)
  <2>1. t \in Seq(Chars) /\ t # <<>>
    BY TextAssumption DEF TextAssumption
  <2> QED
    BY <1>1, <2>1, TextArrives
<1> QED
  BY <1>2, <1>3

--------------------------------------------------------------------------------
\* Each renderer makes segments that are Rendered from such segments.

\* The entity formats the i-th character.
Shown(e, i) == e.offset < i /\ i <= End(e)

\* The fields of an entity.
LEMMA EntityIs ==
  ASSUME NEW e \in Entities
  PROVE  e.type \in Types /\ e.offset \in Nat /\ e.length \in Nat /\ End(e) \in Nat
BY DEF Entities, End

\* An entity made of its fields.
LEMMA EntityMade ==
  ASSUME NEW type \in Types, NEW offset \in Nat, NEW length \in Nat
  PROVE  LET e == Entity(type, offset, length) IN
         e \in Entities /\ e.type = type /\ e.offset = offset /\ e.length = length /\ End(e) = offset + length
BY DEF Entity, Entities, End

\* What makes a segment Rendered, in terms of its parts.
LEMMA IsRendered ==
  ASSUME NEW text \in Seq(Chars), NEW entities \in SUBSET Entities, IsFiniteSet(entities),
         NEW formats \in [1..Len(text) -> SUBSET Types], NEW within \in [1..Len(text) -> SUBSET Constructs],
         \A i \in 1..Len(text) : Shows(formats[i], within[i]),
         \A e, f \in entities :
           /\ e.length > 0 /\ End(e) <= Len(text)
           /\ Overlaps(e, f) => Covers(e, f) \/ Covers(f, e)
           /\ e # f /\ Overlaps(e, f) => ~IsCode(e.type),
         \A i \in 1..Len(text), type \in Types : type \in formats[i] <=> \E e \in entities : e.type = type /\ Shown(e, i)
  PROVE  Rendered(Segment(text, entities, formats, within))
<1> DEFINE s == Segment(text, entities, formats, within)
<1>1. s.text = text /\ s.entities = entities /\ s.formats = formats /\ s.within = within
  BY DEF Segment
<1>2. Len(text) \in Nat /\ DOMAIN text = 1..Len(text)
  OBVIOUS
<1>3. formats \in Seq(SUBSET Types) /\ within \in Seq(SUBSET Constructs) /\ Len(within) = Len(text)
  BY <1>2, SequenceOf
<1>4. s \in Segments
  BY <1>3 DEF Segment, Segments
<1> HIDE DEF s
<1>5. Acceptable(s)
  BY <1>1 DEF Acceptable
<1>6. ASSUME NEW i \in 1..Len(text)
      PROVE  formats[i] = {e.type : e \in {f \in entities : f.offset < i /\ i <= End(f)}}
  <2>1. formats[i] \subseteq Types
    OBVIOUS
  <2>2. {e.type : e \in {f \in entities : f.offset < i /\ i <= End(f)}} \subseteq Types
    BY EntityIs
  <2>3. \A type \in Types : type \in {e.type : e \in {f \in entities : f.offset < i /\ i <= End(f)}}
                            <=> \E e \in entities : e.type = type /\ Shown(e, i)
    BY DEF Shown
  <2> QED
    BY <2>1, <2>2, <2>3
<1>7. FormatsOf(s) = [i \in 1..Len(text) |-> {e.type : e \in {f \in entities : f.offset < i /\ i <= End(f)}}]
  BY <1>1, <1>2 DEF FormatsOf
<1>8. formats = FormatsOf(s)
  BY <1>6, <1>7
<1> QED
  BY <1>1, <1>2, <1>3, <1>4, <1>5, <1>8 DEF Rendered, s

\* The other way round.
LEMMA RenderedShows ==
  ASSUME NEW s, Rendered(s)
  PROVE  /\ s.formats \in [1..Len(s.text) -> SUBSET Types]
         /\ \A e, f \in s.entities :
              /\ e.length > 0 /\ End(e) <= Len(s.text)
              /\ Overlaps(e, f) => Covers(e, f) \/ Covers(f, e)
              /\ e # f /\ Overlaps(e, f) => ~IsCode(e.type)
         /\ \A i \in 1..Len(s.text), type \in Types :
              type \in s.formats[i] <=> \E e \in s.entities : e.type = type /\ Shown(e, i)
         /\ s.within \in [1..Len(s.text) -> SUBSET Constructs]
         /\ \A i \in 1..Len(s.text) : Shows(s.formats[i], s.within[i])
<1>1. s.formats \in Seq(SUBSET Types) /\ Len(s.formats) = Len(s.text) /\ DOMAIN s.text = 1..Len(s.text)
  BY RenderedIs
<1>2. s.formats \in [1..Len(s.text) -> SUBSET Types]
  BY <1>1
<1>2a. /\ s.within \in [1..Len(s.text) -> SUBSET Constructs]
       /\ \A i \in 1..Len(s.text) : Shows(s.formats[i], s.within[i])
  <2>1. s.within \in Seq(SUBSET Constructs) /\ Len(s.within) = Len(s.text)
    BY RenderedIs
  <2>2. s.within \in [1..Len(s.text) -> SUBSET Constructs]
    BY <2>1
  <2> QED
    BY <2>2, RenderedIs
<1>3. ASSUME NEW i \in 1..Len(s.text), NEW type \in Types
      PROVE  type \in s.formats[i] <=> \E e \in s.entities : e.type = type /\ Shown(e, i)
  <2>1. s.formats[i] = {e.type : e \in {f \in s.entities : f.offset < i /\ i <= End(f)}}
    BY <1>1 DEF Rendered, FormatsOf
  <2> QED
    BY <2>1 DEF Shown
<1> QED
  BY <1>2, <1>2a, <1>3 DEF Rendered, Acceptable

\* The same set for every unit of a text.
LEMMA EachIs ==
  ASSUME NEW X, NEW text \in Seq(X), NEW T, NEW set \in SUBSET T
  PROVE  Each(text, set) \in [1..Len(text) -> SUBSET T] /\ \A i \in 1..Len(text) : Each(text, set)[i] = set
BY DEF Each

\* How the units look that the renderers begin with: text, and text of one construct.
LEMMA ShowsAtFirst == Shows({}, {}) /\ \A type \in Types : Shows({type}, {type})
BY DEF Shows, Types

\* Quotes and tables show their text alone.
LEMMA ShowsText ==
  ASSUME NEW within, within \cap {"quote", "table"} # {}
  PROVE  Shows({}, within)
BY DEF Shows

\* Emphasis adds its format, but not to code.
LEMMA ShowsEmphasis ==
  ASSUME NEW formats, NEW within, Shows(formats, within), NEW type \in {"bold", "italic", "strikethrough"}
  PROVE  Shows(IF \E c \in formats : IsCode(c) THEN formats ELSE formats \cup {type}, within \cup {type})
BY DEF Shows, IsCode, Types

\* A link shows its code as text; one with an address adds its format.
LEMMA ShowsLink ==
  ASSUME NEW formats, NEW within, Shows(formats, within)
  PROVE  /\ Shows({c \in formats : ~IsCode(c)}, within \cup {"empty_link"})
         /\ Shows({c \in formats : ~IsCode(c)} \cup {"text_link"}, within \cup {"text_link"})
BY DEF Shows, IsCode, Types

\* Text without entities is rendered.
LEMMA PlainRendered ==
  ASSUME NEW text \in Seq(Chars)
  PROVE  Rendered(Plain(text))
<1>1. /\ Each(text, {}) \in [1..Len(text) -> SUBSET Types] /\ Each(text, {}) \in [1..Len(text) -> SUBSET Constructs]
      /\ \A i \in 1..Len(text) : Each(text, {})[i] = {}
  BY EachIs
<1>2. IsFiniteSet({})
  BY FS_EmptySet
<1> QED
  BY <1>1, <1>2, ShowsAtFirst, IsRendered DEF Plain

\* So is the segment without a text.
LEMMA NoTextRendered == Rendered(NoText) /\ NoText.text = <<>>
<1>1. <<>> \in Seq(Chars)
  OBVIOUS
<1> QED
  BY <1>1, PlainRendered DEF NoText, Plain, Segment

\* A text of one format.
LEMMA WholeRendered ==
  ASSUME NEW text \in Seq(Chars), Len(text) # 0, NEW type \in Types
  PROVE  Rendered(Segment(text, {Entity(type, 0, Len(text))}, Each(text, {type}), Each(text, {type})))
<1>1. Len(text) \in Nat
  OBVIOUS
<1> SUFFICES ASSUME NEW n \in Nat, n = Len(text), NEW e, e = Entity(type, 0, n)
             PROVE  Rendered(Segment(text, {e}, Each(text, {type}), Each(text, {type})))
  BY <1>1
<1>2. e \in Entities /\ e.type = type /\ e.offset = 0 /\ e.length = n /\ End(e) = n
  BY DEF Entity, Entities, End
<1>3. /\ Each(text, {type}) \in [1..n -> SUBSET Types] /\ Each(text, {type}) \in [1..n -> SUBSET Constructs]
      /\ \A i \in 1..n : Each(text, {type})[i] = {type}
  <2>1. {type} \in SUBSET Types /\ {type} \in SUBSET Constructs
    BY DEF Constructs
  <2> QED
    BY <2>1, EachIs
<1>3a. \A i \in 1..n : Shows(Each(text, {type})[i], Each(text, {type})[i])
  BY <1>3, ShowsAtFirst
<1>4. IsFiniteSet({e})
  BY FS_Singleton
<1>5. \A i \in 1..n : Shown(e, i)
  BY <1>2 DEF Shown
<1>6. e.length > 0 /\ End(e) <= n /\ Covers(e, e)
  BY <1>2 DEF Covers
<1>7. \A i \in 1..n, t \in Types : t \in Each(text, {type})[i] <=> \E f \in {e} : f.type = t /\ Shown(f, i)
  <2> TAKE i \in 1..n, t \in Types
  <2>1. Each(text, {type})[i] = {type} /\ Shown(e, i)
    BY <1>3, <1>5
  <2> QED
    BY <1>2, <2>1
<1>8. {e} \in SUBSET Entities
  BY <1>2
<1> QED
  BY <1>3, <1>3a, <1>4, <1>6, <1>7, <1>8, IsRendered

\* Entities that move with their text.
Moved(e, n) == [e EXCEPT !.offset = e.offset + n]

\* Shift moves each entity.
LEMMA ShiftIs ==
  ASSUME NEW entities \in SUBSET Entities, IsFiniteSet(entities), NEW n \in Nat
  PROVE  /\ Shift(entities, n) \in SUBSET Entities /\ IsFiniteSet(Shift(entities, n))
         /\ \A c : c \in Shift(entities, n) <=> \E e \in entities : c = Moved(e, n)
         /\ \A e \in entities : /\ Moved(e, n).type = e.type /\ Moved(e, n).offset = e.offset + n
                                /\ Moved(e, n).length = e.length /\ End(Moved(e, n)) = End(e) + n
<1> DEFINE moved(e) == Moved(e, n)
           f == [e \in entities |-> moved(e)]
<1>1. \A e \in entities : /\ moved(e) \in Entities /\ moved(e).type = e.type
                          /\ moved(e).offset = e.offset + n /\ moved(e).length = e.length
  BY DEF Entities, Moved
<1>2. \A e \in entities : End(moved(e)) = End(e) + n
  <2> TAKE e \in entities
  <2>1. e.offset \in Nat /\ e.length \in Nat
    BY EntityIs
  <2>2. moved(e).offset = e.offset + n /\ moved(e).length = e.length
    BY <1>1
  <2> HIDE DEF moved
  <2> QED
    BY <2>1, <2>2 DEF End
<1>3. \A c : c \in Shift(entities, n) <=> \E e \in entities : c = moved(e)
  BY DEF Shift, Moved
<1>4. f \in Surjection(entities, Shift(entities, n))
  <2> HIDE DEF moved
  <2>1. f \in [entities -> Shift(entities, n)]
    BY <1>3
  <2>2. \A c \in Shift(entities, n) : \E e \in entities : f[e] = c
    BY <1>3
  <2> QED
    BY <2>1, <2>2 DEF Surjection
<1>5. IsFiniteSet(Shift(entities, n))
  BY <1>4, FS_Surjection
<1>6. Shift(entities, n) \in SUBSET Entities
  BY <1>1, <1>3
<1> QED
  BY <1>1, <1>2, <1>3, <1>5, <1>6

--------------------------------------------------------------------------------
\* joinSegments and prependSegment.

\* Three sequences, one after the other.
LEMMA ThreeJoined ==
  ASSUME NEW X, NEW x \in Seq(X), NEW y \in Seq(X), NEW z \in Seq(X)
  PROVE  LET t == x \o y \o z
             start == Len(x) + Len(y)
         IN /\ t \in Seq(X) /\ Len(t) = start + Len(z)
            /\ \A i \in 1..Len(x) : t[i] = x[i]
            /\ \A i \in (Len(x) + 1)..start : t[i] = y[i - Len(x)]
            /\ \A i \in (start + 1)..(start + Len(z)) : t[i] = z[i - start]
<1> DEFINE u == x \o y
           start == Len(x) + Len(y)
           t == u \o z
<1>1. Len(x) \in Nat /\ Len(y) \in Nat /\ Len(z) \in Nat
  OBVIOUS
<1>2. /\ u \in Seq(X) /\ Len(u) = start
      /\ \A i \in 1..start : u[i] = IF i <= Len(x) THEN x[i] ELSE y[i - Len(x)]
  BY ConcatProperties
<1>2a. start \in Nat
  BY <1>1
<1> HIDE DEF u, start
<1>3. /\ t \in Seq(X) /\ Len(t) = start + Len(z)
      /\ \A i \in 1..(start + Len(z)) : t[i] = IF i <= start THEN u[i] ELSE z[i - start]
  BY <1>2, ConcatProperties
<1> HIDE DEF t
<1>4. \A i \in 1..Len(x) : t[i] = x[i]
  <2> TAKE i \in 1..Len(x)
  <2>1. i \in 1..start /\ i \in 1..(start + Len(z)) /\ i <= start /\ i <= Len(x)
    BY <1>1 DEF start
  <2> QED
    BY <1>2, <1>3, <2>1
<1>5. \A i \in (Len(x) + 1)..start : t[i] = y[i - Len(x)]
  <2> TAKE i \in (Len(x) + 1)..start
  <2>1. i \in 1..start /\ i \in 1..(start + Len(z)) /\ i <= start /\ ~ (i <= Len(x))
    BY <1>1 DEF start
  <2> QED
    BY <1>2, <1>3, <2>1
<1>6. \A i \in (start + 1)..(start + Len(z)) : t[i] = z[i - start]
  <2> TAKE i \in (start + 1)..(start + Len(z))
  <2>1. i \in 1..(start + Len(z)) /\ ~ (i <= start)
    BY <1>1, <1>2a
  <2> QED
    BY <1>3, <2>1
<1> QED
  BY <1>3, <1>4, <1>5, <1>6 DEF t, u, start

\* What the units of two texts look like, or stand in, with a gap between them.
LEMMA GapBetween ==
  ASSUME NEW P, {} \in P, NEW x \in Seq(P), NEW z \in Seq(P), NEW gap \in Seq(Chars)
  PROVE  LET t == x \o Each(gap, {}) \o z
             start == Len(x) + Len(gap)
         IN /\ t \in [1..(start + Len(z)) -> P]
            /\ \A i \in 1..Len(x) : t[i] = x[i]
            /\ \A i \in (Len(x) + 1)..start : t[i] = {}
            /\ \A i \in (start + 1)..(start + Len(z)) : t[i] = z[i - start]
<1> DEFINE y == Each(gap, {})
           t == x \o y \o z
           p == Len(x)
           g == Len(gap)
           start == p + g
           n == start + Len(z)
<1>1. p \in Nat /\ g \in Nat /\ Len(z) \in Nat
  OBVIOUS
<1>2. y \in Seq(P) /\ Len(y) = g /\ \A i \in 1..g : y[i] = {}
  <2>1. y \in [1..g -> P] /\ \A i \in 1..g : y[i] = {}
    BY DEF Each
  <2> HIDE DEF y
  <2> QED
    BY <1>1, <2>1, SequenceOf
<1> HIDE DEF y
<1>3. /\ t \in Seq(P) /\ Len(t) = (Len(x) + Len(y)) + Len(z)
      /\ \A i \in 1..Len(x) : t[i] = x[i]
      /\ \A i \in (Len(x) + 1)..(Len(x) + Len(y)) : t[i] = y[i - Len(x)]
      /\ \A i \in ((Len(x) + Len(y)) + 1)..((Len(x) + Len(y)) + Len(z)) : t[i] = z[i - (Len(x) + Len(y))]
  <2>1. t = x \o y \o z /\ x \in Seq(P) /\ y \in Seq(P) /\ z \in Seq(P)
    BY <1>2
  <2> HIDE DEF t
  <2> QED
    BY <2>1, ThreeJoined
<1> HIDE DEF t
<1>4. /\ t \in Seq(P) /\ Len(t) = n /\ \A i \in 1..p : t[i] = x[i]
      /\ \A i \in (p + 1)..start : t[i] = y[i - p]
      /\ \A i \in (start + 1)..n : t[i] = z[i - start]
  <2>1. Len(x) = p /\ Len(x) + Len(y) = start /\ (Len(x) + Len(y)) + Len(z) = n
    BY <1>2
  <2> HIDE DEF p, start, n
  <2> QED
    BY <1>3, <2>1
<1>4a. start = p + g
  OBVIOUS
<1> HIDE DEF p, g, start, n
<1>5. \A i \in (p + 1)..start : t[i] = {}
  <2> TAKE i \in (p + 1)..start
  <2>1. i - p \in 1..g
    BY <1>1, <1>4a
  <2> QED
    BY <1>2, <1>4, <2>1
<1>6. t \in [1..n -> P]
  BY <1>4, SequenceIs
<1> QED
  BY <1>4, <1>5, <1>6 DEF t, y, p, g, start, n

\* One turn of joinSegments: a separator and a rendered segment after a rendered segment.
LEMMA BesideRendered ==
  ASSUME NEW all, Rendered(all), NEW s, Rendered(s), NEW separator \in Seq(Chars)
  PROVE  Rendered(Beside(all, s, separator))
<1> DEFINE gap == IF Len(all.text) = 0 THEN <<>> ELSE separator
           p == Len(all.text)
           g == Len(gap)
           q == Len(s.text)
           start == p + g
           n == start + q
           text == all.text \o gap \o s.text
           entities == all.entities \cup Shift(s.entities, start)
           formats == all.formats \o Each(gap, {}) \o s.formats
           within == all.within \o Each(gap, {}) \o s.within
<1>1. SUFFICES ASSUME Len(s.text) # 0 PROVE Rendered(Segment(text, entities, formats, within))
  BY DEF Beside
<1>2. /\ all.text \in Seq(Chars) /\ p \in Nat /\ all.entities \in SUBSET Entities /\ IsFiniteSet(all.entities)
      /\ all.formats \in Seq(SUBSET Types) /\ Len(all.formats) = p
      /\ all.within \in Seq(SUBSET Constructs) /\ Len(all.within) = p
  BY RenderedIs
<1>3. /\ s.text \in Seq(Chars) /\ q \in Nat /\ s.entities \in SUBSET Entities /\ IsFiniteSet(s.entities)
      /\ s.formats \in Seq(SUBSET Types) /\ Len(s.formats) = q
      /\ s.within \in Seq(SUBSET Constructs) /\ Len(s.within) = q
  BY RenderedIs
<1>4. gap \in Seq(Chars) /\ g \in Nat
  <2>1. gap \in Seq(Chars)
    OBVIOUS
  <2> HIDE DEF gap
  <2> QED
    BY <2>1 DEF g
<1> HIDE DEF gap
<1>4a. p \in Nat /\ q \in Nat /\ g \in Nat
  BY <1>2, <1>3, <1>4
<1>5. /\ start \in Nat /\ p <= start /\ n \in Nat /\ start <= n
      /\ start = p + g /\ n = start + q
  <2> HIDE DEF p, g, q
  <2> QED
    BY <1>4a
<1>6. text \in Seq(Chars) /\ Len(text) = n
  BY <1>2, <1>3, <1>4, ThreeJoined
<1>6a. p = Len(all.text) /\ q = Len(s.text) /\ g = Len(gap)
  OBVIOUS
<1> HIDE DEF p, g, q, start, n
<1>7. /\ formats \in [1..n -> SUBSET Types]
      /\ \A i \in 1..p : formats[i] = all.formats[i]
      /\ \A i \in (p + 1)..start : formats[i] = {}
      /\ \A i \in (start + 1)..n : formats[i] = s.formats[i - start]
  <2> DEFINE P == SUBSET Types
             x == all.formats
             z == s.formats
  <2>1. {} \in P /\ x \in Seq(P) /\ z \in Seq(P)
    BY <1>2, <1>3
  <2>2. p = Len(x) /\ start = p + Len(gap) /\ n = start + Len(z)
    BY <1>2, <1>3, <1>5, <1>6a
  <2>3. formats = x \o Each(gap, {}) \o z
    OBVIOUS
  <2> HIDE DEF P, x, z, formats
  <2>4. gap \in Seq(Chars)
    BY <1>4
  <2>5. LET t == x \o Each(gap, {}) \o z
            begin == Len(x) + Len(gap)
        IN /\ t \in [1..(begin + Len(z)) -> P]
           /\ \A i \in 1..Len(x) : t[i] = x[i]
           /\ \A i \in (Len(x) + 1)..begin : t[i] = {}
           /\ \A i \in (begin + 1)..(begin + Len(z)) : t[i] = z[i - begin]
    BY <2>1, <2>4, GapBetween
  <2>6. Len(x) = p /\ Len(x) + Len(gap) = start /\ (Len(x) + Len(gap)) + Len(z) = n
    BY <2>2
  <2>7. /\ formats \in [1..n -> P]
        /\ \A i \in 1..p : formats[i] = x[i]
        /\ \A i \in (p + 1)..start : formats[i] = {}
        /\ \A i \in (start + 1)..n : formats[i] = z[i - start]
    BY <2>3, <2>5, <2>6
  <2> QED
    BY <2>7 DEF P, x, z
<1>8. /\ within \in [1..n -> SUBSET Constructs]
      /\ \A i \in 1..p : within[i] = all.within[i]
      /\ \A i \in (p + 1)..start : within[i] = {}
      /\ \A i \in (start + 1)..n : within[i] = s.within[i - start]
  <2> DEFINE P == SUBSET Constructs
             x == all.within
             z == s.within
  <2>1. {} \in P /\ x \in Seq(P) /\ z \in Seq(P)
    BY <1>2, <1>3
  <2>2. p = Len(x) /\ start = p + Len(gap) /\ n = start + Len(z)
    BY <1>2, <1>3, <1>5, <1>6a
  <2>3. within = x \o Each(gap, {}) \o z
    OBVIOUS
  <2> HIDE DEF P, x, z, within
  <2>4. gap \in Seq(Chars)
    BY <1>4
  <2>5. LET t == x \o Each(gap, {}) \o z
            begin == Len(x) + Len(gap)
        IN /\ t \in [1..(begin + Len(z)) -> P]
           /\ \A i \in 1..Len(x) : t[i] = x[i]
           /\ \A i \in (Len(x) + 1)..begin : t[i] = {}
           /\ \A i \in (begin + 1)..(begin + Len(z)) : t[i] = z[i - begin]
    BY <2>1, <2>4, GapBetween
  <2>6. Len(x) = p /\ Len(x) + Len(gap) = start /\ (Len(x) + Len(gap)) + Len(z) = n
    BY <2>2
  <2>7. /\ within \in [1..n -> P]
        /\ \A i \in 1..p : within[i] = x[i]
        /\ \A i \in (p + 1)..start : within[i] = {}
        /\ \A i \in (start + 1)..n : within[i] = z[i - start]
    BY <2>3, <2>5, <2>6
  <2> QED
    BY <2>7 DEF P, x, z
<1>9. \A i \in 1..n : Shows(formats[i], within[i])
  <2>1. /\ \A i \in 1..p : Shows(all.formats[i], all.within[i])
        /\ \A i \in 1..q : Shows(s.formats[i], s.within[i])
    BY <1>6a, RenderedIs
  <2> HIDE DEF formats, within
  <2> TAKE i \in 1..n
  <2>2. CASE i <= p
    <3>1. i \in 1..p
      BY <1>4a, <1>5, <2>2
    <3> QED
      BY <1>7, <1>8, <2>1, <3>1
  <2>3. CASE i > p /\ i <= start
    <3>1. i \in (p + 1)..start
      BY <1>4a, <1>5, <2>3
    <3> QED
      BY <1>7, <1>8, <3>1, ShowsAtFirst
  <2>4. CASE i > start
    <3>1. i \in (start + 1)..n /\ i - start \in 1..q
      BY <1>4a, <1>5, <2>4
    <3> QED
      BY <1>7, <1>8, <2>1, <3>1
  <2> QED
    BY <1>4a, <1>5, <2>2, <2>3, <2>4
<1> HIDE DEF within
<1> DEFINE moved(e) == Moved(e, start)
           shifted == Shift(s.entities, start)
<1>10. /\ shifted \in SUBSET Entities /\ IsFiniteSet(shifted)
       /\ \A c : c \in shifted <=> \E e \in s.entities : c = moved(e)
       /\ \A e \in s.entities : moved(e).type = e.type /\ moved(e).offset = e.offset + start
                                /\ moved(e).length = e.length /\ End(moved(e)) = End(e) + start
  BY <1>3, <1>5, ShiftIs
<1>11. entities \in SUBSET Entities /\ IsFiniteSet(entities)
  <2> HIDE DEF shifted
  <2> QED
    BY <1>2, <1>10, FS_Union DEF shifted
<1>12. \A e, f \in all.entities :
         /\ e.length > 0 /\ End(e) <= p
         /\ Overlaps(e, f) => Covers(e, f) \/ Covers(f, e)
         /\ e # f /\ Overlaps(e, f) => ~IsCode(e.type)
  BY <1>6a, RenderedShows
<1>13. \A e, f \in s.entities :
         /\ e.length > 0 /\ End(e) <= q
         /\ Overlaps(e, f) => Covers(e, f) \/ Covers(f, e)
         /\ e # f /\ Overlaps(e, f) => ~IsCode(e.type)
  BY <1>6a, RenderedShows
<1>14. /\ \A e \in all.entities : e.offset \in Nat /\ End(e) \in Nat
       /\ \A e \in s.entities : e.offset \in Nat /\ End(e) \in Nat
  BY <1>2, <1>3, EntityIs
<1> HIDE DEF moved, shifted
<1>15. \A e, f \in s.entities : /\ Overlaps(moved(e), moved(f)) => Overlaps(e, f)
                                /\ Covers(e, f) => Covers(moved(e), moved(f))
  <2> TAKE e, f \in s.entities
  <2>1. e.offset \in Nat /\ End(e) \in Nat /\ f.offset \in Nat /\ End(f) \in Nat /\ start \in Nat
    BY <1>5, <1>14
  <2>2. /\ moved(e).offset = e.offset + start /\ End(moved(e)) = End(e) + start
        /\ moved(f).offset = f.offset + start /\ End(moved(f)) = End(f) + start
    BY <1>10
  <2>3. (moved(e).offset < End(moved(f)) => e.offset < End(f)) /\ (moved(f).offset < End(moved(e)) => f.offset < End(e))
    BY <2>1, <2>2
  <2>4. (e.offset <= f.offset => moved(e).offset <= moved(f).offset) /\ (End(f) <= End(e) => End(moved(f)) <= End(moved(e)))
    BY <2>1, <2>2
  <2> QED
    BY <2>3, <2>4 DEF Overlaps, Covers
<1>16. \A e \in all.entities, f \in s.entities : ~Overlaps(e, moved(f)) /\ ~Overlaps(moved(f), e)
  <2> TAKE e \in all.entities, f \in s.entities
  <2>1. End(e) <= start /\ moved(f).offset >= start /\ moved(f).offset \in Nat /\ End(e) \in Nat
    <3>1. End(e) \in Nat /\ End(e) <= p /\ f.offset \in Nat /\ moved(f).offset = f.offset + start
      BY <1>10, <1>12, <1>14
    <3> QED
      BY <1>4a, <1>5, <3>1
  <2> QED
    BY <1>5, <2>1 DEF Overlaps
<1>17. ASSUME NEW c \in entities, NEW d \in entities
       PROVE  /\ c.length > 0 /\ End(c) <= n
              /\ Overlaps(c, d) => Covers(c, d) \/ Covers(d, c)
              /\ c # d /\ Overlaps(c, d) => ~IsCode(c.type)
  <2>1. CASE c \in all.entities /\ d \in all.entities
    <3>1. End(c) \in Nat /\ End(c) <= p
      BY <1>12, <1>14, <2>1
    <3>2. End(c) <= n
      BY <1>4a, <1>5, <3>1
    <3> QED
      BY <1>12, <2>1, <3>2
  <2>2. CASE c \in all.entities /\ d \in shifted
    <3>1. End(c) \in Nat /\ End(c) <= p
      BY <1>12, <1>14, <2>2
    <3>2. End(c) <= n
      BY <1>4a, <1>5, <3>1
    <3> QED
      BY <1>10, <1>12, <1>16, <2>2, <3>2
  <2>3. CASE c \in shifted
    <3>1. PICK e \in s.entities : c = moved(e)
      BY <1>10, <2>3
    <3>2. End(c) = End(e) + start /\ End(e) \in Nat /\ End(e) <= q /\ c.length > 0 /\ c.type = e.type
      BY <1>10, <1>13, <1>14, <3>1
    <3>3. End(c) <= n
      BY <1>3, <1>5, <3>2
    <3>4. CASE d \in all.entities
      BY <1>16, <3>1, <3>2, <3>3, <3>4
    <3>5. CASE d \in shifted
      <4>1. PICK f \in s.entities : d = moved(f)
        BY <1>10, <3>5
      <4> QED
        BY <1>13, <1>15, <3>1, <3>2, <3>3, <4>1
    <3> QED
      BY <3>4, <3>5 DEF shifted
  <2> QED
    BY <2>1, <2>2, <2>3 DEF shifted
<1>18. ASSUME NEW i \in 1..n, NEW type \in Types
       PROVE  type \in formats[i] <=> \E c \in entities : c.type = type /\ Shown(c, i)
  <2>1. (\E c \in entities : c.type = type /\ Shown(c, i)) <=>
          \/ \E e \in all.entities : e.type = type /\ Shown(e, i)
          \/ \E e \in s.entities : e.type = type /\ Shown(moved(e), i)
    <3> HIDE DEF entities
    <3>1. \A c : c \in entities <=> c \in all.entities \/ \E e \in s.entities : c = moved(e)
      BY <1>10 DEF entities, shifted
    <3> QED
      BY <1>10, <3>1
  <2>2. \A e \in all.entities : Shown(e, i) => i <= p
    BY <1>2, <1>5, <1>12, <1>14 DEF Shown
  <2>3. \A e \in s.entities : Shown(moved(e), i) <=> i > start /\ Shown(e, i - start)
    <3> TAKE e \in s.entities
    <3>1. e.offset \in Nat /\ End(e) \in Nat /\ moved(e).offset = e.offset + start /\ End(moved(e)) = End(e) + start
      BY <1>10, <1>14
    <3> QED
      BY <1>5, <3>1 DEF Shown
  <2> HIDE DEF formats, entities
  <2>4. CASE i <= p
    <3>1. i \in 1..p /\ ~ (i > start)
      BY <1>4a, <1>5, <2>4
    <3>2. type \in all.formats[i] <=> \E e \in all.entities : e.type = type /\ Shown(e, i)
      BY <1>6a, <3>1, RenderedShows
    <3> QED
      BY <1>7, <2>1, <2>3, <3>1, <3>2
  <2>5. CASE i > p /\ i <= start
    <3>1. i \in (p + 1)..start /\ ~ (i > start) /\ ~ (i <= p)
      BY <1>4a, <1>5, <2>5
    <3> QED
      BY <1>7, <2>1, <2>2, <2>3, <3>1
  <2>6. CASE i > start
    <3>1. i \in (start + 1)..n /\ ~ (i <= p) /\ i - start \in 1..q
      BY <1>4a, <1>5, <2>6
    <3>2. type \in s.formats[i - start] <=> \E e \in s.entities : e.type = type /\ Shown(e, i - start)
      BY <1>6a, <3>1, RenderedShows
    <3> QED
      BY <1>7, <2>1, <2>2, <2>3, <2>6, <3>1, <3>2
  <2> QED
    BY <1>4a, <1>5, <2>4, <2>5, <2>6
<1> HIDE DEF text, entities, formats
<1> QED
  BY <1>6, <1>7, <1>8, <1>9, <1>11, <1>17, <1>18, IsRendered

\* The segments that are Rendered, as a set.
Built == {s \in Segments : Rendered(s)}

\* Membership of Built is being Rendered.
LEMMA BuiltIs == \A s : s \in Built <=> Rendered(s)
BY DEF Built, Rendered

\* prependSegment moves the entities along with the text.
LEMMA PrependRendered ==
  ASSUME NEW prefix \in Seq(Chars), Len(prefix) # 0, NEW s, Rendered(s), Len(s.text) # 0
  PROVE  Rendered(Prepend(prefix, s))
<1> DEFINE all == Plain(prefix)
           none == Each(<<>>, {})
<1>1. /\ Rendered(all) /\ all.text = prefix /\ all.entities = {}
      /\ all.formats = Each(prefix, {}) /\ all.within = Each(prefix, {})
  BY PlainRendered DEF Plain, Segment
<1>2. <<>> \in Seq(Chars) /\ Len(<<>>) = 0
  OBVIOUS
<1>3. Rendered(Beside(all, s, <<>>))
  BY <1>1, <1>2, BesideRendered
<1>4. prefix \o <<>> = prefix
  BY ConcatEmptySeq
<1>5. Each(prefix, {}) \o none = Each(prefix, {})
  <2>1. Each(prefix, {}) \in [1..Len(prefix) -> SUBSET Types] /\ Len(prefix) \in Nat
    BY EachIs
  <2>2. Each(prefix, {}) \in Seq(SUBSET Types)
    BY <2>1, SequenceOf
  <2>3. none = <<>>
    BY DEF Each
  <2> QED
    BY <2>2, <2>3, ConcatEmptySeq
<1>6. Len(prefix) \in Nat /\ Len(prefix) + 0 = Len(prefix)
  OBVIOUS
<1> HIDE DEF all, none
<1>7. Beside(all, s, <<>>) = Segment(prefix \o <<>> \o s.text,
                                     all.entities \cup Shift(s.entities, Len(prefix) + 0),
                                     all.formats \o none \o s.formats,
                                     all.within \o none \o s.within)
  BY <1>1, <1>2 DEF Beside, none
<1>8. Beside(all, s, <<>>) = Prepend(prefix, s)
  BY <1>1, <1>4, <1>5, <1>6, <1>7 DEF Prepend
<1> QED
  BY <1>3, <1>8

\* joinSegments makes a rendered segment of rendered ones.
LEMMA JoinedRendered ==
  ASSUME NEW segments \in Seq(Built), NEW separator \in Seq(Chars)
  PROVE  Rendered(Joined(segments, separator))
<1> DEFINE n == Len(segments)
           step == [p \in Built \X (1..n) |-> Beside(p[1], segments[p[2]], separator)]
           Goal(f) == f = [k \in 0..n |-> IF k = 0 THEN NoText ELSE Beside(f[k - 1], segments[k], separator)]
           joined == CHOOSE f : Goal(f)
<1>1. n \in Nat /\ \A k \in 1..n : segments[k] \in Built
  OBVIOUS
<1>2. \A v \in Built, k \in 1..n : step[<<v, k>>] = Beside(v, segments[k], separator)
  <2> TAKE v \in Built, k \in 1..n
  <2>1. <<v, k>> \in Built \X (1..n)
    OBVIOUS
  <2> QED
    BY <2>1
<1>3. Joined(segments, separator) = Normalized(joined[n])
  BY DEF Joined
<1> HIDE DEF step
<1>4. \A v \in Built, k \in 1..n : Beside(v, segments[k], separator) \in Built
  <2> TAKE v \in Built, k \in 1..n
  <2>1. Rendered(v) /\ Rendered(segments[k])
    BY <1>1, BuiltIs
  <2>2. Rendered(Beside(v, segments[k], separator))
    BY <2>1, BesideRendered
  <2> QED
    BY <2>2, BuiltIs
<1>5. NoText \in Built
  BY NoTextRendered, BuiltIs
<1> HIDE DEF n
<1>6. PICK f : Goes(f, n, NoText, step)
  BY <1>1, RecursionExists
<1>7. Follows(f, Built, n, NoText, step)
  <2>1. Starts(Built, n, NoText, step)
    BY <1>1, <1>2, <1>4, <1>5 DEF Starts, Steps
  <2> QED
    BY <1>6, <2>1, RecursionIs
<1>8. Goal(f)
  <2>1. \A k \in 0..n : f[k] = IF k = 0 THEN NoText ELSE Beside(f[k - 1], segments[k], separator)
    <3> TAKE k \in 0..n
    <3>1. CASE k = 0
      BY <1>7, <3>1 DEF Follows
    <3>2. CASE k # 0
      <4>1. k \in 1..n /\ k - 1 \in 0..n
        BY <1>1, <3>2
      <4>2. f[k] = step[<<f[k - 1], k>>] /\ f[k - 1] \in Built
        BY <1>7, <4>1 DEF Follows
      <4>3. f[k] = Beside(f[k - 1], segments[k], separator)
        BY <1>2, <4>1, <4>2
      <4> QED
        BY <3>2, <4>3
    <3> QED
      BY <3>1, <3>2
  <2>2. f = [k \in 0..n |-> f[k]]
    BY <1>7 DEF Follows
  <2> QED
    BY <2>1, <2>2
<1>9. Goal(joined)
  BY <1>8
<1> HIDE DEF joined
<1>10. joined[0] = NoText /\ \A k \in 1..n : joined[k] = Beside(joined[k - 1], segments[k], separator)
  <2>1. \A k \in 0..n : joined[k] = IF k = 0 THEN NoText ELSE Beside(joined[k - 1], segments[k], separator)
    BY <1>9
  <2>2. 0 \in 0..n /\ \A k \in 1..n : k \in 0..n /\ k # 0
    BY <1>1
  <2> QED
    BY <2>1, <2>2
<1> HIDE DEF Goal
<1> DEFINE S == {k \in 0..n : joined[k] \in Built}
<1>11. 0 \in S
  BY <1>1, <1>5, <1>10
<1>12. ASSUME NEW k \in 0..(n - 1), k \in S
       PROVE  k + 1 \in S
  <2>1. k + 1 \in 1..n /\ (k + 1) - 1 = k /\ k + 1 \in 0..n
    BY <1>1
  <2>2. joined[k + 1] = Beside(joined[k], segments[k + 1], separator) /\ joined[k] \in Built
    BY <1>10, <1>12, <2>1
  <2>3. joined[k + 1] \in Built
    BY <1>4, <2>1, <2>2
  <2> QED
    BY <2>1, <2>3
<1> HIDE DEF S
<1>13. 0..n \subseteq S
  BY <1>1, <1>11, <1>12, Reaches
<1>14. Rendered(joined[n])
  <2>1. joined[n] \in Built
    BY <1>1, <1>13 DEF S
  <2> QED
    BY <2>1, BuiltIs
<1>15. Normalized(joined[n]) = joined[n]
  BY <1>14, RenderedNormalized
<1> QED
  BY <1>3, <1>14, <1>15

\* The ranges an entity is wrapped around: the whole stretches without code.
Stretch(s, a, b) ==
  /\ a \in 0..Len(s.text) /\ b \in 0..Len(s.text) /\ a < b
  /\ \A i \in a..(b - 1) : Free(s, i)
  /\ a > 0 => ~Free(s, a - 1)
  /\ ~Free(s, b)

\* buildWrappingEntities makes an entity of each stretch without code.
LEMMA WrappingIs ==
  ASSUME NEW s, NEW type
  PROVE  \A w : w \in WrappingEntities(s, type) <=>
                \E a, b \in 0..Len(s.text) : Stretch(s, a, b) /\ w = Entity(type, a, b - a)
<1> DEFINE n == Len(s.text)
           whole(a, b) == /\ a < b /\ \A i \in a..(b - 1) : Free(s, i)
                          /\ a > 0 => ~Free(s, a - 1)
                          /\ ~Free(s, b)
           pairs == {q \in (0..n) \X (0..n) : whole(q[1], q[2])}
<1>1. WrappingEntities(s, type) = {Entity(type, r[1], r[2] - r[1]) : r \in pairs}
  BY DEF WrappingEntities
<1>2. \A a, b \in 0..n : Stretch(s, a, b) <=> whole(a, b)
  BY DEF Stretch
<1> HIDE DEF whole, n
<1>3. \A a, b \in 0..n : <<a, b>> \in pairs <=> whole(a, b)
  OBVIOUS
<1>4. \A r \in pairs : r[1] \in 0..n /\ r[2] \in 0..n /\ whole(r[1], r[2])
  OBVIOUS
<1> HIDE DEF pairs
<1> TAKE w
<1>5. ASSUME w \in WrappingEntities(s, type)
      PROVE  \E a, b \in 0..n : Stretch(s, a, b) /\ w = Entity(type, a, b - a)
  <2>1. PICK r \in pairs : w = Entity(type, r[1], r[2] - r[1])
    BY <1>1, <1>5
  <2> QED
    BY <1>2, <1>4, <2>1
<1>6. ASSUME NEW a \in 0..n, NEW b \in 0..n, Stretch(s, a, b), w = Entity(type, a, b - a)
      PROVE  w \in WrappingEntities(s, type)
  <2>1. <<a, b>> \in pairs
    BY <1>2, <1>3, <1>6
  <2>2. <<a, b>>[1] = a /\ <<a, b>>[2] = b
    OBVIOUS
  <2> QED
    BY <1>1, <1>6, <2>1, <2>2
<1> QED
  BY <1>5, <1>6 DEF n

\* They are finitely many.
LEMMA WrappingFinite ==
  ASSUME NEW s, Len(s.text) \in Nat, NEW type
  PROVE  IsFiniteSet(WrappingEntities(s, type))
<1> DEFINE n == Len(s.text)
           W == WrappingEntities(s, type)
           P == {q \in (0..n) \X (0..n) : Entity(type, q[1], q[2] - q[1]) \in W}
           f == [q \in P |-> Entity(type, q[1], q[2] - q[1])]
<1>1. IsFiniteSet((0..n) \X (0..n))
  <2>1. IsFiniteSet(0..n)
    BY FS_Interval
  <2> QED
    BY <2>1, FS_Product
<1>2. IsFiniteSet(P)
  <2>1. P \in SUBSET ((0..n) \X (0..n))
    OBVIOUS
  <2> QED
    BY <1>1, <2>1, FS_Subset
<1>3. \A w \in W : \E a, b \in 0..n : w = Entity(type, a, b - a)
  BY WrappingIs
<1> HIDE DEF W, n
<1>4. \A w \in W : \E q \in P : f[q] = w
  <2> TAKE w \in W
  <2>1. PICK a, b \in 0..n : w = Entity(type, a, b - a)
    BY <1>3
  <2>2. <<a, b>> \in P /\ <<a, b>>[1] = a /\ <<a, b>>[2] = b
    BY <2>1
  <2> QED
    BY <2>1, <2>2
<1>5. f \in [P -> W]
  OBVIOUS
<1>6. f \in Surjection(P, W)
  BY <1>4, <1>5 DEF Surjection
<1> QED
  BY <1>2, <1>6, FS_Surjection DEF W

--------------------------------------------------------------------------------
\* wrapWithEntity.

\* Each position without code lies in a stretch.
LEMMA StretchExists ==
  ASSUME NEW s, Rendered(s), NEW i \in 0..Len(s.text), Free(s, i)
  PROVE  \E a, b \in 0..Len(s.text) : Stretch(s, a, b) /\ a <= i /\ i < b
<1> DEFINE n == Len(s.text)
           A == {a \in 0..i : \A j \in a..i : Free(s, j)}
           B == {b \in (i + 1)..n : ~Free(s, b)}
<1>1. n \in Nat /\ i \in Nat /\ i < n /\ ~Free(s, n)
  <2>1. n \in Nat
    BY RenderedIs
  <2>2. i < n
    BY DEF Free
  <2>3. ~Free(s, n)
    BY <2>1 DEF Free
  <2> HIDE DEF n
  <2>4. i \in 0..n
    BY DEF n
  <2> QED
    BY <2>1, <2>2, <2>3, <2>4
<1> HIDE DEF n
<1>2. A \subseteq Nat /\ i \in A /\ B \subseteq Nat /\ n \in B
  <2>1. \A j \in i..i : j = i
    BY <1>1
  <2> QED
    BY <1>1, <2>1
<1>3. PICK a \in A : \A c \in A : a <= c
  <2> HIDE DEF A
  <2> QED
    BY <1>2, LeastExists
<1>4. PICK b \in B : \A c \in B : b <= c
  <2> HIDE DEF B
  <2> QED
    BY <1>2, LeastExists
<1>5. a \in 0..n /\ b \in 0..n /\ a <= i /\ i < b /\ ~Free(s, b)
  BY <1>1
<1>6. \A j \in a..(b - 1) : Free(s, j)
  <2> TAKE j \in a..(b - 1)
  <2>1. CASE j <= i
    BY <1>1, <2>1
  <2>2. CASE ~ (j <= i)
    <3>1. j \in (i + 1)..n /\ ~ (b <= j)
      BY <1>1, <1>5, <2>2
    <3>2. j \notin B
      BY <1>4, <3>1
    <3> QED
      BY <3>1, <3>2
  <2> QED
    BY <2>1, <2>2
<1>7. a > 0 => ~Free(s, a - 1)
  <2> SUFFICES ASSUME a > 0, Free(s, a - 1) PROVE FALSE
    OBVIOUS
  <2>1. a - 1 \in 0..i /\ ~ (a <= a - 1)
    BY <1>1, <1>5
  <2>2. \A j \in (a - 1)..i : Free(s, j)
    <3> TAKE j \in (a - 1)..i
    <3>1. j = a - 1 \/ j \in a..i
      BY <1>1, <1>5
    <3> QED
      BY <3>1
  <2> QED
    BY <1>3, <2>1, <2>2
<1>8. Stretch(s, a, b)
  BY <1>5, <1>6, <1>7 DEF Stretch, n
<1> QED
  BY <1>5, <1>8 DEF n

\* What overlaps a stretch and has no code in it lies within it.
LEMMA StretchCovers ==
  ASSUME NEW s, NEW n \in Nat, n = Len(s.text), NEW a \in Nat, NEW b \in Nat, Stretch(s, a, b), NEW type \in Types,
         NEW w, w = Entity(type, a, b - a), NEW e \in Entities, e.length > 0, End(e) <= n,
         \A j \in Nat : e.offset <= j /\ j < End(e) => Free(s, j),
         Overlaps(w, e)
  PROVE  Covers(w, e)
<1>1. a < b /\ b <= n /\ (a > 0 => ~Free(s, a - 1)) /\ ~Free(s, b)
  BY DEF Stretch
<1>2. w.offset = a /\ End(w) = b
  BY <1>1 DEF Entity, End
<1>3. e.offset \in Nat /\ End(e) \in Nat
  BY EntityIs
<1>4. a < End(e) /\ e.offset < b
  BY <1>2 DEF Overlaps
<1>5. a <= e.offset
  <2> SUFFICES ASSUME ~ (a <= e.offset) PROVE FALSE
    OBVIOUS
  <2>1. a - 1 \in Nat /\ e.offset <= a - 1 /\ a - 1 < End(e) /\ a > 0
    BY <1>3, <1>4
  <2> QED
    BY <1>1, <2>1
<1>6. End(e) <= b
  <2> SUFFICES ASSUME ~ (End(e) <= b) PROVE FALSE
    OBVIOUS
  <2>1. e.offset <= b /\ b < End(e)
    BY <1>3, <1>4
  <2> QED
    BY <1>1, <2>1
<1> QED
  BY <1>2, <1>5, <1>6 DEF Covers

\* No entity shares a position with code, and so none but code has code in it.
LEMMA NoCodeWithin ==
  ASSUME NEW s, Rendered(s), NEW e \in s.entities, ~IsCode(e.type), NEW j \in Nat, e.offset <= j, j < End(e)
  PROVE  Free(s, j)
<1>1. /\ s.entities \subseteq Entities /\ Len(s.text) \in Nat
      /\ \A f, g \in s.entities : /\ f.length > 0 /\ End(f) <= Len(s.text)
                                  /\ f # g /\ Overlaps(f, g) => ~IsCode(f.type)
  BY RenderedIs, RenderedShows
<1>2. \A f \in s.entities : f.offset \in Nat /\ End(f) \in Nat
  BY <1>1, EntityIs
<1>3. j < Len(s.text)
  <2>1. End(e) <= Len(s.text) /\ End(e) \in Nat /\ Len(s.text) \in Nat
    BY <1>1, <1>2
  <2> QED
    BY <2>1
<1>4. ASSUME NEW f \in s.entities, IsCode(f.type), ~ (j < f.offset \/ End(f) <= j)
      PROVE  FALSE
  <2>1. Overlaps(f, e)
    BY <1>2, <1>4 DEF Overlaps
  <2> QED
    BY <1>1, <1>4, <2>1
<1> QED
  BY <1>3, <1>4 DEF Free

\* wrapWithEntity: every character but code gets the format, and Telegram takes the entities.
LEMMA WrappedRendered ==
  ASSUME NEW s, Rendered(s), NEW type \in {"bold", "italic", "strikethrough"}
  PROVE  Rendered(Wrapped(s, type))
<1> DEFINE n == Len(s.text)
           W == WrappingEntities(s, type)
           entities == s.entities \cup W
           formats == [i \in 1..n |-> IF \E c \in s.formats[i] : IsCode(c) THEN s.formats[i] ELSE s.formats[i] \cup {type}]
           within == [i \in 1..n |-> s.within[i] \cup {type}]
<1>0. type \in Types /\ type \in Constructs /\ ~IsCode(type)
  BY DEF Types, Constructs, IsCode
<1>1. /\ s.text \in Seq(Chars) /\ n \in Nat /\ s.entities \in SUBSET Entities /\ IsFiniteSet(s.entities)
      /\ s = [text |-> s.text, entities |-> s.entities, formats |-> s.formats, within |-> s.within]
  BY RenderedIs
<1>2. /\ s.formats \in [1..n -> SUBSET Types]
      /\ \A e, f \in s.entities :
           /\ e.length > 0 /\ End(e) <= n
           /\ Overlaps(e, f) => Covers(e, f) \/ Covers(f, e)
           /\ e # f /\ Overlaps(e, f) => ~IsCode(e.type)
      /\ \A i \in 1..n, t \in Types :
           t \in s.formats[i] <=> \E e \in s.entities : e.type = t /\ Shown(e, i)
      /\ s.within \in [1..n -> SUBSET Constructs] /\ \A i \in 1..n : Shows(s.formats[i], s.within[i])
  BY RenderedShows
<1>3. Wrapped(s, type) = IF Len(s.text) = 0 THEN s ELSE Normalized(Segment(s.text, entities, formats, within))
  <2>1. DOMAIN s.formats = 1..n /\ DOMAIN s.within = 1..n
    BY <1>2
  <2>2. /\ formats = [i \in DOMAIN s.formats |->
                       IF \E c \in s.formats[i] : IsCode(c) THEN s.formats[i] ELSE s.formats[i] \cup {type}]
        /\ within = [i \in DOMAIN s.within |-> s.within[i] \cup {type}]
    BY <2>1
  <2> HIDE DEF formats, within
  <2> QED
    BY <2>2 DEF Wrapped
<1>4. SUFFICES Rendered(Segment(s.text, entities, formats, within))
  <2> DEFINE r == Segment(s.text, entities, formats, within)
  <2>1. Rendered(r) => Normalized(r) = r
    BY RenderedNormalized
  <2> HIDE DEF entities, formats, within
  <2> QED
    BY <1>3, <2>1
<1>5. ASSUME NEW w \in W
      PROVE  /\ w \in Entities /\ w.type = type /\ w.length > 0 /\ End(w) <= n /\ w.offset \in Nat /\ End(w) \in Nat
             /\ \E a, b \in Nat : Stretch(s, a, b) /\ w = Entity(type, a, b - a) /\ w.offset = a /\ End(w) = b
             /\ \A j \in Nat : w.offset <= j /\ j < End(w) => Free(s, j)
  <2>1. PICK a, b \in 0..n : Stretch(s, a, b) /\ w = Entity(type, a, b - a)
    BY WrappingIs
  <2>2. a \in Nat /\ b \in Nat /\ b <= n /\ a < b /\ b - a \in Nat /\ b - a > 0
    BY <1>1, <2>1 DEF Stretch
  <2>3. w \in Entities /\ w.type = type /\ w.offset = a /\ w.length = b - a /\ End(w) = b
    BY <1>0, <2>1, <2>2 DEF Entity, Entities, End
  <2>4. \A j \in Nat : a <= j /\ j < b => Free(s, j)
    <3> TAKE j \in Nat
    <3> HAVE a <= j /\ j < b
    <3>1. j \in a..(b - 1)
      BY <2>2
    <3> QED
      BY <2>1, <3>1 DEF Stretch
  <2> QED
    BY <2>1, <2>2, <2>3, <2>4
<1>6. entities \in SUBSET Entities /\ IsFiniteSet(entities)
  <2>1. IsFiniteSet(W)
    BY <1>1, WrappingFinite
  <2> HIDE DEF W
  <2> QED
    BY <1>1, <1>5, <2>1, FS_Union
<1>7. formats \in [1..n -> SUBSET Types] /\ within \in [1..n -> SUBSET Constructs]
  BY <1>0, <1>2
<1>7a. \A i \in 1..n : Shows(formats[i], within[i])
  <2> TAKE i \in 1..n
  <2>1. Shows(s.formats[i], s.within[i])
    BY <1>2
  <2> QED
    BY <2>1, ShowsEmphasis
<1> HIDE DEF within
<1> HIDE DEF n
<1>8. ASSUME NEW w \in W, NEW e \in entities, Overlaps(w, e)
      PROVE  Covers(w, e) /\ ~IsCode(e.type)
  <2>1. PICK a, b \in Nat : Stretch(s, a, b) /\ w = Entity(type, a, b - a) /\ w.offset = a /\ End(w) = b
    BY <1>5
  <2>2. e \in Entities /\ e.length > 0 /\ End(e) <= n
    BY <1>2, <1>5, <1>6
  <2>3. ~IsCode(e.type) /\ \A j \in Nat : e.offset <= j /\ j < End(e) => Free(s, j)
    <3>1. CASE e \in W
      BY <1>0, <1>5, <3>1
    <3>2. CASE e \in s.entities /\ ~IsCode(e.type)
      BY <3>2, NoCodeWithin
    <3>3. CASE e \in s.entities /\ IsCode(e.type)
      <4>1. e.offset \in Nat /\ End(e) \in Nat /\ e.offset < End(e)
        <5>1. e.offset \in Nat /\ e.length \in Nat /\ e.length > 0
          BY <2>2, EntityIs
        <5> QED
          BY <5>1 DEF End
      <4>2. a < End(e) /\ e.offset < b /\ a < b
        BY <1>8, <2>1 DEF Overlaps, Stretch
      <4> DEFINE j == IF a < e.offset THEN e.offset ELSE a
      <4>3. j \in Nat /\ a <= j /\ j < b /\ ~ (j < e.offset) /\ ~ (End(e) <= j)
        BY <4>1, <4>2
      <4> HIDE DEF j
      <4>4. Free(s, j)
        BY <1>5, <2>1, <4>3
      <4>5. ~Free(s, j)
        BY <3>3, <4>3 DEF Free
      <4> QED
        BY <4>4, <4>5
    <3> QED
      BY <3>1, <3>2, <3>3
  <2> QED
    BY <1>0, <1>1, <1>8, <2>1, <2>2, <2>3, StretchCovers DEF n
<1>9. ASSUME NEW e \in entities, NEW f \in entities
      PROVE  /\ e.length > 0 /\ End(e) <= n
             /\ Overlaps(e, f) => Covers(e, f) \/ Covers(f, e)
             /\ e # f /\ Overlaps(e, f) => ~IsCode(e.type)
  <2>1. Overlaps(e, f) => Overlaps(f, e)
    BY DEF Overlaps
  <2>2. CASE e \in W
    BY <1>0, <1>5, <1>8, <2>2
  <2>3. CASE e \in s.entities /\ f \in W
    BY <1>2, <1>8, <2>1, <2>3
  <2>4. CASE e \in s.entities /\ f \in s.entities
    BY <1>2, <2>4
  <2> HIDE DEF W
  <2> QED
    BY <2>2, <2>3, <2>4
<1>10. ASSUME NEW i \in 1..n, NEW t \in Types
       PROVE  t \in formats[i] <=> \E e \in entities : e.type = t /\ Shown(e, i)
  <2>1. i - 1 \in 0..n /\ i - 1 < n /\ i - 1 \in Nat /\ i \in Nat
    BY <1>1
  <2>2. \A e \in entities : e.offset \in Nat /\ End(e) \in Nat
    BY <1>6, EntityIs
  <2>3. (\E c \in s.formats[i] : IsCode(c)) <=> ~Free(s, i - 1)
    <3>1. (\E c \in s.formats[i] : IsCode(c)) <=> \E e \in s.entities : IsCode(e.type) /\ Shown(e, i)
      <4>1. s.formats[i] \subseteq Types /\ \A e \in s.entities : e.type \in Types
        BY <1>1, <1>2, EntityIs
      <4> QED
        BY <1>2, <4>1
    <3>2. \A e \in s.entities : Shown(e, i) <=> ~ (i - 1 < e.offset \/ End(e) <= i - 1)
      BY <2>1, <2>2 DEF Shown
    <3> QED
      BY <2>1, <3>1, <3>2 DEF Free, n
  <2>4. (\E w \in W : Shown(w, i)) <=> Free(s, i - 1)
    <3>1. ASSUME NEW w \in W, Shown(w, i) PROVE Free(s, i - 1)
      <4>1. w.offset <= i - 1 /\ i - 1 < End(w)
        BY <1>5, <2>1, <3>1 DEF Shown
      <4> QED
        BY <1>5, <2>1, <4>1
    <3>2. ASSUME Free(s, i - 1) PROVE \E w \in W : Shown(w, i)
      <4>1. PICK a, b \in 0..n : Stretch(s, a, b) /\ a <= i - 1 /\ i - 1 < b
        BY <2>1, <3>2, StretchExists DEF n
      <4>2. Entity(type, a, b - a) \in W
        BY <4>1, WrappingIs DEF n
      <4>3. a \in Nat /\ b \in Nat /\ a < i /\ i <= b
        BY <1>1, <2>1, <4>1
      <4>4. Entity(type, a, b - a).offset = a /\ End(Entity(type, a, b - a)) = b
        BY <4>3 DEF Entity, End
      <4>5. Shown(Entity(type, a, b - a), i)
        BY <4>3, <4>4 DEF Shown
      <4> QED
        BY <4>2, <4>5
    <3> QED
      BY <3>1, <3>2
  <2>5. formats[i] = IF ~Free(s, i - 1) THEN s.formats[i] ELSE s.formats[i] \cup {type}
    BY <2>3
  <2>6. t \in s.formats[i] <=> \E e \in s.entities : e.type = t /\ Shown(e, i)
    BY <1>2
  <2>7. \A w \in W : w.type = type
    BY <1>5
  <2> HIDE DEF formats, W
  <2> QED
    BY <2>4, <2>5, <2>6, <2>7
<1> HIDE DEF entities, formats
<1> QED
  BY <1>1, <1>6, <1>7, <1>7a, <1>9, <1>10, IsRendered DEF n

--------------------------------------------------------------------------------
\* Links.

\* A segment without its code.
Uncoded(s) == Segment(s.text, {e \in s.entities : ~IsCode(e.type)},
                      [i \in DOMAIN s.formats |-> {c \in s.formats[i] : ~IsCode(c)}],
                      [i \in DOMAIN s.within |-> s.within[i] \cup {"empty_link"}])

\* The text of a link shows its code as text.
LEMMA UncodedRendered ==
  ASSUME NEW s, Rendered(s)
  PROVE  /\ Rendered(Uncoded(s)) /\ Uncoded(s).text = s.text
         /\ \A e \in Uncoded(s).entities : ~IsCode(e.type)
<1> DEFINE n == Len(s.text)
           entities == {e \in s.entities : ~IsCode(e.type)}
           formats == [i \in DOMAIN s.formats |-> {c \in s.formats[i] : ~IsCode(c)}]
           within == [i \in DOMAIN s.within |-> s.within[i] \cup {"empty_link"}]
<1>1. /\ s.text \in Seq(Chars) /\ n \in Nat /\ s.entities \in SUBSET Entities /\ IsFiniteSet(s.entities)
  BY RenderedIs
<1>2. /\ s.formats \in [1..n -> SUBSET Types]
      /\ \A e, f \in s.entities :
           /\ e.length > 0 /\ End(e) <= n
           /\ Overlaps(e, f) => Covers(e, f) \/ Covers(f, e)
           /\ e # f /\ Overlaps(e, f) => ~IsCode(e.type)
      /\ \A i \in 1..n, t \in Types :
           t \in s.formats[i] <=> \E e \in s.entities : e.type = t /\ Shown(e, i)
      /\ s.within \in [1..n -> SUBSET Constructs] /\ \A i \in 1..n : Shows(s.formats[i], s.within[i])
  BY RenderedShows
<1> HIDE DEF n
<1>3. formats \in [1..n -> SUBSET Types] /\ within \in [1..n -> SUBSET Constructs]
  BY <1>2 DEF Constructs
<1>3a. \A i \in 1..n : Shows(formats[i], within[i])
  BY <1>2, ShowsLink
<1> HIDE DEF within
<1>4. entities \in SUBSET Entities /\ IsFiniteSet(entities)
  <2>1. entities \in SUBSET s.entities
    OBVIOUS
  <2> QED
    BY <1>1, <2>1, FS_Subset
<1>5. \A i \in 1..n, t \in Types : t \in formats[i] <=> \E e \in entities : e.type = t /\ Shown(e, i)
  <2> TAKE i \in 1..n, t \in Types
  <2>1. formats[i] = {c \in s.formats[i] : ~IsCode(c)}
    BY <1>2
  <2> HIDE DEF formats
  <2> QED
    BY <1>2, <2>1
<1>6. Rendered(Segment(s.text, entities, formats, within))
  <2> HIDE DEF formats
  <2> QED
    BY <1>1, <1>2, <1>3, <1>3a, <1>4, <1>5, IsRendered DEF n
<1> HIDE DEF formats
<1>7. Uncoded(s) = Segment(s.text, entities, formats, within)
  BY DEF Uncoded, formats, within
<1> QED
  BY <1>6, <1>7 DEF Segment

\* One that a link is made of.
Linking(s, within) == Segment(s.text, s.entities \cup {Entity("text_link", 0, Len(s.text))},
                              [i \in DOMAIN s.formats |-> s.formats[i] \cup {"text_link"}], within)

\* A link is one entity around the others.
LEMMA LinkingRendered ==
  ASSUME NEW s, Rendered(s), \A e \in s.entities : ~IsCode(e.type), Len(s.text) # 0,
         NEW within \in [1..Len(s.text) -> SUBSET Constructs],
         \A i \in 1..Len(s.text) : Shows(s.formats[i] \cup {"text_link"}, within[i])
  PROVE  Rendered(Linking(s, within))
<1> DEFINE n == Len(s.text)
           link == Entity("text_link", 0, n)
           entities == s.entities \cup {link}
           formats == [i \in DOMAIN s.formats |-> s.formats[i] \cup {"text_link"}]
<1>1. /\ s.text \in Seq(Chars) /\ n \in Nat /\ n # 0 /\ s.entities \in SUBSET Entities /\ IsFiniteSet(s.entities)
  BY RenderedIs
<1>2. /\ s.formats \in [1..n -> SUBSET Types]
      /\ \A e, f \in s.entities :
           /\ e.length > 0 /\ End(e) <= n
           /\ Overlaps(e, f) => Covers(e, f) \/ Covers(f, e)
      /\ \A i \in 1..n, t \in Types :
           t \in s.formats[i] <=> \E e \in s.entities : e.type = t /\ Shown(e, i)
  BY RenderedShows
<1> HIDE DEF n
<1>3. link \in Entities /\ link.type = "text_link" /\ link.offset = 0 /\ link.length = n /\ End(link) = n
  BY <1>1 DEF Entity, Entities, End, Types
<1> HIDE DEF link
<1>4. entities \in SUBSET Entities /\ IsFiniteSet(entities)
  BY <1>1, <1>3, FS_AddElement
<1>5. formats \in [1..n -> SUBSET Types]
  <2>1. "text_link" \in Types
    BY DEF Types
  <2> QED
    BY <1>2, <2>1
<1>6. \A e \in entities : e.offset \in Nat /\ End(e) \in Nat /\ End(e) <= n /\ e.length > 0 /\ ~IsCode(e.type)
  <2>1. ~IsCode("text_link")
    BY DEF IsCode
  <2> TAKE e \in entities
  <2>2. CASE e = link
    BY <1>1, <1>3, <2>1, <2>2
  <2>3. CASE e \in s.entities
    BY <1>2, <1>4, <2>3, EntityIs
  <2> QED
    BY <2>2, <2>3
<1>7. \A e \in entities : Covers(link, e)
  BY <1>3, <1>6 DEF Covers
<1>8. \A e, f \in entities :
        /\ e.length > 0 /\ End(e) <= n
        /\ Overlaps(e, f) => Covers(e, f) \/ Covers(f, e)
        /\ e # f /\ Overlaps(e, f) => ~IsCode(e.type)
  BY <1>2, <1>6, <1>7
<1>9. \A i \in 1..n, t \in Types : t \in formats[i] <=> \E e \in entities : e.type = t /\ Shown(e, i)
  <2> TAKE i \in 1..n, t \in Types
  <2>1. formats[i] = s.formats[i] \cup {"text_link"}
    BY <1>2
  <2>2. Shown(link, i)
    BY <1>1, <1>3 DEF Shown
  <2> HIDE DEF formats
  <2> QED
    BY <1>2, <1>3, <2>1, <2>2
<1>9a. \A i \in 1..n : Shows(formats[i], within[i])
  BY <1>2 DEF n
<1>10. Rendered(Segment(s.text, entities, formats, within))
  <2> HIDE DEF formats, entities
  <2> QED
    BY <1>1, <1>4, <1>5, <1>8, <1>9, <1>9a, IsRendered DEF n
<1>11. Linking(s, within) = Segment(s.text, entities, formats, within)
  BY DEF Linking, link, n
<1> QED
  BY <1>10, <1>11

\* renderLink makes a rendered segment, whatever the url.
LEMMA LinkRendered ==
  ASSUME NEW s, Rendered(s), NEW url \in Seq(Chars)
  PROVE  Rendered(Link(s, url))
<1> DEFINE t == IF Len(s.text) > 0 THEN s ELSE Plain(url)
           n == Len(t.text)
           u == Uncoded(t)
           W == [i \in DOMAIN t.within |-> t.within[i] \cup {"text_link"}]
<1>1. Rendered(t)
  BY PlainRendered
<1>2. Link(s, url) = IF Len(t.text) = 0 THEN NoText
                     ELSE IF Blank(url) THEN Normalized(u) ELSE Normalized(Linking(u, W))
  <2> DEFINE link == IF Blank(url) THEN "empty_link" ELSE "text_link"
             entities == {e \in t.entities : ~IsCode(e.type)}
             formats == [i \in DOMAIN t.formats |-> {c \in t.formats[i] : ~IsCode(c)}]
             within == [i \in DOMAIN t.within |-> t.within[i] \cup {link}]
             uncoded == Segment(t.text, entities, formats, within)
  <2> HIDE DEF t
  <2>1. Link(s, url) = IF Len(t.text) = 0 THEN NoText
                       ELSE IF Blank(url) THEN Normalized(uncoded)
                       ELSE Normalized(Segment(t.text, entities \cup {Entity("text_link", 0, Len(t.text))},
                                               [i \in DOMAIN formats |-> formats[i] \cup {"text_link"}], within))
    BY DEF Link, t
  <2>2. u.text = t.text /\ u.entities = entities /\ u.formats = formats
    BY DEF Uncoded, Segment
  <2> HIDE DEF entities, formats
  <2>3. CASE Blank(url)
    <3>1. uncoded = u
      BY <2>3 DEF Uncoded, entities, formats
    <3> HIDE DEF u, uncoded
    <3> QED
      BY <2>1, <2>3, <3>1
  <2>4. CASE ~Blank(url)
    <3>1. within = W
      BY <2>4
    <3> HIDE DEF u, within, uncoded, W
    <3>2. Linking(u, W) = Segment(t.text, entities \cup {Entity("text_link", 0, Len(t.text))},
                                  [i \in DOMAIN formats |-> formats[i] \cup {"text_link"}], W)
      BY <2>2 DEF Linking
    <3> QED
      BY <2>1, <2>4, <3>1, <3>2
  <2> QED
    BY <2>3, <2>4
<1> HIDE DEF t
<1>3. /\ n \in Nat /\ t.formats \in [1..n -> SUBSET Types] /\ t.within \in [1..n -> SUBSET Constructs]
      /\ \A i \in 1..n : Shows(t.formats[i], t.within[i])
  BY <1>1, RenderedIs, RenderedShows
<1>4. Rendered(u) /\ u.text = t.text /\ \A e \in u.entities : ~IsCode(e.type)
  BY <1>1, UncodedRendered
<1>5. u.formats = [i \in DOMAIN t.formats |-> {c \in t.formats[i] : ~IsCode(c)}]
  BY DEF Uncoded, Segment
<1> HIDE DEF u
<1>6. W \in [1..n -> SUBSET Constructs]
  BY <1>3 DEF Constructs, Types
<1>7. ASSUME NEW i \in 1..n
      PROVE  Shows(u.formats[i] \cup {"text_link"}, W[i])
  <2>1. u.formats[i] = {c \in t.formats[i] : ~IsCode(c)} /\ W[i] = t.within[i] \cup {"text_link"}
    BY <1>3, <1>5
  <2> QED
    BY <1>3, <2>1, ShowsLink
<1> HIDE DEF W
<1>8. CASE Len(t.text) = 0
  BY <1>2, <1>8, NoTextRendered
<1>9. CASE Len(t.text) # 0 /\ Blank(url)
  BY <1>2, <1>4, <1>9, RenderedNormalized
<1>10. CASE Len(t.text) # 0 /\ ~Blank(url)
  <2>1. Rendered(Linking(u, W))
    BY <1>4, <1>6, <1>7, <1>10, LinkingRendered
  <2> QED
    BY <1>2, <1>10, <2>1, RenderedNormalized
<1> QED
  BY <1>8, <1>9, <1>10

--------------------------------------------------------------------------------
\* Blocks.

\* Blank blocks become segments without a text.
LEMMA VisibleBuilt ==
  ASSUME NEW segments \in Seq(Built)
  PROVE  Visible(segments) \in Seq(Built)
<1>1. Len(segments) \in Nat /\ DOMAIN segments = 1..Len(segments) /\ \A i \in 1..Len(segments) : segments[i] \in Built
  OBVIOUS
<1>2. NoText \in Built
  BY NoTextRendered, BuiltIs
<1>3. Visible(segments) \in [1..Len(segments) -> Built]
  BY <1>1, <1>2 DEF Visible
<1> QED
  BY <1>1, <1>3, SequenceOf

\* The separators of blocks are texts.
LEMMA SeparatorsAre == <<>> \in Seq(Chars) /\ <<NL>> \in Seq(Chars) /\ <<NL, NL>> \in Seq(Chars)
BY DEF Chars

\* Inline code is one entity.
LEMMA InlineCodeRendered ==
  ASSUME NEW text \in Seq(Chars)
  PROVE  Rendered(InlineCode(text))
<1>1. "code" \in Types
  BY DEF Types
<1>2. CASE Len(text) = 0
  BY <1>2, NoTextRendered DEF InlineCode
<1>3. CASE Len(text) # 0
  BY <1>1, <1>3, WholeRendered DEF InlineCode
<1> QED
  BY <1>2, <1>3

\* A code block is one entity, or a note that it comes as a file.
LEMMA CodeBlockRendered ==
  ASSUME NEW code \in Seq(Chars)
  PROVE  Rendered(CodeBlock(code))
<1> DEFINE note == <<"x">>
           text == IF Len(code) > 0 THEN code ELSE note
<1>1. "pre" \in Types
  BY DEF Types
<1>2. note \in Seq(Chars) /\ Len(note) = 1
  <2>1. \A c \in Chars : <<c>> \in Seq(Chars) /\ Len(<<c>>) = 1
    OBVIOUS
  <2>2. "x" \in Chars
    BY DEF Chars
  <2> QED
    BY <2>1, <2>2
<1>3. Len(code) \in Nat
  OBVIOUS
<1> HIDE DEF note
<1>4. text \in Seq(Chars) /\ Len(text) # 0
  BY <1>2, <1>3
<1> HIDE DEF text
<1>5. Rendered(Segment(text, {Entity("pre", 0, Len(text))}, Each(text, {"pre"}), Each(text, {"pre"})))
  BY <1>1, <1>4, WholeRendered
<1>6. Rendered(Plain(note))
  BY <1>2, PlainRendered
<1>7. \/ CodeBlock(code) = Plain(note)
      \/ CodeBlock(code) = Segment(text, {Entity("pre", 0, Len(text))}, Each(text, {"pre"}), Each(text, {"pre"}))
  BY DEF CodeBlock, note, text
<1> QED
  BY <1>5, <1>6, <1>7

\* Joined texts are of characters.
LEMMA FlattenedIs ==
  ASSUME NEW X, NEW seqs \in Seq(Seq(X))
  PROVE  FlattenSeq(seqs) \in Seq(X)
<1>1. PICK f : /\ f \in [0..Len(seqs) -> Seq(X)] /\ f[0] = <<>>
               /\ \A k \in 1..Len(seqs) : f[k] = f[k - 1] \o seqs[k]
               /\ FlattenSeq(seqs) = f[Len(seqs)]
  BY FlattenGoes
<1>2. Len(seqs) \in 0..Len(seqs)
  OBVIOUS
<1> QED
  BY <1>1, <1>2

\* A unit with what it stands in.
Letter == [char : Chars, within : SUBSET Constructs]

\* The letters of a segment.
LEMMA LettersAre ==
  ASSUME NEW s, Rendered(s)
  PROVE  Letters(s) \in Seq(Letter) /\ Len(Letters(s)) = Len(s.text)
<1> DEFINE n == Len(s.text)
<1>1. s.text \in Seq(Chars) /\ n \in Nat /\ DOMAIN s.text = 1..n
  BY RenderedIs
<1>2. \A i \in 1..n : s.text[i] \in Chars /\ s.within[i] \in SUBSET Constructs
  BY <1>1, RenderedShows
<1>3. Letters(s) \in [1..n -> Letter]
  BY <1>1, <1>2 DEF Letters, Letter
<1> QED
  BY <1>1, <1>3, SequenceOf

\* The marks that quotes and tables add.
LEMMA MarksAre ==
  Marks(<<"x", " ">>) \in Seq(Letter) /\ Marks(<<" ", "x", " ">>) \in Seq(Letter)
<1>1. <<"x", " ">> \in Seq(Chars) /\ <<" ", "x", " ">> \in Seq(Chars)
  BY DEF Chars
<1> QED
  BY <1>1, PlainRendered, LettersAre DEF Marks

\* What is spelled shows its text alone.
LEMMA SpelledRendered ==
  ASSUME NEW letters \in Seq(Letter), NEW construct \in {"quote", "table"}
  PROVE  Rendered(Spelled(letters, construct))
<1> DEFINE n == Len(letters)
           text == [i \in DOMAIN letters |-> letters[i].char]
           formats == Each(letters, {})
           within == [i \in DOMAIN letters |-> letters[i].within \cup {construct}]
<1>1. n \in Nat /\ DOMAIN letters = 1..n /\ \A i \in 1..n : letters[i] \in Letter
  OBVIOUS
<1>2. \A i \in 1..n : letters[i].char \in Chars /\ letters[i].within \in SUBSET Constructs
  BY <1>1 DEF Letter
<1>3. text \in [1..n -> Chars]
  BY <1>1, <1>2
<1>4. text \in Seq(Chars) /\ Len(text) = n
  <2> HIDE DEF text
  <2> QED
    BY <1>1, <1>3, SequenceOf
<1>5. formats \in [1..n -> SUBSET Types] /\ \A i \in 1..n : formats[i] = {}
  BY EachIs
<1>6. within \in [1..n -> SUBSET Constructs] /\ \A i \in 1..n : construct \in within[i]
  BY <1>1, <1>2 DEF Constructs
<1>7. Spelled(letters, construct) = Segment(text, {}, formats, within)
  BY DEF Spelled
<1> HIDE DEF text, formats, within, n
<1>8. \A i \in 1..n : Shows(formats[i], within[i])
  BY <1>5, <1>6, ShowsText
<1>9. IsFiniteSet({})
  BY FS_EmptySet
<1>10. /\ formats \in [1..Len(text) -> SUBSET Types] /\ within \in [1..Len(text) -> SUBSET Constructs]
       /\ \A i \in 1..Len(text) : formats[i] = {} /\ Shows(formats[i], within[i])
  BY <1>4, <1>5, <1>6, <1>8
<1>11. Rendered(Segment(text, {}, formats, within))
  BY <1>4, <1>9, <1>10, IsRendered
<1> QED
  BY <1>7, <1>11

\* A quotation is spelled.
LEMMA QuotedRendered ==
  ASSUME NEW s, Rendered(s)
  PROVE  Rendered(Quoted(s))
<1> DEFINE n == Len(s.text)
           mark == Marks(<<"x", " ">>)
           quoted == [i \in DOMAIN s.text |-> <<Letters(s)[i]>> \o (IF s.text[i] = NL THEN mark ELSE <<>>)]
           letters == mark \o FlattenSeq(quoted)
<1>1. s.text \in Seq(Chars) /\ n \in Nat /\ DOMAIN s.text = 1..n
  BY RenderedIs
<1>2. mark \in Seq(Letter) /\ <<>> \in Seq(Letter)
  <2>1. mark \in Seq(Letter)
    BY MarksAre
  <2>2. \A X : <<>> \in Seq(X)
    OBVIOUS
  <2> HIDE DEF mark
  <2> QED
    BY <2>1, <2>2
<1>3. \A i \in 1..n : Letters(s)[i] \in Letter
  BY LettersAre
<1> HIDE DEF n, mark
<1>4. ASSUME NEW i \in 1..n
      PROVE  <<Letters(s)[i]>> \o (IF s.text[i] = NL THEN mark ELSE <<>>) \in Seq(Letter)
  <2> DEFINE first == <<Letters(s)[i]>>
             rest == IF s.text[i] = NL THEN mark ELSE <<>>
  <2>1. first \in Seq(Letter) /\ rest \in Seq(Letter)
    BY <1>2, <1>3
  <2> HIDE DEF first, rest
  <2>2. first \o rest \in Seq(Letter)
    BY <2>1, ConcatProperties
  <2> QED
    BY <2>2 DEF first, rest
<1>5. quoted \in [1..n -> Seq(Letter)]
  BY <1>1, <1>4
<1>6. quoted \in Seq(Seq(Letter))
  <2> HIDE DEF quoted
  <2> QED
    BY <1>1, <1>5, SequenceOf DEF n
<1>7. Quoted(s) = NoText \/ Quoted(s) = Spelled(letters, "quote")
  BY DEF Quoted, mark
<1> HIDE DEF quoted
<1>8. letters \in Seq(Letter)
  <2>1. FlattenSeq(quoted) \in Seq(Letter)
    BY <1>6, FlattenedIs
  <2> QED
    BY <1>2, <2>1, ConcatProperties
<1> HIDE DEF letters
<1> QED
  BY <1>7, <1>8, NoTextRendered, SpelledRendered

\* renderBlockquote makes a rendered segment of rendered blocks.
LEMMA BlockquoteRendered ==
  ASSUME NEW blocks \in Seq(Built)
  PROVE  Rendered(Blockquote(blocks))
<1>1. Rendered(Joined(Visible(blocks), <<NL>>))
  BY VisibleBuilt, SeparatorsAre, JoinedRendered
<1> QED
  BY <1>1, QuotedRendered DEF Blockquote

\* So does renderRoot,
LEMMA RootRendered ==
  ASSUME NEW blocks \in Seq(Built)
  PROVE  Rendered(Root(blocks))
BY VisibleBuilt, SeparatorsAre, JoinedRendered DEF Root

\* and renderInlineChildren.
LEMMA InlineRendered ==
  ASSUME NEW segments \in Seq(Built)
  PROVE  Rendered(Inline(segments))
BY SeparatorsAre, JoinedRendered DEF Inline

\* renderList: the items are joined after their markers.
LEMMA ListRendered ==
  ASSUME NEW items \in Seq(Seq(Built))
  PROVE  Rendered(List(items))
<1> DEFINE bullet == <<"x", " ">>
           marked(s) == IF Len(s.text) = 0 THEN s ELSE Prepend(bullet, s)
           lines == [i \in DOMAIN items |-> marked(Joined(Visible(items[i]), <<NL>>))]
<1>1. bullet \in Seq(Chars) /\ Len(bullet) # 0
  BY DEF Chars
<1> HIDE DEF bullet
<1>2. Len(items) \in Nat /\ DOMAIN items = 1..Len(items) /\ \A i \in 1..Len(items) : items[i] \in Seq(Built)
  OBVIOUS
<1>3. ASSUME NEW i \in 1..Len(items)
      PROVE  marked(Joined(Visible(items[i]), <<NL>>)) \in Built
  <2> DEFINE s == Joined(Visible(items[i]), <<NL>>)
  <2>1. Rendered(s)
    BY <1>2, VisibleBuilt, SeparatorsAre, JoinedRendered
  <2> HIDE DEF s
  <2>2. Rendered(marked(s))
    BY <1>1, <2>1, PrependRendered
  <2> QED
    BY <2>2, BuiltIs DEF s
<1> HIDE DEF marked
<1>4. lines \in [1..Len(items) -> Built]
  BY <1>2, <1>3
<1>5. lines \in Seq(Built)
  <2> HIDE DEF lines
  <2> QED
    BY <1>2, <1>4, SequenceOf
<1>6. Rendered(Joined(lines, <<NL>>))
  <2> HIDE DEF lines
  <2> QED
    BY <1>5, SeparatorsAre, JoinedRendered
<1> QED
  BY <1>6 DEF List, marked, bullet

\* A part of a sequence, also an empty one.
LEMMA SomePart ==
  ASSUME NEW X, NEW t \in Seq(X), NEW a \in 0..Len(t), NEW b \in 0..Len(t)
  PROVE  SubSeq(t, a + 1, b) \in Seq(X)
<1>1. Len(t) \in Nat /\ a \in Nat /\ b \in Nat /\ b <= Len(t)
  OBVIOUS
<1>2. CASE a <= b
  BY <1>1, <1>2, SubSeqIs
<1>3. CASE ~ (a <= b)
  <2>1. SubSeq(t, a + 1, b) = <<>>
    BY <1>1, <1>3
  <2> QED
    BY <2>1
<1> QED
  BY <1>2, <1>3

\* A trimmed cell is some of its letters.
LEMMA TrimmedIs ==
  ASSUME NEW s, Rendered(s)
  PROVE  Trimmed(s) \in Seq(Letter)
<1> DEFINE n == Len(s.text)
           last == SkipBlanks(Reverse(s.text), 0)
<1>1. s.text \in Seq(Chars) /\ n \in Nat /\ 0 \in 0..n /\ \A i \in 1..n : s.text[i] \in Chars
  BY RenderedIs
<1>2. Reverse(s.text) \in Seq(Chars) /\ Len(Reverse(s.text)) = n
  <2>1. \A i \in 1..n : (n - i) + 1 \in 1..n
    BY <1>1
  <2>2. Reverse(s.text) \in [1..n -> Chars]
    BY <1>1, <2>1 DEF Reverse
  <2> QED
    BY <1>1, <2>2, SequenceOf
<1>3. SkipBlanks(s.text, 0) \in 0..n
  BY <1>1, SkipBlanksIs
<1>4. last \in 0..n
  BY <1>1, <1>2, SkipBlanksIs
<1>5. n - last \in 0..n
  <2> HIDE DEF last, n
  <2> QED
    BY <1>1, <1>4
<1>6. Letters(s) \in Seq(Letter) /\ Len(Letters(s)) = n
  BY LettersAre
<1> QED
  BY <1>3, <1>5, <1>6, SomePart DEF Trimmed

\* renderTable spells the cells.
LEMMA TableRendered ==
  ASSUME NEW rows \in Seq(Seq(Built))
  PROVE  Rendered(Table(rows))
<1> DEFINE bar == Marks(<<" ", "x", " ">>)
           cells(row) == [i \in DOMAIN row |-> (IF i > 1 THEN bar ELSE <<>>) \o Trimmed(row[i])]
           lines == [i \in DOMAIN rows |-> Spelled(FlattenSeq(cells(rows[i])), "table")]
<1>1. bar \in Seq(Letter) /\ <<>> \in Seq(Letter)
  <2>1. bar \in Seq(Letter)
    BY MarksAre
  <2>2. \A X : <<>> \in Seq(X)
    OBVIOUS
  <2> HIDE DEF bar
  <2> QED
    BY <2>1, <2>2
<1> HIDE DEF bar
<1>2. Len(rows) \in Nat /\ DOMAIN rows = 1..Len(rows) /\ \A i \in 1..Len(rows) : rows[i] \in Seq(Built)
  OBVIOUS
<1>3. ASSUME NEW row \in Seq(Built)
      PROVE  cells(row) \in Seq(Seq(Letter))
  <2>1. Len(row) \in Nat /\ DOMAIN row = 1..Len(row) /\ \A i \in 1..Len(row) : row[i] \in Built
    OBVIOUS
  <2>2. ASSUME NEW i \in 1..Len(row)
        PROVE  (IF i > 1 THEN bar ELSE <<>>) \o Trimmed(row[i]) \in Seq(Letter)
    <3>1. Trimmed(row[i]) \in Seq(Letter)
      BY <2>1, BuiltIs, TrimmedIs
    <3> DEFINE first == IF i > 1 THEN bar ELSE <<>>
    <3>2. first \in Seq(Letter)
      BY <1>1
    <3> HIDE DEF first
    <3>3. first \o Trimmed(row[i]) \in Seq(Letter)
      BY <3>1, <3>2, ConcatProperties
    <3> QED
      BY <3>3 DEF first
  <2>3. cells(row) \in [1..Len(row) -> Seq(Letter)]
    BY <2>1, <2>2
  <2> HIDE DEF cells
  <2> QED
    BY <2>1, <2>3, SequenceOf
<1>4. Table(rows) = Joined(lines, <<NL>>)
  BY DEF Table, bar
<1> HIDE DEF cells
<1>5. ASSUME NEW i \in 1..Len(rows)
      PROVE  Spelled(FlattenSeq(cells(rows[i])), "table") \in Built
  <2>1. FlattenSeq(cells(rows[i])) \in Seq(Letter)
    BY <1>2, <1>3, FlattenedIs
  <2> QED
    BY <2>1, SpelledRendered, BuiltIs
<1>6. lines \in [1..Len(rows) -> Built]
  BY <1>2, <1>5
<1> HIDE DEF lines
<1>7. lines \in Seq(Built)
  BY <1>2, <1>6, SequenceOf
<1>8. Rendered(Joined(lines, <<NL>>))
  BY <1>7, SeparatorsAre, JoinedRendered
<1> QED
  BY <1>4, <1>8

\* Every renderer makes a segment that Telegram takes and shows as Markdown says, of segments
\* that are so: in all the formats of the constructs each unit stands in, but in quotes and
\* tables, and for the code and the links that Shows names, where it shows fewer of them.
THEOREM RenderersBuild ==
  /\ \A text \in Seq(Chars) : Rendered(Plain(text)) /\ Rendered(InlineCode(text)) /\ Rendered(CodeBlock(text))
  /\ \A s \in Built : /\ \A type \in {"bold", "italic", "strikethrough"} : Rendered(Wrapped(s, type))
                      /\ \A url \in Seq(Chars) : Rendered(Link(s, url))
  /\ \A segments \in Seq(Built) : Rendered(Inline(segments)) /\ Rendered(Blockquote(segments)) /\ Rendered(Root(segments))
  /\ \A parts \in Seq(Seq(Built)) : Rendered(List(parts)) /\ Rendered(Table(parts))
<1>1. \A text \in Seq(Chars) : Rendered(Plain(text)) /\ Rendered(InlineCode(text)) /\ Rendered(CodeBlock(text))
  BY PlainRendered, InlineCodeRendered, CodeBlockRendered
<1>2. \A s \in Built, type \in {"bold", "italic", "strikethrough"} : Rendered(Wrapped(s, type))
  BY BuiltIs, WrappedRendered
<1>3. \A s \in Built, url \in Seq(Chars) : Rendered(Link(s, url))
  BY BuiltIs, LinkRendered
<1>4. \A segments \in Seq(Built) : Rendered(Inline(segments)) /\ Rendered(Blockquote(segments)) /\ Rendered(Root(segments))
  BY InlineRendered, BlockquoteRendered, RootRendered
<1>5. \A parts \in Seq(Seq(Built)) : Rendered(List(parts)) /\ Rendered(Table(parts))
  BY ListRendered, TableRendered
<1> QED
  BY <1>1, <1>2, <1>3, <1>4, <1>5

--------------------------------------------------------------------------------
\* The messages of every answer.

\* The renderers lead from the set only into the set.
RenderersStayIn(S) ==
  /\ \A text \in Seq(Chars) : Plain(text) \in S /\ InlineCode(text) \in S /\ CodeBlock(text) \in S
  /\ \A s \in S : /\ \A type \in {"bold", "italic", "strikethrough"} : Wrapped(s, type) \in S
                  /\ \A url \in Seq(Chars) : Link(s, url) \in S
  /\ \A segments \in Seq(S) : Inline(segments) \in S /\ Blockquote(segments) \in S /\ Root(segments) \in S
  /\ \A parts \in Seq(Seq(S)) : List(parts) \in S /\ Table(parts) \in S

\* What can be rendered: the segments in every set that the renderers do not leave.
RenderedAnswers == {s \in Segments : \A S \in SUBSET Segments : RenderersStayIn(S) => s \in S}

\* The renderers do not leave the segments that are Rendered.
LEMMA RenderersStayInBuilt == Built \in SUBSET Segments /\ RenderersStayIn(Built)
<1>1. Built \in SUBSET Segments
  BY DEF Built, Segments
<1> QED
  BY <1>1, RenderersBuild, BuiltIs DEF RenderersStayIn

\* RenderedAnswers leaves out nothing: it holds what the renderers make of any Markdown tree,
\* for they do not leave it either.
LEMMA RenderersStayInAnswers == RenderersStayIn(RenderedAnswers)
<1>1. ASSUME NEW s, \A S \in SUBSET Segments : RenderersStayIn(S) => s \in S
      PROVE  s \in RenderedAnswers
  BY <1>1, RenderersStayInBuilt DEF RenderedAnswers
<1>2. ASSUME NEW S \in SUBSET Segments, RenderersStayIn(S)
      PROVE  /\ RenderedAnswers \subseteq S /\ Seq(RenderedAnswers) \subseteq Seq(S)
             /\ Seq(Seq(RenderedAnswers)) \subseteq Seq(Seq(S))
  <2>1. RenderedAnswers \subseteq S
    BY <1>2 DEF RenderedAnswers
  <2>2. \A A, B : A \subseteq B => Seq(A) \subseteq Seq(B)
    OBVIOUS
  <2> QED
    BY <2>1, <2>2
<1>3. ASSUME NEW text \in Seq(Chars)
      PROVE  Plain(text) \in RenderedAnswers /\ InlineCode(text) \in RenderedAnswers /\ CodeBlock(text) \in RenderedAnswers
  <2>1. \A S \in SUBSET Segments : RenderersStayIn(S) => Plain(text) \in S /\ InlineCode(text) \in S /\ CodeBlock(text) \in S
    BY DEF RenderersStayIn
  <2> QED
    BY <1>1, <2>1
<1>4. ASSUME NEW s \in RenderedAnswers, NEW type \in {"bold", "italic", "strikethrough"}
      PROVE  Wrapped(s, type) \in RenderedAnswers
  <2>1. \A S \in SUBSET Segments : RenderersStayIn(S) => Wrapped(s, type) \in S
    BY <1>2 DEF RenderersStayIn
  <2> QED
    BY <1>1, <2>1
<1>5. ASSUME NEW s \in RenderedAnswers, NEW url \in Seq(Chars)
      PROVE  Link(s, url) \in RenderedAnswers
  <2>1. \A S \in SUBSET Segments : RenderersStayIn(S) => Link(s, url) \in S
    BY <1>2 DEF RenderersStayIn
  <2> QED
    BY <1>1, <2>1
<1>6. ASSUME NEW segments \in Seq(RenderedAnswers)
      PROVE  /\ Inline(segments) \in RenderedAnswers /\ Blockquote(segments) \in RenderedAnswers
             /\ Root(segments) \in RenderedAnswers
  <2>1. \A S \in SUBSET Segments :
          RenderersStayIn(S) => Inline(segments) \in S /\ Blockquote(segments) \in S /\ Root(segments) \in S
    BY <1>2 DEF RenderersStayIn
  <2> QED
    BY <1>1, <2>1
<1>7. ASSUME NEW parts \in Seq(Seq(RenderedAnswers))
      PROVE  List(parts) \in RenderedAnswers /\ Table(parts) \in RenderedAnswers
  <2>1. \A S \in SUBSET Segments : RenderersStayIn(S) => List(parts) \in S /\ Table(parts) \in S
    BY <1>2 DEF RenderersStayIn
  <2> QED
    BY <1>1, <2>1
<1> QED
  BY <1>3, <1>4, <1>5, <1>6, <1>7 DEF RenderersStayIn

\* Whatever Markdown an answer is, its messages are its text, cut to the limit, and Telegram
\* takes each of them and shows every unit as Markdown says, but for what Shows excepts; a
\* character of two units is split only where the limit falls, or an entity begins, in it.
\* (renderTelegramMarkdown, chunkSegmentByLength.)
THEOREM EveryAnswerIsFaithful ==
  \A s \in RenderedAnswers, limit \in Nat \ {0, 1} : Faithful(s, limit)
<1> SUFFICES ASSUME NEW s \in RenderedAnswers, NEW limit \in Nat \ {0, 1}
             PROVE  Faithful(s, limit)
  OBVIOUS
<1>1. s \in Built
  BY RenderersStayInBuilt DEF RenderedAnswers
<1> QED
  BY <1>1, BuiltIs, RenderedArrives

\* chunkMessage loses nothing of a text but blanks between its messages, and splits a
\* character only where the limit falls in it, whatever the limit.
THEOREM EveryTextIsComplete ==
  \A text \in Seq(Chars) \ {<<>>}, limit \in Nat \ {0, 1} : Complete(text, limit)
BY TextArrives

\* A delivery that replies sends all of an answer's text, in the formats its Markdown asks
\* for, but for what Shows excepts, and in messages that Telegram takes.
THEOREM EveryAnswerArrivesWhole == Spec => []AnswersArriveWhole
<1>1. AnswersArriveWhole
  BY TextAssumption, AnswersAssumption, EveryMessageFaithful DEF AnswersArriveWhole
<1> QED
  BY <1>1, PTL
================================================================================
