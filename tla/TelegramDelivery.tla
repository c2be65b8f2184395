---------------------------- MODULE TelegramDelivery ----------------------------
(***************************************************************************)
(* Answers on Telegram: the adapter that polls for updates and hands texts   *)
(* to RunService, the background wait it registers for every run             *)
(* (TelegramBackgroundRunRegistry), the delivery each wait performs          *)
(* (TelegramRunDelivery), /cancel and /delete, start and stop of the bot,    *)
(* and the shutdown of the process.  A crash is an end of the behaviour at   *)
(* any point, a restart a behaviour of its own, from any Init.               *)
(*                                                                          *)
(* A delivery is one call of register that started a wait, numbered in       *)
(* order.  Its awaits are its stages: the progress reporter's start, the     *)
(* polling, the reply (with the reporter's finish), and, when something      *)
(* threw, the error message.  Calls to the Bot API end, well or badly, after *)
(* at most three attempts (callTelegramWithRetry); the reporter swallows its *)
(* own errors.  RunService and Telegram are the environment: a run is under  *)
(* way or has ended, and Telegram keeps an update until a later request for  *)
(* updates confirms it.                                                      *)
(***************************************************************************)
EXTENDS Naturals, FiniteSets

CONSTANTS
  Threads,
  TextRuns,         \* runs of texts, each the text of one update
  TaskRuns,         \* runs of scheduled tasks
  ThreadOf,         \* the thread of each run
  None,
  MaxDeliveries, MaxCancels   \* bounds

Runs == TextRuns \cup TaskRuns
Ids == 1..MaxDeliveries

ASSUME ConstantsAssumption ==
  /\ ThreadOf \in [Runs -> Threads]
  /\ None \notin Ids
  /\ MaxDeliveries \in Nat /\ MaxCancels \in Nat

VARIABLES
  process,      \* "up", then what close awaits: "aborting" (abortAllAndWait),
                \* "stopping" (runner.stop), "stopped" (app.close), "closing"
                \* (runService.shutdown), and "exited"
  handle,       \* this.runner is set
  starting,     \* calls of start that await bot.init
  loops,        \* runners that poll
  status,       \* [Runs -> "none", "running", "ended"]
  held,         \* texts whose updates Telegram still holds
  fetched,      \* texts the polling runner was given
  used, run, stage, aborted,    \* deliveries: how many, and fields of each
  tasks, taskOf,                \* tasks, and tasksByRunId
  controllers,  \* abortControllers; abortControllersByThread is the same by thread
  awaited,      \* the tasks abortAllAndWait found
  cancelling,   \* threads whose /cancel stopped a run and awaits its reply
  cancels,      \* how many
  exposed, late \* history: deliveries a stop of theirs could silence, and those
                \* registered after the shutdown began

bot == <<handle, starting, loops, held, fetched>>
registry == <<used, run, tasks, taskOf, controllers, late>>
vars == <<process, bot, status, registry, stage, aborted, awaited, cancelling,
          exposed, cancels>>

InProgress(d) == stage[d] \in {"starting", "polling", "replying", "telling"}

\* A process starts: runs and updates are as the processes before it left them.
Init ==
  /\ process = "up"
  /\ handle = FALSE /\ starting = 0 /\ loops = 0
  /\ status \in [Runs -> {"none", "running", "ended"}]
  /\ held \in SUBSET TextRuns /\ fetched = {}
  /\ \A r \in TextRuns \ held : status[r] # "none"
  /\ used = 0
  /\ run = [d \in Ids |-> None] /\ stage = [d \in Ids |-> "none"]
  /\ aborted = [d \in Ids |-> FALSE]
  /\ tasks = {} /\ taskOf = [r \in Runs |-> None]
  /\ controllers = {} /\ awaited = {}
  /\ cancelling = {} /\ cancels = 0
  /\ exposed = {} /\ late = {}

--------------------------------------------------------------------------------
\* The registry.

\* A controller, the delivery up to the await of the reporter, and the entries.
StartDelivery(r) ==
  LET d == used + 1 IN
  /\ d \in Ids
  /\ used' = d
  /\ run' = [run EXCEPT ![d] = r]
  /\ stage' = [stage EXCEPT ![d] = "starting"]
  /\ tasks' = tasks \cup {d} /\ taskOf' = [taskOf EXCEPT ![r] = d]
  /\ controllers' = controllers \cup {d}
  /\ late' = IF process = "up" THEN late ELSE late \cup {d}
  /\ exposed' = IF ThreadOf[r] \in cancelling THEN exposed \cup {d} ELSE exposed

\* Mutant of Register: tasksByRunId is not looked at.
RegisterAgain(r) == StartDelivery(r)

\* register: one wait per run.
Register(r) ==
  \/ taskOf[r] # None /\ UNCHANGED <<registry, stage, exposed>>
  \/ taskOf[r] = None /\ StartDelivery(r)

\* The finally of register, of a delivery that ends in a stage: it removes the entry
\* of its run, whichever delivery has it by then.
Ends(d, how) ==
  /\ stage' = [stage EXCEPT ![d] = how]
  /\ tasks' = tasks \ {d} /\ taskOf' = [taskOf EXCEPT ![run[d]] = None]
  /\ controllers' = controllers \ {d}
  /\ UNCHANGED <<used, run, late>>

\* Mutant of OfThread: the controllers of all threads.
OfAnyThread(t) == controllers

OfThread(t) == {d \in controllers : ThreadOf[run[d]] = t}

Abort(D) == aborted' = [d \in Ids |-> aborted[d] \/ d \in D]

--------------------------------------------------------------------------------
\* Handlers of updates, and the tick and run-now of scheduled tasks.

\* A text: ingestMessage commits the run, or finds the one it committed when the
\* update came before, and deliverRun registers it.
HandleText(r) ==
  /\ loops > 0 /\ process # "exited"
  /\ r \in held \ fetched
  /\ fetched' = fetched \cup {r}
  /\ status' = [status EXCEPT ![r] = IF @ = "none" THEN "running" ELSE @]
  /\ Register(r)
  /\ UNCHANGED <<process, handle, starting, loops, held, aborted, awaited, cancelling, cancels>>

\* The next request for updates confirms those before it.
ConfirmUpdates ==
  /\ loops > 0 /\ process # "exited"
  /\ held \cap fetched # {}
  /\ held' = held \ fetched
  /\ UNCHANGED <<process, handle, starting, loops, fetched, status, registry, stage,
                 aborted, awaited, cancelling, exposed, cancels>>

\* A scheduled task's run: when it is dispatched, by the tick or a request, and by every
\* tick that finds it still running.  app.close waits for the requests.
DeliverTaskRun(r) ==
  /\ process \in {"up", "aborting", "stopping", "stopped"}
  /\ status' = [status EXCEPT ![r] = IF @ = "none" THEN "running" ELSE @]
  /\ Register(r)
  /\ UNCHANGED <<process, bot, aborted, awaited, cancelling, cancels>>

RunEnds(r) ==
  /\ status[r] = "running"
  /\ status' = [status EXCEPT ![r] = "ended"]
  /\ UNCHANGED <<process, bot, registry, stage, aborted, awaited, cancelling, exposed, cancels>>

\* /cancel, once cancelThreadRun has found work in the thread and stopped it: the
\* handler awaits the confirmation it sends.
CancelRun(t) ==
  /\ loops > 0 /\ process # "exited"
  /\ t \notin cancelling /\ cancels < MaxCancels
  /\ \E r \in Runs : ThreadOf[r] = t /\ status[r] = "running"
  /\ cancelling' = cancelling \cup {t} /\ cancels' = cancels + 1
  /\ exposed' = exposed \cup {d \in Ids : InProgress(d) /\ ThreadOf[run[d]] = t}
  /\ UNCHANGED <<process, bot, status, registry, stage, aborted, awaited>>

\* The confirmation is sent, and onThreadCancelled aborts the thread's deliveries; or
\* sending it failed, and the handler throws.
CancelReplied(t) ==
  /\ t \in cancelling
  /\ cancelling' = cancelling \ {t}
  /\ Abort(OfThread(t)) \/ UNCHANGED aborted
  /\ UNCHANGED <<process, bot, status, registry, stage, awaited, exposed, cancels>>

\* /delete, when Telegram has deleted the topic.
DeleteTopic(t) ==
  /\ loops > 0 /\ process # "exited" /\ cancels < MaxCancels
  /\ cancels' = cancels + 1
  /\ exposed' = exposed \cup {d \in Ids : InProgress(d) /\ ThreadOf[run[d]] = t}
  /\ Abort(OfThread(t))
  /\ UNCHANGED <<process, bot, status, registry, stage, awaited, cancelling>>

--------------------------------------------------------------------------------
\* Deliveries (deliverRun).

\* Mutant of SeesAbort: only while there is nothing to deliver.
SeesAbortLate(d) == aborted[d] /\ status[run[d]] = "ended"

SeesAbort(d) == aborted[d]

Delivers(d) == UNCHANGED <<process, bot, status, aborted, awaited, cancelling, exposed, cancels>>

ReporterStarted(d) ==
  /\ stage[d] = "starting" /\ process # "exited"
  /\ stage' = [stage EXCEPT ![d] = "polling"]
  /\ UNCHANGED registry /\ Delivers(d)

\* waitForCompletion: a poll that ends the wait.  The abort's error ends the delivery
\* in silence; a read that fails is told like any other error.
Poll(d) ==
  /\ stage[d] = "polling" /\ process # "exited"
  /\ \/ SeesAbort(d) /\ Ends(d, "silent")
     \/ /\ ~SeesAbort(d) /\ status[run[d]] = "ended"
        /\ stage' = [stage EXCEPT ![d] = "replying"] /\ UNCHANGED registry
  /\ Delivers(d)

PollFails(d) ==
  /\ stage[d] = "polling" /\ process # "exited" /\ ~SeesAbort(d)
  /\ stage' = [stage EXCEPT ![d] = "telling"] /\ UNCHANGED registry
  /\ Delivers(d)

\* replyRunResult, after the reporter's finish.  Nothing looks at the signal here.
Reply(d) ==
  /\ stage[d] = "replying" /\ process # "exited"
  /\ \/ Ends(d, "over")
     \/ stage' = [stage EXCEPT ![d] = "telling"] /\ UNCHANGED registry
  /\ Delivers(d)

\* The error message.  When it cannot be sent either, the delivery rejects: nothing
\* handles that, and the process exits, unless abortAllAndWait awaits the task.
Tell(d) ==
  /\ stage[d] = "telling" /\ process # "exited"
  /\ Ends(d, "over")
  /\ \/ UNCHANGED process
     \/ d \notin awaited /\ process' = "exited"
  /\ UNCHANGED <<bot, status, aborted, awaited, cancelling, exposed, cancels>>

--------------------------------------------------------------------------------
\* Start and shutdown.

\* start: at boot, and from createTaskTopic and syncTaskTopicTitle, at any time while
\* the server takes requests.  The handle is looked at before bot.init is awaited.
BeginStart ==
  /\ process \in {"up", "aborting", "stopping", "stopped"}
  /\ ~handle /\ starting + loops < 2
  /\ starting' = starting + 1
  /\ UNCHANGED <<process, handle, loops, held, fetched, status, registry, stage,
                 aborted, awaited, cancelling, exposed, cancels>>

\* run(bot): a new runner asks for all the updates that are not confirmed.
BotInited ==
  /\ starting > 0 /\ process # "exited"
  /\ starting' = starting - 1 /\ loops' = loops + 1
  /\ handle' = TRUE /\ fetched' = {}
  /\ UNCHANGED <<process, held, status, registry, stage, aborted, awaited, cancelling,
                 exposed, cancels>>

\* close: the adapter's stop begins with abortAllAndWait.
BeginStop ==
  /\ process = "up"
  /\ process' = "aborting"
  /\ Abort(controllers) /\ awaited' = tasks
  /\ exposed' = exposed \cup controllers
  /\ UNCHANGED <<bot, status, registry, stage, cancelling, cancels>>

\* Mutant of AwaitedSettled: the wait ends with the first of them.
OneSettled == awaited = {} \/ \E d \in awaited : ~InProgress(d)

AwaitedSettled == \A d \in awaited : ~InProgress(d)

\* All the tasks it found have settled; the maps are cleared, with what else they hold.
TasksSettled ==
  /\ process = "aborting" /\ AwaitedSettled
  /\ process' = IF handle THEN "stopping" ELSE "stopped"
  /\ tasks' = {} /\ taskOf' = [r \in Runs |-> None] /\ controllers' = {}
  /\ UNCHANGED <<bot, status, used, run, late, stage, aborted, awaited, cancelling,
                 exposed, cancels>>

RunnerStopped ==
  /\ process = "stopping"
  /\ process' = "stopped"
  /\ handle' = FALSE /\ loops' = loops - 1
  /\ UNCHANGED <<starting, held, fetched, status, registry, stage, aborted, awaited,
                 cancelling, exposed, cancels>>

\* app.close, then runService.shutdown, then process.exit.
CloseServer ==
  /\ \/ process = "stopped" /\ process' = "closing"
     \/ process = "closing" /\ process' = "exited"
  /\ UNCHANGED <<bot, status, registry, stage, aborted, awaited, cancelling, exposed, cancels>>

--------------------------------------------------------------------------------
Deliveries(d) ==
  ReporterStarted(d) \/ Poll(d) \/ PollFails(d) \/ Reply(d) \/ Tell(d)

Shutdown == BeginStop \/ TasksSettled \/ RunnerStopped \/ CloseServer

Next ==
  \/ \E r \in TextRuns : HandleText(r)
  \/ \E r \in TaskRuns : DeliverTaskRun(r)
  \/ \E r \in Runs : RunEnds(r)
  \/ \E t \in Threads : CancelRun(t) \/ CancelReplied(t) \/ DeleteTopic(t)
  \/ \E d \in Ids : Deliveries(d)
  \/ ConfirmUpdates \/ BeginStart \/ BotInited
  \/ Shutdown

Spec == Init /\ [][Next]_vars

\* Timers fire and calls to the Bot API end; close goes on when what it awaits is over.
\* A run may go on forever.
Fairness ==
  /\ \A d \in Ids : /\ WF_vars(ReporterStarted(d)) /\ WF_vars(Poll(d))
                    /\ WF_vars(Reply(d)) /\ WF_vars(Tell(d))
  /\ WF_vars(TasksSettled)

FairSpec == Spec /\ Fairness

--------------------------------------------------------------------------------
\* Properties.

TypeOK ==
  /\ process \in {"up", "aborting", "stopping", "stopped", "closing", "exited"}
  /\ handle \in BOOLEAN /\ starting \in Nat /\ loops \in Nat
  /\ status \in [Runs -> {"none", "running", "ended"}]
  /\ held \subseteq TextRuns /\ fetched \subseteq TextRuns
  /\ used \in 0..MaxDeliveries /\ run \in [Ids -> Runs \cup {None}]
  /\ stage \in [Ids -> {"none", "starting", "polling", "replying", "telling",
                        "silent", "over"}]
  /\ aborted \in [Ids -> BOOLEAN]
  /\ taskOf \in [Runs -> Ids \cup {None}]
  /\ tasks \subseteq Ids /\ controllers \subseteq Ids /\ awaited \subseteq Ids
  /\ exposed \subseteq Ids /\ late \subseteq Ids
  /\ cancelling \subseteq Threads /\ cancels \in Nat

\* A run's answer is left out only by a stop that concerned it: a /cancel that found
\* work in the run's thread and was under way during the delivery, the deletion of
\* its topic, or the shutdown.  The answers of other threads are never lost.
SilencedOnlyByItsThread == \A d \in Ids : stage[d] = "silent" => d \in exposed

\* A run is not delivered twice at the same time, however often its update or its
\* task's occurrence comes again: two progress messages and two answers would follow.
\* Deliveries registered during the shutdown may be forgotten by the registry.
OneDeliveryPerRun ==
  \A d, e \in Ids :
    InProgress(d) /\ InProgress(e) /\ run[d] = run[e] => d = e \/ d \in late \/ e \in late

\* When abortAllAndWait is over, the only deliveries still under way are those that
\* were registered after it began.
LeftoversAreLate ==
  process \in {"stopping", "stopped", "closing"} => \A d \in Ids : InProgress(d) => d \in late

\* abortAllAndWait comes to an end although runs may never do: each wait notices the
\* abort.
StopReturns == process = "aborting" ~> process # "aborting"
================================================================================
