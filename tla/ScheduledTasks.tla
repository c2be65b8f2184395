---------------------------- MODULE ScheduledTasks -----------------------------
(***************************************************************************)
(* ScheduledTaskService and its SQLite tables: tasks that fall due, their    *)
(* occurrences (scheduled_task_runs) and the runs dispatched for them.       *)
(*                                                                          *)
(* The service is a set of asynchronous chains on one event loop: the tick,  *)
(* and one chain for every run-now request.  SQLite is called synchronously, *)
(* so a chain keeps the event loop (holder) from step to step until it       *)
(* awaits the Telegram API, which happens when it creates a topic.  Each     *)
(* database write is a step of its own, because the process may die between  *)
(* any two.                                                                 *)
(*                                                                          *)
(* RunService is present as what a run of an occurrence is: it was ingested  *)
(* under the occurrence's idempotency key with a payload (thread and text),  *)
(* and settles by itself.                                                   *)
(***************************************************************************)
EXTENDS Naturals, Sequences, FiniteSets

CONSTANTS
  Tasks,          \* task ids
  Tick,           \* the chain of the timer
  Callers,        \* run-now requests
  None,           \* null
  TopicTasks,     \* tasks created from a Telegram thread: delivered to a topic
  Kinds,          \* schedules: "once", "forever", "finite" (an RRULE that ends)
  LastSlot,       \* last occurrence of a finite rule
  Edits,          \* kinds of edits: "text", "disable", "reschedule", "unbind", "delete"
  DueBatch, RecoveryBatch,                 \* dueBatchSize, recoveryBatchSize
  MaxTime, MaxTopics, MaxEdits, MaxCrashes \* bounds

Slots == 0..MaxTime
Times == 0..(MaxTime + 1)
Threads == 0..MaxTopics     \* 0: the thread of a task without topics
Actors == Callers \cup {Tick}
Occurrences == [task : Tasks, at : Slots]
Terminal == {"succeeded", "failed"}
Statuses == {"none", "pending", "dispatched"} \cup Terminal
Runs == [thread : Threads, text : 0..MaxEdits, status : {"running"} \cup Terminal]
Steps == {"idle", "advance", "ensure", "topic", "dispatch", "mark", "fail", "done"}

\* A chain's work: the occurrence, what it read of the task's row, whether the
\* occurrence was pending then, and the status ingest answered with.
Jobs == [occ : Occurrences, thread : Threads \cup {None}, text : 0..MaxEdits,
         pending : BOOLEAN, seen : {None, "running"} \cup Terminal]
Rows == [occ : Occurrences, thread : Threads \cup {None}, text : 0..MaxEdits]

ASSUME ConstantsAssumption ==
  /\ Tick \notin Callers /\ None \notin Nat /\ None \notin Actors
  /\ None \notin {"once", "forever", "finite"}
  /\ None \notin Runs /\ None \notin Jobs /\ None \notin {"running"} \cup Terminal
  /\ TopicTasks \subseteq Tasks
  /\ Kinds \subseteq {"once", "forever", "finite"}
  /\ Edits \subseteq {"text", "disable", "reschedule", "unbind", "delete"}
  /\ LastSlot \in Nat /\ MaxTime \in Nat /\ MaxTopics \in Nat
  /\ MaxEdits \in Nat /\ MaxCrashes \in Nat
  /\ DueBatch \in Nat \ {0} /\ RecoveryBatch \in Nat \ {0}

VARIABLES
  \* scheduled_tasks
  live,           \* tasks with a row
  kind,           \* [Tasks -> Kinds or None]: schedule_kind; None: never created
  enabled,        \* enabled tasks
  next,           \* [Tasks -> Times or None]: next_run_at
  text,           \* [Tasks -> 0..MaxEdits]: version of title and instructions
  thread,         \* [Tasks -> Threads or None]: execution_thread_key and its route
  \* scheduled_task_runs
  status,         \* [Occurrences -> Statuses]; "none": no row
  created,        \* occurrences in the order of created_at; those of deleted tasks
                  \* stay here (a task id is never used again), without a row
  \* runs, by idempotency key
  runs,           \* [Occurrences -> None or [thread, text, status]]
  \* the process
  up,
  holder,         \* the chain that runs on the event loop
  phase,          \* of the tick: "idle", "due", "resume", "reconcile"
  dueList,        \* the rows processDueTasks has yet to look at
  taskRuns,       \* the occurrences the other two loops have yet to look at, oldest first
  pc,             \* [Actors -> Steps]: the occurrence each chain works on, and where
  job,            \* [Actors -> Jobs]
  \* the world
  now, topics, edits, crashes,
  rejected        \* a tick was rejected, unhandled

taskRows == <<live, kind, enabled, next, text, thread>>
tick == <<phase, dueList, taskRuns>>
world == <<now, topics, edits, crashes, rejected>>
vars == <<taskRows, status, created, runs, up, holder, tick, pc, job, world>>

\* The row of the task as it is now, for the occurrence o.
RowOf(o) == [occ |-> o, thread |-> thread[o.task], text |-> text[o.task]]
JobOf(row, pending) ==
  [occ |-> row.occ, thread |-> row.thread, text |-> row.text,
   pending |-> pending, seen |-> None]

Init ==
  /\ live = {} /\ enabled = {}
  /\ kind = [k \in Tasks |-> None]
  /\ next = [k \in Tasks |-> None]
  /\ text = [k \in Tasks |-> 0]
  /\ thread = [k \in Tasks |-> None]
  /\ status = [o \in Occurrences |-> "none"] /\ created = <<>>
  /\ runs = [o \in Occurrences |-> None]
  /\ up = TRUE /\ holder = None
  /\ phase = "idle" /\ dueList = <<>> /\ taskRuns = {}
  /\ pc = [a \in Actors |-> "idle"]
  /\ job = [a \in Actors |-> None]
  /\ now = 0 /\ topics = 0 /\ edits = 0 /\ crashes = 0 /\ rejected = FALSE

--------------------------------------------------------------------------------
\* Schedules.

\* Initial next_run_at: any time for "once" (past ones too), the next slot for a rule.
InitialNext(s) ==
  CASE s = "once" -> Slots
    [] s = "forever" -> {now + 1}
    [] s = "finite" -> {now + 1} \cap 0..LastSlot

\* A rule without further occurrences has no next one: the computation throws.
Exhausted(k) == kind[k] = "finite" /\ now + 1 > LastSlot

--------------------------------------------------------------------------------
\* Requests on the event loop: creating, editing and deleting tasks.

\* createTask
CreateTask(k) ==
  /\ up /\ holder = None
  /\ kind[k] = None
  /\ \E s \in Kinds : /\ kind' = [kind EXCEPT ![k] = s]
                     /\ \E t \in InitialNext(s) : next' = [next EXCEPT ![k] = t]
  /\ live' = live \cup {k}
  /\ enabled' = enabled \cup {k}
  /\ UNCHANGED <<text, thread, status, created, runs, up, holder, tick, pc, job, world>>

\* updateTask, clearExecutionThreadByThreadKey (a topic deleted by its user) and
\* deleteTask, which takes the occurrences of the task with it.
Edit(e, k) ==
  \/ /\ e = "text"
     /\ text' = [text EXCEPT ![k] = @ + 1]
     /\ UNCHANGED <<live, enabled, next, thread, status, created>>
  \/ /\ e = "disable"
     /\ enabled' = enabled \ {k}
     /\ next' = [next EXCEPT ![k] = None]
     /\ UNCHANGED <<live, text, thread, status, created>>
  \/ /\ e = "reschedule"
     /\ enabled' = enabled \cup {k}
     /\ \E t \in InitialNext(kind[k]) : next' = [next EXCEPT ![k] = t]
     /\ UNCHANGED <<live, text, thread, status, created>>
  \/ /\ e = "unbind" /\ k \in TopicTasks /\ thread[k] # None
     /\ thread' = [thread EXCEPT ![k] = None]
     /\ UNCHANGED <<live, enabled, next, text, status, created>>
  \/ /\ e = "delete"
     /\ live' = live \ {k}
     /\ enabled' = enabled \ {k}
     /\ next' = [next EXCEPT ![k] = None]
     /\ thread' = [thread EXCEPT ![k] = None]
     /\ status' = [o \in Occurrences |-> IF o.task = k THEN "none" ELSE status[o]]
     /\ UNCHANGED <<text, created>>

EditTask(k) ==
  /\ up /\ holder = None
  /\ k \in live /\ edits < MaxEdits
  /\ edits' = edits + 1
  /\ \E e \in Edits : Edit(e, k)
  /\ UNCHANGED <<kind, runs, up, holder, tick, pc, job, now, topics, crashes, rejected>>

--------------------------------------------------------------------------------
\* The occurrence rows.

\* createOrGetTaskRun
CreateOrGet(o) ==
  IF status[o] = "none"
    THEN /\ status' = [status EXCEPT ![o] = "pending"]
         /\ created' = Append(created, o)
    ELSE UNCHANGED <<status, created>>

\* Mutant of Markable: only what was dispatched can be settled.
MarkableDispatched(o, outcome) == status[o] \in {"dispatched", outcome}

\* markTaskRunTerminal does nothing, writes, or throws: it throws when the row is
\* gone or has the other outcome.
Markable(o, outcome) == status[o] \in {"pending", "dispatched", outcome}
MarkTerminal(o, outcome) == status' = [status EXCEPT ![o] = outcome]

\* q was created before o.
Before(q, o) ==
  \E i, j \in 1..Len(created) : i < j /\ created[i] = q /\ created[j] = o

\* listTaskRunsByStatuses: the oldest rows with the status.
Listed(s) ==
  LET rows == {o \in Occurrences : status[o] = s}
  IN {o \in rows : Cardinality({q \in rows : Before(q, o)}) < RecoveryBatch}

\* The row a loop over them comes to next.
IsFirst(o) == o \in taskRuns /\ \A q \in taskRuns : ~Before(q, o)

--------------------------------------------------------------------------------
\* How a chain goes on.

\* A chain is done with its occurrence: the tick keeps the event loop for the next
\* one, a request is answered.
Finish(a) ==
  /\ pc' = [pc EXCEPT ![a] = IF a = Tick THEN "idle" ELSE "done"]
  /\ holder' = IF a = Tick THEN Tick ELSE None
  /\ UNCHANGED <<up, tick, job>>

\* The process ends: what the chains knew is lost.
ProcessEnds ==
  /\ up' = FALSE /\ holder' = None
  /\ phase' = "idle" /\ dueList' = <<>> /\ taskRuns' = {}
  /\ pc' = [a \in Actors |-> IF a = Tick \/ pc[a] = "idle" THEN "idle" ELSE "done"]
  /\ job' = [a \in Actors |-> None]

\* A chain throws: a request is answered with the error; nothing handles the
\* rejection of a tick, and Node ends the process.
Throws(a) ==
  IF a = Tick THEN ProcessEnds /\ rejected' = TRUE
  ELSE Finish(a) /\ UNCHANGED rejected

\* After the thread is known: processDueTasks leaves an occurrence alone that was
\* dispatched before, everything else is dispatched.
Proceed(a, j) ==
  pc' = [pc EXCEPT ![a] = IF a = Tick /\ phase = "due" /\ ~j.pending THEN "idle" ELSE "dispatch"]

--------------------------------------------------------------------------------
\* The tick: due tasks, then pending occurrences, then dispatched ones.

\* The enabled tasks whose time has come.
Due == {k \in enabled : next[k] # None /\ next[k] <= now}

\* s holds the first n of them by next_run_at: DueBatch, or all there are.
FirstDue(s, n) ==
  /\ \A i, j \in 1..n : i < j => s[i] # s[j] /\ next[s[i]] <= next[s[j]]
  /\ \A k \in Due :
       \/ \E i \in 1..n : s[i] = k
       \/ n = DueBatch /\ \A i \in 1..n : next[s[i]] <= next[k]

\* listDueTasks
DueLists ==
  UNION {{[i \in 1..n |-> RowOf([task |-> s[i], at |-> next[s[i]]])]
            : s \in {d \in [1..n -> Due] : FirstDue(d, n)}} : n \in 0..DueBatch}

\* runTick and the query of processDueTasks
StartTick ==
  /\ up /\ holder = None /\ phase = "idle"
  /\ phase' = "due"
  /\ dueList' \in DueLists
  /\ holder' = Tick
  /\ UNCHANGED <<taskRows, status, created, runs, up, taskRuns, pc, job, world>>

TickIsFree == up /\ holder = Tick /\ pc[Tick] = "idle"

\* processDueTasks takes the next row it has read; the insert fails when the task is
\* gone.
TakeDue ==
  /\ TickIsFree /\ phase = "due" /\ dueList # <<>>
  /\ LET row == Head(dueList) IN
     IF row.occ.task \in live
       THEN /\ CreateOrGet(row.occ)
            /\ dueList' = Tail(dueList)
            /\ pc' = [pc EXCEPT ![Tick] = "advance"]
            /\ job' = [job EXCEPT ![Tick] =
                         JobOf(row, status[row.occ] \in {"none", "pending"})]
            /\ UNCHANGED <<up, holder, phase, taskRuns, rejected>>
       ELSE Throws(Tick) /\ UNCHANGED <<status, created>>
  /\ UNCHANGED <<taskRows, runs, now, topics, edits, crashes>>

\* Mutant of AdvanceTask: the row moves on whatever it says by now.
AdvanceTaskUnguarded(k, at) ==
  /\ enabled' = IF kind[k] = "once" THEN enabled \ {k} ELSE enabled \cup {k}
  /\ next' = [next EXCEPT ![k] = IF kind[k] = "once" THEN None ELSE now + 1]

\* Mutant of AdvanceTask: a recurring task keeps its time.
AdvanceTaskOnceOnly(k, at) ==
  IF next[k] # at \/ kind[k] # "once" THEN UNCHANGED <<enabled, next>>
  ELSE enabled' = enabled \ {k} /\ next' = [next EXCEPT ![k] = None]

\* advanceTaskAfterOccurrence: only if next_run_at is still this occurrence's.
AdvanceTask(k, at) ==
  IF next[k] # at THEN UNCHANGED <<enabled, next>>
  ELSE /\ enabled' = IF kind[k] = "once" THEN enabled \ {k} ELSE enabled \cup {k}
       /\ next' = [next EXCEPT ![k] = IF kind[k] = "once" THEN None ELSE now + 1]

\* The schedule moves on, before anything is dispatched.
Advance ==
  /\ up /\ holder = Tick /\ pc[Tick] = "advance"
  /\ LET o == job[Tick].occ IN
     IF Exhausted(o.task)
       THEN Throws(Tick) /\ UNCHANGED <<enabled, next>>
       ELSE /\ AdvanceTask(o.task, o.at)
            /\ pc' = [pc EXCEPT ![Tick] = "ensure"]
            /\ UNCHANGED <<up, holder, tick, job, rejected>>
  /\ UNCHANGED <<live, kind, text, thread, status, created, runs, now, topics, edits, crashes>>

EndDue ==
  /\ TickIsFree /\ phase = "due" /\ dueList = <<>>
  /\ phase' = "resume"
  /\ taskRuns' = Listed("pending")
  /\ UNCHANGED <<taskRows, status, created, runs, up, holder, dueList, pc, job, world>>

\* resumePendingTaskRuns takes the next occurrence it has read, with its task's row.
TakePending ==
  /\ TickIsFree /\ phase = "resume"
  /\ \E o \in Occurrences :
       /\ IsFirst(o)
       /\ taskRuns' = taskRuns \ {o}
       /\ IF o.task \in live
            THEN /\ pc' = [pc EXCEPT ![Tick] = "ensure"]
                 /\ job' = [job EXCEPT ![Tick] = JobOf(RowOf(o), TRUE)]
            ELSE UNCHANGED <<pc, job>>
  /\ UNCHANGED <<taskRows, status, created, runs, up, holder, phase, dueList, world>>

EndResume ==
  /\ TickIsFree /\ phase = "resume" /\ taskRuns = {}
  /\ phase' = "reconcile"
  /\ taskRuns' = Listed("dispatched")
  /\ UNCHANGED <<taskRows, status, created, runs, up, holder, dueList, pc, job, world>>

\* Mutant of Reconciled: a run that is not finished counts as failed.
ReconciledEarly(o) == IF runs[o].status = "succeeded" THEN "succeeded" ELSE "failed"

\* Mutant of Reconciled: a failed run counts as succeeded.
ReconciledSettled(o) == IF runs[o].status = "running" THEN status[o] ELSE "succeeded"

\* Mutant of Reconciled: a failed run is overlooked.
ReconciledSucceeded(o) == IF runs[o].status = "succeeded" THEN "succeeded" ELSE status[o]

\* The status a dispatched occurrence takes over from its run.
Reconciled(o) ==
  IF runs[o].status = "running" THEN status[o] ELSE runs[o].status

\* reconcileDispatchedTaskRuns
Reconcile ==
  /\ TickIsFree /\ phase = "reconcile"
  /\ \E o \in Occurrences :
       /\ IsFirst(o)
       /\ taskRuns' = taskRuns \ {o}
       /\ MarkTerminal(o, Reconciled(o))
  /\ UNCHANGED <<taskRows, created, runs, up, holder, phase, dueList, pc, job, world>>

EndTick ==
  /\ TickIsFree /\ phase = "reconcile" /\ taskRuns = {}
  /\ phase' = "idle"
  /\ holder' = None
  /\ UNCHANGED <<taskRows, status, created, runs, up, dueList, taskRuns, pc, job, world>>

--------------------------------------------------------------------------------
\* A run-now request, and the steps it shares with the tick.

\* runNow: the occurrence of this moment.
RunNow(a, k) ==
  LET o == [task |-> k, at |-> now] IN
  /\ up /\ holder = None
  /\ a # Tick /\ pc[a] = "idle"
  /\ k \in live
  /\ CreateOrGet(o)
  /\ pc' = [pc EXCEPT ![a] = "ensure"]
  /\ job' = [job EXCEPT ![a] = JobOf(RowOf(o), TRUE)]
  /\ holder' = a
  /\ UNCHANGED <<taskRows, runs, up, tick, world>>

\* setTaskExecutionThread and loadTaskOrThrow: both throw when the task is gone.
BindThread(a, th) ==
  LET k == job[a].occ.task
      j == [job[a] EXCEPT !.thread = th, !.text = text[k]]
  IN IF k \in live
       THEN /\ thread' = [thread EXCEPT ![k] = th]
            /\ job' = [job EXCEPT ![a] = j]
            /\ Proceed(a, j)
       ELSE /\ pc' = [pc EXCEPT ![a] = "fail"]
            /\ UNCHANGED <<thread, job>>

\* Mutant of NeedsThread: a topic for every occurrence.
NeedsThreadAlways(j) == TRUE

\* ensureExecutionThread returns at once when the row it was given has a thread.
NeedsThread(j) == j.thread = None

\* ensureExecutionThread, up to the answer of the Telegram API.
EnsureThread(a) ==
  /\ up /\ holder = a /\ pc[a] = "ensure"
  /\ \/ /\ ~NeedsThread(job[a])
        /\ Proceed(a, job[a])
        /\ UNCHANGED <<thread, job, holder>>
     \/ /\ NeedsThread(job[a]) /\ job[a].occ.task \in TopicTasks
        /\ pc' = [pc EXCEPT ![a] = "topic"]
        /\ holder' = None
        /\ UNCHANGED <<thread, job>>
     \/ /\ NeedsThread(job[a]) /\ job[a].occ.task \notin TopicTasks
        /\ BindThread(a, 0)
        /\ UNCHANGED holder
  /\ UNCHANGED <<live, kind, enabled, next, text, status, created, runs, up, tick, world>>

\* createTaskTopic answers with a new topic or fails.
TopicAnswer(a) ==
  /\ up /\ holder = None /\ pc[a] = "topic"
  /\ holder' = a
  /\ \/ /\ topics < MaxTopics
        /\ topics' = topics + 1
        /\ BindThread(a, topics + 1)
     \/ /\ pc' = [pc EXCEPT ![a] = "fail"]
        /\ UNCHANGED <<topics, thread, job>>
  /\ UNCHANGED <<live, kind, enabled, next, text, status, created, runs, up, tick,
                 now, edits, crashes, rejected>>

\* dispatchTaskRun: ingest under the occurrence's key creates the run, or answers
\* with the one there is, or refuses because the payload is another.
Dispatch(a) ==
  LET j == job[a]
      payload == [thread |-> j.thread, text |-> j.text]
  IN
  /\ up /\ holder = a /\ pc[a] = "dispatch"
  /\ \/ /\ runs[j.occ] = None
        /\ runs' = [runs EXCEPT ![j.occ] =
                      [thread |-> j.thread, text |-> j.text, status |-> "running"]]
        /\ job' = [job EXCEPT ![a].seen = "running"]
        /\ pc' = [pc EXCEPT ![a] = "mark"]
     \/ /\ runs[j.occ] # None
        /\ payload = [thread |-> runs[j.occ].thread, text |-> runs[j.occ].text]
        /\ job' = [job EXCEPT ![a].seen = runs[j.occ].status]
        /\ pc' = [pc EXCEPT ![a] = "mark"]
        /\ UNCHANGED runs
     \/ /\ runs[j.occ] # None
        /\ payload # [thread |-> runs[j.occ].thread, text |-> runs[j.occ].text]
        /\ pc' = [pc EXCEPT ![a] = "fail"]
        /\ UNCHANGED <<runs, job>>
  /\ UNCHANGED <<taskRows, status, created, up, holder, tick, world>>

\* Mutant of Dispatchable: whatever the row's status.
DispatchableUnguarded(o) == status[o] # "none"

\* markTaskRunDispatched writes a pending row, leaves a dispatched one (it has the
\* same run, that of the key) and throws otherwise.
Dispatchable(o) == status[o] \in {"pending", "dispatched"}

\* dispatchTaskRun, the result of ingest: the occurrence takes over the status of
\* its run, or the chain goes to its catch block.
MarkResult(a) ==
  LET o == job[a].occ
      seen == job[a].seen
  IN
  /\ up /\ holder = a /\ pc[a] = "mark"
  /\ \/ /\ seen = "running" /\ Dispatchable(o)
        /\ status' = [status EXCEPT ![o] = "dispatched"]
        /\ Finish(a)
     \/ /\ seen # "running" /\ Markable(o, seen)
        /\ MarkTerminal(o, seen)
        /\ Finish(a)
     \/ /\ IF seen = "running" THEN ~Dispatchable(o) ELSE ~Markable(o, seen)
        /\ pc' = [pc EXCEPT ![a] = "fail"]
        /\ UNCHANGED <<status, up, holder, tick, job>>
  /\ UNCHANGED <<taskRows, created, runs, world>>

\* The catch blocks: the occurrence fails.  When that throws as well, nothing
\* catches it.
MarkFailed(a) ==
  /\ up /\ holder = a /\ pc[a] = "fail"
  /\ IF Markable(job[a].occ, "failed")
       THEN MarkTerminal(job[a].occ, "failed") /\ Finish(a) /\ UNCHANGED rejected
       ELSE Throws(a) /\ UNCHANGED status
  /\ UNCHANGED <<taskRows, created, runs, now, topics, edits, crashes>>

--------------------------------------------------------------------------------
\* The world around.

\* RunService settles a run, whatever chain is on the event loop.
RunSettles(o) ==
  /\ up /\ runs[o] # None
  /\ runs[o].status = "running"
  /\ \E outcome \in Terminal : runs' = [runs EXCEPT ![o].status = outcome]
  /\ UNCHANGED <<taskRows, status, created, up, holder, tick, pc, job, world>>

TimePasses ==
  /\ now < MaxTime
  /\ now' = now + 1
  /\ UNCHANGED <<taskRows, status, created, runs, up, holder, tick, pc, job,
                 topics, edits, crashes, rejected>>

Crash ==
  /\ up /\ crashes < MaxCrashes
  /\ crashes' = crashes + 1
  /\ ProcessEnds
  /\ UNCHANGED <<taskRows, status, created, runs, now, topics, edits, rejected>>

\* The process starts again.  Requests are served before the first tick: listen
\* precedes the start of the Telegram adapter and of the task service.
Boot ==
  /\ ~up
  /\ up' = TRUE
  /\ UNCHANGED <<taskRows, status, created, runs, holder, tick, pc, job, world>>

Requests == \E k \in Tasks : CreateTask(k) \/ EditTask(k) \/ \E a \in Callers : RunNow(a, k)
TickSteps ==
  \/ TakeDue \/ Advance \/ EndDue \/ TakePending \/ EndResume \/ Reconcile \/ EndTick
ChainSteps(a) == EnsureThread(a) \/ Dispatch(a) \/ MarkResult(a) \/ MarkFailed(a)

Next ==
  \/ Requests
  \/ StartTick \/ TickSteps
  \/ \E a \in Actors : ChainSteps(a) \/ TopicAnswer(a)
  \/ \E o \in Occurrences : RunSettles(o)
  \/ TimePasses \/ Crash \/ Boot

Spec == Init /\ [][Next]_vars

\* A chain that has the event loop goes on, the timer fires, the Telegram API
\* answers and the answer gets its turn, runs settle (RunService promises it), and
\* the service manager restarts the process.  Requests, time and crashes are free.
Fairness ==
  /\ WF_vars(StartTick) /\ WF_vars(TickSteps)
  /\ \A a \in Actors : WF_vars(ChainSteps(a)) /\ SF_vars(TopicAnswer(a))
  /\ WF_vars(\E o \in Occurrences : RunSettles(o))
  /\ WF_vars(Boot)

FairSpec == Spec /\ Fairness

--------------------------------------------------------------------------------
\* Properties.

TypeOK ==
  /\ live \subseteq Tasks /\ enabled \subseteq live
  /\ kind \in [Tasks -> Kinds \cup {None}]
  /\ next \in [Tasks -> Times \cup {None}] /\ \A k \in enabled : next[k] # None
  /\ text \in [Tasks -> 0..MaxEdits]
  /\ thread \in [Tasks -> Threads \cup {None}]
  /\ status \in [Occurrences -> Statuses]
  /\ created \in Seq(Occurrences)
  /\ runs \in [Occurrences -> Runs \cup {None}]
  /\ up \in BOOLEAN /\ holder \in Actors \cup {None}
  /\ phase \in {"idle", "due", "resume", "reconcile"}
  /\ dueList \in Seq(Rows) /\ taskRuns \subseteq Occurrences
  /\ pc \in [Actors -> Steps] /\ job \in [Actors -> Jobs \cup {None}]
  /\ now \in Slots /\ topics \in 0..MaxTopics
  /\ edits \in 0..MaxEdits /\ crashes \in 0..MaxCrashes /\ rejected \in BOOLEAN

\* What the history says was dispatched has a run, and what it says succeeded has
\* one that succeeded.
HistoryMatchesRuns ==
  \A o \in Occurrences :
    /\ status[o] = "dispatched" => runs[o] # None
    /\ status[o] = "succeeded" => runs[o] # None /\ runs[o].status = "succeeded"

\* What the history says failed has no run or one that failed, unless the task was
\* changed since: only another text or topic makes ingest refuse the occurrence.
FailuresExplained ==
  \A o \in Occurrences :
    status[o] = "failed" => \/ runs[o] = None
                            \/ runs[o].status = "failed"
                            \/ runs[o].thread # thread[o.task]
                            \/ runs[o].text # text[o.task]

\* With recurring tasks, no run-now requests and batches that hold every due task, a tick
\* is rejected (and the process with it) only for a task that was deleted or a rule that
\* ended: no failed topic or changed payload does it, and no occurrence is met a second
\* time.  A "once" task that is moved back to a time it ran at, or a due row that a batch
\* leaves out when a crash came before its schedule moved on, is met so.
TickRejectsOnlyFor ==
  rejected => \E k \in Tasks : (kind[k] # None /\ k \notin live) \/ Exhausted(k)

\* Unless the user edits the task, a schedule leaves a time only when it has come and
\* there is a row for that occurrence, and a task without a next time gets none.
NoOccurrenceSkipped ==
  [][\A k \in Tasks :
       (k \in live /\ next'[k] # next[k] /\ edits' = edits)
         => /\ next[k] # None /\ next[k] <= now
            /\ status'[[task |-> k, at |-> next[k]]] # "none"]_vars

\* An occurrence that is settled stays so, as long as its task exists.
TerminalIsFinal ==
  [][\A o \in Occurrences :
       status[o] \in Terminal /\ o.task \in live' => status'[o] = status[o]]_vars

\* The tick by itself gives a task one topic: a topic is exchanged for another only when a
\* run-now request of the running process worked on the task, because its chain or a row the
\* tick read before it may still hold that there is none.  (docs/telegram.md:58 speaks of one
\* dedicated topic, which the first run creates: such requests do exchange it.)
TopicIsKept ==
  [][\A k \in Tasks :
       thread[k] # None /\ thread'[k] \notin {thread[k], None}
         => \E c \in Callers : job[c] # None /\ job[c].occ.task = k]_vars

\* Every occurrence is settled, unless its task is deleted.
EveryOccurrenceSettles ==
  \A o \in Occurrences : status[o] \in {"pending", "dispatched"}
                           ~> status[o] \notin {"pending", "dispatched"}

\* A task does not stay due: its schedule moves on or the user edits it.
EveryDueTaskIsClaimed ==
  \A k \in Tasks : \A t \in Slots :
    (k \in enabled /\ next[k] = t /\ t <= now) ~> ~(k \in enabled /\ next[k] = t)
================================================================================
