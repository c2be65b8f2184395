------------------------------ MODULE RunService ------------------------------
(***************************************************************************)
(* RunService + LocalRunScheduler + the run tables of SqliteRunStore: how a *)
(* message becomes a run, how runs are dispatched per thread, executed,     *)
(* given an outcome, and recovered after a crash or a restart.              *)
(*                                                                          *)
(* The process is one Node event loop over a synchronous SQLite driver, so  *)
(* the code between two awaits is one action here and every await is a      *)
(* place where the other actors may act.  Two awaits are not interleaving   *)
(* points: dispatchRunById reads the row through an async getter that does  *)
(* no I/O and looks at activeRunCompletions in the continuation, within the *)
(* same microtask drain and in fewer promise hops than a completion needs   *)
(* to remove itself (see README), so read, check and launch are one step.   *)
(*                                                                          *)
(* runExecutor.execute is the environment: it settles, either way, at any   *)
(* time.                                                                    *)
(***************************************************************************)
EXTENDS Naturals, Sequences, FiniteSets

CONSTANTS
  Messages,       \* requests: [threadKey, payload, idempotencyKey]
  Threads,        \* thread keys
  Payloads,       \* text, delivery mode and images, up to equality
  Keys,           \* (source, idempotency key) pairs
  NoKey,          \* a request that carries no idempotency key
  NoMessage,      \* the row of a run that does not exist yet
  Rejected,       \* the reply to a key reused with another payload (HTTP 409)
  MaxRuns,        \* bound: rows in the table runs
  RecoveryLimit,  \* LIMIT of listRunningRuns (1000 in the code)
  MaxStops,       \* bound: crashes and shutdowns together
  MaxFaults       \* bound: failing reads and writes of the database

NoRun == 0
Runs == 1..MaxRuns

ASSUME BoundsAssumption ==
  /\ MaxRuns \in Nat
  /\ RecoveryLimit \in Nat \ {0}
  /\ MaxStops \in Nat
  /\ MaxFaults \in Nat

ASSUME MessagesAssumption ==
  /\ NoKey \notin Keys
  /\ Messages \subseteq [threadKey : Threads, payload : Payloads,
                         idempotencyKey : Keys \cup {NoKey}]
  /\ NoMessage \notin Messages
  /\ Rejected \notin Runs

VARIABLES
  \* Tables, which survive a crash.  A run id is its rank in created_at order.
  created,       \* number of rows in runs
  row,           \* [Runs -> Messages \cup {NoMessage}]: the row's request columns
  status,        \* [Runs -> Statuses]: the row's status column
  ingest,        \* [Keys -> Runs \cup {NoRun}]: message_ingest
  \* The process.
  phase,         \* where startup and shutdown are
  handoff,       \* runs committed by createRun whose ingest has yet to enqueue
  tails,         \* [Threads -> Seq(Runs)]: threadDispatchTails
  recovering,    \* recoveryInFlight # null
  recoveryLeft,  \* runs the recovery pass has yet to look at
  active,        \* keys of activeRunCompletions
  live,          \* executeLoadedRun invocations under way
  awaited,       \* what shutdown took a snapshot of and is awaiting
  \* What the outside has seen.
  announced,     \* [Runs -> {"none", "succeeded", "failed"}]: terminal event
  replies,       \* replies to requests: [message, run or Rejected]
  \* History and bounds.
  launched,      \* [Runs -> Nat]: executions begun since the process started
  stops,         \* crashes and shutdowns so far
  faults         \* database failures so far

tables == <<created, row, status, ingest>>
process == <<phase, handoff, tails, recovering, recoveryLeft, active, live, awaited>>
seen == <<announced, replies>>
history == <<launched, stops, faults>>
vars == <<tables, process, seen, history>>

Statuses == {"absent", "running", "succeeded", "failed"}
Outcomes == {"succeeded", "failed"}

\* "starting": init() awaits its recovery pass.  "up": the timer is set.
\* "draining": shutdown awaits recoveryInFlight.  "stopping": it awaits
\* scheduler.stop().  "awaiting": it awaits the active completions.
\* "closed": database.close() returned.  "down": there is no process.
Phases == {"down", "starting", "up", "draining", "stopping", "awaiting", "closed"}

\* Where an executeLoadedRun stands: awaiting the executor; in its catch block;
\* or past a committed outcome, with the event and the clean-up still to come.
Pcs == {"executing", "rejected", "succeeded", "failed"}

Execution == [run : Runs, attempt : Nat, pc : Pcs]

\* Mutant of SchedulerStarted: stop() awaits its dispatches but forgets to clear
\* the flag.
SchedulerNeverStopped == phase \notin {"down", "closed"}

SchedulerStarted == phase \in {"starting", "up", "draining"}
DatabaseOpen == phase \notin {"down", "closed"}

RangeOf(s) == {s[i] : i \in DOMAIN s}

\* scheduledRunIds: an id leaves the set in the finally of its dispatch, with
\* the dispatch leaving the tail of its thread.
Scheduled == UNION {RangeOf(tails[t]) : t \in Threads}

ThreadOf(r) == row[r].threadKey

\* Mutant of PayloadHash: the thread is left out of the hash.
PayloadHashWithoutThread(m) == <<m.payload>>

\* What the payload hash is computed from.
PayloadHash(m) == <<m.threadKey, m.payload>>

\* Mutant of ListRunningRuns: the newest rows.
ListNewestRuns ==
  LET running == {r \in Runs : status[r] = "running"}
  IN {r \in running : Cardinality({q \in running : q > r}) < RecoveryLimit}

\* listRunningRuns: the oldest rows with status 'running', RecoveryLimit of them.
ListRunningRuns ==
  LET running == {r \in Runs : status[r] = "running"}
  IN {r \in running : Cardinality({q \in running : q < r}) < RecoveryLimit}

\* schedule: an id already scheduled is left alone, another joins its thread's tail.
Schedule(r) ==
  tails' = IF r \in Scheduled THEN tails
           ELSE [tails EXCEPT ![ThreadOf(r)] = Append(@, r)]

Init ==
  /\ created = 0
  /\ row = [r \in Runs |-> NoMessage]
  /\ status = [r \in Runs |-> "absent"]
  /\ ingest = [k \in Keys |-> NoRun]
  /\ phase = "down"
  /\ handoff = <<>>
  /\ tails = [t \in Threads |-> <<>>]
  /\ recovering = FALSE
  /\ recoveryLeft = {}
  /\ active = {}
  /\ live = {}
  /\ awaited = {}
  /\ announced = [r \in Runs |-> "none"]
  /\ replies = {}
  /\ launched = [r \in Runs |-> 0]
  /\ stops = 0
  /\ faults = 0

--------------------------------------------------------------------------------
\* Startup, crash, shutdown.

\* All that is only in memory is gone.
LoseMemory ==
  /\ handoff' = <<>>
  /\ tails' = [t \in Threads |-> <<>>]
  /\ active' = {}
  /\ live' = {}
  /\ awaited' = {}
  /\ announced' = [r \in Runs |-> "none"]
  /\ launched' = [r \in Runs |-> 0]

\* main: runService.init() starts the scheduler and begins its recovery pass.
Boot ==
  /\ phase \in {"down", "closed"}
  /\ LoseMemory
  /\ phase' = "starting"
  /\ recovering' = TRUE
  /\ recoveryLeft' = ListRunningRuns
  /\ UNCHANGED <<tables, replies, stops, faults>>

\* The process dies.  A listRunningRuns that throws has the same effect: main
\* exits when init rejects, and the timer's `void runRecoveryPass()` leaves an
\* unhandled rejection, which ends the process.
Crash ==
  /\ phase \notin {"down", "closed"}
  /\ stops < MaxStops
  /\ stops' = stops + 1
  /\ LoseMemory
  /\ phase' = "down"
  /\ recovering' = FALSE
  /\ recoveryLeft' = {}
  /\ UNCHANGED <<tables, replies, faults>>

\* shutdown clears the timer, then awaits a pass that is under way.
BeginShutdown ==
  /\ phase = "up"
  /\ stops < MaxStops
  /\ stops' = stops + 1
  /\ phase' = "draining"
  /\ UNCHANGED <<tables, handoff, tails, recovering, recoveryLeft, active, live,
                 awaited, seen, launched, faults>>

\* scheduler.stop(): no dispatch from here on; it awaits those it has.
StopScheduler ==
  /\ phase = "draining"
  /\ ~recovering
  /\ phase' = "stopping"
  /\ awaited' = Scheduled
  /\ UNCHANGED <<tables, handoff, tails, recovering, recoveryLeft, active, live,
                 seen, history>>

\* waitForActiveRunCompletions takes its snapshot.
AwaitCompletions ==
  /\ phase = "stopping"
  /\ awaited \cap Scheduled = {}
  /\ phase' = "awaiting"
  /\ awaited' = active
  /\ UNCHANGED <<tables, handoff, tails, recovering, recoveryLeft, active, live,
                 seen, history>>

\* disposeRunProgressState, then main closes the database.
CloseDatabase ==
  /\ phase = "awaiting"
  /\ awaited \cap active = {}
  /\ phase' = "closed"
  /\ announced' = [r \in Runs |-> "none"]
  /\ UNCHANGED <<tables, handoff, tails, recovering, recoveryLeft, active, live,
                 awaited, replies, history>>

--------------------------------------------------------------------------------
\* ingestMessage.

\* resolveIdempotentRun: the run a request is a retry of.
DuplicateOf(m) == IF m.idempotencyKey = NoKey THEN NoRun ELSE ingest[m.idempotencyKey]

\* createRun commits a new run, with its message_ingest row when it has a key.
CreateRun(m) ==
  LET r == created + 1 IN
  /\ DuplicateOf(m) = NoRun
  /\ created < MaxRuns
  /\ created' = r
  /\ row' = [row EXCEPT ![r] = m]
  /\ status' = [status EXCEPT ![r] = "running"]
  /\ ingest' = IF m.idempotencyKey = NoKey THEN ingest
               ELSE [ingest EXCEPT ![m.idempotencyKey] = r]
  /\ handoff' = Append(handoff, r)
  /\ UNCHANGED replies

\* createRun finds the key: the same payload gets the run the key names, another
\* payload is an IdempotencyPayloadMismatchError.  Nothing is enqueued.
Deduplicate(m) ==
  LET r == DuplicateOf(m) IN
  /\ r # NoRun
  /\ replies' = replies \cup
       {[message |-> m, run |-> IF PayloadHash(row[r]) = PayloadHash(m) THEN r ELSE Rejected]}
  /\ UNCHANGED <<tables, handoff>>

\* The server takes requests once it listens, and background work may still
\* ingest until the database is closed.
IngestMessage(m) ==
  /\ DatabaseOpen
  /\ phase # "starting"
  /\ CreateRun(m) \/ Deduplicate(m)
  /\ UNCHANGED <<phase, tails, recovering, recoveryLeft, active, live, awaited,
                 announced, history>>

\* The ingest that created the run resumes: it enqueues it and replies, or, with
\* the scheduler stopped, enqueue throws and the caller gets an error.
EnqueueCreatedRun ==
  LET r == Head(handoff) IN
  /\ handoff # <<>>
  /\ handoff' = Tail(handoff)
  /\ IF SchedulerStarted
       THEN /\ Schedule(r)
            /\ replies' = replies \cup {[message |-> row[r], run |-> r]}
       ELSE UNCHANGED <<tails, replies>>
  /\ UNCHANGED <<tables, phase, recovering, recoveryLeft, active, live, awaited,
                 announced, history>>

--------------------------------------------------------------------------------
\* Dispatch and execution.

\* Mutant of Runnable: the check of activeRunCompletions is left out.
RunnableThoughActive(r) == status[r] = "running"

\* dispatchRunById executes a run that is still 'running' and not active.
Runnable(r) == status[r] = "running" /\ r \notin active

\* Mutant of Launch: the completion is not entered in activeRunCompletions.
LaunchUntracked(r) ==
  /\ live' = live \cup {[run |-> r, attempt |-> launched[r] + 1, pc |-> "executing"]}
  /\ launched' = [launched EXCEPT ![r] = @ + 1]
  /\ UNCHANGED active

Launch(r) ==
  /\ active' = active \cup {r}
  /\ live' = live \cup {[run |-> r, attempt |-> launched[r] + 1, pc |-> "executing"]}
  /\ launched' = [launched EXCEPT ![r] = @ + 1]

\* The next dispatch of thread t runs.  A stopped scheduler lets it pass.
Dispatch(t) ==
  /\ tails[t] # <<>>
  /\ tails' = [tails EXCEPT ![t] = Tail(@)]
  /\ IF SchedulerStarted /\ Runnable(Head(tails[t]))
       THEN Launch(Head(tails[t]))
       ELSE UNCHANGED <<active, live, launched>>
  /\ UNCHANGED <<tables, phase, handoff, recovering, recoveryLeft, awaited, seen,
                 stops, faults>>

\* dispatchRunById throws (the row cannot be read): the scheduler logs it.
DispatchFails(t) ==
  /\ tails[t] # <<>>
  /\ SchedulerStarted
  /\ faults < MaxFaults
  /\ faults' = faults + 1
  /\ tails' = [tails EXCEPT ![t] = Tail(@)]
  /\ UNCHANGED <<tables, phase, handoff, recovering, recoveryLeft, active, live,
                 awaited, seen, launched, stops>>

\* Execution e moves on to pc.
Moves(e, pc) == live' = (live \ {e}) \cup {[e EXCEPT !.pc = pc]}

\* Execution e returns: its completion leaves activeRunCompletions.
Returns(e) ==
  /\ live' = live \ {e}
  /\ active' = active \ {e.run}

\* UPDATE runs ... WHERE run_id = ? AND status = 'running'
MarkTerminal(r, outcome) == status' = [status EXCEPT ![r] = outcome]

\* execute rejects.
ExecutorRejects(e) ==
  /\ e \in live /\ e.pc = "executing"
  /\ Moves(e, "rejected")
  /\ UNCHANGED <<tables, phase, handoff, tails, recovering, recoveryLeft, active,
                 awaited, seen, history>>

\* execute resolves and markSucceeded follows: it commits, or finds the run
\* already terminal and throws into the catch block.
ExecutorResolves(e) ==
  /\ e \in live /\ e.pc = "executing"
  /\ IF status[e.run] = "running"
       THEN MarkTerminal(e.run, "succeeded") /\ Moves(e, "succeeded")
       ELSE Moves(e, "rejected") /\ UNCHANGED status
  /\ UNCHANGED <<created, row, ingest, phase, handoff, tails, recovering,
                 recoveryLeft, active, awaited, seen, history>>

\* execute resolves and the UPDATE of markSucceeded throws.
MarkSucceededFails(e) ==
  /\ e \in live /\ e.pc = "executing"
  /\ faults < MaxFaults
  /\ faults' = faults + 1
  /\ Moves(e, "rejected")
  /\ UNCHANGED <<tables, phase, handoff, tails, recovering, recoveryLeft, active,
                 awaited, seen, launched, stops>>

\* The catch block: markFailed commits, or finds the run already terminal, which
\* isAlreadyTerminalTransition takes for a normal end.
MarkFailed(e) ==
  /\ e \in live /\ e.pc = "rejected"
  /\ IF status[e.run] = "running"
       THEN MarkTerminal(e.run, "failed") /\ Moves(e, "failed") /\ UNCHANGED active
       ELSE Returns(e) /\ UNCHANGED status
  /\ UNCHANGED <<created, row, ingest, phase, handoff, tails, recovering,
                 recoveryLeft, awaited, seen, history>>

\* Mutants of MarkFailedFails: the outcome is published although it could not be
\* written; the completion stays in activeRunCompletions (no finally).
MarkFailedFailsYetAnnounces(e) ==
  /\ e \in live /\ e.pc = "rejected"
  /\ faults < MaxFaults
  /\ faults' = faults + 1
  /\ Returns(e)
  /\ announced' = [announced EXCEPT ![e.run] = "failed"]
  /\ UNCHANGED <<tables, phase, handoff, tails, recovering, recoveryLeft, awaited,
                 replies, launched, stops>>
MarkFailedFailsAndStaysActive(e) ==
  /\ e \in live /\ e.pc = "rejected"
  /\ faults < MaxFaults
  /\ faults' = faults + 1
  /\ live' = live \ {e}
  /\ UNCHANGED <<tables, phase, handoff, tails, recovering, recoveryLeft, active,
                 awaited, seen, launched, stops>>

\* markFailed throws: logged, and the row still says 'running'.
MarkFailedFails(e) ==
  /\ e \in live /\ e.pc = "rejected"
  /\ faults < MaxFaults
  /\ faults' = faults + 1
  /\ Returns(e)
  /\ UNCHANGED <<tables, phase, handoff, tails, recovering, recoveryLeft, awaited,
                 seen, launched, stops>>

\* The terminal event is published and the completion removed.
AnnounceOutcome(e) ==
  /\ e \in live /\ e.pc \in Outcomes
  /\ announced' = [announced EXCEPT ![e.run] = e.pc]
  /\ Returns(e)
  /\ UNCHANGED <<tables, phase, handoff, tails, recovering, recoveryLeft, awaited,
                 replies, history>>

--------------------------------------------------------------------------------
\* Recovery.

\* The 15 s timer starts a pass, unless one is under way.
RecoveryTick ==
  /\ phase = "up"
  /\ ~recovering
  /\ recovering' = TRUE
  /\ recoveryLeft' = ListRunningRuns
  /\ UNCHANGED <<tables, phase, handoff, tails, active, live, awaited, seen, history>>

\* The pass looks at the oldest run it has left: an active one is skipped, one
\* already scheduled stays as it is, any other is scheduled.
RecoverNextRun ==
  /\ recoveryLeft # {}
  /\ \E r \in recoveryLeft :
       /\ \A q \in recoveryLeft : r <= q
       /\ recoveryLeft' = recoveryLeft \ {r}
       /\ IF r \in active \/ ~SchedulerStarted THEN UNCHANGED tails ELSE Schedule(r)
  /\ UNCHANGED <<tables, phase, handoff, recovering, active, live, awaited, seen,
                 history>>

\* The pass ends; init() goes on to set the timer.
EndRecovery ==
  /\ recovering
  /\ recoveryLeft = {}
  /\ recovering' = FALSE
  /\ phase' = IF phase = "starting" THEN "up" ELSE phase
  /\ UNCHANGED <<tables, handoff, tails, recoveryLeft, active, live, awaited, seen,
                 history>>

--------------------------------------------------------------------------------
Lifecycle == Boot \/ Crash \/ BeginShutdown \/ StopScheduler \/ AwaitCompletions \/ CloseDatabase
Ingest == EnqueueCreatedRun \/ \E m \in Messages : IngestMessage(m)
Scheduling == \E t \in Threads : Dispatch(t) \/ DispatchFails(t)
Executing ==
  \E e \in live : \/ ExecutorRejects(e) \/ ExecutorResolves(e) \/ MarkSucceededFails(e)
                  \/ MarkFailed(e) \/ MarkFailedFails(e) \/ AnnounceOutcome(e)
Recovering == RecoveryTick \/ RecoverNextRun \/ EndRecovery

Next == Lifecycle \/ Ingest \/ Scheduling \/ Executing \/ Recovering

Spec == Init /\ [][Next]_vars

\* An execution of r takes its next step that is not a fault.
Progress(r) ==
  \E e \in live : /\ e.run = r
                  /\ ExecutorRejects(e) \/ ExecutorResolves(e) \/ MarkFailed(e) \/ AnnounceOutcome(e)

\* The event loop runs every continuation and every timer that is due, the
\* service manager restarts a process that stopped, and the executor settles
\* every call (an assumption on the environment).  No fault is ever owed.
Fairness ==
  /\ WF_vars(Boot) /\ WF_vars(StopScheduler) /\ WF_vars(AwaitCompletions) /\ WF_vars(CloseDatabase)
  /\ WF_vars(EnqueueCreatedRun)
  /\ \A t \in Threads : WF_vars(Dispatch(t))
  /\ \A r \in Runs : WF_vars(Progress(r))
  /\ WF_vars(RecoveryTick) /\ WF_vars(RecoverNextRun) /\ WF_vars(EndRecovery)

FairSpec == Spec /\ Fairness

--------------------------------------------------------------------------------
\* Properties.

TypeOK ==
  /\ created \in 0..MaxRuns
  /\ row \in [Runs -> Messages \cup {NoMessage}]
  /\ status \in [Runs -> Statuses]
  /\ ingest \in [Keys -> Runs \cup {NoRun}]
  /\ phase \in Phases
  /\ handoff \in Seq(Runs)
  /\ tails \in [Threads -> Seq(Runs)]
  /\ recovering \in BOOLEAN
  /\ recoveryLeft \subseteq Runs
  /\ active \subseteq Runs
  /\ live \subseteq Execution
  /\ awaited \subseteq Runs
  /\ announced \in [Runs -> {"none"} \cup Outcomes]
  /\ replies \subseteq [message : Messages, run : Runs \cup {Rejected}]
  /\ launched \in [Runs -> Nat]
  /\ stops \in 0..MaxStops
  /\ faults \in 0..MaxFaults

\* A run is never executed twice at the same time, however ingest, recovery
\* passes and the dispatch queue of its thread interleave.
NoOverlap == \A e, f \in live : e.run = f.run => e = f

\* The executor only works for a run that has no outcome yet: a run that
\* already succeeded or failed is never executed again, here or after a restart.
ExecutesOnlyRunning ==
  \A e \in live : e.pc \in {"executing", "rejected"} => status[e.run] = "running"

\* A subscriber that is told a run's outcome is told the one in the database.
AnnouncedIsPersisted ==
  \A r \in Runs : announced[r] # "none" => announced[r] = status[r]

\* An idempotency key stands for one run, across retries, crashes between the
\* commit and the enqueue, and restarts.
KeyedOnce ==
  \A r, q \in Runs :
    /\ row[r] # NoMessage /\ row[q] # NoMessage
    /\ row[r].idempotencyKey # NoKey
    /\ row[r].idempotencyKey = row[q].idempotencyKey
    => r = q

\* A caller that got a run id got the id of a run for the thread and payload it
\* sent, and a request never gets a run id on one try and 409 on another.
RepliesConsistent ==
  /\ \A x \in replies : x.run # Rejected =>
       /\ ThreadOf(x.run) = x.message.threadKey
       /\ row[x.run].payload = x.message.payload
  /\ \A x, y \in replies :
       x.message = y.message /\ x.message.idempotencyKey # NoKey => x.run = y.run

\* When the database is closed, nothing is left that would use it.
QuietWhenClosed == phase = "closed" => live = {} /\ active = {} /\ Scheduled = {}

\* Runs of a thread are first handed to the executor in the order they were
\* accepted in: while the database does not fail, no run begins before an older one
\* of its thread that is still owed an outcome has begun since the process started.
\* (RecoveryLimit must be as large as the backlog: listRunningRuns takes 1000 rows.)
BeginsInOrder ==
  \A r \in Runs : faults = 0 /\ launched[r] = 0 /\ launched'[r] = 1 =>
    \A q \in Runs : q < r /\ status[q] = "running" /\ ThreadOf(q) = ThreadOf(r) => launched[q] > 0
ThreadOrder == [][BeginsInOrder]_vars

\* Every accepted run gets an outcome: nothing is lost between the commit of a
\* run and its enqueue, by a failed read or write, by a crash, or by a shutdown.
EveryRunSettles == \A r \in Runs : status[r] = "running" ~> status[r] \in Outcomes

--------------------------------------------------------------------------------
\* The inductive invariant behind the safety properties: TLC checks it on the
\* small instances, RunServiceProofs proves it for all of them.

\* Rows exist for the run ids handed out so far; a hand-off is of an existing row.
RowsInv ==
  /\ \A r \in Runs : row[r] # NoMessage <=> r <= created
  /\ \A r \in Runs : status[r] = "absent" <=> r > created
  /\ RangeOf(handoff) \subseteq 1..created

\* message_ingest and the keys of the rows agree in both directions.
KeysInv ==
  /\ \A r \in Runs : row[r] # NoMessage /\ row[r].idempotencyKey # NoKey =>
       ingest[row[r].idempotencyKey] = r
  /\ \A k \in Keys : ingest[k] # NoRun =>
       row[ingest[k]] # NoMessage /\ row[ingest[k]].idempotencyKey = k

\* A run id was replied to the payload of its row and, with a key, is the run of
\* that key; a rejection was for another payload than that of the key's run.
RepliesInv ==
  \A x \in replies :
    /\ x.run # Rejected =>
         /\ row[x.run] # NoMessage
         /\ PayloadHash(row[x.run]) = PayloadHash(x.message)
         /\ x.message.idempotencyKey # NoKey => ingest[x.message.idempotencyKey] = x.run
    /\ x.run = Rejected =>
         /\ x.message.idempotencyKey # NoKey
         /\ ingest[x.message.idempotencyKey] # NoRun
         /\ PayloadHash(row[ingest[x.message.idempotencyKey]]) # PayloadHash(x.message)

\* An execution is tracked in activeRunCompletions, and its stage matches the row.
ExecutionInv ==
  /\ \A e \in live : e.run \in active
  /\ \A e \in live : e.pc \in Outcomes => status[e.run] = e.pc

\* What shutdown awaits covers what is left.
ShutdownInv ==
  /\ phase = "stopping" => Scheduled \subseteq awaited
  /\ phase \in {"awaiting", "closed"} => Scheduled = {}
  /\ phase = "awaiting" => active \subseteq awaited
  /\ phase = "closed" => active = {}

IndInv ==
  /\ TypeOK /\ RowsInv /\ KeysInv /\ RepliesInv /\ ShutdownInv
  /\ ExecutionInv /\ NoOverlap /\ ExecutesOnlyRunning /\ AnnouncedIsPersisted

--------------------------------------------------------------------------------
\* The invariant behind ThreadOrder, which RunServiceProofs proves inductive for
\* behaviours in which BacklogFits always holds.

\* The runs that say 'running' fit into one recovery pass.
BacklogFits == Cardinality({r \in Runs : status[r] = "running"}) <= RecoveryLimit

\* A run that is owed an outcome and was not handed to the executor since the
\* process started.
Unbegun(r) == status[r] = "running" /\ launched[r] = 0

\* What is queued or being recovered: rows that exist, hand-offs by age, each run
\* in the queue of its own thread; what is tracked as active has begun.
QueuesInv ==
  /\ \A i, j \in DOMAIN handoff : i < j => handoff[i] < handoff[j]
  /\ \A t \in Threads : \A r \in RangeOf(tails[t]) : r <= created /\ ThreadOf(r) = t
  /\ \A r \in recoveryLeft : r <= created
  /\ \A r \in active : launched[r] > 0
  /\ recoveryLeft # {} => recovering
  /\ recovering => SchedulerStarted
  /\ phase = "starting" => handoff = <<>>

\* Without failures and with a backlog that fits the limit, every run yet to begin
\* is on its way to the executor ...
OnTheWayInv ==
  /\ phase = "starting" => \A r \in Runs : Unbegun(r) => r \in Scheduled \cup recoveryLeft
  /\ phase \in {"up", "draining"} =>
       \A r \in Runs : Unbegun(r) => r \in Scheduled \cup RangeOf(handoff)

\* ... and none gets ahead of an older one: the recovery pass has what it takes from
\* the oldest on, and the queue of a thread has the older runs of the thread in front.
InOrder(queue, waiting) ==
  \A i \in DOMAIN queue : \A q \in waiting :
    queue[i] \in waiting /\ q < queue[i] => \E j \in DOMAIN queue : j < i /\ queue[j] = q
UnbegunOf(t) == {r \in Runs : Unbegun(r) /\ ThreadOf(r) = t}
NoneOvertakesInv ==
  /\ \A r \in recoveryLeft : \A q \in Runs :
       q < r /\ Unbegun(q) => q \in Scheduled \cup recoveryLeft
  /\ SchedulerStarted => \A t \in Threads : InOrder(tails[t], UnbegunOf(t))

BeginInv == QueuesInv /\ (faults = 0 => OnTheWayInv /\ NoneOvertakesInv)

--------------------------------------------------------------------------------
\* The promise this component implements.
Working == {e.run : e \in {x \in live : x.pc \in {"executing", "rejected"}}}
Ledger == INSTANCE RunLedger WITH state <- status, executing <- Working, owner <- ingest
ImplementsLedger == Ledger!Spec
================================================================================
