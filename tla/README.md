# A formal model of jagc

jagc is a self-hosted assistant server: messages from a CLI or from Telegram become *runs*,
runs of a thread are handed to a pi agent session, results are delivered back, and scheduled
tasks create runs by themselves. It is one Node process over one SQLite file. This directory
holds TLA+ modules of its core, TLC configurations that check them on small instances, and
proofs, checked by TLAPS, for every value of the constants.

Contents: the system and its parts; the modules; how the code maps to actions; the runs and
their bounds; what fails; fairness; what is proved; what is not modelled; the plan.

## 1. The system: inventory

| Part (under `src/`) | State it keeps | Operations | Talks to |
|---|---|---|---|
| RunService (`server/service.ts`) | active executions, progress buffers, recovery in flight | init, shutdown, ingestMessage, dispatchRunById, recovery pass | store, scheduler, executor, listeners |
| LocalRunScheduler (`server/scheduler.ts`) | scheduled ids, one promise chain per thread | start, stop, enqueue | RunService (callback) |
| SqliteRunStore (`server/store.ts`) | tables runs, message_ingest, thread_sessions | createRun, markSucceeded, markFailed, listRunningRuns | SQLite |
| Run input images (`server/store-input-images*.ts`) | table input_images | insert, buffer, claim, purge, delete | SQLite |
| ThreadRunController (`runtime/thread-run-controller.ts`) | pending runs, active run, in-flight flag, dispatch chain | submit, dispose, session events | pi session |
| PiRunExecutor (`runtime/pi-executor.ts`) | sessions, controllers, generations per thread | execute, cancel, reset | controllers, pi sessions, store |
| ScheduledTaskService and store (`server/scheduled-task-*.ts`) | tables scheduled_tasks, scheduled_task_runs; tick in flight | create, edit, delete, tick, run-now | RunService, Telegram adapter |
| Schedules (`server/scheduled-task-schedule.ts`) | none | validation, next run of once, cron, RRULE | – |
| OAuthLoginBroker (`runtime/oauth-login-broker.ts`) | login attempts | start, input, cancel, prune | pi auth, HTTP, Telegram |
| Telegram adapter (`adapters/telegram-polling*.ts`, `telegram-run-delivery.ts`, `telegram-background-run-registry.ts`) | runner, background waits | handlers, delivery, topics, stop | Bot API, RunService |
| Telegram progress (`adapters/telegram-progress*.ts`) | render state, rate limits | events, finish | Bot API |
| Telegram formatting (`adapters/telegram-markdown*.ts`) | none | Markdown to messages with entities, cutting | – |
| Telegram controls (`adapters/telegram-*-controls*.ts`) | the prompt each chat's next `/auth input` answers | menus, sign-in, /cancel, /delete | thread control, broker |
| Session tools (`runtime/telegram-send-files-*.ts`, …) | none | send files to the chat | Bot API |
| Server, HTTP, CLI (`server/main.ts`, `server/app*.ts`, `cli/`) | – | boot, close, requests | all of the above |

**How they interact.** A request commits a row (`createRun`) and then enqueues its id; the
scheduler calls back `dispatchRunById` one at a time per thread; the run is executed in the
background by the executor, which submits it to the thread's controller; the controller turns
session events into the run's outcome, which RunService writes and publishes. A periodic pass
re-enqueues rows that say `running` and are not in memory. Scheduled tasks enter by the same
`ingestMessage`, with an idempotency key per occurrence.

**What is hard.** Everything is an interleaving of asynchronous chains on one event loop, over
tables that outlive the process: recovery against ingest and shutdown, retries against crashes,
session events against submissions, ticks against requests during a call to Telegram. The
`hazards` of `PROJECT.json` list them at their lines.

**What makes each part correct.**

- *Run tables, service, scheduler*: a run is executed by at most one execution at a time and only
  while it is owed an outcome; a key stands for one run; retries get the same answer; listeners
  hear what the table says; runs of a thread start in order; every run settles; shutdown closes the
  database only when nothing uses it.
- *Controller*: every submitted run is settled, with the answer to its own message; `prompt()`
  never meets a busy session.
- *Scheduled tasks*: no occurrence is skipped, each is settled and its outcome is that of its run; a
  task keeps the topic it has; no tick is rejected.
- *Executor*: a thread has one session and one controller; what a successful reset discarded never comes
  back; the persisted mapping names the session's file; every execution is settled, also by resets.
- *Images*: an image belongs to one run or one buffer, of its own chat; a claimed image reaches its run's
  prompt unless it expires first; images keep their order and never exceed the limit.
- *Schedules*: the next run is the first one the schedule names, through changes of the clocks and leap
  years, and computing it fails only when there is none.
- *OAuth broker*: an input reaches the prompt it was typed for; no promise of the provider is left open
  when its login ends; an attempt under way is never dropped and an ended one never changes, and an owner
  has one live attempt per provider; a cancelled login ends.
- *Telegram delivery*: a run's answer is left out only by a stop that concerned its thread, and is
  delivered by one delivery at a time; stop returns and leaves nothing behind that it found.
- *Telegram progress*: a tool that ends changes its own line; no line is lost, and none is sent twice unless
  the answer to an archive message was; the last render is the final one; a deleted placeholder stays deleted.
- *Telegram formatting, files*: an answer arrives whole, formatted as its Markdown says (outside quotes and
  tables) and in messages Telegram takes; the file tool reports of each file what became of it.

## 2. Modules

| Module | What it is |
|---|---|
| `RunLedger` | abstract specification: what the run subsystem promises (accept once per key, one execution at a time, one outcome) |
| `RunService` | the detailed specification of service, scheduler and run tables, with crash, restart and shutdown; it implements `RunLedger` |
| `RunServiceProofs` | its inductive invariant, the safety properties, the order of runs and the refinement, proved |
| `ThreadRunController` | the controller, with the pi session as the controller sees it |
| `ThreadRunControllerProofs` | its invariants and the order of its answers, proved |
| `PiExecutor` | the executor of one thread: session, controller, their creation, resets, timeouts, restarts |
| `PiExecutorProofs` | its inductive invariants and the safety properties of its run, with `TelegramSendFiles`, proved |
| `ScheduledTasks` | tasks, occurrences, the tick, run-now and topics, with crashes and rejected ticks |
| `ScheduledTasksProofs` | its inductive invariants, its safety and action properties, with `TaskSchedule`, proved |
| `InputImages` | the table of images: photo and text handlers, ingest, dispatch, purge, expiry, restarts |
| `InputImagesProofs` | its inductive invariant and every property of its passing run, proved |
| `TaskSchedule` | next runs of one-off, cron and rule schedules, as operators |
| `OAuthLogin` | the login broker, the provider's login, the HTTP routes and the chat's `/auth` commands |
| `OAuthLoginProofs` | its inductive invariant and its safety and action properties, proved |
| `TelegramDelivery` | start and stop of the bot, background waits, deliveries, /cancel, /delete, shutdown |
| `TelegramDeliveryProofs` | its inductive invariant and safety properties, and the renderers and cuts of `TelegramMarkdown`, proved |
| `ProgressReporter` | the progress message of a run: log, archive, renders, rate limits, finish |
| `ProgressReporterProofs` | its inductive invariant and every property of its run, proved |
| `TelegramMarkdown` | rendering of a parsed answer and the cutting of texts into messages, as operators |
| `TelegramSendFiles` | the tool that sends files: checks, albums, retries, report, as operators |
| `MC…` | instances for TLC; the bounds are in the `.cfg` files |

Each detailed module is parameterised by CONSTANTS with named assumptions, has one action per
piece of code between two awaits, and ends with its properties. The modules of operators (`TaskSchedule`,
`TelegramMarkdown`, `TelegramSendFiles`) state one property each, over a set of inputs that their MC module
gives and that TLC checks against their assumptions; the property is checked along with the component that uses them (tasks, deliveries, sessions). Definitions called "Mutant of X"
are slightly wrong versions of X; substituted for X they must break a property, which shows that the
property depends on the code. No specification uses them.

## 3. From code to actions

**Atomicity.** `better-sqlite3` is synchronous and Node runs one continuation at a time, so code
between two points where it really waits is one action. A crash may come between any two database
writes, so two writes are never in one action, except inside a database transaction.

### RunService

- Tables: `row`, `status`, `created` (runs; a run id is its rank in `created_at` order), `ingest`
  (message_ingest). `Scheduled` and `tails` are the scheduler's id set and promise chains; `active` is
  `activeRunCompletions`; `live` the `executeLoadedRun` invocations under way, with where they stand;
  `handoff` the runs committed by `createRun` whose `enqueueRun` has yet to come. `recovering` and
  `recoveryLeft` are the recovery pass. `launched`, `announced` and `replies` record history.
- `IngestMessage` is `createRun` with both branches of idempotency; `EnqueueCreatedRun` is what comes
  after its await. `RecoveryTick`, `RecoverNextRun` and `EndRecovery` are the pass, one await each.
- `Dispatch` merges reading the row with the check of `activeRunCompletions`: the read does no I/O and
  its continuation comes two promise hops later, while a completion removes itself after three, in
  the same microtask drain; no other actor can act in between in a way that the check would not see.
  `Launch` begins the execution. The chain's entry leaves in the same step (`finally`).
- `ExecutorResolves`, `ExecutorRejects`, `MarkSucceededFails`, `MarkFailed`, `MarkFailedFails` and
  `AnnounceOutcome` are `executeLoadedRun` and its catch block, with failing writes.
- `BeginShutdown`, `StopScheduler`, `AwaitCompletions` and `CloseDatabase` are the awaits of
  `RunService.shutdown` and `close`; `awaited` is what each one took a snapshot of. `Crash` loses the
  memory at any time; `Boot` is `init`, which awaits a recovery pass before the server listens.
- The executor is the environment: it settles either way, at any time. Payloads are compared, never
  looked into.

### ThreadRunController

- `pending`, `activeRun`, `inFlight` and `delivered` are the fields of the same names; `tail` and
  `reading` are the dispatch chain and the dispatch that awaits its images; `outcome[r]` is `Rejected`
  or the run whose message the text answers, which is how the model can tell whether a run got the
  answer to its own message.
- The pi session is a library outside the repository. `AgentStart`, `UserMessageStart`,
  `AssistantMessageEnd` and `AgentEnd` are its loop as the controller observes it: one loop at a time,
  a prompt that may reject before the loop starts (the case line 111 catches), steering before
  follow-ups, queues untouched when a loop ends on an error or an abort (`pendingMessageCount` after an
  abort, which `PiRunExecutor.cancelThreadRun` looks at).
- `ReadsTakeTime` says whether a dispatch can still be under way when a session event arrives. The
  controller's contract (`loadRunImages` is any promise) allows it; the one `PiRunExecutor` passes
  reads SQLite, and then every dispatch is over before the loop turns.

### PiExecutor

- `sessions`, `sessionCreation`, `controllers`, `controllerCreation`, `threadGeneration` and `resetInFlight`
  are the maps of the same names at one thread's key (threads share nothing else); `row` is the thread's
  row of `thread_sessions`.
- A creation (`createOrLoadSession`) and the session that comes of it have one id; `stage` is where it
  stands, `loads` the persisted file it read, `creationGen` the generation it checks before it persists
  anything. A controller has the id of its session. `files` numbers session files by age.
- `Call`, `WakeFromReset` and `WakeFromCreation` are `execute` and the other users of `getSession`;
  `ExecutionSettles` is the outcome of `submit` with the `finally` block; `BeginReset`, `AbortEnds`,
  `ResetEnds`, `JoinedEnds` are `resetThreadSession` from await to await; `TimesOut` is any
  `awaitWithTimeout` that gives up. `CreationSettles` is the `finally` that removes the map entries,
  whichever creation they are of by then.
- *Continuations.* Promises that are already settled continue before the event loop turns. `Drained` makes
  every other action wait for them, so that no reset comes between a controller's creation and the
  submissions that awaited it; resets begin in request handlers, which are turns of their own.
- `Restart` keeps the row and the files.

### ScheduledTasks

- `live`, `enabled`, `next`, `text` and `thread` are the columns of `scheduled_tasks` (`text` a version
  of title and instructions, which the payload is made of); `status` is `scheduled_task_runs`, and
  `created` the order in which its rows were inserted (an occurrence whose row went with its task keeps its
  place there); `runs` is what RunService has under the occurrence's key.
- A chain (the tick or a run-now request) keeps the event loop (`holder`) from step to step, and gives
  it up only to wait for `createTaskTopic`, the one call that goes to the network. `job` holds what a
  chain has read and still uses, stale or not; `dueList` and `taskRuns` are what the loops of the tick read
  at their start: `dueList` one of `DueLists`, the earliest `DueBatch` due tasks in an order the query
  leaves open among equals, `taskRuns` the occurrences still to be looked at, of which the loop takes the
  one inserted first (`IsFirst`).
- `TakeDue`, `Advance`, `EnsureThread`, `TopicAnswer`, `Dispatch` and `MarkResult` follow an
  occurrence; `MarkFailed` is the catch blocks, and `Throws` what happens when they throw: a request is
  answered with an error, a rejected tick is unhandled and ends the process (`void this.runTick()`,
  Node's default), as it does at start-up (`main().catch`).
- `Boot` opens for requests before the first tick, because `listen` precedes `start`.
- A schedule is one-off, endless or finite; time is a small counter, the next slot of a rule is the
  next tick of it.

### InputImages

- `rows` is the table: a function from the images stored to their `run_id`, `position`, `created_at` and
  `expires_at`. A run has the id of the update or API request it answers, that is, its idempotency key.
  `born`, `claimed` and `delivered` record history; bytes are left out, since their limit is checked in
  the same expression as the number.
- Each operation of the store is one SQLite transaction, hence one operator used by one action:
  `InsertPending` (purge, known update, limit, position), `CreateRun` (purge, known key, claim or own
  images), `Cleanup` (deletion). A transaction that throws undoes its purge.
- `FetchText` reaches `createRun` without a real wait, so fetching and ingest are one action. `FetchPhoto`
  only begins a download; `BufferImage` stores the photo whenever the download ends, in any order, because
  the runner starts handlers without waiting for earlier ones (no `sequentialize` is installed).
- `Load`, `Accept`, `Reject`, `Cleanup` and `CleanupFails` are a run's dispatch in the controller, with the
  two callbacks `PiRunExecutor` gives it. `End` may come at any time, so that every order of outcome and
  delivery is there; the order among the runs of a thread is left to `ThreadRunController`.
- `Restart` forgets handlers and dispatches. The runner confirms updates when it asks for more, at a time
  the code does not control; the action chooses how many were confirmed, and the rest come again.

### TaskSchedule

- A calendar of real days with as few hours and minutes as the constants say; a zone is the list of its
  changes. A cron field is the sequence of its segments after parsing; `NextCronOccurrence` is the search
  minute after minute, `SearchMinutes` its end. A rule is what the rrule library makes of it: the set of its
  occurrences. `Never` stands for a thrown error.
- `InitialNextRunAt` and `NextRunAfterOccurrence` are what `ScheduledTasks` abstracts to the next slot.

### OAuthLogin

- `attempts` is the broker's map; the fields of an attempt stay readable after it left the map, because
  `runAttempt` still holds the object. `pending` is prompt and pendingInput, `promises` the prompts whose
  promise is open, `login` and `waits` where the provider's code stands; `chatPending` is
  `pendingAuthInputByChat`.
- None of the broker's operations awaits, so each handler is one action; those that prune the map do so in
  that action (`Kept`, `ShowAttempt`). The provider is any program that asks, reports and settles, and may
  race a prompt against the browser.

### TelegramDelivery

- A delivery is one call of `register` that started a wait; its `stage` is the await it is in. `tasks`,
  `taskOf` and `controllers` are the registry's maps; `handle`, `starting` and `loops` tell apart what
  `start()` assigns, the calls of it under way, and the runners that poll.
- `HandleText` is ingest and registration; `DeliverTaskRun` the registration by the tick, by run-now and by
  every later tick that finds the run running. `CancelRun` and `CancelReplied` are /cancel before and after
  the await of its confirmation.
- `BeginStop`, `TasksSettled`, `RunnerStopped` and `CloseServer` are the awaits of the shutdown. A crash is
  the end of a behaviour, a restart another behaviour from any initial state.

### ProgressReporter

- `lines`, `archive`, `tools`, `last`, `pending`, `timer`, `limited` and `render` are the fields of log and
  reporter; lengths are counted in lines, and a line knows its number, its tool call and a version of its
  text. `shown` and `sent` are what the chat has, archive messages by the numbers of their lines; `lost` counts the archive messages that the chat has though
  the reporter was told they failed.
- `Flush` is `flushRender` up to its first await; `ChunkSent` to `RecreateFails` are the calls it awaits and
  how they may end (`ChunkFails` and `EditFails` also after Telegram did as it was asked), `RenderEnds` its `finally`. `Finish`, `FlushWhenIdle`, `FinishGoesOn` and `LimitAwaited`
  are `finish` from await to await; `FinishContinues` says that its continuation comes before any other
  handler.

### TelegramMarkdown and TelegramSendFiles

- A segment is a text with entities, as in the code. For the properties it also carries, of each unit of its
  text, the constructs of Markdown it stands in (`within`), which no renderer takes away, and what Telegram is to
  show of them (`formats`). `Shows` relates the two and names every difference there may be: those that section
  5 lists. `Inline`, `Wrapped`, `Link`, `List`, `Table`, … are the renderers of the nodes, applied from the leaves
  up; `Normalized`, `EndOfChunk` and `SliceEntities` normalise and cut. The parser is external.
- A text is a sequence of UTF-16 units, which is what the code counts and cuts at: `x`, blank, newline, and
  `low`, the second unit of a character of two. What `x` stands for makes no difference to the code.
- The entities of a segment are a set, since neither their order nor repetitions of one mean anything to
  Telegram; `Sorted` gives them the order in which `normalizeEntities` takes them, and `Admit` is one turn of its
  loop. The loops are recursive functions: `Joined` and `NormalizeEntities` keep what they have after each turn,
  `Cuts` says where each message begins, `Begins` the same for `chunkMessage`.
- `TelegramSendFiles` is a function of the request, with the files as they are when checked, and of the fate
  of each call to the Bot API. `SendBatch` is one call for the next album or file and what the code makes of
  its answer; `SendAll` applies it, by a recursive function on the number of calls, until a call fails for good
  or nothing is left. `tool.chat` is what the chat then has, and by which call.

## 4. Runs

| Run | Instance | Shows |
|---|---|---|
| `run_safety` | 2 runs, 2 threads, a key reused with another payload, recovery limit 1, 2 stops, 1 fault, fair | `NoOverlap`, `AnnouncedIsPersisted`, `RepliesConsistent`, `QuietWhenClosed`, `ThreadOrder`, `EveryRunSettles`, `ImplementsLedger` |
| `controller_safety` | 4 runs, steering, 1 refusal, 2 early ends, disposal, slow reads, fair | `BusyMeansInFlight`, `AnswersInOrder`, `SettlesUnlessRefused` |
| `controller_refusal` | 2 runs, 1 refusal, fair | `EverySubmissionSettles` violated |
| `controller_steer` | 3 runs, steering | `AnswersOwnMessage` violated |
| `executor_safety` | 2 executions, another user of the session, 2 resets, 1 timeout, 1 restart, fair; requests of up to 3 files, 2 attempts per call | `OneSession`, `ResetForgets`, `RowFollowsSession`, `EveryExecutionSettles`; `ReportsWhatWasSent` |
| `tasks_safety` | 1 task of any schedule, 2 run-now requests, 1 edit, 1 crash; 7 schedules in 2 zones at 10 instants | `HistoryMatchesRuns`, `TerminalIsFinal`, `TopicIsKept`; `NextRunIsFirstDue` |
| `tasks_settle` | 2 endless tasks, one with a topic, 2 edits, 1 crash, one dispatched occurrence looked at per tick, fair | `FailuresExplained`, `TickRejectsOnlyFor`, `NoOccurrenceSkipped`, `EveryOccurrenceSettles`, `EveryDueTaskIsClaimed` |
| `tasks_finite_rule` | 1 task with a finite rule, fair | `EveryOccurrenceSettles` violated |
| `images_safety` | 3 updates of 2 chats, 1 API image, limit 2, time to live 2, 1 fault | `AttachOrder`, `LeavesDeliveredOrExpired`, `PromptHasClaimedImages` |
| `oauth_safety` | 1 chat, 1 HTTP client, 2 providers, room for 2 attempts, 2 prompts each, expiry at once, fair | `ShownPromptIsCurrent`, `NoPromptDangles`, `AttemptsMoveOn`, `CancelEndsLogin` |
| `delivery_safety` | a text and a task in 2 threads, 2 deliveries, 1 /cancel or /delete, racing starts, shutdown, fair; 2234 answers, all texts of up to 6 units and texts with a pair of surrogates, limits 2, 3 and 5 | `SilencedOnlyByItsThread`, `OneDeliveryPerRun`, `LeftoversAreLate`, `StopReturns`; `AnswersArriveWhole` |
| `progress_safety` | 2 calls whose lines read the same or thinking deltas, message of 1 line, archive messages of 2, 2 faults | `ToolsKnowTheirLines`, `NoLineLost`, `FinalRenderShown`, `DeletedStaysDeleted` |

**Why the bounds are enough.** The bugs these properties guard against involve two actors on one
run, key, thread or task, and one interruption: two runs in one thread and one in another show
per-thread chains and their independence; two stops show a crash during recovery from a crash; one
database failure hits every write once in some behaviour. Four runs of a controller are needed to have
an active, a prompted, a steering and a queued one at once, two due tasks to have a stale row in the
tick's list, two edits to have a disabled task with another text. `RecoveryLimit` (1000
in the code) is below the backlog of two, so that a second pass is needed; with a third run `ThreadOrder`
would be false (section 5).
Each caller of `PiExecutor` begins at most one creation, so `MaxSessions` is the number of callers; three
files let each of them have one, or one of them move.
Three photos overfill a buffer of two, and two of them with a text let part of a buffer expire between the
arrivals and the rest be claimed; a time to live of two ticks separates storing, claiming and expiring.
A progress message of one line archives with every second line, so that indexes shift under every call; two
faults let an archive message and an edit fail, a message be deleted while an edit is delayed, or the answers to
two archive messages be lost; an archive message of two lines lets one that is sent again hold more lines than
the one that was lost.
Two attempts fill the broker's map, and with a time to live of no tick an ended attempt goes as soon as the
clock moves. A cron search of 366 days is kept whole, on days of four hours of two minutes: what could be
wrong is at its ends, at the changes of the clocks and at the leap day, which the instants surround.
Answers are two blocks of inline Markdown nested twice, with links and characters of two units, which is enough for
entities that begin, end, cross or touch in every way at a limit of 2, 3 or 5, and for pairs that the limit meets. That each of them is `Rendered` is an assumption that TLC evaluates
on the instance; section 7 has why no answer can be anything else.
`MaxRuns`, `MaxStops`, `MaxFaults`, `MaxFiles`, `MaxTimeouts`, `MaxRestarts`, `MaxRefusals`, `MaxEarlyEnds`, `MaxStarts`, `MaxAsks`, `MaxDeliveries`, `MaxCancels`, `MaxInputs`, `MaxTime`, `MaxTopics`, `MaxEdits`,
`MaxCrashes`, `MaxNow` (the clock of images; retried requests and their purges go on after it) and
`MaxFaults` of images (downloads, prompts and deletions that fail, and restarts) bound counters in guards. When they are used up the system may stop, and runs of the
controller, the executor, the task service, deliveries and the progress reporter do stop once everything is settled
and nothing more can be asked, or the process has exited; those configurations switch the deadlock check off.

## 5. What fails

Three runs end in a violation of something the repository states; the `findings` of `PROJECT.json`
quote the statement for each.

1. `controller_refusal`: a prompt that rejects before the agent starts leaves `inFlight` set; later runs
   of the thread wait for ever. `SettlesUnlessRefused` holds.
2. `controller_steer`: outputs are attributed in submission order, but steering messages overtake
   follow-ups: two runs get each other's output. `AnswersInOrder` holds.
3. `tasks_finite_rule`: the last occurrence of an RRULE with COUNT or UNTIL rejects every tick from then
   on, and the start of the server. With endless and one-off schedules `EveryOccurrenceSettles` holds.

The conditions in other properties are there because the code needs them, and each can be seen to fail
by changing the instance:

- `ThreadOrder` with more rows left `running` than `RecoveryLimit`: a run accepted after a restart starts
  before older ones of its thread.
- `AnswersInOrder` without its exception: messages left in the session's queue by a loop that ended early,
  or sent late for a run that failed meanwhile, shift the attribution of later runs.
- `OneSession` with a timeout: a reset gives up on a creation that goes on; the next call begins another,
  whose map entry the `finally` block of the old one removes, so that a third call begins yet another in
  the same generation. Two controllers then execute runs of one thread side by side
  (docs/architecture.md:78 speaks of "per-thread session controllers"). A reset that gives up on an abort
  leaves a session at work whose file the next session opens again.
- A reset that joined another one returns as if it had succeeded when that one timed out; `ResetForgets`
  counts only resets that went through.
- `TopicIsKept` for a task that a run-now request works on: the request and the tick (or two requests) both find the
  task without a topic, each creates one, and the later answer replaces the earlier (`scheduled-task-service.ts:584`),
  although docs/telegram.md:58 speaks of one dedicated topic, which the first run creates.
- `TickRejectsOnlyFor` without deletions excepted: a task deleted while the tick creates its topic makes the
  catch block throw. With two run-now requests in the same millisecond a settled occurrence does, too, and so
  does one that the tick meets a second time: a one-off task moved back to a past time it ran at, or a due row
  that a batch left out (`DueBatch`, 20 in the code) when a crash came between its row and its schedule.
- A text sent after a photo, while the photo is still being downloaded: its run is created without it, and a
  later text claims it (`FetchText` and `BufferImage` in that order).
- `PromptHasClaimedImages` for runs with a prompt already accepted: a run recovered after its images were
  delivered and deleted is prompted again without them (README.md:154 documents the deletion). A photo
  whose update comes again after its row has gone is staged a second time.
- `FailuresExplained` without its last two disjuncts: after a crash between ingest and the mark, an edit
  makes ingest refuse the occurrence, which is marked failed while its run goes on.

- `NextRunIsFirstDue` beyond a year of UTC: the search is 366 × 24 × 60 minutes, so a cron for 29 February, or
  one whose next time is a year and an hour away because the clocks changed on other days (Europe/Berlin,
  `0 9 30 10 *` after it fired in 2027), throws when the occurrence is over and has the effect of point 3.
  Times that a change of the clocks skips are skipped, repeated ones run twice, and days restricted both by
  month and by week match when either does.
- `SilencedOnlyByItsThread` counts every delivery that was under way, or was registered, while /cancel awaited its
  confirmation. During that await the poll may find the aborted run and deliver it as failed
  (docs/telegram.md:37 says its delivery is aborted), and a text ingested meanwhile loses its answer.
- `OneDeliveryPerRun` and `LeftoversAreLate` except what is registered after the shutdown began: the
  tick registers running task runs again at any time (`scheduled-task-service.ts:479`), also after a /cancel,
  and `abortAllAndWait` neither aborts nor awaits what comes while it waits. `start()` looks at the runner before
  it awaits `bot.init`, so two calls make two runners, of which stop stops one; `createTaskTopic` calls it
  after the stop as well.
- A delivery whose error message cannot be sent rejects with nothing to handle it (`Tell`), which ends the
  process under Node's default. A restart loses the background waits of texts.
- `FinalRenderShown` when something disturbed the finish: an edit that meets a rate limit or an error then is not
  tried again unless archive lines are left. The flush of `finish` does not wait for the rate limit.
- `AnswersArriveWhole` excepts blank messages, which Telegram would refuse, in three places: at the blank end of
  the text (a table whose last cell is empty), where more than a third of the limit is blank in a row, and just
  before an entity that reaches beyond a third of the limit: `avoidSplittingEntityBoundary` moves the end of the
  message back to where that entity begins, though only white space may be left before it (a bold text over two
  lines after a blank line, or an entity longer than a message). An answer that renders to nothing (link
  definitions only) is sent as it is, without being cut (`telegram-markdown.ts:106`).
- `Shows` in the same property excepts what the renderers do not show. A quote and a table keep the text of what they
  hold and drop its entities (`telegram-markdown.ts:226`, `:281`): bold, italic, strikethrough and code look plain
  there, and the address of a link is gone. Code in a link becomes text of the link, formatting around code
  leaves the code out, and a link whose address is blank is no link. An image is its description, as a text.
- A character of two units that lies across the limit is split between two messages, by both cutters
  (`telegram-markdown-chunking.ts:18`, `telegram-run-delivery.ts:236`): each half shows as a replacement
  character. `Faithful` and `Complete` say that no other cut does it.
- `NoLineLost` when the answer to an archive message is lost: its lines stay in the archive and are sent again
  (`telegram-progress-log.ts:210`). Lines still in the archive are never sent when both flushes of
  `finish` fail, or when the reporter is disposed of.
- `ReportsWhatWasSent` when an answer of Telegram is lost: the tool reports a file as failed that the chat
  has. Files are read again when they are sent, and those after a failing call are neither sent nor listed.
- The broker counts ended attempts towards its capacity until they expire, while the error speaks of active
  attempts; an attempt that waits for input never expires.

## 6. Fairness

`FairSpec` of each module assumes weak fairness of the steps the platform takes by itself:
continuations of settled promises run, timers fire, the executor settles, the agent loop goes on,
SQLite answers, the service manager (launchd, as installed by `jagc install`) restarts the process.
Strong fairness is assumed once, for the answer of the Telegram API to a chain of the task service:
the tick takes the event loop again and again, and the event loop serves a completed request at its
turn. Nothing is assumed of requests, edits, crashes, failures or time, except that their number is
bounded. `ThreadRunController` does not assume that a prompt is accepted.
`OAuthLogin` assumes that a login which was told of its abort settles, unless it waits for a prompt, and that
`runAttempt` goes on; without a cancellation a login may wait for the browser for ever. `TelegramDelivery`
assumes that calls to the Bot API end, well or badly, and that the poll's timer fires; runs may never end.

## 7. Proofs

TLAPS checks `RunServiceProofs`, `ThreadRunControllerProofs`, `PiExecutorProofs`, `ScheduledTasksProofs`,
`InputImagesProofs`, `OAuthLoginProofs`, `TelegramDeliveryProofs` and `ProgressReporterProofs` from the named
assumptions on the constants alone; the theorems that need more say so in their statement: `BeginInOrder`
(`BacklogFits`), and of `ScheduledTasks` `FailuresHaveAReason` and `TickSurvives` (no run-now requests,
`Callers = {}`, and for the latter more).

*RunService.* The safety properties are not inductive by themselves. `IndInv` adds:

- `RowsInv`: rows exist exactly for the ids handed out (a new id is fresh);
- `KeysInv`: message_ingest and the key column agree in both directions, which gives `KeyedOnce`;
- `RepliesInv`: each reply is tied to the payload of its row and to its key's run, which gives
  `RepliesConsistent`;
- `ExecutionInv`: every execution is in `activeRunCompletions` and its stage matches the row. That is why
  the check in `Dispatch` excludes a second execution (`NoOverlap`) and why an executing run has no
  outcome (`ExecutesOnlyRunning`);
- `ShutdownInv`: what each await of the shutdown took a snapshot of covers what is left, which gives
  `QuietWhenClosed`.

Each action group has a lemma that it preserves these parts. `LedgerRefinement` then maps `status` to the
ledger's state, the runs of executions that are still owed their outcome to `executing` and `ingest` to
`owner`, and shows that every step is a step of `RunLedger` or a stutter.

`ThreadOrder` has an invariant of its own, `BeginInv`, in `RunService`. `QueuesInv` says that hand-offs are by
age and every run is queued for its own thread. As long as no read or write has failed, `OnTheWayInv` says that every run
that is yet to begin is queued, handed off or left to the recovery pass, and `NoneOvertakesInv` that none of these
ways lets a run get ahead of an older one of its thread: a pass holds the older ones too, since it lists the whole
backlog and takes the oldest first (`RecoveryListsAll`), and a queue has them in front (`InOrder`, with one lemma
for each way a queue changes). The theorem is about behaviours in which `BacklogFits` always holds, that is, no more
rows say `running` than `RecoveryLimit`: without it `ThreadOrder` is false (section 5). Any instance with `MaxRuns`
at most the limit satisfies it.

*ThreadRunController.* `ControllerInv` is the conjunction of the three safety properties: `activeRun`
being a delivered, pending run makes `PendingMeansOpen` inductive, and `BusyMeansInFlight` holds because
only `agent_end` clears the flag. `OldestExists` (a non-empty set of runs has a least element) comes from
the well-foundedness of the naturals.
`AnswersInOrder` needs `OrderInv`, about behaviours without steering. The controller attributes messages by age
alone, so what has to hold is that the session meets them by age as well: `QueueOrder` says that what waits in the
dispatch chain, in a dispatch and in the session's queue is in the order of submission, `OldestFirst` that the one
delivered run is the oldest pending one, `DeliveredWhenTaken` and `AnswerKept` that, up to the first rejected run,
the active run is the one whose message the agent answers. A rejected run ends the guarantee, because its message
may still be in a queue; each part says so with `CleanTo`.

*PiExecutor.* `ResetForgets` needs `ResetInv`: while a reset is in flight the thread has no session and no
creation of the current generation is under way (callers wait, and the generation was bumped before the
first await), so when the row is deleted everything that may still be persisted fails the check of
generations; a creation of the current generation loads a file that was not discarded. Nothing in it
depends on timeouts, which is why the theorem holds with them.
`OneSession` and `RowFollowsSession` are claims about executors in which nothing timed out, and `CalmInv` is
the invariant of those. `MapsInv`, `CreatingInv` and `AliveInv` say that a creation under way is the one in the map
or one that the reset in flight waits for, and that a session alive is the one in the map or the one that reset
aborted; so a `finally` block removes only its own entries, and a reset ends with no session left. `RunningInv` puts
each run in the one controller, and `FileInv` is `RowFollowsSession`.

*TelegramSendFiles.* `ReportsAreTrue` holds for any files, limits and fates of calls, from `SendFilesAssumption`, the
types of requests. First the files are in order: `SendOrderIs` says that counting the files before each one gives
the sequence the code gets by partition, and `InOrderIs` that it has each file once, with its kind, caption and at most
one caption in mode first_only. `Progress` then says of the tool after some calls what `CallsReportTruly` says at
the end, for the files tried so far. Each call keeps it, with one lemma for each of its outcomes: repeated
(`CallAgain`), failed for good (`CallFails`), answered (`CallSucceeds`). A batch takes at most
`RetryAttempts` calls, so after `Len(prepared) * RetryAttempts` calls nothing is left to be sent. Induction over
the number of calls is stated with sets (`Reaches`), since the provers take no operator as parameter.
`EveryReportIsTrue` is the invariant that the run checks.

*ScheduledTasks.* `IndInv`, for any schedules, requests, edits and crashes, ties each chain to the tables it works
on (`Chain`): only the tick is ever between the row of an occurrence and the step that moves its schedule on, and
it does not let go of the event loop there, hence `NoOccurrenceSkipped`; a chain that marks an occurrence was told
a status that its run had, hence `HistoryMatchesRuns`; and while the tick goes through the dispatched occurrences
nothing comes between (`TickInv`), hence `TerminalIsFinal`. What a chain read before it waited for a topic may be
stale in every other respect.
`TopicIsKept` is about tasks that no run-now request works on, though requests work on others, and `FreshInv` is its
invariant: of such a task (`Untouched`), a row that the tick has read, or works on, without a topic is of a task that
still has none (`Fresh`), and the tick asks for a topic only by such a row; rows it has read are of different tasks. So
neither the tick's own answer nor an edit exchanges a topic, and what a request creates concerns its own task.
`FailuresExplained` is false with run-now requests; without them (`Callers = {}`) `SoleInv` holds. The rows that the
tick has read and the one it works on are of different tasks, and
their text and topic are those of the table or older (`ReadInv`, `Read`); an occurrence that the tick took while pending is so until the tick marks it
(`TakenInv`), and what is marked failed has no run, a failed one, or one that ingest will refuse (`ExcusedInv`).
`TickRejectsOnlyFor` needs in addition that no occurrence is met again after it has left `pending`. `BatchInv` says
so: an occurrence with a row is one whose schedule has moved on, or which the tick is about to move on (`Advanced`,
`Claimed`). After a crash that takes the next tick to list every due task (`BatchFits`, an assumption on behaviours), and it
needs schedules that never go back (`"once" \notin Kinds`); section 5 has what happens otherwise.

*TaskSchedule.* `NextRunCorrect` is about any zones, rules and instants: the search of the code looks at aligned
minutes, and an instant that is due is one of them, so the least minute found is the first instant that is due; that
there is a least one comes from the well-foundedness of the naturals. It rests on `ScheduleAssumption` and
`RulesAssumption`, the types of schedules. `EveryNextRunIsFirst` is the invariant that the run checks.

*InputImages.* Every property of `images_safety` is proved, and the limits and scopes besides. The invariant joins `TypeOK`, `AttachOrder`,
`ScopesDoNotMix` and three parts: `RowsInv` (rows are not from the future, API images belong to their run),
`BoundInv` (a row of a run was claimed when the run was created and expires a time to live later, and its
dispatch has read it) and `ClaimInv` (before its expiry and delivery a run still has all it claimed).
`BoundInv` is why a deletion removes only what was delivered; `ClaimInv` needs that a claim renews the
expiry. `GreatestIsThere` gives the greatest position of a buffer, which exists because positions are
bounded in every state. `LimitsHold` counts with the library's theorems on finite sets: a purge and a claim
only shrink a buffer, and the run gets the buffer whole.

*OAuthLogin.* `IndInv` joins three parts. `BrokerInv` has the types, `NoPromptDangles` and `StatusesInv` (an id not
yet started is blank, and a login that succeeded or failed is over); `MapInv` says that the map holds at most
`MaxAttempts` attempts, all of them started, which is why pruning removes an ended attempt only by age;
`ChatInv` says that the chat's entry is of an attempt of its own that either waits for the very prompt the chat
was shown or has ended, which gives `ShownPromptIsCurrent`: no other owner can answer the prompt, and every way
the chat has of answering it shows the attempt again.

*TelegramDelivery.* `IndInv` says that deliveries are numbered without gaps (`StartedInv`), that until the maps are
cleared the registry knows every delivery under way (`Tracked`), that `abortAllAndWait` awaits all of them but the
late ones (`AwaitedInv`), and that only a stop that concerns a delivery aborts it or is about to (`AbortInv`). With it
the safety properties of its run are inductive: the entry of a run is removed only by its own delivery, or by the
clearing of the maps, when only late ones are left.

*TelegramMarkdown.* `EveryAnswerArrivesWhole` is the invariant that the run checks, for any answers and texts and
any limits of at least 2. It rests on `TextAssumption`, the types, and on `AnswersAssumption`, that an answer is
`Rendered`: its entities show of each unit what `Shows` asks of the constructs it stands in, lie within the text, are
nested or apart, and none stands over or under code. `RenderersBuild` shows that this is no restriction: every renderer makes such a
segment of such segments, whatever the texts, urls and nesting. `RenderedAnswers` is the least set
closed under the renderers (`RenderersStayInAnswers`), so it holds whatever Markdown can become, and
`EveryAnswerIsFaithful` follows for all of it: what the messages show differs from what the Markdown says only as
`Shows` allows, and a pair of surrogates is split only at the limit or where an entity begins. The arguments:

- a recursive function over `0..n` exists and follows its rule (`RecursionExists`, `RecursionIs`); a rule is given
  as a set of pairs, since the provers take no operator as parameter;
- `normalizeEntities` leaves a rendered segment as it is (`RenderedNormalized`): any two of its entities can stand
  beside each other, so no turn of the loop removes or refuses one (`NormalizedIs`), whatever the order among those
  of one range;
- `wrapWithEntity` makes one entity of each stretch between code, each position without code is in one, and a
  stretch that meets another entity covers it (`StretchExists`, `StretchCovers`): so nothing crosses, and what is
  formatted is what Markdown says (`WrappedRendered`); what a quote or a cell holds keeps its constructs when its
  entities go (`SpelledRendered`);
- each cut is beyond the one before and at most the limit away, so they reach the end of the text, and the parts
  between them make it up (`CutsAdvance`, `AdvancingReaches`, `PartsMakeUp`); entities that are nested or apart stay
  so when both are clipped, and clip to the formats of the part (`SliceIs`);
- `EveryTextIsComplete` is the same for `chunkMessage`, where only blanks lie between one message and the next.

*ProgressReporter.* `IndInv` joins two halves, for any calls, limits, chunk sizes and numbers of faults.
`LogInv` says that the lines archived and those of the message have consecutive numbers up to the last
(`NumbersInv`), that each call under way knows its line (`KnowLines`), and that the chat has every line that has left
the archive (`SentInv`): archive messages go on with the next line or go back, and each time they went back, or
are about to since the chat is ahead of the archive, an answer was lost. Each way of changing the log, a line
appended, a preview flushed, lines moved to the archive, a chunk sent, or sent with its answer lost, has a lemma
that keeps these, which gives `NoLineLost` and `ToolsKnowTheirLines`. `ScreenInv` is about renders: a reporter that stopped is not finishing
(`StopInv`), without a message nothing is rendered (`MessageInv`), the last render is what the message says
(`ShownInv`), while only the startup line is there nothing is sent (`StartupInv`, `PlaceholderInv`), and from the
first flush of an undisturbed finish on the render that comes last is that of the log and the outcome
(`FinishInv`). It gives `FinalRenderShown` and `DeletedStaysDeleted`.

*Only model-checked:* every liveness property, since fairness and ENABLED are beyond the prover. With run-now
requests `FailuresExplained` and `TickRejectsOnlyFor` of `ScheduledTasks` are not claimed; with
steering the order of answers is not, nor `OneSession` and `RowFollowsSession` once something timed out.

## 8. Not modelled

The CLI, bootstrap and migrations, which run before or outside the services; the validation of HTTP
requests; the menus for settings, models and thinking; the parsing of commands, voice and documents; in the
modelled parts, `cancelThreadRun`'s wait, progress events and their replay buffers in RunService, the
lifecycle-event buffer of the controller, thread session rows, last_run columns and topic titles; ingested rows without a
payload hash, which a version before the hashes wrote (`store.ts:345`); the omission of a render when a thinking
line comes out as it was; the languages of code blocks. The Markdown
parser, the rrule library, Intl, the pi session and its credential storage are external. `PROJECT.json` gives
the reason for each. A second server process on the same workspace is not modelled.

## 9. Plan

In this order:

1. `ProgressEvents`: the replay buffers of RunService and listeners that join late.
2. Compositions: RunService with the controller in the place of the executor; two processes on one
   database.
3. The remaining operations: `cancelThreadRun`, changes of a task's schedule kind, topic titles.
