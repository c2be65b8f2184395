------------------------------ MODULE PiExecutor --------------------------------
(***************************************************************************)
(* PiRunExecutor for one thread: the pi session the thread's runs are        *)
(* executed in, the controller on it, the promises of those being created,   *)
(* the row of thread_sessions, and resetThreadSession, which discards them   *)
(* while executions and creations are under way.                             *)
(*                                                                          *)
(* The code awaits two kinds of promises.  Those of SQLite calls, and those  *)
(* settled by a step of this model, continue before the event loop turns:    *)
(* steps that are not such continuations wait until there are none left      *)
(* (Drained).  Files, the session library and timers take time.              *)
(*                                                                          *)
(* A session and the creation it comes from have one id, and a controller    *)
(* has the id of its session.  What a controller does with a run is          *)
(* ThreadRunController; here a run is open in it until it is settled.        *)
(* cancelThreadRun changes nothing but how soon that happens.                *)
(***************************************************************************)
EXTENDS Naturals, FiniteSets

CONSTANTS
  Executions,     \* calls of execute
  Readers,        \* other calls of getSession: runtime state, model, share
  Resets,         \* calls of resetThreadSession
  None,           \* undefined
  MaxSessions, MaxFiles, MaxTimeouts, MaxRestarts   \* bounds

Sessions == 1..MaxSessions
Files == 1..MaxFiles
Callers == Executions \cup Readers

ASSUME ConstantsAssumption ==
  /\ Executions \cap Readers = {}
  /\ None \notin Sessions \cup Files \cup Resets
  /\ MaxSessions \in Nat /\ MaxFiles \in Nat
  /\ MaxTimeouts \in Nat /\ MaxRestarts \in Nat

VARIABLES
  \* The maps of the executor, at the thread's key.
  sessions, sessionCreation, controllers, controllerCreation,
  threadGeneration, resetInFlight,
  row,            \* thread_sessions: the session file of the thread, or None
  \* Creations and sessions.
  stage,          \* [Sessions -> "none", "open", "create", "settled"]
  creationGen,    \* [Sessions -> Nat]: generation a creation began in
  loads,          \* [Sessions -> Files or None]: the persisted file it opens
  wanted,         \* creations a controller creation waits for
  alive,          \* sessions that are not disposed
  file,           \* [Sessions -> Files or None]: session.sessionFile
  \* Callers.
  pc,             \* [Callers -> "idle", "awaitReset", "awaitCreation", "running", "settled"]
  at,             \* [Callers -> Sessions or None]: what it waits for or runs in
  runGen,         \* [Executions -> Nat]: generation read before submit
  \* Resets.
  resetStage,     \* [Resets -> "idle", "joined", "aborting", "awaiting", "ok", "error"]
  held,           \* session the reset in flight aborts
  waitsFor,       \* creations the reset in flight waits for
  mark,           \* files there were when the reset in flight began
  forgotten,      \* files up to this one were discarded by a reset that succeeded
  \* Bounds.
  files, timeouts, restarts

maps == <<sessions, sessionCreation, controllers, controllerCreation, threadGeneration,
          resetInFlight>>
creations == <<stage, creationGen, loads, wanted, alive, file>>
calls == <<pc, at, runGen>>
resets == <<resetStage, held, waitsFor, mark, forgotten>>
bounds == <<files, timeouts, restarts>>
vars == <<maps, row, creations, calls, resets, bounds>>

Init ==
  /\ sessions = None /\ sessionCreation = None
  /\ controllers = None /\ controllerCreation = None
  /\ threadGeneration = 0 /\ resetInFlight = None
  /\ row = None
  /\ stage = [s \in Sessions |-> "none"]
  /\ creationGen = [s \in Sessions |-> 0]
  /\ loads = [s \in Sessions |-> None]
  /\ wanted = {} /\ alive = {}
  /\ file = [s \in Sessions |-> None]
  /\ pc = [x \in Callers |-> "idle"]
  /\ at = [x \in Callers |-> None]
  /\ runGen = [e \in Executions |-> 0]
  /\ resetStage = [r \in Resets |-> "idle"]
  /\ held = None /\ waitsFor = {} /\ mark = 0 /\ forgotten = 0
  /\ files = 0 /\ timeouts = 0 /\ restarts = 0

\* Runs submitted to the controller on s and not settled.
Open(s) == {e \in Executions : pc[e] = "running" /\ at[e] = s}

--------------------------------------------------------------------------------
\* Continuations that come before anything else.

\* What a caller or a joined reset waits for is there.
Woken(x) ==
  \/ pc[x] = "awaitReset" /\ resetInFlight = None
  \/ pc[x] = "awaitCreation" /\ stage[at[x]] = "settled"

Drained ==
  /\ \A x \in Callers : ~Woken(x)
  /\ resetInFlight = None => \A r \in Resets : resetStage[r] # "joined"

--------------------------------------------------------------------------------
\* getSession and getController, after waitForInFlightReset.

\* getSession, when there is neither a session nor a creation: createOrLoadSession
\* begins by reading the row.
BeginCreation(s) ==
  /\ stage[s] = "none" /\ \A q \in Sessions : q < s => stage[q] # "none"
  /\ stage' = [stage EXCEPT ![s] = IF row = None THEN "create" ELSE "open"]
  /\ loads' = [loads EXCEPT ![s] = row]
  /\ creationGen' = [creationGen EXCEPT ![s] = threadGeneration]
  /\ sessionCreation' = s

GetSession(x) ==
  \/ /\ sessions # None
     /\ pc' = [pc EXCEPT ![x] = "settled"]
     /\ UNCHANGED <<at, sessionCreation, stage, loads, creationGen>>
  \/ /\ sessions = None /\ sessionCreation # None
     /\ pc' = [pc EXCEPT ![x] = "awaitCreation"]
     /\ at' = [at EXCEPT ![x] = sessionCreation]
     /\ UNCHANGED <<sessionCreation, stage, loads, creationGen>>
  \/ /\ sessions = None /\ sessionCreation = None
     /\ pc' = [pc EXCEPT ![x] = "awaitCreation"]
     /\ \E s \in Sessions : BeginCreation(s) /\ at' = [at EXCEPT ![x] = s]

\* execute goes on with a controller: it reads the generation and submits.
SubmitTo(e, c) ==
  /\ pc' = [pc EXCEPT ![e] = "running"]
  /\ at' = [at EXCEPT ![e] = c]
  /\ runGen' = [runGen EXCEPT ![e] = threadGeneration]

GetController(e) ==
  \/ /\ controllers # None
     /\ SubmitTo(e, controllers)
     /\ UNCHANGED <<controllers, controllerCreation, wanted, sessionCreation, stage,
                    loads, creationGen>>
  \/ /\ controllers = None /\ controllerCreation # None
     /\ pc' = [pc EXCEPT ![e] = "awaitCreation"]
     /\ at' = [at EXCEPT ![e] = controllerCreation]
     /\ UNCHANGED <<controllers, controllerCreation, wanted, sessionCreation, stage,
                    loads, creationGen, runGen>>
  \/ /\ controllers = None /\ controllerCreation = None /\ sessions # None
     /\ controllers' = sessions
     /\ SubmitTo(e, sessions)
     /\ UNCHANGED <<controllerCreation, wanted, sessionCreation, stage, loads, creationGen>>
  \/ /\ controllers = None /\ controllerCreation = None /\ sessions = None
     /\ GetSession(e)
     /\ controllerCreation' = sessionCreation'
     /\ wanted' = wanted \cup {sessionCreation'}
     /\ UNCHANGED <<controllers, runGen>>

\* waitForInFlightReset has been passed.
PassReset(x) ==
  IF x \in Executions
    THEN GetController(x)
    ELSE GetSession(x) /\ UNCHANGED <<controllers, controllerCreation, wanted, runGen>>

\* A call of execute, or another one that needs the session.
Call(x) ==
  /\ Drained /\ pc[x] = "idle"
  /\ \/ /\ resetInFlight # None
        /\ pc' = [pc EXCEPT ![x] = "awaitReset"]
        /\ UNCHANGED <<controllers, controllerCreation, wanted, runGen, at,
                       sessionCreation, stage, loads, creationGen>>
     \/ /\ resetInFlight = None
        /\ PassReset(x)
  /\ UNCHANGED <<sessions, threadGeneration, resetInFlight, row, alive, file, resets, bounds>>

\* The reset a caller waited for is over.
WakeFromReset(x) ==
  /\ pc[x] = "awaitReset" /\ resetInFlight = None
  /\ PassReset(x)
  /\ UNCHANGED <<sessions, threadGeneration, resetInFlight, row, alive, file, resets, bounds>>

\* The creation a caller waited for is settled: execute submits, if it succeeded.
WakeFromCreation(x) ==
  /\ pc[x] = "awaitCreation" /\ stage[at[x]] = "settled"
  /\ IF x \in Executions /\ at[x] \in alive
       THEN SubmitTo(x, at[x])
       ELSE pc' = [pc EXCEPT ![x] = "settled"] /\ UNCHANGED <<at, runGen>>
  /\ UNCHANGED <<maps, row, creations, resets, bounds>>

Continuations == \E x \in Callers : WakeFromReset(x) \/ WakeFromCreation(x)

--------------------------------------------------------------------------------
\* Creations under way.

\* finally: the entries go, whichever creation they are of by now.
CreationSettles(s) ==
  /\ stage' = [stage EXCEPT ![s] = "settled"]
  /\ sessionCreation' = None
  /\ controllerCreation' = IF s \in wanted THEN None ELSE controllerCreation

\* Mutant of SameGeneration: no check.
AnyGeneration(s) == TRUE

\* assertThreadGeneration
SameGeneration(s) == creationGen[s] = threadGeneration

\* A session was opened or created: ensureThreadSession persists it, unless the
\* thread was reset meanwhile, and it is disposed then.
SessionCreated(s, f) ==
  /\ CreationSettles(s)
  /\ IF SameGeneration(s)
       THEN /\ row' = f
            /\ file' = [file EXCEPT ![s] = f]
            /\ alive' = alive \cup {s}
            /\ sessions' = s
            /\ controllers' = IF s \in wanted THEN s ELSE controllers
       ELSE UNCHANGED <<row, file, alive, sessions, controllers>>

\* createOrLoadSession, the persisted session: its file cannot be used and a new one
\* is created instead, or it is opened.
OpenPersisted(s) ==
  /\ Drained /\ stage[s] = "open"
  /\ \/ /\ stage' = [stage EXCEPT ![s] = "create"]
        /\ UNCHANGED <<maps, row, alive, file>>
     \/ /\ SessionCreated(s, loads[s])
        /\ UNCHANGED <<threadGeneration, resetInFlight>>
  /\ UNCHANGED <<creationGen, loads, wanted, calls, resets, bounds>>

\* createAndPersistNewSession: a new session with a new file, or an error.
CreateSession(s) ==
  /\ Drained /\ stage[s] = "create"
  /\ \/ /\ files < MaxFiles
        /\ files' = files + 1
        /\ SessionCreated(s, files + 1)
     \/ /\ CreationSettles(s)
        /\ UNCHANGED <<sessions, controllers, row, alive, file, files>>
  /\ UNCHANGED <<threadGeneration, resetInFlight, creationGen, loads, wanted, calls,
                 resets, timeouts, restarts>>

--------------------------------------------------------------------------------
\* Executions.

\* While it works for a run, a session may go on in another file.
SessionMoves(s) ==
  /\ Drained /\ s \in alive /\ Open(s) # {}
  /\ files < MaxFiles
  /\ files' = files + 1
  /\ file' = [file EXCEPT ![s] = files + 1]
  /\ UNCHANGED <<maps, row, stage, creationGen, loads, wanted, alive, calls, resets,
                 timeouts, restarts>>

\* Mutant of Reconciled: nothing is persisted after a run.
ReconciledNever(e) == row

\* reconcilePersistedThreadSession: what it leaves in the row.
Reconciled(e) ==
  IF sessions # None /\ runGen[e] = threadGeneration THEN file[sessions] ELSE row

\* submit is settled, and the finally block of execute.
ExecutionSettles(e) ==
  /\ Drained /\ pc[e] = "running" /\ at[e] \in alive
  /\ pc' = [pc EXCEPT ![e] = "settled"]
  /\ row' = Reconciled(e)
  /\ UNCHANGED <<maps, creations, at, runGen, resets, bounds>>

--------------------------------------------------------------------------------
\* resetThreadSession

\* Mutant of Dispose: the runs of the controller are left alone.
DisposeNone == UNCHANGED pc

\* controller.dispose() fails the runs that are open; reconcile finds no session.
Dispose ==
  pc' = [x \in Callers |-> IF x \in Executions /\ controllers # None /\ x \in Open(controllers)
                             THEN "settled" ELSE pc[x]]

\* A reset begins: the generation is bumped and the maps are emptied before the
\* first await.  A reset called while one is in flight only waits for it.
BeginReset(r) ==
  /\ Drained /\ resetStage[r] = "idle"
  /\ \/ /\ resetInFlight # None
        /\ resetStage' = [resetStage EXCEPT ![r] = "joined"]
        /\ UNCHANGED <<maps, pc, held, waitsFor, mark>>
     \/ /\ resetInFlight = None
        /\ resetInFlight' = r
        /\ threadGeneration' = threadGeneration + 1
        /\ held' = sessions
        /\ waitsFor' = {sessionCreation, controllerCreation} \ {None}
        /\ mark' = files
        /\ sessions' = None /\ sessionCreation' = None
        /\ controllers' = None /\ controllerCreation' = None
        /\ Dispose
        /\ resetStage' = [resetStage EXCEPT ![r] =
                            IF sessions = None THEN "awaiting" ELSE "aborting"]
  /\ UNCHANGED <<row, creations, at, runGen, forgotten, bounds>>

\* session.abort() is over: the session is disposed.
AbortEnds(r) ==
  /\ Drained /\ resetStage[r] = "aborting"
  /\ alive' = alive \ {held}
  /\ resetStage' = [resetStage EXCEPT ![r] = "awaiting"]
  /\ UNCHANGED <<maps, row, stage, creationGen, loads, wanted, file, calls, held,
                 waitsFor, mark, forgotten, bounds>>

\* Mutant of CreationsSettled: the reset does not wait for creations.
CreationsIgnored == TRUE

CreationsSettled == \A s \in waitsFor : stage[s] = "settled"

\* The rest of the try block, and finally: the row is deleted.
ResetEnds(r) ==
  /\ resetStage[r] = "awaiting" /\ CreationsSettled
  /\ row' = None
  /\ forgotten' = mark
  /\ resetStage' = [resetStage EXCEPT ![r] = "ok"]
  /\ resetInFlight' = None
  /\ UNCHANGED <<sessions, sessionCreation, controllers, controllerCreation,
                 threadGeneration, creations, calls, held, waitsFor, mark, bounds>>

\* A reset that joined another one returns when that is over, however it ended.
JoinedEnds(r) ==
  /\ resetStage[r] = "joined" /\ resetInFlight = None
  /\ resetStage' = [resetStage EXCEPT ![r] = "ok"]
  /\ UNCHANGED <<maps, row, creations, calls, held, waitsFor, mark, forgotten, bounds>>

\* awaitWithTimeout gives up, in the reset in flight, in one that joined it or in a
\* caller that waits for it.  What it waited for goes on.
TimesOut ==
  /\ Drained /\ timeouts < MaxTimeouts
  /\ timeouts' = timeouts + 1
  /\ \/ \E r \in Resets :
          /\ \/ resetStage[r] = "aborting"
             \/ resetStage[r] = "awaiting" /\ ~CreationsSettled
          /\ resetStage' = [resetStage EXCEPT ![r] = "error"]
          /\ resetInFlight' = None
          /\ UNCHANGED pc
     \/ \E r \in Resets :
          /\ resetStage[r] = "joined"
          /\ resetStage' = [resetStage EXCEPT ![r] = "error"]
          /\ UNCHANGED <<resetInFlight, pc>>
     \/ \E x \in Callers :
          /\ pc[x] = "awaitReset"
          /\ pc' = [pc EXCEPT ![x] = "settled"]
          /\ UNCHANGED <<resetInFlight, resetStage>>
  /\ UNCHANGED <<sessions, sessionCreation, controllers, controllerCreation,
                 threadGeneration, row, creations, at, runGen, held, waitsFor, mark,
                 forgotten, files, restarts>>

--------------------------------------------------------------------------------
\* The process ends and starts again: only the row and the files are left.
Restart ==
  /\ restarts < MaxRestarts
  /\ restarts' = restarts + 1
  /\ sessions' = None /\ sessionCreation' = None
  /\ controllers' = None /\ controllerCreation' = None
  /\ threadGeneration' = 0 /\ resetInFlight' = None
  /\ stage' = [s \in Sessions |-> IF stage[s] = "none" THEN "none" ELSE "settled"]
  /\ alive' = {}
  /\ pc' = [x \in Callers |-> IF pc[x] = "idle" THEN "idle" ELSE "settled"]
  /\ resetStage' = [r \in Resets |-> IF resetStage[r] \in {"idle", "ok"}
                                       THEN resetStage[r] ELSE "error"]
  /\ UNCHANGED <<row, creationGen, loads, wanted, file, at, runGen, held, waitsFor,
                 mark, forgotten, files, timeouts>>

CreationSteps(s) == OpenPersisted(s) \/ CreateSession(s)
ResetSteps(r) == AbortEnds(r) \/ ResetEnds(r) \/ JoinedEnds(r)

Next ==
  \/ \E x \in Callers : Call(x)
  \/ Continuations
  \/ \E s \in Sessions : CreationSteps(s) \/ SessionMoves(s)
  \/ \E e \in Executions : ExecutionSettles(e)
  \/ \E r \in Resets : BeginReset(r) \/ ResetSteps(r)
  \/ TimesOut \/ Restart

Spec == Init /\ [][Next]_vars

\* Continuations run, the session library opens, creates, answers and aborts, and a
\* reset goes on.  Calls, timeouts and restarts are free.
Fairness ==
  /\ WF_vars(Continuations)
  /\ \A s \in Sessions : WF_vars(CreationSteps(s))
  /\ \A e \in Executions : WF_vars(ExecutionSettles(e))
  /\ \A r \in Resets : WF_vars(ResetSteps(r))

FairSpec == Spec /\ Fairness

--------------------------------------------------------------------------------
\* Properties.

TypeOK ==
  /\ sessions \in Sessions \cup {None} /\ sessionCreation \in Sessions \cup {None}
  /\ controllers \in Sessions \cup {None} /\ controllerCreation \in Sessions \cup {None}
  /\ threadGeneration \in Nat /\ resetInFlight \in Resets \cup {None}
  /\ row \in Files \cup {None}
  /\ stage \in [Sessions -> {"none", "open", "create", "settled"}]
  /\ creationGen \in [Sessions -> Nat]
  /\ loads \in [Sessions -> Files \cup {None}]
  /\ wanted \subseteq Sessions /\ alive \subseteq Sessions
  /\ file \in [Sessions -> Files \cup {None}] /\ \A s \in alive : file[s] # None
  /\ pc \in [Callers -> {"idle", "awaitReset", "awaitCreation", "running", "settled"}]
  /\ at \in [Callers -> Sessions \cup {None}]
  /\ runGen \in [Executions -> Nat]
  /\ resetStage \in [Resets -> {"idle", "joined", "aborting", "awaiting", "ok", "error"}]
  /\ held \in Sessions \cup {None} /\ waitsFor \subseteq Sessions
  /\ mark \in 0..MaxFiles /\ forgotten \in 0..MaxFiles
  /\ files \in 0..MaxFiles /\ timeouts \in 0..MaxTimeouts /\ restarts \in 0..MaxRestarts

\* Unless something timed out, the thread has one session: one that is not disposed
\* is the executor's or about to be disposed, and the thread's runs are all in the
\* one controller on it.
OneSession ==
  timeouts = 0 =>
    /\ \A s \in alive : s = sessions \/ (resetInFlight # None /\ s = held)
    /\ \A s \in Sessions : Open(s) # {} => s = controllers /\ s = sessions

\* What was in use before a reset that succeeded is never used again, whatever was
\* under way then, timed out or not, and across restarts.
ResetForgets ==
  /\ row # None => row > forgotten
  /\ sessions # None => file[sessions] > forgotten

\* Creations under way.
UnderWay == {s \in Sessions : stage[s] \in {"open", "create"}}

\* Why ResetForgets holds: a reset in flight belongs to the reset that aborts or
\* awaits, and while it is, the thread has no session and no creation of its
\* generation is under way; no creation is ahead of the generation, and one of the
\* present generation opens a file that was not discarded.
ResetInv ==
  /\ \A r \in Resets : resetStage[r] \in {"aborting", "awaiting"} => resetInFlight = r
  /\ resetInFlight # None => sessions = None
  /\ \A s \in UnderWay :
       /\ creationGen[s] <= threadGeneration
       /\ resetInFlight # None => creationGen[s] # threadGeneration
       /\ stage[s] = "open" /\ creationGen[s] = threadGeneration
            => loads[s] # None /\ loads[s] > forgotten
  /\ mark <= files /\ forgotten <= files
  /\ sessions # None => file[sessions] # None

IndInv == TypeOK /\ ResetInv /\ ResetForgets

\* Unless something timed out, the row names the file the session works in as soon as
\* no run is open, so that the thread goes on there after a restart.
RowFollowsSession ==
  timeouts = 0 /\ sessions # None /\ Open(sessions) = {} => row = file[sessions]

\* Every execution is settled, also by resets.
EveryExecutionSettles ==
  \A e \in Executions : pc[e] # "idle" ~> pc[e] = "settled"
================================================================================
