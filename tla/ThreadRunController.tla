-------------------------- MODULE ThreadRunController --------------------------
(***************************************************************************)
(* ThreadRunController: the runs of one thread handed to one pi session,    *)
(* and the session's events turned back into run outcomes.                  *)
(*                                                                          *)
(* The controller never tells the session which run a message belongs to:   *)
(* when the session starts a user message, the oldest pending run that has  *)
(* not been delivered is taken to be its owner.  What a message is the      *)
(* message of is known to the model (a message is the run it was sent for), *)
(* so that the properties can compare the two.                              *)
(*                                                                          *)
(* The session is a library outside the repository.  It is modelled from    *)
(* the calls the controller makes (prompt, steer, followUp, subscribe), the *)
(* events it handles, and the executor's use of isStreaming,                *)
(* pendingMessageCount and abort: one agent loop at a time; a prompt may be *)
(* refused before the loop starts; steering messages go before follow-ups;  *)
(* a loop that fails or is aborted ends with its queues as they are.        *)
(***************************************************************************)
EXTENDS Naturals, FiniteSets, FiniteSetsExt

CONSTANTS
  None,           \* no run, no answer, no outcome yet
  Rejected,       \* the outcome of a run whose promise was rejected
  MaxRuns,        \* bound: runs submitted to the controller
  MaxRefusals,    \* bound: prompts refused before the agent starts
  MaxEarlyEnds,   \* bound: loops that end on an error or an abort
  WithSteer,      \* whether runs may have delivery mode steer
  ReadsTakeTime,  \* whether a dispatch may still be under way at a session event
  WithDispose     \* whether the controller may be disposed (a thread reset)

Runs == 1..MaxRuns

ASSUME ConstantsAssumption ==
  /\ MaxRuns \in Nat /\ MaxRefusals \in Nat /\ MaxEarlyEnds \in Nat
  /\ WithSteer \in BOOLEAN /\ WithDispose \in BOOLEAN /\ ReadsTakeTime \in BOOLEAN
  /\ None \notin Runs /\ Rejected \notin Runs /\ None # Rejected

VARIABLES
  \* The controller.  Run ids are in submission order, which is the order of
  \* pendingRuns and of dispatchTail.
  submitted,      \* number of runs submitted
  steer,          \* those with delivery mode steer
  pending,        \* pendingRuns
  delivered,      \* runs whose delivered flag is set
  lastAssistant,  \* [Runs -> None or [answers, ok]]: PendingRun.lastAssistant
  outcome,        \* [Runs -> None, Rejected, or the run whose message was answered]
  activeRun,      \* activeRun
  inFlight,       \* inFlight
  tail,           \* dispatches waiting in dispatchTail
  reading,        \* the run whose dispatch awaits its images
  disposed,       \* dispose() was called: session events are not seen any more
  \* The session.
  loop,           \* "idle", "starting", "ready", "answering", "answered", "stopped"
  prompted,       \* the message prompt() was called with
  current,        \* the message the agent is answering
  steerQueue, followUpQueue,  \* messages queued, served in run order
  \* Bounds.
  refusals, earlyEnds

controller == <<submitted, steer, pending, delivered, lastAssistant, outcome,
                activeRun, inFlight, tail, reading, disposed>>
session == <<loop, prompted, current, steerQueue, followUpQueue>>
vars == <<controller, session, refusals, earlyEnds>>

Answers == [answers : Runs, ok : BOOLEAN]
LoopStates == {"idle", "starting", "ready", "answering", "answered", "stopped"}

Init ==
  /\ submitted = 0 /\ steer = {} /\ pending = {} /\ delivered = {}
  /\ lastAssistant = [r \in Runs |-> None]
  /\ outcome = [r \in Runs |-> None]
  /\ activeRun = None /\ inFlight = FALSE
  /\ tail = {} /\ reading = None /\ disposed = FALSE
  /\ loop = "idle" /\ prompted = None /\ current = None
  /\ steerQueue = {} /\ followUpQueue = {}
  /\ refusals = 0 /\ earlyEnds = 0

--------------------------------------------------------------------------------
\* Submitting and dispatching.

\* The contract of loadRunImages is a promise that may take any time.  The one
\* PiRunExecutor passes reads SQLite synchronously, so that every dispatch is over
\* before the event loop turns to the network or to a reset request.
LoopTurns == ReadsTakeTime \/ (tail = {} /\ reading = None)

\* submit: the run joins pendingRuns and the dispatch chain.
Submit ==
  LET r == submitted + 1 IN
  /\ submitted < MaxRuns /\ ~disposed
  /\ submitted' = r
  /\ \/ UNCHANGED steer
     \/ WithSteer /\ steer' = steer \cup {r}
  /\ pending' = pending \cup {r}
  /\ tail' = tail \cup {r}
  /\ UNCHANGED <<delivered, lastAssistant, outcome, activeRun, inFlight, reading,
                 disposed, session, refusals, earlyEnds>>

\* failRun for every run of the set: none of them is completed yet.
FailRuns(failed) ==
  /\ outcome' = [r \in Runs |-> IF r \in failed THEN Rejected ELSE outcome[r]]
  /\ pending' = pending \ failed
  /\ activeRun' = IF activeRun \in failed THEN None ELSE activeRun

\* The next dispatch of the chain begins: a completed run is passed over, another
\* waits for its images.
BeginDispatch ==
  /\ reading = None /\ tail # {}
  /\ LET r == Min(tail) IN
       /\ tail' = tail \ {r}
       /\ reading' = IF r \in pending THEN r ELSE None
  /\ UNCHANGED <<submitted, steer, pending, delivered, lastAssistant, outcome, activeRun,
                 inFlight, disposed, session, refusals, earlyEnds>>

\* Mutant of EndDispatch: inFlight is left for agent_start to set.
EndDispatchWithoutFlag ==
  /\ reading # None
  /\ reading' = None
  /\ IF ~inFlight
       THEN /\ loop' = "starting"
            /\ prompted' = reading
            /\ UNCHANGED <<inFlight, steerQueue, followUpQueue>>
       ELSE /\ \/ reading \in steer /\ steerQueue' = steerQueue \cup {reading}
                                    /\ UNCHANGED followUpQueue
               \/ reading \notin steer /\ followUpQueue' = followUpQueue \cup {reading}
                                       /\ UNCHANGED steerQueue
            /\ UNCHANGED <<inFlight, loop, prompted>>
  /\ UNCHANGED <<submitted, steer, pending, delivered, lastAssistant, outcome, activeRun,
                 tail, disposed, current, refusals, earlyEnds>>

\* The images are read: the message becomes the prompt, or is queued in the
\* session by delivery mode.  Whether the run was completed meanwhile is not
\* looked at.  (steer and followUp settle before the next dispatch begins.)
EndDispatch ==
  /\ reading # None
  /\ reading' = None
  /\ IF ~inFlight
       THEN /\ inFlight' = TRUE
            /\ loop' = "starting"
            /\ prompted' = reading
            /\ UNCHANGED <<steerQueue, followUpQueue>>
       ELSE /\ \/ reading \in steer /\ steerQueue' = steerQueue \cup {reading}
                                    /\ UNCHANGED followUpQueue
               \/ reading \notin steer /\ followUpQueue' = followUpQueue \cup {reading}
                                       /\ UNCHANGED steerQueue
            /\ UNCHANGED <<inFlight, loop, prompted>>
  /\ UNCHANGED <<submitted, steer, pending, delivered, lastAssistant, outcome, activeRun,
                 tail, disposed, current, refusals, earlyEnds>>

\* The images cannot be read, or steer or followUp rejects: the run fails, unless
\* it is completed.  (After a delivery only the images are deleted, and PiRunExecutor
\* catches what goes wrong with that.)
DispatchFails ==
  /\ reading # None
  /\ reading' = None
  /\ FailRuns({reading} \cap pending)
  /\ UNCHANGED <<submitted, steer, delivered, lastAssistant, inFlight, tail, disposed,
                 session, refusals, earlyEnds>>

\* prompt() rejects before the agent starts (no model, no credentials): the run
\* fails; inFlight stays as it is.
PromptRefused ==
  /\ loop = "starting" /\ LoopTurns
  /\ refusals < MaxRefusals
  /\ refusals' = refusals + 1
  /\ loop' = "idle"
  /\ prompted' = None
  /\ FailRuns({prompted} \cap pending)
  /\ UNCHANGED <<submitted, steer, delivered, lastAssistant, inFlight, tail, reading,
                 disposed, current, steerQueue, followUpQueue, earlyEnds>>

\* dispose: unsubscribe, then fail every pending run.
Dispose ==
  /\ WithDispose /\ ~disposed /\ LoopTurns
  /\ disposed' = TRUE
  /\ FailRuns(pending)
  /\ UNCHANGED <<submitted, steer, delivered, lastAssistant, inFlight, tail, reading,
                 session, refusals, earlyEnds>>

--------------------------------------------------------------------------------
\* Session events.

\* The session starts its agent loop.
AgentStart ==
  /\ loop = "starting" /\ LoopTurns
  /\ loop' = "ready"
  /\ UNCHANGED <<controller, prompted, current, steerQueue, followUpQueue, refusals, earlyEnds>>

\* The next message of the loop: the prompt first, then steering, then follow-ups.
NextMessage ==
  IF prompted # None THEN prompted
  ELSE IF steerQueue # {} THEN Min(steerQueue)
  ELSE IF followUpQueue # {} THEN Min(followUpQueue)
  ELSE None

\* completeActiveRun and resolveRun/failRun: the active run's outcome.
VerdictOf(r) ==
  IF lastAssistant[r] = None THEN Rejected
  ELSE IF lastAssistant[r].ok THEN lastAssistant[r].answers ELSE Rejected

\* Mutant of Undelivered: a message goes to the youngest run.
UndeliveredYoungestOnly ==
  LET u == pending \ delivered IN IF u = {} THEN {} ELSE {Max(u)}

\* Pending runs no user message was attributed to.
Undelivered == pending \ delivered

\* onUserMessageStart: the oldest undelivered run takes the message, and the run
\* that was active is completed with the last answer it has.  Without such a run
\* the event is ignored.
OnUserMessageStart ==
  IF disposed \/ Undelivered = {}
    THEN UNCHANGED <<pending, delivered, outcome, activeRun>>
    ELSE LET next == Min(Undelivered)
             done == activeRun # None /\ activeRun # next
         IN /\ delivered' = delivered \cup {next}
            /\ activeRun' = next
            /\ outcome' = IF done THEN [outcome EXCEPT ![activeRun] = VerdictOf(activeRun)]
                          ELSE outcome
            /\ pending' = IF done THEN pending \ {activeRun} ELSE pending

\* The loop takes its next message.
UserMessageStart ==
  /\ loop \in {"ready", "answered"} /\ LoopTurns
  /\ NextMessage # None
  /\ current' = NextMessage
  /\ prompted' = None
  /\ steerQueue' = steerQueue \ {NextMessage}
  /\ followUpQueue' = followUpQueue \ {NextMessage}
  /\ loop' = "answering"
  /\ OnUserMessageStart
  /\ UNCHANGED <<submitted, steer, lastAssistant, inFlight, tail, reading, disposed,
                 refusals, earlyEnds>>

\* The assistant's message ends, normally or (a bounded number of times) with
\* stopReason error or aborted: it is the active run's last one.
AssistantMessageEnd(ok) ==
  /\ loop = "answering" /\ LoopTurns
  /\ ok \/ earlyEnds < MaxEarlyEnds
  /\ earlyEnds' = IF ok THEN earlyEnds ELSE earlyEnds + 1
  /\ loop' = IF ok THEN "answered" ELSE "stopped"
  /\ lastAssistant' = IF disposed \/ activeRun = None THEN lastAssistant
                      ELSE [lastAssistant EXCEPT ![activeRun] = [answers |-> current, ok |-> ok]]
  /\ UNCHANGED <<submitted, steer, pending, delivered, outcome, activeRun, inFlight, tail,
                 reading, disposed, prompted, current, steerQueue, followUpQueue, refusals>>

\* Mutant of OnAgentEnd: runs that were never delivered stay pending.
OnAgentEndKeepsPending ==
  /\ inFlight' = FALSE
  /\ outcome' = [r \in Runs |-> IF r = activeRun THEN VerdictOf(r) ELSE outcome[r]]
  /\ pending' = pending \ {activeRun}
  /\ activeRun' = None

\* agent_end: the active run is completed, every other pending run fails.
OnAgentEnd ==
  /\ inFlight' = FALSE
  /\ outcome' = [r \in Runs |-> IF r = activeRun THEN VerdictOf(r)
                                ELSE IF r \in pending THEN Rejected ELSE outcome[r]]
  /\ pending' = {}
  /\ activeRun' = None

\* The loop ends: nothing is left to answer, or it stopped, with messages queued
\* or not.
AgentEnd ==
  /\ LoopTurns
  /\ loop = "stopped" \/ (loop = "answered" /\ NextMessage = None)
  /\ loop' = "idle"
  /\ current' = None
  /\ IF disposed THEN UNCHANGED <<inFlight, outcome, pending, activeRun>> ELSE OnAgentEnd
  /\ UNCHANGED <<submitted, steer, delivered, lastAssistant, tail, reading, disposed,
                 prompted, steerQueue, followUpQueue, refusals, earlyEnds>>

--------------------------------------------------------------------------------
Dispatching == BeginDispatch \/ EndDispatch \/ DispatchFails
Session ==
  \/ AgentStart \/ UserMessageStart \/ AgentEnd
  \/ \E ok \in BOOLEAN : AssistantMessageEnd(ok)

Next == Submit \/ Dispatching \/ PromptRefused \/ Dispose \/ Session

Spec == Init /\ [][Next]_vars

\* Promise continuations run, and the agent loop goes on: it starts, answers
\* what it was given and ends.  Nothing has to be submitted, refused or disposed.
Fairness ==
  /\ WF_vars(BeginDispatch) /\ WF_vars(EndDispatch \/ DispatchFails)
  /\ WF_vars(AgentStart \/ PromptRefused)
  /\ WF_vars(UserMessageStart) /\ WF_vars(AgentEnd)
  /\ WF_vars(\E ok \in BOOLEAN : AssistantMessageEnd(ok))

FairSpec == Spec /\ Fairness

--------------------------------------------------------------------------------
\* Properties.

TypeOK ==
  /\ submitted \in 0..MaxRuns
  /\ steer \subseteq Runs /\ pending \subseteq Runs /\ delivered \subseteq Runs
  /\ lastAssistant \in [Runs -> {None} \cup Answers]
  /\ outcome \in [Runs -> {None, Rejected} \cup Runs]
  /\ activeRun \in Runs \cup {None}
  /\ inFlight \in BOOLEAN /\ disposed \in BOOLEAN
  /\ tail \subseteq Runs /\ reading \in Runs \cup {None}
  /\ loop \in LoopStates
  /\ prompted \in Runs \cup {None} /\ current \in Runs \cup {None}
  /\ loop = "answering" => current \in Runs
  /\ steerQueue \subseteq Runs /\ followUpQueue \subseteq Runs
  /\ refusals \in 0..MaxRefusals /\ earlyEnds \in 0..MaxEarlyEnds

\* A submitted run awaits its outcome exactly while it is in pendingRuns, and the
\* run that receives the session's progress is one that awaits it and was delivered.
PendingMeansOpen ==
  /\ \A r \in Runs : IF r <= submitted THEN r \in pending <=> outcome[r] = None
                    ELSE r \notin pending /\ outcome[r] = None
  /\ activeRun # None => activeRun \in pending \cap delivered

\* prompt() is only called when the session has no loop under way: whatever the
\* order of dispatches, failures and events, a busy session means inFlight.
BusyMeansInFlight == loop # "idle" => inFlight

\* The text a run succeeds with is the answer to the message of that run.
AnswersOwnMessage == \A r \in Runs : outcome[r] \in {None, Rejected, r}

\* Without steering, outputs go astray only behind a run that was rejected (whose
\* message may still reach the session): before the first one, they belong to their
\* runs.
AnswersInOrder ==
  steer = {} => \A r \in Runs : outcome[r] \in {None, Rejected, r}
                                \/ \E q \in Runs : q < r /\ outcome[q] = Rejected

\* Every run submitted is settled one way or the other.
EverySubmissionSettles == \A r \in Runs : r \in pending ~> r \notin pending

\* So it is as long as no prompt has been refused.
SettlesUnlessRefused == \A r \in Runs : r \in pending ~> r \notin pending \/ refusals > 0
================================================================================
