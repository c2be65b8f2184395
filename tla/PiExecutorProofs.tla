---------------------------- MODULE PiExecutorProofs ----------------------------
(***************************************************************************)
(* Proofs about PiExecutor, for every number of callers and resets and every *)
(* bound, and about the files its sessions send (TelegramSendFiles), for     *)
(* every call of the tool and every answer of the Bot API.                   *)
(***************************************************************************)
EXTENDS MCPiExecutor, FiniteSetTheorems, WellFoundedInduction, TLAPS

\* The types of the variables the steps of a caller may change.
CallTypes ==
  /\ sessionCreation \in Sessions \cup {None}
  /\ controllers \in Sessions \cup {None} /\ controllerCreation \in Sessions \cup {None}
  /\ stage \in [Sessions -> {"none", "open", "create", "settled"}]
  /\ creationGen \in [Sessions -> Nat]
  /\ loads \in [Sessions -> Files \cup {None}]
  /\ wanted \subseteq Sessions
  /\ pc \in [Callers -> {"idle", "awaitReset", "awaitCreation", "running", "settled"}]
  /\ at \in [Callers -> Sessions \cup {None}]
  /\ runGen \in [Executions -> Nat]

\* What ResetInv says of the creations under way.
CreationsInv ==
  \A s \in UnderWay :
    /\ creationGen[s] <= threadGeneration
    /\ resetInFlight # None => creationGen[s] # threadGeneration
    /\ stage[s] = "open" /\ creationGen[s] = threadGeneration
         => loads[s] # None /\ loads[s] > forgotten

--------------------------------------------------------------------------------
\* Callers.

\* A creation that begins is of the present generation and opens the row.
LEMMA BeginCreationStep ==
  ASSUME IndInv, resetInFlight = None, NEW s \in Sessions, BeginCreation(s),
         UNCHANGED <<threadGeneration, resetInFlight, forgotten>>
  PROVE  /\ stage' \in [Sessions -> {"none", "open", "create", "settled"}]
         /\ creationGen' \in [Sessions -> Nat]
         /\ loads' \in [Sessions -> Files \cup {None}]
         /\ sessionCreation' = s
         /\ CreationsInv'
<1> USE DEF IndInv, TypeOK, BeginCreation
<1>1. stage' \in [Sessions -> {"none", "open", "create", "settled"}]
  OBVIOUS
<1>2. creationGen' \in [Sessions -> Nat] /\ loads' \in [Sessions -> Files \cup {None}]
  OBVIOUS
<1>3. CreationsInv'
  <2> SUFFICES ASSUME NEW q \in Sessions, stage'[q] \in {"open", "create"}
               PROVE  /\ creationGen'[q] <= threadGeneration
                      /\ stage'[q] = "open" /\ creationGen'[q] = threadGeneration
                           => loads'[q] # None /\ loads'[q] > forgotten
    BY DEF CreationsInv, UnderWay
  <2>1. CASE q = s
    BY <2>1 DEF ResetForgets
  <2>2. CASE q # s
    BY <2>2 DEF ResetInv, UnderWay
  <2> QED BY <2>1, <2>2
<1> QED BY <1>1, <1>2, <1>3

\* Without a new creation nothing changes for those under way.
LEMMA NoCreationStep ==
  ASSUME ResetInv, UNCHANGED <<stage, creationGen, loads, threadGeneration, resetInFlight, forgotten>>
  PROVE  CreationsInv'
BY DEF ResetInv, CreationsInv, UnderWay

\* getSession
LEMMA GetSessionStep ==
  ASSUME IndInv, resetInFlight = None, NEW x \in Callers, GetSession(x),
         UNCHANGED <<threadGeneration, resetInFlight, forgotten>>
  PROVE  /\ stage' \in [Sessions -> {"none", "open", "create", "settled"}]
         /\ creationGen' \in [Sessions -> Nat]
         /\ loads' \in [Sessions -> Files \cup {None}]
         /\ sessionCreation' \in Sessions \cup {None}
         /\ sessions = None => sessionCreation' # None
         /\ pc' \in [Callers -> {"idle", "awaitReset", "awaitCreation", "running", "settled"}]
         /\ at' \in [Callers -> Sessions \cup {None}]
         /\ CreationsInv'
<1>1. CASE sessions # None
  <2>1. CreationsInv'
    BY <1>1, NoCreationStep DEF GetSession, IndInv
  <2> QED BY <1>1, <2>1 DEF GetSession, IndInv, TypeOK
<1>2. CASE sessions = None /\ sessionCreation # None
  <2>1. CreationsInv'
    BY <1>2, NoCreationStep DEF GetSession, IndInv
  <2> QED BY <1>2, <2>1 DEF GetSession, IndInv, TypeOK
<1>3. CASE sessions = None /\ sessionCreation = None
  <2>1. PICK s \in Sessions : BeginCreation(s) /\ at' = [at EXCEPT ![x] = s]
    BY <1>3 DEF GetSession
  <2>2. pc' = [pc EXCEPT ![x] = "awaitCreation"]
    BY <1>3 DEF GetSession
  <2>3. s # None
    BY ConstantsAssumption
  <2> QED BY <2>1, <2>2, <2>3, BeginCreationStep DEF IndInv, TypeOK
<1> QED BY <1>1, <1>2, <1>3

\* getController and getSession keep the types, and what is under way is in order.
LEMMA PassResetStep ==
  ASSUME IndInv, resetInFlight = None, NEW x \in Callers, PassReset(x),
         UNCHANGED <<threadGeneration, resetInFlight, forgotten>>
  PROVE  CallTypes' /\ CreationsInv'
<1>1. CASE x \notin Executions
  <2>1. GetSession(x) /\ UNCHANGED <<controllers, controllerCreation, wanted, runGen>>
    BY <1>1 DEF PassReset
  <2> QED BY <2>1, GetSessionStep DEF IndInv, TypeOK, CallTypes
<1>2. CASE x \in Executions
  <2>0. GetController(x)
    BY <1>2 DEF PassReset
  <2>1. CASE controllers # None
    <3>1. CreationsInv'
      BY <2>0, <2>1, NoCreationStep DEF GetController, IndInv
    <3> QED BY <1>2, <2>0, <2>1, <3>1 DEF GetController, SubmitTo, IndInv, TypeOK, CallTypes, Callers
  <2>2. CASE controllers = None /\ controllerCreation # None
    <3>1. CreationsInv'
      BY <2>0, <2>2, NoCreationStep DEF GetController, IndInv
    <3> QED BY <1>2, <2>0, <2>2, <3>1 DEF GetController, IndInv, TypeOK, CallTypes, Callers
  <2>3. CASE controllers = None /\ controllerCreation = None /\ sessions # None
    <3>1. CreationsInv'
      BY <2>0, <2>3, NoCreationStep DEF GetController, IndInv
    <3> QED BY <1>2, <2>0, <2>3, <3>1 DEF GetController, SubmitTo, IndInv, TypeOK, CallTypes, Callers
  <2>4. CASE controllers = None /\ controllerCreation = None /\ sessions = None
    <3>1. /\ GetSession(x)
          /\ controllerCreation' = sessionCreation'
          /\ wanted' = wanted \cup {sessionCreation'}
          /\ UNCHANGED <<controllers, runGen>>
      BY <2>0, <2>4 DEF GetController
    <3>2. sessionCreation' \in Sessions
      BY <2>4, <3>1, GetSessionStep
    <3> QED BY <3>1, <3>2, GetSessionStep DEF IndInv, TypeOK, CallTypes
  <2> QED BY <2>1, <2>2, <2>3, <2>4
<1> QED BY <1>1, <1>2

\* A step of a caller that leaves the sessions, the row and the resets alone.
LEMMA CallerStep ==
  ASSUME IndInv, CallTypes', CreationsInv',
         UNCHANGED <<sessions, threadGeneration, resetInFlight, row, alive, file, resets, bounds>>
  PROVE  IndInv'
<1>1. TypeOK'
  BY DEF IndInv, TypeOK, CallTypes, resets, bounds
<1>2. ResetInv'
  BY DEF IndInv, ResetInv, CreationsInv, resets, bounds
<1>3. ResetForgets'
  BY DEF IndInv, ResetForgets, resets
<1> QED BY <1>1, <1>2, <1>3 DEF IndInv

LEMMA CallPreserves ==
  ASSUME IndInv, NEW x \in Callers, Call(x)
  PROVE  IndInv'
<1>0. UNCHANGED <<sessions, threadGeneration, resetInFlight, row, alive, file, resets, bounds>>
  BY DEF Call
<1>1. CASE resetInFlight = None
  <2>1. PassReset(x)
    BY <1>1 DEF Call
  <2> QED BY <1>0, <1>1, <2>1, PassResetStep, CallerStep DEF resets
<1>2. CASE resetInFlight # None
  <2>1. CreationsInv'
    BY <1>0, <1>2, NoCreationStep DEF Call, IndInv, resets
  <2>2. CallTypes'
    BY <1>2 DEF Call, IndInv, TypeOK, CallTypes
  <2> QED BY <1>0, <2>1, <2>2, CallerStep
<1> QED BY <1>1, <1>2

LEMMA WakeFromResetPreserves ==
  ASSUME IndInv, NEW x \in Callers, WakeFromReset(x)
  PROVE  IndInv'
BY PassResetStep, CallerStep DEF WakeFromReset, resets

LEMMA WakeFromCreationPreserves ==
  ASSUME IndInv, NEW x \in Callers, WakeFromCreation(x)
  PROVE  IndInv'
<1>1. CreationsInv'
  BY NoCreationStep DEF WakeFromCreation, IndInv, maps, creations, resets
<1>2. CallTypes'
  BY DEF WakeFromCreation, SubmitTo, IndInv, TypeOK, CallTypes, maps, creations
<1> QED BY <1>1, <1>2, CallerStep DEF WakeFromCreation, maps, creations

--------------------------------------------------------------------------------
\* Creations.

\* A creation ends; its file is not one that was discarded.
LEMMA CreationEnds ==
  ASSUME IndInv, NEW s \in Sessions, NEW f \in Files, stage[s] \in {"open", "create"},
         SameGeneration(s) => f > forgotten,
         SessionCreated(s, f), files <= files', files' \in 0..MaxFiles,
         UNCHANGED <<threadGeneration, resetInFlight, creationGen, loads, wanted, calls,
                     resets, timeouts, restarts>>
  PROVE  IndInv'
<1> USE DEF IndInv
<1>0. f # None /\ s # None
  BY ConstantsAssumption
<1>1. TypeOK'
  BY <1>0 DEF TypeOK, SessionCreated, CreationSettles, calls, resets
<1>2. ResetInv'
  <2>1. CASE SameGeneration(s)
    <3>1. resetInFlight = None
      BY <2>1 DEF SameGeneration, ResetInv, UnderWay
    <3>2. sessions' = s /\ file' = [file EXCEPT ![s] = f]
      BY <2>1 DEF SessionCreated
    <3>3. file'[sessions'] # None
      BY <1>0, <3>2 DEF TypeOK
    <3> QED
      BY <1>0, <1>1, <3>1, <3>3 DEF TypeOK, SessionCreated, CreationSettles, ResetInv, UnderWay, resets
  <2>2. CASE ~SameGeneration(s)
    BY <2>2 DEF TypeOK, SessionCreated, CreationSettles, ResetInv, UnderWay, resets
  <2> QED BY <2>1, <2>2
<1>3. ResetForgets'
  BY <1>0 DEF TypeOK, SessionCreated, ResetForgets, resets
<1> QED BY <1>1, <1>2, <1>3

LEMMA OpenPersistedPreserves ==
  ASSUME IndInv, NEW s \in Sessions, OpenPersisted(s)
  PROVE  IndInv'
<1>1. CASE stage' = [stage EXCEPT ![s] = "create"] /\ UNCHANGED <<maps, row, alive, file>>
  <2>1. TypeOK'
    BY <1>1 DEF OpenPersisted, IndInv, TypeOK, maps, calls, resets, bounds
  <2>2. ResetInv'
    BY <1>1 DEF OpenPersisted, IndInv, TypeOK, ResetInv, UnderWay, maps, resets, bounds
  <2>3. ResetForgets'
    BY <1>1 DEF OpenPersisted, IndInv, ResetForgets, maps, resets
  <2> QED BY <2>1, <2>2, <2>3 DEF IndInv
<1>2. CASE SessionCreated(s, loads[s]) /\ SameGeneration(s)
  <2>1. loads[s] \in Files /\ loads[s] > forgotten
    BY <1>2 DEF OpenPersisted, SameGeneration, IndInv, TypeOK, ResetInv, UnderWay
  <2>2. UNCHANGED <<threadGeneration, resetInFlight, creationGen, loads, wanted, calls,
                    resets, timeouts, restarts>>
    BY DEF OpenPersisted, maps, bounds
  <2>3. stage[s] \in {"open", "create"} /\ files <= files' /\ files' \in 0..MaxFiles
    BY ConstantsAssumption DEF OpenPersisted, IndInv, TypeOK, bounds
  <2> QED BY <1>2, <2>1, <2>2, <2>3, CreationEnds
<1>3. CASE SessionCreated(s, loads[s]) /\ ~SameGeneration(s)
  <2>1. UNCHANGED <<row, file, alive, sessions, controllers>>
    BY <1>3 DEF SessionCreated
  <2>2. CreationSettles(s)
    BY <1>3 DEF SessionCreated
  <2>3. TypeOK'
    BY <2>1, <2>2, <1>3 DEF OpenPersisted, CreationSettles, IndInv, TypeOK, calls, resets, bounds
  <2>4. ResetInv'
    BY <2>1, <2>2, <1>3
    DEF OpenPersisted, CreationSettles, IndInv, TypeOK, ResetInv, UnderWay, resets, bounds
  <2>5. ResetForgets'
    BY <2>1, <1>3 DEF OpenPersisted, IndInv, ResetForgets, resets
  <2> QED BY <2>3, <2>4, <2>5 DEF IndInv
<1> QED BY <1>1, <1>2, <1>3 DEF OpenPersisted

LEMMA CreateSessionPreserves ==
  ASSUME IndInv, NEW s \in Sessions, CreateSession(s)
  PROVE  IndInv'
<1>1. CASE files < MaxFiles /\ files' = files + 1 /\ SessionCreated(s, files + 1)
  <2>1. files + 1 \in Files /\ files + 1 > forgotten
    BY <1>1, ConstantsAssumption DEF IndInv, TypeOK, ResetInv, Files
  <2>2. files <= files' /\ files' \in 0..MaxFiles
    BY <1>1, ConstantsAssumption DEF IndInv, TypeOK
  <2> QED BY <1>1, <2>1, <2>2, CreationEnds DEF CreateSession
<1>2. CASE CreationSettles(s) /\ UNCHANGED <<sessions, controllers, row, alive, file, files>>
  <2>1. TypeOK'
    BY <1>2 DEF CreateSession, CreationSettles, IndInv, TypeOK, calls, resets
  <2>2. ResetInv'
    BY <1>2 DEF CreateSession, CreationSettles, IndInv, TypeOK, ResetInv, UnderWay, resets
  <2>3. ResetForgets'
    BY <1>2 DEF CreateSession, IndInv, ResetForgets, resets
  <2> QED BY <2>1, <2>2, <2>3 DEF IndInv
<1> QED BY <1>1, <1>2 DEF CreateSession

--------------------------------------------------------------------------------
\* Executions.

LEMMA SessionMovesPreserves ==
  ASSUME IndInv, NEW s \in Sessions, SessionMoves(s)
  PROVE  IndInv'
<1>0. files + 1 \in Files /\ files + 1 > forgotten /\ files + 1 # None
  BY ConstantsAssumption DEF SessionMoves, IndInv, TypeOK, ResetInv, Files
<1>1. TypeOK'
  BY <1>0, ConstantsAssumption DEF SessionMoves, IndInv, TypeOK, maps, calls, resets, Files
<1>2. ResetInv'
  BY <1>0 DEF SessionMoves, IndInv, TypeOK, ResetInv, UnderWay, maps, resets
<1>3. ResetForgets'
  BY <1>0 DEF SessionMoves, IndInv, TypeOK, ResetForgets, maps, resets
<1> QED BY <1>1, <1>2, <1>3 DEF IndInv

LEMMA ExecutionSettlesPreserves ==
  ASSUME IndInv, NEW e \in Executions, ExecutionSettles(e)
  PROVE  IndInv'
<1>1. row' \in Files \cup {None} /\ (row' # None => row' > forgotten)
  BY DEF ExecutionSettles, Reconciled, IndInv, TypeOK, ResetInv, ResetForgets
<1>2. TypeOK'
  BY <1>1 DEF ExecutionSettles, IndInv, TypeOK, maps, creations, resets, bounds
<1>3. ResetInv'
  BY DEF ExecutionSettles, IndInv, ResetInv, UnderWay, maps, creations, resets, bounds
<1>4. ResetForgets'
  BY <1>1 DEF ExecutionSettles, IndInv, ResetForgets, maps, creations, resets
<1> QED BY <1>2, <1>3, <1>4 DEF IndInv

--------------------------------------------------------------------------------
\* Resets.

LEMMA BeginResetPreserves ==
  ASSUME IndInv, NEW r \in Resets, BeginReset(r)
  PROVE  IndInv'
<1> USE DEF IndInv
<1>0. r # None
  BY ConstantsAssumption
<1>1. CASE resetInFlight # None
  <2>1. TypeOK'
    BY <1>1 DEF BeginReset, TypeOK, maps, creations, bounds
  <2>2. ResetInv'
    BY <1>1 DEF BeginReset, TypeOK, ResetInv, UnderWay, maps, creations, bounds
  <2>3. ResetForgets'
    BY <1>1 DEF BeginReset, ResetForgets, maps, creations
  <2> QED BY <2>1, <2>2, <2>3
<1>2. CASE resetInFlight = None
  <2>1. pc' \in [Callers -> {"idle", "awaitReset", "awaitCreation", "running", "settled"}]
    BY <1>2 DEF BeginReset, Dispose, TypeOK
  <2>2. TypeOK'
    BY <1>2, <2>1 DEF BeginReset, TypeOK, creations, bounds
  <2>3. ResetInv'
    <3>1. \A q \in Resets : resetStage[q] \notin {"aborting", "awaiting"}
      BY <1>2, ConstantsAssumption DEF ResetInv
    <3>2. \A q \in Resets : resetStage'[q] \in {"aborting", "awaiting"} => resetInFlight' = q
      BY <1>2, <3>1 DEF BeginReset, TypeOK
    <3>3. /\ UnderWay' = UnderWay
          /\ threadGeneration' = threadGeneration + 1 /\ threadGeneration \in Nat
          /\ UNCHANGED <<creationGen, loads, forgotten, files, file>>
          /\ sessions' = None /\ mark' = files /\ files \in Nat
      BY <1>2 DEF BeginReset, UnderWay, creations, bounds, TypeOK
    <3>4. \A q \in UnderWay : creationGen[q] \in Nat /\ creationGen[q] <= threadGeneration
      BY DEF TypeOK, ResetInv, UnderWay
    <3>5. forgotten <= files
      BY DEF ResetInv
    <3> QED BY <3>2, <3>3, <3>4, <3>5 DEF ResetInv
  <2>4. ResetForgets'
    BY <1>2 DEF BeginReset, ResetForgets, creations
  <2> QED BY <2>2, <2>3, <2>4
<1> QED BY <1>1, <1>2

LEMMA AbortEndsPreserves ==
  ASSUME IndInv, NEW r \in Resets, AbortEnds(r)
  PROVE  IndInv'
<1>1. TypeOK'
  BY DEF AbortEnds, IndInv, TypeOK, maps, calls, bounds
<1>2. ResetInv'
  BY DEF AbortEnds, IndInv, TypeOK, ResetInv, UnderWay, maps, bounds
<1>3. ResetForgets'
  BY DEF AbortEnds, IndInv, ResetForgets, maps
<1> QED BY <1>1, <1>2, <1>3 DEF IndInv

LEMMA ResetEndsPreserves ==
  ASSUME IndInv, NEW r \in Resets, ResetEnds(r)
  PROVE  IndInv'
<1>0. resetInFlight = r /\ sessions = None
  BY ConstantsAssumption DEF ResetEnds, IndInv, ResetInv
<1>1. TypeOK'
  BY DEF ResetEnds, IndInv, TypeOK, creations, calls, bounds
<1>2. ResetInv'
  <2>1. \A q \in Resets : resetStage'[q] \notin {"aborting", "awaiting"}
    BY <1>0 DEF ResetEnds, IndInv, TypeOK, ResetInv
  <2>2. \A q \in UnderWay : creationGen[q] <= threadGeneration /\ creationGen[q] # threadGeneration
    BY <1>0, ConstantsAssumption DEF IndInv, ResetInv
  <2>3. UnderWay' = UnderWay /\ resetInFlight' = None /\ sessions' = None
    BY <1>0 DEF ResetEnds, UnderWay, creations
  <2>4. mark' <= files' /\ forgotten' <= files'
    BY DEF ResetEnds, IndInv, ResetInv, bounds
  <2> QED BY <2>1, <2>2, <2>3, <2>4 DEF ResetEnds, ResetInv, creations
<1>3. ResetForgets'
  BY <1>0 DEF ResetEnds, ResetForgets
<1> QED BY <1>1, <1>2, <1>3 DEF IndInv

LEMMA JoinedEndsPreserves ==
  ASSUME IndInv, NEW r \in Resets, JoinedEnds(r)
  PROVE  IndInv'
<1>1. TypeOK'
  BY DEF JoinedEnds, IndInv, TypeOK, maps, creations, calls, bounds
<1>2. ResetInv'
  BY DEF JoinedEnds, IndInv, TypeOK, ResetInv, UnderWay, maps, creations, bounds
<1>3. ResetForgets'
  BY DEF JoinedEnds, IndInv, ResetForgets, maps, creations
<1> QED BY <1>1, <1>2, <1>3 DEF IndInv

LEMMA TimesOutPreserves ==
  ASSUME IndInv, TimesOut
  PROVE  IndInv'
<1> USE DEF IndInv
<1>0. /\ timeouts' \in 0..MaxTimeouts
      /\ UNCHANGED <<sessions, sessionCreation, controllers, controllerCreation,
                     threadGeneration, row, creations, at, runGen, held, waitsFor, mark,
                     forgotten, files, restarts>>
  BY ConstantsAssumption DEF TimesOut, TypeOK
<1>1. ResetForgets'
  BY <1>0 DEF ResetForgets, creations
<1>2. ASSUME NEW r \in Resets, resetStage[r] \in {"aborting", "awaiting"},
             resetStage' = [resetStage EXCEPT ![r] = "error"],
             resetInFlight' = None, UNCHANGED pc
      PROVE  TypeOK' /\ ResetInv'
  <2>1. TypeOK'
    BY <1>0, <1>2 DEF TypeOK, creations
  <2>2. \A q \in Resets : resetStage'[q] \notin {"aborting", "awaiting"}
    BY <1>2 DEF TypeOK, ResetInv
  <2>3. ResetInv'
    BY <1>0, <1>2, <2>2 DEF ResetInv, UnderWay, creations
  <2> QED BY <2>1, <2>3
<1>3. ASSUME NEW r \in Resets, resetStage[r] = "joined",
             resetStage' = [resetStage EXCEPT ![r] = "error"],
             UNCHANGED <<resetInFlight, pc>>
      PROVE  TypeOK' /\ ResetInv'
  <2>1. TypeOK'
    BY <1>0, <1>3 DEF TypeOK, creations
  <2>2. ResetInv'
    BY <1>0, <1>3 DEF TypeOK, ResetInv, UnderWay, creations
  <2> QED BY <2>1, <2>2
<1>4. ASSUME NEW x \in Callers, pc' = [pc EXCEPT ![x] = "settled"],
             UNCHANGED <<resetInFlight, resetStage>>
      PROVE  TypeOK' /\ ResetInv'
  <2>1. TypeOK'
    BY <1>0, <1>4 DEF TypeOK, creations
  <2>2. ResetInv'
    BY <1>0, <1>4 DEF ResetInv, UnderWay, creations
  <2> QED BY <2>1, <2>2
<1> QED BY <1>1, <1>2, <1>3, <1>4 DEF TimesOut

LEMMA RestartPreserves ==
  ASSUME IndInv, Restart
  PROVE  IndInv'
<1> USE DEF IndInv
<1>1. /\ stage' \in [Sessions -> {"none", "open", "create", "settled"}]
      /\ pc' \in [Callers -> {"idle", "awaitReset", "awaitCreation", "running", "settled"}]
      /\ resetStage' \in [Resets -> {"idle", "joined", "aborting", "awaiting", "ok", "error"}]
      /\ restarts' \in 0..MaxRestarts
  BY ConstantsAssumption DEF Restart, TypeOK
<1>2. TypeOK'
  BY <1>1 DEF Restart, TypeOK
<1>3. UnderWay' = {} /\ \A r \in Resets : resetStage'[r] \notin {"aborting", "awaiting"}
  BY DEF Restart, UnderWay
<1>4. ResetInv'
  BY <1>3 DEF Restart, ResetInv
<1>5. ResetForgets'
  BY DEF Restart, ResetForgets
<1> QED BY <1>2, <1>4, <1>5

--------------------------------------------------------------------------------
\* While nothing has timed out.

\* A controller is on the session; a creation that is awaited is under way, without a
\* session or a reset; a controller that is awaited comes from that creation.
MapsInv ==
  /\ controllers # None => controllers = sessions
  /\ sessionCreation # None =>
       sessions = None /\ resetInFlight = None /\ sessionCreation \in UnderWay
  /\ controllerCreation # None =>
       controllerCreation = sessionCreation /\ controllerCreation \in wanted

\* Other creations are those the reset in flight waits for.
CreatingInv ==
  \A s \in UnderWay : s = sessionCreation \/ (resetInFlight # None /\ s \in waitsFor)

\* Sessions come from creations that are settled; when a reset is about to end, the one it
\* aborted is disposed.
AliveInv ==
  /\ \A s \in alive : stage[s] = "settled"
  /\ \A s \in alive : s = sessions \/ (resetInFlight # None /\ s = held)
  /\ \A r \in Resets : resetStage[r] = "awaiting" => alive = {}

\* A run is in the one controller, and began in this generation; a call of execute that
\* waits for a session will run in that controller.
RunningInv ==
  \A e \in Executions :
    /\ pc[e] = "running" => /\ at[e] \in Sessions /\ at[e] = controllers /\ at[e] = sessions
                            /\ runGen[e] = threadGeneration
    /\ pc[e] = "awaitCreation" => /\ at[e] \in wanted
                                  /\ at[e] \in alive => at[e] = controllers /\ at[e] = sessions

\* RowFollowsSession, without its condition.
FileInv == sessions # None /\ Open(sessions) = {} => row = file[sessions]

Calm == MapsInv /\ CreatingInv /\ AliveInv /\ RunningInv /\ FileInv

CalmInv == timeouts = 0 => Calm

\* A call that settles, begins to wait for a reset, or waits for a creation there is.
LEMMA WaitsCalm ==
  ASSUME IndInv, Calm, NEW x \in Callers,
         UNCHANGED <<sessions, sessionCreation, controllers, threadGeneration, resetInFlight, row,
                     stage, alive, file, resets>>,
         \/ pc' = [pc EXCEPT ![x] = "settled"] /\ pc[x] # "running" /\ at' = at
         \/ pc' = [pc EXCEPT ![x] = "awaitReset"] /\ pc[x] = "idle" /\ at' = at
         \/ /\ pc' = [pc EXCEPT ![x] = "awaitCreation"] /\ pc[x] # "running"
            /\ sessionCreation # None /\ at' = [at EXCEPT ![x] = sessionCreation]
            /\ x \in Executions => sessionCreation \in wanted',
         \/ UNCHANGED <<controllerCreation, wanted>>
         \/ controllerCreation' = sessionCreation /\ wanted' = wanted \cup {sessionCreation},
         runGen' = runGen
  PROVE  Calm'
<1> USE DEF Calm
<1>1. UnderWay' = UnderWay /\ wanted \subseteq wanted'
  BY DEF UnderWay
<1>2. MapsInv'
  BY <1>1 DEF MapsInv
<1>3. CreatingInv'
  BY <1>1 DEF CreatingInv, resets
<1>4. AliveInv'
  BY DEF AliveInv, resets
<1>5. RunningInv'
  <2>1. sessionCreation # None => sessionCreation \notin alive
    BY DEF MapsInv, UnderWay, AliveInv
  <2>2. ASSUME NEW e \in Executions, e # x
        PROVE  pc'[e] = pc[e] /\ at'[e] = at[e] /\ runGen'[e] = runGen[e]
    BY <2>2 DEF IndInv, TypeOK, Callers
  <2>3. ASSUME x \in Executions
        PROVE  /\ pc'[x] # "running"
               /\ pc'[x] = "awaitCreation" => at'[x] = sessionCreation /\ sessionCreation # None
                                              /\ sessionCreation \in wanted'
    BY <2>3 DEF IndInv, TypeOK, Callers
  <2> QED
    BY <1>1, <2>1, <2>2, <2>3 DEF RunningInv
<1>6. FileInv'
  <2>1. Open(sessions) \subseteq Open(sessions)'
    BY DEF Open, IndInv, TypeOK, Callers
  <2> QED
    BY <2>1 DEF FileInv
<1> QED
  BY <1>2, <1>3, <1>4, <1>5, <1>6

\* A run is submitted to the controller on the session.
LEMMA SubmitCalm ==
  ASSUME IndInv, Calm, NEW e \in Executions, sessions # None, SubmitTo(e, sessions),
         controllers' = sessions,
         UNCHANGED <<sessions, sessionCreation, controllerCreation, threadGeneration, resetInFlight,
                     row, stage, wanted, alive, file, resets>>
  PROVE  Calm'
<1> USE DEF Calm
<1>1. UnderWay' = UnderWay
  BY DEF UnderWay
<1>2. MapsInv' /\ CreatingInv' /\ AliveInv'
  BY <1>1 DEF MapsInv, CreatingInv, AliveInv, resets
<1>3. /\ pc'[e] = "running" /\ at'[e] = sessions /\ runGen'[e] = threadGeneration
      /\ \A f \in Executions : f # e => pc'[f] = pc[f] /\ at'[f] = at[f] /\ runGen'[f] = runGen[f]
      /\ sessions \in Sessions
  BY DEF SubmitTo, IndInv, TypeOK, Callers
<1>4. RunningInv'
  BY <1>3 DEF RunningInv, MapsInv
<1>5. FileInv'
  <2>1. e \in Open(sessions)'
    BY <1>3 DEF Open
  <2> QED
    BY <2>1 DEF FileInv
<1> QED
  BY <1>2, <1>4, <1>5

\* A call begins a creation.
LEMMA BeginsCalm ==
  ASSUME IndInv, Calm, NEW x \in Callers, NEW s \in Sessions, BeginCreation(s),
         resetInFlight = None, sessions = None, sessionCreation = None, pc[x] # "running",
         pc' = [pc EXCEPT ![x] = "awaitCreation"], at' = [at EXCEPT ![x] = s], runGen' = runGen,
         UNCHANGED <<sessions, controllers, threadGeneration, resetInFlight, row, alive, file, resets>>,
         IF x \in Executions THEN controllerCreation' = s /\ wanted' = wanted \cup {s}
                             ELSE UNCHANGED <<controllerCreation, wanted>>
  PROVE  Calm'
<1> USE DEF Calm
<1>0. s # None
  BY ConstantsAssumption
<1>1. /\ UnderWay' = UnderWay \cup {s} /\ stage[s] = "none" /\ sessionCreation' = s
      /\ \A q \in Sessions : q # s => stage'[q] = stage[q]
  BY DEF UnderWay, BeginCreation, IndInv, TypeOK
<1>2. MapsInv'
  BY <1>0, <1>1 DEF MapsInv
<1>3. CreatingInv'
  <2>1. UnderWay = {}
    BY ConstantsAssumption DEF CreatingInv, UnderWay
  <2> QED
    BY <1>1, <2>1 DEF CreatingInv
<1>4. s \notin alive /\ AliveInv'
  BY <1>1 DEF AliveInv, resets, IndInv, TypeOK
<1>5. RunningInv'
  <2>1. ASSUME NEW e \in Executions, e # x
        PROVE  pc'[e] = pc[e] /\ at'[e] = at[e]
    BY <2>1 DEF IndInv, TypeOK, Callers
  <2>2. pc'[x] = "awaitCreation" /\ at'[x] = s /\ (x \in Executions => s \in wanted')
    BY DEF IndInv, TypeOK
  <2> QED
    BY <1>4, <2>1, <2>2 DEF RunningInv
<1>6. FileInv'
  BY DEF FileInv
<1> QED
  BY <1>2, <1>3, <1>4, <1>5, <1>6

LEMMA PassResetCalm ==
  ASSUME IndInv, Calm, NEW x \in Callers, resetInFlight = None, PassReset(x), pc[x] # "running",
         UNCHANGED <<sessions, threadGeneration, resetInFlight, row, alive, file, resets>>
  PROVE  Calm'
<1>1. CASE x \notin Executions
  <2>1. GetSession(x) /\ UNCHANGED <<controllers, controllerCreation, wanted, runGen>>
    BY <1>1 DEF PassReset
  <2>2. CASE sessions # None
    BY <1>1, <2>1, <2>2, WaitsCalm DEF GetSession
  <2>3. CASE sessions = None /\ sessionCreation # None
    BY <1>1, <2>1, <2>3, WaitsCalm DEF GetSession
  <2>4. CASE sessions = None /\ sessionCreation = None
    BY <1>1, <2>1, <2>4, BeginsCalm DEF GetSession
  <2> QED
    BY <2>2, <2>3, <2>4
<1>2. CASE x \in Executions
  <2>0. GetController(x)
    BY <1>2 DEF PassReset
  <2>1. CASE controllers # None
    <3>1. controllers = sessions
      BY <2>1 DEF Calm, MapsInv
    <3> QED
      BY <1>2, <2>0, <2>1, <3>1, SubmitCalm DEF GetController
  <2>2. CASE controllers = None /\ controllerCreation # None
    <3>1. controllerCreation = sessionCreation /\ sessionCreation \in wanted
      BY <2>2 DEF Calm, MapsInv
    <3> QED
      BY <2>0, <2>2, <3>1, WaitsCalm DEF GetController
  <2>3. CASE controllers = None /\ controllerCreation = None /\ sessions # None
    BY <1>2, <2>0, <2>3, SubmitCalm DEF GetController
  <2>4. CASE controllers = None /\ controllerCreation = None /\ sessions = None
    <3>1. /\ GetSession(x)
          /\ controllerCreation' = sessionCreation' /\ wanted' = wanted \cup {sessionCreation'}
          /\ UNCHANGED <<controllers, runGen>>
      BY <2>0, <2>4 DEF GetController
    <3>2. CASE sessionCreation # None
      BY <2>4, <3>1, <3>2, WaitsCalm DEF GetSession
    <3>3. CASE sessionCreation = None
      <4>1. PICK s \in Sessions : BeginCreation(s) /\ at' = [at EXCEPT ![x] = s]
        BY <2>4, <3>1, <3>3 DEF GetSession
      <4>2. sessionCreation' = s /\ pc' = [pc EXCEPT ![x] = "awaitCreation"]
        BY <2>4, <3>1, <3>3, <4>1 DEF GetSession, BeginCreation
      <4> QED
        BY <1>2, <2>4, <3>1, <3>3, <4>1, <4>2, BeginsCalm
    <3> QED
      BY <3>2, <3>3
  <2> QED
    BY <2>1, <2>2, <2>3, <2>4
<1> QED
  BY <1>1, <1>2

LEMMA CallersCalm ==
  ASSUME IndInv, Calm, NEW x \in Callers, Call(x) \/ WakeFromReset(x) \/ WakeFromCreation(x)
  PROVE  Calm'
<1>1. CASE Call(x) /\ resetInFlight # None
  BY <1>1, WaitsCalm DEF Call
<1>2. CASE Call(x) /\ resetInFlight = None
  BY <1>2, PassResetCalm DEF Call
<1>3. CASE WakeFromReset(x)
  BY <1>3, PassResetCalm DEF WakeFromReset
<1>4. CASE WakeFromCreation(x) /\ x \in Executions /\ at[x] \in alive
  <2>1. /\ SubmitTo(x, at[x]) /\ pc[x] = "awaitCreation"
        /\ UNCHANGED <<sessions, sessionCreation, controllers, controllerCreation, threadGeneration,
                       resetInFlight, row, stage, wanted, alive, file, resets>>
    BY <1>4 DEF WakeFromCreation, maps, creations
  <2>2. at[x] = controllers /\ at[x] = sessions /\ sessions # None
    BY <1>4, <2>1, ConstantsAssumption DEF Calm, RunningInv, IndInv, TypeOK
  <2> QED
    BY <1>4, <2>1, <2>2, SubmitCalm
<1>5. CASE WakeFromCreation(x) /\ ~(x \in Executions /\ at[x] \in alive)
  BY <1>5, WaitsCalm DEF WakeFromCreation, maps, creations
<1> QED
  BY <1>1, <1>2, <1>3, <1>4, <1>5

\* A creation settles: it is the one that is awaited, or a reset waits for it.
LEMMA SettlesCalm ==
  ASSUME IndInv, Calm, NEW s \in UnderWay, CreationSettles(s),
         UNCHANGED <<sessions, controllers, threadGeneration, resetInFlight, row, alive, file,
                     wanted, calls, resets>>
  PROVE  Calm'
<1> USE DEF Calm
<1>1. /\ UnderWay' = UnderWay \ {s} /\ sessionCreation' = None
      /\ controllerCreation' = IF s \in wanted THEN None ELSE controllerCreation
      /\ \A q \in Sessions : stage'[q] = IF q = s THEN "settled" ELSE stage[q]
  BY DEF UnderWay, CreationSettles, IndInv, TypeOK
<1>2. controllerCreation' = None
  BY <1>1 DEF MapsInv, CreatingInv
<1>3. MapsInv'
  BY <1>1, <1>2 DEF MapsInv
<1>4. CreatingInv'
  BY <1>1 DEF CreatingInv, MapsInv, resets
<1>5. AliveInv'
  BY <1>1 DEF AliveInv, resets, IndInv, TypeOK
<1>6. RunningInv'
  BY DEF RunningInv, calls
<1>7. FileInv'
  BY DEF FileInv, Open, calls
<1> QED
  BY <1>3, <1>4, <1>5, <1>6, <1>7

LEMMA CreatedCalm ==
  ASSUME IndInv, Calm, NEW s \in UnderWay, NEW f \in Files, SessionCreated(s, f),
         UNCHANGED <<threadGeneration, resetInFlight, wanted, calls, resets>>
  PROVE  Calm'
<1> USE DEF Calm
<1>1. CASE ~SameGeneration(s)
  BY <1>1, SettlesCalm DEF SessionCreated
<1>2. CASE SameGeneration(s)
  <2>1. /\ CreationSettles(s) /\ row' = f /\ file' = [file EXCEPT ![s] = f]
        /\ alive' = alive \cup {s} /\ sessions' = s
        /\ controllers' = IF s \in wanted THEN s ELSE controllers
    BY <1>2 DEF SessionCreated
  <2>2. resetInFlight = None
    BY <1>2 DEF SameGeneration, IndInv, ResetInv
  <2>3. s = sessionCreation /\ sessions = None /\ controllers = None /\ s # None /\ s \in Sessions
    BY <2>2, ConstantsAssumption DEF CreatingInv, MapsInv, UnderWay
  <2>4. /\ UnderWay' = UnderWay \ {s} /\ UnderWay \subseteq {s}
        /\ \A q \in Sessions : stage'[q] = IF q = s THEN "settled" ELSE stage[q]
    BY <2>1, <2>2, <2>3 DEF UnderWay, CreationSettles, IndInv, TypeOK, CreatingInv
  <2>5. controllerCreation' = None /\ sessionCreation' = None
    BY <2>1, <2>3 DEF CreationSettles, MapsInv
  <2>6. alive = {}
    BY <2>2, <2>3, ConstantsAssumption DEF AliveInv, IndInv, TypeOK
  <2>7. MapsInv' /\ CreatingInv'
    BY <2>1, <2>3, <2>4, <2>5 DEF MapsInv, CreatingInv
  <2>8. AliveInv'
    <3>1. \A r \in Resets : resetStage[r] # "awaiting"
      BY <2>2, ConstantsAssumption DEF IndInv, ResetInv
    <3> QED
      BY <2>1, <2>3, <2>4, <2>6, <3>1 DEF AliveInv, resets
  <2>9. \A e \in Executions : pc[e] # "running"
    BY <2>3, ConstantsAssumption DEF RunningInv
  <2>10. RunningInv'
    BY <2>1, <2>6, <2>9 DEF RunningInv, calls
  <2>11. FileInv'
    BY <2>1, <2>3 DEF FileInv, IndInv, TypeOK
  <2> QED
    BY <2>7, <2>8, <2>10, <2>11
<1> QED
  BY <1>1, <1>2

LEMMA CreationStepsCalm ==
  ASSUME IndInv, Calm, NEW s \in Sessions, CreationSteps(s)
  PROVE  Calm'
<1>1. CASE stage[s] = "open" /\ stage' = [stage EXCEPT ![s] = "create"]
           /\ UNCHANGED <<maps, row, alive, file, wanted, calls, resets>>
  <2>1. UnderWay' = UnderWay /\ \A q \in Sessions : stage[q] = "settled" => stage'[q] = "settled"
    BY <1>1 DEF UnderWay, IndInv, TypeOK
  <2>2. MapsInv' /\ CreatingInv' /\ RunningInv'
    BY <1>1, <2>1 DEF Calm, MapsInv, CreatingInv, RunningInv, maps, calls, resets
  <2>3. AliveInv'
    BY <1>1, <2>1 DEF Calm, AliveInv, maps, resets, IndInv, TypeOK
  <2>4. FileInv'
    BY <1>1 DEF Calm, FileInv, Open, maps, calls
  <2> QED
    BY <2>2, <2>3, <2>4 DEF Calm
<1>2. CASE stage[s] = "open" /\ SessionCreated(s, loads[s])
           /\ UNCHANGED <<threadGeneration, resetInFlight, wanted, calls, resets>>
  <2>1. s \in UnderWay
    BY <1>2 DEF UnderWay
  <2>2. CASE SameGeneration(s)
    <3>1. loads[s] \in Files
      BY <1>2, <2>1, <2>2 DEF SameGeneration, IndInv, ResetInv, TypeOK
    <3> QED
      BY <1>2, <2>1, <3>1, CreatedCalm
  <2>3. CASE ~SameGeneration(s)
    BY <1>2, <2>1, <2>3, SettlesCalm DEF SessionCreated
  <2> QED
    BY <2>2, <2>3
<1>3. CASE CreateSession(s)
  <2>1. s \in UnderWay
    BY <1>3 DEF CreateSession, UnderWay
  <2>2. CASE files < MaxFiles /\ SessionCreated(s, files + 1)
    <3>1. files + 1 \in Files
      BY <2>2, ConstantsAssumption DEF Files, IndInv, TypeOK
    <3> QED
      BY <1>3, <2>1, <2>2, <3>1, CreatedCalm DEF CreateSession
  <2>3. CASE CreationSettles(s) /\ UNCHANGED <<sessions, controllers, row, alive, file, files>>
    BY <1>3, <2>1, <2>3, SettlesCalm DEF CreateSession
  <2> QED
    BY <1>3, <2>2, <2>3 DEF CreateSession
<1> QED
  BY <1>1, <1>2, <1>3 DEF CreationSteps, OpenPersisted, maps

\* The session moves to another file, or a run settles.
LEMMA ExecutionsCalm ==
  ASSUME IndInv, Calm, \/ \E s \in Sessions : SessionMoves(s)
                       \/ \E e \in Executions : ExecutionSettles(e)
  PROVE  Calm'
<1> USE DEF Calm
<1>1. ASSUME NEW s \in Sessions, SessionMoves(s)
      PROVE  Calm'
  <2>1. /\ UNCHANGED <<maps, row, stage, wanted, alive, calls, resets>> /\ UnderWay' = UnderWay
        /\ Open(s)' = Open(s) /\ Open(s) # {}
    BY <1>1 DEF SessionMoves, UnderWay, Open, calls
  <2>2. MapsInv' /\ CreatingInv' /\ AliveInv' /\ RunningInv'
    BY <2>1 DEF MapsInv, CreatingInv, AliveInv, RunningInv, maps, calls, resets
  <2>3. sessions = s
    BY <2>1 DEF Open, RunningInv
  <2>4. FileInv'
    BY <2>1, <2>3 DEF FileInv, maps
  <2> QED
    BY <2>2, <2>4
<1>2. ASSUME NEW e \in Executions, ExecutionSettles(e)
      PROVE  Calm'
  <2>1. /\ UNCHANGED <<maps, stage, wanted, alive, file, at, runGen, resets>> /\ UnderWay' = UnderWay
        /\ pc[e] = "running" /\ pc' = [pc EXCEPT ![e] = "settled"] /\ row' = Reconciled(e)
    BY <1>2 DEF ExecutionSettles, UnderWay, creations
  <2>2. MapsInv' /\ CreatingInv' /\ AliveInv'
    BY <2>1 DEF MapsInv, CreatingInv, AliveInv, maps, resets
  <2>3. RunningInv'
    BY <2>1 DEF RunningInv, maps, IndInv, TypeOK, Callers
  <2>4. FileInv'
    BY <2>1 DEF FileInv, Reconciled, RunningInv, maps
  <2> QED
    BY <2>2, <2>3, <2>4
<1> QED
  BY <1>1, <1>2

\* A reset takes the session and its controller away, with every run in it.
LEMMA BeginResetCalm ==
  ASSUME IndInv, Calm, NEW r \in Resets, BeginReset(r)
  PROVE  Calm'
<1> USE DEF Calm
<1>0. r # None
  BY ConstantsAssumption
<1>1. CASE resetInFlight # None
  <2>1. /\ UNCHANGED <<maps, row, stage, wanted, alive, file, calls, held, waitsFor>>
        /\ UnderWay' = UnderWay /\ resetStage' = [resetStage EXCEPT ![r] = "joined"]
    BY <1>1 DEF BeginReset, UnderWay, creations, calls
  <2>2. MapsInv' /\ CreatingInv' /\ RunningInv'
    BY <2>1 DEF MapsInv, CreatingInv, RunningInv, maps, calls
  <2>3. AliveInv'
    BY <2>1 DEF AliveInv, maps, IndInv, TypeOK
  <2>4. FileInv'
    BY <2>1 DEF FileInv, Open, maps, calls
  <2> QED
    BY <2>2, <2>3, <2>4
<1>2. CASE resetInFlight = None
  <2>1. /\ Drained /\ resetInFlight' = r /\ held' = sessions
        /\ waitsFor' = {sessionCreation, controllerCreation} \ {None}
        /\ sessions' = None /\ sessionCreation' = None /\ controllers' = None
        /\ controllerCreation' = None
        /\ resetStage' = [resetStage EXCEPT ![r] = IF sessions = None THEN "awaiting" ELSE "aborting"]
        /\ UNCHANGED <<stage, wanted, alive, at>> /\ UnderWay' = UnderWay
    BY <1>2 DEF BeginReset, UnderWay, creations
  <2>2. pc' = [x \in Callers |-> IF x \in Executions /\ controllers # None /\ x \in Open(controllers)
                                 THEN "settled" ELSE pc[x]]
    BY <1>2 DEF BeginReset, Dispose
  <2>3. MapsInv' /\ FileInv'
    BY <2>1 DEF MapsInv, FileInv
  <2>4. CreatingInv'
    BY <1>0, <1>2, <2>1, ConstantsAssumption DEF CreatingInv, UnderWay
  <2>5. AliveInv'
    <3>1. \A q \in Resets : resetStage[q] # "awaiting"
      BY <1>2, ConstantsAssumption DEF IndInv, ResetInv
    <3>2. \A q \in Resets : resetStage'[q] = "awaiting" => sessions = None
      BY <2>1, <3>1 DEF IndInv, TypeOK
    <3>3. \A s \in alive : s = sessions
      BY <1>2 DEF AliveInv
    <3>4. None \notin alive
      BY ConstantsAssumption DEF IndInv, TypeOK
    <3> QED
      BY <1>0, <2>1, <3>2, <3>3, <3>4 DEF AliveInv
  <2>6. RunningInv'
    <3> SUFFICES ASSUME NEW e \in Executions
                 PROVE  /\ pc'[e] # "running"
                        /\ pc'[e] = "awaitCreation" => at[e] \in wanted /\ at[e] \notin alive
      BY <2>1 DEF RunningInv
    <3>1. e \in Callers
      BY DEF Callers
    <3>2. pc[e] = "running" => controllers # None /\ e \in Open(controllers)
      BY ConstantsAssumption DEF RunningInv, Open
    <3>3. pc'[e] # "running"
      BY <2>2, <3>1, <3>2
    <3>4. pc'[e] = "awaitCreation" => pc[e] = "awaitCreation"
      BY <2>2, <3>1
    <3>5. pc[e] = "awaitCreation" => stage[at[e]] # "settled"
      BY <2>1, <3>1 DEF Drained, Woken
    <3> QED
      BY <3>3, <3>4, <3>5 DEF RunningInv, AliveInv
  <2> QED
    BY <2>3, <2>4, <2>5, <2>6
<1> QED
  BY <1>1, <1>2

LEMMA ResetStepsCalm ==
  ASSUME IndInv, Calm, NEW r \in Resets, ResetSteps(r)
  PROVE  Calm'
<1> USE DEF Calm
<1>0. r # None
  BY ConstantsAssumption
<1>1. CASE AbortEnds(r)
  <2>1. resetInFlight = r /\ sessions = None
    BY <1>0, <1>1 DEF AbortEnds, IndInv, ResetInv
  <2>2. alive' = {}
    BY <1>1, <2>1, ConstantsAssumption DEF AbortEnds, AliveInv, IndInv, TypeOK
  <2>3. UnderWay' = UnderWay /\ UNCHANGED <<maps, row, wanted, file, calls, waitsFor>>
    BY <1>1 DEF AbortEnds, UnderWay
  <2>4. MapsInv' /\ CreatingInv' /\ AliveInv'
    BY <2>2, <2>3 DEF MapsInv, CreatingInv, AliveInv, maps
  <2>5. RunningInv' /\ FileInv'
    BY <2>1, <2>2, <2>3 DEF RunningInv, FileInv, maps, calls
  <2> QED
    BY <2>4, <2>5
<1>2. CASE ResetEnds(r)
  <2>1. /\ resetInFlight = r /\ sessions = None /\ alive = {} /\ resetInFlight' = None
        /\ \A s \in waitsFor : stage[s] = "settled"
        /\ \A q \in Resets : resetStage'[q] = "awaiting" => resetStage[q] = "awaiting"
    BY <1>0, <1>2 DEF ResetEnds, CreationsSettled, AliveInv, IndInv, ResetInv, TypeOK
  <2>2. /\ UnderWay' = UnderWay
        /\ UNCHANGED <<sessions, sessionCreation, controllers, controllerCreation, threadGeneration,
                       wanted, alive, stage, calls>>
    BY <1>2 DEF ResetEnds, UnderWay, creations
  <2>3. MapsInv'
    BY <1>0, <2>1, <2>2 DEF MapsInv
  <2>4. CreatingInv'
    <3>1. \A s \in UnderWay : s \notin waitsFor
      BY <2>1 DEF UnderWay
    <3> QED
      BY <2>2, <3>1 DEF CreatingInv
  <2>5. AliveInv' /\ RunningInv' /\ FileInv'
    BY <2>1, <2>2 DEF AliveInv, RunningInv, FileInv, calls
  <2> QED
    BY <2>3, <2>4, <2>5
<1>3. CASE JoinedEnds(r)
  <2>1. /\ UNCHANGED <<maps, row, stage, wanted, alive, file, calls, held, waitsFor>>
        /\ UnderWay' = UnderWay /\ resetStage' = [resetStage EXCEPT ![r] = "ok"]
    BY <1>3 DEF JoinedEnds, UnderWay, creations
  <2>2. MapsInv' /\ CreatingInv' /\ RunningInv'
    BY <2>1 DEF MapsInv, CreatingInv, RunningInv, maps, calls
  <2>3. AliveInv'
    BY <2>1 DEF AliveInv, maps, IndInv, TypeOK
  <2>4. FileInv'
    BY <2>1 DEF FileInv, Open, maps, calls
  <2> QED
    BY <2>2, <2>3, <2>4
<1> QED
  BY <1>1, <1>2, <1>3 DEF ResetSteps

LEMMA RestartCalm ==
  ASSUME IndInv, Restart
  PROVE  Calm'
<1>1. /\ UnderWay' = {} /\ alive' = {} /\ sessions' = None /\ sessionCreation' = None
      /\ controllers' = None /\ controllerCreation' = None
  BY DEF Restart, UnderWay
<1>2. \A e \in Executions : pc'[e] \in {"idle", "settled"}
  BY DEF Restart, Callers
<1>3. MapsInv' /\ CreatingInv' /\ AliveInv'
  BY <1>1 DEF MapsInv, CreatingInv, AliveInv
<1>4. RunningInv' /\ FileInv'
  BY <1>1, <1>2 DEF RunningInv, FileInv
<1> QED
  BY <1>3, <1>4 DEF Calm

LEMMA CalmPreserved ==
  ASSUME IndInv, CalmInv, [Next]_vars
  PROVE  CalmInv'
<1> SUFFICES ASSUME timeouts' = 0
             PROVE  Calm'
  BY DEF CalmInv
<1>1. ~TimesOut /\ timeouts = 0
  <2>1. timeouts \in Nat
    BY ConstantsAssumption DEF IndInv, TypeOK
  <2>2. ~TimesOut
    BY <2>1 DEF TimesOut
  <2>3. UNCHANGED timeouts
    BY <2>2 DEF Next, Call, Continuations, WakeFromReset, WakeFromCreation, CreationSteps,
       OpenPersisted, CreateSession, SessionMoves, ExecutionSettles, BeginReset, ResetSteps,
       AbortEnds, ResetEnds, JoinedEnds, Restart, vars, bounds
  <2> QED
    BY <2>2, <2>3
<1>2. Calm
  BY <1>1 DEF CalmInv
<1>3. CASE UNCHANGED vars
  <2>1. UnderWay' = UnderWay
    BY <1>3 DEF vars, UnderWay, creations
  <2>2. MapsInv' /\ CreatingInv' /\ AliveInv' /\ RunningInv'
    BY <1>2, <1>3, <2>1 DEF Calm, MapsInv, CreatingInv, AliveInv, RunningInv, vars, maps, creations,
       calls, resets
  <2>3. FileInv'
    BY <1>2, <1>3 DEF Calm, FileInv, Open, vars, maps, creations, calls
  <2> QED
    BY <2>2, <2>3 DEF Calm
<1>4. CASE \E x \in Callers : Call(x) \/ WakeFromReset(x) \/ WakeFromCreation(x)
  BY <1>2, <1>4, CallersCalm
<1>5. CASE \E s \in Sessions : CreationSteps(s)
  BY <1>2, <1>5, CreationStepsCalm
<1>6. CASE (\E s \in Sessions : SessionMoves(s)) \/ (\E e \in Executions : ExecutionSettles(e))
  BY <1>2, <1>6, ExecutionsCalm
<1>7. CASE \E r \in Resets : BeginReset(r) \/ ResetSteps(r)
  BY <1>2, <1>7, BeginResetCalm, ResetStepsCalm
<1>8. CASE Restart
  BY <1>8, RestartCalm
<1> QED
  BY <1>1, <1>3, <1>4, <1>5, <1>6, <1>7, <1>8 DEF Next, Continuations

--------------------------------------------------------------------------------
\* The theorems.

LEMMA InitEstablishes ==
  ASSUME Init
  PROVE  IndInv
BY ConstantsAssumption DEF Init, IndInv, TypeOK, ResetInv, ResetForgets, UnderWay

LEMMA NextPreserves ==
  ASSUME IndInv, [Next]_vars
  PROVE  IndInv'
<1>1. CASE UNCHANGED vars
  BY <1>1 DEF vars, maps, creations, calls, resets, bounds, IndInv, TypeOK, ResetInv,
              ResetForgets, UnderWay
<1>2. CASE \E x \in Callers : Call(x)
  BY <1>2, CallPreserves
<1>3. CASE Continuations
  BY <1>3, WakeFromResetPreserves, WakeFromCreationPreserves DEF Continuations
<1>4. CASE \E s \in Sessions : CreationSteps(s) \/ SessionMoves(s)
  BY <1>4, OpenPersistedPreserves, CreateSessionPreserves, SessionMovesPreserves DEF CreationSteps
<1>5. CASE \E e \in Executions : ExecutionSettles(e)
  BY <1>5, ExecutionSettlesPreserves
<1>6. CASE \E r \in Resets : BeginReset(r) \/ ResetSteps(r)
  BY <1>6, BeginResetPreserves, AbortEndsPreserves, ResetEndsPreserves, JoinedEndsPreserves
  DEF ResetSteps
<1>7. CASE TimesOut \/ Restart
  BY <1>7, TimesOutPreserves, RestartPreserves
<1> QED BY <1>1, <1>2, <1>3, <1>4, <1>5, <1>6, <1>7 DEF Next

\* The strengthened invariant holds in every reachable state of resetThreadSession,
\* execute and the creations they race with.
THEOREM InductiveInvariant == Spec => []IndInv
<1>1. Init => IndInv
  BY InitEstablishes
<1>2. IndInv /\ [Next]_vars => IndInv'
  BY NextPreserves
<1> QED BY <1>1, <1>2, PTL DEF Spec

\* Every variable of the executor keeps its type.
THEOREM TypeCorrect == Spec => []TypeOK
<1>1. IndInv => TypeOK
  BY DEF IndInv
<1> QED BY <1>1, InductiveInvariant, PTL

\* Whatever was under way when resetThreadSession began, and whichever of its waits
\* timed out: a session that a successful reset discarded is never used or persisted
\* again.
THEOREM ResetIsFinal == Spec => []ResetForgets
<1>1. IndInv => ResetForgets
  BY DEF IndInv
<1> QED BY <1>1, InductiveInvariant, PTL

\* While nothing has timed out, CalmInv holds in every reachable state.
THEOREM CalmInvariant == Spec => []CalmInv
<1>1. Init => CalmInv
  <2> SUFFICES ASSUME Init PROVE Calm
    BY DEF CalmInv
  <2>1. UnderWay = {}
    BY DEF Init, UnderWay
  <2>2. MapsInv /\ CreatingInv /\ FileInv
    BY <2>1 DEF Init, MapsInv, CreatingInv, FileInv
  <2>3. AliveInv
    BY DEF Init, AliveInv
  <2>4. RunningInv
    BY DEF Init, RunningInv, Callers
  <2> QED
    BY <2>2, <2>3, <2>4 DEF Calm
<1>2. IndInv /\ CalmInv /\ [Next]_vars => CalmInv'
  BY CalmPreserved
<1> QED BY <1>1, <1>2, InductiveInvariant, PTL DEF Spec

\* Unless something timed out, whatever resets, creations and calls interleave, the thread
\* has one session and all its runs are in the controller on it (getSession, getController).
THEOREM SessionIsSole == Spec => []OneSession
<1>1. CalmInv => OneSession
  BY DEF CalmInv, Calm, AliveInv, RunningInv, Open, OneSession
<1> QED BY <1>1, CalmInvariant, PTL

\* Unless something timed out, the persisted session is the one the thread is in whenever
\* none of its runs is open (reconcilePersistedThreadSession).
THEOREM RowIsCurrent == Spec => []RowFollowsSession
<1>1. CalmInv => RowFollowsSession
  BY DEF CalmInv, Calm, FileInv, RowFollowsSession
<1> QED BY <1>1, CalmInvariant, PTL

--------------------------------------------------------------------------------
\* The files a tool sends (TelegramSendFiles).

\* A set of numbers has a least one.
LEMMA LeastExists ==
  ASSUME NEW S, S \subseteq Nat, S # {}
  PROVE  \E x \in S : \A y \in S : x <= y
<1>1. PICK x \in S : \A y \in S : ~ (<<y, x>> \in OpToRel(<, Nat))
  BY NatLessThanWellFounded, WFMin
<1>2. \A y \in S : x <= y
  <2> TAKE y \in S
  <2>1. ~ (y < x)
    BY <1>1 DEF OpToRel
  <2> QED
    BY <2>1
<1> QED
  BY <1>2

\* Induction over the numbers up to n, for a set of them.
LEMMA Reaches ==
  ASSUME NEW n \in Nat, NEW S, 0 \in S, \A k \in 0..(n - 1) : k \in S => k + 1 \in S
  PROVE  0..n \subseteq S
<1> SUFFICES ASSUME (0..n) \ S # {} PROVE FALSE
  OBVIOUS
<1> DEFINE R == (0..n) \ S
<1>1. R \subseteq Nat
  OBVIOUS
<1>2. PICK m \in R : \A k \in R : m <= k
  BY <1>1, LeastExists
<1>3. m # 0 /\ m - 1 \in 0..(n - 1) /\ m - 1 \notin R
  BY <1>2
<1> QED
  BY <1>2, <1>3

\* The numbers up to n are n.
LEMMA Counted ==
  ASSUME NEW n \in Nat
  PROVE  IsFiniteSet(1..n) /\ Cardinality(1..n) = n
BY FS_Interval

\* A set of numbers that has with each all smaller ones is an interval.
LEMMA InitialSegment ==
  ASSUME NEW n \in Nat, NEW I \in SUBSET (1..n), \A i \in I : 1..i \subseteq I
  PROVE  I = 1..Cardinality(I) /\ Cardinality(I) \in 0..n
<1> DEFINE K == {k \in 0..n : k + 1 \notin I}
<1>1. n \in K /\ K \subseteq Nat
  OBVIOUS
<1>2. PICK k \in K : \A j \in K : k <= j
  BY <1>1, LeastExists
<1>3. \A i \in 1..k : i \in I
  <2> TAKE i \in 1..k
  <2>1. i - 1 \in 0..n /\ i - 1 \notin K
    BY <1>2
  <2> QED
    BY <2>1
<1>4. \A i \in I : i <= k
  <2> SUFFICES ASSUME NEW i \in I, k < i PROVE FALSE
    OBVIOUS
  <2>1. k + 1 \in 1..i
    BY <1>2
  <2> QED
    BY <1>2, <2>1
<1>5. I = 1..k
  <2>1. k \in Nat
    BY <1>2
  <2>2. I \subseteq 1..k
    BY <1>4, <2>1
  <2>3. 1..k \subseteq I
    BY <1>3
  <2> QED
    BY <2>2, <2>3
<1>6. Cardinality(1..k) = k
  BY <1>2, FS_Interval
<1> QED
  BY <1>2, <1>5, <1>6

\* The kinds, in the order of sendOrder.
LEMMA Positions ==
  /\ Kinds = {"photo", "video", "audio", "document"}
  /\ Position("photo") = 1 /\ Position("video") = 2 /\ Position("audio") = 3 /\ Position("document") = 4
<1>1. SendOrder = <<"photo", "video", "audio", "document">> /\ DOMAIN SendOrder = 1..4
  BY DEF SendOrder
<1>2. SendOrder[1] = "photo" /\ SendOrder[2] = "video" /\ SendOrder[3] = "audio" /\ SendOrder[4] = "document"
  BY DEF SendOrder
<1>3. Kinds = {"photo", "video", "audio", "document"}
  BY <1>1, <1>2 DEF Kinds
<1>4. Position("photo") = 1
  BY <1>1, <1>2 DEF Position
<1>5. Position("video") = 2
  BY <1>1, <1>2 DEF Position
<1>6. Position("audio") = 3
  BY <1>1, <1>2 DEF Position
<1>7. Position("document") = 4
  BY <1>1, <1>2 DEF Position
<1> QED
  BY <1>3, <1>4, <1>5, <1>6, <1>7

\* Before orders files with different numbers totally.
LEMMA BeforeOrders ==
  ASSUME NEW S, \A p \in S : p.n \in Nat /\ p.kind \in Kinds,
         \A p, q \in S : p.n = q.n => p = q
  PROVE  /\ \A p \in S : ~Before(p, p)
         /\ \A p, q, r \in S : Before(p, q) /\ Before(q, r) => Before(p, r)
         /\ \A p, q \in S : p = q \/ Before(p, q) \/ Before(q, p)
<1>1. \A k \in Kinds : Position(k) \in Nat
  BY Positions
<1>2. \A k, l \in Kinds : Position(k) = Position(l) => k = l
  BY Positions
<1> QED
  BY <1>1, <1>2 DEF Before

\* What is put in the order of Before holds each file once, in that order.
LEMMA SendOrderIs ==
  ASSUME NEW S, IsFiniteSet(S), \A p \in S : p.n \in Nat /\ p.kind \in Kinds,
         \A p, q \in S : p.n = q.n => p = q
  PROVE  /\ Cardinality(S) \in Nat
         /\ \A k \in 1..Cardinality(S) : InSendOrder(S)[k] \in S
         /\ \A p \in S : \E k \in 1..Cardinality(S) : InSendOrder(S)[k] = p
         /\ \A i, j \in 1..Cardinality(S) : i < j => Before(InSendOrder(S)[i], InSendOrder(S)[j])
<1> DEFINE n == Cardinality(S)
           earlier(p) == {q \in S : Before(q, p)}
           rank(p) == Cardinality(earlier(p))
           f == [p \in S |-> rank(p)]
<1>1. n \in Nat
  BY FS_CardinalityType
<1>2. ASSUME NEW p \in S
      PROVE  rank(p) \in 0..(n - 1)
  <2>1. earlier(p) \in SUBSET S /\ earlier(p) # S
    BY BeforeOrders
  <2>2. IsFiniteSet(earlier(p)) /\ rank(p) <= n /\ rank(p) # n
    BY <2>1, FS_Subset
  <2>3. rank(p) \in Nat
    BY <2>2, FS_CardinalityType
  <2> QED
    BY <1>1, <2>2, <2>3
<1>3. ASSUME NEW p \in S, NEW q \in S, Before(p, q)
      PROVE  rank(p) < rank(q)
  <2>1. earlier(p) \in SUBSET earlier(q)
    BY <1>3, BeforeOrders
  <2>2. p \in earlier(q) /\ p \notin earlier(p)
    BY <1>3, BeforeOrders
  <2>3. IsFiniteSet(earlier(q))
    <3>1. earlier(q) \in SUBSET S
      OBVIOUS
    <3> QED
      BY <3>1, FS_Subset
  <2>4. rank(p) <= rank(q) /\ rank(p) # rank(q)
    BY <2>1, <2>2, <2>3, FS_Subset
  <2>5. rank(p) \in Int /\ rank(q) \in Int
    BY <1>2
  <2> HIDE DEF rank
  <2> QED
    BY <2>4, <2>5
<1> HIDE DEF rank
<1>4. \A p, q \in S : rank(p) = rank(q) => p = q
  <2> TAKE p, q \in S
  <2>1. Before(p, q) => rank(p) < rank(q)
    BY <1>3
  <2>2. Before(q, p) => rank(q) < rank(p)
    BY <1>3
  <2>3. p = q \/ Before(p, q) \/ Before(q, p)
    BY BeforeOrders
  <2>4. rank(p) \in Int /\ rank(q) \in Int
    BY <1>2
  <2> QED
    BY <2>1, <2>2, <2>3, <2>4
<1>5. f \in Injection(S, 0..(n - 1))
  BY <1>2, <1>4 DEF Injection, IsInjective
<1>6. IsFiniteSet(0..(n - 1)) /\ Cardinality(0..(n - 1)) = n
  BY <1>1, FS_Interval
<1>7. f \in Surjection(S, 0..(n - 1))
  BY <1>5, <1>6, FS_Injection
<1>8. \A k \in 0..(n - 1) : \E p \in S : rank(p) = k
  BY <1>7 DEF Surjection
<1>9. \A k \in 1..n : InSendOrder(S)[k] = CHOOSE p \in S : rank(p) = k - 1
  BY DEF InSendOrder, rank
<1>10. ASSUME NEW k \in 1..n
       PROVE  InSendOrder(S)[k] \in S /\ rank(InSendOrder(S)[k]) = k - 1
  <2>1. k - 1 \in 0..(n - 1)
    BY <1>1
  <2>2. PICK p \in S : rank(p) = k - 1
    BY <1>8, <2>1
  <2> QED
    BY <1>9, <2>2
<1>11. ASSUME NEW p \in S
       PROVE  \E k \in 1..n : InSendOrder(S)[k] = p
  <2>1. rank(p) + 1 \in 1..n /\ rank(p) = (rank(p) + 1) - 1
    BY <1>1, <1>2
  <2>2. rank(InSendOrder(S)[rank(p) + 1]) = rank(p) /\ InSendOrder(S)[rank(p) + 1] \in S
    BY <1>10, <2>1
  <2> QED
    BY <1>4, <2>1, <2>2
<1>12. ASSUME NEW i \in 1..n, NEW j \in 1..n, i < j
       PROVE  Before(InSendOrder(S)[i], InSendOrder(S)[j])
  <2> DEFINE p == InSendOrder(S)[i]
             q == InSendOrder(S)[j]
  <2>1. p \in S /\ q \in S /\ rank(p) = i - 1 /\ rank(q) = j - 1
    BY <1>10
  <2> HIDE DEF p, q
  <2>2. p # q /\ ~ (rank(q) < rank(p))
    BY <1>12, <2>1
  <2>3. ~Before(q, p)
    BY <1>3, <2>1, <2>2
  <2>4. Before(p, q)
    BY <2>1, <2>2, <2>3, BeforeOrders
  <2> QED
    BY <2>4 DEF p, q
<1> QED
  BY <1>1, <1>10, <1>11, <1>12

\* The files of a call, in the order they are given.
Prepareds == [n : Nat, kind : Kinds, caption : Nat]

\* What the preparation makes of a file: its kind is the one asked for or a document, and
\* its caption is cut.
LEMMA PreparedIs ==
  ASSUME NEW request \in Requests, NEW i \in 1..Len(request.given)
  PROVE  LET p == Prepared(i, request.given)
             f == request.given[i]
         IN /\ p \in Prepareds /\ p.n = i /\ p.caption \in 0..MaxCaption
            /\ f.caption \in Nat /\ (p.caption > 0 <=> f.caption > 0)
            /\ p.caption = f.caption \/ f.caption > MaxCaption
            /\ f.kind \in {"auto", p.kind} \/ f.kind \notin {"auto", "document", p.kind}
<1> DEFINE given == request.given
           f == given[i]
           kind == ResolveSendKind(f.kind, f)
           wishes == IF f.kind = "auto" THEN Kinds ELSE {f.kind}
           possible == {k \in wishes : CanSendAs(k, f)}
<1>1. f \in GivenFiles
  BY SendFilesAssumption
<1>2. f.kind \in Kinds \cup {"auto"} /\ f.caption \in Nat
  BY <1>1 DEF GivenFiles
<1>3. possible # {} => \E k \in possible : \A l \in possible : Position(k) <= Position(l)
  <2>1. possible \subseteq Kinds
    BY <1>2
  <2> HIDE DEF possible
  <2>2. \A l \in possible : Position(l) \in 1..4
    BY <2>1, Positions
  <2>3. CASE "photo" \in possible
    BY <2>2, <2>3, Positions
  <2>4. CASE "photo" \notin possible /\ "video" \in possible
    BY <2>1, <2>4, Positions
  <2>5. CASE "photo" \notin possible /\ "video" \notin possible /\ "audio" \in possible
    BY <2>1, <2>5, Positions
  <2>6. CASE \A l \in possible : l = "document"
    BY <2>2, <2>6
  <2>7. \/ "photo" \in possible
        \/ "photo" \notin possible /\ "video" \in possible
        \/ "photo" \notin possible /\ "video" \notin possible /\ "audio" \in possible
        \/ \A l \in possible : l = "document"
    BY <2>1, Positions
  <2> QED
    BY <2>3, <2>4, <2>5, <2>6, <2>7
<1>4. kind \in possible \cup {"document"}
  <2> HIDE DEF possible
  <2>1. kind = IF possible = {} THEN "document"
               ELSE CHOOSE k \in possible : \A l \in possible : Position(k) <= Position(l)
    BY DEF ResolveSendKind, possible
  <2> QED
    BY <1>3, <2>1
<1>5. kind \in Kinds
  BY <1>2, <1>4, Positions
<1>6. ~CanSendAs("document", f)
  BY DEF CanSendAs
<1>7. f.kind = "document" => kind = "document"
  BY <1>4, <1>6
<1>8. NormalizeCaption(f.caption) \in Nat
      /\ NormalizeCaption(f.caption) \in 0..MaxCaption
      /\ (NormalizeCaption(f.caption) > 0 <=> f.caption > 0)
      /\ (NormalizeCaption(f.caption) = f.caption \/ f.caption > MaxCaption)
  BY <1>2, SendFilesAssumption DEF NormalizeCaption
<1>9. Prepared(i, given) = [n |-> i, kind |-> kind, caption |-> NormalizeCaption(f.caption)]
  BY DEF Prepared
<1> HIDE DEF f, kind, given
<1>10. Prepared(i, given) \in Prepareds
  BY <1>5, <1>8, <1>9 DEF Prepareds
<1>11. Len(request.given) \in Nat
  BY SendFilesAssumption
<1> QED
  BY <1>2, <1>7, <1>8, <1>9, <1>10 DEF given, f

\* The files as they are sent: each given one once, in the order of Before, with its caption
\* unless it comes after the one that counts.
LEMMA InOrderIs ==
  ASSUME NEW request \in Requests
  PROVE  LET P == InOrder(request)
             given == request.given
         IN /\ P \in Seq(Prepareds) /\ Len(P) = Len(given) /\ Len(given) \in Nat
            /\ {P[k].n : k \in 1..Len(P)} = 1..Len(given)
            /\ \A i, j \in 1..Len(P) : i < j => Before(P[i], P[j])
            /\ \A k \in 1..Len(P) :
                 LET p == Prepared(P[k].n, given) IN
                 /\ P[k].n \in 1..Len(given)
                 /\ P[k].kind = p.kind
                 /\ P[k].caption =
                      IF \/ request.captionMode # "first_only"
                         \/ \A j \in 1..(k - 1) : ~(given[P[j].n].caption > 0)
                      THEN p.caption ELSE 0
<1> DEFINE given == request.given
           n == Len(given)
           S == {Prepared(i, given) : i \in DOMAIN given}
           s == InSendOrder(S)
           P == InOrder(request)
           mode == request.captionMode
<1>1. n \in Nat /\ DOMAIN given = 1..n
  BY SendFilesAssumption
<1>2. \A i \in 1..n : Prepared(i, given) \in Prepareds /\ Prepared(i, given).n = i
                      /\ (Prepared(i, given).caption > 0 <=> given[i].caption > 0)
  BY PreparedIs
<1>3. IsFiniteSet(S) /\ Cardinality(S) = n
  <2> DEFINE f == [i \in 1..n |-> Prepared(i, given)]
  <2>1. f \in Surjection(1..n, S)
    BY <1>1 DEF Surjection
  <2>2. f \in Injection(1..n, S)
    BY <1>1, <1>2 DEF Injection, IsInjective
  <2>3. IsFiniteSet(1..n) /\ Cardinality(1..n) = n
    BY <1>1, Counted
  <2> QED
    BY <2>1, <2>2, <2>3, FS_Surjection
<1>4. \A p \in S : p \in Prepareds /\ p.n \in 1..n /\ p = Prepared(p.n, given)
  BY <1>1, <1>2
<1>5. /\ \A k \in 1..n : s[k] \in S
      /\ \A p \in S : \E k \in 1..n : s[k] = p
      /\ \A i, j \in 1..n : i < j => Before(s[i], s[j])
  <2>1. \A p \in S : p.n \in Nat /\ p.kind \in Kinds
    BY <1>1, <1>4 DEF Prepareds
  <2>2. \A p, q \in S : p.n = q.n => p = q
    BY <1>4
  <2> HIDE DEF S, n
  <2> QED
    BY <1>3, <2>1, <2>2, SendOrderIs
<1>6. DOMAIN s = 1..n
  BY <1>3 DEF InSendOrder
<1>7. P = ApplyCaptionMode(s, mode)
  BY DEF InOrder
<1> DEFINE kept(k) == mode # "first_only" \/ \A j \in 1..(k - 1) : ~(s[j].caption > 0)
<1>8. P = [k \in 1..n |-> [s[k] EXCEPT !.caption = IF kept(k) THEN @ ELSE 0]]
  BY <1>6, <1>7 DEF ApplyCaptionMode
<1> HIDE DEF S, s, P
<1>9. ASSUME NEW k \in 1..n
      PROVE  /\ P[k] \in Prepareds /\ P[k].n = s[k].n /\ P[k].kind = s[k].kind
             /\ P[k].caption = IF kept(k) THEN s[k].caption ELSE 0
             /\ s[k] \in Prepareds /\ s[k].n \in 1..n /\ s[k] = Prepared(s[k].n, given)
  <2>1. s[k] \in Prepareds /\ s[k].n \in 1..n /\ s[k] = Prepared(s[k].n, given)
    BY <1>4, <1>5
  <2>2. P[k] = [s[k] EXCEPT !.caption = IF kept(k) THEN @ ELSE 0]
    BY <1>8
  <2> HIDE DEF kept
  <2> QED
    BY <2>1, <2>2 DEF Prepareds
<1>10. P \in Seq(Prepareds) /\ Len(P) = n
  <2>1. P \in [1..n -> Prepareds]
    BY <1>8, <1>9
  <2> QED
    BY <1>1, <2>1
<1>11. \A i, j \in 1..n : i < j => Before(P[i], P[j])
  BY <1>5, <1>9 DEF Before
<1>12. {P[k].n : k \in 1..n} = 1..n
  <2>1. ASSUME NEW i \in 1..n PROVE \E k \in 1..n : P[k].n = i
    <3>1. Prepared(i, given) \in S
      BY <1>1 DEF S
    <3>2. PICK k \in 1..n : s[k] = Prepared(i, given)
      BY <1>5, <3>1
    <3> QED
      BY <1>2, <1>9, <3>2
  <2>2. \A k \in 1..n : P[k].n \in 1..n
    BY <1>9
  <2> HIDE DEF n
  <2> QED
    BY <2>1, <2>2
<1>13. ASSUME NEW k \in 1..n
       PROVE  kept(k) <=> (mode # "first_only" \/ \A j \in 1..(k - 1) : ~(given[P[j].n].caption > 0))
  <2>1. \A j \in 1..(k - 1) : j \in 1..n
    BY <1>1
  <2>2. \A j \in 1..(k - 1) : s[j].caption > 0 <=> given[P[j].n].caption > 0
    BY <1>2, <1>9, <2>1
  <2> QED
    BY <2>2
<1> HIDE DEF kept, n, given, mode
<1>14. \A k \in 1..n :
         /\ P[k].n \in 1..n /\ P[k].kind = Prepared(P[k].n, given).kind
         /\ P[k].caption = IF mode # "first_only" \/ \A j \in 1..(k - 1) : ~(given[P[j].n].caption > 0)
                           THEN Prepared(P[k].n, given).caption ELSE 0
  BY <1>9, <1>13
<1> QED
  BY <1>1, <1>10, <1>11, <1>12, <1>14 DEF n, given, mode, P

\* Files that are next to be sent go together only as photos, and at most GroupMax of them.
LEMMA BatchIs ==
  ASSUME NEW P \in Seq(Prepareds), \A i, j \in 1..Len(P) : i < j => Before(P[i], P[j]),
         NEW start \in 1..Len(P)
  PROVE  LET end == EndOfBatch(P, start)
             batch == SubSeq(P, start, end)
         IN /\ end \in start..Len(P) /\ end < start + GroupMax
            /\ \A i \in start..end : P[i].kind = P[start].kind
            /\ end > start => P[start].kind = "photo"
            /\ batch \in Seq(Prepareds) /\ Len(batch) = end - start + 1
            /\ \A i \in 1..Len(batch) : batch[i] = P[start + i - 1]
<1> DEFINE end == EndOfBatch(P, start)
           batch == SubSeq(P, start, end)
           I == {i \in 1..Len(P) : P[i].kind = "photo"}
           photos == Cardinality(I)
<1>1. Len(P) \in Nat /\ DOMAIN P = 1..Len(P) /\ start \in Nat /\ GroupMax \in Nat /\ GroupMax > 1
  BY SendFilesAssumption
<1>2. ASSUME NEW i \in I, NEW j \in 1..i
      PROVE  j \in I
  <2>1. i \in 1..Len(P) /\ P[i].kind = "photo"
    BY DEF I
  <2>2. j \in 1..Len(P) /\ (j = i \/ Before(P[j], P[i]))
    BY <1>1, <2>1
  <2>3. P[j] \in Prepareds
    BY <2>2
  <2>4. P[j].kind \in Kinds
    BY <2>3 DEF Prepareds
  <2> HIDE DEF I
  <2>5. Position(P[j].kind) \in 1..4 /\ (Position(P[j].kind) = 1 => P[j].kind = "photo")
    BY <2>4, Positions
  <2>6. P[j].kind = "photo"
    BY <2>1, <2>2, <2>5, Positions DEF Before
  <2> QED
    BY <2>2, <2>6 DEF I
<1>3. I = 1..photos /\ photos \in 0..Len(P)
  <2>1. \A i \in I : 1..i \subseteq I
    BY <1>2
  <2>2. I \in SUBSET (1..Len(P))
    OBVIOUS
  <2> HIDE DEF I
  <2> QED
    BY <1>1, <2>1, <2>2, InitialSegment
<1>4. end = IF P[start].kind # "photo" THEN start
            ELSE IF start + GroupMax - 1 <= photos THEN start + GroupMax - 1 ELSE photos
  BY <1>1 DEF EndOfBatch
<1>5. P[start].kind = "photo" => start <= photos
  <2>1. P[start].kind = "photo" => start \in I
    OBVIOUS
  <2> HIDE DEF I
  <2> QED
    BY <1>3, <2>1
<1>6. \A i \in 1..photos : P[i].kind = "photo"
  BY <1>3
<1> HIDE DEF I, photos, end
<1>7. end \in start..Len(P) /\ end < start + GroupMax /\ (end > start => P[start].kind = "photo")
  BY <1>1, <1>3, <1>4, <1>5
<1>8. \A i \in start..end : P[i].kind = P[start].kind
  <2>1. CASE P[start].kind # "photo"
    BY <1>1, <1>4, <2>1
  <2>2. CASE P[start].kind = "photo"
    <3>1. end <= photos
      BY <1>1, <1>3, <1>4, <1>5, <2>2
    <3>2. \A i \in start..end : i \in 1..photos
      BY <1>1, <1>3, <1>7, <3>1
    <3> QED
      BY <1>6, <2>2, <3>2
  <2> QED
    BY <2>1, <2>2
<1>9. batch \in Seq(Prepareds) /\ Len(batch) = end - start + 1 /\ \A i \in 1..Len(batch) : batch[i] = P[start + i - 1]
  <2>1. end \in Nat /\ start <= end /\ end <= Len(P)
    BY <1>1, <1>7
  <2> QED
    BY <1>1, <2>1
<1> QED
  BY <1>7, <1>8, <1>9 DEF end

--------------------------------------------------------------------------------

Messages == [n : Nat, kind : Kinds, caption : Nat, call : Nat]
Items == [n : Nat, kind : Kinds, sent : BOOLEAN]

\* The results a tool can have on its way, with the warnings w.
Tools(w) ==
  [calls : Nat, attempt : Nat, chat : Seq(Messages), items : Seq(Items), sent : [Kinds -> Nat],
   groups : Nat, warnings : {w}, error : {"none", "telegram_api_error"}]

Told(tool) == {i \in 1..Len(tool.items) : tool.items[i].sent}
Grouped(tool, c) == \E i, j \in Told(tool) : i # j /\ tool.chat[i].call = c /\ tool.chat[j].call = c
TogetherOnlyPhotos(chat) ==
  \A i, j \in 1..Len(chat) :
    (i # j /\ chat[i].call = chat[j].call) => chat[i].kind = "photo" /\ j < i + GroupMax

\* The files that are in the chat but not told of: those of the last call, if its answer is lost.
AllTold(tool, network, t) ==
  /\ Told(tool) = 1..t /\ t <= Len(tool.chat)
  /\ tool.error = "none" => t = Len(tool.items)
  /\ \A i \in 1..Len(tool.chat) :
       i > t => tool.calls > 0 /\ tool.chat[i].call = tool.calls /\ network[tool.calls] = "lost"

\* What holds of the tool after each of its calls for the files P.
Progress(tool, P, network, w) ==
  /\ tool \in Tools(w)
  /\ Len(tool.items) <= Len(P) /\ Len(tool.chat) <= Len(tool.items)
  /\ \A i \in 1..Len(tool.items) : tool.items[i].n = P[i].n /\ tool.items[i].kind = P[i].kind
  /\ \A i \in 1..Len(tool.chat) :
       /\ tool.chat[i].n = P[i].n /\ tool.chat[i].kind = P[i].kind
       /\ tool.chat[i].caption = P[i].caption /\ tool.chat[i].call \in 1..tool.calls
  /\ TogetherOnlyPhotos(tool.chat)
  /\ \E t \in 0..Len(tool.items) : AllTold(tool, network, t)
  /\ \A kind \in Kinds :
       tool.sent[kind] = Cardinality({i \in Told(tool) : tool.items[i].kind = kind})
  /\ tool.groups = Cardinality({c \in 1..tool.calls : Grouped(tool, c)})
  /\ tool.attempt \in 1..RetryAttempts
  /\ tool.error = "none" => tool.calls <= Len(tool.items) * RetryAttempts + (tool.attempt - 1)

\* Before the first call there is nothing to tell.
LEMMA ProgressInit ==
  ASSUME NEW P \in Seq(Prepareds), NEW network, NEW w
  PROVE  Progress(NewResult("none", w), P, network, w)
<1> DEFINE tool == NewResult("none", w)
<1>1. tool = [calls |-> 0, attempt |-> 1, chat |-> <<>>, items |-> <<>>, sent |-> [kind \in Kinds |-> 0],
              groups |-> 0, warnings |-> w, error |-> "none"]
  BY DEF NewResult
<1> HIDE DEF tool
<1>2. tool \in Tools(w)
  BY <1>1 DEF Tools
<1>3. RetryAttempts \in Nat /\ RetryAttempts >= 1 /\ Len(P) \in Nat
  BY SendFilesAssumption
<1>4. Len(tool.items) = 0 /\ Len(tool.chat) = 0
  BY <1>1
<1>5. Told(tool) = {}
  BY <1>4 DEF Told
<1>6. {c \in 1..tool.calls : Grouped(tool, c)} = {}
  BY <1>1, <1>5 DEF Grouped
<1>7. \A kind \in Kinds : {i \in Told(tool) : tool.items[i].kind = kind} = {}
  BY <1>5
<1>8. Cardinality({}) = 0
  BY FS_EmptySet
<1>9. AllTold(tool, network, 0)
  BY <1>4, <1>5, <1>3 DEF AllTold
<1>10. TogetherOnlyPhotos(tool.chat)
  BY <1>4 DEF TogetherOnlyPhotos
<1>11. \A kind \in Kinds :
       tool.sent[kind] = Cardinality({i \in Told(tool) : tool.items[i].kind = kind})
  BY <1>1, <1>7, <1>8
<1>12. tool.groups = Cardinality({c \in 1..tool.calls : Grouped(tool, c)})
  BY <1>1, <1>6, <1>8
<1>13. tool.attempt \in 1..RetryAttempts /\ tool.calls <= Len(tool.items) * RetryAttempts + (tool.attempt - 1)
  BY <1>1, <1>3, <1>4
<1> QED
  BY <1>2, <1>3, <1>4, <1>9, <1>10, <1>11, <1>12, <1>13 DEF Progress, tool

\* Who tells of the same messages forms the same groups.
LEMMA SameGroups ==
  ASSUME NEW tool, NEW new, NEW n, Told(tool) = 1..n, Told(new) = 1..n,
         \A i \in 1..n : new.chat[i] = tool.chat[i]
  PROVE  \A c : Grouped(new, c) <=> Grouped(tool, c)
BY DEF Grouped

\* What a batch adds to a sequence.
LEMMA Appended ==
  ASSUME NEW S, NEW s \in Seq(S), NEW r \in Seq(S)
  PROVE  /\ s \o r \in Seq(S) /\ Len(s \o r) = Len(s) + Len(r)
         /\ \A i \in 1..Len(s) : (s \o r)[i] = s[i]
         /\ \A i \in (Len(s) + 1)..(Len(s) + Len(r)) : (s \o r)[i] = r[i - Len(s)]
OBVIOUS

\* The number of calls stays below the attempts of the files that were sent.
LEMMA CallBound ==
  ASSUME NEW R \in Nat \ {0}, NEW made \in Nat, NEW n \in Nat, NEW end \in Nat, n < end,
         NEW attempt \in 1..R, made <= n * R + (attempt - 1)
  PROVE  /\ attempt < R => made + 1 <= n * R + ((attempt + 1) - 1)
         /\ made + 1 <= end * R + (1 - 1)
<1>1. (n + 1) * R = n * R + R /\ n * R \in Nat
  OBVIOUS
<1>2. end * R >= (n + 1) * R
  OBVIOUS
<1>3. end * R \in Nat
  OBVIOUS
<1> QED
  BY <1>1, <1>2, <1>3

\* What a call for the files of a batch adds.
LEMMA NewMessages ==
  ASSUME NEW batch \in Seq(Prepareds), NEW c \in Nat, NEW yes \in BOOLEAN
  PROVE  /\ MessagesOf(batch, c) \in Seq(Messages) /\ Len(MessagesOf(batch, c)) = Len(batch)
         /\ ItemsOf(batch, yes) \in Seq(Items) /\ Len(ItemsOf(batch, yes)) = Len(batch)
         /\ \A i \in 1..Len(batch) :
              /\ MessagesOf(batch, c)[i].n = batch[i].n /\ MessagesOf(batch, c)[i].kind = batch[i].kind
              /\ MessagesOf(batch, c)[i].caption = batch[i].caption /\ MessagesOf(batch, c)[i].call = c
              /\ ItemsOf(batch, yes)[i].n = batch[i].n /\ ItemsOf(batch, yes)[i].kind = batch[i].kind
              /\ ItemsOf(batch, yes)[i].sent = yes
<1>1. DOMAIN batch = 1..Len(batch) /\ Len(batch) \in Nat
  OBVIOUS
<1>2. \A i \in 1..Len(batch) : batch[i].n \in Nat /\ batch[i].kind \in Kinds /\ batch[i].caption \in Nat
  <2> TAKE i \in 1..Len(batch)
  <2>1. batch[i] \in Prepareds
    OBVIOUS
  <2> QED
    BY <2>1 DEF Prepareds
<1>3. MessagesOf(batch, c) \in [1..Len(batch) -> Messages]
  BY <1>1, <1>2 DEF Messages, MessagesOf
<1>4. ItemsOf(batch, yes) \in [1..Len(batch) -> Items]
  BY <1>1, <1>2 DEF Items, ItemsOf
<1>5. \A i \in 1..Len(batch) :
        /\ MessagesOf(batch, c)[i].n = batch[i].n /\ MessagesOf(batch, c)[i].kind = batch[i].kind
        /\ MessagesOf(batch, c)[i].caption = batch[i].caption /\ MessagesOf(batch, c)[i].call = c
  BY <1>1 DEF MessagesOf
<1>6. \A i \in 1..Len(batch) :
        /\ ItemsOf(batch, yes)[i].n = batch[i].n /\ ItemsOf(batch, yes)[i].kind = batch[i].kind
        /\ ItemsOf(batch, yes)[i].sent = yes
  BY <1>1 DEF ItemsOf
<1>7. MessagesOf(batch, c) \in Seq(Messages) /\ Len(MessagesOf(batch, c)) = Len(batch)
  BY <1>1, <1>3
<1>8. ItemsOf(batch, yes) \in Seq(Items) /\ Len(ItemsOf(batch, yes)) = Len(batch)
  BY <1>1, <1>4
<1> QED
  BY <1>5, <1>6, <1>7, <1>8

\* While files are left, all that are done, n of them, are in the chat and told of.
Working(tool, P, n) ==
  /\ n \in Nat /\ n < Len(P) /\ Len(tool.items) = n /\ Len(tool.chat) = n /\ Told(tool) = 1..n
  /\ tool.calls \in Nat /\ tool.attempt \in 1..RetryAttempts
  /\ tool.chat \in Seq(Messages) /\ tool.items \in Seq(Items)
  /\ tool.sent \in [Kinds -> Nat] /\ tool.groups \in Nat /\ tool.error = "none"
  /\ \A i \in 1..n : tool.items[i].n = P[i].n /\ tool.items[i].kind = P[i].kind /\ tool.items[i].sent
  /\ \A i \in 1..n : /\ tool.chat[i].n = P[i].n /\ tool.chat[i].kind = P[i].kind
                     /\ tool.chat[i].caption = P[i].caption /\ tool.chat[i].call \in 1..tool.calls
  /\ TogetherOnlyPhotos(tool.chat)
  /\ \A kind \in Kinds : tool.sent[kind] = Cardinality({i \in 1..n : tool.items[i].kind = kind})
  /\ tool.groups = Cardinality({c \in 1..tool.calls : Grouped(tool, c)})
  /\ tool.calls <= n * RetryAttempts + (tool.attempt - 1)

\* The files of the next call are those of P after the first n, up to the one at end.
Fits(P, n, end, batch) ==
  /\ n < end /\ end <= Len(P) /\ end <= n + GroupMax /\ Len(batch) = end - n
  /\ \A i \in (n + 1)..end : batch[i - n] = P[i] /\ P[i].kind = P[n + 1].kind
  /\ end > n + 1 => P[n + 1].kind = "photo"

\* The sequences chatX and itemsX go on after the first n files of P up to the one at end.
Continued(chat, items, made, P, n, end, chatX, itemsX, yes) ==
  /\ chatX \in Seq(Messages) /\ Len(chatX) = end /\ TogetherOnlyPhotos(chatX)
  /\ \A i \in 1..n : chatX[i] = chat[i]
  /\ \A i \in (n + 1)..end : chatX[i].call = made + 1
  /\ \A i \in 1..end : /\ chatX[i].n = P[i].n /\ chatX[i].kind = P[i].kind
                       /\ chatX[i].caption = P[i].caption /\ chatX[i].call \in 1..(made + 1)
  /\ itemsX \in Seq(Items) /\ Len(itemsX) = end
  /\ \A i \in 1..n : itemsX[i] = items[i]
  /\ \A i \in (n + 1)..end : itemsX[i].sent = yes
  /\ \A i \in 1..end : itemsX[i].n = P[i].n /\ itemsX[i].kind = P[i].kind

\* A batch continues what the chat and the result hold.
LEMMA Extended ==
  ASSUME NEW tool, NEW P, NEW n, Working(tool, P, n),
         NEW end \in Nat, NEW batch \in Seq(Prepareds), Fits(P, n, end, batch), NEW yes \in BOOLEAN
  PROVE  Continued(tool.chat, tool.items, tool.calls, P, n, end,
                   tool.chat \o MessagesOf(batch, tool.calls + 1), tool.items \o ItemsOf(batch, yes), yes)
<1> SUFFICES
      ASSUME n \in Nat, n < end, end <= n + GroupMax, Len(batch) = end - n,
             \A i \in (n + 1)..end : batch[i - n] = P[i] /\ P[i].kind = P[n + 1].kind,
             end > n + 1 => P[n + 1].kind = "photo",
             NEW made \in Nat, NEW chat \in Seq(Messages), Len(chat) = n, TogetherOnlyPhotos(chat),
             \A i \in 1..n : /\ chat[i].n = P[i].n /\ chat[i].kind = P[i].kind
                             /\ chat[i].caption = P[i].caption /\ chat[i].call \in 1..made,
             NEW items \in Seq(Items), Len(items) = n,
             \A i \in 1..n : items[i].n = P[i].n /\ items[i].kind = P[i].kind
      PROVE  Continued(chat, items, made, P, n, end, chat \o MessagesOf(batch, made + 1),
                       items \o ItemsOf(batch, yes), yes)
  BY DEF Working, Fits
<1> DEFINE msgs == MessagesOf(batch, made + 1)
           its == ItemsOf(batch, yes)
           chatX == chat \o msgs
           itemsX == items \o its
<1>1. /\ msgs \in Seq(Messages) /\ Len(msgs) = end - n
      /\ its \in Seq(Items) /\ Len(its) = end - n
      /\ \A i \in 1..(end - n) :
           /\ msgs[i].n = batch[i].n /\ msgs[i].kind = batch[i].kind
           /\ msgs[i].caption = batch[i].caption /\ msgs[i].call = made + 1
           /\ its[i].n = batch[i].n /\ its[i].kind = batch[i].kind /\ its[i].sent = yes
  <2>1. PICK c \in Nat : c = made + 1
    OBVIOUS
  <2>2. /\ MessagesOf(batch, c) \in Seq(Messages) /\ Len(MessagesOf(batch, c)) = Len(batch)
        /\ ItemsOf(batch, yes) \in Seq(Items) /\ Len(ItemsOf(batch, yes)) = Len(batch)
        /\ \A i \in 1..Len(batch) :
             /\ MessagesOf(batch, c)[i].n = batch[i].n /\ MessagesOf(batch, c)[i].kind = batch[i].kind
             /\ MessagesOf(batch, c)[i].caption = batch[i].caption /\ MessagesOf(batch, c)[i].call = c
             /\ ItemsOf(batch, yes)[i].n = batch[i].n /\ ItemsOf(batch, yes)[i].kind = batch[i].kind
             /\ ItemsOf(batch, yes)[i].sent = yes
    BY NewMessages
  <2>3. msgs = MessagesOf(batch, c) /\ its = ItemsOf(batch, yes)
    BY <2>1
  <2> HIDE DEF msgs, its
  <2> QED
    BY <2>1, <2>2, <2>3
<1> HIDE DEF msgs, its
<1>2. GroupMax \in Nat /\ n + (end - n) = end
  BY SendFilesAssumption
<1>3. \A i \in (n + 1)..end : i - n \in 1..(end - n)
  OBVIOUS
<1>4. /\ chatX \in Seq(Messages) /\ Len(chatX) = end
      /\ \A i \in 1..n : chatX[i] = chat[i]
      /\ \A i \in (n + 1)..end : chatX[i] = msgs[i - n]
  <2>1. /\ chat \o msgs \in Seq(Messages) /\ Len(chat \o msgs) = Len(chat) + Len(msgs)
        /\ \A i \in 1..Len(chat) : (chat \o msgs)[i] = chat[i]
        /\ \A i \in (Len(chat) + 1)..(Len(chat) + Len(msgs)) : (chat \o msgs)[i] = msgs[i - Len(chat)]
    <3>1. msgs \in Seq(Messages) /\ chat \in Seq(Messages)
      BY <1>1
    <3> QED
      BY <3>1, Appended, Zenon
  <2> HIDE DEF chatX
  <2> QED
    BY <1>1, <1>2, <2>1 DEF chatX
<1>5. /\ itemsX \in Seq(Items) /\ Len(itemsX) = end
      /\ \A i \in 1..n : itemsX[i] = items[i]
      /\ \A i \in (n + 1)..end : itemsX[i] = its[i - n]
  <2>1. /\ items \o its \in Seq(Items) /\ Len(items \o its) = Len(items) + Len(its)
        /\ \A i \in 1..Len(items) : (items \o its)[i] = items[i]
        /\ \A i \in (Len(items) + 1)..(Len(items) + Len(its)) : (items \o its)[i] = its[i - Len(items)]
    <3>1. its \in Seq(Items) /\ items \in Seq(Items)
      BY <1>1
    <3> QED
      BY <3>1, Appended, Zenon
  <2> QED
    BY <1>1, <1>2, <2>1 DEF itemsX
<1> HIDE DEF chatX, itemsX
<1>6. \A i \in (n + 1)..end :
        /\ chatX[i].n = P[i].n /\ chatX[i].kind = P[i].kind
        /\ chatX[i].caption = P[i].caption /\ chatX[i].call = made + 1
        /\ itemsX[i].n = P[i].n /\ itemsX[i].kind = P[i].kind /\ itemsX[i].sent = yes
  <2> TAKE i \in (n + 1)..end
  <2>1. chatX[i] = msgs[i - n] /\ itemsX[i] = its[i - n] /\ batch[i - n] = P[i] /\ i - n \in 1..(end - n)
    BY <1>3, <1>4, <1>5
  <2> QED
    BY <1>1, <2>1
<1>7. \A i \in 1..end : i \in 1..n \/ i \in (n + 1)..end
  OBVIOUS
<1>8. \A i \in 1..end : /\ chatX[i].n = P[i].n /\ chatX[i].kind = P[i].kind
                        /\ chatX[i].caption = P[i].caption /\ chatX[i].call \in 1..(made + 1)
  <2>1. \A c \in 1..made : c \in 1..(made + 1)
    OBVIOUS
  <2>2. made + 1 \in 1..(made + 1)
    OBVIOUS
  <2>3. \A i \in 1..n : /\ chatX[i].n = P[i].n /\ chatX[i].kind = P[i].kind
                         /\ chatX[i].caption = P[i].caption /\ chatX[i].call \in 1..made
    BY <1>4
  <2> QED
    BY <1>6, <1>7, <2>1, <2>2, <2>3, Zenon
<1>9. \A i \in 1..end : itemsX[i].n = P[i].n /\ itemsX[i].kind = P[i].kind
  BY <1>5, <1>6, <1>7
<1>10. ASSUME NEW i \in 1..end, NEW j \in 1..end, i # j, chatX[i].call = chatX[j].call
       PROVE  chatX[i].kind = "photo" /\ j < i + GroupMax
  <2>1. CASE i \in 1..n /\ j \in 1..n
    <3>1. chat[i].call = chat[j].call
      BY <1>4, <1>10, <2>1
    <3>2. chat[i].kind = "photo" /\ j < i + GroupMax
      BY <1>10, <2>1, <3>1 DEF TogetherOnlyPhotos
    <3> QED
      BY <1>4, <2>1, <3>2
  <2>2. CASE i \in (n + 1)..end /\ j \in (n + 1)..end
    <3>1. end > n + 1 /\ j < i + GroupMax
      BY <1>2, <1>10, <2>2
    <3>2. chatX[i].kind = P[n + 1].kind
      BY <1>6, <2>2
    <3> QED
      BY <3>1, <3>2
  <2>3. \A k \in 1..n : chatX[k].call \in 1..made
    BY <1>4
  <2>4. \A k \in (n + 1)..end : chatX[k].call = made + 1
    BY <1>6
  <2>5. made + 1 \notin 1..made
    OBVIOUS
  <2> QED
    BY <1>7, <1>10, <2>1, <2>2, <2>3, <2>4, <2>5
<1>11. TogetherOnlyPhotos(chatX)
  BY <1>4, <1>10 DEF TogetherOnlyPhotos
<1> QED
  <2>1. Continued(chat, items, made, P, n, end, chatX, itemsX, yes)
    BY <1>4, <1>5, <1>6, <1>8, <1>9, <1>11 DEF Continued
  <2> QED
    BY <2>1 DEF chatX, itemsX, msgs, its

\* A tool that sends is at work.
LEMMA AtWork ==
  ASSUME NEW P \in Seq(Prepareds), NEW network, NEW w, NEW tool,
         Progress(tool, P, network, w), Sending(tool, P)
  PROVE  Working(tool, P, Len(tool.items))
<1> DEFINE n == Len(tool.items)
<1>1. /\ tool \in Tools(w) /\ tool.error = "none" /\ tool.attempt \in 1..RetryAttempts
      /\ n < Len(P) /\ TogetherOnlyPhotos(tool.chat) /\ Len(tool.chat) <= n
  BY DEF Progress, Sending
<1>2. /\ tool.calls \in Nat /\ tool.chat \in Seq(Messages) /\ tool.items \in Seq(Items)
      /\ tool.sent \in [Kinds -> Nat] /\ tool.groups \in Nat
  BY <1>1 DEF Tools
<1>3. n \in Nat /\ Len(tool.chat) \in Nat
  BY <1>2
<1>4. Told(tool) = 1..n /\ Len(tool.chat) = n
  <2>1. PICK t \in 0..n : AllTold(tool, network, t)
    BY DEF Progress
  <2>2. t = n /\ t <= Len(tool.chat)
    BY <1>1, <2>1 DEF AllTold
  <2> QED
    BY <1>1, <1>3, <2>1, <2>2 DEF AllTold
<1>5. \A i \in 1..n : tool.items[i].n = P[i].n /\ tool.items[i].kind = P[i].kind
  BY DEF Progress
<1>6. \A i \in 1..n : tool.items[i].sent
  BY <1>4 DEF Told
<1>7. \A i \in 1..n : /\ tool.chat[i].n = P[i].n /\ tool.chat[i].kind = P[i].kind
                      /\ tool.chat[i].caption = P[i].caption /\ tool.chat[i].call \in 1..tool.calls
  BY <1>4 DEF Progress
<1>8. \A kind \in Kinds : tool.sent[kind] = Cardinality({i \in 1..n : tool.items[i].kind = kind})
  BY <1>4 DEF Progress
<1>9. tool.groups = Cardinality({c \in 1..tool.calls : Grouped(tool, c)})
      /\ tool.calls <= n * RetryAttempts + (tool.attempt - 1)
  BY <1>1 DEF Progress
<1> QED
  BY <1>1, <1>2, <1>3, <1>4, <1>5, <1>6, <1>7, <1>8, <1>9 DEF Working

\* A refused call that is repeated tells nothing.
LEMMA CallAgain ==
  ASSUME NEW P \in Seq(Prepareds), NEW network, NEW w, NEW tool,
         Progress(tool, P, network, w), Sending(tool, P), tool.attempt < RetryAttempts,
         NEW new, new \in Tools(w), new.calls = tool.calls + 1, new.attempt = tool.attempt + 1,
         new.chat = tool.chat, new.items = tool.items, new.sent = tool.sent,
         new.groups = tool.groups, new.error = "none"
  PROVE  Progress(new, P, network, w)
<1> DEFINE n == Len(tool.items)
<1> HIDE DEF n
<1>1. tool \in Tools(w)
  BY DEF Progress
<1>2. n = Len(tool.items)
  BY DEF n
<1>3. /\ n \in Nat /\ n < Len(P) /\ Len(tool.chat) = n /\ Told(tool) = 1..n
      /\ tool.calls \in Nat /\ tool.attempt \in 1..RetryAttempts /\ tool.error = "none"
      /\ \A i \in 1..n : tool.chat[i].call \in 1..tool.calls
      /\ \A kind \in Kinds : tool.sent[kind] = Cardinality({i \in 1..n : tool.items[i].kind = kind})
      /\ tool.groups = Cardinality({c \in 1..tool.calls : Grouped(tool, c)})
      /\ tool.calls <= n * RetryAttempts + (tool.attempt - 1)
  <2>1. Working(tool, P, n)
    BY <1>2, AtWork
  <2> QED
    BY <2>1 DEF Working
<1>5. RetryAttempts \in Nat \ {0} /\ Len(P) \in Nat
  BY SendFilesAssumption
<1>6. Told(new) = 1..n
  BY <1>3 DEF Told
<1>7. {c \in 1..(tool.calls + 1) : Grouped(new, c)} = {c \in 1..tool.calls : Grouped(tool, c)}
  <2>1. \A c : Grouped(new, c) <=> Grouped(tool, c)
    BY <1>3, <1>6 DEF Grouped
  <2>2. \A c : Grouped(tool, c) => c \in 1..tool.calls
    BY <1>3 DEF Grouped
  <2> QED
    BY <1>3, <2>1, <2>2
<1>8. AllTold(new, network, n)
  BY <1>2, <1>3, <1>6 DEF AllTold
<1>9. new.attempt \in 1..RetryAttempts /\ new.calls <= Len(new.items) * RetryAttempts + (new.attempt - 1)
  <2>1. n * RetryAttempts \in Nat
    BY <1>3, <1>5
  <2>2. tool.calls + 1 <= n * RetryAttempts + ((tool.attempt + 1) - 1)
    BY <1>3, <1>5, <2>1
  <2> QED
    BY <1>2, <1>3, <1>5, <2>2
<1>10. \A i \in 1..Len(new.items) : new.items[i].n = P[i].n /\ new.items[i].kind = P[i].kind
  BY DEF Progress
<1>11. \A i \in 1..Len(new.chat) :
         /\ new.chat[i].n = P[i].n /\ new.chat[i].kind = P[i].kind
         /\ new.chat[i].caption = P[i].caption /\ new.chat[i].call \in 1..new.calls
  <2>1. \A i \in 1..n : tool.chat[i].call \in 1..(tool.calls + 1)
    BY <1>3
  <2> QED
    BY <1>3, <2>1 DEF Progress
<1>12. TogetherOnlyPhotos(new.chat)
  BY DEF Progress
<1>13. \A kind \in Kinds : new.sent[kind] = Cardinality({i \in Told(new) : new.items[i].kind = kind})
  BY <1>3, <1>6
<1>14. new.groups = Cardinality({c \in 1..new.calls : Grouped(new, c)})
  BY <1>3, <1>7
<1>15. Len(new.items) <= Len(P) /\ Len(new.chat) <= Len(new.items) /\ n \in 0..Len(new.items)
  BY <1>2, <1>3, <1>5
<1> QED
  BY <1>8, <1>9, <1>10, <1>11, <1>12, <1>13, <1>14, <1>15 DEF Progress

\* A call that ends with an error tells that its files are not sent, and a file is in the chat
\* for all that only if the answer was lost.
LEMMA CallFails ==
  ASSUME NEW P \in Seq(Prepareds), NEW network, NEW w, NEW tool,
         Progress(tool, P, network, w), Sending(tool, P),
         NEW n, n = Len(tool.items), NEW end \in (n + 1)..Len(P),
         NEW chatX, NEW itemsX,
         Continued(tool.chat, tool.items, tool.calls, P, n, end, chatX, itemsX, FALSE),
         NEW new, new \in Tools(w), new.calls = tool.calls + 1, new.attempt = 1,
         new.chat \in {chatX, tool.chat}, network[tool.calls + 1] # "lost" => new.chat = tool.chat,
         new.items = itemsX, new.sent = tool.sent, new.groups = tool.groups,
         new.error = "telegram_api_error"
  PROVE  Progress(new, P, network, w)
<1>0. /\ chatX \in Seq(Messages) /\ Len(chatX) = end /\ TogetherOnlyPhotos(chatX)
      /\ \A i \in 1..n : chatX[i] = tool.chat[i]
      /\ \A i \in (n + 1)..end : chatX[i].call = tool.calls + 1
      /\ \A i \in 1..end : /\ chatX[i].n = P[i].n /\ chatX[i].kind = P[i].kind
                           /\ chatX[i].caption = P[i].caption /\ chatX[i].call \in 1..(tool.calls + 1)
      /\ itemsX \in Seq(Items) /\ Len(itemsX) = end
      /\ \A i \in 1..n : itemsX[i] = tool.items[i]
      /\ \A i \in (n + 1)..end : itemsX[i].sent = FALSE
      /\ \A i \in 1..end : itemsX[i].n = P[i].n /\ itemsX[i].kind = P[i].kind
  BY DEF Continued
<1> USE <1>0
<1>1. /\ n \in Nat /\ n < Len(P) /\ Len(tool.chat) = n /\ Told(tool) = 1..n
      /\ tool.calls \in Nat /\ TogetherOnlyPhotos(tool.chat)
      /\ \A i \in 1..n : /\ tool.chat[i].n = P[i].n /\ tool.chat[i].kind = P[i].kind
                         /\ tool.chat[i].caption = P[i].caption /\ tool.chat[i].call \in 1..tool.calls
      /\ \A i \in 1..n : tool.items[i].sent
      /\ \A kind \in Kinds : tool.sent[kind] = Cardinality({i \in 1..n : tool.items[i].kind = kind})
      /\ tool.groups = Cardinality({c \in 1..tool.calls : Grouped(tool, c)})
  <2>1. Working(tool, P, n)
    BY AtWork
  <2> QED
    BY <2>1 DEF Working
<1>2. RetryAttempts \in Nat \ {0} /\ Len(P) \in Nat /\ end \in Nat /\ n < end /\ end <= Len(P)
  BY <1>1, SendFilesAssumption
<1>3. \A i \in 1..end : i \in 1..n \/ i \in (n + 1)..end
  BY <1>1, <1>2
<1>4. \A i \in 1..n : i \in 1..end
  BY <1>1, <1>2
<1>5. Told(new) = 1..n
  <2>1. \A i \in 1..n : itemsX[i].sent
    BY <1>1
  <2>2. Told(new) = {i \in 1..end : itemsX[i].sent}
    BY DEF Told
  <2> QED
    BY <1>3, <1>4, <2>1, <2>2
<1>6. \A i \in 1..n : new.chat[i] = tool.chat[i]
  OBVIOUS
<1>7. {c \in 1..(tool.calls + 1) : Grouped(new, c)} = {c \in 1..tool.calls : Grouped(tool, c)}
  <2>1. \A c : Grouped(new, c) <=> Grouped(tool, c)
    <3>1. Told(tool) = 1..n
      BY <1>1
    <3> QED
      BY <1>5, <1>6, <3>1, SameGroups, Zenon
  <2>2. \A c : Grouped(tool, c) => c \in 1..tool.calls
    BY <1>1 DEF Grouped
  <2> QED
    BY <1>1, <2>1, <2>2
<1>8. Len(new.chat) \in {n, end} /\ (network[tool.calls + 1] # "lost" => Len(new.chat) = n)
  BY <1>1
<1>9. AllTold(new, network, n)
  <2>1. \A i \in 1..Len(new.chat) : i > n => network[tool.calls + 1] = "lost" /\ i \in (n + 1)..end
    BY <1>1, <1>2, <1>8
  <2>2. \A i \in 1..Len(new.chat) : i > n =>
          new.calls > 0 /\ new.chat[i].call = new.calls /\ network[new.calls] = "lost"
    BY <1>1, <2>1
  <2>3. n <= Len(new.chat)
    BY <1>1, <1>2, <1>8
  <2> QED
    BY <1>5, <2>2, <2>3 DEF AllTold
<1>10. \A kind \in Kinds : new.sent[kind] = Cardinality({i \in Told(new) : new.items[i].kind = kind})
  <2> TAKE kind \in Kinds
  <2>1. {i \in 1..n : itemsX[i].kind = kind} = {i \in 1..n : tool.items[i].kind = kind}
    OBVIOUS
  <2>2. new.sent[kind] = Cardinality({i \in 1..n : tool.items[i].kind = kind})
    BY <1>1
  <2>3. {i \in Told(new) : new.items[i].kind = kind} = {i \in 1..n : itemsX[i].kind = kind}
    BY <1>5
  <2> QED
    BY <2>1, <2>2, <2>3
<1>11. new.groups = Cardinality({c \in 1..new.calls : Grouped(new, c)})
  BY <1>1, <1>7
<1>12. /\ \A i \in 1..Len(new.chat) :
            /\ new.chat[i].n = P[i].n /\ new.chat[i].kind = P[i].kind
            /\ new.chat[i].caption = P[i].caption /\ new.chat[i].call \in 1..new.calls
       /\ TogetherOnlyPhotos(new.chat)
  <2>1. CASE new.chat = chatX
    BY <2>1
  <2>2. CASE new.chat = tool.chat
    <3>1. \A i \in 1..n : tool.chat[i].call \in 1..(tool.calls + 1)
      BY <1>1
    <3> QED
      BY <1>1, <2>2, <3>1
  <2> QED
    BY <2>1, <2>2
<1>13. \A i \in 1..Len(new.items) : new.items[i].n = P[i].n /\ new.items[i].kind = P[i].kind
  OBVIOUS
<1>14. n \in 0..Len(new.items) /\ Len(new.items) <= Len(P) /\ Len(new.chat) <= Len(new.items)
  BY <1>1, <1>2, <1>8
<1>15. new.attempt \in 1..RetryAttempts /\ new.error # "none"
  BY <1>2
<1> QED
  BY <1>9, <1>10, <1>11, <1>12, <1>13, <1>14, <1>15 DEF Progress

\* The files of the next call when n are done.
LEMMA NextBatch ==
  ASSUME NEW P \in Seq(Prepareds), \A i, j \in 1..Len(P) : i < j => Before(P[i], P[j]),
         NEW n \in Nat, n < Len(P)
  PROVE  \E end \in Nat, batch \in Seq(Prepareds) :
           EndOfBatch(P, n + 1) = end /\ SubSeq(P, n + 1, end) = batch /\ Fits(P, n, end, batch)
<1> DEFINE start == n + 1
           end == EndOfBatch(P, start)
           batch == SubSeq(P, start, end)
<1>1. start \in 1..Len(P) /\ Len(P) \in Nat /\ start \in Nat /\ GroupMax \in Nat
  BY SendFilesAssumption
<1>2. start = n + 1
  OBVIOUS
<1> HIDE DEF start
<1>3. /\ end \in start..Len(P) /\ end < start + GroupMax
      /\ \A i \in start..end : P[i].kind = P[start].kind
      /\ end > start => P[start].kind = "photo"
      /\ batch \in Seq(Prepareds) /\ Len(batch) = end - start + 1
      /\ \A i \in 1..Len(batch) : batch[i] = P[start + i - 1]
  BY <1>1, BatchIs
<1> HIDE DEF end, batch
<1>4. end \in start..Len(P) /\ end < start + GroupMax /\ Len(batch) = end - start + 1
  BY <1>3
<1>5. end \in Nat /\ n < end /\ end <= Len(P) /\ end <= n + GroupMax /\ Len(batch) = end - n
  BY <1>1, <1>2, <1>4
<1>6. \A i \in start..end : batch[i - n] = P[i] /\ P[i].kind = P[start].kind
  <2> TAKE i \in start..end
  <2>1. i - n \in 1..Len(batch) /\ start + (i - n) - 1 = i
    BY <1>1, <1>2, <1>5
  <2> QED
    BY <1>3, <2>1
<1>7. batch \in Seq(Prepareds) /\ (end > start => P[start].kind = "photo")
  BY <1>3
<1>8. EndOfBatch(P, n + 1) = end /\ SubSeq(P, n + 1, end) = batch
  BY DEF start, end, batch
<1>9. Fits(P, n, end, batch)
  BY <1>2, <1>5, <1>6, <1>7 DEF Fits
<1> QED
  BY <1>5, <1>7, <1>8, <1>9

\* What a call with this fate changes.
AfterCall(new, tool, P, n, batch, fate, w) ==
  LET again == Repeatable(fate) /\ tool.attempt < RetryAttempts
  IN /\ new.calls = tool.calls + 1
     /\ new.attempt = IF again THEN tool.attempt + 1 ELSE 1
     /\ new.chat = IF fate \in {"ok", "lost"} THEN tool.chat \o MessagesOf(batch, tool.calls + 1)
                   ELSE tool.chat
     /\ new.items = IF again THEN tool.items ELSE tool.items \o ItemsOf(batch, fate = "ok")
     /\ new.sent = [tool.sent EXCEPT ![P[n + 1].kind] = IF fate = "ok" THEN @ + Len(batch) ELSE @]
     /\ new.groups = IF fate = "ok" /\ Len(batch) > 1 THEN tool.groups + 1 ELSE tool.groups
     /\ new.error = IF again \/ fate = "ok" THEN tool.error ELSE "telegram_api_error"
     /\ new = [calls |-> new.calls, attempt |-> new.attempt, chat |-> new.chat, items |-> new.items,
               sent |-> new.sent, groups |-> new.groups, warnings |-> w, error |-> new.error]

LEMMA SendBatchIs ==
  ASSUME NEW w, NEW tool \in Tools(w), NEW P, NEW fate, NEW n, n = Len(tool.items)
  PROVE  AfterCall(SendBatch(tool, P, fate), tool, P, n, SubSeq(P, n + 1, EndOfBatch(P, n + 1)), fate, w)
<1> DEFINE again == Repeatable(fate) /\ tool.attempt < RetryAttempts
           new == SendBatch(tool, P, fate)
           batch == SubSeq(P, n + 1, EndOfBatch(P, n + 1))
           made == tool.calls + 1
           attempt == IF again THEN tool.attempt + 1 ELSE 1
           chat == IF fate \in {"ok", "lost"} THEN tool.chat \o MessagesOf(batch, tool.calls + 1) ELSE tool.chat
           items == IF again THEN tool.items ELSE tool.items \o ItemsOf(batch, fate = "ok")
           kind == P[n + 1].kind
           more == IF fate = "ok" THEN tool.sent[kind] + Len(batch) ELSE tool.sent[kind]
           groups == IF fate = "ok" /\ Len(batch) > 1 THEN tool.groups + 1 ELSE tool.groups
           error == IF again \/ fate = "ok" THEN tool.error ELSE "telegram_api_error"
<1>1. new = [tool EXCEPT !.calls = made, !.attempt = attempt, !.chat = chat, !.items = items,
                         !.sent[kind] = more, !.groups = groups, !.error = error]
  BY DEF SendBatch
<1> HIDE DEF new, made, attempt, chat, items, more, groups, error
<1>2. tool.warnings = w /\ tool = [calls |-> tool.calls, attempt |-> tool.attempt, chat |-> tool.chat,
        items |-> tool.items, sent |-> tool.sent, groups |-> tool.groups, warnings |-> tool.warnings,
        error |-> tool.error]
  BY DEF Tools
<1>3. new = [calls |-> made, attempt |-> attempt, chat |-> chat, items |-> items,
             sent |-> [tool.sent EXCEPT ![kind] = more], groups |-> groups, warnings |-> w, error |-> error]
  BY <1>1, <1>2
<1>4. /\ new.calls = made /\ new.attempt = attempt /\ new.chat = chat /\ new.items = items
      /\ new.sent = [tool.sent EXCEPT ![kind] = more] /\ new.groups = groups /\ new.error = error
  BY <1>3
<1>5. new = [calls |-> new.calls, attempt |-> new.attempt, chat |-> new.chat, items |-> new.items,
             sent |-> new.sent, groups |-> new.groups, warnings |-> w, error |-> new.error]
  BY <1>3, <1>4
<1>6. /\ new.calls = tool.calls + 1
      /\ new.attempt = IF again THEN tool.attempt + 1 ELSE 1
      /\ new.chat = IF fate \in {"ok", "lost"} THEN tool.chat \o MessagesOf(batch, tool.calls + 1)
                    ELSE tool.chat
      /\ new.items = IF again THEN tool.items ELSE tool.items \o ItemsOf(batch, fate = "ok")
  BY <1>4 DEF made, attempt, chat, items
<1>7. /\ new.sent = [tool.sent EXCEPT ![kind] = IF fate = "ok" THEN @ + Len(batch) ELSE @]
      /\ new.groups = IF fate = "ok" /\ Len(batch) > 1 THEN tool.groups + 1 ELSE tool.groups
      /\ new.error = IF again \/ fate = "ok" THEN tool.error ELSE "telegram_api_error"
  BY <1>4 DEF more, groups, error
<1> QED
  BY <1>5, <1>6, <1>7 DEF AfterCall, new

\* The numbers after n up to end.
LEMMA CountedFrom ==
  ASSUME NEW n \in Nat, NEW end \in Nat, n < end
  PROVE  IsFiniteSet((n + 1)..end) /\ Cardinality((n + 1)..end) = end - n
<1> DEFINE a == n + 1
<1>1. a \in Int /\ end \in Int /\ a <= end /\ end - a + 1 = end - n
  OBVIOUS
<1> HIDE DEF a
<1>2. IsFiniteSet(a..end) /\ Cardinality(a..end) = end - a + 1
  BY <1>1, FS_Interval
<1> QED
  BY <1>1, <1>2 DEF a

\* The number after n is the only one that n + 1 adds.
LEMMA Upto1 ==
  ASSUME NEW n \in Nat
  PROVE  /\ \A c \in 1..(n + 1) : c \in 1..n \/ c = n + 1
         /\ \A c \in 1..n : c \in 1..(n + 1)
         /\ n + 1 \in 1..(n + 1)
OBVIOUS

\* The numbers up to end are those up to n and those after it.
LEMMA Halves ==
  ASSUME NEW n \in Nat, NEW end \in Nat, n < end
  PROVE  /\ \A i \in 1..end : i \in 1..n \/ i \in (n + 1)..end
         /\ \A i \in 1..n : i \in 1..end /\ i \notin (n + 1)..end
         /\ \A i \in (n + 1)..end : i \in 1..end
OBVIOUS

\* Sets with nothing in common.
LEMMA Together ==
  ASSUME NEW S, NEW T, IsFiniteSet(S), IsFiniteSet(T), S \cap T = {}
  PROVE  Cardinality(S \cup T) = Cardinality(S) + Cardinality(T)
<1>1. Cardinality(S \cup T) = Cardinality(S) + Cardinality(T) - Cardinality(S \cap T)
  BY FS_Union
<1>2. Cardinality(S \cap T) = 0
  BY FS_EmptySet
<1>3. Cardinality(S) \in Nat /\ Cardinality(T) \in Nat
  BY FS_CardinalityType
<1> QED
  BY <1>1, <1>2, <1>3

\* A set with one element more.
LEMMA OneMore ==
  ASSUME NEW S, IsFiniteSet(S), NEW x, x \notin S
  PROVE  Cardinality(S \cup {x}) = Cardinality(S) + 1
BY FS_AddElement

\* Files that are told of after others form no group with them,
LEMMA OldGroup ==
  ASSUME NEW tool, NEW new, NEW n, NEW end, NEW c, Told(tool) = 1..n, Told(new) = 1..end,
         \A i \in 1..end : i \in 1..n \/ i \in (n + 1)..end, \A i \in 1..n : i \in 1..end,
         \A i \in 1..n : new.chat[i] = tool.chat[i],
         \A i \in (n + 1)..end : new.chat[i].call # c
  PROVE  Grouped(new, c) <=> Grouped(tool, c)
BY DEF Grouped

\* and one among themselves if there are two of them.
LEMMA NewGroup ==
  ASSUME NEW new, NEW n \in Nat, NEW end \in Nat, n < end, NEW c, Told(new) = 1..end,
         \A i \in 1..n : new.chat[i].call # c,
         \A i \in (n + 1)..end : new.chat[i].call = c
  PROVE  Grouped(new, c) <=> end > n + 1
<1>1. \A i \in 1..end : i \in 1..n \/ i \in (n + 1)..end
  OBVIOUS
<1>2. CASE end > n + 1
  <2>1. n + 1 \in (n + 1)..end /\ end \in (n + 1)..end /\ n + 1 # end /\ n + 1 \in 1..end /\ end \in 1..end
    BY <1>2
  <2> QED
    BY <1>2, <2>1 DEF Grouped
<1>3. CASE ~(end > n + 1)
  <2>1. \A i, j \in (n + 1)..end : i = j
    BY <1>3
  <2> QED
    BY <1>1, <1>3, <2>1 DEF Grouped
<1> QED
  BY <1>2, <1>3

\* The counts grow by the files of a call.
Counts(new, tool, P, n, end) ==
  /\ P[n + 1].kind \in Kinds /\ \A i \in (n + 1)..end : P[i].kind = P[n + 1].kind
  /\ new.sent = [tool.sent EXCEPT ![P[n + 1].kind] = @ + (end - n)]
  /\ (end > n + 1) => new.groups = tool.groups + 1
  /\ ~(end > n + 1) => new.groups = tool.groups

\* A call that is answered tells of its files; of more than one they are a group.
LEMMA CallSucceeds ==
  ASSUME NEW P \in Seq(Prepareds), NEW network, NEW w, NEW tool,
         Progress(tool, P, network, w), Sending(tool, P),
         NEW n, n = Len(tool.items), NEW end \in (n + 1)..Len(P),
         NEW chatX, NEW itemsX,
         Continued(tool.chat, tool.items, tool.calls, P, n, end, chatX, itemsX, TRUE),
         NEW new, new \in Tools(w), new.calls = tool.calls + 1, new.attempt = 1,
         new.chat = chatX, new.items = itemsX, new.error = "none",
         Counts(new, tool, P, n, end)
  PROVE  Progress(new, P, network, w)
<1>1. /\ n \in Nat /\ n < Len(P) /\ Len(tool.chat) = n /\ Told(tool) = 1..n
      /\ tool.calls \in Nat /\ tool.sent \in [Kinds -> Nat] /\ tool.attempt \in 1..RetryAttempts
      /\ \A i \in 1..n : tool.chat[i].call \in 1..tool.calls
      /\ \A i \in 1..n : tool.items[i].sent
      /\ \A kind \in Kinds : tool.sent[kind] = Cardinality({i \in 1..n : tool.items[i].kind = kind})
      /\ tool.groups = Cardinality({c \in 1..tool.calls : Grouped(tool, c)})
      /\ tool.calls <= n * RetryAttempts + (tool.attempt - 1)
  <2>1. Working(tool, P, n)
    BY AtWork
  <2> QED
    BY <2>1 DEF Working
<1>2. RetryAttempts \in Nat \ {0} /\ Len(P) \in Nat /\ end \in Nat /\ n < end /\ end <= Len(P)
  BY <1>1, SendFilesAssumption
<1>0. /\ chatX \in Seq(Messages) /\ Len(chatX) = end /\ TogetherOnlyPhotos(chatX)
      /\ \A i \in 1..n : chatX[i] = tool.chat[i]
      /\ \A i \in (n + 1)..end : chatX[i].call = tool.calls + 1
      /\ \A i \in 1..end : /\ chatX[i].n = P[i].n /\ chatX[i].kind = P[i].kind
                           /\ chatX[i].caption = P[i].caption /\ chatX[i].call \in 1..(tool.calls + 1)
      /\ itemsX \in Seq(Items) /\ Len(itemsX) = end
      /\ \A i \in 1..n : itemsX[i] = tool.items[i]
      /\ \A i \in (n + 1)..end : itemsX[i].sent = TRUE
      /\ \A i \in 1..end : itemsX[i].n = P[i].n /\ itemsX[i].kind = P[i].kind
      /\ P[n + 1].kind \in Kinds /\ \A i \in (n + 1)..end : P[i].kind = P[n + 1].kind
      /\ new.sent = [tool.sent EXCEPT ![P[n + 1].kind] = @ + (end - n)]
      /\ (end > n + 1) => new.groups = tool.groups + 1
      /\ ~(end > n + 1) => new.groups = tool.groups
  BY DEF Continued, Counts
<1> USE <1>0
<1>3. \A i \in 1..end : i \in 1..n \/ i \in (n + 1)..end
  BY <1>1, <1>2, Halves
<1>4. /\ \A i \in 1..n : i \in 1..end /\ i \notin (n + 1)..end
      /\ \A i \in (n + 1)..end : i \in 1..end
  BY <1>1, <1>2, Halves
<1>5. Told(new) = 1..end
  <2>1. \A i \in 1..end : itemsX[i].sent
    BY <1>1, <1>3
  <2> QED
    BY <2>1 DEF Told
<1>6. AllTold(new, network, end)
  BY <1>2, <1>5 DEF AllTold
<1>7. ASSUME NEW kind \in Kinds
      PROVE  new.sent[kind] = Cardinality({i \in Told(new) : new.items[i].kind = kind})
  <2> DEFINE old == {i \in 1..n : tool.items[i].kind = kind}
             now == {i \in 1..end : itemsX[i].kind = kind}
             added == (n + 1)..end
  <2>1. tool.sent[kind] = Cardinality(old)
    BY <1>1
  <2>2. {i \in Told(new) : new.items[i].kind = kind} = now
    BY <1>5
  <2>3. CASE kind # P[n + 1].kind
    <3>1. \A i \in added : itemsX[i].kind # kind
      BY <1>4, <2>3
    <3>2. now = old
      BY <1>3, <1>4, <3>1
    <3>3. new.sent[kind] = tool.sent[kind]
      BY <1>1, <2>3
    <3> QED
      BY <2>1, <2>2, <3>2, <3>3
  <2>4. CASE kind = P[n + 1].kind
    <3>1. \A i \in added : itemsX[i].kind = kind
      BY <1>4, <2>4
    <3>2. now = old \cup added
      BY <1>3, <1>4, <3>1
    <3>3. IsFiniteSet(old) /\ IsFiniteSet(added) /\ old \cap added = {}
      <4>1. old \in SUBSET (1..n) /\ IsFiniteSet(1..n)
        BY <1>1, Counted
      <4>2. IsFiniteSet(added)
        BY <1>1, <1>2, CountedFrom
      <4>3. old \cap added = {}
        BY <1>4
      <4> QED
        BY <4>1, <4>2, <4>3, FS_Subset
    <3>4. Cardinality(added) = end - n
      BY <1>1, <1>2, CountedFrom
    <3> HIDE DEF now, old, added
    <3>5. Cardinality(now) = Cardinality(old) + (end - n)
      <4>1. Cardinality(old \cup added) = Cardinality(old) + Cardinality(added)
        BY <3>3, Together
      <4> QED
        BY <3>2, <3>4, <4>1
    <3>6. new.sent[kind] = tool.sent[kind] + (end - n)
      BY <1>1, <2>4
    <3> QED
      BY <2>1, <2>2, <3>5, <3>6
  <2> QED
    BY <2>3, <2>4
<1>8. new.groups = Cardinality({c \in 1..new.calls : Grouped(new, c)})
  <2> DEFINE old == {c \in 1..tool.calls : Grouped(tool, c)}
             now == {c \in 1..(tool.calls + 1) : Grouped(new, c)}
  <2>1. tool.groups = Cardinality(old)
    BY <1>1
  <2>2. \A i \in (n + 1)..end : new.chat[i].call = tool.calls + 1
    OBVIOUS
  <2>3. \A i \in 1..n : new.chat[i] = tool.chat[i] /\ new.chat[i].call \in 1..tool.calls
    BY <1>1
  <2>4. tool.calls + 1 \notin 1..tool.calls
    BY <1>1
  <2>5. ASSUME NEW c \in 1..tool.calls
        PROVE  Grouped(new, c) <=> Grouped(tool, c)
    <3>1. \A i \in (n + 1)..end : new.chat[i].call # c
      BY <2>2, <2>4
    <3>2. Told(tool) = 1..n /\ \A i \in 1..n : i \in 1..end
      BY <1>1, <1>4
    <3>3. \A i \in 1..n : new.chat[i] = tool.chat[i]
      BY <2>3
    <3> QED
      BY <1>3, <1>5, <3>1, <3>2, <3>3, OldGroup, Zenon
  <2>6. Grouped(new, tool.calls + 1) <=> end > n + 1
    <3>1. \A i \in 1..n : new.chat[i].call # tool.calls + 1
      BY <2>3, <2>4
    <3>2. n \in Nat /\ end \in Nat /\ n < end
      BY <1>1, <1>2
    <3> DEFINE c == tool.calls + 1
    <3>3. \A i \in (n + 1)..end : new.chat[i].call = c
      BY <2>2
    <3>4. \A i \in 1..n : new.chat[i].call # c
      BY <3>1
    <3> HIDE DEF c
    <3>5. Grouped(new, c) <=> end > n + 1
      BY <1>5, <3>2, <3>3, <3>4, NewGroup
    <3> QED
      BY <3>5 DEF c
  <2>7. IsFiniteSet(old) /\ tool.calls + 1 \notin old
    <3>1. old \in SUBSET (1..tool.calls) /\ IsFiniteSet(1..tool.calls)
      BY <1>1, Counted
    <3> QED
      BY <2>4, <3>1, FS_Subset
  <2>8. /\ \A c \in 1..(tool.calls + 1) : c \in 1..tool.calls \/ c = tool.calls + 1
        /\ \A c \in 1..tool.calls : c \in 1..(tool.calls + 1)
        /\ tool.calls + 1 \in 1..(tool.calls + 1)
    <3>1. tool.calls \in Nat
      BY <1>1
    <3> QED
      BY <3>1, Upto1, Zenon
  <2>9. CASE end > n + 1
    <3>1. now = old \cup {tool.calls + 1}
      BY <2>5, <2>6, <2>8, <2>9
    <3> HIDE DEF now, old
    <3>2. Cardinality(now) = Cardinality(old) + 1
      <4>1. IsFiniteSet(old) /\ tool.calls + 1 \notin old
        BY <2>7
      <4>2. Cardinality(old \cup {tool.calls + 1}) = Cardinality(old) + 1
        <5>1. \A x : x \notin old => Cardinality(old \cup {x}) = Cardinality(old) + 1
          BY <4>1, OneMore
        <5> QED
          BY <4>1, <5>1, Zenon
      <4> QED
        BY <3>1, <4>2
    <3> QED
      BY <2>1, <2>9, <3>2 DEF now
  <2>10. CASE ~(end > n + 1)
    <3>1. now = old
      BY <2>5, <2>6, <2>8, <2>10
    <3> QED
      BY <2>1, <2>10, <3>1
  <2> QED
    BY <2>9, <2>10
<1>9. end \in 0..Len(new.items) /\ Len(new.items) <= Len(P) /\ Len(new.chat) <= Len(new.items)
  BY <1>2
<1>10. new.attempt \in 1..RetryAttempts
  BY <1>2
<1>11. new.calls <= Len(new.items) * RetryAttempts + (new.attempt - 1)
  <2>1. tool.calls + 1 <= end * RetryAttempts + (1 - 1)
    BY <1>1, <1>2, CallBound
  <2>2. Len(new.items) = end
    OBVIOUS
  <2> QED
    BY <2>1, <2>2, Zenon
<1> QED
  BY <1>6, <1>7, <1>8, <1>9, <1>10, <1>11 DEF Progress

\* Every call keeps it.
LEMMA SendStep ==
  ASSUME NEW P \in Seq(Prepareds), \A i, j \in 1..Len(P) : i < j => Before(P[i], P[j]),
         NEW network, NEW w, NEW tool, Progress(tool, P, network, w), Sending(tool, P)
  PROVE  LET new == SendBatch(tool, P, network[tool.calls + 1])
         IN Progress(new, P, network, w) /\ new.calls = tool.calls + 1
<1>1. PICK n : n = Len(tool.items)
  OBVIOUS
<1>2. Working(tool, P, n) /\ tool \in Tools(w)
  BY <1>1, AtWork DEF Progress
<1>3. n \in Nat /\ n < Len(P)
  BY <1>2 DEF Working
<1>4. PICK end \in Nat, batch \in Seq(Prepareds) :
        EndOfBatch(P, n + 1) = end /\ SubSeq(P, n + 1, end) = batch /\ Fits(P, n, end, batch)
  BY <1>3, NextBatch
<1> DEFINE fate == network[tool.calls + 1]
           again == Repeatable(fate) /\ tool.attempt < RetryAttempts
           chatX == tool.chat \o MessagesOf(batch, tool.calls + 1)
           itemsX == tool.items \o ItemsOf(batch, fate = "ok")
           new == SendBatch(tool, P, fate)
<1>c. AfterCall(new, tool, P, n, batch, fate, w)
  <2>1. AfterCall(new, tool, P, n, SubSeq(P, n + 1, EndOfBatch(P, n + 1)), fate, w)
    BY <1>1, <1>2, SendBatchIs
  <2> HIDE DEF new
  <2> QED
    BY <1>4, <2>1
<1> HIDE DEF new
<1>5. /\ new.calls = tool.calls + 1
      /\ new.attempt = IF again THEN tool.attempt + 1 ELSE 1
      /\ new.chat = IF fate \in {"ok", "lost"} THEN chatX ELSE tool.chat
      /\ new.items = IF again THEN tool.items ELSE itemsX
      /\ new.sent = [tool.sent EXCEPT ![P[n + 1].kind] = IF fate = "ok" THEN @ + Len(batch) ELSE @]
      /\ new.groups = IF fate = "ok" /\ Len(batch) > 1 THEN tool.groups + 1 ELSE tool.groups
      /\ new.error = IF again \/ fate = "ok" THEN tool.error ELSE "telegram_api_error"
      /\ new = [calls |-> new.calls, attempt |-> new.attempt, chat |-> new.chat, items |-> new.items,
                sent |-> new.sent, groups |-> new.groups, warnings |-> w, error |-> new.error]
  BY <1>c DEF AfterCall
<1>d. /\ n < end /\ end <= Len(P) /\ Len(batch) = end - n
      /\ \A i \in (n + 1)..end : P[i].kind = P[n + 1].kind
  BY <1>4 DEF Fits
<1>6. P[n + 1].kind \in Kinds
  <2>1. P[n + 1] \in Prepareds
    BY <1>3
  <2> QED
    BY <2>1 DEF Prepareds
<1>7. tool.sent \in [Kinds -> Nat] /\ tool.groups \in Nat /\ tool.calls \in Nat /\ tool.attempt \in 1..RetryAttempts
      /\ tool.chat \in Seq(Messages) /\ tool.items \in Seq(Items) /\ tool.error = "none"
  BY <1>2 DEF Working
<1>8. Continued(tool.chat, tool.items, tool.calls, P, n, end, chatX, itemsX, fate = "ok")
  <2>1. (fate = "ok") \in BOOLEAN
    OBVIOUS
  <2> QED
    BY <1>2, <1>4, <2>1, Extended
<1>9. chatX \in Seq(Messages) /\ itemsX \in Seq(Items) /\ end \in (n + 1)..Len(P)
  <2>1. Len(P) \in Nat
    OBVIOUS
  <2> QED
    BY <1>3, <1>d, <1>8, <2>1 DEF Continued
<1> HIDE DEF chatX, itemsX
<1>10. new \in Tools(w)
  <2>1. new.calls \in Nat /\ new.attempt \in Nat /\ new.error \in {"none", "telegram_api_error"}
    BY <1>5, <1>7
  <2>2. new.chat \in Seq(Messages) /\ new.items \in Seq(Items)
    BY <1>5, <1>7, <1>9
  <2>3. Len(batch) \in Nat
    BY <1>3, <1>d
  <2>4. new.sent \in [Kinds -> Nat] /\ new.groups \in Nat
    <3>1. CASE fate = "ok"
      <4>1. new.sent = [tool.sent EXCEPT ![P[n + 1].kind] = @ + Len(batch)]
        BY <1>5, <3>1
      <4>2. tool.sent[P[n + 1].kind] + Len(batch) \in Nat
        BY <1>6, <1>7, <2>3
      <4>3. new.sent \in [Kinds -> Nat]
        BY <1>7, <4>1, <4>2
      <4>4. new.groups \in Nat
        BY <1>5, <1>7
      <4> QED
        BY <4>3, <4>4
    <3>2. CASE fate # "ok"
      <4>1. new.sent = [tool.sent EXCEPT ![P[n + 1].kind] = @]
        BY <1>5, <3>2
      <4> QED
        BY <1>5, <1>6, <1>7, <4>1
    <3> QED
      BY <3>1, <3>2
  <2> DEFINE made == new.calls
             attempt == new.attempt
             chat == new.chat
             items == new.items
             sent == new.sent
             groups == new.groups
             error == new.error
  <2>5. new = [calls |-> made, attempt |-> attempt, chat |-> chat, items |-> items,
               sent |-> sent, groups |-> groups, warnings |-> w, error |-> error]
    BY <1>5
  <2>6. /\ made \in Nat /\ attempt \in Nat /\ error \in {"none", "telegram_api_error"}
        /\ chat \in Seq(Messages) /\ items \in Seq(Items) /\ sent \in [Kinds -> Nat] /\ groups \in Nat
    BY <2>1, <2>2, <2>4
  <2> HIDE DEF made, attempt, chat, items, sent, groups, error
  <2> QED
    BY <2>5, <2>6 DEF Tools
<1>11. again => fate # "ok" /\ fate # "lost" /\ tool.attempt < RetryAttempts
  BY DEF Repeatable
<1>12. fate # "ok" => new.sent = tool.sent
  <2> SUFFICES ASSUME fate # "ok" PROVE new.sent = tool.sent
    OBVIOUS
  <2>1. new.sent = [tool.sent EXCEPT ![P[n + 1].kind] = @]
    BY <1>5
  <2> QED
    BY <1>7, <2>1
<1>13. CASE again
  <2>1. /\ new.calls = tool.calls + 1 /\ new.attempt = tool.attempt + 1
        /\ new.chat = tool.chat /\ new.items = tool.items /\ new.sent = tool.sent
        /\ new.groups = tool.groups /\ new.error = "none"
    BY <1>5, <1>7, <1>11, <1>12, <1>13
  <2>2. tool.attempt < RetryAttempts
    BY <1>13
  <2> QED
    BY <1>10, <2>1, <2>2, CallAgain DEF new
<1>14. CASE ~again /\ fate = "ok"
  <2>1. /\ new.calls = tool.calls + 1 /\ new.attempt = 1
        /\ new.chat = chatX /\ new.items = itemsX /\ new.error = "none"
        /\ new.sent = [tool.sent EXCEPT ![P[n + 1].kind] = @ + (end - n)]
    BY <1>d, <1>5, <1>7, <1>14
  <2>2. /\ (end > n + 1) => new.groups = tool.groups + 1
        /\ ~(end > n + 1) => new.groups = tool.groups
    BY <1>3, <1>d, <1>5, <1>14
  <2>3. \A i \in (n + 1)..end : P[i].kind = P[n + 1].kind
    BY <1>d
  <2>4. Continued(tool.chat, tool.items, tool.calls, P, n, end, chatX, itemsX, TRUE)
    <3>1. (fate = "ok") = TRUE
      BY <1>14
    <3> HIDE DEF fate
    <3> QED
      BY <1>8, <3>1
  <2>5. Counts(new, tool, P, n, end)
    BY <1>6, <2>1, <2>2, <2>3 DEF Counts
  <2>6. Progress(new, P, network, w)
    BY <1>1, <1>9, <1>10, <2>1, <2>4, <2>5, CallSucceeds
  <2> QED
    BY <2>1, <2>6 DEF new
<1>15. CASE ~again /\ fate # "ok"
  <2>1. /\ new.calls = tool.calls + 1 /\ new.attempt = 1 /\ new.items = itemsX
        /\ new.chat \in {chatX, tool.chat} /\ (network[tool.calls + 1] # "lost" => new.chat = tool.chat)
        /\ new.sent = tool.sent /\ new.groups = tool.groups /\ new.error = "telegram_api_error"
    BY <1>5, <1>12, <1>15
  <2>2. Continued(tool.chat, tool.items, tool.calls, P, n, end, chatX, itemsX, FALSE)
    <3>1. (fate = "ok") = FALSE
      BY <1>15
    <3> HIDE DEF fate
    <3> QED
      BY <1>8, <3>1
  <2>3. Progress(new, P, network, w)
    BY <1>1, <1>9, <1>10, <2>1, <2>2, CallFails
  <2> QED
    BY <2>1, <2>3 DEF new
<1> QED
  BY <1>13, <1>14, <1>15

\* The calls of a tool one after the other, as a function of their number: there is one.
AreCalls(f, last, P, w, network) ==
  f = [c \in 0..last |-> IF c = 0 THEN NewResult("none", w) ELSE GoOn(f[c - 1], P, network[c])]

LEMMA AfterExists ==
  ASSUME NEW last \in Nat, NEW P, NEW w, NEW network
  PROVE  \E f : AreCalls(f, last, P, w, network)
<1> DEFINE Is(h, k) == AreCalls(h, k, P, w, network)
           S == {k \in 0..last : \E h : Is(h, k)}
<1>1. 0 \in S
  <2> DEFINE h == [c \in 0..0 |-> NewResult("none", w)]
  <2>1. Is(h, 0)
    BY DEF AreCalls
  <2> HIDE DEF Is
  <2> QED
    BY <2>1
<1>2. ASSUME NEW k \in 0..(last - 1), k \in S
      PROVE  k + 1 \in S
  <2>1. PICK h : Is(h, k)
    BY <1>2
  <2> DEFINE g == [c \in 0..(k + 1) |-> IF c = k + 1 THEN GoOn(h[k], P, network[k + 1]) ELSE h[c]]
  <2>2. ASSUME NEW c \in 0..(k + 1)
        PROVE  g[c] = IF c = 0 THEN NewResult("none", w) ELSE GoOn(g[c - 1], P, network[c])
    <3>1. CASE c = k + 1
      <4>1. k \in 0..(k + 1) /\ c # 0 /\ c - 1 = k /\ k # k + 1
        BY <3>1
      <4>2. g[k] = h[k] /\ g[c] = GoOn(h[k], P, network[k + 1])
        BY <3>1, <4>1
      <4> HIDE DEF g
      <4> QED
        BY <3>1, <4>1, <4>2
    <3>2. CASE c # k + 1 /\ c # 0
      <4>1. c \in 0..k /\ c - 1 \in 0..(k + 1) /\ c - 1 # k + 1
        BY <3>2
      <4>2. g[c] = h[c] /\ g[c - 1] = h[c - 1]
        BY <3>2, <4>1
      <4>3. h[c] = GoOn(h[c - 1], P, network[c])
        BY <2>1, <3>2, <4>1 DEF AreCalls
      <4> HIDE DEF g
      <4> QED
        BY <3>2, <4>2, <4>3
    <3>3. CASE c # k + 1 /\ c = 0
      <4>1. c \in 0..k
        BY <3>3
      <4>2. g[c] = h[c]
        BY <3>3
      <4>3. h[c] = NewResult("none", w)
        BY <2>1, <3>3, <4>1 DEF AreCalls
      <4> HIDE DEF g
      <4> QED
        BY <3>3, <4>2, <4>3
    <3> QED
      BY <3>1, <3>2, <3>3
  <2>3. DOMAIN g = 0..(k + 1) /\ g = [c \in 0..(k + 1) |-> g[c]]
    OBVIOUS
  <2> HIDE DEF g
  <2>4. Is(g, k + 1)
    BY <2>2, <2>3 DEF AreCalls
  <2> HIDE DEF Is
  <2> QED
    BY <2>4
<1> HIDE DEF S
<1>3. 0..last \subseteq S
  BY <1>1, <1>2, Reaches
<1>4. last \in S
  BY <1>3
<1> QED
  BY <1>4 DEF S

\* So many calls are enough: when they are made nothing is left to be sent.
LEMMA SendAllIs ==
  ASSUME NEW P \in Seq(Prepareds), \A i, j \in 1..Len(P) : i < j => Before(P[i], P[j]),
         NEW network, NEW w
  PROVE  Progress(SendAll(P, w, network), P, network, w) /\ ~Sending(SendAll(P, w, network), P)
<1> DEFINE last == Len(P) * RetryAttempts
           after == CHOOSE f : f = [c \in 0..last |-> IF c = 0 THEN NewResult("none", w)
                                                      ELSE GoOn(f[c - 1], P, network[c])]
           S == {c \in 0..last : /\ Progress(after[c], P, network, w)
                                 /\ Sending(after[c], P) => after[c].calls = c}
<1>1. Len(P) \in Nat /\ RetryAttempts \in Nat \ {0} /\ last \in Nat
  BY SendFilesAssumption
<1>2. SendAll(P, w, network) = after[last]
  BY DEF SendAll
<1> HIDE DEF last
<1>3. after = [c \in 0..last |-> IF c = 0 THEN NewResult("none", w) ELSE GoOn(after[c - 1], P, network[c])]
  <2>1. \E f : AreCalls(f, last, P, w, network)
    BY <1>1, AfterExists
  <2>2. AreCalls(CHOOSE f : AreCalls(f, last, P, w, network), last, P, w, network)
    BY <2>1
  <2> QED
    BY <2>2 DEF AreCalls
<1> HIDE DEF after
<1>4. after[0] = NewResult("none", w)
  BY <1>1, <1>3
<1>5. \A c \in 0..(last - 1) : after[c + 1] = GoOn(after[c], P, network[c + 1])
  <2> TAKE c \in 0..(last - 1)
  <2>1. c + 1 \in 0..last /\ c + 1 # 0 /\ (c + 1) - 1 = c
    BY <1>1
  <2> QED
    BY <1>3, <2>1
<1>6. 0 \in S
  <2>1. Progress(after[0], P, network, w)
    BY <1>4, ProgressInit
  <2>2. after[0].calls = 0
    BY <1>4 DEF NewResult
  <2> QED
    BY <1>1, <2>1, <2>2
<1>7. ASSUME NEW c \in 0..(last - 1), c \in S
      PROVE  c + 1 \in S
  <2>1. Progress(after[c], P, network, w) /\ (Sending(after[c], P) => after[c].calls = c)
    BY <1>7
  <2>2. c + 1 \in 0..last
    BY <1>1
  <2>3. CASE Sending(after[c], P)
    <3>1. after[c + 1] = SendBatch(after[c], P, network[after[c].calls + 1])
      BY <1>5, <2>1, <2>3 DEF GoOn
    <3>2. Progress(after[c + 1], P, network, w) /\ after[c + 1].calls = after[c].calls + 1
      BY <2>1, <2>3, <3>1, SendStep
    <3> QED
      BY <2>1, <2>2, <2>3, <3>2
  <2>4. CASE ~Sending(after[c], P)
    <3>1. after[c + 1] = after[c]
      BY <1>5, <2>4 DEF GoOn
    <3> QED
      BY <2>1, <2>2, <2>4, <3>1
  <2> QED
    BY <2>3, <2>4
<1>8. last \in S
  <2> HIDE DEF S
  <2>1. 0..last \subseteq S
    BY <1>1, <1>6, <1>7, Reaches
  <2> QED
    BY <1>1, <2>1
<1>9. Progress(after[last], P, network, w) /\ (Sending(after[last], P) => after[last].calls = last)
  BY <1>8
<1>10. ~Sending(after[last], P)
  <2> SUFFICES ASSUME Sending(after[last], P) PROVE FALSE
    OBVIOUS
  <2> DEFINE tool == after[last]
             n == Len(tool.items)
  <2>1. Working(tool, P, n)
    BY <1>9, AtWork
  <2> HIDE DEF tool, n
  <2>2. n \in Nat /\ n < Len(P) /\ tool.attempt \in 1..RetryAttempts
        /\ tool.calls <= n * RetryAttempts + (tool.attempt - 1) /\ tool.calls \in Nat
    BY <2>1 DEF Working
  <2>3. tool.calls = Len(P) * RetryAttempts
    BY <1>9 DEF tool, last
  <2>4. tool.calls + 1 <= Len(P) * RetryAttempts + (1 - 1)
    BY <1>1, <2>2, CallBound
  <2> QED
    BY <1>1, <2>2, <2>3, <2>4
<1> QED
  BY <1>2, <1>9, <1>10

\* A call that is refused before anything is sent.
NotSent(tool) == \E error, w : error \notin {"none", "telegram_api_error"} /\ tool = NewResult(error, w)

\* It tells of nothing, and nothing is in the chat.
LEMMA NotSentIsTrue ==
  ASSUME NEW request, NEW network, NotSent(Execute(request, network))
  PROVE  Truthful(request, network) /\ Presentable(request, network)
<1> DEFINE tool == Execute(request, network)
<1>1. PICK error, w : error \notin {"none", "telegram_api_error"} /\ tool = NewResult(error, w)
  BY DEF NotSent
<1> HIDE DEF tool
<1>2. /\ tool.calls = 0 /\ tool.chat = <<>> /\ tool.items = <<>> /\ tool.groups = 0
      /\ tool.error \notin {"none", "telegram_api_error"}
      /\ \A kind \in Kinds : tool.sent[kind] = 0
  BY <1>1 DEF NewResult
<1>3. DOMAIN tool.chat = {} /\ DOMAIN tool.items = {} /\ 1..tool.calls = {} /\ Cardinality({}) = 0
  BY <1>2, FS_EmptySet
<1>4. Truthful(request, network)
  <2> DEFINE told == {i \in DOMAIN tool.items : tool.items[i].sent}
             grouped(c) == \E i, j \in told : i # j /\ tool.chat[i].call = c /\ tool.chat[j].call = c
  <2>1. told = {}
    BY <1>3
  <2>2. {c \in 1..tool.calls : grouped(c)} = {}
    BY <1>3
  <2>3. \A kind \in Kinds : {i \in told : tool.items[i].kind = kind} = {}
    BY <2>1
  <2> HIDE DEF told, grouped
  <2>4. /\ \A i \in told : 1..i \subseteq told
        /\ told \subseteq DOMAIN tool.chat /\ DOMAIN tool.chat \subseteq DOMAIN tool.items
        /\ \A kind \in Kinds : tool.sent[kind] = Cardinality({i \in told : tool.items[i].kind = kind})
        /\ tool.groups = Cardinality({c \in 1..tool.calls : grouped(c)})
    BY <1>2, <1>3, <2>1, <2>2, <2>3
  <2> QED
    BY <1>2, <1>3, <2>4 DEF Truthful, tool, told, grouped
<1>5. Presentable(request, network)
  BY <1>3 DEF Presentable, tool
<1> QED
  BY <1>4, <1>5

\* A call that sends.
LEMMA SentIsTrue ==
  ASSUME NEW request \in Requests, NEW network,
         Execute(request, network) = SendAll(InOrder(request), Warnings(request.given), network)
  PROVE  Truthful(request, network) /\ Presentable(request, network)
<1> DEFINE P == InOrder(request)
           w == Warnings(request.given)
           given == request.given
           mode == request.captionMode
           tool == Execute(request, network)
           told == Told(tool)
<1>1. /\ P \in Seq(Prepareds) /\ Len(P) = Len(given) /\ Len(given) \in Nat
      /\ {P[k].n : k \in 1..Len(P)} = 1..Len(given)
      /\ \A i, j \in 1..Len(P) : i < j => Before(P[i], P[j])
      /\ \A k \in 1..Len(P) :
           /\ P[k].n \in 1..Len(given)
           /\ P[k].kind = Prepared(P[k].n, given).kind
           /\ P[k].caption =
                IF mode # "first_only" \/ \A j \in 1..(k - 1) : ~(given[P[j].n].caption > 0)
                THEN Prepared(P[k].n, given).caption ELSE 0
  BY InOrderIs
<1>2. DOMAIN given = 1..Len(given)
  BY SendFilesAssumption
<1> HIDE DEF P, w
<1>3. Progress(tool, P, network, w) /\ ~Sending(tool, P)
  <2>1. tool = SendAll(P, w, network)
    BY DEF P, w
  <2> QED
    BY <1>1, <2>1, SendAllIs
<1> HIDE DEF tool
<1>4. /\ tool.chat \in Seq(Messages) /\ tool.items \in Seq(Items) /\ tool.calls \in Nat
      /\ tool.error \in {"none", "telegram_api_error"} /\ tool.warnings = w
      /\ Len(tool.items) <= Len(P) /\ Len(tool.chat) <= Len(tool.items)
      /\ TogetherOnlyPhotos(tool.chat)
  BY <1>3 DEF Progress, Tools
<1>5. PICK t \in 0..Len(tool.items) : AllTold(tool, network, t)
  BY <1>3 DEF Progress
<1>6. /\ told = 1..t /\ t <= Len(tool.chat) /\ (tool.error = "none" => t = Len(tool.items))
      /\ \A i \in 1..Len(tool.chat) :
           i > t => tool.calls > 0 /\ tool.chat[i].call = tool.calls /\ network[tool.calls] = "lost"
  BY <1>5 DEF AllTold
<1>7. /\ DOMAIN tool.items = 1..Len(tool.items) /\ Len(tool.items) \in Nat
      /\ DOMAIN tool.chat = 1..Len(tool.chat) /\ Len(tool.chat) \in Nat /\ t \in Nat
  BY <1>4, <1>5
<1>8. \A i \in 1..Len(tool.items) : i \in 1..Len(P) /\ tool.items[i].n = P[i].n /\ tool.items[i].kind = P[i].kind
  <2>1. \A i \in 1..Len(tool.items) : i \in 1..Len(P)
    BY <1>1, <1>4, <1>7
  <2> QED
    BY <1>3, <2>1 DEF Progress
<1>9. \A i \in 1..Len(tool.chat) : /\ i \in 1..Len(tool.items) /\ i \in 1..Len(P)
                                   /\ tool.chat[i].n = P[i].n /\ tool.chat[i].kind = P[i].kind
                                   /\ tool.chat[i].caption = P[i].caption
  <2>1. \A i \in 1..Len(tool.chat) : i \in 1..Len(tool.items)
    BY <1>4, <1>7
  <2> QED
    BY <1>3, <1>8, <2>1 DEF Progress
<1>10. Truthful(request, network)
  <2>1. \A i \in told : 1..i \subseteq told
    BY <1>6, <1>7
  <2>2. told \subseteq DOMAIN tool.chat /\ DOMAIN tool.chat \subseteq DOMAIN tool.items
    BY <1>4, <1>6, <1>7
  <2>3. \A i \in DOMAIN tool.chat :
          /\ tool.chat[i].n = tool.items[i].n
          /\ i \in told \/ (tool.calls > 0 /\ network[tool.calls] = "lost" /\ tool.chat[i].call = tool.calls)
    <3> TAKE i \in DOMAIN tool.chat
    <3>1. i \in 1..Len(tool.chat) /\ i \in Nat
      BY <1>7
    <3>2. i \in 1..t \/ i > t
      BY <1>7, <3>1
    <3> QED
      BY <1>6, <1>8, <1>9, <3>1, <3>2
  <2>4. \A i, j \in DOMAIN tool.items : i < j => Before(tool.items[i], tool.items[j])
    <3> TAKE i, j \in DOMAIN tool.items
    <3>1. Before(P[i], P[j]) <=> Before(tool.items[i], tool.items[j])
      BY <1>7, <1>8 DEF Before
    <3> QED
      BY <1>1, <1>7, <1>8, <3>1
  <2>5. \A kind \in Kinds : tool.sent[kind] = Cardinality({i \in told : tool.items[i].kind = kind})
    BY <1>3 DEF Progress
  <2>6. tool.groups = Cardinality({c \in 1..tool.calls : Grouped(tool, c)})
    BY <1>3 DEF Progress
  <2>7. tool.error = "none" => {tool.chat[i].n : i \in told} = DOMAIN given
    <3> SUFFICES ASSUME tool.error = "none" PROVE {tool.chat[i].n : i \in told} = DOMAIN given
      OBVIOUS
    <3>1. Len(tool.items) = Len(P)
      BY <1>1, <1>3, <1>4, <1>7 DEF Sending
    <3>2. told = 1..Len(P) /\ \A i \in 1..Len(P) : i \in 1..Len(tool.chat)
      BY <1>1, <1>4, <1>6, <1>7, <3>1
    <3>3. {tool.chat[i].n : i \in 1..Len(P)} = {P[i].n : i \in 1..Len(P)}
      BY <1>9, <3>2
    <3> QED
      BY <1>1, <1>2, <3>2, <3>3
  <2>8. told = {i \in DOMAIN tool.items : tool.items[i].sent}
    BY <1>7 DEF Told
  <2> HIDE DEF told
  <2>9. \A c : Grouped(tool, c) <=> \E i, j \in told : i # j /\ tool.chat[i].call = c /\ tool.chat[j].call = c
    BY DEF Grouped, told
  <2>10. {c \in 1..tool.calls : Grouped(tool, c)} =
         {c \in 1..tool.calls : \E i, j \in told : i # j /\ tool.chat[i].call = c /\ tool.chat[j].call = c}
    BY <2>9
  <2> HIDE DEF given
  <2>11. DOMAIN request.given = DOMAIN given
    BY DEF given
  <2> QED
    BY <1>4, <2>1, <2>2, <2>3, <2>4, <2>5, <2>6, <2>7, <2>8, <2>10, <2>11 DEF Truthful, tool
<1>11. ASSUME NEW i \in 1..Len(tool.chat)
       PROVE  LET p == Prepared(P[i].n, given)
                  f == given[P[i].n]
              IN /\ tool.chat[i].n = P[i].n /\ P[i].n \in 1..Len(given) /\ tool.chat[i].kind = p.kind
                 /\ tool.chat[i].caption =
                      IF mode # "first_only" \/ \A j \in 1..(i - 1) : ~(given[P[j].n].caption > 0)
                      THEN p.caption ELSE 0
                 /\ p.caption \in 0..MaxCaption /\ f.caption \in Nat /\ (p.caption > 0 <=> f.caption > 0)
                 /\ p.caption = f.caption \/ f.caption > MaxCaption
                 /\ f.kind \in {"auto", p.kind} \/ f.kind \notin {"auto", "document", p.kind}
                 /\ p.kind = ResolveSendKind(f.kind, f)
  <2>1. i \in 1..Len(P) /\ P[i].n \in 1..Len(given)
    BY <1>1, <1>9
  <2>2. Prepared(P[i].n, given).kind = ResolveSendKind(given[P[i].n].kind, given[P[i].n])
    BY DEF Prepared
  <2>3. LET p == Prepared(P[i].n, given)
            f == given[P[i].n]
        IN /\ p.caption \in 0..MaxCaption /\ f.caption \in Nat /\ (p.caption > 0 <=> f.caption > 0)
           /\ p.caption = f.caption \/ f.caption > MaxCaption
           /\ f.kind \in {"auto", p.kind} \/ f.kind \notin {"auto", "document", p.kind}
    BY <2>1, PreparedIs
  <2>4. /\ P[i].kind = Prepared(P[i].n, given).kind
        /\ P[i].caption =
             IF mode # "first_only" \/ \A j \in 1..(i - 1) : ~(given[P[j].n].caption > 0)
             THEN Prepared(P[i].n, given).caption ELSE 0
    BY <1>1, <2>1
  <2>5. tool.chat[i].n = P[i].n /\ tool.chat[i].kind = P[i].kind /\ tool.chat[i].caption = P[i].caption
    BY <1>9
  <2> HIDE DEF given, mode
  <2> QED
    BY <2>1, <2>2, <2>3, <2>4, <2>5
<1>12. \A j \in 1..Len(given) :
         /\ given[j].caption > MaxCaption => <<"truncated", j>> \in w
         /\ given[j].kind \notin {"auto", "document", ResolveSendKind(given[j].kind, given[j])}
              => <<"downgraded", j>> \in w
  BY <1>2 DEF w, Warnings
<1>13. Presentable(request, network)
  <2> DEFINE captioned == {i \in DOMAIN tool.chat : tool.chat[i].caption > 0}
             asked(i) == given[tool.chat[i].n]
  <2>1. \A i, j \in DOMAIN tool.chat : i # j /\ tool.chat[i].call = tool.chat[j].call =>
                                         tool.chat[i].kind = "photo" /\ tool.chat[j].kind = "photo"
    BY <1>4, <1>7 DEF TogetherOnlyPhotos
  <2>2. \A i, j \in DOMAIN tool.chat : tool.chat[i].call = tool.chat[j].call => j < i + GroupMax
    <3> TAKE i, j \in DOMAIN tool.chat
    <3>1. i \in Nat /\ GroupMax \in Nat /\ GroupMax > 0
      BY <1>7, SendFilesAssumption
    <3>2. CASE i = j
      BY <3>1, <3>2
    <3>3. CASE i # j
      BY <1>4, <1>7, <3>3 DEF TogetherOnlyPhotos
    <3> QED
      BY <3>2, <3>3
  <2>3. \A i \in captioned :
          /\ tool.chat[i].caption <= MaxCaption
          /\ tool.chat[i].caption = asked(i).caption \/ <<"truncated", tool.chat[i].n>> \in w
    <3> TAKE i \in captioned
    <3>1. i \in 1..Len(tool.chat) /\ tool.chat[i].caption > 0
      BY <1>7
    <3>2. tool.chat[i].caption = Prepared(P[i].n, given).caption
      BY <1>11, <3>1
    <3>3. /\ tool.chat[i].n = P[i].n /\ P[i].n \in 1..Len(given)
          /\ Prepared(P[i].n, given).caption \in 0..MaxCaption
          /\ Prepared(P[i].n, given).caption = given[P[i].n].caption \/ given[P[i].n].caption > MaxCaption
      BY <1>11, <3>1
    <3>4. tool.chat[i].caption <= MaxCaption
      BY <3>2, <3>3, SendFilesAssumption
    <3>5. asked(i) = given[P[i].n]
      BY <3>3
    <3>6. given[P[i].n].caption > MaxCaption => <<"truncated", P[i].n>> \in w
      BY <1>12, <3>3
    <3> HIDE DEF asked, given
    <3>7. tool.chat[i].caption = asked(i).caption \/ <<"truncated", tool.chat[i].n>> \in w
      BY <3>2, <3>3, <3>5, <3>6
    <3> QED
      BY <3>4, <3>7
  <2>4. \A i \in DOMAIN tool.chat :
          asked(i).kind \in {"auto", tool.chat[i].kind} \/ <<"downgraded", tool.chat[i].n>> \in w
    <3> TAKE i \in DOMAIN tool.chat
    <3>1. i \in 1..Len(tool.chat)
      BY <1>7
    <3> QED
      BY <1>11, <1>12, <3>1
  <2>5. captioned = {i \in DOMAIN tool.chat :
          asked(i).caption > 0 /\ (mode = "first_only" => \A j \in 1..(i - 1) : ~(asked(j).caption > 0))}
    <3> SUFFICES ASSUME NEW i \in 1..Len(tool.chat)
                 PROVE  tool.chat[i].caption > 0 <=>
                        (asked(i).caption > 0
                         /\ (mode = "first_only" => \A j \in 1..(i - 1) : ~(asked(j).caption > 0)))
      BY <1>7
    <3>1. \A j \in 1..(i - 1) : asked(j) = given[P[j].n]
      <4> TAKE j \in 1..(i - 1)
      <4>1. j \in 1..Len(tool.chat)
        BY <1>7
      <4> QED
        BY <1>9, <4>1
    <3>2. asked(i) = given[P[i].n]
      BY <1>9
    <3>3. /\ tool.chat[i].caption =
               IF mode # "first_only" \/ \A j \in 1..(i - 1) : ~(given[P[j].n].caption > 0)
               THEN Prepared(P[i].n, given).caption ELSE 0
          /\ Prepared(P[i].n, given).caption > 0 <=> given[P[i].n].caption > 0
      BY <1>11
    <3> HIDE DEF asked, given, mode
    <3> QED
      BY <3>1, <3>2, <3>3
  <2> QED
    BY <1>4, <2>1, <2>2, <2>3, <2>4, <2>5 DEF Presentable, tool
<1> QED
  BY <1>10, <1>13

\* A call of the tool ends with an error before anything is sent, or sends.
LEMMA ExecuteIs ==
  ASSUME NEW request \in Requests, NEW network
  PROVE  \/ NotSent(Execute(request, network))
         \/ Execute(request, network) = SendAll(InOrder(request), Warnings(request.given), network)
<1> DEFINE given == request.given
           bad == {i \in DOMAIN given : ErrorOf(given[i]) # "none"}
           first == CHOOSE i \in bad : \A j \in bad : i <= j
           w == Warnings(SubSeq(given, 1, first - 1))
           tool == Execute(request, network)
           sent == SendAll(InOrder(request), Warnings(given), network)
<1>1. tool = IF Len(given) \notin 1..MaxFilesPerCall THEN NewResult("invalid_input", {})
             ELSE IF bad # {} THEN NewResult(ErrorOf(given[first]), w) ELSE sent
  BY DEF Execute
<1>2. bad # {} => first \in bad
  <2>1. bad \subseteq Nat
    BY SendFilesAssumption
  <2> HIDE DEF bad
  <2> QED
    BY <2>1, LeastExists
<1>3. \A f : ErrorOf(f) # "none" => ErrorOf(f) \notin {"none", "telegram_api_error"}
  BY DEF ErrorOf
<1>4. bad # {} => ErrorOf(given[first]) \notin {"none", "telegram_api_error"}
  BY <1>2, <1>3
<1> HIDE DEF tool, bad, first, w, sent, given
<1>5. CASE Len(given) \notin 1..MaxFilesPerCall
  BY <1>1, <1>5 DEF NotSent, tool
<1>6. CASE Len(given) \in 1..MaxFilesPerCall /\ bad # {}
  BY <1>1, <1>4, <1>6 DEF NotSent, tool
<1>7. CASE Len(given) \in 1..MaxFilesPerCall /\ bad = {}
  BY <1>1, <1>7 DEF tool, sent, given
<1> QED
  BY <1>5, <1>6, <1>7

\* Whatever a call of the tool is asked and however Telegram answers, what the tool reports is
\* what the chat received (execute, sendPhotos, sendFilesIndividually, callTelegramWithRetry).
THEOREM ReportsAreTrue == CallsReportTruly
<1> SUFFICES ASSUME NEW request \in Requests, NEW network \in Networks
             PROVE  Truthful(request, network) /\ Presentable(request, network)
  BY DEF CallsReportTruly
<1> QED
  BY ExecuteIs, NotSentIsTrue, SentIsTrue

\* The same of the sessions at work (PiExecutor).
THEOREM EveryReportIsTrue == Spec => []ReportsWhatWasSent
<1>1. ReportsWhatWasSent
  BY ReportsAreTrue DEF ReportsWhatWasSent
<1> QED
  BY <1>1, PTL

================================================================================
