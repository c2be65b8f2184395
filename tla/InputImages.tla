----------------------------- MODULE InputImages -------------------------------
(***************************************************************************)
(* The table input_images from the arrival of a picture to its deletion:     *)
(* the handlers of Telegram updates, which run concurrently and download a   *)
(* photo before they buffer it; the ingest of messages, which binds images   *)
(* to the new run; the dispatch of a run, which reads them and deletes them  *)
(* once the session has accepted the prompt; the purge of expired rows that  *)
(* every ingest begins with; and a restart, after which Telegram sends again *)
(* what was not confirmed and unfinished runs are dispatched again.          *)
(*                                                                          *)
(* Every operation of the store is one SQLite transaction, hence one action. *)
(* A run has the id of the update or of the API request it answers (its      *)
(* idempotency key).  Bytes are left out: the limit on their total guards as *)
(* the limit on the number of images does.  The order in which one thread's  *)
(* runs are dispatched is left open; ThreadRunController settles it.         *)
(***************************************************************************)
EXTENDS Naturals, FiniteSets

CONSTANTS
  Updates,              \* Telegram updates are 1..Updates, in the order sent
  Scopes,               \* (source, thread_key, user_key) of Telegram chats
  Sendings,             \* what users may send, one of it in a behaviour
  Apis,                 \* API messages that carry images
  ApiImages,            \* images in each of them
  NoRun,                \* run_id NULL
  MaxInputImageCount,   \* maxInputImageCount
  Ttl,                  \* inputImageTtlMs
  MaxNow, MaxFaults     \* bounds: the clock; downloads, prompts, deletions that
                        \* fail and restarts

UpdateIds == 1..Updates
Runs == UpdateIds \cup Apis

\* A photo update carries one image, <<u, 0>>; an API message has ApiImages.
Telegram == UpdateIds \X {0}
Own(r) == IF r \in Apis THEN {r} \X (0..(ApiImages - 1)) ELSE {}
Images == Telegram \cup UNION {Own(r) : r \in Apis}

Update == [kind : {"photo", "text"}, scope : Scopes]

ASSUME ConstantsAssumption ==
  /\ Sendings \subseteq [UpdateIds -> Update]
  /\ Updates \in Nat /\ ApiImages \in Nat /\ MaxInputImageCount \in Nat
  /\ Ttl \in Nat \ {0} /\ MaxNow \in Nat /\ MaxFaults \in Nat
  /\ UpdateIds \cap Apis = {} /\ NoRun \notin Runs

VARIABLES
  sent,         \* [UpdateIds -> Update]
  fetched,      \* updates up to this one were given to handlers
  confirmed,    \* updates up to this one were confirmed before the last restart
  downloading,  \* photo updates whose handler awaits the file
  rows,         \* input_images: a function on the images stored
  status,       \* [Runs -> "none", "running", "ended"]: runs.status
  born,         \* [Runs -> Nat]: runs.created_at
  stage,        \* [Runs -> "idle", "loaded", "accepted", "done"]: its dispatch
  prompt,       \* [Runs -> SUBSET Images]: images read for a prompt under way
  claimed,      \* [Runs -> SUBSET Images]: images bound to it when created
  delivered,    \* [Runs -> SUBSET Images]: images in prompts accepted for it
  now, faults

telegram == <<sent, fetched, confirmed, downloading>>
runs == <<status, born, claimed>>
dispatch == <<stage, prompt, delivered>>
vars == <<telegram, rows, runs, dispatch, now, faults>>

Init ==
  /\ sent \in Sendings
  /\ fetched = 0 /\ confirmed = 0 /\ downloading = {}
  /\ rows = [i \in {} |-> NoRun]
  /\ status = [r \in Runs |-> "none"]
  /\ born = [r \in Runs |-> 0]
  /\ stage = [r \in Runs |-> "idle"]
  /\ prompt = [r \in Runs |-> {}]
  /\ claimed = [r \in Runs |-> {}]
  /\ delivered = [r \in Runs |-> {}]
  /\ now = 0 /\ faults = 0

--------------------------------------------------------------------------------
\* The store.

\* What purgeExpiredInputImagesTx leaves, at the start of every ingest.
Fresh == {i \in DOMAIN rows : rows[i].expires > now}

Bound(r) == {i \in DOMAIN rows : rows[i].run = r}

\* The buffer of a scope, once purged.
Pending(s) ==
  {i \in Fresh \cap Telegram : rows[i].run = NoRun /\ sent[i[1]].scope = s}

Greatest(S) == CHOOSE p \in S : \A q \in S : q <= p

\* Mutant of NextPosition: the number of images instead of the greatest position.
PositionByCount(s) == Cardinality(Pending(s))

NextPosition(s) ==
  IF Pending(s) = {} THEN 0 ELSE 1 + Greatest({rows[i].pos : i \in Pending(s)})

\* expiresAtFromIsoTimestamp of a row stored or claimed now.
Expiry == now + Ttl

WithinLimit(s) == Cardinality(Pending(s)) + 1 <= MaxInputImageCount

\* insertPendingTelegramImages.  Over the limit it throws: the purge is undone too.
InsertPending(i) ==
  LET scope == sent[i[1]].scope IN
  \/ /\ i \in Fresh
     /\ rows' = [j \in Fresh |-> rows[j]]
  \/ /\ i \notin Fresh /\ ~WithinLimit(scope)
     /\ UNCHANGED rows
  \/ /\ i \notin Fresh /\ WithinLimit(scope)
     /\ rows' = [j \in Fresh \cup {i} |->
                   IF j = i THEN [run |-> NoRun, pos |-> NextPosition(scope),
                                  created |-> now, expires |-> Expiry]
                   ELSE rows[j]]

\* The row of an image that createRun binds to run r.
\* Mutant of Claim: the expiry is not renewed.
ClaimOnly(i, r) == [rows[i] EXCEPT !.run = r]

Claim(i, r) == [rows[i] EXCEPT !.run = r, !.expires = Expiry]

\* createRun.  A message with a known idempotency key only purges; a Telegram
\* message claims the buffer of its scope; an API message brings its images.
CreateRun(r) ==
  \/ /\ status[r] # "none"
     /\ rows' = [j \in Fresh |-> rows[j]]
     /\ UNCHANGED runs
  \/ LET buffered == IF r \in UpdateIds THEN Pending(sent[r].scope) ELSE {} IN
     /\ status[r] = "none"
     /\ status' = [status EXCEPT ![r] = "running"]
     /\ born' = [born EXCEPT ![r] = now]
     /\ claimed' = [claimed EXCEPT ![r] = Own(r) \cup buffered]
     /\ rows' = [j \in Fresh \cup Own(r) |->
                   IF j \in Own(r) THEN [run |-> r, pos |-> j[2],
                                         created |-> now, expires |-> Expiry]
                   ELSE IF j \in buffered THEN Claim(j, r) ELSE rows[j]]

Fault == faults < MaxFaults /\ faults' = faults + 1

--------------------------------------------------------------------------------
\* Ingest.

\* The runner starts the handlers of updates in their order and does not wait for
\* them.  That of a text calls createRun before it awaits anything.
FetchText ==
  /\ fetched < Updates /\ sent[fetched + 1].kind = "text"
  /\ fetched' = fetched + 1
  /\ CreateRun(fetched + 1)
  /\ UNCHANGED <<sent, confirmed, downloading, dispatch, now, faults>>

\* That of a photo first downloads the file.
FetchPhoto ==
  /\ fetched < Updates /\ sent[fetched + 1].kind = "photo"
  /\ fetched' = fetched + 1
  /\ downloading' = downloading \cup {fetched + 1}
  /\ UNCHANGED <<sent, confirmed, rows, runs, dispatch, now, faults>>

BufferImage(u) ==
  /\ u \in downloading
  /\ downloading' = downloading \ {u}
  /\ InsertPending(<<u, 0>>)
  /\ UNCHANGED <<sent, fetched, confirmed, runs, dispatch, now, faults>>

\* The download fails, or the file is not an image: the user is told.
DownloadFails(u) ==
  /\ Fault
  /\ u \in downloading
  /\ downloading' = downloading \ {u}
  /\ UNCHANGED <<sent, fetched, confirmed, rows, runs, dispatch, now>>

\* POST /v1/messages, or a retry of it with the same idempotency key.
Post(a) ==
  /\ CreateRun(a)
  /\ UNCHANGED <<telegram, dispatch, now, faults>>

--------------------------------------------------------------------------------
\* Dispatch of a run that the scheduler has handed to its thread's controller.

Load(r) ==
  /\ status[r] = "running" /\ stage[r] = "idle"
  /\ stage' = [stage EXCEPT ![r] = "loaded"]
  /\ prompt' = [prompt EXCEPT ![r] = Bound(r)]
  /\ UNCHANGED <<telegram, rows, runs, delivered, now, faults>>

\* session.prompt, steer or followUp resolves.
Accept(r) ==
  /\ stage[r] = "loaded"
  /\ stage' = [stage EXCEPT ![r] = "accepted"]
  /\ delivered' = [delivered EXCEPT ![r] = @ \cup prompt[r]]
  /\ prompt' = [prompt EXCEPT ![r] = {}]
  /\ UNCHANGED <<telegram, rows, runs, now, faults>>

\* It rejects: the run fails and its images stay until they expire.
Reject(r) ==
  /\ Fault
  /\ stage[r] = "loaded"
  /\ stage' = [stage EXCEPT ![r] = "done"]
  /\ status' = [status EXCEPT ![r] = "ended"]
  /\ prompt' = [prompt EXCEPT ![r] = {}]
  /\ UNCHANGED <<telegram, rows, born, claimed, delivered, now>>

\* Mutant of Cleanup: the images are deleted before the prompt is accepted.
CleanupEarly(r) ==
  /\ stage[r] \in {"loaded", "accepted"}
  /\ stage' = [stage EXCEPT ![r] = "done"]
  /\ rows' = [i \in DOMAIN rows \ Bound(r) |-> rows[i]]
  /\ UNCHANGED <<telegram, runs, prompt, delivered, now, faults>>

\* onDeliverySucceeded.
Cleanup(r) ==
  /\ stage[r] = "accepted"
  /\ stage' = [stage EXCEPT ![r] = "done"]
  /\ rows' = [i \in DOMAIN rows \ Bound(r) |-> rows[i]]
  /\ UNCHANGED <<telegram, runs, prompt, delivered, now, faults>>

\* deleteRunInputImages throws: logged.
CleanupFails(r) ==
  /\ Fault
  /\ stage[r] = "accepted"
  /\ stage' = [stage EXCEPT ![r] = "done"]
  /\ UNCHANGED <<telegram, rows, runs, prompt, delivered, now>>

\* The run succeeds, fails or is cancelled; its dispatch goes on.
End(r) ==
  /\ status[r] = "running"
  /\ status' = [status EXCEPT ![r] = "ended"]
  /\ UNCHANGED <<telegram, rows, born, claimed, dispatch, now, faults>>

--------------------------------------------------------------------------------
\* Asking for further updates confirms those received, which may happen at any time
\* after they were; Telegram sends the others again.
Restart ==
  /\ Fault
  /\ confirmed' \in confirmed..fetched
  /\ fetched' = confirmed'
  /\ downloading' = {}
  /\ stage' = [r \in Runs |-> "idle"]
  /\ prompt' = [r \in Runs |-> {}]
  /\ UNCHANGED <<sent, rows, runs, delivered, now>>

Tick ==
  /\ now < MaxNow
  /\ now' = now + 1
  /\ UNCHANGED <<telegram, rows, runs, dispatch, faults>>

Next ==
  \/ FetchText \/ FetchPhoto \/ Restart \/ Tick
  \/ \E u \in UpdateIds : BufferImage(u) \/ DownloadFails(u)
  \/ \E a \in Apis : Post(a)
  \/ \E r \in Runs : Load(r) \/ Accept(r) \/ Reject(r) \/ Cleanup(r) \/ CleanupFails(r)
                     \/ End(r)

Spec == Init /\ [][Next]_vars

--------------------------------------------------------------------------------
\* Properties.

Row == [run : Runs \cup {NoRun}, pos : Nat, created : Nat, expires : Nat]

\* Every variable keeps its type; in particular only stored images have rows, and
\* the handlers at work are those of photos that were fetched.
TypeOK ==
  /\ sent \in [UpdateIds -> Update]
  /\ fetched \in 0..Updates /\ confirmed \in 0..fetched
  /\ downloading \subseteq {u \in 1..fetched : sent[u].kind = "photo"}
  /\ DOMAIN rows \subseteq Images /\ \A i \in DOMAIN rows : rows[i] \in Row
  /\ status \in [Runs -> {"none", "running", "ended"}]
  /\ born \in [Runs -> Nat]
  /\ stage \in [Runs -> {"idle", "loaded", "accepted", "done"}]
  /\ prompt \in [Runs -> SUBSET Images]
  /\ claimed \in [Runs -> SUBSET Images]
  /\ delivered \in [Runs -> SUBSET Images]
  /\ now \in Nat /\ faults \in Nat

\* Buffered images and the images of a Telegram run are never more than a message
\* may carry, however arrivals, purges, claims and replayed updates alternate
\* (assertPendingBufferWithinLimits runs on the buffer only).
WithinLimits ==
  /\ \A s \in Scopes : Cardinality(Pending(s)) <= MaxInputImageCount
  /\ \A u \in UpdateIds : Cardinality(Bound(u)) <= MaxInputImageCount

\* Images that are together, in a run or in the buffer of a scope.
Together(i, j) ==
  /\ i # j /\ rows[i].run = rows[j].run
  /\ rows[i].run = NoRun => sent[i[1]].scope = sent[j[1]].scope

\* listRunInputImages can order the images of a run by position as they were
\* stored: no two share a position, and a later one has a greater position, also
\* when some of a buffer expired between two arrivals.
AttachOrder ==
  \A i, j \in DOMAIN rows :
    Together(i, j) => /\ rows[i].pos # rows[j].pos
                      /\ rows[i].pos < rows[j].pos => rows[i].created <= rows[j].created

\* A run has images of its own scope only: those of the chat and user it came
\* from, or those its API message brought.
ScopesDoNotMix ==
  \A r \in Runs : \A i \in Bound(r) :
    \/ i \in Own(r)
    \/ r \in UpdateIds /\ i \in Telegram /\ sent[i[1]].scope = sent[r].scope

\* What holds of the rows of a run: it exists, they were bound to it when it was
\* created and expire a time to live later, and its dispatch knows of all of them.
BoundInv ==
  \A r \in Runs : \A i \in Bound(r) :
    /\ status[r] # "none" /\ i \in claimed[r]
    /\ rows[i].expires = born[r] + Ttl
    /\ stage[r] = "loaded" => i \in prompt[r]
    /\ stage[r] = "accepted" => i \in delivered[r]

\* A run keeps what it claimed until it is delivered or has expired.
ClaimInv ==
  \A r \in Runs :
    status[r] # "none" /\ delivered[r] = {} /\ now < born[r] + Ttl => claimed[r] \subseteq Bound(r)

\* The images of an API message are never in a buffer or another run; a run that is
\* dispatched exists; rows are not from the future.
RowsInv ==
  /\ \A a \in Apis : \A i \in Own(a) \cap DOMAIN rows : rows[i].run = a
  /\ \A r \in Runs : stage[r] # "idle" => status[r] # "none"
  /\ \A i \in DOMAIN rows : rows[i].created <= now

\* What the rows and the dispatch of runs rely on; with TypeOK, AttachOrder and
\* ScopesDoNotMix it is inductive.
RunsHoldImages == RowsInv /\ BoundInv /\ ClaimInv

\* An image leaves the table only when it has expired or when a prompt with it was
\* accepted for the run it is bound to (deleteRunInputImages, after delivery).
LeavesDeliveredOrExpired ==
  [][\A i \in DOMAIN rows : i \notin DOMAIN rows' =>
       \/ rows[i].expires <= now
       \/ rows[i].run # NoRun /\ i \in delivered[rows[i].run]]_vars

\* A run never claims an image that has expired, although nothing but an ingest
\* purges (createRun purges before it claims).
ClaimsOnlyFresh ==
  [][\A i \in DOMAIN rows \cap DOMAIN rows' :
       rows[i].run = NoRun /\ rows'[i].run # NoRun => rows[i].expires > now]_vars

\* A run that is dispatched within the time to live of its creation, before any
\* prompt for it was accepted, is prompted with all the images it claimed: neither
\* their age when claimed, purges by other ingests nor a restart takes any away.
PromptHasClaimedImages ==
  [][\A r \in Runs :
       stage[r] = "idle" /\ stage'[r] = "loaded" /\ delivered[r] = {} /\ now < born[r] + Ttl
         => prompt'[r] = claimed[r]]_vars
================================================================================
