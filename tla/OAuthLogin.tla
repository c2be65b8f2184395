------------------------------ MODULE OAuthLogin --------------------------------
(***************************************************************************)
(* OAuth logins: the broker that keeps the attempts (OAuthLoginBroker), the  *)
(* login of the provider it runs for each of them, and the two ways users    *)
(* reach it, the HTTP routes and the /auth controls of the Telegram bot,     *)
(* which remember for each chat which prompt the next /auth input answers.   *)
(*                                                                          *)
(* JavaScript runs one handler at a time up to its first await, and none of  *)
(* the broker's operations awaits, nor do the Telegram controls before they  *)
(* send their reply: each handler is one action.  The provider's code (the   *)
(* library) is any program that asks, reports and settles.  Attempts are     *)
(* numbered in the order they start.  The texts of prompts, progress and     *)
(* errors are left out, and so is the check for an empty value: it refuses   *)
(* an input as a wrong kind does.                                            *)
(***************************************************************************)
EXTENDS Naturals, FiniteSets

CONSTANTS
  Chats,            \* Telegram chats; ownerKeyFromChatId is one to one
  Clients,          \* owner keys of HTTP clients, none of them a chat's
  Providers,
  MaxAttempts,      \* maxAttempts
  Ttl,              \* terminalAttemptTtlMs
  None,             \* null
  MaxStarts, MaxAsks, MaxNow    \* bounds: attempts, prompts of one login, clock

Owners == Chats \cup Clients
Ids == 1..MaxStarts
Kinds == {"prompt", "manual_code"}
Terminal == {"succeeded", "failed", "cancelled"}

ASSUME ConstantsAssumption ==
  /\ MaxAttempts \in Nat /\ Ttl \in Nat
  /\ MaxStarts \in Nat /\ MaxAsks \in Nat /\ MaxNow \in Nat
  /\ None \notin Owners \cup Providers /\ Chats \cap Clients = {}
  /\ None \notin [no : Nat, kind : Kinds] \cup [attempt : Nat, kind : Kinds]

VARIABLES
  started,      \* attempts started so far
  attempts,     \* the keys of the map attempts
  owner, provider, status, updatedAt,   \* fields of an attempt, by id
  pending,      \* prompt and pendingInput, which are set and cleared together:
                \* the kind and the number of the prompt, or None
  login,        \* [Ids -> "none", "working", "resolved", "rejected", "ended"]:
                \* the promise of authStorage.login; "ended" when runAttempt is
  asked,        \* [Ids -> Nat]: prompts the provider was given
  promises,     \* [Ids -> SUBSET Nat]: prompts whose promise is not settled
  waits,        \* [Ids -> BOOLEAN]: the provider awaits the last of them
  chatPending,  \* pendingAuthInputByChat: an attempt and a kind, or None
  shown,        \* history: the prompt each chat was shown when that was set
  now

fixed == <<started, owner, provider>>
providerSide == <<login, asked, promises, waits>>
chat == <<chatPending, shown>>
vars == <<fixed, attempts, status, updatedAt, pending, providerSide, chat, now>>

Init ==
  /\ started = 0 /\ attempts = {}
  /\ owner = [a \in Ids |-> None] /\ provider = [a \in Ids |-> None]
  /\ status = [a \in Ids |-> "none"] /\ updatedAt = [a \in Ids |-> 0]
  /\ pending = [a \in Ids |-> None]
  /\ login = [a \in Ids |-> "none"]
  /\ asked = [a \in Ids |-> 0]
  /\ promises = [a \in Ids |-> {}]
  /\ waits = [a \in Ids |-> FALSE]
  /\ chatPending = [c \in Chats |-> None] /\ shown = [c \in Chats |-> 0]
  /\ now = 0

--------------------------------------------------------------------------------
\* The broker's map.

Expired(a, st, upd) == st[a] \in Terminal /\ now > upd[a] + Ttl

\* pruneAttempts: what is left of A, given status and updatedAt.  Ended attempts go
\* when they are old, then the oldest of them while there are more than MaxAttempts.
Pruned(A, st, upd) ==
  LET kept == {a \in A : ~Expired(a, st, upd)}
      ended == {a \in kept : st[a] \in Terminal}
      excess == {a \in ended :
                   Cardinality({b \in ended : b < a}) + MaxAttempts < Cardinality(kept)}
  IN kept \ excess

Kept == Pruned(attempts, status, updatedAt)

\* findActiveAttempt, after the prune that start begins with.
Active(o, p) ==
  {a \in Kept : owner[a] = o /\ provider[a] = p /\ status[a] \notin Terminal}

Full == Cardinality(Kept) >= MaxAttempts

\* start creates an attempt and runs the provider's login, which may ask at once.
Begin(o, p) ==
  LET a == started + 1 IN
  /\ started < MaxStarts /\ Active(o, p) = {} /\ ~Full
  /\ started' = a
  /\ owner' = [owner EXCEPT ![a] = o] /\ provider' = [provider EXCEPT ![a] = p]
  /\ updatedAt' = [updatedAt EXCEPT ![a] = now]
  /\ login' = [login EXCEPT ![a] = "working"]
  /\ \/ /\ status' = [status EXCEPT ![a] = "running"]
        /\ UNCHANGED <<pending, asked, promises, waits>>
     \/ \E k \in Kinds :
          /\ MaxAsks > 0
          /\ status' = [status EXCEPT ![a] = "awaiting_input"]
          /\ pending' = [pending EXCEPT ![a] = [no |-> 1, kind |-> k]]
          /\ asked' = [asked EXCEPT ![a] = 1]
          /\ promises' = [promises EXCEPT ![a] = {1}]
          /\ \E awaited \in BOOLEAN : waits' = [waits EXCEPT ![a] = awaited]

\* getOwnedAttemptOrThrow.
Owned(o, a) == a \in attempts /\ owner[a] = o

\* submitInput, when it does not throw; kind is None when the caller expects none.
Accepts(a, kind) ==
  status[a] = "awaiting_input" /\ pending[a] # None /\ kind \in {None, pending[a].kind}

SubmitInput(a) ==
  /\ status' = [status EXCEPT ![a] = "running"]
  /\ pending' = [pending EXCEPT ![a] = None]
  /\ promises' = [promises EXCEPT ![a] = @ \ {pending[a].no}]
  /\ updatedAt' = [updatedAt EXCEPT ![a] = now]
  /\ UNCHANGED <<fixed, login, asked, waits>>

\* Mutant of Cancel: the promise the provider awaits is left alone.
CancelSilently(a) ==
  /\ status' = [status EXCEPT ![a] = "cancelled"]
  /\ pending' = [pending EXCEPT ![a] = None]
  /\ updatedAt' = [updatedAt EXCEPT ![a] = now]
  /\ UNCHANGED <<fixed, login, asked, waits, promises>>

\* cancel of an attempt that has not ended: the pending promise is rejected, and
\* the abort would reject it as well.  The provider's login goes on until it notices.
Cancel(a) ==
  /\ status' = [status EXCEPT ![a] = "cancelled"]
  /\ pending' = [pending EXCEPT ![a] = None]
  /\ promises' = [promises EXCEPT ![a] = {}]
  /\ updatedAt' = [updatedAt EXCEPT ![a] = now]
  /\ UNCHANGED <<fixed, login, asked, waits>>

Untouched == UNCHANGED <<fixed, status, updatedAt, pending, providerSide>>

--------------------------------------------------------------------------------
\* HTTP clients.

ClientStart(o, p) ==
  /\ UNCHANGED <<chat, now>>
  /\ \/ /\ Begin(o, p)
        /\ attempts' = Kept \cup {started + 1}
     \/ /\ Active(o, p) # {} \/ Full
        /\ attempts' = Kept /\ Untouched

ClientGet ==
  /\ attempts' = Kept
  /\ Untouched /\ UNCHANGED <<chat, now>>

ClientInput(o, a) ==
  /\ Owned(o, a)
  /\ \E kind \in Kinds \cup {None} : Accepts(a, kind)
  /\ SubmitInput(a)
  /\ UNCHANGED <<attempts, chat, now>>

ClientCancel(o, a) ==
  /\ Owned(o, a) /\ status[a] \notin Terminal
  /\ Cancel(a)
  /\ UNCHANGED <<attempts, chat, now>>

--------------------------------------------------------------------------------
\* The Telegram controls.

\* Mutant of ShowAttempt: an attempt that does not wait leaves the entry as it is.
ShowAttemptKeeps(c, a, A) ==
  /\ attempts' = Pruned(A, status', updatedAt')
  /\ IF a \in attempts' /\ status'[a] = "awaiting_input"
       THEN /\ chatPending' = [chatPending EXCEPT ![c] =
                                 [attempt |-> a, kind |-> pending'[a].kind]]
            /\ shown' = [shown EXCEPT ![c] = pending'[a].no]
       ELSE UNCHANGED chat

\* showAttempt reads the attempt, which prunes the map (A so far), and notes for the
\* chat what its next input answers.  For an attempt that is gone it does nothing.
ShowAttempt(c, a, A) ==
  /\ attempts' = Pruned(A, status', updatedAt')
  /\ IF a \notin attempts' THEN UNCHANGED chat
     ELSE IF status'[a] = "awaiting_input"
       THEN /\ chatPending' = [chatPending EXCEPT ![c] =
                                 [attempt |-> a, kind |-> pending'[a].kind]]
            /\ shown' = [shown EXCEPT ![c] = pending'[a].no]
       ELSE /\ chatPending' = [chatPending EXCEPT ![c] = None]
            /\ shown' = [shown EXCEPT ![c] = 0]

\* /auth login and the provider's button.
TelegramStart(c, p) ==
  /\ UNCHANGED now
  /\ \/ Begin(c, p) /\ ShowAttempt(c, started + 1, Kept \cup {started + 1})
     \/ \E a \in Active(c, p) : Untouched /\ ShowAttempt(c, a, Kept)
     \/ Active(c, p) = {} /\ Full /\ attempts' = Kept /\ Untouched /\ UNCHANGED chat

\* The Refresh button of an attempt the chat has seen, or /auth status.
TelegramRefresh(c, a) ==
  /\ owner[a] = c
  /\ Untouched /\ ShowAttempt(c, a, attempts)
  /\ UNCHANGED now

\* The Cancel button, which stays under messages of attempts that have ended.
TelegramCancel(c, a) ==
  /\ Owned(c, a)
  /\ IF status[a] \in Terminal THEN Untouched ELSE Cancel(a)
  /\ ShowAttempt(c, a, attempts)
  /\ UNCHANGED now

\* /auth input: the attempt is read (which prunes), given the input if it takes it,
\* and shown again.
TelegramInput(c) ==
  /\ chatPending[c] # None
  /\ LET a == chatPending[c].attempt IN
     IF a \notin Kept
       THEN /\ chatPending' = [chatPending EXCEPT ![c] = None]
            /\ shown' = [shown EXCEPT ![c] = 0]
            /\ attempts' = Kept /\ Untouched
       ELSE /\ IF Accepts(a, chatPending[c].kind) THEN SubmitInput(a) ELSE Untouched
            /\ ShowAttempt(c, a, Kept)
  /\ UNCHANGED now

--------------------------------------------------------------------------------
\* The provider's login and runAttempt.

\* The provider is not held up by a prompt it awaits.
Free(a) == login[a] = "working" /\ (waits[a] => asked[a] \notin promises[a])

\* Mutant of MayAsk: a second prompt takes the place of the first.
MayAskAgain(a) == status[a] \notin Terminal

MayAsk(a) == status[a] \notin Terminal /\ pending[a] = None

\* onPrompt and onManualCodeInput.  A provider that races the prompt against the
\* browser does not wait for it.  When waitForInput throws nothing changes here.
Ask(a, k) ==
  LET n == asked[a] + 1 IN
  /\ Free(a) /\ asked[a] < MaxAsks /\ MayAsk(a)
  /\ status' = [status EXCEPT ![a] = "awaiting_input"]
  /\ pending' = [pending EXCEPT ![a] = [no |-> n, kind |-> k]]
  /\ asked' = [asked EXCEPT ![a] = n]
  /\ promises' = [promises EXCEPT ![a] = @ \cup {n}]
  /\ \E awaited \in BOOLEAN : waits' = [waits EXCEPT ![a] = awaited]
  /\ updatedAt' = [updatedAt EXCEPT ![a] = now]
  /\ UNCHANGED <<fixed, attempts, login, chat, now>>

\* onAuth and onProgress; they do not look at the status.
Report(a) ==
  /\ Free(a)
  /\ updatedAt' = [updatedAt EXCEPT ![a] = now]
  /\ UNCHANGED <<fixed, attempts, status, pending, providerSide, chat, now>>

LoginSettles(a) ==
  /\ Free(a)
  /\ \E outcome \in {"resolved", "rejected"} : login' = [login EXCEPT ![a] = outcome]
  /\ UNCHANGED <<fixed, attempts, status, updatedAt, pending, asked, promises, waits, chat, now>>

\* Mutant of Outcome: a login that resolves has succeeded.
OutcomeOfLogin(a) == IF login[a] = "resolved" THEN "succeeded" ELSE "failed"

\* A cancelled attempt stays so even if its login resolves.
Outcome(a) ==
  IF status[a] = "cancelled" THEN "cancelled"
  ELSE IF login[a] = "resolved" THEN "succeeded" ELSE "failed"

\* runAttempt after its await: a prompt the provider no longer waits for is rejected.
RunAttemptEnds(a) ==
  /\ login[a] \in {"resolved", "rejected"}
  /\ login' = [login EXCEPT ![a] = "ended"]
  /\ status' = [status EXCEPT ![a] = Outcome(a)]
  /\ pending' = [pending EXCEPT ![a] = None]
  /\ promises' = [promises EXCEPT ![a] = {}]
  /\ updatedAt' = [updatedAt EXCEPT ![a] = now]
  /\ UNCHANGED <<fixed, attempts, asked, waits, chat, now>>

TimePasses ==
  /\ now < MaxNow /\ now' = now + 1
  /\ UNCHANGED <<fixed, attempts, status, updatedAt, pending, providerSide, chat>>

--------------------------------------------------------------------------------
Users ==
  \/ \E o \in Clients, p \in Providers : ClientStart(o, p)
  \/ ClientGet
  \/ \E o \in Clients, a \in Ids : ClientInput(o, a) \/ ClientCancel(o, a)
  \/ \E c \in Chats, p \in Providers : TelegramStart(c, p)
  \/ \E c \in Chats, a \in Ids : TelegramRefresh(c, a) \/ TelegramCancel(c, a)
  \/ \E c \in Chats : TelegramInput(c)

System ==
  \/ \E a \in Ids : LoginSettles(a) \/ RunAttemptEnds(a) \/ Report(a)
  \/ \E a \in Ids, k \in Kinds : Ask(a, k)
  \/ TimePasses

Next == Users \/ System

Spec == Init /\ [][Next]_vars

\* runAttempt goes on when its await is over, and a provider that is told of the
\* abort settles its login unless it still awaits a prompt.  Without the abort a
\* provider may wait for the browser forever.
Fairness ==
  \A a \in Ids : /\ WF_vars(RunAttemptEnds(a))
                 /\ WF_vars(status[a] = "cancelled" /\ LoginSettles(a))

FairSpec == Spec /\ Fairness

--------------------------------------------------------------------------------
\* Properties.

Prompts == [no : Nat, kind : Kinds]

TypeOK ==
  /\ started \in 0..MaxStarts /\ attempts \subseteq 1..started
  /\ owner \in [Ids -> Owners \cup {None}] /\ provider \in [Ids -> Providers \cup {None}]
  /\ status \in [Ids -> {"none", "running", "awaiting_input"} \cup Terminal]
  /\ updatedAt \in [Ids -> Nat] /\ now \in Nat
  /\ pending \in [Ids -> Prompts \cup {None}]
  /\ login \in [Ids -> {"none", "working", "resolved", "rejected", "ended"}]
  /\ asked \in [Ids -> Nat] /\ promises \in [Ids -> SUBSET Nat] /\ waits \in [Ids -> BOOLEAN]
  /\ chatPending \in [Chats -> [attempt : Ids, kind : Kinds] \cup {None}]
  /\ shown \in [Chats -> Nat]

\* An input sent from a chat answers the prompt the chat was shown: an attempt cannot
\* come to wait for another prompt while the chat's entry still stands for the last,
\* so that a value typed for one prompt is never taken by the next.
ShownPromptIsCurrent ==
  \A c \in Chats :
    LET entry == chatPending[c] IN
    entry # None /\ pending[entry.attempt] # None
      => pending[entry.attempt] = [no |-> shown[c], kind |-> entry.kind]

\* A provider never holds a promise that nobody can settle: a prompt without an answer
\* is the one its attempt waits for, and only an attempt that waits has one.
NoPromptDangles ==
  \A a \in Ids :
    /\ promises[a] = IF pending[a] = None THEN {} ELSE {pending[a].no}
    /\ pending[a] # None <=> status[a] = "awaiting_input"

\* An owner has at most one attempt under way with a provider.
OneLiveAttempt ==
  \A a, b \in attempts :
    /\ status[a] \notin Terminal /\ status[b] \notin Terminal
    /\ owner[a] = owner[b] /\ provider[a] = provider[b]
    => a = b

\* An attempt under way is never forgotten, by age or for capacity, and one that has
\* ended never changes its outcome, although a cancelled login may go on to succeed.
AttemptsMoveOn ==
  [][\A a \in attempts :
       IF status[a] \in Terminal THEN status'[a] = status[a] ELSE a \in attempts']_vars

\* A login that is cancelled comes to an end, with whatever prompt it waits for.
CancelEndsLogin == \A a \in Ids : status[a] = "cancelled" ~> login[a] = "ended"
================================================================================
