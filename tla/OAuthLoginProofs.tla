---------------------------- MODULE OAuthLoginProofs ----------------------------
(***************************************************************************)
(* Proofs about OAuthLogin, for every set of chats, clients and providers    *)
(* and every bound.                                                         *)
(***************************************************************************)
EXTENDS OAuthLogin, FiniteSetTheorems, TLAPS

\* The types of the broker's variables but for the map.
BrokerTypes ==
  /\ started \in 0..MaxStarts
  /\ owner \in [Ids -> Owners \cup {None}] /\ provider \in [Ids -> Providers \cup {None}]
  /\ status \in [Ids -> {"none", "running", "awaiting_input"} \cup Terminal]
  /\ updatedAt \in [Ids -> Nat] /\ now \in Nat
  /\ pending \in [Ids -> Prompts \cup {None}]
  /\ login \in [Ids -> {"none", "working", "resolved", "rejected", "ended"}]
  /\ asked \in [Ids -> Nat] /\ promises \in [Ids -> SUBSET Nat] /\ waits \in [Ids -> BOOLEAN]

\* Attempts that have not begun have nothing, and an outcome comes with the login's end.
StatusesInv ==
  \A a \in Ids :
    /\ a > started => status[a] = "none" /\ login[a] = "none"
    /\ status[a] \in {"succeeded", "failed"} => login[a] = "ended"

BrokerInv == BrokerTypes /\ StatusesInv /\ NoPromptDangles

\* The map holds attempts that have begun, and never more than MaxAttempts.
MapInv == attempts \subseteq 1..started /\ Cardinality(attempts) <= MaxAttempts

\* What a chat's next input answers is the pending prompt it was shown, of an attempt of
\* its own, or the attempt has ended.
ChatInv ==
  /\ chatPending \in [Chats -> [attempt : Ids, kind : Kinds] \cup {None}]
  /\ shown \in [Chats -> Nat]
  /\ \A c \in Chats : chatPending[c] # None =>
       LET a == chatPending[c].attempt IN
       /\ owner[a] = c
       /\ \/ pending[a] = [no |-> shown[c], kind |-> chatPending[c].kind]
          \/ status[a] \in Terminal

IndInv == BrokerInv /\ MapInv /\ ChatInv

--------------------------------------------------------------------------------
\* The map.

\* Pruning forgets attempts that have ended, and those only by age while there is room.
LEMMA PruneKeeps ==
  ASSUME NEW A, NEW st, NEW upd
  PROVE  /\ Pruned(A, st, upd) \subseteq A
         /\ \A a \in A : st[a] \notin Terminal => a \in Pruned(A, st, upd)
BY DEF Pruned, Expired

\* The map stays within 1..started and MaxAttempts if it is pruned.
LEMMA PruneStep ==
  ASSUME NEW st, NEW upd, NEW A, A \subseteq 1..started', Cardinality(A) <= MaxAttempts,
         started' \in Nat, attempts' = Pruned(A, st, upd)
  PROVE  MapInv'
<1>1. IsFiniteSet(A)
  <2>1. IsFiniteSet(1..started')
    BY FS_Interval
  <2> QED
    BY <2>1, FS_Subset
<1>2. attempts' \subseteq A
  BY PruneKeeps
<1>3. Cardinality(attempts') <= Cardinality(A) /\ Cardinality(attempts') \in Nat /\ Cardinality(A) \in Nat
  BY <1>1, <1>2, FS_Subset, FS_CardinalityType
<1>4. MaxAttempts \in Nat
  BY ConstantsAssumption
<1>5. Cardinality(attempts') <= MaxAttempts
  BY <1>3, <1>4
<1>6. attempts' \subseteq 1..started'
  BY <1>2
<1> QED
  BY <1>5, <1>6 DEF MapInv

\* While the map is within its capacity, pruning forgets by age only.
LEMMA PruneByAge ==
  ASSUME NEW st, NEW upd, NEW A, IsFiniteSet(A), Cardinality(A) <= MaxAttempts,
         NEW a \in A, ~Expired(a, st, upd)
  PROVE  a \in Pruned(A, st, upd)
<1> DEFINE kept == {b \in A : ~Expired(b, st, upd)}
           ended == {b \in kept : st[b] \in Terminal}
           older == {b \in ended : b < a}
<1>1. IsFiniteSet(kept) /\ Cardinality(kept) <= Cardinality(A)
  BY FS_Subset
<1>2. IsFiniteSet(older)
  BY <1>1, FS_Subset
<1>3. Cardinality(older) \in Nat /\ Cardinality(kept) \in Nat /\ Cardinality(A) \in Nat
  BY <1>1, <1>2, FS_CardinalityType
<1>4. ~(Cardinality(older) + MaxAttempts < Cardinality(kept))
  BY <1>1, <1>3, ConstantsAssumption
<1>5. a \in kept
  OBVIOUS
<1> QED
  BY <1>4, <1>5 DEF Pruned

--------------------------------------------------------------------------------
\* The broker's operations.

LEMMA BeginStep ==
  ASSUME BrokerInv, NEW o \in Owners, NEW p \in Providers, Begin(o, p), now' = now
  PROVE  /\ BrokerInv'
         /\ started' = started + 1 /\ started' \in Ids
         /\ owner' = [owner EXCEPT ![started'] = o]
         /\ status'[started'] \notin Terminal
         /\ pending'[started'] # None <=> status'[started'] = "awaiting_input"
         /\ \A a \in Ids : a # started' => status'[a] = status[a] /\ pending'[a] = pending[a]
<1> DEFINE n == started'
<1>1. started' = started + 1 /\ n \in Ids /\ n > started /\ started' \in 0..MaxStarts
  BY ConstantsAssumption DEF BrokerInv, BrokerTypes, Begin, Ids
<1>2. status[n] = "none" /\ login[n] = "none" /\ pending[n] = None /\ promises[n] = {}
  BY <1>1 DEF BrokerInv, StatusesInv, NoPromptDangles
<1> DEFINE Asks(k) == /\ status' = [status EXCEPT ![n] = "awaiting_input"]
                      /\ pending' = [pending EXCEPT ![n] = [no |-> 1, kind |-> k]]
                      /\ asked' = [asked EXCEPT ![n] = 1]
                      /\ promises' = [promises EXCEPT ![n] = {1}]
                      /\ \E awaited \in BOOLEAN : waits' = [waits EXCEPT ![n] = awaited]
<1>3. /\ owner' = [owner EXCEPT ![n] = o] /\ provider' = [provider EXCEPT ![n] = p]
      /\ updatedAt' = [updatedAt EXCEPT ![n] = now] /\ login' = [login EXCEPT ![n] = "working"]
      /\ \/ status' = [status EXCEPT ![n] = "running"] /\ UNCHANGED <<pending, asked, promises, waits>>
         \/ \E k \in Kinds : Asks(k)
  BY DEF Begin
<1>4. /\ owner' \in [Ids -> Owners \cup {None}] /\ provider' \in [Ids -> Providers \cup {None}]
      /\ updatedAt' \in [Ids -> Nat] /\ now' \in Nat
      /\ login' \in [Ids -> {"none", "working", "resolved", "rejected", "ended"}]
  BY <1>1, <1>3 DEF BrokerInv, BrokerTypes
<1>5. CASE status' = [status EXCEPT ![n] = "running"] /\ UNCHANGED <<pending, asked, promises, waits>>
  <2>1. BrokerTypes'
    BY <1>1, <1>4, <1>5 DEF BrokerInv, BrokerTypes
  <2>2. StatusesInv'
    BY <1>1, <1>3, <1>5 DEF BrokerInv, BrokerTypes, StatusesInv, Ids
  <2>3. NoPromptDangles'
    BY <1>1, <1>2, <1>5 DEF BrokerInv, BrokerTypes, NoPromptDangles
  <2> QED
    BY <1>1, <1>2, <1>3, <1>5, <2>1, <2>2, <2>3 DEF BrokerInv, BrokerTypes, Terminal
<1>6. ASSUME NEW k \in Kinds, Asks(k) PROVE BrokerInv' /\ status'[n] = "awaiting_input" /\ pending'[n] # None
                          /\ \A a \in Ids : a # n => status'[a] = status[a] /\ pending'[a] = pending[a]
  <2>1. [no |-> 1, kind |-> k] \in Prompts /\ [no |-> 1, kind |-> k] # None
    BY ConstantsAssumption DEF Prompts
  <2>2. BrokerTypes'
    BY <1>1, <1>4, <1>6, <2>1 DEF BrokerInv, BrokerTypes
  <2>3. StatusesInv'
    BY <1>1, <1>3, <1>6 DEF BrokerInv, BrokerTypes, StatusesInv, Ids
  <2>4. NoPromptDangles'
    BY <1>1, <1>6, <2>1 DEF BrokerInv, BrokerTypes, NoPromptDangles
  <2> QED
    BY <1>1, <1>6, <2>1, <2>2, <2>3, <2>4 DEF BrokerInv, BrokerTypes
<1> QED
  BY <1>1, <1>3, <1>5, <1>6 DEF Terminal

\* submitInput and cancel settle the prompt of an attempt that has begun.
LEMMA SettleStep ==
  ASSUME BrokerInv, NEW a \in Ids, now' = now,
         \/ SubmitInput(a) /\ status[a] = "awaiting_input"
         \/ Cancel(a) /\ a <= started /\ status[a] \notin Terminal
  PROVE  /\ BrokerInv'
         /\ UNCHANGED <<started, owner>>
         /\ status'[a] \in {"running", "cancelled"} /\ pending'[a] = None
         /\ \A b \in Ids : b # a => status'[b] = status[b] /\ pending'[b] = pending[b]
<1>1. a <= started
  BY DEF BrokerInv, BrokerTypes, StatusesInv, Ids
<1>2. /\ \E s \in {"running", "cancelled"} : status' = [status EXCEPT ![a] = s]
      /\ pending' = [pending EXCEPT ![a] = None]
      /\ promises' = [promises EXCEPT ![a] = {}]
      /\ updatedAt' = [updatedAt EXCEPT ![a] = now]
      /\ UNCHANGED <<fixed, login, asked, waits>>
  BY DEF SubmitInput, Cancel, BrokerInv, BrokerTypes, NoPromptDangles
<1>3. BrokerTypes'
  BY <1>2 DEF BrokerInv, BrokerTypes, fixed, Terminal
<1>4. StatusesInv'
  BY <1>1, <1>2 DEF BrokerInv, BrokerTypes, StatusesInv, fixed, Ids
<1>5. NoPromptDangles'
  BY <1>2 DEF BrokerInv, BrokerTypes, NoPromptDangles
<1> QED
  BY <1>2, <1>3, <1>4, <1>5 DEF BrokerInv, BrokerTypes, fixed

--------------------------------------------------------------------------------
\* The chats.

\* An entry of a chat stays right while its attempt and the prompt it was shown do.
EntryHolds(c) ==
  chatPending[c] # None =>
    LET a == chatPending[c].attempt IN
    /\ owner'[a] = c
    /\ \/ pending'[a] = [no |-> shown[c], kind |-> chatPending[c].kind]
       \/ status'[a] \in Terminal

LEMMA ChatKept ==
  ASSUME ChatInv, UNCHANGED chat, \A c \in Chats : EntryHolds(c)
  PROVE  ChatInv'
BY DEF ChatInv, EntryHolds, chat

\* Showing an attempt of the chat leaves it with the prompt the attempt waits for.
LEMMA ShowStep ==
  ASSUME ChatInv, BrokerInv', NEW c \in Chats, NEW a \in Ids, NEW A, ShowAttempt(c, a, A),
         owner'[a] = c,
         \A d \in Chats : d # c \/ a \notin attempts' => EntryHolds(d)
  PROVE  ChatInv'
<1>1. CASE a \notin attempts'
  BY <1>1, ChatKept DEF ShowAttempt
<1>2. CASE a \in attempts' /\ status'[a] = "awaiting_input"
  <2>1. pending'[a] \in Prompts
    BY <1>2 DEF BrokerInv, BrokerTypes, NoPromptDangles
  <2>2. /\ chatPending' = [chatPending EXCEPT ![c] = [attempt |-> a, kind |-> pending'[a].kind]]
        /\ shown' = [shown EXCEPT ![c] = pending'[a].no]
    BY <1>2 DEF ShowAttempt
  <2>3. pending'[a] = [no |-> pending'[a].no, kind |-> pending'[a].kind]
        /\ pending'[a].no \in Nat /\ pending'[a].kind \in Kinds
    BY <2>1 DEF Prompts
  <2>4. /\ chatPending' \in [Chats -> [attempt : Ids, kind : Kinds] \cup {None}]
        /\ shown' \in [Chats -> Nat]
    BY <2>2, <2>3 DEF ChatInv
  <2>5. ASSUME NEW d \in Chats, chatPending'[d] # None
        PROVE  LET b == chatPending'[d].attempt IN
               /\ owner'[b] = d
               /\ \/ pending'[b] = [no |-> shown'[d], kind |-> chatPending'[d].kind]
                  \/ status'[b] \in Terminal
    <3>1. CASE d = c
      BY <2>2, <2>3, <3>1 DEF ChatInv
    <3>2. CASE d # c
      <4>1. EntryHolds(d) /\ chatPending'[d] = chatPending[d] /\ shown'[d] = shown[d]
        BY <2>2, <3>2 DEF ChatInv
      <4> QED
        BY <2>5, <4>1 DEF EntryHolds
    <3> QED
      BY <3>1, <3>2
  <2> QED
    BY <2>4, <2>5 DEF ChatInv
<1>3. CASE a \in attempts' /\ status'[a] # "awaiting_input"
  <2>1. chatPending' = [chatPending EXCEPT ![c] = None] /\ shown' = [shown EXCEPT ![c] = 0]
    BY <1>3 DEF ShowAttempt
  <2>2. \A d \in Chats : d # c => chatPending'[d] = chatPending[d] /\ shown'[d] = shown[d]
    BY <2>1 DEF ChatInv
  <2>3. chatPending'[c] = None
    BY <2>1 DEF ChatInv
  <2> QED
    BY <2>1, <2>2, <2>3 DEF ChatInv, EntryHolds
<1> QED
  BY <1>1, <1>2, <1>3

\* A new attempt is in no chat's entry.
LEMMA EntriesOutliveBegin ==
  ASSUME IndInv, NEW o \in Owners, NEW p \in Providers, Begin(o, p), now' = now
  PROVE  \A c \in Chats : EntryHolds(c)
<1> SUFFICES ASSUME NEW c \in Chats, chatPending[c] # None
             PROVE  EntryHolds(c)
  BY DEF EntryHolds
<1> DEFINE a == chatPending[c].attempt
<1>1. a \in Ids /\ owner[a] = c
      /\ \/ pending[a] = [no |-> shown[c], kind |-> chatPending[c].kind]
         \/ status[a] \in Terminal
      /\ shown[c] \in Nat /\ chatPending[c].kind \in Kinds
  BY DEF IndInv, ChatInv
<1>2. [no |-> shown[c], kind |-> chatPending[c].kind] # None
  BY <1>1, ConstantsAssumption
<1>3. /\ started' = started + 1 /\ started' \in Ids
      /\ owner' = [owner EXCEPT ![started'] = o]
      /\ \A b \in Ids : b # started' => status'[b] = status[b] /\ pending'[b] = pending[b]
  BY BeginStep DEF IndInv
<1>4. status[started'] = "none" /\ pending[started'] = None
  BY <1>3, ConstantsAssumption DEF IndInv, BrokerInv, BrokerTypes, StatusesInv, NoPromptDangles
<1>5. a # started'
  BY <1>1, <1>2, <1>4 DEF Terminal
<1> QED
  BY <1>1, <1>3, <1>5 DEF EntryHolds, IndInv, BrokerInv, BrokerTypes

\* What settles the prompt of an attempt concerns no entry of another owner.
LEMMA EntriesOfOthers ==
  ASSUME IndInv, NEW a \in Ids, UNCHANGED owner,
         \A b \in Ids : b # a => status'[b] = status[b] /\ pending'[b] = pending[b],
         NEW c \in Chats, owner[a] # c \/ status'[a] \in Terminal
  PROVE  EntryHolds(c)
BY DEF EntryHolds, IndInv, ChatInv

--------------------------------------------------------------------------------
\* Steps of the users.

LEMMA KeptFacts ==
  ASSUME IndInv
  PROVE  /\ Kept \subseteq attempts /\ Kept \subseteq 1..started /\ attempts \subseteq Ids
         /\ Cardinality(Kept) <= MaxAttempts /\ Cardinality(attempts) <= MaxAttempts
         /\ IsFiniteSet(Kept) /\ IsFiniteSet(attempts)
         /\ \A x : ~Full => Cardinality(Kept \cup {x}) <= MaxAttempts
<1>1. Kept \subseteq attempts /\ attempts \subseteq 1..started /\ Cardinality(attempts) <= MaxAttempts
  BY PruneKeeps DEF Kept, IndInv, MapInv
<1>2. IsFiniteSet(attempts)
  <2>1. started \in Int
    BY ConstantsAssumption DEF IndInv, BrokerInv, BrokerTypes
  <2>2. IsFiniteSet(1..started)
    BY <2>1, FS_Interval
  <2> QED
    BY <1>1, <2>2, FS_Subset
<1>3. IsFiniteSet(Kept) /\ Cardinality(Kept) <= Cardinality(attempts)
  BY <1>1, <1>2, FS_Subset
<1>4. Cardinality(Kept) \in Nat /\ Cardinality(attempts) \in Nat /\ MaxAttempts \in Nat
  BY <1>2, <1>3, FS_CardinalityType, ConstantsAssumption
<1>5. ASSUME NEW x, ~Full PROVE Cardinality(Kept \cup {x}) <= MaxAttempts
  <2>1. Cardinality(Kept) < MaxAttempts
    BY <1>4, <1>5 DEF Full
  <2>2. Cardinality(Kept \cup {x}) = IF x \in Kept THEN Cardinality(Kept) ELSE Cardinality(Kept) + 1
    BY <1>3, FS_AddElement
  <2> QED
    BY <1>4, <2>1, <2>2
<1>6. attempts \subseteq Ids
  BY <1>1, ConstantsAssumption DEF IndInv, BrokerInv, BrokerTypes, Ids
<1>7. Kept \subseteq 1..started
  BY <1>1
<1>8. Cardinality(Kept) <= MaxAttempts
  BY <1>1, <1>3, <1>4
<1> QED
  BY <1>1, <1>2, <1>3, <1>5, <1>6, <1>7, <1>8

\* What a step that leaves the broker's attempts alone preserves.
LEMMA UntouchedStep ==
  ASSUME IndInv, Untouched, now' \in Nat
  PROVE  BrokerInv' /\ UNCHANGED <<started, owner, status, pending>> /\ \A c \in Chats : EntryHolds(c)
<1>1. BrokerInv'
  BY DEF IndInv, BrokerInv, BrokerTypes, StatusesInv, NoPromptDangles, Untouched, fixed, providerSide
<1> QED
  BY <1>1 DEF IndInv, ChatInv, EntryHolds, Untouched, fixed

LEMMA MapKept ==
  ASSUME IndInv, UNCHANGED <<attempts, started>>
  PROVE  MapInv'
BY DEF IndInv, MapInv

LEMMA MapPruned ==
  ASSUME IndInv, UNCHANGED started, attempts' = Kept
  PROVE  MapInv'
<1>1. Kept \subseteq 1..started /\ Cardinality(Kept) <= MaxAttempts
  BY KeptFacts
<1> QED
  BY <1>1 DEF MapInv

LEMMA MapShown ==
  ASSUME IndInv, UNCHANGED started, NEW A, A = attempts \/ A = Kept, NEW c, NEW a,
         ShowAttempt(c, a, A)
  PROVE  MapInv'
<1>1. A \subseteq 1..started' /\ Cardinality(A) <= MaxAttempts
  BY KeptFacts DEF IndInv, MapInv
<1>2. started' \in Nat
  BY ConstantsAssumption DEF IndInv, BrokerInv, BrokerTypes
<1>3. attempts' = Pruned(A, status', updatedAt')
  BY DEF ShowAttempt
<1> QED
  BY <1>1, <1>2, <1>3, PruneStep

LEMMA ClientStep ==
  ASSUME IndInv, NEW o \in Clients, NEW p \in Providers, ClientStart(o, p)
  PROVE  IndInv'
<1>1. CASE Begin(o, p) /\ attempts' = Kept \cup {started + 1}
  <2>1. o \in Owners /\ now' = now /\ UNCHANGED chat
    BY DEF ClientStart, Owners
  <2>2. BrokerInv' /\ started' = started + 1 /\ started' \in Nat
    BY <1>1, <2>1, BeginStep, ConstantsAssumption DEF IndInv, Ids
  <2>3. ChatInv'
    BY <1>1, <2>1, EntriesOutliveBegin, ChatKept DEF IndInv
  <2>4. Cardinality(attempts') <= MaxAttempts
    BY <1>1, KeptFacts DEF Begin
  <2>5. attempts' \subseteq 1..started'
    BY <1>1, <2>2, KeptFacts, ConstantsAssumption DEF IndInv, BrokerInv, BrokerTypes
  <2> QED
    BY <2>2, <2>3, <2>4, <2>5 DEF IndInv, MapInv
<1>2. CASE attempts' = Kept /\ Untouched
  <2>1. UNCHANGED chat /\ now' \in Nat
    BY DEF ClientStart, IndInv, BrokerInv, BrokerTypes
  <2> QED
    BY <1>2, <2>1, UntouchedStep, MapPruned, ChatKept DEF IndInv
<1> QED
  BY <1>1, <1>2 DEF ClientStart

LEMMA ClientGetStep ==
  ASSUME IndInv, ClientGet
  PROVE  IndInv'
<1>1. UNCHANGED chat /\ now' \in Nat /\ attempts' = Kept /\ Untouched
  BY DEF ClientGet, IndInv, BrokerInv, BrokerTypes
<1> QED
  BY <1>1, UntouchedStep, MapPruned, ChatKept DEF IndInv

\* Input and cancel of a client.
LEMMA ClientSettleStep ==
  ASSUME IndInv, NEW o \in Clients, NEW a \in Ids, ClientInput(o, a) \/ ClientCancel(o, a)
  PROVE  IndInv'
<1>1. /\ now' = now /\ UNCHANGED <<attempts, chat>> /\ owner[a] = o /\ a \in attempts
      /\ \/ SubmitInput(a) /\ status[a] = "awaiting_input"
         \/ Cancel(a) /\ status[a] \notin Terminal
  BY DEF ClientInput, ClientCancel, Owned, Accepts
<1>2. a <= started
  BY <1>1, KeptFacts DEF IndInv, MapInv
<1>3. /\ BrokerInv' /\ UNCHANGED <<started, owner>>
      /\ \A b \in Ids : b # a => status'[b] = status[b] /\ pending'[b] = pending[b]
  BY <1>1, <1>2, SettleStep DEF IndInv
<1>4. MapInv'
  BY <1>1, <1>3, MapKept
<1>5. \A c \in Chats : owner[a] # c
  BY <1>1, ConstantsAssumption
<1>6. ChatInv'
  BY <1>1, <1>3, <1>5, EntriesOfOthers, ChatKept DEF IndInv
<1> QED
  BY <1>3, <1>4, <1>6 DEF IndInv

LEMMA TelegramStartStep ==
  ASSUME IndInv, NEW c \in Chats, NEW p \in Providers, TelegramStart(c, p)
  PROVE  IndInv'
<1>1. CASE Begin(c, p) /\ ShowAttempt(c, started + 1, Kept \cup {started + 1})
  <2>1. c \in Owners /\ now' = now
    BY DEF TelegramStart, Owners
  <2>2. /\ BrokerInv' /\ started' = started + 1 /\ started' \in Ids
        /\ owner' = [owner EXCEPT ![started'] = c]
    BY <1>1, <2>1, BeginStep DEF IndInv
  <2>3. owner'[started'] = c
    BY <2>2 DEF IndInv, BrokerInv, BrokerTypes
  <2>4. ChatInv'
    BY <1>1, <2>1, <2>2, <2>3, EntriesOutliveBegin, ShowStep DEF IndInv
  <2> DEFINE A == Kept \cup {started + 1}
  <2>5. Cardinality(A) <= MaxAttempts
    BY <1>1, KeptFacts DEF Begin
  <2>6. A \subseteq 1..started' /\ started' \in Nat
    BY <2>2, KeptFacts, ConstantsAssumption DEF IndInv, BrokerInv, BrokerTypes
  <2>7. attempts' = Pruned(A, status', updatedAt')
    BY <1>1 DEF ShowAttempt
  <2>8. MapInv'
    BY <2>5, <2>6, <2>7, PruneStep
  <2> QED
    BY <2>2, <2>4, <2>8 DEF IndInv
<1>2. ASSUME NEW a \in Active(c, p), Untouched, ShowAttempt(c, a, Kept)
      PROVE  IndInv'
  <2>1. now' \in Nat
    BY DEF TelegramStart, IndInv, BrokerInv, BrokerTypes
  <2>2. a \in Ids /\ owner[a] = c
    BY KeptFacts DEF Active
  <2>3. BrokerInv' /\ UNCHANGED <<started, owner>> /\ \A d \in Chats : EntryHolds(d)
    BY <1>2, <2>1, UntouchedStep
  <2>4. MapInv'
    BY <1>2, <2>3, MapShown
  <2>5. ChatInv'
    BY <1>2, <2>2, <2>3, ShowStep DEF IndInv
  <2> QED
    BY <2>3, <2>4, <2>5 DEF IndInv
<1>3. CASE attempts' = Kept /\ Untouched /\ UNCHANGED chat
  <2>1. now' \in Nat
    BY DEF TelegramStart, IndInv, BrokerInv, BrokerTypes
  <2> QED
    BY <1>3, <2>1, UntouchedStep, MapPruned, ChatKept DEF IndInv
<1> QED
  BY <1>1, <1>2, <1>3 DEF TelegramStart

LEMMA TelegramRefreshStep ==
  ASSUME IndInv, NEW c \in Chats, NEW a \in Ids, TelegramRefresh(c, a)
  PROVE  IndInv'
<1>1. now' \in Nat /\ owner[a] = c /\ Untouched /\ ShowAttempt(c, a, attempts)
  BY DEF TelegramRefresh, IndInv, BrokerInv, BrokerTypes
<1>2. BrokerInv' /\ UNCHANGED <<started, owner>> /\ \A d \in Chats : EntryHolds(d)
  BY <1>1, UntouchedStep
<1>3. MapInv'
  BY <1>1, <1>2, MapShown
<1>4. ChatInv'
  BY <1>1, <1>2, ShowStep DEF IndInv
<1> QED
  BY <1>2, <1>3, <1>4 DEF IndInv

LEMMA TelegramCancelStep ==
  ASSUME IndInv, NEW c \in Chats, NEW a \in Ids, TelegramCancel(c, a)
  PROVE  IndInv'
<1>1. now' = now /\ now' \in Nat /\ owner[a] = c /\ a \in attempts /\ ShowAttempt(c, a, attempts)
  BY DEF TelegramCancel, Owned, IndInv, BrokerInv, BrokerTypes
<1>2. CASE Untouched
  <2>1. BrokerInv' /\ UNCHANGED <<started, owner>> /\ \A d \in Chats : EntryHolds(d)
    BY <1>1, <1>2, UntouchedStep
  <2>2. MapInv'
    BY <1>1, <2>1, MapShown
  <2>3. ChatInv'
    BY <1>1, <2>1, ShowStep DEF IndInv
  <2> QED
    BY <2>1, <2>2, <2>3 DEF IndInv
<1>3. CASE Cancel(a) /\ status[a] \notin Terminal
  <2>1. a <= started
    BY <1>1, KeptFacts DEF IndInv, MapInv
  <2>2. /\ BrokerInv' /\ UNCHANGED <<started, owner>>
        /\ \A b \in Ids : b # a => status'[b] = status[b] /\ pending'[b] = pending[b]
    BY <1>1, <1>3, <2>1, SettleStep DEF IndInv
  <2>3. status'[a] \in Terminal
    BY <1>3 DEF Cancel, Terminal, IndInv, BrokerInv, BrokerTypes
  <2>4. \A d \in Chats : EntryHolds(d)
    BY <2>2, <2>3, EntriesOfOthers
  <2>5. MapInv'
    BY <1>1, <2>2, MapShown
  <2>6. ChatInv'
    BY <1>1, <2>2, <2>4, ShowStep DEF IndInv
  <2> QED
    BY <2>2, <2>5, <2>6 DEF IndInv
<1> QED
  BY <1>2, <1>3 DEF TelegramCancel

LEMMA TelegramInputStep ==
  ASSUME IndInv, NEW c \in Chats, TelegramInput(c)
  PROVE  IndInv'
<1> DEFINE a == chatPending[c].attempt
<1>1. chatPending[c] # None /\ a \in Ids /\ owner[a] = c /\ now' = now /\ now' \in Nat
  BY DEF TelegramInput, IndInv, ChatInv, BrokerInv, BrokerTypes
<1>2. CASE /\ chatPending' = [chatPending EXCEPT ![c] = None]
           /\ shown' = [shown EXCEPT ![c] = 0]
           /\ attempts' = Kept /\ Untouched
  <2>1. BrokerInv' /\ UNCHANGED <<started, owner>> /\ \A d \in Chats : EntryHolds(d)
    BY <1>1, <1>2, UntouchedStep
  <2>2. /\ chatPending'[c] = None
        /\ \A d \in Chats : d # c => chatPending'[d] = chatPending[d] /\ shown'[d] = shown[d]
    BY <1>2 DEF IndInv, ChatInv
  <2>3. ChatInv'
    BY <1>2, <2>1, <2>2 DEF IndInv, ChatInv, EntryHolds
  <2>4. MapInv'
    BY <1>2, <2>1, MapPruned
  <2> QED
    BY <2>1, <2>3, <2>4 DEF IndInv
<1>3. CASE Untouched /\ ShowAttempt(c, a, Kept)
  <2>1. BrokerInv' /\ UNCHANGED <<started, owner>> /\ \A d \in Chats : EntryHolds(d)
    BY <1>1, <1>3, UntouchedStep
  <2>2. MapInv'
    BY <1>3, <2>1, MapShown
  <2>3. ChatInv'
    BY <1>1, <1>3, <2>1, ShowStep DEF IndInv
  <2> QED
    BY <2>1, <2>2, <2>3 DEF IndInv
<1>4. CASE a \in Kept /\ SubmitInput(a) /\ status[a] = "awaiting_input" /\ ShowAttempt(c, a, Kept)
  <2>1. /\ BrokerInv' /\ UNCHANGED <<started, owner>>
        /\ \A b \in Ids : b # a => status'[b] = status[b] /\ pending'[b] = pending[b]
    BY <1>1, <1>4, SettleStep DEF IndInv
  <2>2. status'[a] = "running"
    BY <1>1, <1>4 DEF SubmitInput, IndInv, BrokerInv, BrokerTypes
  <2>3. attempts' = Pruned(Kept, status', updatedAt')
    BY <1>4 DEF ShowAttempt
  <2>4. a \in attempts'
    BY <1>4, <2>2, <2>3, PruneKeeps DEF Terminal
  <2>5. \A d \in Chats : d # c => EntryHolds(d)
    BY <1>1, <2>1, EntriesOfOthers
  <2>6. MapInv'
    BY <1>4, <2>1, MapShown
  <2>7. owner'[a] = c
    BY <1>1, <2>1
  <2>8. ChatInv'
    BY <1>1, <1>4, <2>1, <2>4, <2>5, <2>7, ShowStep DEF IndInv
  <2> QED
    BY <2>1, <2>6, <2>8 DEF IndInv
<1> QED
  BY <1>2, <1>3, <1>4 DEF TelegramInput, Accepts

--------------------------------------------------------------------------------
\* Steps of the provider, of runAttempt and of the clock.

\* An attempt that asks waited for nothing, so that no chat has an entry for it.
LEMMA AskStep ==
  ASSUME IndInv, NEW a \in Ids, NEW k \in Kinds, Ask(a, k)
  PROVE  IndInv'
<1> DEFINE prompt == [no |-> asked[a] + 1, kind |-> k]
<1>1. prompt \in Prompts /\ prompt # None
  BY ConstantsAssumption DEF Prompts, IndInv, BrokerInv, BrokerTypes
<1>2. login[a] = "working" /\ status[a] \notin Terminal /\ pending[a] = None
      /\ now' \in Nat /\ UNCHANGED <<fixed, attempts, login, chat>>
  BY DEF Ask, Free, MayAsk, IndInv, BrokerInv, BrokerTypes
<1>3. /\ status' = [status EXCEPT ![a] = "awaiting_input"]
      /\ pending' = [pending EXCEPT ![a] = prompt]
      /\ asked' = [asked EXCEPT ![a] = prompt.no]
      /\ promises' = [promises EXCEPT ![a] = {prompt.no}]
      /\ \E awaited \in BOOLEAN : waits' = [waits EXCEPT ![a] = awaited]
      /\ updatedAt' = [updatedAt EXCEPT ![a] = now] /\ now' = now
  BY <1>2 DEF Ask, IndInv, BrokerInv, BrokerTypes, NoPromptDangles
<1>4. BrokerTypes'
  BY <1>1, <1>2, <1>3 DEF IndInv, BrokerInv, BrokerTypes, fixed, Prompts
<1>5. StatusesInv'
  BY <1>2, <1>3 DEF IndInv, BrokerInv, BrokerTypes, StatusesInv, fixed
<1>6. NoPromptDangles'
  BY <1>1, <1>3 DEF IndInv, BrokerInv, BrokerTypes, NoPromptDangles
<1>7. ASSUME NEW c \in Chats, chatPending[c] # None PROVE EntryHolds(c)
  <2> DEFINE b == chatPending[c].attempt
  <2>1. /\ b \in Ids /\ owner[b] = c /\ shown[c] \in Nat /\ chatPending[c].kind \in Kinds
        /\ \/ pending[b] = [no |-> shown[c], kind |-> chatPending[c].kind]
           \/ status[b] \in Terminal
    BY <1>7 DEF IndInv, ChatInv
  <2>2. [no |-> shown[c], kind |-> chatPending[c].kind] # None
    BY <2>1, ConstantsAssumption
  <2>3. b # a
    BY <1>2, <2>1, <2>2
  <2> QED
    BY <1>2, <1>3, <2>1, <2>3 DEF EntryHolds, fixed, IndInv, BrokerInv, BrokerTypes
<1>8. ChatInv'
  BY <1>2, <1>7, ChatKept DEF IndInv, EntryHolds
<1> QED
  BY <1>2, <1>4, <1>5, <1>6, <1>8, MapKept DEF IndInv, BrokerInv, fixed

LEMMA RunAttemptEndsStep ==
  ASSUME IndInv, NEW a \in Ids, RunAttemptEnds(a)
  PROVE  IndInv'
<1>1. /\ login[a] \in {"resolved", "rejected"}
      /\ login' = [login EXCEPT ![a] = "ended"]
      /\ \E s \in Terminal : status' = [status EXCEPT ![a] = s]
      /\ pending' = [pending EXCEPT ![a] = None]
      /\ promises' = [promises EXCEPT ![a] = {}]
      /\ updatedAt' = [updatedAt EXCEPT ![a] = now] /\ now' = now
      /\ UNCHANGED <<fixed, attempts, asked, waits, chat>>
  BY DEF RunAttemptEnds, Outcome, Terminal
<1>2. BrokerTypes'
  BY <1>1 DEF IndInv, BrokerInv, BrokerTypes, fixed
<1>3. StatusesInv'
  BY <1>1 DEF IndInv, BrokerInv, BrokerTypes, StatusesInv, fixed, Terminal
<1>4. NoPromptDangles'
  BY <1>1 DEF IndInv, BrokerInv, BrokerTypes, NoPromptDangles, Terminal
<1>5. \A c \in Chats : EntryHolds(c)
  <2>1. /\ UNCHANGED owner /\ status'[a] \in Terminal
        /\ \A b \in Ids : b # a => status'[b] = status[b] /\ pending'[b] = pending[b]
    BY <1>1 DEF fixed, IndInv, BrokerInv, BrokerTypes
  <2> QED
    BY <2>1, EntriesOfOthers
<1>6. ChatInv'
  BY <1>1, <1>5, ChatKept DEF IndInv
<1> QED
  BY <1>1, <1>2, <1>3, <1>4, <1>6, MapKept DEF IndInv, BrokerInv, fixed

LEMMA QuietStep ==
  ASSUME IndInv, NEW a \in Ids, Report(a) \/ LoginSettles(a) \/ TimePasses
  PROVE  IndInv'
<1>1. /\ UNCHANGED <<fixed, attempts, status, pending, asked, promises, waits, chat>>
      /\ updatedAt' \in [Ids -> Nat] /\ now' \in Nat
      /\ \/ UNCHANGED login
         \/ /\ login[a] = "working"
            /\ \E x \in {"resolved", "rejected"} : login' = [login EXCEPT ![a] = x]
  BY DEF Report, LoginSettles, TimePasses, Free, providerSide, IndInv, BrokerInv, BrokerTypes
<1>2. BrokerTypes'
  BY <1>1 DEF IndInv, BrokerInv, BrokerTypes, fixed
<1>3. StatusesInv'
  BY <1>1 DEF IndInv, BrokerInv, BrokerTypes, StatusesInv, fixed
<1>4. NoPromptDangles'
  BY <1>1 DEF IndInv, BrokerInv, NoPromptDangles
<1>5. ChatInv'
  BY <1>1 DEF IndInv, ChatInv, chat, fixed
<1> QED
  BY <1>1, <1>2, <1>3, <1>4, <1>5, MapKept DEF IndInv, BrokerInv, fixed

--------------------------------------------------------------------------------
\* Theorems.

\* The whole invariant holds in the initial state and is kept by every step.
THEOREM InductiveInvariant == Spec => []IndInv
<1>1. Init => IndInv
  <2> SUFFICES ASSUME Init PROVE IndInv
    OBVIOUS
  <2>1. BrokerTypes
    BY ConstantsAssumption DEF Init, BrokerTypes
  <2>2. StatusesInv /\ NoPromptDangles
    BY DEF Init, StatusesInv, NoPromptDangles
  <2>3. Cardinality({}) = 0 /\ 0 <= MaxAttempts
    BY FS_EmptySet, ConstantsAssumption
  <2>4. MapInv /\ ChatInv
    BY <2>3 DEF Init, MapInv, ChatInv
  <2> QED
    BY <2>1, <2>2, <2>4 DEF IndInv, BrokerInv
<1>2. IndInv /\ [Next]_vars => IndInv'
  <2> SUFFICES ASSUME IndInv, [Next]_vars PROVE IndInv'
    OBVIOUS
  <2>1. CASE Users
    BY <2>1, ClientStep, ClientGetStep, ClientSettleStep, TelegramStartStep, TelegramRefreshStep,
       TelegramCancelStep, TelegramInputStep DEF Users
  <2>2. CASE \E a \in Ids : LoginSettles(a) \/ RunAttemptEnds(a) \/ Report(a)
    BY <2>2, RunAttemptEndsStep, QuietStep
  <2>3. CASE \E a \in Ids, k \in Kinds : Ask(a, k)
    BY <2>3, AskStep
  <2>4. CASE TimePasses
    <3>1. ASSUME NEW a \in Ids PROVE IndInv'
      BY <2>4, QuietStep
    <3>2. CASE Ids = {}
      BY <2>4, <3>2 DEF TimePasses, IndInv, BrokerInv, BrokerTypes, StatusesInv, NoPromptDangles,
         MapInv, ChatInv, fixed, providerSide, chat
    <3> QED
      BY <3>1, <3>2
  <2>5. CASE UNCHANGED vars
    BY <2>5 DEF vars, fixed, providerSide, chat, IndInv, BrokerInv, BrokerTypes, StatusesInv,
       NoPromptDangles, MapInv, ChatInv
  <2> QED
    BY <2>1, <2>2, <2>3, <2>4, <2>5 DEF Next, System
<1> QED
  BY <1>1, <1>2, PTL DEF Spec

\* Every variable of the broker, of the logins and of the chats keeps its type.
THEOREM TypeCorrect == Spec => []TypeOK
<1>1. IndInv => TypeOK
  BY DEF IndInv, BrokerInv, BrokerTypes, MapInv, ChatInv, TypeOK
<1> QED
  BY <1>1, InductiveInvariant, PTL

\* A prompt without an answer is always the one its attempt waits for.
THEOREM PromptsAreHeld == Spec => []NoPromptDangles
<1>1. IndInv => NoPromptDangles
  BY DEF IndInv, BrokerInv
<1> QED
  BY <1>1, InductiveInvariant, PTL

\* What a chat's next input answers is the prompt the chat was shown last.
THEOREM InputMeetsItsPrompt == Spec => []ShownPromptIsCurrent
<1>1. IndInv => ShownPromptIsCurrent
  <2> SUFFICES ASSUME IndInv, NEW c \in Chats, chatPending[c] # None,
                      pending[chatPending[c].attempt] # None
               PROVE  pending[chatPending[c].attempt] = [no |-> shown[c], kind |-> chatPending[c].kind]
    BY DEF ShownPromptIsCurrent
  <2>1. chatPending[c].attempt \in Ids
    BY DEF IndInv, ChatInv
  <2>2. status[chatPending[c].attempt] \notin Terminal
    BY <2>1 DEF IndInv, BrokerInv, NoPromptDangles, Terminal
  <2> QED
    BY <2>2 DEF IndInv, ChatInv
<1> QED
  BY <1>1, InductiveInvariant, PTL

--------------------------------------------------------------------------------
\* The fate of an attempt.

MovesOn(a) == IF status[a] \in Terminal THEN status'[a] = status[a] ELSE a \in attempts'

\* Pruned after an outcome or none, the map keeps what has not ended before the step.
LEMMA ShownMovesOn ==
  ASSUME IndInv, NEW A, A = attempts \/ A = Kept, NEW c, NEW b, ShowAttempt(c, b, A),
         NEW a \in attempts, status[a] \notin Terminal,
         \/ status'[a] \notin Terminal
         \/ A = attempts /\ updatedAt'[a] = now
  PROVE  a \in attempts'
<1>1. attempts' = Pruned(A, status', updatedAt')
  BY DEF ShowAttempt
<1>2. a \in A
  BY PruneKeeps DEF Kept
<1>3. CASE status'[a] \notin Terminal
  BY <1>1, <1>2, <1>3, PruneKeeps
<1>4. CASE A = attempts /\ updatedAt'[a] = now
  <2>1. ~Expired(a, status', updatedAt')
    BY <1>4, ConstantsAssumption DEF Expired, IndInv, BrokerInv, BrokerTypes
  <2>2. IsFiniteSet(A) /\ Cardinality(A) <= MaxAttempts
    BY <1>4, KeptFacts
  <2> QED
    BY <1>1, <1>2, <2>1, <2>2, PruneByAge
<1> QED
  BY <1>3, <1>4

LEMMA UsersMoveOn ==
  ASSUME IndInv, Users, NEW a \in attempts
  PROVE  MovesOn(a)
<1>0. a \in Ids /\ a <= started /\ started \in Nat
  BY KeptFacts, ConstantsAssumption DEF IndInv, MapInv, BrokerInv, BrokerTypes
<1>1. Untouched /\ attempts' = Kept => MovesOn(a)
  BY PruneKeeps DEF Untouched, Kept, MovesOn
<1>2. ASSUME NEW c, NEW b, NEW A, A = attempts \/ A = Kept, Untouched, ShowAttempt(c, b, A)
      PROVE  MovesOn(a)
  BY <1>2, ShownMovesOn DEF Untouched, MovesOn
<1>3. ASSUME NEW o \in Owners, NEW p \in Providers, Begin(o, p), now' = now PROVE status'[a] = status[a]
  BY <1>0, <1>3, BeginStep DEF IndInv
<1>4. ASSUME NEW b \in Ids, SubmitInput(b), status[b] = "awaiting_input", status[a] \in Terminal
      PROVE  status'[a] = status[a]
  BY <1>0, <1>4 DEF SubmitInput, Terminal, IndInv, BrokerInv, BrokerTypes
<1>5. ASSUME NEW b \in Ids, SubmitInput(b), status[b] = "awaiting_input", status[a] \notin Terminal
      PROVE  status'[a] \notin Terminal
  BY <1>0, <1>5 DEF SubmitInput, Terminal, IndInv, BrokerInv, BrokerTypes
<1>6. ASSUME NEW o \in Clients, NEW p \in Providers, ClientStart(o, p) PROVE MovesOn(a)
  <2>1. CASE Begin(o, p) /\ attempts' = Kept \cup {started + 1}
    <3>1. status'[a] = status[a]
      BY <1>3, <1>6, <2>1 DEF ClientStart, Owners
    <3> QED
      BY <2>1, <3>1, PruneKeeps DEF MovesOn, Kept
  <2> QED
    BY <1>1, <1>6, <2>1 DEF ClientStart
<1>7. ClientGet => MovesOn(a)
  BY <1>1 DEF ClientGet
<1>8. ASSUME NEW o \in Clients, NEW b \in Ids, ClientInput(o, b) PROVE MovesOn(a)
  BY <1>4, <1>8 DEF ClientInput, Accepts, MovesOn
<1>9. ASSUME NEW o \in Clients, NEW b \in Ids, ClientCancel(o, b) PROVE MovesOn(a)
  BY <1>0, <1>9 DEF ClientCancel, Cancel, MovesOn, IndInv, BrokerInv, BrokerTypes
<1>10. ASSUME NEW c \in Chats, NEW p \in Providers, TelegramStart(c, p) PROVE MovesOn(a)
  <2>1. CASE Begin(c, p) /\ ShowAttempt(c, started + 1, Kept \cup {started + 1})
    <3>1. status'[a] = status[a]
      BY <1>3, <1>10, <2>1 DEF TelegramStart, Owners
    <3>2. attempts' = Pruned(Kept \cup {started + 1}, status', updatedAt')
      BY <2>1 DEF ShowAttempt
    <3> QED
      BY <3>1, <3>2, PruneKeeps DEF MovesOn, Kept
  <2>2. CASE \E b \in Active(c, p) : Untouched /\ ShowAttempt(c, b, Kept)
    BY <1>2, <2>2
  <2> QED
    BY <1>1, <1>10, <2>1, <2>2 DEF TelegramStart
<1>11. ASSUME NEW c \in Chats, NEW b \in Ids, TelegramRefresh(c, b) PROVE MovesOn(a)
  BY <1>2, <1>11 DEF TelegramRefresh
<1>12. ASSUME NEW c \in Chats, NEW b \in Ids, TelegramCancel(c, b) PROVE MovesOn(a)
  <2>1. CASE Cancel(b) /\ status[b] \notin Terminal
    <3>1. /\ \A x \in Ids : x # b => status'[x] = status[x]
          /\ updatedAt'[b] = now
      BY <2>1 DEF Cancel, IndInv, BrokerInv, BrokerTypes
    <3>2. CASE status[a] \in Terminal
      BY <1>0, <2>1, <3>1, <3>2 DEF MovesOn
    <3>3. CASE status[a] \notin Terminal
      <4>1. status'[a] \notin Terminal \/ updatedAt'[a] = now
        BY <1>0, <3>1, <3>3
      <4>2. ShowAttempt(c, b, attempts)
        BY <1>12 DEF TelegramCancel
      <4> QED
        BY <3>3, <4>1, <4>2, ShownMovesOn DEF MovesOn
    <3> QED
      BY <3>2, <3>3
  <2>2. CASE Untouched
    BY <1>2, <1>12, <2>2 DEF TelegramCancel
  <2> QED
    BY <1>12, <2>1, <2>2 DEF TelegramCancel
<1>13. ASSUME NEW c \in Chats, TelegramInput(c) PROVE MovesOn(a)
  <2> DEFINE b == chatPending[c].attempt
  <2>1. CASE SubmitInput(b) /\ status[b] = "awaiting_input" /\ ShowAttempt(c, b, Kept)
    <3>1. b \in Ids
      BY <1>13 DEF TelegramInput, IndInv, ChatInv
    <3> QED
      BY <1>4, <1>5, <2>1, <3>1, ShownMovesOn DEF MovesOn
  <2>2. CASE Untouched /\ ShowAttempt(c, b, Kept)
    BY <1>2, <2>2
  <2>3. CASE Untouched /\ attempts' = Kept
    BY <1>1, <2>3
  <2> QED
    BY <1>13, <2>1, <2>2, <2>3 DEF TelegramInput, Accepts
<1> QED
  BY <1>6, <1>7, <1>8, <1>9, <1>10, <1>11, <1>12, <1>13 DEF Users

LEMMA SystemMovesOn ==
  ASSUME IndInv, System, NEW a \in attempts
  PROVE  MovesOn(a)
<1>0. a \in Ids
  BY KeptFacts
<1>1. ASSUME NEW b \in Ids, LoginSettles(b) \/ Report(b) PROVE MovesOn(a)
  BY <1>1 DEF LoginSettles, Report, MovesOn
<1>2. ASSUME NEW b \in Ids, RunAttemptEnds(b) PROVE MovesOn(a)
  <2>1. /\ attempts' = attempts /\ status' = [status EXCEPT ![b] = Outcome(b)]
        /\ status[b] \in Terminal => status[b] = "cancelled"
    BY <1>2 DEF RunAttemptEnds, IndInv, BrokerInv, StatusesInv, Terminal
  <2> QED
    BY <1>0, <2>1 DEF MovesOn, Outcome, IndInv, BrokerInv, BrokerTypes
<1>3. ASSUME NEW b \in Ids, NEW k \in Kinds, Ask(b, k) PROVE MovesOn(a)
  BY <1>0, <1>3 DEF Ask, MayAsk, MovesOn, IndInv, BrokerInv, BrokerTypes
<1>4. TimePasses => MovesOn(a)
  BY DEF TimePasses, MovesOn
<1> QED
  BY <1>1, <1>2, <1>3, <1>4 DEF System

\* No step forgets an attempt that is under way or changes an outcome.
THEOREM OutcomesLast == Spec => AttemptsMoveOn
<1>1. ASSUME IndInv, [Next]_vars
      PROVE  \A a \in attempts :
               IF status[a] \in Terminal THEN status'[a] = status[a] ELSE a \in attempts'
  <2>1. CASE Next
    BY <1>1, <2>1, UsersMoveOn, SystemMovesOn DEF Next, MovesOn
  <2>2. CASE UNCHANGED vars
    BY <2>2 DEF vars
  <2> QED
    BY <1>1, <2>1, <2>2
<1> QED
  BY <1>1, InductiveInvariant, PTL DEF Spec, AttemptsMoveOn

\* The map only grows by an attempt that start begins.
Grows ==
  \/ attempts' \subseteq attempts /\ UNCHANGED fixed
  \/ \E o \in Owners, p \in Providers :
       Begin(o, p) /\ now' = now /\ attempts' \subseteq Kept \cup {started + 1}

LEMMA StepGrows ==
  ASSUME IndInv, Next
  PROVE  Grows
<1>1. Kept \subseteq attempts
  BY KeptFacts
<1>2. ASSUME NEW A, NEW c, NEW a, ShowAttempt(c, a, A) PROVE attempts' \subseteq A
  BY <1>2, PruneKeeps DEF ShowAttempt
<1>3. ASSUME NEW o \in Clients, NEW p \in Providers, ClientStart(o, p) PROVE Grows
  BY <1>1, <1>3 DEF ClientStart, Untouched, Owners, Grows
<1>4. ASSUME NEW c \in Chats, NEW p \in Providers, TelegramStart(c, p) PROVE Grows
  <2>1. CASE Begin(c, p) /\ ShowAttempt(c, started + 1, Kept \cup {started + 1})
    <3>1. c \in Owners /\ now' = now
      BY <1>4 DEF TelegramStart, Owners
    <3>2. attempts' \subseteq Kept \cup {started + 1}
      BY <1>2, <2>1
    <3> QED
      BY <2>1, <3>1, <3>2 DEF Grows
  <2>2. ASSUME NEW a \in Active(c, p), Untouched, ShowAttempt(c, a, Kept) PROVE Grows
    BY <1>1, <1>2, <2>2 DEF Untouched, Grows
  <2> QED
    BY <1>1, <1>4, <2>1, <2>2 DEF TelegramStart, Untouched, Grows
<1>5. ASSUME NEW c \in Chats, NEW a \in Ids, TelegramRefresh(c, a) \/ TelegramCancel(c, a) PROVE Grows
  <2>1. UNCHANGED fixed /\ ShowAttempt(c, a, attempts)
    BY <1>5 DEF TelegramRefresh, TelegramCancel, Cancel, Untouched, fixed
  <2> QED
    BY <1>2, <2>1 DEF Grows
<1>6. ASSUME NEW c \in Chats, TelegramInput(c) PROVE Grows
  <2>1. UNCHANGED fixed /\ (attempts' = Kept \/ ShowAttempt(c, chatPending[c].attempt, Kept))
    BY <1>6 DEF TelegramInput, SubmitInput, Untouched, fixed
  <2> QED
    BY <1>1, <1>2, <2>1 DEF Grows
<1>7. ASSUME NEW o \in Clients, NEW a \in Ids, ClientInput(o, a) \/ ClientCancel(o, a) PROVE Grows
  BY <1>7 DEF ClientInput, ClientCancel, SubmitInput, Cancel, Grows
<1>8. ClientGet => Grows
  BY <1>1 DEF ClientGet, Untouched, Grows
<1>9. System => Grows
  BY DEF System, LoginSettles, RunAttemptEnds, Report, Ask, TimePasses, Grows
<1> QED
  BY <1>3, <1>4, <1>5, <1>6, <1>7, <1>8, <1>9 DEF Next, Users

\* An owner never has two attempts under way with one provider.
THEOREM LiveAttemptIsUnique == Spec => []OneLiveAttempt
<1>1. Init => OneLiveAttempt
  BY DEF Init, OneLiveAttempt
<1>2. ASSUME IndInv, OneLiveAttempt, [Next]_vars PROVE OneLiveAttempt'
  <2>1. CASE UNCHANGED vars
    BY <1>2, <2>1 DEF vars, fixed, OneLiveAttempt
  <2>2. CASE Next
    <3>1. \A a \in attempts : status'[a] \notin Terminal => status[a] \notin Terminal
      BY <1>2, <2>2, UsersMoveOn, SystemMovesOn DEF Next, MovesOn
    <3>2. CASE attempts' \subseteq attempts /\ UNCHANGED fixed
      BY <1>2, <3>1, <3>2 DEF OneLiveAttempt, fixed
    <3>3. ASSUME NEW o \in Owners, NEW p \in Providers, Begin(o, p), now' = now,
                 attempts' \subseteq Kept \cup {started + 1}
          PROVE  OneLiveAttempt'
      <4> DEFINE n == started + 1
      <4>1. n \in Ids /\ Kept \subseteq 1..started /\ started \in Nat /\ n \notin Kept
        BY <1>2, <3>3, BeginStep, KeptFacts, ConstantsAssumption DEF IndInv, BrokerInv, BrokerTypes
      <4>2. /\ owner' = [owner EXCEPT ![n] = o] /\ provider' = [provider EXCEPT ![n] = p]
            /\ owner'[n] = o /\ provider'[n] = p
        BY <1>2, <3>3, <4>1 DEF Begin, IndInv, BrokerInv, BrokerTypes
      <4>3. \A a \in Kept : owner'[a] = owner[a] /\ provider'[a] = provider[a] /\ a \in attempts
        BY <1>2, <4>1, <4>2, KeptFacts DEF IndInv, BrokerInv, BrokerTypes
      <4>4. \A a \in Kept : status[a] \notin Terminal => ~(owner[a] = o /\ provider[a] = p)
        BY <3>3 DEF Begin, Active
      <4> QED
        BY <1>2, <3>1, <3>3, <4>2, <4>3, <4>4 DEF OneLiveAttempt
    <3> QED
      BY <1>2, <2>2, <3>2, <3>3, StepGrows DEF Grows
  <2> QED
    BY <1>2, <2>1, <2>2
<1> QED
  BY <1>1, <1>2, InductiveInvariant, PTL DEF Spec
================================================================================
