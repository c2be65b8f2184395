---------------------------- MODULE InputImagesProofs ----------------------------
(***************************************************************************)
(* Proofs about InputImages, for every number of updates, chats, API         *)
(* messages and images, every limit, time to live and bound.                *)
(***************************************************************************)
EXTENDS InputImages, FiniteSetTheorems, WellFoundedInduction, TLAPS

\* There are finitely many rows, so their positions are bounded.
PositionsBounded == \E b \in Nat : \A i \in DOMAIN rows : rows[i].pos <= b

Inv ==
  TypeOK /\ RowsInv /\ BoundInv /\ ClaimInv /\ AttachOrder /\ ScopesDoNotMix /\ PositionsBounded

--------------------------------------------------------------------------------
\* Positions.

LEMMA LeastNumber ==
  ASSUME NEW T, T \subseteq Nat, T # {}
  PROVE  \E x \in T : \A y \in T : x <= y
<1> DEFINE R == OpToRel(<, Nat)
<1>1. IsWellFoundedOn(R, Nat)
  BY NatLessThanWellFounded
<1> HIDE DEF R
<1>2. PICK x \in T : \A y \in T : ~ (<<y, x>> \in R)
  BY <1>1, WFMin
<1>3. \A y \in T : ~ (y < x)
  BY <1>2 DEF R, OpToRel
<1>4. \A y \in T : x <= y
  BY <1>3, x \in Nat, \A y \in T : y \in Nat
<1> QED BY <1>4

\* A bounded set of positions has a greatest one.
LEMMA GreatestIsThere ==
  ASSUME NEW S, S \subseteq Nat, S # {}, NEW b \in Nat, \A q \in S : q <= b
  PROVE  Greatest(S) \in S /\ \A q \in S : q <= Greatest(S)
<1> DEFINE T == {p \in Nat : \A q \in S : q <= p}
<1>1. PICK m \in T : \A y \in T : m <= y
  BY LeastNumber, b \in T
<1>2. m \in S
  <2> SUFFICES ASSUME m \notin S PROVE FALSE
    OBVIOUS
  <2>1. PICK s \in S : TRUE
    OBVIOUS
  <2>2. m - 1 \in Nat /\ \A q \in S : q <= m - 1
    BY <2>1
  <2> QED BY <1>1, <2>2
<1>3. \E p \in S : \A q \in S : q <= p
  BY <1>2
<1> QED BY <1>3 DEF Greatest

\* The position of an image that is buffered comes after those of the buffer.
LEMMA NextPositionIsNext ==
  ASSUME Inv, NEW s
  PROVE  /\ NextPosition(s) \in Nat
         /\ \A i \in Pending(s) : rows[i].pos < NextPosition(s)
         /\ \A b \in Nat : (\A i \in DOMAIN rows : rows[i].pos <= b) => NextPosition(s) <= b + 1
<1> DEFINE S == {rows[i].pos : i \in Pending(s)}
<1>1. S \subseteq Nat
  BY DEF Inv, TypeOK, Row, Pending, Fresh
<1>2. CASE Pending(s) = {}
  BY <1>2 DEF NextPosition
<1>3. CASE Pending(s) # {}
  <2>1. S # {}
    BY <1>3
  <2>2. PICK b \in Nat : \A i \in DOMAIN rows : rows[i].pos <= b
    BY DEF Inv, PositionsBounded
  <2>3. \A q \in S : q <= b
    BY <2>2 DEF Pending, Fresh
  <2>4. Greatest(S) \in S /\ \A q \in S : q <= Greatest(S)
    BY <1>1, <2>1, <2>3, GreatestIsThere
  <2>5. NextPosition(s) = 1 + Greatest(S)
    BY <1>3 DEF NextPosition
  <2>6. \A c \in Nat : (\A i \in DOMAIN rows : rows[i].pos <= c) => Greatest(S) <= c
    BY <2>4 DEF Pending, Fresh
  <2>7. \A i \in Pending(s) : rows[i].pos \in S
    OBVIOUS
  <2> HIDE DEF S
  <2>8. Greatest(S) \in Nat
    BY <1>1, <2>4
  <2>9. \A i \in Pending(s) : rows[i].pos \in Nat /\ rows[i].pos <= Greatest(S)
    BY <1>1, <2>4, <2>7
  <2>10. \A i \in Pending(s) : rows[i].pos < NextPosition(s)
    BY <2>5, <2>8, <2>9
  <2>11. \A c \in Nat : Greatest(S) <= c => NextPosition(s) <= c + 1
    BY <2>5, <2>8
  <2> QED BY <2>5, <2>6, <2>8, <2>10, <2>11
<1> QED BY <1>2, <1>3

--------------------------------------------------------------------------------
\* The transactions of the store.

RowsTyped == DOMAIN rows \subseteq Images /\ \A i \in DOMAIN rows : rows[i] \in Row

Kept ==
  RowsTyped /\ RowsInv /\ BoundInv /\ ClaimInv /\ AttachOrder /\ ScopesDoNotMix /\ PositionsBounded

\* Images of API messages are not those of Telegram, and belong to one message.
LEMMA OwnImages ==
  /\ \A a \in Apis : a \in Runs /\ a \notin UpdateIds /\ Own(a) \cap Telegram = {}
  /\ \A a, c \in Apis : a # c => Own(a) \cap Own(c) = {}
  /\ \A u \in UpdateIds : u \in Runs /\ Own(u) = {}
  /\ \A r \in Runs : Own(r) \subseteq Images /\ \A i \in Own(r) : i[2] \in Nat
  /\ \A a \in Apis : \A i, j \in Own(a) : i # j => i[2] # j[2]
  /\ \A i \in Images : i \in Telegram \/ \E a \in Apis : i \in Own(a)
<1>1. UpdateIds \cap Apis = {} /\ ApiImages \in Nat
  BY ConstantsAssumption
<1>2. \A a \in Apis : a \in Runs /\ a \notin UpdateIds /\ Own(a) \cap Telegram = {}
  BY <1>1 DEF Runs, Own, Telegram
<1>3. \A a, c \in Apis : a # c => Own(a) \cap Own(c) = {}
  BY DEF Own
<1>4. \A u \in UpdateIds : u \in Runs /\ Own(u) = {}
  BY <1>1 DEF Runs, Own
<1>5. \A r \in Runs : Own(r) \subseteq Images /\ \A i \in Own(r) : i[2] \in Nat
  BY <1>1 DEF Own, Images
<1>6. \A a \in Apis : \A i, j \in Own(a) : i # j => i[2] # j[2]
  BY DEF Own
<1>7. \A i \in Images : i \in Telegram \/ \E a \in Apis : i \in Own(a)
  BY DEF Images
<1> QED BY <1>2, <1>3, <1>4, <1>5, <1>6, <1>7

\* Purging keeps what has not expired; deleting the rows of a run keeps the others.
LEMMA RemoveStep ==
  ASSUME Inv, NEW K, K \subseteq DOMAIN rows, rows' = [j \in K |-> rows[j]],
         UNCHANGED <<sent, runs, prompt, delivered, now>>,
         \A r \in Runs : stage'[r] = stage[r] \/ (stage'[r] = "done" /\ stage[r] # "idle"),
         \A i \in DOMAIN rows \ K :
           rows[i].expires <= now \/ (rows[i].run # NoRun /\ delivered[rows[i].run] # {})
  PROVE  Kept'
<1> USE DEF Inv, TypeOK, runs
<1>1. DOMAIN rows' = K /\ \A i \in K : rows'[i] = rows[i] /\ i \in DOMAIN rows
  OBVIOUS
<1>2. RowsTyped'
  BY <1>1 DEF RowsTyped
<1>3. RowsInv'
  BY <1>1 DEF RowsInv
<1>4. \A r \in Runs : Bound(r)' = Bound(r) \cap K
  BY <1>1 DEF Bound
<1>5. BoundInv'
  BY <1>1, <1>4 DEF BoundInv
<1>6. ClaimInv'
  <2> SUFFICES ASSUME NEW r \in Runs, status[r] # "none", delivered[r] = {}, now < born[r] + Ttl
               PROVE  claimed[r] \subseteq Bound(r)'
    BY DEF ClaimInv
  <2>1. claimed[r] \subseteq Bound(r)
    BY DEF ClaimInv
  <2>2. Bound(r) \subseteq K
    <3> SUFFICES ASSUME NEW i \in Bound(r), i \notin K PROVE FALSE
      OBVIOUS
    <3>1. i \in DOMAIN rows /\ rows[i].run = r /\ rows[i].expires = born[r] + Ttl
      BY DEF Bound, BoundInv
    <3>2. rows[i].expires <= now
      BY <3>1
    <3> QED BY <3>1, <3>2, ConstantsAssumption
  <2> QED BY <1>4, <2>1, <2>2
<1>7. AttachOrder'
  BY <1>1 DEF AttachOrder, Together
<1>8. ScopesDoNotMix'
  BY <1>1, <1>4 DEF ScopesDoNotMix
<1>9. PositionsBounded'
  BY <1>1 DEF PositionsBounded
<1> QED BY <1>2, <1>3, <1>5, <1>6, <1>7, <1>8, <1>9 DEF Kept

LEMMA PurgeStep ==
  ASSUME Inv, rows' = [j \in Fresh |-> rows[j]], UNCHANGED <<sent, runs, dispatch, now>>
  PROVE  Kept'
<1>1. Fresh \subseteq DOMAIN rows
  BY DEF Fresh
<1>2. \A i \in DOMAIN rows \ Fresh : rows[i].expires <= now
  BY DEF Fresh, Inv, TypeOK, Row
<1>3. UNCHANGED <<sent, runs, prompt, delivered, now>> /\ stage' = stage
  BY DEF dispatch
<1>4. \A i \in DOMAIN rows \ Fresh :
        rows[i].expires <= now \/ (rows[i].run # NoRun /\ delivered[rows[i].run] # {})
  BY <1>2
<1>5. \A r \in Runs : stage'[r] = stage[r] \/ (stage'[r] = "done" /\ stage[r] # "idle")
  BY <1>3
<1> QED BY <1>1, <1>3, <1>4, <1>5, RemoveStep

\* insertPendingTelegramImages
LEMMA InsertStep ==
  ASSUME Inv, NEW i \in Telegram, InsertPending(i), UNCHANGED <<sent, runs, dispatch, now>>
  PROVE  Kept'
<1> DEFINE s == sent[i[1]].scope
<1>1. CASE i \in Fresh
  BY <1>1, PurgeStep DEF InsertPending
<1>2. CASE UNCHANGED rows
  BY <1>2 DEF Inv, TypeOK, Kept, RowsTyped, RowsInv, BoundInv, ClaimInv, AttachOrder, Together,
              ScopesDoNotMix, PositionsBounded, Bound, runs, dispatch
<1>3. CASE /\ i \notin Fresh
           /\ rows' = [j \in Fresh \cup {i} |->
                        IF j = i THEN [run |-> NoRun, pos |-> NextPosition(s),
                                       created |-> now, expires |-> Expiry]
                        ELSE rows[j]]
  <2>1. /\ DOMAIN rows' = Fresh \cup {i}
        /\ rows'[i].run = NoRun /\ rows'[i].pos = NextPosition(s)
        /\ rows'[i].created = now /\ rows'[i].expires = Expiry
        /\ rows'[i] \in [run : {NoRun}, pos : {NextPosition(s)}, created : {now}, expires : {Expiry}]
    BY <1>3
  <2>2. \A j \in Fresh : j # i /\ j \in DOMAIN rows /\ rows'[j] = rows[j]
    BY <1>3 DEF Fresh
  <2>3. /\ NextPosition(s) \in Nat
        /\ \A j \in Pending(s) : rows[j].pos < NextPosition(s)
        /\ \A b \in Nat : (\A j \in DOMAIN rows : rows[j].pos <= b) => NextPosition(s) <= b + 1
    BY NextPositionIsNext
  <2>4. Expiry \in Nat /\ now \in Nat
    BY ConstantsAssumption DEF Expiry, Inv, TypeOK
  <2>5. NoRun \notin Runs /\ i \in Images
    BY ConstantsAssumption DEF Images
  <2>6. RowsTyped'
    BY <2>1, <2>2, <2>3, <2>4, <2>5 DEF RowsTyped, Inv, TypeOK, Row
  <2>7. RowsInv'
    <3>1. \A a \in Apis : i \notin Own(a)
      BY OwnImages
    <3> QED BY <2>1, <2>2, <2>4, <3>1 DEF Inv, RowsInv, runs, dispatch
  <2>8. \A r \in Runs : Bound(r)' = Bound(r) \cap Fresh
    BY <2>1, <2>2, <2>5 DEF Bound
  <2>9. BoundInv'
    BY <2>2, <2>8 DEF Inv, BoundInv, runs, dispatch
  <2>10. ClaimInv'
    <3> SUFFICES ASSUME NEW r \in Runs, status[r] # "none", delivered[r] = {}, now < born[r] + Ttl
                 PROVE  claimed[r] \subseteq Bound(r)'
      BY DEF ClaimInv, runs, dispatch
    <3>1. claimed[r] \subseteq Bound(r)
      BY DEF Inv, ClaimInv
    <3>2. Bound(r) \subseteq Fresh
      BY DEF Inv, BoundInv, Fresh, Bound
    <3> QED BY <2>8, <3>1, <3>2
  <2>11. AttachOrder'
    <3>1. \A j \in Fresh : Together(i, j)' \/ Together(j, i)' => j \in Pending(s)
      <4> SUFFICES ASSUME NEW j \in Fresh, Together(i, j)' \/ Together(j, i)'
                   PROVE  j \in Pending(s)
        OBVIOUS
      <4>1. rows[j].run = NoRun /\ sent[j[1]].scope = s
        BY <2>1, <2>2 DEF Together
      <4>2. j \in Telegram
        BY <2>2, <2>5, <4>1, OwnImages DEF Inv, TypeOK, RowsInv
      <4> QED BY <4>1, <4>2 DEF Pending
    <3>2. \A j \in Pending(s) : /\ j \in Fresh /\ rows'[j].pos = rows[j].pos
                               /\ rows[j].pos \in Nat /\ rows'[j].created <= now
      BY <2>2 DEF Pending, Inv, TypeOK, Row, RowsInv
    <3>3. \A j \in Pending(s) : rows'[j].pos < rows'[i].pos
      BY <2>1, <2>3, <3>2
    <3>4. ASSUME NEW j \in Fresh, NEW k \in Fresh, Together(j, k)'
          PROVE  /\ rows'[j].pos # rows'[k].pos
                 /\ rows'[j].pos < rows'[k].pos => rows'[j].created <= rows'[k].created
      BY <2>2, <3>4 DEF Inv, AttachOrder, Together
    <3>5. ASSUME NEW j \in Fresh, Together(i, j)'
          PROVE  rows'[i].pos # rows'[j].pos /\ ~(rows'[i].pos < rows'[j].pos)
      BY <2>1, <2>3, <3>1, <3>2, <3>3, <3>5
    <3>6. ASSUME NEW j \in Fresh, Together(j, i)'
          PROVE  rows'[i].pos # rows'[j].pos /\ rows'[j].created <= rows'[i].created
      BY <2>1, <2>3, <3>1, <3>2, <3>3, <3>6
    <3>7. \A j \in DOMAIN rows' : ~Together(j, j)'
      BY DEF Together
    <3> QED BY <2>1, <3>4, <3>5, <3>6, <3>7 DEF AttachOrder
  <2>12. ScopesDoNotMix'
    BY <2>8 DEF Inv, ScopesDoNotMix
  <2>13. PositionsBounded'
    <3>1. PICK b \in Nat : \A j \in DOMAIN rows : rows[j].pos <= b
      BY DEF Inv, PositionsBounded
    <3>2. NextPosition(s) <= b + 1 /\ b + 1 \in Nat
      BY <2>3, <3>1
    <3>3. \A j \in Fresh : rows[j].pos \in Nat /\ rows[j].pos <= b + 1
      BY <2>2, <3>1 DEF Inv, TypeOK, Row
    <3> QED BY <2>1, <2>2, <3>2, <3>3 DEF PositionsBounded
  <2> QED BY <2>6, <2>7, <2>9, <2>10, <2>11, <2>12, <2>13 DEF Kept
<1> QED BY <1>1, <1>2, <1>3 DEF InsertPending

\* createRun of a message that is known.
LEMMA RetryStep ==
  ASSUME Inv, NEW r \in Runs, status[r] # "none", CreateRun(r), UNCHANGED <<sent, dispatch, now>>
  PROVE  Kept' /\ UNCHANGED runs
<1>1. rows' = [j \in Fresh |-> rows[j]] /\ UNCHANGED runs
  BY DEF CreateRun
<1> QED BY <1>1, PurgeStep

\* createRun of a new message.
LEMMA NewRunStep ==
  ASSUME Inv, NEW r \in Runs, status[r] = "none", CreateRun(r), UNCHANGED <<sent, dispatch, now>>
  PROVE  /\ Kept'
         /\ status' \in [Runs -> {"none", "running", "ended"}] /\ born' \in [Runs -> Nat]
         /\ claimed' \in [Runs -> SUBSET Images]
<1> DEFINE buffered == IF r \in UpdateIds THEN Pending(sent[r].scope) ELSE {}
<1>1. /\ status' = [status EXCEPT ![r] = "running"]
      /\ born' = [born EXCEPT ![r] = now]
      /\ claimed' = [claimed EXCEPT ![r] = Own(r) \cup buffered]
      /\ rows' = [j \in Fresh \cup Own(r) |->
                    IF j \in Own(r) THEN [run |-> r, pos |-> j[2],
                                          created |-> now, expires |-> Expiry]
                    ELSE IF j \in buffered THEN Claim(j, r) ELSE rows[j]]
  BY DEF CreateRun
<1>2. UNCHANGED <<sent, stage, prompt, delivered, now>>
  BY DEF dispatch
<1>3. /\ status'[r] = "running" /\ born'[r] = now /\ claimed'[r] = Own(r) \cup buffered
      /\ \A q \in Runs \ {r} : status'[q] = status[q] /\ born'[q] = born[q] /\ claimed'[q] = claimed[q]
  BY <1>1 DEF Inv, TypeOK
<1>4. Expiry = now + Ttl /\ Expiry \in Nat /\ now \in Nat /\ NoRun \notin Runs
  BY ConstantsAssumption DEF Expiry, Inv, TypeOK
\* Nothing is bound to it, and its own images are not stored.
<1>5. Bound(r) = {} /\ stage[r] = "idle"
  BY DEF Inv, BoundInv, RowsInv
<1>6. Own(r) \cap DOMAIN rows = {}
  BY <1>5, OwnImages DEF Inv, RowsInv, Bound, Own
<1>7. buffered \subseteq Fresh /\ Fresh \subseteq DOMAIN rows /\ buffered \subseteq Telegram
  BY DEF Pending, Fresh
<1>8. \A j \in buffered : /\ rows[j].run = NoRun /\ r \in UpdateIds
                          /\ sent[j[1]].scope = sent[r].scope
  BY DEF Pending
<1> HIDE DEF buffered
\* The three kinds of rows there are afterwards.
<1>9. DOMAIN rows' = Fresh \cup Own(r)
  BY <1>1
<1>10. \A j \in Own(r) : rows'[j] = [run |-> r, pos |-> j[2], created |-> now, expires |-> Expiry]
  BY <1>1
<1>11. \A j \in buffered : rows'[j] = Claim(j, r)
  BY <1>1, <1>6, <1>7
<1>12. \A j \in Fresh \ buffered : rows'[j] = rows[j]
  BY <1>1, <1>6, <1>7
<1>13. \A j \in buffered : /\ rows'[j] \in Row /\ rows'[j].run = r /\ rows'[j].expires = Expiry
                           /\ rows'[j].pos = rows[j].pos /\ rows'[j].created = rows[j].created
  <2> SUFFICES ASSUME NEW j \in buffered
               PROVE  /\ rows'[j] \in Row /\ rows'[j].run = r /\ rows'[j].expires = Expiry
                      /\ rows'[j].pos = rows[j].pos /\ rows'[j].created = rows[j].created
    OBVIOUS
  <2> DEFINE w == rows[j]
  <2>1. w \in Row
    BY <1>7 DEF Inv, TypeOK
  <2>2. rows'[j] = [w EXCEPT !.run = r, !.expires = Expiry]
    BY <1>11 DEF Claim
  <2> HIDE DEF w
  <2>3. /\ rows'[j] \in Row /\ rows'[j].run = r /\ rows'[j].expires = Expiry
        /\ rows'[j].pos = w.pos /\ rows'[j].created = w.created
    BY <1>4, <2>1, <2>2 DEF Row
  <2> QED BY <2>3 DEF w
<1>14. \A j \in Own(r) : /\ rows'[j] \in Row /\ rows'[j].run = r /\ rows'[j].expires = Expiry
                         /\ rows'[j].pos = j[2] /\ rows'[j].created = now
  <2> SUFFICES ASSUME NEW j \in Own(r)
               PROVE  /\ rows'[j] \in Row /\ rows'[j].run = r /\ rows'[j].expires = Expiry
                      /\ rows'[j].pos = j[2] /\ rows'[j].created = now
    OBVIOUS
  <2>1. j[2] \in Nat
    BY OwnImages
  <2>2. rows'[j] = [run |-> r, pos |-> j[2], created |-> now, expires |-> Expiry]
    BY <1>10
  <2> QED BY <1>4, <2>1, <2>2 DEF Row
<1>15. RowsTyped'
  BY <1>7, <1>9, <1>12, <1>13, <1>14, OwnImages DEF RowsTyped, Inv, TypeOK
<1>16. Bound(r)' = Own(r) \cup buffered
  BY <1>5, <1>7, <1>9, <1>12, <1>13, <1>14 DEF Bound
<1>17. \A q \in Runs \ {r} : Bound(q)' = Bound(q) \cap Fresh
  BY <1>4, <1>6, <1>7, <1>8, <1>9, <1>12, <1>13, <1>14 DEF Bound
<1>18. RowsInv'
  <2>1. \A a \in Apis : \A i \in Own(a) \cap DOMAIN rows' : rows'[i].run = a
    <3> SUFFICES ASSUME NEW a \in Apis, NEW i \in Own(a), i \in DOMAIN rows'
                 PROVE  rows'[i].run = a
      OBVIOUS
    <3>1. i \notin buffered
      BY <1>7, OwnImages
    <3>2. CASE i \in Own(r)
      BY <1>14, <3>2, OwnImages DEF Own
    <3>3. CASE i \notin Own(r)
      BY <1>7, <1>9, <1>12, <3>1, <3>3 DEF Inv, RowsInv
    <3> QED BY <3>2, <3>3
  <2>2. \A q \in Runs : stage'[q] # "idle" => status'[q] # "none"
    BY <1>2, <1>3 DEF Inv, RowsInv
  <2>3. \A i \in DOMAIN rows' : rows'[i].created <= now'
    BY <1>2, <1>4, <1>7, <1>9, <1>12, <1>13, <1>14 DEF Inv, RowsInv
  <2> QED BY <2>1, <2>2, <2>3 DEF RowsInv
<1>19. BoundInv'
  <2> SUFFICES ASSUME NEW q \in Runs, NEW i \in Bound(q)'
               PROVE  /\ status'[q] # "none" /\ i \in claimed'[q]
                      /\ rows'[i].expires = born'[q] + Ttl
                      /\ stage'[q] = "loaded" => i \in prompt'[q]
                      /\ stage'[q] = "accepted" => i \in delivered'[q]
    BY DEF BoundInv
  <2>1. CASE q = r
    BY <1>2, <1>3, <1>4, <1>5, <1>13, <1>14, <1>16, <2>1
  <2>2. CASE q # r
    <3>1. i \in Bound(q) /\ i \in Fresh
      BY <1>17, <2>2
    <3>2. i \notin buffered
      BY <1>4, <1>8, <3>1 DEF Bound
    <3> QED BY <1>2, <1>3, <1>12, <2>2, <3>1, <3>2 DEF Inv, BoundInv
  <2> QED BY <2>1, <2>2
<1>20. ClaimInv'
  <2> SUFFICES ASSUME NEW q \in Runs, status'[q] # "none", delivered'[q] = {}, now' < born'[q] + Ttl
               PROVE  claimed'[q] \subseteq Bound(q)'
    BY DEF ClaimInv
  <2>1. CASE q = r
    BY <1>3, <1>16, <2>1
  <2>2. CASE q # r
    <3>1. claimed[q] \subseteq Bound(q) /\ now < born[q] + Ttl
      BY <1>2, <1>3, <2>2 DEF Inv, ClaimInv
    <3>2. Bound(q) \subseteq Fresh
      BY <3>1 DEF Inv, BoundInv, Fresh, Bound
    <3> QED BY <1>3, <1>17, <2>2, <3>1, <3>2
  <2> QED BY <2>1, <2>2
<1>21. AttachOrder'
  <2> SUFFICES ASSUME NEW i \in DOMAIN rows', NEW j \in DOMAIN rows', Together(i, j)'
               PROVE  /\ rows'[i].pos # rows'[j].pos
                      /\ rows'[i].pos < rows'[j].pos => rows'[i].created <= rows'[j].created
    BY DEF AttachOrder
  <2>1. CASE rows'[i].run = r
    <3>1. i \in Bound(r)' /\ j \in Bound(r)' /\ i # j
      BY <2>1 DEF Together, Bound
    <3>2. CASE r \in Apis
      <4>1. i \in Own(r) /\ j \in Own(r)
        BY <1>8, <1>16, <3>1, <3>2, OwnImages
      <4> QED BY <1>4, <1>14, <3>1, <3>2, <4>1, OwnImages
    <3>3. CASE r \in UpdateIds
      <4>1. i \in buffered /\ j \in buffered
        BY <1>16, <3>1, <3>3, OwnImages
      <4>2. Together(i, j) /\ i \in DOMAIN rows /\ j \in DOMAIN rows
        BY <1>7, <1>8, <3>1, <4>1 DEF Together
      <4> QED BY <1>13, <4>1, <4>2 DEF Inv, AttachOrder
    <3> QED BY <3>2, <3>3 DEF Runs
  <2>2. CASE rows'[i].run # r
    <3>1. i \in Fresh \ buffered /\ j \in Fresh \ buffered
      BY <1>9, <1>13, <1>14, <2>2 DEF Together
    <3>2. Together(i, j) /\ i \in DOMAIN rows /\ j \in DOMAIN rows
      BY <1>2, <1>7, <1>12, <3>1 DEF Together
    <3> QED BY <1>12, <3>1, <3>2 DEF Inv, AttachOrder
  <2> QED BY <2>1, <2>2
<1>22. ScopesDoNotMix'
  <2> SUFFICES ASSUME NEW q \in Runs, NEW i \in Bound(q)'
               PROVE  \/ i \in Own(q)
                      \/ q \in UpdateIds /\ i \in Telegram /\ sent[i[1]].scope = sent[q].scope
    BY <1>2 DEF ScopesDoNotMix
  <2>1. CASE q = r
    BY <1>7, <1>8, <1>16, <2>1
  <2>2. CASE q # r
    BY <1>17, <2>2 DEF Inv, ScopesDoNotMix
  <2> QED BY <2>1, <2>2
<1>23. PositionsBounded'
  <2>1. PICK b \in Nat : \A j \in DOMAIN rows : rows[j].pos <= b
    BY DEF Inv, PositionsBounded
  <2>2. b + ApiImages \in Nat /\ ApiImages \in Nat
    BY ConstantsAssumption
  <2>3. \A j \in Own(r) : rows'[j].pos <= b + ApiImages
    BY <1>14, <2>2 DEF Own
  <2>4. \A j \in Fresh : rows'[j].pos = rows[j].pos /\ rows[j].pos \in Nat
    BY <1>7, <1>12, <1>13 DEF Inv, TypeOK, Row
  <2>5. \A j \in Fresh : rows'[j].pos <= b + ApiImages
    BY <1>7, <2>1, <2>2, <2>4
  <2> QED BY <1>9, <2>2, <2>3, <2>5 DEF PositionsBounded
<1>24. claimed' \in [Runs -> SUBSET Images]
  BY <1>1, <1>7, OwnImages DEF Images, Inv, TypeOK
<1> QED BY <1>1, <1>15, <1>18, <1>19, <1>20, <1>21, <1>22, <1>23, <1>24 DEF Kept, Inv, TypeOK

--------------------------------------------------------------------------------
\* Every step keeps the invariant.

\* A step that leaves the rows alone.
LEMMA SameRowsStep ==
  ASSUME Inv, UNCHANGED <<sent, rows>>
  PROVE  /\ RowsTyped' /\ AttachOrder' /\ ScopesDoNotMix' /\ PositionsBounded'
         /\ \A r \in Runs : Bound(r)' = Bound(r)
BY DEF Inv, TypeOK, RowsTyped, AttachOrder, Together, ScopesDoNotMix, PositionsBounded, Bound

\* A step that leaves the store and the dispatch of runs alone.
LEMMA SameStoreStep ==
  ASSUME Inv, UNCHANGED <<sent, rows, runs, dispatch, now>>
  PROVE  Kept'
<1>1. UNCHANGED <<status, born, claimed, stage, prompt, delivered>>
  BY DEF runs, dispatch
<1> QED BY <1>1, SameRowsStep DEF Kept, Inv, RowsInv, BoundInv, ClaimInv

LEMMA InvInit ==
  ASSUME Init PROVE Inv
<1>1. TypeOK
  BY ConstantsAssumption DEF Init, TypeOK
<1>2. DOMAIN rows = {}
  BY DEF Init
<1>3. PositionsBounded
  BY <1>2, 0 \in Nat DEF PositionsBounded
<1>4. \A r \in Runs : Bound(r) = {} /\ status[r] = "none" /\ stage[r] = "idle"
  BY <1>2 DEF Bound, Init
<1> QED BY <1>1, <1>2, <1>3, <1>4
        DEF Inv, RowsInv, BoundInv, ClaimInv, AttachOrder, ScopesDoNotMix

LEMMA CreateTypes ==
  ASSUME Inv, NEW r \in Runs, CreateRun(r), UNCHANGED <<sent, dispatch, now>>
  PROVE  /\ Kept'
         /\ status' \in [Runs -> {"none", "running", "ended"}] /\ born' \in [Runs -> Nat]
         /\ claimed' \in [Runs -> SUBSET Images]
<1>1. CASE status[r] # "none"
  <2>1. Kept' /\ UNCHANGED runs
    BY <1>1, RetryStep
  <2> QED BY <2>1 DEF runs, Inv, TypeOK
<1>2. CASE status[r] = "none"
  BY <1>2, NewRunStep
<1> QED BY <1>1, <1>2

LEMMA InvStep ==
  ASSUME Inv, [Next]_vars
  PROVE  Inv'
<1> SUFFICES TypeOK' /\ Kept'
  BY DEF Inv, Kept
<1> USE DEF Inv
<1>1. CASE FetchText
  <2>1. fetched + 1 \in Runs /\ fetched' \in 0..Updates /\ confirmed \in 0..fetched'
    BY <1>1, ConstantsAssumption DEF FetchText, TypeOK, Runs, UpdateIds
  <2>2. CreateRun(fetched + 1) /\ UNCHANGED <<sent, dispatch, now>>
    BY <1>1 DEF FetchText
  <2>3. /\ Kept' /\ status' \in [Runs -> {"none", "running", "ended"}]
        /\ born' \in [Runs -> Nat] /\ claimed' \in [Runs -> SUBSET Images]
    BY <2>1, <2>2, CreateTypes
  <2>4. downloading' \subseteq {u \in 1..fetched' : sent[u].kind = "photo"}
    BY <1>1, <2>1 DEF FetchText, TypeOK
  <2> QED BY <1>1, <2>1, <2>3, <2>4 DEF FetchText, TypeOK, Kept, RowsTyped, dispatch
<1>2. CASE FetchPhoto
  <2>1. Kept'
    BY <1>2, SameStoreStep DEF FetchPhoto
  <2>2. fetched' \in 0..Updates /\ confirmed' \in 0..fetched'
    BY <1>2, ConstantsAssumption DEF FetchPhoto, TypeOK
  <2>3. downloading' \subseteq {u \in 1..fetched' : sent'[u].kind = "photo"}
    BY <1>2, ConstantsAssumption DEF FetchPhoto, TypeOK
  <2> QED BY <1>2, <2>1, <2>2, <2>3 DEF FetchPhoto, TypeOK, Kept, RowsTyped, dispatch, runs
<1>3. ASSUME NEW u \in UpdateIds, BufferImage(u) PROVE TypeOK' /\ Kept'
  <2>1. <<u, 0>> \in Telegram
    BY DEF Telegram
  <2>2. InsertPending(<<u, 0>>) /\ UNCHANGED <<sent, runs, dispatch, now>>
    BY <1>3 DEF BufferImage
  <2>3. Kept'
    BY <2>1, <2>2, InsertStep
  <2> QED BY <1>3, <2>3 DEF BufferImage, TypeOK, Kept, RowsTyped, dispatch, runs
<1>4. ASSUME NEW u \in UpdateIds, DownloadFails(u) PROVE TypeOK' /\ Kept'
  <2>1. Kept'
    BY <1>4, SameStoreStep DEF DownloadFails
  <2> QED BY <1>4, <2>1 DEF DownloadFails, Fault, TypeOK, Kept, RowsTyped, dispatch, runs
<1>5. ASSUME NEW a \in Apis, Post(a) PROVE TypeOK' /\ Kept'
  <2>1. a \in Runs /\ CreateRun(a) /\ UNCHANGED <<sent, dispatch, now>>
    BY <1>5 DEF Post, Runs, telegram
  <2>2. /\ Kept' /\ status' \in [Runs -> {"none", "running", "ended"}]
        /\ born' \in [Runs -> Nat] /\ claimed' \in [Runs -> SUBSET Images]
    BY <2>1, CreateTypes
  <2> QED BY <1>5, <2>2 DEF Post, TypeOK, Kept, RowsTyped, dispatch, telegram
<1>6. ASSUME NEW r \in Runs, Load(r) PROVE TypeOK' /\ Kept'
  <2>1. UNCHANGED <<sent, rows, status, born, claimed, delivered, now>> /\ TypeOK'
    BY <1>6 DEF Load, TypeOK, telegram, runs, Bound
  <2>2. RowsInv'
    BY <1>6, <2>1 DEF Load, RowsInv, TypeOK
  <2>3. BoundInv'
    BY <1>6, <2>1, SameRowsStep DEF Load, BoundInv, TypeOK
  <2>4. ClaimInv'
    BY <2>1, SameRowsStep DEF ClaimInv
  <2> QED BY <2>1, <2>2, <2>3, <2>4, SameRowsStep DEF Kept
<1>7. ASSUME NEW r \in Runs, Accept(r) PROVE TypeOK' /\ Kept'
  <2>1. UNCHANGED <<sent, rows, status, born, claimed, now>> /\ TypeOK'
    BY <1>7 DEF Accept, TypeOK, telegram, runs
  <2>2. RowsInv'
    BY <1>7, <2>1 DEF Accept, RowsInv, TypeOK
  <2>3. /\ delivered'[r] = delivered[r] \cup prompt[r] /\ stage'[r] = "accepted" /\ stage[r] = "loaded"
        /\ \A q \in Runs \ {r} : /\ delivered'[q] = delivered[q] /\ prompt'[q] = prompt[q]
                                 /\ stage'[q] = stage[q]
    BY <1>7 DEF Accept, TypeOK
  <2>4. BoundInv'
    BY <2>1, <2>3, SameRowsStep DEF BoundInv
  <2>5. ClaimInv'
    BY <2>1, <2>3, SameRowsStep DEF ClaimInv
  <2> QED BY <2>1, <2>2, <2>4, <2>5, SameRowsStep DEF Kept
<1>8. ASSUME NEW r \in Runs, Reject(r) PROVE TypeOK' /\ Kept'
  <2>1. UNCHANGED <<sent, rows, born, claimed, delivered, now>> /\ TypeOK'
    BY <1>8 DEF Reject, Fault, TypeOK, telegram
  <2>2. /\ stage'[r] = "done" /\ stage[r] = "loaded" /\ status'[r] = "ended"
        /\ \A q \in Runs \ {r} : /\ status'[q] = status[q] /\ prompt'[q] = prompt[q]
                                 /\ stage'[q] = stage[q]
    BY <1>8 DEF Reject, TypeOK
  <2>3. RowsInv'
    BY <2>1, <2>2 DEF RowsInv
  <2>4. BoundInv'
    BY <2>1, <2>2, SameRowsStep DEF BoundInv
  <2>5. ClaimInv'
    BY <2>1, <2>2, SameRowsStep DEF ClaimInv, RowsInv
  <2> QED BY <2>1, <2>3, <2>4, <2>5, SameRowsStep DEF Kept
<1>9. ASSUME NEW r \in Runs, Cleanup(r) PROVE TypeOK' /\ Kept'
  <2> DEFINE K == DOMAIN rows \ Bound(r)
  <2>1. K \subseteq DOMAIN rows /\ rows' = [j \in K |-> rows[j]]
    BY <1>9 DEF Cleanup
  <2>2. UNCHANGED <<sent, runs, prompt, delivered, now>>
    BY <1>9 DEF Cleanup, telegram
  <2>3. \A q \in Runs : stage'[q] = stage[q] \/ (stage'[q] = "done" /\ stage[q] # "idle")
    BY <1>9 DEF Cleanup, TypeOK
  <2>4. \A i \in DOMAIN rows \ K :
          rows[i].expires <= now \/ (rows[i].run # NoRun /\ delivered[rows[i].run] # {})
    BY <1>9, ConstantsAssumption DEF Cleanup, BoundInv, Bound
  <2> HIDE DEF K
  <2>5. Kept'
    BY <2>1, <2>2, <2>3, <2>4, RemoveStep
  <2> QED BY <1>9, <2>2, <2>5 DEF Cleanup, TypeOK, Kept, RowsTyped, runs, telegram
<1>10. ASSUME NEW r \in Runs, CleanupFails(r) PROVE TypeOK' /\ Kept'
  <2>1. UNCHANGED <<sent, rows, status, born, claimed, prompt, delivered, now>> /\ TypeOK'
    BY <1>10 DEF CleanupFails, Fault, TypeOK, telegram, runs
  <2>2. /\ stage'[r] = "done" /\ stage[r] = "accepted"
        /\ \A q \in Runs \ {r} : stage'[q] = stage[q]
    BY <1>10 DEF CleanupFails, TypeOK
  <2> QED BY <2>1, <2>2, SameRowsStep DEF Kept, RowsInv, BoundInv, ClaimInv
<1>11. ASSUME NEW r \in Runs, End(r) PROVE TypeOK' /\ Kept'
  <2>1. UNCHANGED <<sent, rows, born, claimed, stage, prompt, delivered, now>> /\ TypeOK'
    BY <1>11 DEF End, TypeOK, telegram, dispatch
  <2>2. \A q \in Runs : (status'[q] = "none") = (status[q] = "none")
    BY <1>11 DEF End, TypeOK
  <2> QED BY <2>1, <2>2, SameRowsStep DEF Kept, RowsInv, BoundInv, ClaimInv
<1>12. CASE Restart
  <2>1. UNCHANGED <<sent, rows, status, born, claimed, delivered, now>>
        /\ \A r \in Runs : stage'[r] = "idle"
    BY <1>12 DEF Restart, runs
  <2>2. TypeOK'
    BY <1>12, <2>1, ConstantsAssumption DEF Restart, Fault, TypeOK
  <2> QED BY <2>1, <2>2, SameRowsStep DEF Kept, RowsInv, BoundInv, ClaimInv
<1>13. CASE Tick
  <2>1. UNCHANGED <<sent, rows, status, born, claimed, stage, prompt, delivered>> /\ TypeOK'
    BY <1>13 DEF Tick, TypeOK, telegram, runs, dispatch
  <2>2. now \in Nat /\ now' = now + 1
    BY <1>13 DEF Tick, TypeOK
  <2>3. RowsInv'
    BY <2>1, <2>2 DEF RowsInv, TypeOK, Row
  <2>4. ClaimInv'
    BY <2>1, <2>2, SameRowsStep, ConstantsAssumption DEF ClaimInv, TypeOK
  <2>5. BoundInv'
    BY <2>1, SameRowsStep DEF BoundInv
  <2> QED BY <2>1, <2>3, <2>4, <2>5, SameRowsStep DEF Kept
<1>14. CASE UNCHANGED vars
  <2>1. Kept'
    BY <1>14, SameStoreStep DEF vars, telegram
  <2> QED BY <1>14, <2>1 DEF vars, telegram, runs, dispatch, TypeOK
<1> QED BY <1>1, <1>2, <1>3, <1>4, <1>5, <1>6, <1>7, <1>8, <1>9, <1>10, <1>11, <1>12, <1>13, <1>14
        DEF Next

--------------------------------------------------------------------------------
\* Theorems.

LEMMA Invariance == Spec => []Inv
<1>1. Init => Inv
  BY InvInit
<1>2. Inv /\ [Next]_vars => Inv'
  BY InvStep
<1> QED BY <1>1, <1>2, PTL DEF Spec

\* Every variable of the image store keeps its type: positions stay natural numbers
\* however buffers are purged and refilled.
THEOREM TypeCorrect == Spec => []TypeOK
<1>1. Inv => TypeOK
  BY DEF Inv
<1> QED BY <1>1, Invariance, PTL

\* The rows of a run are its own until delivery or expiry (claim, purge, cleanup).
THEOREM RunsHold == Spec => []RunsHoldImages
<1>1. Inv => RunsHoldImages
  BY DEF Inv, RunsHoldImages
<1> QED BY <1>1, Invariance, PTL

\* Images are attached in the order they were stored (insertPendingTelegramImages).
THEOREM OrderIsKept == Spec => []AttachOrder
<1>1. Inv => AttachOrder
  BY DEF Inv
<1> QED BY <1>1, Invariance, PTL

\* No run gets an image of another chat or user (claimPendingTelegramImagesToRunTx).
THEOREM ScopesAreApart == Spec => []ScopesDoNotMix
<1>1. Inv => ScopesDoNotMix
  BY DEF Inv
<1> QED BY <1>1, Invariance, PTL

\* No step loses an image: it leaves the table delivered or expired.
THEOREM NothingIsLost == Spec => LeavesDeliveredOrExpired
<1> DEFINE Leaves == \A i \in DOMAIN rows : i \notin DOMAIN rows' =>
                       \/ rows[i].expires <= now
                       \/ rows[i].run # NoRun /\ i \in delivered[rows[i].run]
<1>1. Inv /\ [Next]_vars => [Leaves]_vars
  <2> SUFFICES ASSUME Inv, Next, NEW i \in DOMAIN rows, i \notin DOMAIN rows'
               PROVE  \/ rows[i].expires <= now
                      \/ rows[i].run # NoRun /\ i \in delivered[rows[i].run]
    OBVIOUS
  <2>1. CASE i \notin Fresh
    BY <2>1 DEF Fresh, Inv, TypeOK, Row
  <2>2. CASE i \in Fresh
    <3>1. PICK r \in Runs : Cleanup(r)
      <4>1. ASSUME NEW u \in Telegram, InsertPending(u) PROVE FALSE
        BY <2>2, <4>1 DEF InsertPending
      <4>2. ASSUME NEW r, CreateRun(r) PROVE FALSE
        BY <2>2, <4>2 DEF CreateRun
      <4>3. \A u \in UpdateIds : <<u, 0>> \in Telegram
        BY DEF Telegram
      <4> QED BY <4>1, <4>2, <4>3
              DEF Next, FetchText, FetchPhoto, BufferImage, DownloadFails, Post, Load, Accept,
                  Reject, CleanupFails, End, Restart, Tick
    <3>2. i \in Bound(r)
      BY <3>1 DEF Cleanup
    <3> QED BY <3>1, <3>2, ConstantsAssumption DEF Cleanup, Inv, BoundInv, Bound
  <2> QED BY <2>1, <2>2
<1> QED BY <1>1, Invariance, PTL DEF Spec, LeavesDeliveredOrExpired

\* createRun claims what has not expired, and nothing else does.
THEOREM ClaimsAreFresh == Spec => ClaimsOnlyFresh
<1> DEFINE Claims == \A i \in DOMAIN rows \cap DOMAIN rows' :
                       rows[i].run = NoRun /\ rows'[i].run # NoRun => rows[i].expires > now
<1>1. Inv /\ [Next]_vars => [Claims]_vars
  <2> SUFFICES ASSUME Inv, Next, NEW i \in DOMAIN rows, i \in DOMAIN rows',
                      rows[i].run = NoRun, rows'[i].run # NoRun
               PROVE  i \in Fresh
    BY DEF Fresh
  <2>1. ASSUME NEW u \in Telegram, InsertPending(u) PROVE i \in Fresh
    BY <2>1 DEF InsertPending
  <2>2. ASSUME NEW r \in Runs, CreateRun(r) PROVE i \in Fresh
    <3>1. i \notin Own(r)
      BY ConstantsAssumption, OwnImages DEF Inv, RowsInv, Own
    <3> QED BY <2>2, <3>1 DEF CreateRun
  <2>3. ASSUME NEW r \in Runs, Cleanup(r) PROVE FALSE
    BY <2>3 DEF Cleanup
  <2>4. \A u \in UpdateIds : <<u, 0>> \in Telegram
    BY DEF Telegram
  <2>5. fetched < Updates => fetched + 1 \in Runs
    BY ConstantsAssumption DEF Inv, TypeOK, Runs, UpdateIds
  <2> QED BY <2>1, <2>2, <2>3, <2>4, <2>5
          DEF Next, FetchText, FetchPhoto, BufferImage, DownloadFails, Post, Load, Accept,
              Reject, CleanupFails, End, Restart, Tick, Runs
<1> QED BY <1>1, Invariance, PTL DEF Spec, ClaimsOnlyFresh

\* A run that is dispatched in time is prompted with all it claimed (dispatch).
THEOREM ClaimsReachPrompt == Spec => PromptHasClaimedImages
<1> DEFINE Prompts ==
      \A r \in Runs :
        stage[r] = "idle" /\ stage'[r] = "loaded" /\ delivered[r] = {} /\ now < born[r] + Ttl
          => prompt'[r] = claimed[r]
<1>1. Inv /\ [Next]_vars => [Prompts]_vars
  <2> SUFFICES ASSUME Inv, Next, NEW r \in Runs, stage[r] = "idle", stage'[r] = "loaded",
                      delivered[r] = {}, now < born[r] + Ttl
               PROVE  prompt'[r] = claimed[r]
    OBVIOUS
  <2>1. Load(r)
    <3>1. \A q \in Runs : Load(q) => q = r
      BY DEF Load, Inv, TypeOK
    <3>2. \A q \in Runs : ~Accept(q) /\ ~Reject(q) /\ ~Cleanup(q) /\ ~CleanupFails(q) /\ ~End(q)
      BY DEF Accept, Reject, Cleanup, CleanupFails, End, dispatch, Inv, TypeOK
    <3>3. stage' # stage
      OBVIOUS
    <3> QED BY <3>1, <3>2, <3>3
            DEF Next, FetchText, FetchPhoto, BufferImage, DownloadFails, Post, Restart, Tick, dispatch
  <2>2. prompt'[r] = Bound(r)
    BY <2>1 DEF Load, Inv, TypeOK
  <2>3. claimed[r] \subseteq Bound(r)
    BY <2>1 DEF Load, Inv, ClaimInv
  <2>4. Bound(r) \subseteq claimed[r]
    BY DEF Inv, BoundInv
  <2> QED BY <2>2, <2>3, <2>4
<1> QED BY <1>1, Invariance, PTL DEF Spec, PromptHasClaimedImages

--------------------------------------------------------------------------------
\* Limits.

LEMMA TelegramFinite == \A S \in SUBSET Telegram : IsFiniteSet(S) /\ Cardinality(S) \in Nat
<1>1. IsFiniteSet(UpdateIds)
  BY FS_Interval, ConstantsAssumption DEF UpdateIds
<1>2. IsFiniteSet({0})
  BY FS_EmptySet, FS_AddElement, {} \cup {0} = {0}
<1>3. IsFiniteSet(Telegram)
  BY <1>1, <1>2, FS_Product DEF Telegram
<1> QED BY <1>3, FS_Subset, FS_CardinalityType

\* A buffer grows by one image, within the limit, or not at all.
BufferGrows(s) ==
  \/ Pending(s)' \subseteq Pending(s)
  \/ WithinLimit(s) /\ \E i \in Telegram : Pending(s)' \subseteq Pending(s) \cup {i}

\* A run gets images from one buffer, or none.
RunGrows(u) ==
  \/ Bound(u)' \subseteq Bound(u)
  \/ \E s \in Scopes : Bound(u)' \subseteq Pending(s)

LEMMA Grow ==
  ASSUME Inv, [Next]_vars
  PROVE  (\A s \in Scopes : BufferGrows(s)) /\ (\A u \in UpdateIds : RunGrows(u))
<1>0. sent' = sent /\ now \in Nat /\ now' \in Nat /\ now <= now' /\ NoRun \notin Runs
  <2>1. sent' = sent
    BY DEF Next, vars, telegram, FetchText, FetchPhoto, BufferImage, DownloadFails, Post, Load,
           Accept, Reject, Cleanup, CleanupFails, End, Restart, Tick
  <2>2. now' = now \/ now' = now + 1
    BY DEF Next, vars, FetchText, FetchPhoto, BufferImage, DownloadFails, Post, Load,
           Accept, Reject, Cleanup, CleanupFails, End, Restart, Tick
  <2> QED BY <2>1, <2>2, ConstantsAssumption DEF Inv, TypeOK
\* A step that only removes rows, or none.
<1>1. ASSUME NEW K, K \subseteq DOMAIN rows, DOMAIN rows' = K, \A j \in K : rows'[j] = rows[j]
      PROVE  (\A s \in Scopes : BufferGrows(s)) /\ (\A u \in UpdateIds : RunGrows(u))
  <2>1. \A s \in Scopes : Pending(s)' \subseteq Pending(s)
    BY <1>0, <1>1 DEF Pending, Fresh, Inv, TypeOK, Row
  <2>2. \A u \in UpdateIds : Bound(u)' \subseteq Bound(u)
    BY <1>1 DEF Bound
  <2> QED BY <2>1, <2>2 DEF BufferGrows, RunGrows
<1>2. CASE UNCHANGED rows
  BY <1>1, <1>2
<1>3. ASSUME NEW i \in Telegram, InsertPending(i), now' = now
      PROVE  (\A s \in Scopes : BufferGrows(s)) /\ (\A u \in UpdateIds : RunGrows(u))
  <2>1. CASE UNCHANGED rows \/ rows' = [j \in Fresh |-> rows[j]]
    BY <1>1, <1>2, <2>1 DEF Fresh
  <2>2. CASE i \notin Fresh /\ WithinLimit(sent[i[1]].scope) /\ ~UNCHANGED rows
    <3>1. /\ DOMAIN rows' = Fresh \cup {i} /\ rows'[i].run = NoRun
          /\ \A j \in Fresh : rows'[j] = rows[j] /\ j \in DOMAIN rows
      BY <1>3, <2>2 DEF InsertPending, Fresh
    <3>2. \A s \in Scopes : Pending(s)' \subseteq Pending(s) \cup {i}
      BY <1>0, <1>3, <3>1 DEF Pending, Fresh
    <3>3. \A s \in Scopes : s # sent[i[1]].scope => i \notin Pending(s)'
      BY <1>0 DEF Pending
    <3>4. \A u \in UpdateIds : Bound(u)' \subseteq Bound(u)
      BY <1>0, <3>1 DEF Bound, Runs
    <3> QED BY <2>2, <3>2, <3>3, <3>4 DEF BufferGrows, RunGrows
  <2> QED BY <1>3, <2>1, <2>2 DEF InsertPending
<1>4. ASSUME NEW r \in Runs, CreateRun(r), now' = now
      PROVE  (\A s \in Scopes : BufferGrows(s)) /\ (\A u \in UpdateIds : RunGrows(u))
  <2>1. CASE rows' = [j \in Fresh |-> rows[j]]
    BY <1>1, <2>1 DEF Fresh
  <2>2. CASE status[r] = "none"
    <3> DEFINE buffered == IF r \in UpdateIds THEN Pending(sent[r].scope) ELSE {}
    <3>1. rows' = [j \in Fresh \cup Own(r) |->
                    IF j \in Own(r) THEN [run |-> r, pos |-> j[2],
                                          created |-> now, expires |-> Expiry]
                    ELSE IF j \in buffered THEN Claim(j, r) ELSE rows[j]]
      BY <1>4, <2>2 DEF CreateRun
    <3>2. buffered \subseteq Fresh /\ Fresh \subseteq DOMAIN rows /\ buffered \cap Own(r) = {}
      BY OwnImages DEF Pending, Fresh, Runs
    <3>3. r \in UpdateIds => sent[r].scope \in Scopes /\ Own(r) = {}
      BY OwnImages DEF Inv, TypeOK, Update
    <3>3a. r \in UpdateIds => buffered = Pending(sent[r].scope)
      OBVIOUS
    <3> HIDE DEF buffered
    <3>4. \A j \in buffered : rows'[j].run = r
      <4> SUFFICES ASSUME NEW j \in buffered PROVE rows'[j].run = r
        OBVIOUS
      <4>1. rows'[j] = Claim(j, r)
        BY <3>1, <3>2
      <4>2. rows[j] \in Row
        BY <3>2 DEF Inv, TypeOK
      <4> QED BY <4>1, <4>2 DEF Claim, Row
    <3>5. \A j \in Own(r) : rows'[j].run = r
      BY <3>1
    <3>6. \A j \in Fresh \ (buffered \cup Own(r)) : rows'[j] = rows[j]
      BY <3>1
    <3>7. DOMAIN rows' = Fresh \cup Own(r)
      BY <3>1
    <3>8. \A s \in Scopes : Pending(s)' \subseteq Pending(s)
      <4> SUFFICES ASSUME NEW s \in Scopes, NEW j \in Pending(s)' PROVE j \in Pending(s)
        OBVIOUS
      <4>1. j \in DOMAIN rows' /\ j \in Telegram /\ rows'[j].run = NoRun /\ sent[j[1]].scope = s
        BY <1>0 DEF Pending, Fresh
      <4>2. j \in Fresh /\ rows'[j] = rows[j]
        BY <1>0, <3>4, <3>5, <3>6, <3>7, <4>1
      <4> QED BY <4>1, <4>2 DEF Pending
    <3>9. \A u \in UpdateIds : u # r => Bound(u)' \subseteq Bound(u)
      BY <3>2, <3>4, <3>5, <3>6, <3>7 DEF Bound
    <3>10. Bound(r) = {}
      BY <2>2 DEF Inv, BoundInv
    <3>11. r \in UpdateIds => Bound(r)' \subseteq buffered
      <4> SUFFICES ASSUME r \in UpdateIds, NEW j \in Bound(r)', j \notin buffered PROVE FALSE
        OBVIOUS
      <4>1. j \in Fresh /\ rows'[j] = rows[j] /\ rows'[j].run = r
        BY <3>3, <3>6, <3>7 DEF Bound
      <4> QED BY <3>2, <3>10, <4>1 DEF Bound
    <3> QED BY <3>3, <3>3a, <3>8, <3>9, <3>11 DEF BufferGrows, RunGrows
  <2> QED BY <1>4, <2>1, <2>2 DEF CreateRun
<1>5. ASSUME NEW r \in Runs, Cleanup(r)
      PROVE  (\A s \in Scopes : BufferGrows(s)) /\ (\A u \in UpdateIds : RunGrows(u))
  BY <1>1, <1>5 DEF Cleanup
<1>6. \A u \in UpdateIds : <<u, 0>> \in Telegram
  BY DEF Telegram
<1>7. fetched < Updates => fetched + 1 \in Runs
  BY ConstantsAssumption DEF Inv, TypeOK, Runs, UpdateIds
<1> QED BY <1>2, <1>3, <1>4, <1>5, <1>6, <1>7
        DEF Next, vars, telegram, FetchText, FetchPhoto, BufferImage, DownloadFails, Post, Load,
            Accept, Reject, CleanupFails, End, Restart, Tick, Runs

\* However buffering, expiry, claims and replays alternate, neither a buffer nor the
\* run that claims it exceeds the limit (assertPendingBufferWithinLimits).
THEOREM LimitsHold == Spec => []WithinLimits
<1>1. Init => WithinLimits
  <2> SUFFICES ASSUME Init PROVE WithinLimits
    OBVIOUS
  <2>1. \A s \in Scopes : Pending(s) = {}
    BY DEF Init, Pending, Fresh
  <2>2. \A u \in UpdateIds : Bound(u) = {}
    BY DEF Init, Bound
  <2>3. Cardinality({}) = 0 /\ 0 <= MaxInputImageCount
    BY FS_EmptySet, ConstantsAssumption
  <2> QED BY <2>1, <2>2, <2>3 DEF WithinLimits
<1>2. Inv /\ Inv' /\ WithinLimits /\ [Next]_vars => WithinLimits'
  <2> SUFFICES ASSUME Inv, Inv', WithinLimits, [Next]_vars PROVE WithinLimits'
    OBVIOUS
  <2>1. \A S, T : S \subseteq T /\ T \subseteq Telegram => Cardinality(S) <= Cardinality(T)
    BY TelegramFinite, FS_Subset
  <2>2. \A s : Pending(s) \subseteq Telegram /\ Pending(s)' \subseteq Telegram
    BY DEF Pending
  <2>3. \A u \in UpdateIds : Bound(u) \subseteq Telegram /\ Bound(u)' \subseteq Telegram
    BY OwnImages DEF Inv, ScopesDoNotMix
  <2>4. MaxInputImageCount \in Nat
    BY ConstantsAssumption
  <2>5. ASSUME NEW s \in Scopes PROVE Cardinality(Pending(s)') <= MaxInputImageCount
    <3>1. Cardinality(Pending(s)') \in Nat /\ Cardinality(Pending(s)) \in Nat
      BY <2>2, TelegramFinite
    <3>2. CASE Pending(s)' \subseteq Pending(s)
      BY <2>1, <2>2, <2>4, <3>1, <3>2 DEF WithinLimits
    <3>3. CASE WithinLimit(s) /\ \E i \in Telegram : Pending(s)' \subseteq Pending(s) \cup {i}
      <4>1. PICK i \in Telegram : Pending(s)' \subseteq Pending(s) \cup {i}
        BY <3>3
      <4>2. Cardinality(Pending(s)') <= Cardinality(Pending(s) \cup {i})
        BY <2>1, <2>2, <4>1
      <4>3. Cardinality(Pending(s) \cup {i}) <= Cardinality(Pending(s)) + 1
            /\ Cardinality(Pending(s) \cup {i}) \in Nat
        BY <2>2, <3>1, TelegramFinite, FS_AddElement
      <4> QED BY <2>4, <3>1, <3>3, <4>2, <4>3 DEF WithinLimit
    <3> QED BY <3>2, <3>3, Grow DEF BufferGrows
  <2>6. ASSUME NEW u \in UpdateIds PROVE Cardinality(Bound(u)') <= MaxInputImageCount
    <3>1. \A s \in Scopes : Cardinality(Pending(s)) \in Nat
      BY <2>2, TelegramFinite
    <3>2. Cardinality(Bound(u)') \in Nat /\ Cardinality(Bound(u)) \in Nat
      BY <2>3, TelegramFinite
    <3>3. CASE Bound(u)' \subseteq Bound(u)
      BY <2>1, <2>3, <2>4, <3>2, <3>3 DEF WithinLimits
    <3>4. CASE \E s \in Scopes : Bound(u)' \subseteq Pending(s)
      BY <2>1, <2>2, <2>4, <3>1, <3>2, <3>4 DEF WithinLimits
    <3> QED BY <3>3, <3>4, Grow DEF RunGrows
  <2> QED BY <2>5, <2>6 DEF WithinLimits
<1> QED BY <1>1, <1>2, Invariance, PTL DEF Spec
================================================================================
