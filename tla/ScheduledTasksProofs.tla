------------------------- MODULE ScheduledTasksProofs --------------------------
(***************************************************************************)
(* Proofs about ScheduledTasks, for every set of tasks and requests, every   *)
(* kind of schedule and edit, and every bound; and about the times of their  *)
(* schedules (TaskSchedule), for every expression, rule, zone and instant.   *)
(***************************************************************************)
EXTENDS MCTaskSchedule, SequenceTheorems, FiniteSetTheorems, WellFoundedInduction, TLAPS

--------------------------------------------------------------------------------
\* Facts about the operators.

\* An occurrence is its task and its time.
LEMMA OccurrenceIs ==
  ASSUME NEW k \in Tasks, NEW t \in Slots
  PROVE  [task |-> k, at |-> t] \in Occurrences
BY DEF Occurrences

\* A job begins with what was read of the task's row.
LEMMA JobIsTyped ==
  ASSUME NEW row \in Rows, NEW b \in BOOLEAN
  PROVE  /\ JobOf(row, b) \in Jobs
         /\ JobOf(row, b).occ = row.occ /\ JobOf(row, b).thread = row.thread
         /\ JobOf(row, b).text = row.text /\ JobOf(row, b).pending = b
BY DEF JobOf, Jobs, Rows

\* The row of a task as it is now.
LEMMA RowIsTyped ==
  ASSUME TypeOK, NEW o \in Occurrences
  PROVE  RowOf(o) \in Rows
<1>1. o.task \in Tasks
  BY DEF Occurrences
<1> QED
  BY <1>1 DEF RowOf, Rows, TypeOK

\* The due rows that are read are those of due tasks.
LEMMA DueListsRead ==
  ASSUME TypeOK, NEW list \in DueLists
  PROVE  /\ list \in Seq(Rows)
         /\ \A i \in 1..Len(list) :
              /\ list[i].occ.task \in Due /\ list[i].occ.at = next[list[i].occ.task]
              /\ list[i].occ \in Occurrences /\ list[i] = RowOf(list[i].occ)
         /\ \A i, m \in 1..Len(list) : i # m => list[i].occ.task # list[m].occ.task
         /\ Len(list) <= DueBatch
         /\ Len(list) = DueBatch \/ \A k \in Due : \E i \in 1..Len(list) : list[i].occ.task = k
<1>1. PICK n \in 0..DueBatch : \E s \in [1..n -> Due] :
        FirstDue(s, n) /\ list = [i \in 1..n |-> RowOf([task |-> s[i], at |-> next[s[i]]])]
  BY DEF DueLists
<1>2. PICK s \in [1..n -> Due] :
        FirstDue(s, n) /\ list = [i \in 1..n |-> RowOf([task |-> s[i], at |-> next[s[i]]])]
  BY <1>1
<1>3. n \in Nat
  BY ConstantsAssumption
<1>4. \A k \in Due : k \in Tasks /\ next[k] \in Slots
  BY ConstantsAssumption DEF Due, TypeOK, Times, Slots
<1>5. ASSUME NEW i \in 1..n
      PROVE  /\ [task |-> s[i], at |-> next[s[i]]] \in Occurrences /\ s[i] \in Due
             /\ list[i] = RowOf([task |-> s[i], at |-> next[s[i]]])
             /\ list[i].occ = [task |-> s[i], at |-> next[s[i]]] /\ list[i] \in Rows
             /\ list[i].occ.task = s[i] /\ list[i].occ.at = next[s[i]]
  <2>1. s[i] \in Due
    BY <1>5
  <2>2. [task |-> s[i], at |-> next[s[i]]] \in Occurrences
    BY <1>4, <2>1, OccurrenceIs
  <2>3. list[i] = RowOf([task |-> s[i], at |-> next[s[i]]])
    BY <1>2
  <2>4. list[i].occ = [task |-> s[i], at |-> next[s[i]]]
    BY <2>3 DEF RowOf
  <2>5. list[i].occ.task = s[i] /\ list[i].occ.at = next[s[i]]
    BY <2>4
  <2>6. list[i] \in Rows
    BY <2>2, <2>3, RowIsTyped
  <2> QED
    BY <2>1, <2>2, <2>3, <2>4, <2>5, <2>6
<1>6. list \in Seq(Rows) /\ Len(list) = n
  <2>1. list \in [1..n -> Rows]
    BY <1>2, <1>5
  <2> QED
    BY <1>3, <2>1
<1>7. ASSUME NEW i \in 1..n, NEW m \in 1..n, i # m
      PROVE  s[i] # s[m]
  <2>1. i < m \/ m < i
    BY <1>3, <1>7
  <2> QED
    BY <1>2, <2>1 DEF FirstDue
<1>8. n = DueBatch \/ \A k \in Due : \E i \in 1..n : s[i] = k
  <2>1. \A k \in Due : (\E i \in 1..n : s[i] = k) \/ n = DueBatch
    BY <1>2, Zenon DEF FirstDue
  <2> QED
    BY <2>1
<1>9. \A i \in 1..n : list[i].occ.task = s[i] /\ list[i].occ.at = next[s[i]]
  BY <1>5
<1>10. n = DueBatch \/ \A k \in Due : \E i \in 1..n : list[i].occ.task = k
  BY <1>8, <1>9
<1>11. ASSUME NEW i \in 1..n
       PROVE  /\ list[i].occ.task \in Due /\ list[i].occ.at = next[list[i].occ.task]
              /\ list[i].occ \in Occurrences /\ list[i] = RowOf(list[i].occ)
  BY <1>5, <1>9, <1>11
<1>12. \A i, m \in 1..n : i # m => list[i].occ.task # list[m].occ.task
  BY <1>7, <1>9
<1> QED
  BY <1>1, <1>3, <1>6, <1>10, <1>11, <1>12

\* Reading the next due row.
LEMMA NextDue ==
  ASSUME TypeOK, dueList # <<>>
  PROVE  /\ Head(dueList) \in Rows /\ Head(dueList) = dueList[1] /\ 1 \in 1..Len(dueList)
         /\ Tail(dueList) \in Seq(Rows)
         /\ \A i \in 1..Len(Tail(dueList)) :
              Tail(dueList)[i] = dueList[i + 1] /\ i + 1 \in 1..Len(dueList) /\ i + 1 # 1
         /\ \A i \in 1..Len(dueList) : i # 1 =>
              \E m \in 1..Len(Tail(dueList)) : Tail(dueList)[m] = dueList[i]
<1>1. dueList \in Seq(Rows)
  BY DEF TypeOK
<1>2. Len(dueList) \in Nat \ {0}
  BY <1>1, EmptySeq
<1>3. /\ Head(dueList) \in Rows /\ Tail(dueList) \in Seq(Rows)
      /\ Len(Tail(dueList)) = Len(dueList) - 1
      /\ \A i \in 1..Len(Tail(dueList)) : Tail(dueList)[i] = dueList[i + 1]
  BY <1>1, HeadTailProperties
<1>4. Head(dueList) = dueList[1]
  BY <1>1, <1>2
<1>5. ASSUME NEW i \in 1..Len(dueList), i # 1
      PROVE  \E m \in 1..Len(Tail(dueList)) : Tail(dueList)[m] = dueList[i]
  <2>1. i - 1 \in 1..Len(Tail(dueList)) /\ (i - 1) + 1 = i
    BY <1>2, <1>3, <1>5
  <2> QED
    BY <1>3, <2>1
<1>6. \A i \in 1..Len(Tail(dueList)) : i + 1 \in 1..Len(dueList) /\ i + 1 # 1
  BY <1>2, <1>3
<1> QED
  BY <1>2, <1>3, <1>4, <1>5, <1>6

--------------------------------------------------------------------------------
\* The inductive invariant, whatever the run-now requests.

\* A chain is at work.
Working(a) == pc[a] \notin {"idle", "done"}

\* A task with a row has a schedule; its text was edited by edits.
TasksInv == (\A k \in live : kind[k] # None) /\ \A k \in Tasks : text[k] <= edits

\* An occurrence with a row is one of an existing task.
RowsInv == \A o \in Occurrences : status[o] # "none" => o.task \in live

\* A chain at work has an occurrence.  Only the tick, without letting go of the event loop,
\* moves a schedule on, when the occurrence is due and has its row; a chain with the answer
\* of ingest has a run with the status it was told, unless that went on since.
Chain(a) ==
  /\ Working(a) => job[a] \in Jobs
  /\ pc[a] = "advance" => /\ a = Tick /\ holder = Tick
                          /\ status[job[a].occ] # "none" /\ job[a].occ.at <= now
  /\ pc[a] = "dispatch" => job[a].thread # None
  /\ pc[a] = "mark" =>
       /\ job[a].seen # None /\ runs[job[a].occ] # None
       /\ job[a].seen \in Terminal => runs[job[a].occ].status = job[a].seen

ChainsInv == \A a \in Actors : Chain(a)

\* Rows that were read as due are due; nothing comes between the tick and the dispatched
\* occurrences it has read.
TickInv ==
  /\ \A i \in 1..Len(dueList) : dueList[i].occ.at <= now /\ kind[dueList[i].occ.task] # None
  /\ phase = "reconcile" =>
       holder = Tick /\ pc[Tick] = "idle" /\ \A o \in taskRuns : status[o] = "dispatched"

IndInv ==
  TypeOK /\ TasksInv /\ RowsInv /\ ChainsInv /\ TickInv /\ HistoryMatchesRuns

\* While another chain has the event loop, or none, the tick is not between the row and the
\* schedule of an occurrence, nor at the dispatched occurrences.
LEMMA TickElsewhere ==
  ASSUME IndInv, holder # Tick
  PROVE  /\ \A a \in Actors : pc[a] # "advance"
         /\ phase # "reconcile"
BY DEF IndInv, ChainsInv, Chain, TickInv

\* A process that ends leaves its rows.
LEMMA EndPreserves ==
  ASSUME IndInv, ProcessEnds, UNCHANGED <<taskRows, status, created, runs, now, topics, edits>>,
         crashes' \in 0..MaxCrashes, rejected' \in BOOLEAN
  PROVE  IndInv'
<1> USE DEF IndInv, taskRows
<1>1. TypeOK'
  <2>1. /\ dueList' \in Seq(Rows) /\ taskRuns' \subseteq Occurrences /\ up' \in BOOLEAN
        /\ phase' \in {"idle", "due", "resume", "reconcile"} /\ holder' \in Actors \cup {None}
    BY EmptySeq DEF ProcessEnds
  <2>2. pc' \in [Actors -> Steps] /\ job' \in [Actors -> Jobs \cup {None}]
    BY DEF ProcessEnds, Steps
  <2> QED
    BY <2>1, <2>2 DEF TypeOK
<1>2. TasksInv' /\ RowsInv' /\ HistoryMatchesRuns'
  BY DEF TasksInv, RowsInv, HistoryMatchesRuns
<1>3. ChainsInv'
  <2>1. \A a \in Actors : pc'[a] \in {"idle", "done"}
    BY DEF ProcessEnds
  <2> QED
    BY <2>1 DEF ChainsInv, Chain, Working
<1>4. TickInv'
  <2>1. dueList' = <<>> /\ phase' = "idle"
    BY DEF ProcessEnds
  <2> QED
    BY <2>1, EmptySeq DEF TickInv
<1> QED
  BY <1>1, <1>2, <1>3, <1>4

\* The initial next run of a schedule is a time.
LEMMA InitialNextIsTime ==
  ASSUME TypeOK, NEW s \in Kinds
  PROVE  InitialNext(s) \subseteq Times
BY ConstantsAssumption DEF InitialNext, TypeOK, Times, Slots

LEMMA CreateTaskPreserves ==
  ASSUME IndInv, NEW k \in Tasks, CreateTask(k)
  PROVE  IndInv'
<1> USE DEF IndInv
<1>1. PICK s \in Kinds : kind' = [kind EXCEPT ![k] = s]
                         /\ \E t \in InitialNext(s) : next' = [next EXCEPT ![k] = t]
  BY DEF CreateTask
<1>2. PICK t \in Times : next' = [next EXCEPT ![k] = t]
  BY <1>1, InitialNextIsTime
<1>3. s # None /\ t # None /\ t \in Nat
  BY ConstantsAssumption DEF Times
<1>4. /\ live' = live \cup {k} /\ enabled' = enabled \cup {k} /\ holder # Tick
      /\ UNCHANGED <<text, thread, status, created, runs, up, holder, phase, dueList, taskRuns, pc, job,
                     now, topics, edits, crashes, rejected>>
  BY ConstantsAssumption DEF CreateTask, tick, world, Actors
<1>5. TypeOK'
  BY <1>1, <1>2, <1>3, <1>4 DEF TypeOK
<1>6. TasksInv' /\ RowsInv' /\ HistoryMatchesRuns'
  BY <1>1, <1>3, <1>4 DEF TasksInv, RowsInv, HistoryMatchesRuns, TypeOK
<1>7. ChainsInv'
  BY <1>4 DEF ChainsInv, Chain, Working
<1>8. TickInv'
  <2>1. ASSUME NEW i \in 1..Len(dueList)
        PROVE  dueList[i].occ.at <= now /\ kind'[dueList[i].occ.task] # None
    <3>1. dueList[i].occ.task \in Tasks
      <4>1. dueList[i] \in Rows
        BY DEF TypeOK
      <4> QED
        BY <4>1 DEF Rows, Occurrences
    <3> QED
      BY <1>1, <1>3, <3>1 DEF TickInv, TypeOK
  <2> QED
    BY <1>4, <2>1 DEF TickInv
<1> QED
  BY <1>5, <1>6, <1>7, <1>8

LEMMA EditTaskPreserves ==
  ASSUME IndInv, NEW k \in Tasks, EditTask(k)
  PROVE  IndInv'
<1> USE DEF IndInv
<1>1. PICK e \in Edits : Edit(e, k)
  BY DEF EditTask
<1>2. /\ UNCHANGED <<kind, runs, up, holder, phase, dueList, taskRuns, pc, job, now, topics, crashes,
                     rejected>>
      /\ holder # Tick /\ k \in live /\ edits' \in 0..MaxEdits /\ edits' = edits + 1
  BY ConstantsAssumption DEF EditTask, tick, Actors, TypeOK
<1>3. /\ live' \subseteq live /\ enabled' \subseteq live' /\ created' = created
      /\ thread' \in [Tasks -> Threads \cup {None}]
  BY <1>1, <1>2 DEF Edit, TypeOK
<1>4. next' \in [Tasks -> Times \cup {None}] /\ \A q \in enabled' : next'[q] # None
  <2>1. CASE e = "reschedule"
    <3>1. kind[k] \in Kinds
      BY <1>2 DEF TypeOK, TasksInv
    <3>2. PICK t \in Times : next' = [next EXCEPT ![k] = t]
      BY <1>1, <2>1, <3>1, InitialNextIsTime DEF Edit
    <3>3. t # None /\ enabled' = enabled \cup {k}
      BY <1>1, <2>1, ConstantsAssumption DEF Edit, Times
    <3> QED
      BY <3>2, <3>3 DEF TypeOK
  <2>2. CASE e # "reschedule"
    BY <1>1, <2>2 DEF Edit, TypeOK
  <2> QED
    BY <2>1, <2>2
<1>5. /\ status' \in [Occurrences -> Statuses]
      /\ \A o \in Occurrences : status'[o] = IF o.task \in live' THEN status[o] ELSE "none"
  BY <1>1 DEF Edit, TypeOK, Statuses, RowsInv, Occurrences
<1>6. text' \in [Tasks -> 0..MaxEdits] /\ \A q \in Tasks : text'[q] <= edits'
  <2>1. CASE e = "text"
    <3>1. text' = [text EXCEPT ![k] = @ + 1]
      BY <1>1, <2>1 DEF Edit
    <3>2. /\ edits \in Nat /\ MaxEdits \in Nat
          /\ \A q \in Tasks : text[q] \in 0..MaxEdits /\ text[q] <= edits
      BY ConstantsAssumption DEF TypeOK, TasksInv
    <3>3. edits < MaxEdits
      BY DEF EditTask
    <3> QED
      BY <1>2, <3>1, <3>2, <3>3 DEF TypeOK
  <2>2. CASE e # "text"
    <3>1. text' = text
      BY <1>1, <2>2 DEF Edit
    <3>2. edits \in Nat
      BY DEF TypeOK
    <3> QED
      BY <1>2, <3>1, <3>2 DEF TypeOK, TasksInv
  <2> QED
    BY <2>1, <2>2
<1>7. TypeOK'
  BY <1>2, <1>3, <1>4, <1>5, <1>6 DEF TypeOK
<1>8. TasksInv' /\ RowsInv' /\ HistoryMatchesRuns'
  <2>1. TasksInv'
    BY <1>2, <1>3, <1>6 DEF TasksInv
  <2>2. RowsInv' /\ HistoryMatchesRuns'
    BY <1>2, <1>5 DEF RowsInv, HistoryMatchesRuns
  <2> QED
    BY <2>1, <2>2
<1>9. ChainsInv'
  BY <1>2, TickElsewhere DEF ChainsInv, Chain, Working
<1>10. TickInv'
  BY <1>2 DEF TickInv
<1> QED
  BY <1>7, <1>8, <1>9, <1>10

\* createOrGetTaskRun for an existing task.
LEMMA CreateOrGetPreserves ==
  ASSUME IndInv, NEW o \in Occurrences, CreateOrGet(o), o.task \in live,
         UNCHANGED <<taskRows, runs>>
  PROVE  /\ status' \in [Occurrences -> Statuses] /\ created' \in Seq(Occurrences)
         /\ RowsInv' /\ HistoryMatchesRuns' /\ status'[o] # "none"
         /\ \A q \in Occurrences : status[q] # "none" => status'[q] = status[q]
         /\ \A q \in Occurrences : status'[q] \in {status[q], "pending"}
<1>1. created' \in Seq(Occurrences)
  <2>1. created \in Seq(Occurrences) /\ Append(created, o) \in Seq(Occurrences)
    BY AppendProperties DEF IndInv, TypeOK
  <2> QED
    BY <2>1 DEF CreateOrGet
<1>2. /\ status' \in [Occurrences -> Statuses] /\ status'[o] # "none"
      /\ \A q \in Occurrences : status[q] # "none" => status'[q] = status[q]
      /\ \A q \in Occurrences : status'[q] = status[q] \/ (q = o /\ status'[q] = "pending")
  BY DEF CreateOrGet, IndInv, TypeOK, Statuses
<1>3. RowsInv' /\ HistoryMatchesRuns'
  BY <1>2 DEF taskRows, RowsInv, HistoryMatchesRuns, IndInv
<1> QED
  BY <1>1, <1>2, <1>3

LEMMA RunNowPreserves ==
  ASSUME IndInv, NEW a \in Callers, NEW k \in Tasks, RunNow(a, k)
  PROVE  IndInv'
<1> USE DEF IndInv
<1> DEFINE o == [task |-> k, at |-> now]
<1>1. o \in Occurrences /\ o.task = k
  BY OccurrenceIs DEF TypeOK
<1>2. /\ holder = None /\ a # Tick /\ a \in Actors /\ k \in live /\ CreateOrGet(o)
      /\ pc' = [pc EXCEPT ![a] = "ensure"] /\ job' = [job EXCEPT ![a] = JobOf(RowOf(o), TRUE)]
      /\ holder' = a
      /\ UNCHANGED <<live, kind, enabled, next, text, thread, runs, up, phase, dueList, taskRuns, now,
                     topics, edits, crashes, rejected>>
  BY ConstantsAssumption DEF RunNow, Actors, taskRows, tick, world
<1> HIDE DEF o
<1>3. JobOf(RowOf(o), TRUE) \in Jobs
  BY <1>1, RowIsTyped, JobIsTyped
<1>4. /\ status' \in [Occurrences -> Statuses] /\ created' \in Seq(Occurrences)
      /\ RowsInv' /\ HistoryMatchesRuns'
  BY <1>1, <1>2, CreateOrGetPreserves DEF taskRows
<1>5. TypeOK'
  BY <1>2, <1>3, <1>4 DEF TypeOK, Steps
<1>6. TasksInv'
  BY <1>2 DEF TasksInv
<1>7. holder # Tick
  BY <1>2, ConstantsAssumption DEF Actors
<1>8. ChainsInv'
  <2>1. ASSUME NEW b \in Actors
        PROVE  Chain(b)'
    <3>1. CASE b = a
      <4>1. pc'[b] = "ensure" /\ job'[b] \in Jobs
        BY <1>2, <1>3, <3>1 DEF TypeOK
      <4> QED
        BY <4>1 DEF Chain, Working
    <3>2. CASE b # a
      <4>1. pc'[b] = pc[b] /\ job'[b] = job[b] /\ pc[b] # "advance"
        BY <1>2, <1>7, <3>2, TickElsewhere DEF TypeOK
      <4> QED
        BY <1>2, <4>1 DEF Chain, Working, ChainsInv
    <3> QED
      BY <3>1, <3>2
  <2> QED
    BY <2>1 DEF ChainsInv
<1>9. TickInv'
  BY <1>2, <1>7, TickElsewhere DEF TickInv
<1> QED
  BY <1>4, <1>5, <1>6, <1>8, <1>9

LEMMA StartTickPreserves ==
  ASSUME IndInv, StartTick
  PROVE  IndInv'
<1> USE DEF IndInv
<1>1. /\ phase' = "due" /\ dueList' \in DueLists /\ holder' = Tick /\ holder = None
      /\ UNCHANGED <<live, kind, enabled, next, text, thread, status, created, runs, up, taskRuns, pc,
                     job, now, topics, edits, crashes, rejected>>
  BY DEF StartTick, taskRows, world
<1>2. /\ dueList' \in Seq(Rows)
      /\ \A i \in 1..Len(dueList') : /\ dueList'[i].occ.task \in Due
                                     /\ dueList'[i].occ.at = next[dueList'[i].occ.task]
  BY <1>1, DueListsRead
<1>3. TypeOK'
  BY <1>1, <1>2 DEF TypeOK, Actors
<1>4. TasksInv' /\ RowsInv' /\ HistoryMatchesRuns'
  BY <1>1 DEF TasksInv, RowsInv, HistoryMatchesRuns
<1>5. ChainsInv'
  BY <1>1, TickElsewhere DEF ChainsInv, Chain, Working
<1>6. TickInv'
  BY <1>1, <1>2 DEF TickInv, Due, TasksInv, TypeOK
<1> QED
  BY <1>3, <1>4, <1>5, <1>6

\* The tick is rejected.
LEMMA TickThrowsPreserves ==
  ASSUME IndInv, Throws(Tick),
         UNCHANGED <<taskRows, status, created, runs, now, topics, edits, crashes>>
  PROVE  IndInv'
BY EndPreserves DEF Throws, IndInv, TypeOK

LEMMA TakeDuePreserves ==
  ASSUME IndInv, TakeDue
  PROVE  IndInv'
<1> USE DEF IndInv
<1> DEFINE row == Head(dueList)
<1>1. dueList # <<>> /\ up /\ holder = Tick /\ pc[Tick] = "idle" /\ phase = "due"
  BY DEF TakeDue, TickIsFree
<1>2. row \in Rows /\ row.occ \in Occurrences /\ row = dueList[1] /\ 1 \in 1..Len(dueList)
  BY <1>1, NextDue DEF Rows
<1>3. CASE row.occ.task \notin live
  BY <1>3, TickThrowsPreserves DEF TakeDue
<1>4. CASE row.occ.task \in live
  <2> DEFINE j == JobOf(row, status[row.occ] \in {"none", "pending"})
  <2>1. /\ CreateOrGet(row.occ) /\ dueList' = Tail(dueList)
        /\ pc' = [pc EXCEPT ![Tick] = "advance"] /\ job' = [job EXCEPT ![Tick] = j]
        /\ UNCHANGED <<live, kind, enabled, next, text, thread, runs, up, holder, phase, taskRuns, now,
                       topics, edits, crashes, rejected>>
    BY <1>4 DEF TakeDue, taskRows
  <2>2. (status[row.occ] \in {"none", "pending"}) \in BOOLEAN
    OBVIOUS
  <2>3. j \in Jobs /\ j.occ = row.occ
    BY <1>2, <2>2, JobIsTyped
  <2> HIDE DEF j, row
  <2>4. /\ status' \in [Occurrences -> Statuses] /\ created' \in Seq(Occurrences)
        /\ RowsInv' /\ HistoryMatchesRuns' /\ status'[row.occ] # "none"
    BY <1>2, <1>4, <2>1, CreateOrGetPreserves DEF taskRows
  <2>5. /\ Tail(dueList) \in Seq(Rows)
        /\ \A i \in 1..Len(Tail(dueList)) :
             Tail(dueList)[i] = dueList[i + 1] /\ i + 1 \in 1..Len(dueList)
    BY <1>1, NextDue
  <2>6. TypeOK'
    BY <2>1, <2>3, <2>4, <2>5 DEF TypeOK, Steps, Actors
  <2>7. TasksInv'
    BY <2>1 DEF TasksInv
  <2>8. ChainsInv'
    <3>1. ASSUME NEW b \in Actors
          PROVE  Chain(b)'
      <4>1. CASE b = Tick
        <5>1. pc'[b] = "advance" /\ job'[b] = j
          BY <2>1, <4>1 DEF TypeOK, Actors
        <5>2. row.occ.at <= now
          BY <1>2 DEF TickInv
        <5> QED
          BY <1>1, <2>1, <2>3, <2>4, <4>1, <5>1, <5>2 DEF Chain
      <4>2. CASE b # Tick
        <5>1. pc'[b] = pc[b] /\ job'[b] = job[b] /\ pc[b] # "advance"
          BY <2>1, <4>2 DEF TypeOK, ChainsInv, Chain
        <5> QED
          BY <2>1, <5>1 DEF Chain, Working, ChainsInv
      <4> QED
        BY <4>1, <4>2
    <3> QED
      BY <3>1 DEF ChainsInv
  <2>9. TickInv'
    BY <1>1, <2>1, <2>5 DEF TickInv
  <2> QED
    BY <2>4, <2>6, <2>7, <2>8, <2>9
<1> QED
  BY <1>3, <1>4

\* The tick is at the row of the occurrence, which is due.
LEMMA Advancing ==
  ASSUME IndInv, Advance
  PROVE  /\ job[Tick] \in Jobs /\ job[Tick].occ \in Occurrences /\ job[Tick].occ.task \in live
         /\ job[Tick].occ.at \in Slots /\ job[Tick].occ.at <= now /\ status[job[Tick].occ] # "none"
<1>1. Tick \in Actors /\ pc[Tick] = "advance"
  BY DEF Advance, Actors
<1>2. /\ job[Tick] \in Jobs /\ job[Tick].occ.at <= now /\ status[job[Tick].occ] # "none"
  BY <1>1 DEF IndInv, ChainsInv, Chain, Working
<1>3. job[Tick].occ \in Occurrences
  BY <1>2 DEF Jobs
<1> QED
  BY <1>2, <1>3 DEF Occurrences, IndInv, RowsInv

LEMMA AdvancePreserves ==
  ASSUME IndInv, Advance
  PROVE  IndInv'
<1> USE DEF IndInv
<1> DEFINE o == job[Tick].occ
<1>1. o \in Occurrences /\ o.task \in live /\ o.at \in Slots /\ o.at <= now
  BY Advancing
<1> HIDE DEF o
<1>2. CASE Exhausted(o.task)
  <2>1. Throws(Tick) /\ UNCHANGED <<enabled, next, live, kind, text, thread, status, created, runs, now,
                                    topics, edits, crashes>>
    BY <1>2 DEF Advance, o
  <2> QED
    BY <2>1, TickThrowsPreserves DEF taskRows
<1>3. CASE ~Exhausted(o.task)
  <2>1. /\ AdvanceTask(o.task, o.at) /\ pc' = [pc EXCEPT ![Tick] = "ensure"] /\ holder = Tick
        /\ UNCHANGED <<live, kind, text, thread, status, created, runs, up, holder, phase, dueList,
                       taskRuns, job, now, topics, edits, crashes, rejected>>
        /\ pc[Tick] = "advance"
    BY <1>3 DEF Advance, o, tick
  <2>2. /\ enabled' \subseteq live /\ next' \in [Tasks -> Times \cup {None}]
        /\ \A k \in enabled' : next'[k] # None
    <3>1. now + 1 \in Times /\ now + 1 # None
      BY ConstantsAssumption DEF TypeOK, Times, Slots
    <3>2. o.task \in Tasks /\ enabled \subseteq live /\ next \in [Tasks -> Times \cup {None}]
          /\ \A k \in enabled : next[k] # None
      BY <1>1 DEF TypeOK
    <3>3. CASE next[o.task] # o.at
      BY <2>1, <3>2, <3>3 DEF AdvanceTask
    <3>4. CASE next[o.task] = o.at /\ kind[o.task] = "once"
      <4>1. enabled' = enabled \ {o.task} /\ next' = [next EXCEPT ![o.task] = None]
        BY <2>1, <3>4 DEF AdvanceTask
      <4> QED
        BY <3>2, <4>1
    <3>5. CASE next[o.task] = o.at /\ kind[o.task] # "once"
      <4>1. enabled' = enabled \cup {o.task} /\ next' = [next EXCEPT ![o.task] = now + 1]
        BY <2>1, <3>5 DEF AdvanceTask
      <4> QED
        BY <1>1, <3>1, <3>2, <4>1
    <3> QED
      BY <3>3, <3>4, <3>5
  <2>3. TypeOK'
    BY <2>1, <2>2 DEF TypeOK, Steps, Actors
  <2>4. TasksInv' /\ RowsInv' /\ HistoryMatchesRuns'
    BY <2>1 DEF TasksInv, RowsInv, HistoryMatchesRuns
  <2>5. ChainsInv'
    <3>1. \A b \in Actors : pc'[b] \in {pc[b], "ensure"} /\ (b = Tick => pc'[b] = "ensure")
      BY <2>1 DEF TypeOK
    <3> QED
      BY <2>1, <3>1 DEF ChainsInv, Chain, Working
  <2>6. TickInv'
    BY <2>1 DEF TickInv
  <2> QED
    BY <2>3, <2>4, <2>5, <2>6
<1> QED
  BY <1>2, <1>3

\* The loops over pending and dispatched occurrences.
LEMMA LoopsPreserve ==
  ASSUME IndInv, EndDue \/ TakePending \/ EndResume \/ Reconcile \/ EndTick
  PROVE  IndInv'
<1> USE DEF IndInv
<1>1. /\ up /\ holder = Tick /\ pc[Tick] = "idle" /\ Tick \in Actors
      /\ UNCHANGED <<live, kind, enabled, next, text, thread, created, runs, up, dueList, now, topics,
                     edits, crashes, rejected>>
  BY DEF EndDue, TakePending, EndResume, Reconcile, EndTick, TickIsFree, taskRows, world, Actors
<1>2. TasksInv'
  BY <1>1 DEF TasksInv
<1>3. CASE EndDue \/ EndResume \/ EndTick
  <2>1. UNCHANGED <<status, pc, job>> /\ holder' \in {Tick, None}
    BY <1>1, <1>3 DEF EndDue, EndResume, EndTick
  <2>2. phase' \in {"idle", "resume", "reconcile"} /\ taskRuns' \subseteq Occurrences
    BY <1>3 DEF EndDue, EndResume, EndTick, Listed, TypeOK
  <2>3. TypeOK'
    BY <1>1, <2>1, <2>2 DEF TypeOK
  <2>4. ChainsInv'
    BY <1>1, <2>1 DEF ChainsInv, Chain, Working
  <2>5. TickInv'
    BY <1>1, <1>3, <2>1 DEF TickInv, EndDue, EndResume, EndTick, Listed
  <2> QED
    BY <1>1, <1>2, <2>1, <2>3, <2>4, <2>5 DEF RowsInv, HistoryMatchesRuns
<1>4. CASE TakePending
  <2>1. PICK o \in Occurrences :
          /\ taskRuns' = taskRuns \ {o}
          /\ IF o.task \in live THEN /\ pc' = [pc EXCEPT ![Tick] = "ensure"]
                                     /\ job' = [job EXCEPT ![Tick] = JobOf(RowOf(o), TRUE)]
                                ELSE UNCHANGED <<pc, job>>
    BY <1>4 DEF TakePending
  <2>2. UNCHANGED <<status, holder, phase>> /\ phase = "resume"
    BY <1>4 DEF TakePending
  <2>3. JobOf(RowOf(o), TRUE) \in Jobs
    BY RowIsTyped, JobIsTyped
  <2>4. TypeOK'
    BY <1>1, <2>1, <2>2, <2>3 DEF TypeOK, Steps
  <2>5. ChainsInv'
    <3>1. ASSUME NEW b \in Actors
          PROVE  Chain(b)'
      <4>1. CASE b = Tick /\ o.task \in live
        <5>1. pc'[b] = "ensure" /\ job'[b] \in Jobs
          BY <2>1, <2>3, <4>1 DEF TypeOK
        <5> QED
          BY <5>1 DEF Chain, Working
      <4>2. CASE ~(b = Tick /\ o.task \in live)
        <5>1. pc'[b] = pc[b] /\ job'[b] = job[b]
          BY <2>1, <4>2 DEF TypeOK
        <5> QED
          BY <1>1, <2>2, <5>1 DEF Chain, Working, ChainsInv
      <4> QED
        BY <4>1, <4>2
    <3> QED
      BY <3>1 DEF ChainsInv
  <2>6. TickInv'
    BY <1>1, <2>2 DEF TickInv
  <2> QED
    BY <1>1, <1>2, <2>2, <2>4, <2>5, <2>6 DEF RowsInv, HistoryMatchesRuns
<1>5. CASE Reconcile
  <2>1. PICK o \in Occurrences :
          o \in taskRuns /\ taskRuns' = taskRuns \ {o} /\ status' = [status EXCEPT ![o] = Reconciled(o)]
    BY <1>5 DEF Reconcile, IsFirst, MarkTerminal
  <2>2. UNCHANGED <<holder, phase, pc, job>> /\ phase = "reconcile"
    BY <1>5 DEF Reconcile
  <2>3. status[o] = "dispatched" /\ runs[o] # None /\ runs[o] \in Runs
    BY <2>1, <2>2 DEF TickInv, HistoryMatchesRuns, TypeOK
  <2>4. /\ Reconciled(o) \in {"dispatched"} \cup Terminal
        /\ Reconciled(o) # "dispatched" => runs[o].status = Reconciled(o)
    BY <2>3 DEF Reconciled, Runs
  <2>5. TypeOK'
    BY <1>1, <2>1, <2>2, <2>4 DEF TypeOK, Statuses
  <2>6. RowsInv' /\ HistoryMatchesRuns'
    BY <1>1, <2>1, <2>3, <2>4 DEF RowsInv, HistoryMatchesRuns, TypeOK, Terminal
  <2>7. ChainsInv'
    BY <1>1, <2>2 DEF ChainsInv, Chain, Working
  <2>8. TickInv'
    BY <1>1, <2>1, <2>2 DEF TickInv, TypeOK
  <2> QED
    BY <1>2, <2>5, <2>6, <2>7, <2>8
<1> QED
  BY <1>3, <1>4, <1>5

--------------------------------------------------------------------------------
\* The steps of a chain.

\* What every step of the chain a leaves alone.
LEMMA ChainFrame ==
  ASSUME IndInv, NEW a \in Actors, ChainSteps(a) \/ TopicAnswer(a)
  PROVE  /\ phase # "reconcile" /\ \A b \in Actors : b # a => pc[b] # "advance"
         /\ job[a] \in Jobs /\ job[a].occ \in Occurrences /\ job[a].occ.task \in Tasks
         /\ pc[a] \in {"ensure", "topic", "dispatch", "mark", "fail"} /\ up
         /\ holder = IF TopicAnswer(a) THEN None ELSE a
<1> USE DEF IndInv
<1>1. pc[a] \in {"ensure", "topic", "dispatch", "mark", "fail"} /\ up /\ holder \in {a, None}
  BY DEF ChainSteps, EnsureThread, Dispatch, MarkResult, MarkFailed, TopicAnswer
<1>2. job[a] \in Jobs
  BY <1>1 DEF ChainsInv, Chain, Working
<1>3. phase # "reconcile"
  BY <1>1, ConstantsAssumption DEF TickInv, Actors
<1>4. \A b \in Actors : b # a => pc[b] # "advance"
  BY <1>1, ConstantsAssumption DEF ChainsInv, Chain, Actors
<1>5. job[a].occ \in Occurrences /\ job[a].occ.task \in Tasks
  BY <1>2 DEF Jobs, Occurrences
<1>6. a # None
  BY ConstantsAssumption
<1>7. holder = IF TopicAnswer(a) THEN None ELSE a
  BY <1>1, <1>6 DEF ChainSteps, EnsureThread, Dispatch, MarkResult, MarkFailed, TopicAnswer
<1> QED
  BY <1>1, <1>2, <1>3, <1>4, <1>5, <1>7

\* Other chains go on as they were: topics and texts are nothing to them, and what ingest told
\* them stays true.
LEMMA OtherChains ==
  ASSUME IndInv, NEW a \in Actors, NEW b \in Actors, b # a, pc[b] # "advance",
         pc'[b] = pc[b], job'[b] = job[b],
         \A o \in Occurrences : runs[o] # None => runs'[o] # None
                                  /\ (runs[o].status \in Terminal => runs'[o].status = runs[o].status)
  PROVE  Chain(b)'
<1>1. Chain(b)
  BY DEF IndInv, ChainsInv
<1>2. pc[b] = "mark" => job[b].occ \in Occurrences
  BY <1>1 DEF Chain, Working, Jobs
<1> QED
  BY <1>1, <1>2 DEF Chain, Working

\* Proceeding is a step of the tick alone, or to the dispatch.
LEMMA ProceedTyped ==
  ASSUME TypeOK, NEW a \in Actors, NEW j, Proceed(a, j)
  PROVE  /\ pc' \in [Actors -> Steps] /\ pc'[a] \in {"idle", "dispatch"}
         /\ \A b \in Actors : b # a => pc'[b] = pc[b]
BY DEF Proceed, TypeOK, Steps

\* setTaskExecutionThread: the task has the thread, and so has the chain, or the chain fails.
LEMMA BindThreadTyped ==
  ASSUME TypeOK, NEW a \in Actors, job[a] \in Jobs, job[a].occ.task \in Tasks, NEW th \in Threads,
         BindThread(a, th)
  PROVE  /\ pc' \in [Actors -> Steps] /\ pc'[a] \in {"idle", "dispatch", "fail"}
         /\ \A b \in Actors : b # a => pc'[b] = pc[b] /\ job'[b] = job[b]
         /\ thread' \in [Tasks -> Threads \cup {None}]
         /\ job' \in [Actors -> Jobs \cup {None}] /\ job'[a] \in Jobs
         /\ pc'[a] = "dispatch" => job'[a].thread = th
<1> DEFINE k == job[a].occ.task
           j == [job[a] EXCEPT !.thread = th, !.text = text[k]]
<1>1. j \in Jobs /\ j.thread = th
  BY DEF Jobs, TypeOK
<1>2. CASE k \in live
  <2>1. thread' = [thread EXCEPT ![k] = th] /\ job' = [job EXCEPT ![a] = j] /\ Proceed(a, j)
    BY <1>2 DEF BindThread
  <2>2. thread' \in [Tasks -> Threads \cup {None}]
    BY <2>1 DEF TypeOK
  <2> HIDE DEF j
  <2>3. /\ job' \in [Actors -> Jobs \cup {None}] /\ job'[a] = j
        /\ \A b \in Actors : b # a => job'[b] = job[b]
    BY <1>1, <2>1 DEF TypeOK
  <2> QED
    BY <1>1, <2>1, <2>2, <2>3, ProceedTyped
<1>3. CASE k \notin live
  BY <1>3 DEF BindThread, TypeOK, Steps
<1> QED
  BY <1>2, <1>3

LEMMA EnsureThreadPreserves ==
  ASSUME IndInv, NEW a \in Actors, EnsureThread(a)
  PROVE  IndInv'
<1> USE DEF IndInv
<1>1. /\ UNCHANGED <<live, kind, enabled, next, text, status, created, runs, up, phase, dueList, taskRuns,
                     now, topics, edits, crashes, rejected>>
      /\ holder = a /\ holder' \in {a, None}
  BY DEF EnsureThread, tick, world
<1>2. /\ phase # "reconcile" /\ job[a] \in Jobs /\ job[a].occ.task \in Tasks
      /\ \A b \in Actors : b # a => pc[b] # "advance"
  BY ChainFrame DEF ChainSteps
<1>3. /\ pc' \in [Actors -> Steps] /\ pc'[a] \in {"idle", "topic", "dispatch", "fail"}
      /\ thread' \in [Tasks -> Threads \cup {None}]
      /\ job' \in [Actors -> Jobs \cup {None}] /\ job'[a] \in Jobs
      /\ pc'[a] = "dispatch" => job'[a].thread # None
      /\ \A b \in Actors : b # a => pc'[b] = pc[b] /\ job'[b] = job[b]
  <2>1. CASE ~NeedsThread(job[a]) /\ Proceed(a, job[a]) /\ UNCHANGED <<thread, job, holder>>
    <3>1. job[a].thread # None
      BY <2>1 DEF NeedsThread
    <3> QED
      BY <1>2, <2>1, <3>1, ProceedTyped DEF TypeOK
  <2>2. CASE pc' = [pc EXCEPT ![a] = "topic"] /\ UNCHANGED <<thread, job>>
    BY <1>2, <2>2 DEF TypeOK, Steps
  <2>3. CASE BindThread(a, 0)
    <3>1. 0 \in Threads /\ 0 # None
      BY ConstantsAssumption DEF Threads
    <3> QED
      BY <1>2, <2>3, <3>1, BindThreadTyped
  <2> QED
    BY <2>1, <2>2, <2>3 DEF EnsureThread
<1>4. TypeOK'
  BY <1>1, <1>3 DEF TypeOK
<1>5. TasksInv' /\ RowsInv' /\ HistoryMatchesRuns'
  BY <1>1 DEF TasksInv, RowsInv, HistoryMatchesRuns
<1>6. ChainsInv'
  <2>1. Chain(a)'
    BY <1>3 DEF Chain, Working
  <2>2. \A b \in Actors : b # a => Chain(b)'
    BY <1>1, <1>2, <1>3, OtherChains
  <2> QED
    BY <2>1, <2>2 DEF ChainsInv
<1>7. TickInv'
  BY <1>1, <1>2 DEF TickInv
<1> QED
  BY <1>4, <1>5, <1>6, <1>7

LEMMA TopicAnswerPreserves ==
  ASSUME IndInv, NEW a \in Actors, TopicAnswer(a)
  PROVE  IndInv'
<1> USE DEF IndInv
<1>1. /\ UNCHANGED <<live, kind, enabled, next, text, status, created, runs, up, phase, dueList, taskRuns,
                     now, edits, crashes, rejected>>
      /\ holder' = a
  BY DEF TopicAnswer, tick
<1>2. /\ phase # "reconcile" /\ job[a] \in Jobs /\ job[a].occ.task \in Tasks
      /\ \A b \in Actors : b # a => pc[b] # "advance"
  BY ChainFrame
<1>3. /\ pc' \in [Actors -> Steps] /\ pc'[a] \in {"idle", "dispatch", "fail"}
      /\ thread' \in [Tasks -> Threads \cup {None}] /\ topics' \in 0..MaxTopics
      /\ job' \in [Actors -> Jobs \cup {None}] /\ job'[a] \in Jobs
      /\ pc'[a] = "dispatch" => job'[a].thread # None
      /\ \A b \in Actors : b # a => pc'[b] = pc[b] /\ job'[b] = job[b]
  <2>1. CASE topics < MaxTopics /\ topics' = topics + 1 /\ BindThread(a, topics + 1)
    <3>1. topics + 1 \in Threads /\ topics + 1 # None /\ topics' \in 0..MaxTopics
      BY <2>1, ConstantsAssumption DEF Threads, TypeOK
    <3> QED
      BY <1>2, <2>1, <3>1, BindThreadTyped
  <2>2. CASE pc' = [pc EXCEPT ![a] = "fail"] /\ UNCHANGED <<topics, thread, job>>
    BY <1>2, <2>2 DEF TypeOK, Steps
  <2> QED
    BY <2>1, <2>2 DEF TopicAnswer
<1>4. TypeOK'
  BY <1>1, <1>3 DEF TypeOK
<1>5. TasksInv' /\ RowsInv' /\ HistoryMatchesRuns'
  BY <1>1 DEF TasksInv, RowsInv, HistoryMatchesRuns
<1>6. ChainsInv'
  <2>1. Chain(a)'
    BY <1>3 DEF Chain, Working
  <2>2. \A b \in Actors : b # a => Chain(b)'
    BY <1>1, <1>2, <1>3, OtherChains
  <2> QED
    BY <2>1, <2>2 DEF ChainsInv
<1>7. TickInv'
  BY <1>1, <1>2 DEF TickInv
<1> QED
  BY <1>4, <1>5, <1>6, <1>7

\* ingest: a new run, or what is known of the one there is.
LEMMA DispatchPreserves ==
  ASSUME IndInv, NEW a \in Actors, Dispatch(a)
  PROVE  IndInv'
<1> USE DEF IndInv
<1> DEFINE o == job[a].occ
           new == [thread |-> job[a].thread, text |-> job[a].text, status |-> "running"]
<1>1. /\ UNCHANGED <<live, kind, enabled, next, text, thread, status, created, up, holder, phase, dueList,
                     taskRuns, now, topics, edits, crashes, rejected>>
      /\ holder = a /\ pc[a] = "dispatch"
  BY DEF Dispatch, taskRows, tick, world
<1>2. /\ phase # "reconcile" /\ job[a] \in Jobs /\ o \in Occurrences
      /\ \A b \in Actors : b # a => pc[b] # "advance"
  BY ChainFrame DEF ChainSteps
<1>3. new \in Runs /\ new # None
  <2>1. job[a].thread \in Threads /\ job[a].text \in 0..MaxEdits
    BY <1>1, <1>2 DEF ChainsInv, Chain, Jobs
  <2> QED
    BY <2>1, ConstantsAssumption DEF Runs
<1>4. /\ \/ runs[o] = None /\ runs' = [runs EXCEPT ![o] = new]
         \/ runs[o] # None /\ runs' = runs
      /\ \/ /\ pc' = [pc EXCEPT ![a] = "mark"]
            /\ \E seen \in {"running"} \cup Terminal :
                 job' = [job EXCEPT ![a].seen = seen] /\ runs'[o].status = seen
         \/ pc' = [pc EXCEPT ![a] = "fail"] /\ job' = job
  BY <1>2, <1>3 DEF Dispatch, TypeOK, Runs
<1> HIDE DEF o, new
<1>5. /\ runs' \in [Occurrences -> Runs \cup {None}] /\ runs'[o] # None
      /\ \A q \in Occurrences : runs[q] # None => runs'[q] = runs[q]
  BY <1>2, <1>3, <1>4 DEF TypeOK
<1>6. /\ pc' \in [Actors -> Steps] /\ job' \in [Actors -> Jobs \cup {None}] /\ job'[a] \in Jobs
      /\ job'[a].occ = o /\ pc'[a] \in {"mark", "fail"}
      /\ pc'[a] = "mark" => job'[a].seen # None /\ runs'[o].status = job'[a].seen
      /\ \A b \in Actors : b # a => pc'[b] = pc[b] /\ job'[b] = job[b]
  <2>1. CASE pc' = [pc EXCEPT ![a] = "fail"] /\ job' = job
    BY <1>2, <2>1 DEF TypeOK, Steps, o
  <2>2. ASSUME NEW seen \in {"running"} \cup Terminal, pc' = [pc EXCEPT ![a] = "mark"],
               job' = [job EXCEPT ![a].seen = seen], runs'[o].status = seen
        PROVE  /\ pc' \in [Actors -> Steps] /\ job' \in [Actors -> Jobs \cup {None}] /\ job'[a] \in Jobs
               /\ job'[a].occ = o /\ pc'[a] \in {"mark", "fail"}
               /\ pc'[a] = "mark" => job'[a].seen # None /\ runs'[o].status = job'[a].seen
               /\ \A b \in Actors : b # a => pc'[b] = pc[b] /\ job'[b] = job[b]
    <3>1. [job[a] EXCEPT !.seen = seen] \in Jobs /\ [job[a] EXCEPT !.seen = seen].occ = o
          /\ [job[a] EXCEPT !.seen = seen].seen = seen /\ seen # None
      BY <1>2, ConstantsAssumption DEF Jobs, o
    <3>2. job' = [job EXCEPT ![a] = [job[a] EXCEPT !.seen = seen]]
      BY <2>2
    <3> QED
      BY <2>2, <3>1, <3>2 DEF TypeOK, Steps
  <2> QED
    BY <1>4, <2>1, <2>2
<1>7. TypeOK'
  BY <1>1, <1>5, <1>6 DEF TypeOK
<1>8. TasksInv' /\ RowsInv' /\ HistoryMatchesRuns'
  <2>1. HistoryMatchesRuns'
    BY <1>1, <1>5 DEF HistoryMatchesRuns
  <2> QED
    BY <1>1, <2>1 DEF TasksInv, RowsInv
<1>9. ChainsInv'
  <2>1. Chain(a)'
    BY <1>5, <1>6 DEF Chain, Working
  <2>2. \A b \in Actors : b # a => Chain(b)'
    BY <1>1, <1>2, <1>5, <1>6, OtherChains
  <2> QED
    BY <2>1, <2>2 DEF ChainsInv
<1>10. TickInv'
  BY <1>1, <1>2 DEF TickInv
<1> QED
  BY <1>7, <1>8, <1>9, <1>10

\* A chain that is done, or goes to its catch block.
LEMMA MarkPreserves ==
  ASSUME IndInv, NEW a \in Actors, MarkResult(a) \/ MarkFailed(a)
  PROVE  IndInv'
<1> USE DEF IndInv
<1> DEFINE o == job[a].occ
<1>1. /\ phase # "reconcile" /\ job[a] \in Jobs /\ o \in Occurrences /\ holder = a /\ up
      /\ \A b \in Actors : b # a => pc[b] # "advance"
      /\ UNCHANGED <<taskRows, created, runs, now, topics, edits, crashes>>
  <2>1. UNCHANGED <<taskRows, created, runs, now, topics, edits, crashes>> /\ holder = a
    BY DEF MarkResult, MarkFailed, world
  <2> QED
    BY <2>1, ChainFrame DEF ChainSteps
<1>2. CASE status' = status /\ a = Tick /\ Throws(Tick)
  BY <1>1, <1>2, TickThrowsPreserves
<1>3. CASE /\ UNCHANGED <<up, tick, job, rejected>> /\ holder' \in Actors \cup {None}
           /\ pc' \in [Actors -> Steps] /\ pc'[a] \in {"idle", "done", "fail"}
           /\ \A b \in Actors : b # a => pc'[b] = pc[b]
           /\ \/ status' = status
              \/ /\ status[o] \in Statuses \ {"none"} /\ runs[o] # None
                 /\ status' = [status EXCEPT ![o] = "dispatched"]
              \/ status[o] \in Statuses \ {"none"} /\ status' = [status EXCEPT ![o] = "failed"]
              \/ /\ status[o] \in Statuses \ {"none"} /\ runs[o] # None /\ runs[o].status = "succeeded"
                 /\ status' = [status EXCEPT ![o] = "succeeded"]
  <2> HIDE DEF o
  <2>1. TypeOK'
    BY <1>1, <1>3 DEF TypeOK, taskRows, tick, Statuses, Terminal
  <2>2. TasksInv'
    BY <1>1 DEF TasksInv, taskRows
  <2>3. RowsInv' /\ HistoryMatchesRuns'
    BY <1>1, <1>3 DEF RowsInv, HistoryMatchesRuns, taskRows, TypeOK
  <2>4. ChainsInv'
    <3>1. Chain(a)'
      BY <1>1, <1>3 DEF Chain, Working
    <3>2. \A b \in Actors : b # a => Chain(b)'
      BY <1>1, <1>3, OtherChains
    <3> QED
      BY <3>1, <3>2 DEF ChainsInv
  <2>5. TickInv'
    BY <1>1, <1>3 DEF TickInv, tick, taskRows
  <2> QED
    BY <2>1, <2>2, <2>3, <2>4, <2>5
<1>4. Finish(a) => /\ UNCHANGED <<up, tick, job>> /\ holder' \in Actors \cup {None}
                   /\ pc' \in [Actors -> Steps] /\ pc'[a] \in {"idle", "done", "fail"}
                   /\ \A b \in Actors : b # a => pc'[b] = pc[b]
  BY DEF Finish, TypeOK, Steps, Actors
<1>5. CASE MarkResult(a)
  <2>1. /\ job[a].seen # None /\ job[a].seen \in {"running"} \cup Terminal /\ runs[o] # None
        /\ job[a].seen \in Terminal => runs[o].status = job[a].seen
    BY <1>1, <1>5 DEF MarkResult, ChainsInv, Chain, Jobs
  <2>2. UNCHANGED rejected
    BY <1>5 DEF MarkResult, world
  <2>3. CASE job[a].seen = "running" /\ Dispatchable(o) /\ status' = [status EXCEPT ![o] = "dispatched"]
             /\ Finish(a)
    BY <1>3, <1>4, <2>1, <2>2, <2>3 DEF Dispatchable, Statuses
  <2>4. CASE /\ job[a].seen # "running" /\ Markable(o, job[a].seen)
             /\ MarkTerminal(o, job[a].seen) /\ Finish(a)
    BY <1>3, <1>4, <2>1, <2>2, <2>4 DEF Markable, MarkTerminal, Statuses, Terminal
  <2>5. CASE pc' = [pc EXCEPT ![a] = "fail"] /\ UNCHANGED <<status, up, holder, tick, job>>
    BY <1>3, <2>2, <2>5 DEF TypeOK, Steps
  <2> QED
    BY <1>5, <2>3, <2>4, <2>5 DEF MarkResult
<1>6. CASE MarkFailed(a)
  <2>1. CASE Markable(o, "failed") /\ MarkTerminal(o, "failed") /\ Finish(a) /\ UNCHANGED rejected
    BY <1>3, <1>4, <2>1 DEF Markable, MarkTerminal, Statuses, Terminal
  <2>2. CASE Throws(a) /\ status' = status
    BY <1>2, <1>3, <1>4, <2>2 DEF Throws
  <2> QED
    BY <1>6, <2>1, <2>2 DEF MarkFailed
<1> QED
  BY <1>5, <1>6

--------------------------------------------------------------------------------
\* The inductive invariant is inductive.

LEMMA InitEstablishes == Init => IndInv
<1> SUFFICES ASSUME Init
             PROVE  IndInv
  OBVIOUS
<1>1. TypeOK
  <2>1. /\ 0 \in Slots /\ 0 \in 0..MaxTopics /\ 0 \in 0..MaxEdits /\ 0 \in 0..MaxCrashes
        /\ <<>> \in Seq(Rows) /\ <<>> \in Seq(Occurrences)
    BY ConstantsAssumption, EmptySeq DEF Slots
  <2> QED
    BY <2>1 DEF Init, TypeOK, Statuses, Steps
<1>2. TasksInv /\ RowsInv /\ HistoryMatchesRuns
  BY DEF Init, TasksInv, RowsInv, HistoryMatchesRuns
<1>3. ChainsInv
  BY DEF Init, ChainsInv, Chain, Working
<1>4. TickInv
  BY EmptySeq DEF Init, TickInv
<1> QED
  BY <1>1, <1>2, <1>3, <1>4 DEF IndInv

LEMMA RunSettlesPreserves ==
  ASSUME IndInv, NEW o \in Occurrences, RunSettles(o)
  PROVE  IndInv'
<1> USE DEF IndInv
<1>1. /\ UNCHANGED <<live, kind, enabled, next, text, thread, status, created, up, holder, phase, dueList,
                     taskRuns, pc, job, now, topics, edits, crashes, rejected>>
      /\ runs[o] # None /\ runs[o].status = "running" /\ runs[o] \in Runs
  BY DEF RunSettles, taskRows, tick, world, TypeOK
<1>2. PICK outcome \in Terminal : runs' = [runs EXCEPT ![o].status = outcome]
  BY DEF RunSettles
<1> DEFINE new == [runs[o] EXCEPT !.status = outcome]
<1>3. new \in Runs /\ new # None
  BY <1>1, ConstantsAssumption DEF Runs, Terminal
<1>4. runs' = [runs EXCEPT ![o] = new]
  BY <1>2
<1> HIDE DEF new
<1>5. TypeOK'
  BY <1>1, <1>3, <1>4 DEF TypeOK
<1>6. \A q \in Occurrences : runs[q] # None => runs'[q] # None
                               /\ (runs[q].status \in Terminal => runs'[q].status = runs[q].status)
  BY <1>1, <1>3, <1>4 DEF TypeOK, Terminal
<1>7. TasksInv' /\ RowsInv' /\ HistoryMatchesRuns'
  BY <1>1, <1>6 DEF TasksInv, RowsInv, HistoryMatchesRuns, Terminal
<1>8. ChainsInv'
  <2>1. ASSUME NEW b \in Actors
        PROVE  Chain(b)'
    <3>1. Chain(b)
      BY DEF ChainsInv
    <3>2. pc[b] = "mark" => job[b].occ \in Occurrences
      BY <3>1 DEF Chain, Working, Jobs
    <3> QED
      BY <1>1, <1>6, <3>1, <3>2 DEF Chain, Working
  <2> QED
    BY <2>1 DEF ChainsInv
<1>9. TickInv'
  BY <1>1 DEF TickInv
<1> QED
  BY <1>5, <1>7, <1>8, <1>9

LEMMA WorldPreserves ==
  ASSUME IndInv, TimePasses \/ Crash \/ Boot \/ UNCHANGED vars
  PROVE  IndInv'
<1> USE DEF IndInv
<1>1. CASE Crash
  <2>1. crashes' \in 0..MaxCrashes /\ ProcessEnds
    BY <1>1, ConstantsAssumption DEF Crash, TypeOK
  <2> QED
    BY <1>1, <2>1, EndPreserves DEF Crash, TypeOK
<1>2. CASE TimePasses \/ Boot \/ UNCHANGED vars
  <2>1. /\ UNCHANGED <<live, kind, enabled, next, text, thread, status, created, runs, holder, phase,
                       dueList, taskRuns, pc, job, topics, edits, crashes, rejected>>
        /\ now' \in Slots /\ now <= now' /\ up' \in BOOLEAN
    <3>1. now \in Nat /\ now <= MaxTime /\ MaxTime \in Nat
      BY ConstantsAssumption DEF TypeOK, Slots
    <3>2. now' = now \/ (now < MaxTime /\ now' = now + 1)
      BY <1>2 DEF TimePasses, Boot, vars, world
    <3>3. now' \in Slots /\ now <= now'
      BY <3>1, <3>2 DEF Slots
    <3>4. up' = up \/ up' = TRUE
      BY <1>2, Zenon DEF TimePasses, Boot, vars
    <3>5. up' \in BOOLEAN
      BY <3>4 DEF TypeOK
    <3> QED
      BY <1>2, <3>3, <3>5 DEF TimePasses, Boot, vars, taskRows, tick, world
  <2>2. TypeOK'
    BY <2>1 DEF TypeOK
  <2>3. TasksInv' /\ RowsInv' /\ HistoryMatchesRuns'
    BY <2>1 DEF TasksInv, RowsInv, HistoryMatchesRuns
  <2>4. \A t \in Slots : t <= now => t <= now'
    BY <2>1, ConstantsAssumption DEF Slots, TypeOK
  <2>5. ChainsInv'
    <3>1. ASSUME NEW b \in Actors
          PROVE  Chain(b)'
      <4>1. Chain(b)
        BY DEF ChainsInv
      <4>2. pc[b] = "advance" => job[b].occ.at \in Slots
        BY <4>1 DEF Chain, Working, Jobs, Occurrences
      <4> QED
        BY <2>1, <2>4, <4>1, <4>2 DEF Chain, Working
    <3> QED
      BY <3>1 DEF ChainsInv
  <2>6. TickInv'
    <3>1. \A i \in 1..Len(dueList) : dueList[i].occ.at \in Slots
      <4> SUFFICES ASSUME NEW i \in 1..Len(dueList)
                   PROVE  dueList[i].occ.at \in Slots
        OBVIOUS
      <4>1. dueList[i] \in Rows
        BY DEF TypeOK
      <4> QED
        BY <4>1 DEF Rows, Occurrences
    <3> QED
      BY <2>1, <2>4, <3>1 DEF TickInv
  <2> QED
    BY <2>2, <2>3, <2>5, <2>6
<1> QED
  BY <1>1, <1>2

LEMMA NextPreserves == IndInv /\ [Next]_vars => IndInv'
<1> SUFFICES ASSUME IndInv, [Next]_vars
             PROVE  IndInv'
  OBVIOUS
<1>1. CASE Requests
  BY <1>1, CreateTaskPreserves, EditTaskPreserves, RunNowPreserves DEF Requests
<1>2. CASE StartTick \/ TickSteps
  BY <1>2, StartTickPreserves, TakeDuePreserves, AdvancePreserves, LoopsPreserve DEF TickSteps
<1>3. CASE \E a \in Actors : ChainSteps(a) \/ TopicAnswer(a)
  BY <1>3, EnsureThreadPreserves, TopicAnswerPreserves, DispatchPreserves, MarkPreserves DEF ChainSteps
<1>4. CASE \E o \in Occurrences : RunSettles(o)
  BY <1>4, RunSettlesPreserves
<1>5. CASE TimePasses \/ Crash \/ Boot \/ UNCHANGED vars
  BY <1>5, WorldPreserves
<1> QED
  BY <1>1, <1>2, <1>3, <1>4, <1>5 DEF Next

--------------------------------------------------------------------------------
\* Whatever requests, edits, ticks and crashes interleave.

\* The invariant of the tasks, the history and the chains holds in every reachable state.
THEOREM InductiveInvariant == Spec => []IndInv
BY InitEstablishes, NextPreserves, PTL DEF Spec

\* Every variable of the task service keeps its type.
THEOREM TypeCorrect == Spec => []TypeOK
<1>1. IndInv => TypeOK
  BY DEF IndInv
<1> QED
  BY <1>1, InductiveInvariant, PTL

\* The history never claims a run that is not there, nor a success that was none
\* (markTaskRunDispatched, reconcileDispatchedTaskRuns).
THEOREM HistoryIsTrue == Spec => []HistoryMatchesRuns
<1>1. IndInv => HistoryMatchesRuns
  BY DEF IndInv
<1> QED
  BY <1>1, InductiveInvariant, PTL

\* What a step does to a settled occurrence: nothing, unless its task is deleted.
LEMMA SettledStays ==
  ASSUME IndInv, [Next]_vars, NEW o \in Occurrences, status[o] \in Terminal, o.task \in live'
  PROVE  status'[o] = status[o]
<1> USE DEF IndInv
<1>1. status[o] \notin {"none", "pending", "dispatched"}
  BY DEF Terminal
<1>2. CASE Requests
  <2>1. CASE \E k \in Tasks : CreateTask(k)
    BY <2>1 DEF CreateTask
  <2>2. ASSUME NEW k \in Tasks, EditTask(k)
        PROVE  status'[o] = status[o]
    <3>1. PICK e \in Edits : Edit(e, k)
      BY <2>2 DEF EditTask
    <3> QED
      BY <3>1 DEF Edit
  <2>3. ASSUME NEW k \in Tasks, NEW a \in Callers, RunNow(a, k)
        PROVE  status'[o] = status[o]
    <3>1. CreateOrGet([task |-> k, at |-> now])
      BY <2>3 DEF RunNow
    <3> QED
      BY <1>1, <3>1 DEF CreateOrGet, TypeOK
  <2> QED
    BY <1>2, <2>1, <2>2, <2>3 DEF Requests
<1>3. CASE TakeDue
  <2>1. status' = status \/ CreateOrGet(Head(dueList).occ)
    BY <1>3 DEF TakeDue
  <2> QED
    BY <1>1, <2>1 DEF CreateOrGet, TypeOK
<1>4. CASE Reconcile
  <2>1. PICK q \in Occurrences : q \in taskRuns /\ status' = [status EXCEPT ![q] = Reconciled(q)]
    BY <1>4 DEF Reconcile, IsFirst, MarkTerminal
  <2>2. status[q] = "dispatched"
    BY <1>4, <2>1 DEF Reconcile, TickInv
  <2> QED
    BY <1>1, <2>1, <2>2 DEF TypeOK
<1>5. ASSUME NEW a \in Actors, MarkResult(a) \/ MarkFailed(a)
      PROVE  status'[o] = status[o]
  <2>1. job[a].seen \in {None, "running"} \cup Terminal
    BY <1>5, ChainFrame DEF ChainSteps, Jobs
  <2>2. CASE MarkResult(a)
    BY <1>1, <2>1, <2>2, ConstantsAssumption
    DEF MarkResult, Dispatchable, Markable, MarkTerminal, TypeOK
  <2>3. CASE MarkFailed(a)
    BY <1>1, <2>3 DEF MarkFailed, Markable, MarkTerminal, TypeOK
  <2> QED
    BY <1>5, <2>2, <2>3
<1>6. CASE StartTick \/ Advance \/ EndDue \/ TakePending \/ EndResume \/ EndTick
           \/ TimePasses \/ Crash \/ Boot \/ UNCHANGED vars
           \/ (\E q \in Occurrences : RunSettles(q))
           \/ \E a \in Actors : EnsureThread(a) \/ TopicAnswer(a) \/ Dispatch(a)
  BY <1>6 DEF StartTick, Advance, EndDue, TakePending, EndResume, EndTick, TimePasses, Crash, Boot, vars,
              RunSettles, EnsureThread, TopicAnswer, Dispatch
<1> QED
  BY <1>2, <1>3, <1>4, <1>5, <1>6 DEF Next, TickSteps, ChainSteps

\* An occurrence that is settled stays so, whichever of the tick and the run-now requests
\* come to it, before or after a crash (markTaskRunTerminal).
THEOREM SettledIsFinal == Spec => TerminalIsFinal
<1>1. IndInv /\ [Next]_vars =>
        [\A o \in Occurrences :
           status[o] \in Terminal /\ o.task \in live' => status'[o] = status[o]]_vars
  BY SettledStays
<1> QED
  BY <1>1, InductiveInvariant, PTL DEF Spec, TerminalIsFinal

\* What a step, other than an edit, does to the schedule of an existing task.
LEMMA ScheduleMovesOn ==
  ASSUME IndInv, [Next]_vars, NEW k \in Tasks, k \in live, next'[k] # next[k], edits' = edits
  PROVE  /\ next[k] # None /\ next[k] <= now
         /\ status'[[task |-> k, at |-> next[k]]] # "none"
<1> USE DEF IndInv
<1>1. CASE Requests
  <2>1. ASSUME NEW q \in Tasks, CreateTask(q)
        PROVE  FALSE
    <3>1. q # k
      BY <2>1 DEF CreateTask, TasksInv
    <3> QED
      BY <2>1, <3>1 DEF CreateTask, TypeOK
  <2>2. ASSUME NEW q \in Tasks, EditTask(q)
        PROVE  FALSE
    BY <2>2 DEF EditTask, TypeOK
  <2>3. ASSUME NEW q \in Tasks, NEW a \in Callers, RunNow(a, q)
        PROVE  FALSE
    BY <2>3 DEF RunNow, taskRows
  <2> QED
    BY <1>1, <2>1, <2>2, <2>3 DEF Requests
<1>2. CASE Advance
  <2> DEFINE o == job[Tick].occ
  <2>1. o \in Occurrences /\ o.at <= now /\ status[o] # "none" /\ o.at \in Slots
    BY <1>2, Advancing
  <2>2. status' = status
    BY <1>2 DEF Advance
  <2>3. AdvanceTask(o.task, o.at)
    BY <1>2 DEF Advance
  <2>4. k = o.task /\ next[k] = o.at
    BY <2>3 DEF AdvanceTask, TypeOK
  <2>5. o = [task |-> k, at |-> next[k]]
    BY <2>1, <2>4 DEF Occurrences
  <2> QED
    BY <2>1, <2>2, <2>4, <2>5, ConstantsAssumption DEF Slots
<1>3. CASE StartTick \/ TakeDue \/ EndDue \/ TakePending \/ EndResume \/ Reconcile \/ EndTick
           \/ TimePasses \/ Crash \/ Boot \/ UNCHANGED vars
           \/ (\E q \in Occurrences : RunSettles(q))
           \/ \E a \in Actors : ChainSteps(a) \/ TopicAnswer(a)
  BY <1>3 DEF StartTick, TakeDue, EndDue, TakePending, EndResume, Reconcile, EndTick, TimePasses, Crash,
              Boot, vars, RunSettles, ChainSteps, EnsureThread, TopicAnswer, Dispatch, MarkResult,
              MarkFailed, taskRows
<1> QED
  BY <1>1, <1>2, <1>3 DEF Next, TickSteps

\* Unless the user edits the task, its schedule leaves a time only when that has come and its
\* occurrence has a row (processDueTasks, advanceTaskAfterOccurrence).
THEOREM NothingSkipped == Spec => NoOccurrenceSkipped
<1>1. IndInv /\ [Next]_vars =>
        [\A k \in Tasks :
           (k \in live /\ next'[k] # next[k] /\ edits' = edits)
             => /\ next[k] # None /\ next[k] <= now
                /\ status'[[task |-> k, at |-> next[k]]] # "none"]_vars
  BY ScheduleMovesOn
<1> QED
  BY <1>1, InductiveInvariant, PTL DEF Spec, NoOccurrenceSkipped

--------------------------------------------------------------------------------
\* Without run-now requests.

\* k has had the topic th, or none, and if it has one now, it is that one or a later one.
HadThread(k, th) ==
  \/ th = None
  \/ k \notin TopicTasks /\ th = 0
  \/ k \in TopicTasks /\ th <= topics /\ (thread[k] # None => th <= thread[k])

\* The row of the task said this when it was read, and a run of the occurrence was created
\* from what it said then or earlier.
Read(row) ==
  /\ HadThread(row.occ.task, row.thread) /\ row.text <= text[row.occ.task]
  /\ runs[row.occ] # None => /\ runs[row.occ].text <= row.text
                             /\ row.thread # None => runs[row.occ].thread <= row.thread

\* Topics belong to topic tasks, and runs were created from what the row of the task said.
TopicsInv ==
  /\ \A k \in Tasks : HadThread(k, thread[k])
  /\ \A o \in Occurrences : runs[o] # None =>
       HadThread(o.task, runs[o].thread) /\ runs[o].text <= text[o.task]

\* A row that is still to be looked at; no thread was read where there is one.
ReadDue(i) ==
  /\ Read(dueList[i])
  /\ dueList[i].thread = None => thread[dueList[i].occ.task] = None
  /\ Working(Tick) => dueList[i].occ.task # job[Tick].occ.task

\* The rows still to be looked at and the one the tick works on are of different tasks.
ReadInv ==
  /\ phase # "due" => dueList = <<>>
  /\ \A i \in 1..Len(dueList) : ReadDue(i)
  /\ \A i, m \in 1..Len(dueList) : m # i => dueList[m].occ.task # dueList[i].occ.task
  /\ Working(Tick) => Read(job[Tick])
  /\ Working(Tick) /\ job[Tick].thread = None => thread[job[Tick].occ.task] = None
  /\ pc[Tick] = "topic" => job[Tick].thread = None /\ job[Tick].occ.task \in TopicTasks

\* The task of the occurrence was deleted.
Deleted(o) == o.task \notin live /\ kind[o.task] # None

\* ingest refuses the occurrence, and will: the text has changed, or the topic has.
Changed(o) ==
  \/ runs[o].text < text[o.task]
  \/ o.task \in TopicTasks /\ (thread[o.task] = None \/ runs[o].thread < thread[o.task])

Excused(o) == runs[o] = None \/ runs[o].status = "failed" \/ Changed(o)

\* An occurrence that was pending when the tick took it is so until the tick marks it, unless
\* its task is deleted.
TakenInv ==
  /\ Working(Tick) => /\ phase \in {"due", "resume"}
                      /\ phase = "resume" => job[Tick].pending /\ job[Tick].occ \notin taskRuns
                      /\ status[job[Tick].occ] = "none" => Deleted(job[Tick].occ)
  /\ pc[Tick] \in {"dispatch", "mark"} => job[Tick].pending
  /\ Working(Tick) /\ job[Tick].pending => status[job[Tick].occ] \in {"pending", "none"}
  /\ pc[Tick] = "fail" => status[job[Tick].occ] = "none" \/ Excused(job[Tick].occ)
  /\ phase = "resume" =>
       \A o \in taskRuns : status[o] = "pending" \/ (status[o] = "none" /\ Deleted(o))

ExcusedInv == \A o \in Occurrences : status[o] = "failed" => Excused(o)

SoleInv == TopicsInv /\ ReadInv /\ TakenInv /\ ExcusedInv

\* What happens to the thread and the text of a task.
ThreadStep(k) ==
  /\ \/ thread'[k] \in {thread[k], None}
     \/ thread[k] = None /\ k \in TopicTasks /\ thread'[k] = topics + 1 /\ topics' = topics + 1
     \/ k \notin TopicTasks /\ thread'[k] = 0
  /\ text[k] <= text'[k]

\* Threads and texts go on; a run is what it was created as, and settles once.
Onward ==
  /\ \A k \in Tasks : ThreadStep(k)
  /\ topics <= topics'
  /\ \A o \in Occurrences : runs[o] # None =>
       /\ runs'[o] # None /\ runs'[o].thread = runs[o].thread /\ runs'[o].text = runs[o].text
       /\ runs[o].status \in Terminal => runs'[o].status = runs[o].status

\* Types of the parts, for arithmetic.
LEMMA Numbers ==
  ASSUME TypeOK
  PROVE  /\ topics \in Nat /\ now \in Nat
         /\ \A k \in Tasks : text[k] \in Nat /\ thread[k] \in Nat \cup {None}
         /\ \A o \in Occurrences : /\ o.task \in Tasks /\ o.at \in Nat
                                   /\ runs[o] # None => runs[o].thread \in Nat /\ runs[o].text \in Nat
         /\ \A row \in Rows \cup Jobs : row.occ \in Occurrences /\ row.text \in Nat
                                          /\ row.thread \in Nat \cup {None}
         /\ None \notin Nat
<1>1. \A o \in Occurrences : runs[o] # None => runs[o] \in Runs
  BY DEF TypeOK
<1>2. \A r \in Runs : r.thread \in Nat /\ r.text \in Nat
  BY ConstantsAssumption DEF Runs, Threads
<1>3. \A row \in Rows \cup Jobs : row.occ \in Occurrences /\ row.text \in Nat
                                    /\ row.thread \in Nat \cup {None}
  BY ConstantsAssumption DEF Rows, Jobs, Threads
<1>4. \A o \in Occurrences : o.task \in Tasks /\ o.at \in Nat
  BY ConstantsAssumption DEF Occurrences, Slots
<1>5. \A k \in Tasks : text[k] \in Nat /\ thread[k] \in Nat \cup {None}
  BY ConstantsAssumption DEF TypeOK, Threads
<1>6. topics \in Nat /\ now \in Nat /\ None \notin Nat
  BY ConstantsAssumption DEF TypeOK, Slots
<1> QED
  BY <1>1, <1>2, <1>3, <1>4, <1>5, <1>6

\* A thread the task has had stays one it has had.
LEMMA HadThreadStays ==
  ASSUME TypeOK, TypeOK', Onward, NEW k \in Tasks, NEW th \in Nat \cup {None}, HadThread(k, th)
  PROVE  HadThread(k, th)'
<1>1. ThreadStep(k) /\ topics <= topics'
  BY DEF Onward
<1>2. /\ topics \in Nat /\ topics' \in Nat /\ None \notin Nat
      /\ thread[k] \in Nat \cup {None} /\ thread'[k] \in Nat \cup {None}
  BY Numbers, ConstantsAssumption DEF TypeOK, Threads
<1> QED
  BY <1>1, <1>2 DEF ThreadStep, HadThread

\* What was read stays what the row said.
LEMMA ReadStays ==
  ASSUME TypeOK, TypeOK', Onward, NEW row \in Rows \cup Jobs, Read(row),
         runs[row.occ] = None => runs'[row.occ] = None
  PROVE  Read(row)'
<1>1. row.occ \in Occurrences /\ row.occ.task \in Tasks
  BY Numbers
<1>2. HadThread(row.occ.task, row.thread)'
  BY <1>1, Numbers, HadThreadStays DEF Read
<1>3. row.text <= text'[row.occ.task]
  <2>1. text'[row.occ.task] \in Nat
    BY <1>1 DEF TypeOK
  <2> QED
    BY <1>1, <2>1, Numbers DEF Read, Onward, ThreadStep
<1>4. runs'[row.occ] # None => /\ runs'[row.occ].text <= row.text
                               /\ row.thread # None => runs'[row.occ].thread <= row.thread
  BY <1>1 DEF Read, Onward
<1> QED
  BY <1>2, <1>3, <1>4 DEF Read

\* An excuse stays one.
LEMMA ExcuseStays ==
  ASSUME TypeOK, TypeOK', TopicsInv, Onward, NEW o \in Occurrences, Excused(o),
         runs[o] = None => runs'[o] = None
  PROVE  Excused(o)'
<1>1. CASE runs[o] = None
  BY <1>1 DEF Excused
<1>2. CASE runs[o] # None /\ runs[o].status = "failed"
  BY <1>2 DEF Excused, Onward, Terminal
<1>3. CASE runs[o] # None /\ Changed(o)
  <2>1. /\ runs'[o] # None /\ runs'[o].thread = runs[o].thread /\ runs'[o].text = runs[o].text
        /\ o.task \in Tasks /\ ThreadStep(o.task)
        /\ runs[o].thread \in Nat /\ runs[o].text \in Nat
    BY <1>3, Numbers DEF Onward
  <2>2. text'[o.task] \in Nat /\ text[o.task] \in Nat /\ topics \in Nat
    BY <2>1, Numbers DEF TypeOK
  <2>3. o.task \in TopicTasks => runs[o].thread <= topics
    BY <1>3, <2>1, Numbers DEF TopicsInv, HadThread
  <2>4. Changed(o)'
    BY <1>3, <2>1, <2>2, <2>3, Numbers DEF Changed, ThreadStep
  <2> QED
    BY <2>4 DEF Excused
<1> QED
  BY <1>1, <1>2, <1>3 DEF Excused

\* Topics and runs, when no run is created.
LEMMA TopicsStay ==
  ASSUME TypeOK, TypeOK', TopicsInv, Onward,
         \A k \in Tasks : HadThread(k, thread[k])',
         \A o \in Occurrences : runs[o] = None => runs'[o] = None
  PROVE  TopicsInv'
<1>1. ASSUME NEW o \in Occurrences, runs'[o] # None
      PROVE  HadThread(o.task, runs[o].thread)' /\ runs'[o].text <= text'[o.task]
  <2>1. /\ runs[o] # None /\ runs'[o].thread = runs[o].thread /\ runs'[o].text = runs[o].text
        /\ o.task \in Tasks /\ ThreadStep(o.task)
    BY <1>1, Numbers DEF Onward
  <2>2. HadThread(o.task, runs[o].thread) /\ runs[o].text <= text[o.task]
    BY <2>1 DEF TopicsInv
  <2>3. PICK th \in Nat \cup {None} : th = runs[o].thread
    BY <2>1, Numbers
  <2>4. HadThread(o.task, th)'
    BY <2>1, <2>2, <2>3, HadThreadStays
  <2>5. HadThread(o.task, runs[o].thread)'
    BY <2>1, <2>3, <2>4 DEF HadThread
  <2>6. runs'[o].text <= text'[o.task]
    <3>1. runs[o].text \in Nat /\ text[o.task] \in Nat /\ text'[o.task] \in Nat
      BY <2>1, Numbers, ConstantsAssumption DEF TypeOK
    <3> QED
      BY <2>1, <2>2, <3>1 DEF ThreadStep
  <2> QED
    BY <2>5, <2>6
<1> QED
  BY <1>1 DEF TopicsInv


\* The topic a task has is one it has had.
LEMMA HasTopic ==
  ASSUME TypeOK, TypeOK', TopicsInv, Onward, NEW k \in Tasks
  PROVE  HadThread(k, thread[k])'
<1>1. ThreadStep(k) /\ topics <= topics'
  BY DEF Onward
<1>2. PICK th \in Nat \cup {None} : th = thread'[k]
  <2>1. thread'[k] \in Nat \cup {None}
    BY ConstantsAssumption DEF TypeOK, Threads
  <2> QED
    BY <2>1
<1>3. topics \in Nat /\ topics' \in Nat /\ None \notin Nat
  BY ConstantsAssumption DEF TypeOK
<1>4. CASE thread'[k] = thread[k]
  <2>1. HadThread(k, th)
    BY <1>2, <1>4 DEF TopicsInv
  <2>2. HadThread(k, th)'
    BY <2>1, HadThreadStays
  <2> QED
    BY <1>2, <2>2 DEF HadThread
<1>5. CASE thread'[k] # thread[k]
  BY <1>1, <1>2, <1>3, <1>5 DEF ThreadStep, HadThread
<1> QED
  BY <1>4, <1>5

\* The row of a task, as it is now, was read.
LEMMA RowIsRead ==
  ASSUME TypeOK, TopicsInv, NEW o \in Occurrences
  PROVE  Read(RowOf(o))
<1>1. /\ RowOf(o).occ = o /\ RowOf(o).thread = thread[o.task] /\ RowOf(o).text = text[o.task]
      /\ o.task \in Tasks /\ text[o.task] \in Nat /\ thread[o.task] \in Nat \cup {None}
  BY Numbers DEF RowOf
<1>2. HadThread(o.task, thread[o.task])
  BY <1>1 DEF TopicsInv
<1>3. ASSUME runs[o] # None
      PROVE  /\ runs[o].text <= text[o.task]
             /\ thread[o.task] # None => runs[o].thread <= thread[o.task]
  <2>1. HadThread(o.task, runs[o].thread) /\ runs[o].text <= text[o.task]
    BY <1>3 DEF TopicsInv
  <2>2. runs[o].thread \in Nat /\ None \notin Nat
    BY <1>3, Numbers
  <2> QED
    BY <1>1, <2>1, <2>2 DEF HadThread
<1> QED
  BY <1>1, <1>2, <1>3 DEF Read

\* While tasks, runs and topics are left alone, what was read and what is excused stays so.
Frozen == UNCHANGED <<live, kind, text, thread, runs, topics>>

LEMMA FrozenKeeps ==
  ASSUME TypeOK, Frozen
  PROVE  /\ Onward
         /\ \A row \in Rows \cup Jobs : Read(row) => Read(row)'
         /\ \A o \in Occurrences : Excused(o) => Excused(o)'
         /\ \A o \in Occurrences : Deleted(o) => Deleted(o)'
         /\ TopicsInv => TopicsInv'
<1>1. Onward
  BY Numbers DEF Frozen, Onward, ThreadStep
<1>2. \A row \in Rows \cup Jobs : Read(row) => Read(row)'
  BY DEF Frozen, Read, HadThread
<1>3. \A o \in Occurrences : Excused(o) => Excused(o)'
  BY DEF Frozen, Excused, Changed
<1>4. \A o \in Occurrences : Deleted(o) => Deleted(o)'
  BY DEF Frozen, Deleted
<1>5. TopicsInv => TopicsInv'
  BY DEF Frozen, TopicsInv, HadThread
<1> QED
  BY <1>1, <1>2, <1>3, <1>4, <1>5

\* The rows of dueList are typed.
LEMMA DueRow ==
  ASSUME TypeOK, NEW i \in 1..Len(dueList)
  PROVE  /\ dueList[i] \in Rows /\ dueList[i].occ \in Occurrences /\ dueList[i].occ.task \in Tasks
<1>1. dueList[i] \in Rows
  BY DEF TypeOK
<1> QED
  BY <1>1, Numbers

\* The occurrence the tick works on.
LEMMA WorksOn ==
  ASSUME IndInv, Working(Tick)
  PROVE  /\ job[Tick] \in Jobs /\ job[Tick].occ \in Occurrences /\ job[Tick].occ.task \in Tasks
         /\ job[Tick].pending \in BOOLEAN
<1>1. job[Tick] \in Jobs
  BY DEF IndInv, ChainsInv, Chain, Actors
<1>2. job[Tick].pending \in BOOLEAN
  BY <1>1 DEF Jobs
<1> QED
  BY <1>1, <1>2, Numbers DEF IndInv

\* Requests, runs and time pass by what the tick does.
LEMMA PassesBy ==
  ASSUME IndInv, TypeOK', SoleInv, Onward,
         UNCHANGED <<phase, dueList, taskRuns, pc, job>>,
         \A o \in Occurrences : runs[o] = None => runs'[o] = None,
         \A k \in Tasks : thread[k] = None => thread'[k] = None,
         \A o \in Occurrences : Deleted(o) => Deleted(o)',
         \A o \in Occurrences :
           status'[o] = status[o] \/ (status'[o] = "none" /\ Deleted(o)')
  PROVE  SoleInv'
<1> USE DEF SoleInv
<1>1. TypeOK
  BY DEF IndInv
<1>2. TopicsInv'
  <2>1. \A k \in Tasks : HadThread(k, thread[k])'
    BY <1>1, HasTopic
  <2> QED
    BY <1>1, <2>1, TopicsStay
<1>3. ReadInv'
  <2>1. ASSUME NEW i \in 1..Len(dueList)
        PROVE  ReadDue(i)'
    <3>1. PICK row \in Rows : row = dueList[i]
      BY <1>1, DueRow
    <3>2. Read(row) /\ row.occ \in Occurrences /\ row.occ.task \in Tasks
      BY <1>1, <3>1, DueRow DEF ReadInv, ReadDue
    <3>3. Read(row)'
      BY <1>1, <3>2, ReadStays
    <3>4. Read(dueList[i])'
      BY <3>1, <3>3 DEF Read
    <3>5. dueList[i].thread = None => thread'[dueList[i].occ.task] = None
      BY <3>1, <3>2 DEF ReadInv, ReadDue
    <3>6. Working(Tick) => dueList[i].occ.task # job[Tick].occ.task
      BY DEF ReadInv, ReadDue
    <3> QED
      BY <3>4, <3>5, <3>6 DEF ReadDue, Working
  <2>2. ASSUME Working(Tick)
        PROVE  /\ Read(job[Tick])'
               /\ job[Tick].thread = None => thread'[job[Tick].occ.task] = None
    <3>1. PICK row \in Jobs : row = job[Tick]
      BY <2>2, WorksOn
    <3>2. Read(row) /\ row.occ \in Occurrences /\ row.occ.task \in Tasks
      BY <2>2, <3>1, WorksOn DEF ReadInv
    <3>3. Read(row)'
      BY <1>1, <3>2, ReadStays
    <3>4. Read(job[Tick])'
      BY <3>1, <3>3 DEF Read
    <3> QED
      BY <2>2, <3>1, <3>2, <3>4 DEF ReadInv
  <2>3. (phase' # "due" => dueList' = <<>>)
        /\ \A i, m \in 1..Len(dueList) : m # i => dueList[m].occ.task # dueList[i].occ.task
    BY DEF ReadInv
  <2>4. pc[Tick] = "topic" => job[Tick].thread = None /\ job[Tick].occ.task \in TopicTasks
    BY DEF ReadInv
  <2> QED
    BY <2>1, <2>2, <2>3, <2>4 DEF ReadInv, Working
<1>4. \A o \in Occurrences : Excused(o) => Excused(o)'
  BY <1>1, ExcuseStays
<1>5. TakenInv'
  <2>1. ASSUME Working(Tick)
        PROVE  /\ phase \in {"due", "resume"}
               /\ phase = "resume" => job[Tick].pending /\ job[Tick].occ \notin taskRuns
               /\ status'[job[Tick].occ] = "none" => Deleted(job[Tick].occ)'
               /\ job[Tick].pending => status'[job[Tick].occ] \in {"pending", "none"}
               /\ pc[Tick] \in {"dispatch", "mark"} => job[Tick].pending
               /\ pc[Tick] = "fail" => status'[job[Tick].occ] = "none" \/ Excused(job[Tick].occ)'
    <3>1. PICK o \in Occurrences : o = job[Tick].occ
      BY <2>1, WorksOn
    <3>2. status'[o] = "none" => Deleted(o)'
      BY <2>1, <3>1 DEF TakenInv
    <3>3. job[Tick].pending => status'[o] \in {"pending", "none"}
      BY <2>1, <3>1 DEF TakenInv
    <3>4. pc[Tick] = "fail" => status'[o] = "none" \/ Excused(o)'
      BY <1>4, <3>1 DEF TakenInv
    <3>5. Deleted(o)' => Deleted(job[Tick].occ)'
      BY <3>1 DEF Deleted
    <3>6. Excused(o)' => Excused(job[Tick].occ)'
      BY <3>1 DEF Excused, Changed
    <3> QED
      BY <2>1, <3>1, <3>2, <3>3, <3>4, <3>5, <3>6 DEF TakenInv
  <2>2. phase = "resume" =>
          \A o \in taskRuns : status'[o] = "pending" \/ (status'[o] = "none" /\ Deleted(o)')
    BY <1>1 DEF TakenInv, TypeOK
  <2>3. pc[Tick] \in {"dispatch", "mark", "fail"} => Working(Tick)
    BY DEF Working
  <2> QED
    BY <2>1, <2>2, <2>3 DEF TakenInv, Working
<1>6. ExcusedInv'
  BY <1>4 DEF ExcusedInv
<1> QED
  BY <1>2, <1>3, <1>5, <1>6

\* A process that ends has nothing to go on with.
LEMMA EndsSole ==
  ASSUME IndInv, IndInv', SoleInv, ProcessEnds, Frozen, UNCHANGED status
  PROVE  SoleInv' /\ Onward
<1> USE DEF SoleInv
<1>1. TypeOK
  BY DEF IndInv
<1>2. Onward /\ TopicsInv' /\ ExcusedInv'
  BY <1>1, FrozenKeeps DEF ExcusedInv
<1>3. ~Working(Tick)' /\ pc'[Tick] = "idle" /\ dueList' = <<>> /\ phase' = "idle"
  BY DEF ProcessEnds, Working, Actors
<1>4. ReadInv' /\ TakenInv'
  BY <1>3, EmptySeq DEF ReadInv, TakenInv
<1> QED
  BY <1>2, <1>4

LEMMA StartTickSole ==
  ASSUME IndInv, IndInv', SoleInv, StartTick
  PROVE  SoleInv' /\ Onward
<1> USE DEF SoleInv
<1>1. TypeOK
  BY DEF IndInv
<1>2. /\ phase = "idle" /\ phase' = "due" /\ dueList' \in DueLists /\ pc' = pc /\ job' = job
      /\ status' = status /\ Frozen
  BY DEF StartTick, Frozen, taskRows, world
<1>3. Onward /\ TopicsInv' /\ ExcusedInv'
  BY <1>1, <1>2, FrozenKeeps DEF ExcusedInv
<1>4. ~Working(Tick)' /\ pc'[Tick] \in {"idle", "done"}
  BY <1>2 DEF TakenInv, Working
<1>5. \A i, m \in 1..Len(dueList') : m # i => dueList'[m].occ.task # dueList'[i].occ.task
  BY <1>1, <1>2, DueListsRead
<1>6. ASSUME NEW i \in 1..Len(dueList')
      PROVE  ReadDue(i)'
  <2>1. dueList'[i].occ \in Occurrences /\ dueList'[i] = RowOf(dueList'[i].occ)
    BY <1>1, <1>2, DueListsRead
  <2>2. PICK row \in Rows : row = dueList'[i]
    BY <1>1, <2>1, RowIsTyped
  <2>3. Read(row)
    <3>1. Read(RowOf(row.occ))
      BY <1>1, <2>1, <2>2, RowIsRead
    <3> QED
      BY <2>1, <2>2, <3>1
  <2>4. Read(row)'
    BY <1>1, <1>2, <2>3, FrozenKeeps
  <2>5. Read(dueList[i])'
    BY <2>2, <2>4 DEF Read
  <2>6. row.thread = thread[row.occ.task]
    BY <2>1, <2>2 DEF RowOf
  <2>7. dueList'[i].thread = None => thread'[dueList'[i].occ.task] = None
    BY <1>2, <2>2, <2>6 DEF Frozen
  <2> QED
    BY <1>4, <2>5, <2>7 DEF ReadDue
<1>7. ReadInv'
  BY <1>2, <1>4, <1>5, <1>6 DEF ReadInv
<1>8. TakenInv'
  BY <1>2, <1>4 DEF TakenInv
<1> QED
  BY <1>3, <1>7, <1>8

\* The job that is taken from a row was read when the row was.
LEMMA JobIsRead ==
  ASSUME NEW row \in Rows, NEW b \in BOOLEAN, Read(row)
  PROVE  Read(JobOf(row, b))
BY JobIsTyped DEF Read

LEMMA TakeDueSole ==
  ASSUME IndInv, IndInv', SoleInv, TakeDue
  PROVE  SoleInv' /\ Onward
<1> USE DEF SoleInv
<1>1. TypeOK
  BY DEF IndInv
<1>2. phase = "due" /\ dueList # <<>> /\ pc[Tick] = "idle" /\ Frozen
  BY DEF TakeDue, TickIsFree, Frozen, taskRows
<1>3. PICK row \in Rows : row = Head(dueList)
  BY <1>1, <1>2, NextDue
<1>4. CASE row.occ.task \notin live
  <2>1. ProcessEnds /\ status' = status
    BY <1>3, <1>4 DEF TakeDue, Throws
  <2> QED
    BY <1>2, <2>1, EndsSole
<1>5. CASE row.occ.task \in live
  <2> DEFINE b == status[row.occ] \in {"none", "pending"}
  <2>1. /\ CreateOrGet(row.occ) /\ dueList' = Tail(dueList) /\ phase' = phase
        /\ pc' = [pc EXCEPT ![Tick] = "advance"]
        /\ job' = [job EXCEPT ![Tick] = JobOf(row, b)]
    BY <1>3, <1>5 DEF TakeDue
  <2>2. b \in BOOLEAN /\ row.occ \in Occurrences
    BY <1>1, Numbers
  <2>3. /\ status[row.occ] = "none" => status' = [status EXCEPT ![row.occ] = "pending"]
        /\ status[row.occ] # "none" => status' = status
        /\ status'[row.occ] # "none" /\ b => status'[row.occ] = "pending"
    BY <1>1, <2>1, <2>2 DEF CreateOrGet, TypeOK
  <2>4. status'[row.occ] # "none" /\ (b => status'[row.occ] = "pending")
    BY <1>1, <2>2, <2>3 DEF TypeOK
  <2> HIDE DEF b
  <2>5. PICK new \in Jobs : /\ new = JobOf(row, b) /\ new.occ = row.occ /\ new.thread = row.thread
                            /\ new.text = row.text /\ new.pending = b
    BY <2>2, JobIsTyped
  <2>6. pc'[Tick] = "advance" /\ job'[Tick] = new /\ Working(Tick)'
    BY <1>1, <2>1, <2>5 DEF TypeOK, Actors, Working
  <2>7. Onward /\ TopicsInv'
    BY <1>1, <1>2, FrozenKeeps
  <2>8. ExcusedInv'
    <3>1. \A o \in Occurrences : status'[o] = "failed" => status[o] = "failed"
      BY <1>1, <2>2, <2>3 DEF TypeOK
    <3> QED
      BY <1>1, <1>2, <3>1, FrozenKeeps DEF ExcusedInv
  <2>9. /\ row = dueList[1] /\ 1 \in 1..Len(dueList)
        /\ \A i \in 1..Len(dueList') :
             dueList'[i] = dueList[i + 1] /\ i + 1 \in 1..Len(dueList) /\ i + 1 # 1
    BY <1>1, <1>2, <1>3, <2>1, NextDue
  <2>10. Read(row) /\ (row.thread = None => thread[row.occ.task] = None)
    BY <2>9 DEF ReadInv, ReadDue
  <2>11. Read(job[Tick])' /\ (job'[Tick].thread = None => thread'[job'[Tick].occ.task] = None)
    <3>1. Read(row)'
      BY <1>1, <1>2, <2>10, FrozenKeeps
    <3> QED
      BY <1>2, <2>5, <2>6, <2>10, <3>1 DEF Read, Frozen
  <2>12. ASSUME NEW i \in 1..Len(dueList')
         PROVE  ReadDue(i)'
    <3>1. PICK q \in Rows : q = dueList'[i]
      BY <1>1, <2>9, DueRow
    <3>2. /\ Read(q) /\ (q.thread = None => thread[q.occ.task] = None)
          /\ q.occ.task # row.occ.task
      BY <2>9, <3>1 DEF ReadInv, ReadDue
    <3>3. Read(q)'
      BY <1>1, <1>2, <3>2, FrozenKeeps
    <3> QED
      BY <1>2, <2>5, <2>6, <3>1, <3>2, <3>3 DEF Read, Frozen, ReadDue
  <2>13. ASSUME NEW i \in 1..Len(dueList'), NEW m \in 1..Len(dueList'), m # i
         PROVE  dueList'[m].occ.task # dueList'[i].occ.task
    <3>1. m + 1 # i + 1
      BY <2>13
    <3> QED
      BY <2>9, <3>1 DEF ReadInv
  <2>14. ReadInv'
    BY <1>2, <2>1, <2>6, <2>11, <2>12, <2>13 DEF ReadInv
  <2>15. TakenInv'
    BY <1>2, <2>1, <2>4, <2>5, <2>6 DEF TakenInv
  <2> QED
    BY <2>7, <2>8, <2>14, <2>15
<1> QED
  BY <1>4, <1>5

\* A step of the tick that leaves its rows and what it works on alone.
LEMMA SameRows ==
  ASSUME TypeOK, ReadInv, Frozen, UNCHANGED <<dueList, job>>, Working(Tick)' => Working(Tick),
         Working(Tick) => job[Tick] \in Jobs,
         phase' = phase \/ dueList = <<>>,
         pc'[Tick] = "topic" => job[Tick].thread = None /\ job[Tick].occ.task \in TopicTasks
  PROVE  ReadInv'
<1>1. ASSUME NEW i \in 1..Len(dueList)
      PROVE  ReadDue(i)'
  <2>1. PICK row \in Rows : row = dueList[i]
    BY DueRow
  <2>2. Read(row) /\ Read(row)'
    BY <2>1, FrozenKeeps DEF ReadInv, ReadDue
  <2>3. Read(dueList[i])'
    BY <2>1, <2>2 DEF Read
  <2>4. /\ dueList[i].thread = None => thread'[dueList[i].occ.task] = None
        /\ Working(Tick)' => dueList[i].occ.task # job[Tick].occ.task
    BY DEF ReadInv, ReadDue, Frozen
  <2> QED
    BY <2>3, <2>4 DEF ReadDue
<1>2. ASSUME Working(Tick)'
      PROVE  Read(job[Tick])' /\ (job[Tick].thread = None => thread'[job[Tick].occ.task] = None)
  <2>1. PICK row \in Jobs : row = job[Tick]
    BY <1>2
  <2>2. Read(row) /\ Read(row)'
    BY <1>2, <2>1, FrozenKeeps DEF ReadInv
  <2>3. Read(job[Tick])'
    BY <2>1, <2>2 DEF Read
  <2> QED
    BY <1>2, <2>3 DEF ReadInv, Frozen
<1>3. phase' # "due" => dueList' = <<>>
  BY DEF ReadInv
<1>4. \A i, m \in 1..Len(dueList) : m # i => dueList[m].occ.task # dueList[i].occ.task
  BY DEF ReadInv
<1> QED
  BY <1>1, <1>2, <1>3, <1>4 DEF ReadInv

LEMMA AdvanceSole ==
  ASSUME IndInv, IndInv', SoleInv, Advance
  PROVE  SoleInv' /\ Onward
<1> USE DEF SoleInv
<1>1. TypeOK
  BY DEF IndInv
<1>2. pc[Tick] = "advance" /\ Working(Tick) /\ status' = status /\ Frozen
  BY DEF Advance, Working, Frozen
<1>3. CASE Exhausted(job[Tick].occ.task)
  <2>1. ProcessEnds
    BY <1>3 DEF Advance, Throws
  <2> QED
    BY <1>2, <2>1, EndsSole
<1>4. CASE ~Exhausted(job[Tick].occ.task)
  <2>1. UNCHANGED <<phase, dueList, taskRuns, job>> /\ pc'[Tick] = "ensure"
    BY <1>1, <1>4 DEF Advance, tick, TypeOK, Actors
  <2>2. Onward /\ TopicsInv' /\ ExcusedInv'
    BY <1>1, <1>2, FrozenKeeps DEF ExcusedInv
  <2>3. job[Tick] \in Jobs /\ job[Tick].occ \in Occurrences
    BY <1>2, WorksOn
  <2>4. ReadInv'
    BY <1>1, <1>2, <2>1, <2>3, SameRows
  <2>5. TakenInv'
    BY <1>2, <2>1 DEF TakenInv, Deleted, Frozen, Working
  <2> QED
    BY <2>2, <2>4, <2>5
<1> QED
  BY <1>3, <1>4

LEMMA LoopsSole ==
  ASSUME IndInv, IndInv', SoleInv, EndDue \/ EndResume \/ EndTick \/ Reconcile
  PROVE  SoleInv' /\ Onward
<1> USE DEF SoleInv
<1>1. TypeOK
  BY DEF IndInv
<1>2. /\ Frozen /\ UNCHANGED <<dueList, job, pc>> /\ ~Working(Tick) /\ ~Working(Tick)'
      /\ pc[Tick] = "idle" /\ dueList = <<>>
  BY DEF EndDue, EndResume, EndTick, Reconcile, TickIsFree, Frozen, taskRows, world, Working, ReadInv
<1>3. Onward /\ TopicsInv'
  BY <1>1, <1>2, FrozenKeeps
<1>4. ReadInv'
  BY <1>1, <1>2, SameRows
<1>5. \A o \in Occurrences : status'[o] = "failed" => status[o] = "failed" \/ runs[o].status = "failed"
  <2>1. CASE EndDue \/ EndResume \/ EndTick
    BY <2>1 DEF EndDue, EndResume, EndTick
  <2>2. CASE Reconcile
    <3>1. PICK q \in Occurrences : status' = [status EXCEPT ![q] = Reconciled(q)]
      BY <2>2 DEF Reconcile, MarkTerminal
    <3> QED
      BY <1>1, <3>1 DEF Reconciled, TypeOK
  <2> QED
    BY <2>1, <2>2
<1>6. ExcusedInv'
  <2>1. \A o \in Occurrences : status'[o] = "failed" => Excused(o)
    BY <1>5 DEF ExcusedInv, Excused
  <2> QED
    BY <1>1, <1>2, <2>1, FrozenKeeps DEF ExcusedInv
<1>7. phase' = "resume" => \A o \in taskRuns' : status'[o] = "pending"
  BY DEF EndDue, EndResume, EndTick, Reconcile, TickIsFree, Listed
<1>8. TakenInv'
  BY <1>2, <1>7 DEF TakenInv
<1> QED
  BY <1>3, <1>4, <1>6, <1>8

LEMMA TakePendingSole ==
  ASSUME IndInv, IndInv', SoleInv, TakePending
  PROVE  SoleInv' /\ Onward
<1> USE DEF SoleInv
<1>1. TypeOK
  BY DEF IndInv
<1>2. /\ Frozen /\ UNCHANGED <<phase, dueList, status>> /\ ~Working(Tick)
      /\ pc[Tick] = "idle" /\ phase = "resume" /\ dueList = <<>>
  BY DEF TakePending, TickIsFree, Frozen, taskRows, world, Working, ReadInv
<1>3. Onward /\ TopicsInv' /\ ExcusedInv'
  BY <1>1, <1>2, FrozenKeeps DEF ExcusedInv
<1>4. PICK o \in Occurrences :
        /\ o \in taskRuns /\ taskRuns' = taskRuns \ {o}
        /\ IF o.task \in live
             THEN /\ pc' = [pc EXCEPT ![Tick] = "ensure"]
                  /\ job' = [job EXCEPT ![Tick] = JobOf(RowOf(o), TRUE)]
             ELSE UNCHANGED <<pc, job>>
  BY DEF TakePending, IsFirst
<1>5. \A q \in taskRuns : status'[q] = "pending" \/ (status'[q] = "none" /\ Deleted(q)')
  BY <1>2 DEF TakenInv, Deleted, Frozen
<1>6. CASE o.task \notin live
  <2>1. UNCHANGED <<pc, job>> /\ ~Working(Tick)'
    BY <1>2, <1>4, <1>6 DEF Working
  <2>2. ReadInv'
    BY <1>1, <1>2, <2>1, SameRows
  <2>3. TakenInv'
    BY <1>2, <1>4, <1>5, <2>1 DEF TakenInv
  <2> QED
    BY <1>3, <2>2, <2>3
<1>7. CASE o.task \in live
  <2>1. RowOf(o) \in Rows
    BY <1>1, RowIsTyped
  <2>2. PICK new \in Jobs : /\ new = JobOf(RowOf(o), TRUE) /\ new.occ = o /\ new.thread = thread[o.task]
                            /\ new.pending = TRUE
    BY <2>1, JobIsTyped DEF RowOf
  <2>3. pc'[Tick] = "ensure" /\ job'[Tick] = new /\ Working(Tick)'
    BY <1>1, <1>4, <1>7, <2>2 DEF TypeOK, Actors, Working
  <2>4. Read(new)'
    <3>1. Read(new)
      BY <1>1, <2>1, <2>2, RowIsRead, JobIsRead
    <3> QED
      BY <1>1, <1>2, <3>1, FrozenKeeps
  <2>5. Read(job[Tick])' /\ (job'[Tick].thread = None => thread'[job'[Tick].occ.task] = None)
    BY <1>2, <2>2, <2>3, <2>4 DEF Read, Frozen
  <2>6. Len(dueList') = 0
    BY <1>2, EmptySeq
  <2>7. ReadInv'
    BY <1>2, <2>3, <2>5, <2>6 DEF ReadInv
  <2>8. status'[o] = "pending" \/ (status'[o] = "none" /\ Deleted(o)')
    BY <1>4, <1>5
  <2>9. TakenInv'
    BY <1>2, <1>4, <1>5, <2>2, <2>3, <2>8 DEF TakenInv, Deleted
  <2> QED
    BY <1>3, <2>7, <2>9
<1> QED
  BY <1>6, <1>7

\* A chain step of the tick that leaves the task and its runs alone: it ends the occurrence, or
\* goes on with it.
LEMMA ChainGoesOn ==
  ASSUME IndInv, IndInv', SoleInv, Working(Tick), Frozen,
         UNCHANGED <<status, phase, dueList, taskRuns, job>>,
         pc'[Tick] \in {"dispatch", "mark"} => job[Tick].pending,
         pc'[Tick] = "topic" => job[Tick].thread = None /\ job[Tick].occ.task \in TopicTasks,
         pc'[Tick] = "fail" => status[job[Tick].occ] = "none" \/ Excused(job[Tick].occ)
  PROVE  SoleInv' /\ Onward
<1> USE DEF SoleInv
<1>1. TypeOK
  BY DEF IndInv
<1>2. job[Tick] \in Jobs /\ job[Tick].occ \in Occurrences
  BY WorksOn
<1>3. Onward /\ TopicsInv' /\ ExcusedInv'
  BY <1>1, FrozenKeeps DEF ExcusedInv
<1>4. ReadInv'
  BY <1>1, <1>2, SameRows
<1>5. pc'[Tick] = "fail" => status'[job'[Tick].occ] = "none" \/ Excused(job[Tick].occ)'
  <2>1. Excused(job[Tick].occ) => Excused(job[Tick].occ)'
    BY <1>2 DEF Excused, Changed, Frozen
  <2> QED
    BY <2>1
<1>6. TakenInv'
  BY <1>5 DEF TakenInv, Deleted, Frozen
<1> QED
  BY <1>3, <1>4, <1>6

\* The task gets the topic, or the thread, that it and the occurrence had none of.
LEMMA BindKeeps ==
  ASSUME IndInv, IndInv', SoleInv, Working(Tick), NeedsThread(job[Tick]), NEW th \in Nat,
         \/ job[Tick].occ.task \notin TopicTasks /\ th = 0 /\ topics' = topics
         \/ job[Tick].occ.task \in TopicTasks /\ th = topics + 1 /\ topics' = topics + 1,
         BindThread(Tick, th),
         UNCHANGED <<live, kind, text, status, runs, phase, dueList, taskRuns>>
  PROVE  SoleInv' /\ Onward
<1> USE DEF SoleInv
<1>1. TypeOK /\ TypeOK'
  BY DEF IndInv
<1>2. PICK o \in Occurrences : o = job[Tick].occ
  BY WorksOn
<1> DEFINE k == o.task
<1>3. /\ job[Tick] \in Jobs /\ k \in Tasks /\ Tick \in Actors /\ th # None
      /\ job[Tick].thread = None /\ thread[k] = None /\ topics \in Nat /\ topics' \in Nat
  BY <1>1, <1>2, WorksOn, Numbers DEF NeedsThread, ReadInv, Actors
<1>4. CASE k \notin live
  <2>1. pc'[Tick] = "fail" /\ UNCHANGED <<thread, job>>
    BY <1>1, <1>2, <1>3, <1>4 DEF BindThread, TypeOK
  <2>2. status[o] = "none"
    BY <1>4 DEF IndInv, RowsInv
  <2>3. Onward
    BY <1>1, <1>3, <2>1, Numbers DEF Onward, ThreadStep
  <2>4. \A q \in Tasks : HadThread(q, thread[q])'
    BY <1>1, <2>3, HasTopic
  <2>5. TopicsInv' /\ ExcusedInv'
    BY <1>1, <2>3, <2>4, TopicsStay, ExcuseStays DEF ExcusedInv
  <2>6. ASSUME NEW i \in 1..Len(dueList)
        PROVE  ReadDue(i)'
    <3>1. PICK row \in Rows : row = dueList[i]
      BY <1>1, DueRow
    <3>2. Read(row) /\ (row.thread = None => thread[row.occ.task] = None) /\ row.occ.task # k
      BY <1>2, <3>1 DEF ReadInv, ReadDue
    <3>3. Read(row)'
      BY <1>1, <2>3, <3>2, ReadStays
    <3> QED
      BY <1>2, <2>1, <3>1, <3>2, <3>3 DEF Read, ReadDue
  <2>7. Read(job[Tick])' /\ job'[Tick].occ = o
    <3>1. PICK row \in Jobs : row = job[Tick]
      BY <1>3
    <3>2. Read(row)
      BY <3>1 DEF ReadInv
    <3>3. Read(row)'
      BY <1>1, <2>3, <3>2, ReadStays
    <3> QED
      BY <1>2, <2>1, <3>1, <3>3 DEF Read
  <2>8. ReadInv'
    BY <1>2, <1>3, <2>1, <2>6, <2>7 DEF ReadInv
  <2>9. TakenInv'
    BY <1>2, <2>1, <2>2 DEF TakenInv, Deleted
  <2> QED
    BY <2>3, <2>5, <2>8, <2>9
<1>5. CASE k \in live
  <2> DEFINE j == [job[Tick] EXCEPT !.thread = th, !.text = text[k]]
  <2>1. /\ thread' = [thread EXCEPT ![k] = th] /\ job' = [job EXCEPT ![Tick] = j]
        /\ Proceed(Tick, j)
    BY <1>2, <1>5 DEF BindThread
  <2>2. /\ j.occ = o /\ j.thread = th /\ j.text = text[k] /\ j.pending = job[Tick].pending
    BY <1>2, <1>3 DEF Jobs
  <2> HIDE DEF j
  <2>3. job'[Tick] = j
    BY <1>1, <1>3, <2>1 DEF TypeOK
  <2>4. /\ pc'[Tick] \in {"idle", "dispatch"}
        /\ pc'[Tick] = "dispatch" => phase # "due" \/ j.pending
    BY <1>1, <1>3, <2>1 DEF Proceed, TypeOK
  <2>5. thread'[k] = th /\ \A q \in Tasks : q # k => thread'[q] = thread[q]
    BY <1>1, <2>1 DEF TypeOK
  <2>6. Onward
    <3>1. ASSUME NEW q \in Tasks
          PROVE  ThreadStep(q)
      <4>1. text'[q] = text[q] /\ text[q] \in Nat
        BY <1>1, Numbers
      <4>2. CASE q = k
        BY <1>2, <1>3, <2>5, <4>1, <4>2 DEF ThreadStep
      <4>3. CASE q # k
        BY <2>5, <4>1, <4>3 DEF ThreadStep
      <4> QED
        BY <4>2, <4>3
    <3> QED
      BY <1>3, <3>1 DEF Onward
  <2>7. \A q \in Tasks : HadThread(q, thread[q])'
    BY <1>1, <2>6, HasTopic
  <2>8. TopicsInv' /\ ExcusedInv'
    BY <1>1, <2>6, <2>7, TopicsStay, ExcuseStays DEF ExcusedInv
  <2>9. ASSUME NEW i \in 1..Len(dueList)
        PROVE  ReadDue(i)'
    <3>1. PICK row \in Rows : row = dueList[i]
      BY <1>1, DueRow
    <3>2. /\ Read(row) /\ (row.thread = None => thread[row.occ.task] = None) /\ row.occ.task # k
          /\ row.occ.task \in Tasks
      BY <1>1, <1>2, <3>1, DueRow DEF ReadInv, ReadDue
    <3>3. Read(row)'
      BY <1>1, <2>6, <3>2, ReadStays
    <3> QED
      BY <2>2, <2>3, <2>5, <3>1, <3>2, <3>3 DEF Read, ReadDue
  <2>10. Read(job[Tick])'
    <3>1. HadThread(k, th)'
      BY <1>3, <2>5, <2>7 DEF HadThread
    <3>2. ASSUME runs[o] # None
          PROVE  runs[o].text <= text[k] /\ runs[o].thread <= th
      <4>1. HadThread(k, runs[o].thread) /\ runs[o].text <= text[k] /\ runs[o].thread \in Nat
        BY <1>1, <3>2, Numbers DEF TopicsInv
      <4>2. runs[o].thread # None
        BY <1>1, <4>1, Numbers
      <4> QED
        BY <1>2, <1>3, <4>1, <4>2 DEF HadThread
    <3>3. text[k] \in Nat
      BY <1>1, <1>3, Numbers
    <3> QED
      BY <2>2, <2>3, <3>1, <3>2, <3>3 DEF Read, HadThread
  <2>11. ReadInv'
    BY <1>3, <2>2, <2>3, <2>4, <2>9, <2>10 DEF ReadInv
  <2>12. TakenInv'
    BY <1>2, <2>2, <2>3, <2>4 DEF TakenInv, Deleted, Working
  <2> QED
    BY <2>6, <2>8, <2>11, <2>12
<1> QED
  BY <1>4, <1>5

LEMMA EnsureThreadSole ==
  ASSUME IndInv, IndInv', SoleInv, EnsureThread(Tick)
  PROVE  SoleInv' /\ Onward
<1>1. /\ TypeOK /\ Tick \in Actors /\ pc[Tick] = "ensure" /\ Working(Tick)
      /\ UNCHANGED <<live, kind, text, status, runs, phase, dueList, taskRuns, topics>>
  BY DEF IndInv, EnsureThread, Working, Actors, tick, world
<1>2. CASE ~NeedsThread(job[Tick]) /\ Proceed(Tick, job[Tick]) /\ UNCHANGED <<thread, job>>
  <2>1. /\ pc'[Tick] \in {"idle", "dispatch"}
        /\ pc'[Tick] = "dispatch" => phase # "due" \/ job[Tick].pending
    BY <1>1, <1>2 DEF Proceed, TypeOK
  <2>2. pc'[Tick] = "dispatch" => job[Tick].pending
    BY <1>1, <2>1 DEF SoleInv, TakenInv
  <2> QED
    BY <1>1, <1>2, <2>1, <2>2, ChainGoesOn DEF Frozen
<1>3. CASE /\ NeedsThread(job[Tick]) /\ job[Tick].occ.task \in TopicTasks
           /\ pc' = [pc EXCEPT ![Tick] = "topic"] /\ UNCHANGED <<thread, job>>
  <2>1. pc'[Tick] = "topic" /\ job[Tick].thread = None
    BY <1>1, <1>3 DEF TypeOK, NeedsThread
  <2> QED
    BY <1>1, <1>3, <2>1, ChainGoesOn DEF Frozen
<1>4. CASE /\ NeedsThread(job[Tick]) /\ job[Tick].occ.task \notin TopicTasks
           /\ BindThread(Tick, 0)
  BY <1>1, <1>4, BindKeeps
<1> QED
  BY <1>2, <1>3, <1>4 DEF EnsureThread

LEMMA TopicAnswerSole ==
  ASSUME IndInv, IndInv', SoleInv, TopicAnswer(Tick)
  PROVE  SoleInv' /\ Onward
<1>1. /\ TypeOK /\ Tick \in Actors /\ pc[Tick] = "topic" /\ Working(Tick)
      /\ UNCHANGED <<live, kind, text, status, runs, phase, dueList, taskRuns>>
  BY DEF IndInv, TopicAnswer, Working, Actors, tick
<1>2. job[Tick].thread = None /\ job[Tick].occ.task \in TopicTasks /\ thread[job[Tick].occ.task] = None
  BY <1>1 DEF SoleInv, ReadInv
<1>3. CASE topics' = topics + 1 /\ BindThread(Tick, topics + 1)
  <2>1. topics + 1 \in Nat /\ NeedsThread(job[Tick])
    BY <1>1, <1>2, Numbers DEF NeedsThread
  <2> QED
    BY <1>1, <1>2, <1>3, <2>1, BindKeeps
<1>4. CASE pc' = [pc EXCEPT ![Tick] = "fail"] /\ UNCHANGED <<topics, thread, job>>
  <2>1. pc'[Tick] = "fail" /\ Excused(job[Tick].occ)
    BY <1>1, <1>2, <1>4 DEF TypeOK, Excused, Changed
  <2> QED
    BY <1>1, <1>4, <2>1, ChainGoesOn DEF Frozen
<1> QED
  BY <1>3, <1>4 DEF TopicAnswer

LEMMA DispatchSole ==
  ASSUME IndInv, IndInv', SoleInv, Dispatch(Tick)
  PROVE  SoleInv' /\ Onward
<1> USE DEF SoleInv
<1>1. /\ TypeOK /\ TypeOK' /\ Tick \in Actors /\ pc[Tick] = "dispatch" /\ Working(Tick)
      /\ UNCHANGED <<live, kind, text, thread, status, phase, dueList, taskRuns, topics>>
  BY DEF IndInv, Dispatch, Working, Actors, tick, taskRows, world
<1>2. PICK o \in Occurrences : o = job[Tick].occ
  BY <1>1, WorksOn
<1>3. PICK j \in Jobs : j = job[Tick]
  BY <1>1, WorksOn
<1>4. /\ j.occ = o /\ o.task \in Tasks /\ j.thread \in Nat /\ j.text \in Nat /\ None \notin Nat
      /\ j.pending /\ Read(j) /\ status[o] \in {"pending", "none"}
  <2>1. j.thread # None
    BY <1>1, <1>3 DEF IndInv, ChainsInv, Chain
  <2> QED
    BY <1>1, <1>2, <1>3, <2>1, Numbers DEF ReadInv, TakenInv
\* ingest creates the run.
<1>5. CASE /\ runs[o] = None /\ pc' = [pc EXCEPT ![Tick] = "mark"]
           /\ runs' = [runs EXCEPT ![o] =
                         [thread |-> j.thread, text |-> j.text, status |-> "running"]]
           /\ job' = [job EXCEPT ![Tick].seen = "running"]
  <2>1. /\ runs'[o].thread = j.thread /\ runs'[o].text = j.text /\ pc'[Tick] = "mark"
        /\ \A q \in Occurrences : q # o => runs'[q] = runs[q]
    BY <1>1, <1>5 DEF TypeOK
  <2>2. /\ job'[Tick].occ = o /\ job'[Tick].thread = j.thread /\ job'[Tick].text = j.text
        /\ job'[Tick].pending = j.pending
    <3>1. job'[Tick] = [j EXCEPT !.seen = "running"]
      BY <1>1, <1>3, <1>5 DEF TypeOK
    <3> QED
      BY <1>4, <3>1 DEF Jobs
  <2>3. Onward
    <3>1. \A k \in Tasks : ThreadStep(k)
      BY <1>1, Numbers DEF ThreadStep
    <3>2. topics <= topics'
      BY <1>1, Numbers
    <3> QED
      BY <1>5, <2>1, <3>1, <3>2 DEF Onward
  <2>4. \A k \in Tasks : HadThread(k, thread[k])'
    BY <1>1, <2>3, HasTopic
  <2>5. TopicsInv'
    <3>1. ASSUME NEW q \in Occurrences, runs'[q] # None
          PROVE  HadThread(q.task, runs[q].thread)' /\ runs'[q].text <= text'[q.task]
      <4>1. CASE q = o
        BY <1>1, <1>4, <2>1, <4>1 DEF Read, HadThread
      <4>2. CASE q # o
        BY <1>1, <2>1, <3>1, <4>2 DEF TopicsInv, HadThread
      <4> QED
        BY <4>1, <4>2
    <3> QED
      BY <2>4, <3>1 DEF TopicsInv
  <2>6. ASSUME NEW i \in 1..Len(dueList)
        PROVE  ReadDue(i)'
    <3>1. PICK row \in Rows : row = dueList[i]
      BY <1>1, DueRow
    <3>2. /\ Read(row) /\ (row.thread = None => thread[row.occ.task] = None) /\ row.occ.task # o.task
          /\ row.occ \in Occurrences
      BY <1>1, <1>2, <3>1, DueRow DEF ReadInv, ReadDue
    <3>3. runs'[row.occ] = runs[row.occ]
      BY <2>1, <3>2
    <3> QED
      BY <1>1, <2>2, <3>1, <3>2, <3>3 DEF Read, ReadDue, HadThread
  <2>7. Read(job[Tick])'
    BY <1>1, <1>4, <2>1, <2>2 DEF Read, HadThread
  <2>8. ReadInv'
    BY <1>1, <1>4, <2>1, <2>2, <2>6, <2>7 DEF ReadInv
  <2>9. TakenInv'
    BY <1>1, <1>2, <1>3, <1>4, <2>1, <2>2 DEF TakenInv, Deleted
  <2>10. ExcusedInv'
    <3>1. ASSUME NEW q \in Occurrences, status'[q] = "failed"
          PROVE  Excused(q)'
      <4>1. runs'[q] = runs[q] /\ Excused(q)
        BY <1>1, <1>4, <2>1, <3>1 DEF ExcusedInv
      <4> QED
        BY <1>1, <4>1 DEF Excused, Changed
    <3> QED
      BY <3>1 DEF ExcusedInv
  <2> QED
    BY <2>3, <2>5, <2>8, <2>9, <2>10
\* ingest answers with the run there is.
<1>6. CASE /\ runs[o] # None /\ pc' = [pc EXCEPT ![Tick] = "mark"] /\ runs' = runs
           /\ job' = [job EXCEPT ![Tick].seen = runs[o].status]
  <2>1. /\ pc'[Tick] = "mark" /\ job'[Tick].occ = o /\ job'[Tick].thread = j.thread
        /\ job'[Tick].text = j.text /\ job'[Tick].pending = j.pending
    <3>1. job'[Tick] = [j EXCEPT !.seen = runs[o].status] /\ pc'[Tick] = "mark"
      BY <1>1, <1>3, <1>6 DEF TypeOK
    <3> QED
      BY <1>4, <3>1 DEF Jobs
  <2>2. Frozen
    BY <1>1, <1>6 DEF Frozen
  <2>3. Onward /\ TopicsInv' /\ ExcusedInv'
    BY <1>1, <2>2, FrozenKeeps DEF ExcusedInv
  <2>4. ASSUME NEW i \in 1..Len(dueList)
        PROVE  ReadDue(i)'
    <3>1. ReadDue(i) /\ job'[Tick].occ = job[Tick].occ /\ Working(Tick)
      BY <1>1, <1>2, <2>1 DEF ReadInv
    <3> QED
      BY <1>1, <1>6, <3>1 DEF Read, ReadDue, HadThread
  <2>5. Read(job[Tick])'
    BY <1>1, <1>4, <1>6, <2>1 DEF Read, HadThread
  <2>6. ReadInv'
    BY <1>1, <1>4, <2>1, <2>4, <2>5 DEF ReadInv
  <2>7. TakenInv'
    BY <1>1, <1>2, <1>3, <1>4, <2>1 DEF TakenInv, Deleted
  <2> QED
    BY <2>3, <2>6, <2>7
\* ingest refuses another payload.
<1>7. CASE /\ runs[o] # None
           /\ [thread |-> j.thread, text |-> j.text]
                # [thread |-> runs[o].thread, text |-> runs[o].text]
           /\ pc' = [pc EXCEPT ![Tick] = "fail"] /\ UNCHANGED <<runs, job>>
  <2>1. j.thread # runs[o].thread \/ j.text # runs[o].text
    BY <1>7
  <2>2. /\ runs[o].text <= j.text /\ runs[o].thread <= j.thread /\ j.text <= text[o.task]
        /\ HadThread(o.task, j.thread) /\ runs[o].thread \in Nat /\ runs[o].text \in Nat
        /\ text[o.task] \in Nat /\ thread[o.task] \in Nat \cup {None}
    BY <1>1, <1>4, <1>7, Numbers DEF Read
  <2>3. Changed(o)
    <3>1. CASE j.text # runs[o].text
      BY <1>4, <2>2, <3>1 DEF Changed
    <3>2. CASE j.thread # runs[o].thread
      BY <1>4, <2>2, <3>2 DEF Changed, HadThread
    <3> QED
      BY <2>1, <3>1, <3>2
  <2>4. pc'[Tick] = "fail" /\ Excused(job[Tick].occ)
    BY <1>1, <1>2, <1>7, <2>3 DEF Excused, TypeOK
  <2> QED
    BY <1>1, <1>7, <2>4, ChainGoesOn DEF Frozen
<1> QED
  BY <1>2, <1>3, <1>4, <1>5, <1>6, <1>7 DEF Dispatch

LEMMA MarkSole ==
  ASSUME IndInv, IndInv', SoleInv, MarkResult(Tick) \/ MarkFailed(Tick)
  PROVE  SoleInv' /\ Onward
<1> USE DEF SoleInv
<1>1. /\ TypeOK /\ TypeOK' /\ Tick \in Actors /\ pc[Tick] \in {"mark", "fail"}
      /\ Working(Tick) /\ Frozen
  BY DEF IndInv, MarkResult, MarkFailed, Working, Actors, taskRows, world, Frozen
<1>2. PICK o \in Occurrences : o = job[Tick].occ
  BY <1>1, WorksOn
<1>3. /\ status[o] = "none" => Deleted(o)
      /\ phase = "resume" => o \notin taskRuns
      /\ pc[Tick] = "mark" => status[o] \in {"pending", "none"}
  BY <1>1, <1>2 DEF TakenInv
\* The occurrence is marked: dispatched, or as its run is, or as failed.
<1>4. ASSUME NEW s \in Statuses, status' = [status EXCEPT ![o] = s], Finish(Tick),
             s = "failed" => Excused(o)
      PROVE  SoleInv' /\ Onward
  <2>1. pc'[Tick] = "idle" /\ UNCHANGED <<phase, dueList, taskRuns, job>> /\ ~Working(Tick)'
    BY <1>1, <1>4 DEF Finish, TypeOK, tick, Working
  <2>2. Onward /\ TopicsInv'
    BY <1>1, FrozenKeeps
  <2>3. ExcusedInv'
    <3>1. \A q \in Occurrences : status'[q] = "failed" => Excused(q)
      BY <1>1, <1>4 DEF ExcusedInv, TypeOK
    <3> QED
      BY <1>1, <3>1, FrozenKeeps DEF ExcusedInv
  <2>4. job[Tick] \in Jobs
    BY <1>1, WorksOn
  <2>5. ReadInv'
    BY <1>1, <2>1, <2>4, SameRows
  <2>6. \A q \in taskRuns : phase = "resume" => status'[q] = status[q]
    BY <1>1, <1>3, <1>4 DEF TypeOK
  <2>7. TakenInv'
    BY <1>1, <2>1, <2>6 DEF TakenInv, Deleted, Frozen
  <2> QED
    BY <2>2, <2>3, <2>5, <2>7
<1>5. CASE MarkResult(Tick)
  <2>1. job[Tick].seen \in Terminal => runs[o].status = job[Tick].seen
    BY <1>1, <1>2, <1>5 DEF MarkResult, IndInv, ChainsInv, Chain
  <2>2. job[Tick].seen # None /\ job[Tick].seen \in {None, "running"} \cup Terminal
    <3>1. pc[Tick] = "mark" /\ job[Tick] \in Jobs
      BY <1>1, <1>5, WorksOn DEF MarkResult
    <3> QED
      BY <1>1, <3>1 DEF IndInv, ChainsInv, Chain, Jobs
  <2>3. CASE /\ job[Tick].seen = "running" /\ status' = [status EXCEPT ![o] = "dispatched"]
             /\ Finish(Tick)
    BY <1>4, <2>3 DEF Statuses
  <2>4. CASE /\ job[Tick].seen # "running" /\ status' = [status EXCEPT ![o] = job[Tick].seen]
             /\ Finish(Tick)
    <3>1. job[Tick].seen \in Terminal
      BY <2>2, <2>4
    <3>2. job[Tick].seen = "failed" => Excused(o)
      BY <2>1, <3>1 DEF Excused
    <3>3. PICK s \in Statuses : s = job[Tick].seen
      BY <3>1 DEF Statuses
    <3> QED
      BY <1>4, <2>4, <3>2, <3>3
  <2>5. CASE /\ IF job[Tick].seen = "running" THEN ~Dispatchable(o) ELSE ~Markable(o, job[Tick].seen)
             /\ pc' = [pc EXCEPT ![Tick] = "fail"] /\ UNCHANGED <<status, tick, job>>
    <3>1. status[o] = "none"
      BY <1>3, <1>5, <2>5 DEF Dispatchable, Markable, MarkResult
    <3>2. pc'[Tick] = "fail"
      BY <1>1, <2>5 DEF TypeOK
    <3> QED
      BY <1>1, <1>2, <2>5, <3>1, <3>2, ChainGoesOn DEF tick
  <2> QED
    BY <1>2, <1>5, <2>3, <2>4, <2>5 DEF MarkResult, MarkTerminal
<1>6. CASE MarkFailed(Tick)
  <2>1. CASE Markable(o, "failed")
    <3>1. status' = [status EXCEPT ![o] = "failed"] /\ Finish(Tick)
      BY <1>2, <1>6, <2>1 DEF MarkFailed, MarkTerminal
    <3>2. Excused(o)
      BY <1>2, <1>6, <2>1 DEF MarkFailed, TakenInv, Markable
    <3> QED
      BY <1>4, <3>1, <3>2 DEF Statuses, Terminal
  <2>2. CASE ~Markable(o, "failed")
    <3>1. ProcessEnds /\ status' = status
      BY <1>2, <1>6, <2>2 DEF MarkFailed, Throws
    <3> QED
      BY <1>1, <3>1, EndsSole
  <2> QED
    BY <2>1, <2>2
<1> QED
  BY <1>5, <1>6

\* Requests, runs, time and restarts.
LEMMA AroundSole ==
  ASSUME IndInv, IndInv', SoleInv, Callers = {},
         \/ Requests \/ (\E o \in Occurrences : RunSettles(o))
         \/ TimePasses \/ Crash \/ Boot \/ UNCHANGED vars
  PROVE  SoleInv' /\ Onward
<1>1. TypeOK /\ TypeOK'
  BY DEF IndInv
<1>2. ASSUME NEW k \in Tasks, CreateTask(k)
      PROVE  SoleInv' /\ Onward
  <2>1. PICK s \in Kinds : kind' = [kind EXCEPT ![k] = s]
    BY <1>2 DEF CreateTask
  <2>2. /\ kind[k] = None
        /\ UNCHANGED <<text, thread, status, runs, phase, dueList, taskRuns, pc, job, topics>>
        /\ live' = live \cup {k}
    BY <1>2 DEF CreateTask, tick, world
  <2>3. \A o \in Occurrences : Deleted(o) => Deleted(o)'
    BY <1>1, <2>1, <2>2, ConstantsAssumption DEF Deleted, TypeOK
  <2>4. Onward
    BY <1>1, <2>2, Numbers DEF Onward, ThreadStep
  <2> QED
    BY <1>1, <2>2, <2>3, <2>4, PassesBy
<1>3. ASSUME NEW k \in Tasks, EditTask(k)
      PROVE  SoleInv' /\ Onward
  <2>1. PICK e \in Edits : Edit(e, k)
    BY <1>3 DEF EditTask
  <2>2. UNCHANGED <<kind, runs, phase, dueList, taskRuns, pc, job, topics>> /\ k \in live
    BY <1>3 DEF EditTask, tick
  <2>3. live' \subseteq live
    BY <2>1 DEF Edit
  <2>4. \A q \in Tasks : thread'[q] \in {thread[q], None}
    BY <1>1, <2>1 DEF Edit, TypeOK
  <2>5. \A q \in Tasks : text[q] <= text'[q]
    <3>1. \A q \in Tasks : text[q] \in Nat
      BY <1>1, Numbers
    <3>2. CASE text' = text
      BY <3>1, <3>2
    <3>3. CASE text' = [text EXCEPT ![k] = @ + 1]
      <4>1. text'[k] = text[k] + 1 /\ \A q \in Tasks : q # k => text'[q] = text[q]
        BY <1>1, <3>3 DEF TypeOK
      <4> QED
        BY <3>1, <4>1
    <3> QED
      BY <2>1, <3>2, <3>3 DEF Edit
  <2>6. \A o \in Occurrences : Deleted(o) => Deleted(o)'
    BY <2>2, <2>3 DEF Deleted
  <2>7. \A o \in Occurrences : status'[o] = status[o] \/ (status'[o] = "none" /\ Deleted(o)')
    BY <2>1, <2>2 DEF Edit, Deleted, IndInv, TasksInv
  <2>8. Onward
    <3>1. \A q \in Tasks : ThreadStep(q)
      BY <2>4, <2>5 DEF ThreadStep
    <3>2. topics <= topics'
      BY <1>1, <2>2, Numbers
    <3> QED
      BY <2>2, <3>1, <3>2 DEF Onward
  <2>9. \A q \in Tasks : thread[q] = None => thread'[q] = None
    BY <2>4
  <2> QED
    BY <1>1, <2>2, <2>6, <2>7, <2>8, <2>9, PassesBy
<1>4. ASSUME NEW o \in Occurrences, RunSettles(o)
      PROVE  SoleInv' /\ Onward
  <2>1. UNCHANGED <<live, kind, text, thread, status, phase, dueList, taskRuns, pc, job, topics>>
    BY <1>4 DEF RunSettles, taskRows, tick, world
  <2>2. PICK outcome \in Terminal : runs' = [runs EXCEPT ![o].status = outcome]
    BY <1>4 DEF RunSettles
  <2>3. runs[o] # None /\ runs[o].status = "running" /\ runs[o] \in Runs
    BY <1>1, <1>4 DEF RunSettles, TypeOK
  <2>4. PICK new \in Runs : /\ new = [runs[o] EXCEPT !.status = outcome] /\ new.thread = runs[o].thread
                            /\ new.text = runs[o].text
    <3> DEFINE r == [runs[o] EXCEPT !.status = outcome]
    <3>1. r \in Runs /\ r.thread = runs[o].thread /\ r.text = runs[o].text
      BY <2>3 DEF Runs
    <3> QED
      BY <3>1
  <2>5. runs' = [runs EXCEPT ![o] = new] /\ new # None
    BY <2>2, <2>4, ConstantsAssumption
  <2>6. /\ runs'[o] = new
        /\ \A q \in Occurrences : q # o => runs'[q] = runs[q]
    BY <1>1, <2>5 DEF TypeOK
  <2>7. Onward
    <3>1. \A q \in Tasks : ThreadStep(q)
      BY <1>1, <2>1, Numbers DEF ThreadStep
    <3>2. topics <= topics'
      BY <1>1, <2>1, Numbers
    <3>3. "running" \notin Terminal
      BY DEF Terminal
    <3> QED
      BY <2>3, <2>4, <2>5, <2>6, <3>1, <3>2, <3>3 DEF Onward
  <2>8. \A q \in Occurrences : runs[q] = None => runs'[q] = None
    BY <2>3, <2>6
  <2>9. \A q \in Occurrences : Deleted(q) => Deleted(q)'
    BY <2>1 DEF Deleted
  <2> QED
    BY <1>1, <2>1, <2>7, <2>8, <2>9, PassesBy
<1>5. CASE Crash
  BY <1>5, EndsSole DEF Crash, Frozen, taskRows
<1>6. CASE TimePasses \/ Boot \/ UNCHANGED vars
  <2>1. Frozen /\ UNCHANGED <<status, phase, dueList, taskRuns, pc, job>>
    BY <1>6 DEF TimePasses, Boot, vars, Frozen, taskRows, tick, world
  <2>2. Onward /\ \A o \in Occurrences : Deleted(o) => Deleted(o)'
    BY <1>1, <2>1, FrozenKeeps
  <2> QED
    BY <1>1, <2>1, <2>2, PassesBy DEF Frozen
<1> QED
  BY <1>2, <1>3, <1>4, <1>5, <1>6 DEF Requests

LEMMA SolePreserved ==
  ASSUME Callers = {}, IndInv, SoleInv, [Next]_vars
  PROVE  SoleInv' /\ Onward
<1>1. IndInv' /\ Actors = {Tick}
  BY NextPreserves DEF Actors
<1>2. CASE \/ Requests \/ (\E o \in Occurrences : RunSettles(o))
           \/ TimePasses \/ Crash \/ Boot \/ UNCHANGED vars
  BY <1>1, <1>2, AroundSole
<1>3. CASE StartTick \/ TickSteps
  BY <1>1, <1>3, StartTickSole, TakeDueSole, AdvanceSole, LoopsSole, TakePendingSole DEF TickSteps
<1>4. CASE \E a \in Actors : ChainSteps(a) \/ TopicAnswer(a)
  BY <1>1, <1>4, EnsureThreadSole, TopicAnswerSole, DispatchSole, MarkSole DEF ChainSteps
<1> QED
  BY <1>2, <1>3, <1>4 DEF Next

LEMMA SoleInit == Init => SoleInv
<1> SUFFICES ASSUME Init
             PROVE  SoleInv
  OBVIOUS
<1>1. TopicsInv /\ ExcusedInv
  BY DEF Init, TopicsInv, ExcusedInv, HadThread
<1>2. ~Working(Tick) /\ pc[Tick] = "idle" /\ dueList = <<>> /\ phase = "idle"
  BY DEF Init, Working, Actors
<1>3. ReadInv /\ TakenInv
  BY <1>2, EmptySeq DEF ReadInv, TakenInv
<1> QED
  BY <1>1, <1>3 DEF SoleInv

--------------------------------------------------------------------------------
\* The answers, without run-now requests.

\* What was read of a task is what its row said, and what was pending is so until the tick
\* marks it, in every reachable state.
THEOREM SoleInvariant ==
  ASSUME Callers = {}
  PROVE  Spec => []SoleInv
<1>1. IndInv /\ SoleInv /\ [Next]_vars => SoleInv'
  BY SolePreserved
<1> QED
  BY <1>1, SoleInit, InductiveInvariant, PTL DEF Spec

\* A failed occurrence has no run or a failed one, unless the text or the topic of its task
\* changed since (dispatchTaskRun, the catch blocks, reconcileDispatchedTaskRuns).
THEOREM FailuresHaveAReason ==
  ASSUME Callers = {}
  PROVE  Spec => []FailuresExplained
<1>1. IndInv /\ SoleInv => FailuresExplained
  <2> SUFFICES ASSUME IndInv, SoleInv, NEW o \in Occurrences, status[o] = "failed",
                      runs[o] # None, runs[o].status # "failed"
               PROVE  runs[o].thread # thread[o.task] \/ runs[o].text # text[o.task]
    BY DEF FailuresExplained
  <2>1. Changed(o)
    BY DEF SoleInv, ExcusedInv, Excused
  <2>2. TypeOK
    BY DEF IndInv
  <2>3. runs[o].thread \in Nat /\ runs[o].text \in Nat /\ text[o.task] \in Nat /\ None \notin Nat
        /\ thread[o.task] \in Nat \cup {None}
    BY <2>2, Numbers
  <2> QED
    BY <2>1, <2>3 DEF Changed
<1> QED
  BY <1>1, InductiveInvariant, SoleInvariant, PTL

--------------------------------------------------------------------------------
\* Topics, whatever the run-now requests.

\* No request of this process has worked on the task.
Untouched(k) == \A c \in Callers : job[c] = None \/ job[c].occ.task # k

\* What was read of the row of such a task without a topic is so still.
Fresh(row) == Untouched(row.occ.task) /\ row.thread = None => thread[row.occ.task] = None

\* The tick goes by the row it has read.
GoesByRow == pc[Tick] \in {"advance", "ensure", "topic"}

\* A row still to be looked at, of another task than the others and the one at work.
FreshDue(i) ==
  /\ Fresh(dueList[i])
  /\ Working(Tick) => dueList[i].occ.task # job[Tick].occ.task
  /\ \A m \in 1..Len(dueList) : m # i => dueList[m].occ.task # dueList[i].occ.task

FreshInv ==
  /\ \A c \in Callers : pc[c] = "idle" => job[c] = None
  /\ phase # "due" => dueList = <<>>
  /\ Working(Tick) => phase \in {"due", "resume"}
  /\ \A i \in 1..Len(dueList) : FreshDue(i)
  /\ GoesByRow => Fresh(job[Tick])
  /\ pc[Tick] = "topic" => job[Tick].thread = None

\* A task without a request of its own keeps its topic.
KeepsTopics ==
  \A k \in Tasks : thread[k] # None /\ Untouched(k) => thread'[k] \in {thread[k], None}

\* The steps that read no rows.
LEMMA FreshPasses ==
  ASSUME IndInv, FreshInv,
         \A c \in Callers : pc'[c] = "idle" => pc[c] = "idle" /\ job'[c] = job[c],
         dueList' = dueList, phase' # "due" => phase # "due" \/ dueList = <<>>,
         phase' = phase \/ ~Working(Tick)',
         Working(Tick)' => Working(Tick) /\ job'[Tick].occ = job[Tick].occ,
         GoesByRow' => GoesByRow /\ job'[Tick] = job[Tick],
         pc'[Tick] = "topic" => pc[Tick] = "topic" \/ job[Tick].thread = None,
         \A k \in Tasks : Untouched(k)' =>
           /\ Untouched(k)
           /\ \/ thread[k] = None => thread'[k] = None
              \/ Working(Tick) /\ k = job[Tick].occ.task /\ ~GoesByRow'
  PROVE  FreshInv'
<1>1. TypeOK
  BY DEF IndInv
<1>2. ASSUME NEW i \in 1..Len(dueList)
      PROVE  FreshDue(i)'
  <2>1. dueList[i].occ.task \in Tasks /\ FreshDue(i)
    BY <1>1, DueRow DEF FreshInv
  <2>2. Working(Tick)' => dueList[i].occ.task # job'[Tick].occ.task
    BY <2>1 DEF FreshDue
  <2>3. Fresh(dueList[i])'
    BY <2>1 DEF FreshDue, Fresh
  <2> QED
    BY <2>1, <2>2, <2>3 DEF FreshDue
<1>3. GoesByRow' => Fresh(job[Tick])'
  <2> SUFFICES ASSUME GoesByRow'
               PROVE  Fresh(job[Tick])'
    OBVIOUS
  <2>1. Working(Tick)
    BY DEF GoesByRow, Working
  <2>2. job[Tick].occ.task \in Tasks /\ Fresh(job[Tick])
    BY <2>1, WorksOn DEF FreshInv
  <2> QED
    BY <2>2 DEF Fresh
<1>4. pc'[Tick] = "topic" => job'[Tick].thread = None
  BY DEF FreshInv, GoesByRow
<1> QED
  BY <1>2, <1>3, <1>4 DEF FreshInv

\* A process that ends forgets its rows and requests.
LEMMA FreshEnds ==
  ASSUME ProcessEnds, thread' = thread
  PROVE  FreshInv' /\ KeepsTopics
<1>1. /\ dueList' = <<>> /\ phase' = "idle" /\ pc'[Tick] = "idle"
      /\ \A c \in Callers : job'[c] = None
  BY DEF ProcessEnds, Actors
<1>2. ~Working(Tick)' /\ ~GoesByRow'
  BY <1>1 DEF Working, GoesByRow
<1> QED
  BY <1>1, <1>2, EmptySeq DEF FreshInv, KeepsTopics

\* Edits, runs, time and restarts.
LEMMA FreshAround ==
  ASSUME IndInv, FreshInv,
         \/ (\E k \in Tasks : CreateTask(k) \/ EditTask(k))
         \/ (\E o \in Occurrences : RunSettles(o))
         \/ TimePasses \/ Crash \/ Boot \/ UNCHANGED vars
  PROVE  FreshInv' /\ KeepsTopics
<1>1. CASE Crash
  BY <1>1, FreshEnds DEF Crash, taskRows
<1>2. CASE ~Crash
  <2>1. UNCHANGED <<phase, dueList, pc, job>>
    BY <1>2 DEF CreateTask, EditTask, RunSettles, TimePasses, Boot, vars, tick
  <2>2. \A k \in Tasks : thread'[k] \in {thread[k], None}
    <3>1. CASE \E k \in Tasks : EditTask(k)
      BY <3>1 DEF EditTask, Edit, IndInv, TypeOK
    <3>2. CASE ~\E k \in Tasks : EditTask(k)
      BY <1>2, <3>2 DEF CreateTask, RunSettles, TimePasses, Boot, vars, taskRows
    <3> QED
      BY <3>1, <3>2
  <2>3. FreshInv'
    BY <2>1, <2>2, FreshPasses DEF Untouched, Working, GoesByRow
  <2> QED
    BY <2>2, <2>3 DEF KeepsTopics
<1> QED
  BY <1>1, <1>2

LEMMA FreshRunNow ==
  ASSUME IndInv, FreshInv, NEW a \in Callers, NEW k \in Tasks, RunNow(a, k)
  PROVE  FreshInv' /\ KeepsTopics
<1>1. /\ UNCHANGED <<thread, phase, dueList>> /\ a # Tick /\ pc[a] = "idle" /\ a \in Actors
  BY DEF RunNow, taskRows, tick, Actors
<1>2. /\ pc' = [pc EXCEPT ![a] = "ensure"]
      /\ \A b \in Actors : b # a => job'[b] = job[b]
  BY DEF RunNow, IndInv, TypeOK
<1>3. \A b \in Actors : pc'[b] = IF b = a THEN "ensure" ELSE pc[b]
  BY <1>2 DEF IndInv, TypeOK
<1>4. Tick \in Actors /\ \A c \in Callers : c \in Actors
  BY DEF Actors
<1>5. \A q \in Tasks : Untouched(q)' => Untouched(q)
  BY <1>1, <1>2, <1>4 DEF Untouched, FreshInv
<1>6. FreshInv'
  BY <1>1, <1>2, <1>3, <1>4, <1>5, FreshPasses DEF Working, GoesByRow
<1> QED
  BY <1>1, <1>6 DEF KeepsTopics

LEMMA FreshStartTick ==
  ASSUME IndInv, FreshInv, StartTick
  PROVE  FreshInv' /\ KeepsTopics
<1>1. /\ UNCHANGED <<thread, pc, job>> /\ phase = "idle" /\ phase' = "due"
      /\ dueList' \in DueLists
  BY DEF StartTick, taskRows
<1>2. ~Working(Tick) /\ ~GoesByRow
  BY <1>1 DEF FreshInv, GoesByRow, Working
<1>3. ASSUME NEW i \in 1..Len(dueList')
      PROVE  FreshDue(i)'
  <2>1. dueList'[i] = RowOf(dueList'[i].occ)
    BY <1>1, DueListsRead DEF IndInv
  <2>2. dueList'[i].thread = thread[dueList'[i].occ.task]
    BY <2>1 DEF RowOf
  <2>3. \A m \in 1..Len(dueList') : m # i => dueList'[m].occ.task # dueList'[i].occ.task
    BY <1>1, DueListsRead DEF IndInv
  <2> QED
    BY <1>1, <1>2, <2>2, <2>3 DEF FreshDue, Fresh, Working
<1> QED
  BY <1>1, <1>2, <1>3 DEF FreshInv, KeepsTopics, GoesByRow, Working

LEMMA FreshTakeDue ==
  ASSUME IndInv, FreshInv, TakeDue
  PROVE  FreshInv' /\ KeepsTopics
<1> DEFINE row == Head(dueList)
<1>1. /\ thread' = thread /\ phase = "due" /\ dueList # <<>> /\ pc[Tick] = "idle"
  BY DEF TakeDue, taskRows, TickIsFree
<1>2. CASE row.occ.task \notin live
  BY <1>1, <1>2, FreshEnds DEF TakeDue, Throws
<1>3. CASE row.occ.task \in live
  <2>1. /\ dueList' = Tail(dueList) /\ phase' = phase
        /\ pc' = [pc EXCEPT ![Tick] = "advance"]
        /\ job' = [job EXCEPT ![Tick] = JobOf(row, status[row.occ] \in {"none", "pending"})]
    BY <1>3 DEF TakeDue
  <2>2. TypeOK /\ Tick \in Actors /\ Tick \notin Callers /\ \A c \in Callers : c \in Actors
    BY ConstantsAssumption DEF IndInv, Actors
  <2>3. /\ pc'[Tick] = "advance" /\ job'[Tick].occ = row.occ /\ job'[Tick].thread = row.thread
        /\ \A c \in Callers : pc'[c] = pc[c] /\ job'[c] = job[c]
    <3> DEFINE b == status[row.occ] \in {"none", "pending"}
               j == JobOf(row, b)
    <3>1. j.occ = row.occ /\ j.thread = row.thread
      BY DEF JobOf
    <3>2. job' = [job EXCEPT ![Tick] = j]
      BY <2>1
    <3> HIDE DEF j
    <3> QED
      BY <2>1, <2>2, <3>1, <3>2 DEF TypeOK
  <2>4. \A k : Untouched(k)' => Untouched(k)
    BY <2>3 DEF Untouched
  <2>5. row = dueList[1] /\ 1 \in 1..Len(dueList)
    BY <1>1, <2>2, NextDue
  <2>6. Fresh(job[Tick])'
    BY <1>1, <2>3, <2>4, <2>5 DEF Fresh, FreshInv, FreshDue
  <2>7. ASSUME NEW i \in 1..Len(dueList')
        PROVE  FreshDue(i)'
    <3>1. dueList'[i] = dueList[i + 1] /\ i + 1 \in 1..Len(dueList) /\ i + 1 # 1
      BY <1>1, <2>1, <2>2, <2>7, NextDue
    <3>2. FreshDue(i + 1)
      BY <3>1 DEF FreshInv
    <3>3. Fresh(dueList[i])'
      BY <1>1, <2>4, <3>1, <3>2 DEF Fresh, FreshDue
    <3>4. dueList'[i].occ.task # job'[Tick].occ.task
      BY <2>3, <2>5, <3>1, <3>2 DEF FreshDue
    <3>5. ASSUME NEW m \in 1..Len(dueList'), m # i
          PROVE  dueList'[m].occ.task # dueList'[i].occ.task
      <4>1. dueList'[m] = dueList[m + 1] /\ m + 1 \in 1..Len(dueList)
        BY <1>1, <2>1, <2>2, <3>5, NextDue
      <4>2. m + 1 # i + 1
        BY <3>5
      <4> QED
        BY <3>1, <3>2, <4>1, <4>2 DEF FreshDue
    <3> QED
      BY <3>3, <3>4, <3>5 DEF FreshDue
  <2> QED
    BY <1>1, <2>1, <2>3, <2>6, <2>7 DEF FreshInv, KeepsTopics, GoesByRow
<1> QED
  BY <1>2, <1>3

LEMMA FreshAdvance ==
  ASSUME IndInv, FreshInv, Advance
  PROVE  FreshInv' /\ KeepsTopics
<1>1. thread' = thread /\ pc[Tick] = "advance"
  BY DEF Advance
<1>2. CASE Exhausted(job[Tick].occ.task)
  BY <1>1, <1>2, FreshEnds DEF Advance, Throws
<1>3. CASE ~Exhausted(job[Tick].occ.task)
  <2>1. UNCHANGED <<phase, dueList, job>> /\ pc' = [pc EXCEPT ![Tick] = "ensure"]
    BY <1>3 DEF Advance, tick
  <2>2. \A a \in Actors : pc'[a] = IF a = Tick THEN "ensure" ELSE pc[a]
    BY <2>1 DEF IndInv, TypeOK
  <2>3. pc'[Tick] = "ensure" /\ \A c \in Callers : pc'[c] = pc[c]
    BY <2>2, ConstantsAssumption DEF Actors
  <2>4. FreshInv'
    BY <1>1, <2>1, <2>3, FreshPasses DEF Untouched, Working, GoesByRow
  <2> QED
    BY <1>1, <2>4 DEF KeepsTopics
<1> QED
  BY <1>2, <1>3

LEMMA FreshLoops ==
  ASSUME IndInv, FreshInv, EndDue \/ EndResume \/ Reconcile \/ EndTick
  PROVE  FreshInv' /\ KeepsTopics
<1>1. /\ UNCHANGED <<thread, dueList, pc, job>> /\ pc[Tick] = "idle"
      /\ phase # "due" \/ dueList = <<>>
  BY DEF EndDue, EndResume, Reconcile, EndTick, TickIsFree, taskRows
<1>2. FreshInv'
  BY <1>1, FreshPasses DEF Untouched, Working, GoesByRow
<1> QED
  BY <1>1, <1>2 DEF KeepsTopics

LEMMA FreshTakePending ==
  ASSUME IndInv, FreshInv, TakePending
  PROVE  FreshInv' /\ KeepsTopics
<1>1. /\ UNCHANGED <<thread, dueList, phase>> /\ phase = "resume" /\ pc[Tick] = "idle"
  BY DEF TakePending, taskRows, TickIsFree
<1>2. PICK o \in Occurrences :
        \/ /\ pc' = [pc EXCEPT ![Tick] = "ensure"]
           /\ job' = [job EXCEPT ![Tick] = JobOf(RowOf(o), TRUE)]
        \/ UNCHANGED <<pc, job>>
  BY DEF TakePending
<1>3. CASE UNCHANGED <<pc, job>>
  <2>1. FreshInv'
    BY <1>1, <1>3, FreshPasses DEF Untouched, Working, GoesByRow
  <2> QED
    BY <1>1, <2>1 DEF KeepsTopics
<1>4. CASE /\ pc' = [pc EXCEPT ![Tick] = "ensure"]
           /\ job' = [job EXCEPT ![Tick] = JobOf(RowOf(o), TRUE)]
  <2>1. TypeOK /\ Tick \in Actors /\ Tick \notin Callers /\ \A c \in Callers : c \in Actors
    BY ConstantsAssumption DEF IndInv, Actors
  <2>2. /\ pc'[Tick] = "ensure" /\ job'[Tick] = JobOf(RowOf(o), TRUE)
        /\ \A c \in Callers : pc'[c] = pc[c] /\ job'[c] = job[c]
    BY <1>4, <2>1 DEF TypeOK
  <2>3. job'[Tick].occ = o /\ job'[Tick].thread = thread[o.task]
    BY <2>2 DEF JobOf, RowOf
  <2>4. Fresh(job[Tick])'
    BY <1>1, <2>3 DEF Fresh
  <2>5. dueList' = <<>> /\ \A i \in 1..Len(dueList') : FreshDue(i)'
    BY <1>1, EmptySeq DEF FreshInv
  <2>6. \A c \in Callers : pc'[c] = "idle" => job'[c] = None
    BY <2>2 DEF FreshInv
  <2>7. phase' \in {"due", "resume"} /\ pc'[Tick] # "topic"
    BY <1>1, <2>2
  <2> QED
    BY <1>1, <2>4, <2>5, <2>6, <2>7 DEF FreshInv, KeepsTopics
<1> QED
  BY <1>2, <1>3, <1>4

\* A chain that goes on with its occurrence: a thread may be bound to its task, by the tick
\* only where there is none or a request worked on the task.
LEMMA FreshChain ==
  ASSUME IndInv, FreshInv, NEW a \in Actors, pc[a] \in {"ensure", "topic", "dispatch", "mark", "fail"},
         UNCHANGED <<phase, dueList>>,
         job[a] \in Jobs, job'[a] \in Jobs, job'[a].occ = job[a].occ,
         \A b \in Actors : b # a => pc'[b] = pc[b] /\ job'[b] = job[b],
         a \in Callers => pc'[a] # "idle",
         pc'[a] = "topic" => pc[a] = "ensure" /\ job[a].thread = None /\ job' = job,
         pc'[a] \notin {"advance", "ensure"},
         \/ thread' = thread
         \/ /\ pc[a] \in {"ensure", "topic"} /\ pc'[a] # "topic"
            /\ a = Tick => job[a].thread = None
            /\ \A k \in Tasks : k # job[a].occ.task => thread'[k] = thread[k]
  PROVE  FreshInv' /\ KeepsTopics
<1>1. Tick \in Actors /\ Tick \notin Callers /\ \A c \in Callers : c \in Actors
  BY ConstantsAssumption DEF Actors
<1>2. \A k : Untouched(k)' <=> Untouched(k)
  <2>1. job[a] # None /\ job'[a] # None
    BY ConstantsAssumption
  <2> QED
    BY <1>1, <2>1 DEF Untouched
<1>3. /\ \A c \in Callers : pc'[c] = "idle" => pc[c] = "idle" /\ job'[c] = job[c]
      /\ Working(Tick)' => Working(Tick) /\ job'[Tick].occ = job[Tick].occ
      /\ GoesByRow' => GoesByRow /\ job'[Tick] = job[Tick]
      /\ pc'[Tick] = "topic" => pc[Tick] = "topic" \/ job[Tick].thread = None
  BY <1>1 DEF Working, GoesByRow
<1>4. ASSUME NEW k \in Tasks, thread'[k] # thread[k]
      PROVE  /\ k = job[a].occ.task
             /\ a = Tick \/ ~Untouched(k)
             /\ a = Tick => Working(Tick) /\ ~GoesByRow' /\ (Untouched(k) => thread[k] = None)
  <2>1. /\ pc[a] \in {"ensure", "topic"} /\ pc'[a] # "topic" /\ k = job[a].occ.task
        /\ a = Tick => job[a].thread = None
    BY <1>4
  <2>2. a = Tick => Working(Tick) /\ ~GoesByRow' /\ GoesByRow
    BY <2>1 DEF Working, GoesByRow
  <2>3. a = Tick => Fresh(job[Tick])
    BY <2>2 DEF FreshInv
  <2>4. a \in Callers => ~Untouched(k)
    BY <2>1, ConstantsAssumption DEF Untouched
  <2> QED
    BY <2>1, <2>2, <2>3, <2>4 DEF Actors, Fresh
<1>5. FreshInv'
  BY <1>2, <1>3, <1>4, FreshPasses
<1>6. KeepsTopics
  BY <1>4 DEF KeepsTopics
<1> QED
  BY <1>5, <1>6

LEMMA FreshBind ==
  ASSUME IndInv, NEW a \in Actors, job[a] \in Jobs, job[a].occ.task \in Tasks, NEW th \in Threads,
         BindThread(a, th)
  PROVE  /\ job'[a].occ = job[a].occ
         /\ \A k \in Tasks : k # job[a].occ.task => thread'[k] = thread[k]
<1> DEFINE k == job[a].occ.task
           j == [job[a] EXCEPT !.thread = th, !.text = text[k]]
<1>1. j.occ = job[a].occ
  BY DEF Jobs
<1>2. CASE k \in live
  <2>1. thread' = [thread EXCEPT ![k] = th] /\ job' = [job EXCEPT ![a] = j]
    BY <1>2 DEF BindThread
  <2> HIDE DEF j
  <2>2. job'[a] = j /\ \A q \in Tasks : q # k => thread'[q] = thread[q]
    BY <2>1 DEF IndInv, TypeOK
  <2> QED
    BY <1>1, <2>2
<1>3. CASE k \notin live
  BY <1>3 DEF BindThread
<1> QED
  BY <1>2, <1>3

LEMMA FreshSteps ==
  ASSUME IndInv, IndInv', FreshInv, NEW a \in Actors, ChainSteps(a) \/ TopicAnswer(a)
  PROVE  FreshInv' /\ KeepsTopics
<1>1. /\ job[a] \in Jobs /\ job[a].occ.task \in Tasks /\ TypeOK
      /\ Tick \notin Callers
  BY ChainFrame, ConstantsAssumption DEF IndInv
<1>2. CASE EnsureThread(a)
  <2>1. pc[a] = "ensure" /\ UNCHANGED <<phase, dueList>>
    BY <1>2 DEF EnsureThread, tick
  <2>2. CASE ~NeedsThread(job[a]) /\ Proceed(a, job[a]) /\ UNCHANGED <<thread, job>>
    <3>1. /\ pc'[a] \in {"idle", "dispatch"}
          /\ a \in Callers => pc'[a] # "idle"
          /\ \A b \in Actors : b # a => pc'[b] = pc[b]
      BY <1>1, <2>2 DEF Proceed, TypeOK
    <3> QED
      BY <1>1, <2>1, <2>2, <3>1, FreshChain
  <2>3. CASE NeedsThread(job[a]) /\ pc' = [pc EXCEPT ![a] = "topic"] /\ UNCHANGED <<thread, job>>
    <3>1. pc'[a] = "topic" /\ job[a].thread = None /\ \A b \in Actors : b # a => pc'[b] = pc[b]
      BY <1>1, <2>3 DEF NeedsThread, TypeOK
    <3> QED
      BY <1>1, <2>1, <2>3, <3>1, FreshChain
  <2>4. CASE NeedsThread(job[a]) /\ BindThread(a, 0)
    <3>1. 0 \in Threads
      BY ConstantsAssumption DEF Threads
    <3>2. job[a].thread = None
      BY <2>4 DEF NeedsThread
    <3>3. /\ pc'[a] \in {"idle", "dispatch", "fail"} /\ job'[a] \in Jobs
          /\ \A b \in Actors : b # a => pc'[b] = pc[b] /\ job'[b] = job[b]
      BY <1>1, <2>4, <3>1, BindThreadTyped
    <3>4. /\ job'[a].occ = job[a].occ
          /\ \A k \in Tasks : k # job[a].occ.task => thread'[k] = thread[k]
      BY <1>1, <2>4, <3>1, FreshBind
    <3>5. a \in Callers => pc'[a] # "idle"
      BY <1>1, <2>4 DEF BindThread, Proceed, TypeOK
    <3> QED
      BY <1>1, <2>1, <3>2, <3>3, <3>4, <3>5, FreshChain
  <2> QED
    BY <1>2, <2>2, <2>3, <2>4 DEF EnsureThread
<1>3. CASE TopicAnswer(a)
  <2>1. pc[a] = "topic" /\ UNCHANGED <<phase, dueList>>
    BY <1>3 DEF TopicAnswer, tick
  <2>2. CASE topics < MaxTopics /\ BindThread(a, topics + 1)
    <3>1. topics + 1 \in Threads
      BY <1>1, <2>2, ConstantsAssumption DEF Threads, TypeOK
    <3>2. /\ pc'[a] \in {"idle", "dispatch", "fail"} /\ job'[a] \in Jobs
          /\ \A b \in Actors : b # a => pc'[b] = pc[b] /\ job'[b] = job[b]
      BY <1>1, <2>2, <3>1, BindThreadTyped
    <3>3. /\ job'[a].occ = job[a].occ
          /\ \A k \in Tasks : k # job[a].occ.task => thread'[k] = thread[k]
      BY <1>1, <2>2, <3>1, FreshBind
    <3>4. a \in Callers => pc'[a] # "idle"
      BY <1>1, <2>2 DEF BindThread, Proceed, TypeOK
    <3>5. a = Tick => job[a].thread = None
      BY <2>1 DEF FreshInv
    <3> QED
      BY <1>1, <2>1, <3>2, <3>3, <3>4, <3>5, FreshChain
  <2>3. CASE pc' = [pc EXCEPT ![a] = "fail"] /\ UNCHANGED <<thread, job>>
    <3>1. pc'[a] = "fail" /\ \A b \in Actors : b # a => pc'[b] = pc[b]
      BY <1>1, <2>3 DEF TypeOK
    <3> QED
      BY <1>1, <2>1, <2>3, <3>1, FreshChain
  <2> QED
    BY <1>3, <2>2, <2>3 DEF TopicAnswer
<1>4. CASE Dispatch(a)
  <2>1. /\ pc[a] = "dispatch" /\ UNCHANGED <<phase, dueList, thread>>
        /\ pc' = [pc EXCEPT ![a] = "mark"] \/ pc' = [pc EXCEPT ![a] = "fail"]
    BY <1>4 DEF Dispatch, tick, taskRows
  <2>2. /\ pc'[a] \in {"mark", "fail"} /\ \A b \in Actors : b # a => pc'[b] = pc[b]
    BY <1>1, <2>1 DEF TypeOK
  <2>3. \E x : job' = [job EXCEPT ![a].seen = x] \/ job' = job
    BY <1>4 DEF Dispatch
  <2>4. job'[a].occ = job[a].occ /\ \A b \in Actors : b # a => job'[b] = job[b]
    BY <1>1, <2>3 DEF TypeOK, Jobs
  <2>5. job'[a] \in Jobs
    <3>1. Working(a)'
      BY <2>2 DEF Working
    <3> QED
      BY <3>1 DEF IndInv, ChainsInv, Chain
  <2> QED
    BY <1>1, <2>1, <2>2, <2>4, <2>5, FreshChain
<1>5. CASE MarkResult(a) \/ MarkFailed(a)
  <2>1. pc[a] \in {"mark", "fail"} /\ thread' = thread
    BY <1>5 DEF MarkResult, MarkFailed, taskRows
  <2>2. CASE ProcessEnds
    BY <2>1, <2>2, FreshEnds
  <2>3. CASE ~ProcessEnds
    <3>1. Finish(a) \/ (pc' = [pc EXCEPT ![a] = "fail"] /\ UNCHANGED <<tick, job>>)
      BY <1>5, <2>3 DEF MarkResult, MarkFailed, Throws
    <3>2. /\ UNCHANGED <<phase, dueList, job>>
          /\ pc'[a] \in {"idle", "done", "fail"} /\ \A b \in Actors : b # a => pc'[b] = pc[b]
          /\ a \in Callers => pc'[a] # "idle"
      BY <1>1, <3>1 DEF Finish, tick, TypeOK
    <3> QED
      BY <1>1, <2>1, <3>2, FreshChain
  <2> QED
    BY <2>2, <2>3
<1> QED
  BY <1>2, <1>3, <1>4, <1>5 DEF ChainSteps

LEMMA FreshPreserved == IndInv /\ FreshInv /\ [Next]_vars => FreshInv' /\ KeepsTopics
<1> SUFFICES ASSUME IndInv, FreshInv, [Next]_vars
             PROVE  FreshInv' /\ KeepsTopics
  OBVIOUS
<1>1. IndInv'
  BY NextPreserves
<1>2. CASE \E k \in Tasks : \E a \in Callers : RunNow(a, k)
  BY <1>2, FreshRunNow
<1>3. CASE StartTick \/ TickSteps
  BY <1>3, FreshStartTick, FreshTakeDue, FreshAdvance, FreshLoops, FreshTakePending DEF TickSteps
<1>4. CASE \E a \in Actors : ChainSteps(a) \/ TopicAnswer(a)
  BY <1>1, <1>4, FreshSteps
<1> QED
  BY <1>2, <1>3, <1>4, FreshAround DEF Next, Requests

LEMMA FreshInit == Init => FreshInv
<1> SUFFICES ASSUME Init
             PROVE  FreshInv
  OBVIOUS
<1>1. pc[Tick] = "idle" /\ dueList = <<>> /\ phase = "idle" /\ \A c \in Callers : job[c] = None
  BY DEF Init, Actors
<1> QED
  BY <1>1, EmptySeq DEF FreshInv, GoesByRow, Working

\* A task's topic is exchanged only when a run-now request of the running process worked on the
\* task, however many there are and whatever else interleaves: the tick binds a topic only where
\* there is none, or a request was there (ensureExecutionThread, setTaskExecutionThread).
THEOREM TopicsAreKept == Spec => TopicIsKept
<1>1. IndInv /\ FreshInv /\ [Next]_vars =>
        [\A k \in Tasks :
           thread[k] # None /\ thread'[k] \notin {thread[k], None}
             => \E c \in Callers : job[c] # None /\ job[c].occ.task = k]_vars
  BY FreshPreserved DEF KeepsTopics, Untouched
<1> QED
  BY <1>1, FreshInit, FreshPreserved, InductiveInvariant, PTL DEF Spec, TopicIsKept

--------------------------------------------------------------------------------
\* Recurring tasks, when a batch holds whatever is due.

\* Every due task is in the list that listDueTasks returns.
BatchFits == IsFiniteSet(Due) /\ Cardinality(Due) <= DueBatch

\* The schedule of the occurrence's task has moved on, or was taken away; it has not moved back.
Advanced(o) == next[o.task] = None \/ next[o.task] > o.at
NotBefore(o) == o.at <= now /\ (next[o.task] # None => next[o.task] >= o.at)

\* Where the tick has not yet moved on the schedule of an occurrence with a row: in phase "due",
\* in the rows still to be looked at or between the row and the schedule.
Claimed(o) ==
  /\ phase = "due"
  /\ \/ \E i \in 1..Len(dueList) : dueList[i].occ = o
     \/ pc[Tick] = "advance" /\ job[Tick].occ = o

\* No occurrence is met a second time once it has left "pending".
BatchInv ==
  /\ \A k \in Tasks : next[k] # None => k \in enabled
  /\ \A o \in Occurrences :
       /\ status[o] # "none" => NotBefore(o)
       /\ status[o] \notin {"none", "pending"} => Advanced(o)
       /\ status[o] # "none" /\ phase # "idle" => Advanced(o) \/ Claimed(o)
  /\ \A i \in 1..Len(dueList) :
       NotBefore(dueList[i].occ) /\ status[dueList[i].occ] \in {"none", "pending"}
  /\ Working(Tick) => /\ job[Tick].pending /\ status[job[Tick].occ] \in {"none", "pending"}
                      /\ NotBefore(job[Tick].occ)
                      /\ pc[Tick] # "advance" => Advanced(job[Tick].occ)

\* When the batch fits, every due task has a row in the list.
LEMMA AllDueListed ==
  ASSUME TypeOK, BatchFits, NEW list \in DueLists, NEW k \in Due
  PROVE  \E i \in 1..Len(list) : list[i].occ.task = k
<1>1. CASE Len(list) # DueBatch
  BY <1>1, DueListsRead
<1>2. CASE Len(list) = DueBatch
  <2> DEFINE f == [i \in 1..DueBatch |-> list[i].occ.task]
  <2>1. f \in Injection(1..DueBatch, Due)
    <3>1. f \in [1..DueBatch -> Due]
      BY <1>2, DueListsRead
    <3>2. \A i, m \in 1..DueBatch : f[i] = f[m] => i = m
      BY <1>2, DueListsRead
    <3> HIDE DEF f
    <3> QED
      BY <3>1, <3>2 DEF Injection, IsInjective
  <2> HIDE DEF f
  <2>2. DueBatch \in Nat /\ Cardinality(1..DueBatch) = DueBatch
    <3>1. DueBatch \in Nat /\ 1 \in Int /\ DueBatch \in Int
      BY ConstantsAssumption
    <3>2. Cardinality(1..DueBatch) = IF 1 > DueBatch THEN 0 ELSE DueBatch - 1 + 1
      BY <3>1, FS_Interval
    <3> QED
      BY <3>1, <3>2, ConstantsAssumption
  <2>3. IsFiniteSet(Due) /\ Cardinality(Due) \in Nat
    BY FS_CardinalityType DEF BatchFits
  <2>4. Cardinality(Due) = DueBatch
    <3>1. Cardinality(1..DueBatch) <= Cardinality(Due)
      BY <2>1, <2>3, FS_Injection
    <3> QED
      BY <2>2, <2>3, <3>1 DEF BatchFits
  <2>5. f \in Surjection(1..DueBatch, Due)
    BY <2>1, <2>2, <2>3, <2>4, FS_Injection
  <2>6. PICK i \in 1..DueBatch : f[i] = k
    BY <2>5 DEF Surjection
  <2> QED
    BY <1>2, <2>6 DEF f
<1> QED
  BY <1>1, <1>2

\* Schedules only move on: to the next occurrence, or to none.
MovesOn ==
  /\ now <= now'
  /\ \A k \in Tasks : next'[k] \in {next[k], None, now + 1} /\ (next'[k] # None => k \in enabled')

LEMMA MovedOn ==
  ASSUME TypeOK, TypeOK', MovesOn, NEW o \in Occurrences, NotBefore(o)
  PROVE  NotBefore(o)' /\ (Advanced(o) => Advanced(o)')
<1>1. /\ o.task \in Tasks /\ o.at \in Nat /\ now \in Nat /\ now' \in Nat /\ None \notin Nat
      /\ next[o.task] \in Nat \cup {None} /\ next'[o.task] \in Nat \cup {None}
  BY Numbers, ConstantsAssumption DEF TypeOK, Times, Slots
<1> QED
  BY <1>1 DEF MovesOn, NotBefore, Advanced

\* A rule that ended has no next occurrence later either.
LEMMA ExhaustedStays ==
  ASSUME NEW k \in Tasks, Exhausted(k), kind'[k] = kind[k], now \in Nat, now' \in Nat, now <= now'
  PROVE  Exhausted(k)'
<1>1. \A n, m \in Nat : n <= m /\ n + 1 > LastSlot => m + 1 > LastSlot
  BY ConstantsAssumption
<1> QED
  BY <1>1, Zenon DEF Exhausted

\* A task that was deleted, or a rule that ended, stays so.
LEMMA ReasonStays ==
  ASSUME TypeOK, TypeOK', TickRejectsOnlyFor, now <= now',
         \A k \in Tasks : kind[k] # None => kind'[k] = kind[k] /\ (k \notin live => k \notin live'),
         rejected' => \/ rejected
                      \/ \E k \in Tasks : (kind[k] # None /\ k \notin live) \/ Exhausted(k)
  PROVE  TickRejectsOnlyFor'
<1> SUFFICES ASSUME rejected'
             PROVE  \E k \in Tasks : ((kind[k] # None /\ k \notin live) \/ Exhausted(k))'
  BY DEF TickRejectsOnlyFor
<1>1. PICK k \in Tasks : (kind[k] # None /\ k \notin live) \/ Exhausted(k)
  BY DEF TickRejectsOnlyFor
<1>2. now \in Nat /\ now' \in Nat /\ LastSlot \in Nat
  BY Numbers, ConstantsAssumption DEF TypeOK, Slots
<1>3. CASE kind[k] # None /\ k \notin live
  BY <1>3
<1>4. CASE Exhausted(k)
  <2>1. kind[k] # None
    <3>1. kind[k] = "finite" /\ None # "finite"
      BY <1>4, ConstantsAssumption, Zenon DEF Exhausted
    <3> QED
      BY <3>1
  <2>2. kind'[k] = kind[k]
    BY <2>1
  <2>3. Exhausted(k)'
    BY <1>2, <1>4, <2>2, ExhaustedStays
  <2> QED
    BY <2>3
<1> QED
  BY <1>1, <1>3, <1>4

\* Steps that leave the work of the tick alone.
LEMMA PassesBatch ==
  ASSUME IndInv, IndInv', BatchInv, MovesOn, UNCHANGED <<phase, dueList, pc, job>>,
         \A o \in Occurrences : status'[o] \in {status[o], "none"}
  PROVE  BatchInv'
<1>1. TypeOK /\ TypeOK'
  BY DEF IndInv
<1>2. ASSUME NEW o \in Occurrences
      PROVE  /\ status'[o] # "none" => NotBefore(o)'
             /\ status'[o] \notin {"none", "pending"} => Advanced(o)'
             /\ status'[o] # "none" /\ phase # "idle" => Advanced(o)' \/ Claimed(o)'
  <2>1. Claimed(o)' <=> Claimed(o)
    BY DEF Claimed
  <2> QED
    BY <1>1, <2>1, MovedOn DEF BatchInv
<1>3. ASSUME NEW i \in 1..Len(dueList)
      PROVE  NotBefore(dueList[i].occ)' /\ status'[dueList[i].occ] \in {"none", "pending"}
  <2>1. PICK o \in Occurrences : o = dueList[i].occ
    BY <1>1, DueRow
  <2>2. NotBefore(o) /\ status[o] \in {"none", "pending"}
    BY <2>1 DEF BatchInv
  <2>3. NotBefore(o)' /\ status'[o] \in {"none", "pending"}
    BY <1>1, <2>2, MovedOn
  <2> QED
    BY <2>1, <2>3 DEF NotBefore
<1>4. ASSUME Working(Tick)
      PROVE  /\ job[Tick].pending /\ status'[job[Tick].occ] \in {"none", "pending"}
             /\ NotBefore(job[Tick].occ)'
             /\ pc[Tick] # "advance" => Advanced(job[Tick].occ)'
  <2>1. PICK o \in Occurrences : o = job[Tick].occ
    BY <1>4, WorksOn
  <2>2. /\ job[Tick].pending /\ status[o] \in {"none", "pending"} /\ NotBefore(o)
        /\ pc[Tick] # "advance" => Advanced(o)
    BY <1>4, <2>1 DEF BatchInv
  <2>3. /\ status'[o] \in {"none", "pending"} /\ NotBefore(o)'
        /\ pc[Tick] # "advance" => Advanced(o)'
    BY <1>1, <2>2, MovedOn
  <2> QED
    BY <2>1, <2>2, <2>3 DEF NotBefore, Advanced
<1>5. \A k \in Tasks : next'[k] # None => k \in enabled'
  BY DEF MovesOn
<1> QED
  BY <1>2, <1>3, <1>4, <1>5 DEF BatchInv, Working

\* A process that ends leaves the schedules where they are.
LEMMA EndsBatch ==
  ASSUME IndInv, IndInv', BatchInv, ProcessEnds, UNCHANGED <<live, kind, enabled, next, status, now>>
  PROVE  BatchInv'
<1>1. ~Working(Tick)' /\ dueList' = <<>> /\ phase' = "idle"
  BY DEF ProcessEnds, Working, Actors
<1>2. \A o \in Occurrences : /\ status'[o] # "none" => NotBefore(o)'
                             /\ status'[o] \notin {"none", "pending"} => Advanced(o)'
  BY DEF BatchInv, NotBefore, Advanced
<1> QED
  BY <1>1, <1>2, EmptySeq DEF BatchInv

LEMMA AroundBatch ==
  ASSUME IndInv, IndInv', BatchInv, TickRejectsOnlyFor, Callers = {}, "once" \notin Kinds,
         \/ Requests \/ (\E o \in Occurrences : RunSettles(o))
         \/ TimePasses \/ Crash \/ Boot \/ UNCHANGED vars
  PROVE  BatchInv' /\ TickRejectsOnlyFor'
<1>1. TypeOK /\ TypeOK' /\ now \in Nat
  BY Numbers DEF IndInv
<1>2. \A s \in Kinds : InitialNext(s) \subseteq {now + 1}
  BY ConstantsAssumption DEF InitialNext
<1>3. ASSUME NEW k \in Tasks, CreateTask(k)
      PROVE  BatchInv' /\ TickRejectsOnlyFor'
  <2>1. /\ kind[k] = None /\ live' = live \cup {k} /\ enabled' = enabled \cup {k}
        /\ UNCHANGED <<status, phase, dueList, pc, job, now, rejected>>
    BY <1>3 DEF CreateTask, tick, world
  <2>2. PICK s \in Kinds : kind' = [kind EXCEPT ![k] = s]
                           /\ \E t \in InitialNext(s) : next' = [next EXCEPT ![k] = t]
    BY <1>3 DEF CreateTask
  <2>3. next' = [next EXCEPT ![k] = now + 1]
    BY <1>2, <2>2
  <2>4. MovesOn
    BY <1>1, <2>1, <2>3 DEF MovesOn, TypeOK, BatchInv
  <2>5. BatchInv'
    BY <2>1, <2>4, PassesBatch
  <2>6. \A q \in Tasks : kind[q] # None => kind'[q] = kind[q] /\ (q \notin live => q \notin live')
    BY <1>1, <2>1, <2>2 DEF TypeOK
  <2>7. TickRejectsOnlyFor'
    BY <1>1, <2>1, <2>6, ReasonStays
  <2> QED
    BY <2>5, <2>7
<1>4. ASSUME NEW k \in Tasks, EditTask(k)
      PROVE  BatchInv' /\ TickRejectsOnlyFor'
  <2>1. PICK e \in Edits : Edit(e, k)
    BY <1>4 DEF EditTask
  <2>2. UNCHANGED <<kind, phase, dueList, pc, job, now, rejected>> /\ k \in live
    BY <1>4 DEF EditTask, tick
  <2>3. /\ live' \subseteq live
        /\ \A o \in Occurrences : status'[o] \in {status[o], "none"}
    BY <1>1, <2>1 DEF Edit, TypeOK
  <2>4. MovesOn
    <3>1. CASE e = "reschedule"
      <4>1. kind[k] \in Kinds
        BY <1>1, <2>2 DEF IndInv, TasksInv, TypeOK
      <4>2. next' = [next EXCEPT ![k] = now + 1] /\ enabled' = enabled \cup {k}
        BY <1>2, <2>1, <3>1, <4>1 DEF Edit
      <4> QED
        BY <1>1, <2>2, <4>2 DEF MovesOn, TypeOK, BatchInv
    <3>2. CASE next' = next /\ enabled' = enabled
      BY <1>1, <2>2, <3>2 DEF MovesOn, BatchInv
    <3>3. CASE next' = [next EXCEPT ![k] = None] /\ enabled' = enabled \ {k}
      BY <1>1, <2>2, <3>3 DEF MovesOn, TypeOK, BatchInv
    <3> QED
      BY <2>1, <3>1, <3>2, <3>3 DEF Edit
  <2>5. BatchInv'
    BY <2>2, <2>3, <2>4, PassesBatch
  <2>6. TickRejectsOnlyFor'
    BY <1>1, <2>2, <2>3, ReasonStays
  <2> QED
    BY <2>5, <2>6
<1>5. CASE (\E o \in Occurrences : RunSettles(o)) \/ TimePasses \/ Boot \/ UNCHANGED vars
  <2>1. /\ UNCHANGED <<live, kind, enabled, next, status, phase, dueList, pc, job, rejected>>
        /\ now' = now \/ now' = now + 1
    BY <1>5 DEF RunSettles, TimePasses, Boot, vars, taskRows, tick, world
  <2>2. MovesOn
    BY <1>1, <2>1 DEF MovesOn, BatchInv
  <2>3. BatchInv'
    BY <2>1, <2>2, PassesBatch
  <2>4. TickRejectsOnlyFor'
    BY <1>1, <2>1, ReasonStays
  <2> QED
    BY <2>3, <2>4
<1>6. CASE Crash
  <2>1. ProcessEnds /\ UNCHANGED <<live, kind, enabled, next, status, now, rejected>>
    BY <1>6 DEF Crash, taskRows
  <2>2. TickRejectsOnlyFor'
    BY <1>1, <2>1, ReasonStays
  <2> QED
    BY <2>1, <2>2, EndsBatch
<1> QED
  BY <1>3, <1>4, <1>5, <1>6 DEF Requests

LEMMA StartTickBatch ==
  ASSUME IndInv, IndInv', SoleInv, BatchInv, BatchFits, StartTick
  PROVE  BatchInv'
<1>1. /\ TypeOK /\ phase' = "due" /\ dueList' \in DueLists
      /\ UNCHANGED <<next, enabled, status, now, pc, job>>
  BY DEF IndInv, StartTick, taskRows, world
<1>2. ~Working(Tick)'
  BY <1>1 DEF StartTick, SoleInv, TakenInv, Working
<1>3. \A o \in Occurrences : (NotBefore(o)' <=> NotBefore(o)) /\ (Advanced(o)' <=> Advanced(o))
  BY <1>1 DEF NotBefore, Advanced
<1>4. ASSUME NEW i \in 1..Len(dueList')
      PROVE  NotBefore(dueList[i].occ)' /\ status'[dueList'[i].occ] \in {"none", "pending"}
  <2>1. PICK o \in Occurrences : /\ o = dueList'[i].occ /\ o.task \in Due /\ o.at = next[o.task]
    BY <1>1, DueListsRead
  <2>2. o.at \in Nat /\ o.at <= now /\ next[o.task] = o.at /\ next[o.task] # None
    BY <1>1, <2>1, Numbers DEF Due
  <2>3. NotBefore(o) /\ ~Advanced(o)
    BY <2>2 DEF NotBefore, Advanced
  <2>4. status[o] \in {"none", "pending"}
    BY <2>3 DEF BatchInv
  <2>5. NotBefore(o)'
    BY <1>3, <2>3
  <2> QED
    BY <1>1, <2>1, <2>4, <2>5 DEF NotBefore
<1>5. ASSUME NEW o \in Occurrences, status[o] # "none", ~Advanced(o)
      PROVE  Claimed(o)'
  <2>1. NotBefore(o) /\ o.task \in Tasks /\ o.at \in Nat
    BY <1>1, <1>5, Numbers DEF BatchInv
  <2>2. next[o.task] # None /\ next[o.task] \in Nat /\ next[o.task] = o.at /\ next[o.task] <= now
    <3>1. next[o.task] \in Nat \cup {None} /\ next[o.task] # None
      BY <1>1, <1>5, <2>1, ConstantsAssumption DEF TypeOK, Times, Advanced
    <3> QED
      BY <1>5, <2>1, <3>1 DEF NotBefore, Advanced
  <2>3. o.task \in Due
    BY <2>1, <2>2 DEF Due, BatchInv
  <2>4. PICK i \in 1..Len(dueList') : dueList'[i].occ.task = o.task
    BY <1>1, <2>3, AllDueListed
  <2>5. dueList'[i].occ \in Occurrences /\ dueList'[i].occ.at = o.at
    BY <1>1, <2>2, <2>4, DueListsRead
  <2>6. dueList'[i].occ = o
    BY <2>4, <2>5 DEF Occurrences
  <2> QED
    BY <1>1, <2>6 DEF Claimed
<1> QED
  BY <1>1, <1>2, <1>3, <1>4, <1>5 DEF BatchInv

LEMMA TakeDueBatch ==
  ASSUME IndInv, IndInv', SoleInv, BatchInv, TickRejectsOnlyFor, TakeDue
  PROVE  BatchInv' /\ TickRejectsOnlyFor'
<1>1. /\ TypeOK /\ TypeOK' /\ now \in Nat /\ phase = "due" /\ dueList # <<>> /\ pc[Tick] = "idle"
      /\ UNCHANGED <<live, kind, next, enabled, now>> /\ Tick \in Actors
  BY Numbers DEF IndInv, TakeDue, TickIsFree, taskRows, Actors
<1>2. PICK row \in Rows : row = Head(dueList)
  BY <1>1, NextDue
<1>3. /\ row = dueList[1] /\ 1 \in 1..Len(dueList) /\ row.occ \in Occurrences
      /\ row.occ.task \in Tasks /\ kind[row.occ.task] # None
      /\ NotBefore(row.occ) /\ status[row.occ] \in {"none", "pending"}
  BY <1>1, <1>2, NextDue, Numbers DEF IndInv, TickInv, BatchInv
<1>4. CASE row.occ.task \notin live
  <2>1. ProcessEnds /\ status' = status
    BY <1>2, <1>4 DEF TakeDue, Throws
  <2>2. TickRejectsOnlyFor'
    BY <1>1, <1>3, <1>4, ReasonStays
  <2> QED
    BY <1>1, <2>1, <2>2, EndsBatch
<1>5. CASE row.occ.task \in live
  <2>1. /\ CreateOrGet(row.occ) /\ dueList' = Tail(dueList) /\ phase' = phase /\ rejected' = rejected
        /\ pc' = [pc EXCEPT ![Tick] = "advance"]
        /\ job' = [job EXCEPT ![Tick] = JobOf(row, TRUE)]
    BY <1>2, <1>3, <1>5 DEF TakeDue
  <2>2. /\ status'[row.occ] = "pending"
        /\ \A o \in Occurrences : o # row.occ => status'[o] = status[o]
    BY <1>1, <1>3, <2>1 DEF CreateOrGet, TypeOK
  <2>3. pc'[Tick] = "advance" /\ job'[Tick].occ = row.occ /\ job'[Tick].pending = TRUE
    <3>1. pc'[Tick] = "advance" /\ job'[Tick] = JobOf(row, TRUE)
      BY <1>1, <2>1 DEF TypeOK
    <3> QED
      BY <3>1, JobIsTyped
  <2>4. \A o \in Occurrences : (NotBefore(o)' <=> NotBefore(o)) /\ (Advanced(o)' <=> Advanced(o))
    BY <1>1 DEF NotBefore, Advanced
  <2>5. ASSUME NEW i \in 1..Len(dueList')
        PROVE  NotBefore(dueList[i].occ)' /\ status'[dueList'[i].occ] \in {"none", "pending"}
    <3>1. dueList'[i] = dueList[i + 1] /\ i + 1 \in 1..Len(dueList) /\ i + 1 # 1
      BY <1>1, <2>1, NextDue
    <3>2. PICK o \in Occurrences : o = dueList[i + 1].occ
      BY <1>1, <3>1, DueRow
    <3>3. o # row.occ /\ NotBefore(o) /\ status[o] \in {"none", "pending"}
      BY <1>3, <3>1, <3>2 DEF SoleInv, ReadInv, BatchInv
    <3>4. NotBefore(o)' /\ status'[o] = status[o]
      BY <2>2, <2>4, <3>3
    <3> QED
      BY <3>1, <3>2, <3>3, <3>4 DEF NotBefore
  <2>6. ASSUME NEW o \in Occurrences, status'[o] # "none", ~Advanced(o)
        PROVE  Claimed(o)'
    <3>1. CASE o = row.occ
      BY <1>1, <2>1, <2>3, <3>1 DEF Claimed
    <3>2. CASE o # row.occ
      <4>1. Claimed(o)
        BY <1>1, <2>2, <2>6, <3>2 DEF BatchInv
      <4>2. PICK i \in 1..Len(dueList) : dueList[i].occ = o
        BY <1>1, <4>1 DEF Claimed
      <4>3. i # 1
        BY <1>3, <3>2, <4>2
      <4>4. \E m \in 1..Len(dueList') : dueList'[m] = dueList[i]
        BY <1>1, <2>1, <4>3, NextDue
      <4> QED
        BY <1>1, <2>1, <4>2, <4>4 DEF Claimed
    <3> QED
      BY <3>1, <3>2
  <2>7. BatchInv'
    <3>1. NotBefore(job[Tick].occ)' /\ status'[job'[Tick].occ] = "pending"
      BY <1>3, <2>2, <2>3, <2>4 DEF NotBefore
    <3>2. \A o \in Occurrences : /\ status'[o] # "none" => NotBefore(o)'
                                 /\ status'[o] \notin {"none", "pending"} => Advanced(o)'
      BY <1>3, <2>2, <2>4 DEF BatchInv
    <3>3. \A k \in Tasks : next'[k] # None => k \in enabled'
      BY <1>1 DEF BatchInv
    <3>4. \A o \in Occurrences : status'[o] # "none" => Advanced(o)' \/ Claimed(o)'
      BY <2>4, <2>6
    <3> QED
      BY <2>3, <2>5, <3>1, <3>2, <3>3, <3>4 DEF BatchInv
  <2>8. TickRejectsOnlyFor'
    BY <1>1, <2>1, ReasonStays
  <2> QED
    BY <2>7, <2>8
<1> QED
  BY <1>4, <1>5

\* The tick goes on with the occurrence, or with none, at other steps than the schedule's.
LEMMA GoesOnBatch ==
  ASSUME IndInv, IndInv', BatchInv, TickRejectsOnlyFor, Tick \in Actors, pc[Tick] # "advance",
         UNCHANGED <<live, kind, next, enabled, status, now, phase, dueList, rejected>>,
         pc'[Tick] # "advance", Working(Tick)' => Working(Tick),
         Working(Tick)' => job'[Tick].occ = job[Tick].occ /\ job'[Tick].pending = job[Tick].pending
  PROVE  BatchInv' /\ TickRejectsOnlyFor'
<1>1. TypeOK /\ TypeOK' /\ now \in Nat
  BY Numbers DEF IndInv
<1>2. \A o \in Occurrences : /\ NotBefore(o)' <=> NotBefore(o)
                             /\ Advanced(o)' <=> Advanced(o)
                             /\ Claimed(o)' <=> Claimed(o)
  BY DEF NotBefore, Advanced, Claimed
<1>3. \A i \in 1..Len(dueList') : NotBefore(dueList[i].occ)' <=> NotBefore(dueList[i].occ)
  BY DEF NotBefore
<1>4. Working(Tick)' => /\ job'[Tick].pending /\ status'[job'[Tick].occ] \in {"none", "pending"}
                        /\ NotBefore(job[Tick].occ)' /\ Advanced(job[Tick].occ)'
  BY DEF BatchInv, NotBefore, Advanced
<1>5. BatchInv'
  BY <1>2, <1>3, <1>4 DEF BatchInv
<1>6. TickRejectsOnlyFor'
  BY <1>1, ReasonStays
<1> QED
  BY <1>5, <1>6

\* The schedule of a recurring task moves past its occurrence.
LEMMA AdvanceBatch ==
  ASSUME IndInv, IndInv', SoleInv, BatchInv, TickRejectsOnlyFor, "once" \notin Kinds, Advance
  PROVE  BatchInv' /\ TickRejectsOnlyFor'
<1>1. /\ TypeOK /\ TypeOK' /\ now \in Nat /\ pc[Tick] = "advance" /\ Working(Tick) /\ Tick \in Actors
      /\ UNCHANGED <<live, kind, status, now>>
  BY Numbers DEF IndInv, Advance, Working, Actors
<1>2. PICK o \in Occurrences : o = job[Tick].occ
  BY <1>1, WorksOn
<1>3. /\ o.task \in Tasks /\ o.at \in Nat /\ NotBefore(o) /\ status[o] = "pending"
      /\ job[Tick].pending /\ status[o] # "none"
  BY <1>1, <1>2, Numbers DEF BatchInv, IndInv, ChainsInv, Chain
<1>4. CASE Exhausted(o.task)
  <2>1. ProcessEnds /\ UNCHANGED <<enabled, next>>
    BY <1>2, <1>4 DEF Advance, Throws
  <2>2. TickRejectsOnlyFor'
    BY <1>1, <1>3, <1>4, ReasonStays
  <2> QED
    BY <1>1, <2>1, <2>2, EndsBatch
<1>5. CASE ~Exhausted(o.task)
  <2>1. /\ AdvanceTask(o.task, o.at) /\ pc' = [pc EXCEPT ![Tick] = "ensure"]
        /\ UNCHANGED <<phase, dueList, job, rejected>>
    BY <1>2, <1>5 DEF Advance, tick
  <2>2. kind[o.task] # "once"
    <3>1. o.task \in live /\ kind[o.task] \in Kinds
      BY <1>1, <1>3 DEF IndInv, RowsInv, TasksInv, TypeOK
    <3> QED
      BY <3>1
  <2>3. MovesOn
    BY <1>1, <2>1, <2>2 DEF MovesOn, AdvanceTask, TypeOK, BatchInv
  <2>4. Advanced(o)'
    <3>1. CASE next[o.task] # o.at
      <4>1. next' = next
        BY <2>1, <3>1 DEF AdvanceTask
      <4>2. next[o.task] \in Nat \cup {None}
        BY <1>1, <1>3, ConstantsAssumption DEF TypeOK, Times
      <4> QED
        BY <1>3, <3>1, <4>1, <4>2 DEF NotBefore, Advanced
    <3>2. CASE next[o.task] = o.at
      <4>1. next'[o.task] = now + 1
        BY <1>1, <1>3, <2>1, <2>2, <3>2 DEF AdvanceTask, TypeOK
      <4> QED
        BY <1>1, <1>3, <4>1 DEF NotBefore, Advanced
    <3> QED
      BY <3>1, <3>2
  <2>5. pc'[Tick] = "ensure"
    BY <1>1, <2>1 DEF TypeOK
  <2>6. ASSUME NEW q \in Occurrences
        PROVE  /\ status'[q] # "none" => NotBefore(q)'
               /\ status'[q] \notin {"none", "pending"} => Advanced(q)'
               /\ status'[q] # "none" /\ phase' # "idle" => Advanced(q)' \/ Claimed(q)'
    <3>1. CASE status[q] = "none"
      BY <1>1, <3>1
    <3>2. CASE status[q] # "none"
      <4>1. NotBefore(q)' /\ (Advanced(q) => Advanced(q)')
        BY <1>1, <2>3, <3>2, MovedOn DEF BatchInv
      <4>2. Claimed(q) => q = o \/ Claimed(q)'
        BY <1>2, <2>1 DEF Claimed
      <4> QED
        BY <1>1, <2>1, <2>4, <3>2, <4>1, <4>2 DEF BatchInv
    <3> QED
      BY <3>1, <3>2
  <2>7. ASSUME NEW i \in 1..Len(dueList)
        PROVE  NotBefore(dueList[i].occ)' /\ status'[dueList[i].occ] \in {"none", "pending"}
    <3>1. PICK q \in Occurrences : q = dueList[i].occ
      BY <1>1, DueRow
    <3>2. NotBefore(q) /\ status[q] \in {"none", "pending"}
      BY <3>1 DEF BatchInv
    <3>3. NotBefore(q)'
      BY <1>1, <2>3, <3>2, MovedOn
    <3> QED
      BY <1>1, <2>1, <3>1, <3>2, <3>3 DEF NotBefore
  <2>8. NotBefore(job[Tick].occ)' /\ Advanced(job[Tick].occ)'
    <3>1. NotBefore(o)'
      BY <1>1, <1>3, <2>3, MovedOn
    <3> QED
      BY <1>2, <2>1, <2>4, <3>1 DEF NotBefore, Advanced
  <2>9. job'[Tick].pending /\ status'[job'[Tick].occ] \in {"none", "pending"}
    BY <1>1, <1>2, <1>3, <2>1
  <2>10. BatchInv'
    BY <2>1, <2>3, <2>6, <2>7, <2>8, <2>9 DEF BatchInv, MovesOn
  <2>11. TickRejectsOnlyFor'
    BY <1>1, <2>1, ReasonStays
  <2> QED
    BY <2>10, <2>11
<1> QED
  BY <1>2, <1>4, <1>5

LEMMA LoopsBatch ==
  ASSUME IndInv, IndInv', SoleInv, BatchInv, TickRejectsOnlyFor,
         EndDue \/ EndResume \/ EndTick \/ Reconcile \/ TakePending
  PROVE  BatchInv' /\ TickRejectsOnlyFor'
<1>1. /\ TypeOK /\ TypeOK' /\ now \in Nat /\ pc[Tick] = "idle" /\ dueList = <<>> /\ phase # "idle"
      /\ UNCHANGED <<live, kind, next, enabled, now, dueList, rejected>> /\ Tick \in Actors
  BY Numbers
  DEF IndInv, EndDue, EndResume, EndTick, Reconcile, TakePending, TickIsFree, taskRows, world, Actors,
      SoleInv, ReadInv
<1>2. TickRejectsOnlyFor'
  BY <1>1, ReasonStays
<1>3. \A o \in Occurrences : status[o] # "none" => NotBefore(o) /\ Advanced(o)
  BY <1>1, EmptySeq DEF BatchInv, Claimed
<1>4. \A o \in Occurrences : (status'[o] = "none" <=> status[o] = "none")
  <2>1. CASE EndDue \/ EndResume \/ EndTick \/ TakePending
    BY <2>1 DEF EndDue, EndResume, EndTick, TakePending
  <2>2. CASE Reconcile
    <3>1. PICK q \in Occurrences : q \in taskRuns /\ status' = [status EXCEPT ![q] = Reconciled(q)]
      BY <2>2 DEF Reconcile, IsFirst, MarkTerminal
    <3>2. status[q] = "dispatched" /\ phase = "reconcile"
      BY <2>2, <3>1 DEF Reconcile, TickIsFree, IndInv, TickInv
    <3>3. runs[q] \in Runs
      BY <1>1, <3>2 DEF IndInv, HistoryMatchesRuns, TypeOK
    <3>4. Reconciled(q) # "none"
      BY <3>2, <3>3 DEF Reconciled, Runs, Terminal
    <3> QED
      BY <1>1, <3>1, <3>2, <3>4 DEF TypeOK
  <2> QED
    BY <2>1, <2>2
<1>5. \A o \in Occurrences : status'[o] # "none" => NotBefore(o)' /\ Advanced(o)'
  BY <1>1, <1>3, <1>4 DEF NotBefore, Advanced
<1>6. Working(Tick)' => /\ job'[Tick].pending /\ status'[job'[Tick].occ] = "pending"
                        /\ NotBefore(job[Tick].occ)' /\ Advanced(job[Tick].occ)'
  <2>1. CASE EndDue \/ EndResume \/ EndTick \/ Reconcile
    BY <1>1, <2>1 DEF EndDue, EndResume, EndTick, Reconcile, Working
  <2>2. CASE TakePending
    <3>1. PICK o \in Occurrences :
            /\ o \in taskRuns
            /\ IF o.task \in live
                 THEN /\ pc' = [pc EXCEPT ![Tick] = "ensure"]
                      /\ job' = [job EXCEPT ![Tick] = JobOf(RowOf(o), TRUE)]
                 ELSE UNCHANGED <<pc, job>>
      BY <2>2 DEF TakePending, IsFirst
    <3>2. CASE o.task \notin live
      BY <1>1, <3>1, <3>2 DEF Working
    <3>3. CASE o.task \in live
      <4>1. RowOf(o) \in Rows /\ RowOf(o).occ = o
        BY <1>1, RowIsTyped DEF RowOf
      <4>2. job'[Tick] = JobOf(RowOf(o), TRUE)
        BY <1>1, <3>1, <3>3 DEF TypeOK
      <4>3. job'[Tick].occ = o /\ job'[Tick].pending = TRUE
        <5>1. PICK row \in Rows : row = RowOf(o) /\ row.occ = o
          BY <4>1
        <5>2. job'[Tick] = JobOf(row, TRUE)
          BY <4>2, <5>1
        <5> QED
          BY <5>1, <5>2 DEF JobOf
      <4>4. status[o] = "pending" /\ status' = status
        BY <2>2, <3>1, <3>3 DEF TakePending, TickIsFree, SoleInv, TakenInv, Deleted
      <4>5. NotBefore(o)' /\ Advanced(o)'
        BY <1>5, <4>4
      <4> QED
        BY <4>3, <4>4, <4>5 DEF NotBefore, Advanced
    <3> QED
      BY <3>2, <3>3
  <2> QED
    BY <2>1, <2>2
<1>7. BatchInv'
  BY <1>1, <1>5, <1>6, EmptySeq DEF BatchInv
<1> QED
  BY <1>2, <1>7

\* The steps of the tick's chain up to the answer of ingest.
LEMMA ChainBatch ==
  ASSUME IndInv, IndInv', BatchInv, TickRejectsOnlyFor,
         EnsureThread(Tick) \/ TopicAnswer(Tick) \/ Dispatch(Tick)
  PROVE  BatchInv' /\ TickRejectsOnlyFor'
<1>1. /\ TypeOK /\ TypeOK' /\ Tick \in Actors /\ Working(Tick) /\ pc[Tick] # "advance"
      /\ UNCHANGED <<live, kind, next, enabled, status, now, phase, dueList, rejected>>
      /\ job[Tick] \in Jobs
  <2>1. Tick \in Actors /\ pc[Tick] \in {"ensure", "topic", "dispatch"}
    BY DEF Actors, EnsureThread, TopicAnswer, Dispatch
  <2>2. Working(Tick)
    BY <2>1 DEF Working
  <2>3. UNCHANGED <<live, kind, next, enabled, status, now, phase, dueList, rejected>>
    BY DEF EnsureThread, TopicAnswer, Dispatch, taskRows, tick, world
  <2> QED
    BY <2>1, <2>2, <2>3, WorksOn DEF IndInv
<1>2. /\ pc'[Tick] \in {"idle", "topic", "dispatch", "mark", "fail"}
      /\ job'[Tick].occ = job[Tick].occ /\ job'[Tick].pending = job[Tick].pending
  <2>1. ASSUME NEW th, BindThread(Tick, th)
        PROVE  /\ pc'[Tick] \in {"idle", "dispatch", "fail"}
               /\ job'[Tick].occ = job[Tick].occ /\ job'[Tick].pending = job[Tick].pending
    <3>1. CASE job[Tick].occ.task \notin live
      BY <1>1, <2>1, <3>1 DEF BindThread, TypeOK
    <3>2. CASE job[Tick].occ.task \in live
      <4> DEFINE j == [job[Tick] EXCEPT !.thread = th, !.text = text[job[Tick].occ.task]]
      <4>1. job' = [job EXCEPT ![Tick] = j] /\ Proceed(Tick, j)
        BY <2>1, <3>2 DEF BindThread
      <4>2. j.occ = job[Tick].occ /\ j.pending = job[Tick].pending
        BY <1>1 DEF Jobs
      <4> HIDE DEF j
      <4> QED
        BY <1>1, <4>1, <4>2 DEF Proceed, TypeOK
    <3> QED
      BY <3>1, <3>2
  <2>2. CASE EnsureThread(Tick)
    <3>1. CASE Proceed(Tick, job[Tick]) /\ job' = job
      BY <1>1, <3>1 DEF Proceed, TypeOK
    <3>2. CASE pc' = [pc EXCEPT ![Tick] = "topic"] /\ job' = job
      BY <1>1, <3>2 DEF TypeOK
    <3> QED
      BY <2>1, <2>2, <3>1, <3>2 DEF EnsureThread
  <2>3. CASE TopicAnswer(Tick)
    <3>1. CASE pc' = [pc EXCEPT ![Tick] = "fail"] /\ job' = job
      BY <1>1, <3>1 DEF TypeOK
    <3> QED
      BY <2>1, <2>3, <3>1 DEF TopicAnswer
  <2>4. CASE Dispatch(Tick)
    <3>1. pc'[Tick] \in {"mark", "fail"}
      BY <1>1, <2>4 DEF Dispatch, TypeOK
    <3>2. \/ job' = job
          \/ \E s : job' = [job EXCEPT ![Tick].seen = s]
      BY <2>4 DEF Dispatch
    <3>3. job'[Tick].occ = job[Tick].occ /\ job'[Tick].pending = job[Tick].pending
      <4>1. ASSUME NEW s, job' = [job EXCEPT ![Tick].seen = s]
            PROVE  job'[Tick].occ = job[Tick].occ /\ job'[Tick].pending = job[Tick].pending
        <5>1. job'[Tick] = [job[Tick] EXCEPT !.seen = s]
          BY <1>1, <4>1 DEF TypeOK
        <5> QED
          BY <1>1, <5>1 DEF Jobs
      <4> QED
        BY <3>2, <4>1
    <3> QED
      BY <3>1, <3>3
  <2> QED
    BY <2>2, <2>3, <2>4
<1> QED
  BY <1>1, <1>2, GoesOnBatch

LEMMA MarkBatch ==
  ASSUME IndInv, IndInv', SoleInv, BatchInv, TickRejectsOnlyFor,
         MarkResult(Tick) \/ MarkFailed(Tick)
  PROVE  BatchInv' /\ TickRejectsOnlyFor'
<1>1. /\ TypeOK /\ TypeOK' /\ now \in Nat /\ Tick \in Actors /\ pc[Tick] \in {"mark", "fail"}
      /\ Working(Tick) /\ UNCHANGED <<live, kind, next, enabled, now>>
  BY Numbers DEF IndInv, MarkResult, MarkFailed, Working, Actors, taskRows, world
<1>2. PICK o \in Occurrences : o = job[Tick].occ
  BY <1>1, WorksOn
<1>3. /\ status[o] \in {"none", "pending"} /\ NotBefore(o) /\ Advanced(o) /\ o.task \in Tasks
      /\ status[o] = "none" => kind[o.task] # None /\ o.task \notin live
  BY <1>1, <1>2, WorksOn DEF BatchInv, SoleInv, TakenInv, Deleted
<1>4. \A q \in Occurrences : /\ NotBefore(q)' <=> NotBefore(q)
                             /\ Advanced(q)' <=> Advanced(q)
  BY <1>1 DEF NotBefore, Advanced
<1>5. ASSUME NEW s \in Statuses, status' = [status EXCEPT ![o] = s], Finish(Tick), status[o] # "none",
             rejected' = rejected
      PROVE  BatchInv' /\ TickRejectsOnlyFor'
  <2>1. pc'[Tick] = "idle" /\ UNCHANGED <<phase, dueList, job>> /\ ~Working(Tick)'
    BY <1>1, <1>5 DEF Finish, TypeOK, tick, Working
  <2>2. ASSUME NEW q \in Occurrences
        PROVE  /\ status'[q] # "none" => NotBefore(q)'
               /\ status'[q] \notin {"none", "pending"} => Advanced(q)'
               /\ status'[q] # "none" /\ phase # "idle" => Advanced(q)' \/ Claimed(q)'
    <3>1. CASE q = o
      BY <1>3, <1>4, <3>1
    <3>2. CASE q # o
      <4>1. status'[q] = status[q] /\ (Claimed(q)' <=> Claimed(q))
        BY <1>1, <1>5, <2>1, <3>2 DEF TypeOK, Claimed
      <4> QED
        BY <1>4, <4>1 DEF BatchInv
    <3> QED
      BY <3>1, <3>2
  <2>3. ASSUME NEW i \in 1..Len(dueList)
        PROVE  NotBefore(dueList[i].occ)' /\ status'[dueList[i].occ] \in {"none", "pending"}
    <3>1. PICK q \in Occurrences : q = dueList[i].occ
      BY <1>1, DueRow
    <3>2. q # o
      BY <1>1, <1>2, <3>1 DEF SoleInv, ReadInv, ReadDue
    <3>3. NotBefore(q) /\ status[q] \in {"none", "pending"} /\ status'[q] = status[q]
      BY <1>1, <1>5, <3>1, <3>2 DEF BatchInv, TypeOK
    <3> QED
      BY <1>1, <2>1, <3>1, <3>3 DEF NotBefore
  <2>4. BatchInv'
    BY <1>1, <2>1, <2>2, <2>3 DEF BatchInv
  <2>5. TickRejectsOnlyFor'
    BY <1>1, <1>5, ReasonStays
  <2> QED
    BY <2>4, <2>5
<1>6. CASE MarkResult(Tick)
  <2>1. rejected' = rejected /\ job[Tick].seen \in {None, "running"} \cup Terminal
    BY <1>1, <1>6, WorksOn DEF MarkResult, world, Jobs
  <2>2. CASE /\ job[Tick].seen = "running" /\ Dispatchable(o) /\ Finish(Tick)
             /\ status' = [status EXCEPT ![o] = "dispatched"]
    BY <1>5, <2>1, <2>2 DEF Statuses, Dispatchable
  <2>3. CASE /\ job[Tick].seen # "running" /\ Markable(o, job[Tick].seen) /\ Finish(Tick)
             /\ status' = [status EXCEPT ![o] = job[Tick].seen]
    <3>1. job[Tick].seen \in Terminal
      BY <1>1, <1>6, <2>1, <2>3 DEF IndInv, ChainsInv, Chain, MarkResult
    <3>2. PICK s \in Statuses : s = job[Tick].seen /\ s # "none"
      BY <3>1 DEF Statuses, Terminal
    <3> QED
      BY <1>5, <2>1, <2>3, <3>2 DEF Markable
  <2>4. CASE pc' = [pc EXCEPT ![Tick] = "fail"] /\ UNCHANGED <<status, tick, job>>
    <3>1. pc'[Tick] = "fail"
      BY <1>1, <2>4 DEF TypeOK
    <3> QED
      BY <1>1, <2>1, <2>4, <3>1, GoesOnBatch DEF tick
  <2> QED
    BY <1>2, <1>6, <2>2, <2>3, <2>4 DEF MarkResult, MarkTerminal
<1>7. CASE MarkFailed(Tick)
  <2>1. CASE Markable(o, "failed")
    <3>1. /\ status' = [status EXCEPT ![o] = "failed"] /\ Finish(Tick) /\ rejected' = rejected
          /\ status[o] # "none"
      BY <1>2, <1>7, <2>1 DEF MarkFailed, MarkTerminal, Markable
    <3> QED
      BY <1>5, <3>1 DEF Statuses, Terminal
  <2>2. CASE ~Markable(o, "failed")
    <3>1. ProcessEnds /\ status' = status
      BY <1>2, <1>7, <2>2 DEF MarkFailed, Throws
    <3>2. status[o] = "none"
      BY <1>3, <2>2 DEF Markable
    <3>3. TickRejectsOnlyFor'
      BY <1>1, <1>3, <3>2, ReasonStays
    <3> QED
      BY <1>1, <3>1, <3>3, EndsBatch
  <2> QED
    BY <2>1, <2>2
<1> QED
  BY <1>6, <1>7

LEMMA BatchPreserved ==
  ASSUME Callers = {}, "once" \notin Kinds, IndInv, SoleInv, BatchInv, TickRejectsOnlyFor, BatchFits,
         [Next]_vars
  PROVE  BatchInv' /\ TickRejectsOnlyFor'
<1>1. IndInv' /\ TypeOK /\ TypeOK' /\ Actors = {Tick}
  BY NextPreserves DEF Actors, IndInv
<1>2. CASE \/ Requests \/ (\E o \in Occurrences : RunSettles(o))
           \/ TimePasses \/ Crash \/ Boot \/ UNCHANGED vars
  BY <1>1, <1>2, AroundBatch
<1>3. CASE StartTick
  <2>1. UNCHANGED <<live, kind, now, rejected>> /\ now \in Nat
    BY <1>1, <1>3, Numbers DEF StartTick, taskRows, world
  <2>2. TickRejectsOnlyFor'
    BY <1>1, <2>1, ReasonStays
  <2> QED
    BY <1>1, <1>3, <2>2, StartTickBatch
<1>4. CASE TickSteps
  BY <1>1, <1>4, TakeDueBatch, AdvanceBatch, LoopsBatch DEF TickSteps
<1>5. CASE \E a \in Actors : ChainSteps(a) \/ TopicAnswer(a)
  BY <1>1, <1>5, ChainBatch, MarkBatch DEF ChainSteps
<1> QED
  BY <1>2, <1>3, <1>4, <1>5 DEF Next

LEMMA BatchInit == Init => BatchInv /\ TickRejectsOnlyFor
<1> SUFFICES ASSUME Init
             PROVE  BatchInv
  BY DEF Init, TickRejectsOnlyFor
<1>1. ~Working(Tick) /\ dueList = <<>>
  BY DEF Init, Working, Actors
<1> QED
  BY <1>1, EmptySeq DEF Init, BatchInv

\* While every due task fits in a batch, no recurring task meets an occurrence again that has
\* left "pending", and a tick is rejected only for a task that was deleted or a rule that ended
\* (processDueTasks, resumePendingTaskRuns, their catch blocks, runTick).
THEOREM TickSurvives ==
  ASSUME Callers = {}, "once" \notin Kinds
  PROVE  Spec /\ []BatchFits => []TickRejectsOnlyFor
<1>1. IndInv /\ SoleInv /\ BatchInv /\ TickRejectsOnlyFor /\ BatchFits /\ [Next]_vars
        => BatchInv' /\ TickRejectsOnlyFor'
  BY BatchPreserved
<1> QED
  BY <1>1, BatchInit, InductiveInvariant, SoleInvariant, PTL DEF Spec
--------------------------------------------------------------------------------
\* The next run (TaskSchedule): the searches find the first time there is.

\* Rounding down: the quotient, the remainder, and what they add up to.
LEMMA Rounding ==
  ASSUME NEW a \in Nat, NEW m \in Nat \ {0}
  PROVE  a \div m \in Nat /\ a % m \in 0..(m - 1) /\ a = (a \div m) * m + (a % m)
OBVIOUS

\* Multiples of m are in the order of their factors.
LEMMA Multiples ==
  ASSUME NEW p \in Int, NEW q \in Int, NEW m \in Nat \ {0}
  PROVE  /\ p * m \in Int /\ (p + q) * m = p * m + q * m /\ (p - q) * m = p * m - q * m
         /\ p < q <=> p * m < q * m
OBVIOUS

LEMMA MultipleIsWhole ==
  ASSUME NEW p \in Nat, NEW m \in Nat \ {0}
  PROVE  (p * m) % m = 0
OBVIOUS

\* A set of times after an instant has a first one, and CHOOSE finds it.
LEMMA FirstExists ==
  ASSUME NEW S, S \subseteq Nat, S # {}
  PROVE  \E t \in S : \A u \in S : t <= u
<1>1. PICK t \in S : \A u \in S : ~ (<<u, t>> \in OpToRel(<, Nat))
  BY NatLessThanWellFounded, WFMin
<1>2. \A u \in S : t <= u
  <2> TAKE u \in S
  <2>1. ~ (u < t)
    BY <1>1 DEF OpToRel
  <2> QED
    BY <2>1
<1> QED
  BY <1>2

\* The units of time are whole and positive; a search covers 366 days.
LEMMA Units ==
  /\ Minute \in Nat \ {0} /\ Day \in Nat \ {0} /\ SearchMinutes \in Nat \ {0}
  /\ SearchMinutes * Minute = 366 * Day
<1>1. /\ Minute \in Nat \ {0} /\ HoursPerDay \in Nat \ {0} /\ MinutesPerHour \in Nat \ {0}
  BY ScheduleAssumption DEF Minute
<1> DEFINE n == HoursPerDay * MinutesPerHour
<1>2. n \in Nat \ {0}
  BY <1>1
<1>3. Day = n * Minute
  BY DEF Day
<1>4. SearchMinutes = 366 * n
  BY <1>1 DEF SearchMinutes
<1> HIDE DEF n
<1> QED
  BY <1>1, <1>2, <1>3, <1>4

\* The minutes after an instant are those the search visits, in their order.
LEMMA SearchStart ==
  ASSUME NEW from \in Nat
  PROVE  /\ StartOfSearch(from) \in Nat
         /\ from < StartOfSearch(from) /\ StartOfSearch(from) <= from + Minute
         /\ \A i \in Nat : (StartOfSearch(from) + i * Minute) % Minute = 0
         /\ \A t \in Nat : (t > from /\ t % Minute = 0) =>
              \E i \in Nat : t = StartOfSearch(from) + i * Minute
<1> DEFINE p == from \div Minute
<1>1. Minute \in Nat \ {0}
  BY Units
<1>2. p \in Nat /\ from % Minute \in 0..(Minute - 1) /\ from = p * Minute + (from % Minute)
  BY <1>1, Rounding
<1>3. StartOfSearch(from) = p * Minute + Minute
  BY DEF StartOfSearch, AlignToMinute
<1> HIDE DEF p
<1>4. p * Minute \in Nat /\ (p + 1) * Minute = p * Minute + Minute
  BY <1>1, <1>2
<1>5. ASSUME NEW i \in Nat
      PROVE  (StartOfSearch(from) + i * Minute) % Minute = 0
  <2>1. StartOfSearch(from) + i * Minute = (p + 1 + i) * Minute
    BY <1>1, <1>2, <1>3, <1>4
  <2>2. p + 1 + i \in Nat
    BY <1>2
  <2> HIDE DEF p
  <2> QED
    BY <2>1, <2>2, <1>1, MultipleIsWhole
<1>6. ASSUME NEW t \in Nat, t > from, t % Minute = 0
      PROVE  \E i \in Nat : t = StartOfSearch(from) + i * Minute
  <2> DEFINE q == t \div Minute
  <2>1. q \in Nat /\ t = q * Minute
    BY <1>1, <1>6, Rounding
  <2> HIDE DEF q
  <2>2. p * Minute < q * Minute
    BY <1>1, <1>2, <1>4, <1>6, <2>1
  <2>3. p < q
    BY <2>1, <2>2, <1>1, <1>2, Multiples
  <2>4. t = StartOfSearch(from) + (q - p - 1) * Minute
    BY <1>1, <1>2, <1>3, <1>4, <2>1
  <2> QED
    BY <2>1, <2>3, <2>4, <1>2
<1> QED
  BY <1>1, <1>2, <1>3, <1>4, <1>5, <1>6

\* The search for the next minute of a cron expression: what it finds is the first minute
\* after the instant that matches, and it finds none only when no minute of the 366 days
\* after the instant does.
LEMMA CronSearch ==
  ASSUME NEW cron, NEW zone, NEW from \in Nat
  PROVE  LET first == NextCronOccurrence(cron, zone, from)
             due(t) == t % Minute = 0 /\ MatchesCron(cron, DateParts(t, zone))
         IN \/ first = Never /\ \A t \in (from + 1)..(from + 366 * Day) : ~due(t)
            \/ /\ first \in Nat /\ first > from /\ due(first)
               /\ \A t \in (from + 1)..(first - 1) : ~due(t)
<1> DEFINE start == StartOfSearch(from)
           at(i) == start + i * Minute
           matching(t) == MatchesCron(cron, DateParts(t, zone))
           due(t) == t % Minute = 0 /\ matching(t)
           least(i) == matching(at(i)) /\ \A j \in 0..(i - 1) : ~matching(at(j))
           N == {i \in 0..(SearchMinutes - 1) : matching(at(i))}
           first == NextCronOccurrence(cron, zone, from)
<1>1. /\ Minute \in Nat \ {0} /\ SearchMinutes \in Nat /\ Day \in Nat
      /\ SearchMinutes * Minute = 366 * Day
  BY Units
<1>2. /\ start \in Nat /\ from < start
      /\ \A i \in Nat : at(i) % Minute = 0
      /\ \A t \in Nat : (t > from /\ t % Minute = 0) => \E i \in Nat : t = at(i)
  BY SearchStart
<1>3. \A i \in Nat : at(i) \in Nat /\ at(i) > from /\ at(i) = start + i * Minute
  BY <1>1, <1>2
<1>4. first = IF \E i \in 0..(SearchMinutes - 1) : matching(at(i))
              THEN start + Minute * (CHOOSE i \in 0..(SearchMinutes - 1) : least(i)) ELSE Never
  BY DEF NextCronOccurrence
\* A due time after the instant is one of the minutes of the search, and their order is kept.
<1>5. \A t \in Nat : (t > from /\ due(t)) => \E i \in Nat : t = at(i) /\ matching(at(i))
  BY <1>2
<1>6. ASSUME NEW i \in Nat, NEW j \in Nat, at(i) < at(j)
      PROVE  i < j
  <2> HIDE DEF start, matching
  <2>1. i * Minute \in Int /\ j * Minute \in Int
    BY <1>1, Multiples
  <2>2. i * Minute < j * Minute
    BY <1>2, <1>6, <2>1
  <2> QED
    BY <1>1, <2>2, Multiples
<1>7. \A i \in Nat : matching(at(i)) => due(at(i))
  BY <1>2
<1> HIDE DEF start, matching, first
<1>8. CASE N = {}
  <2>1. first = Never
    BY <1>4, <1>8
  <2>2. ASSUME NEW t \in (from + 1)..(from + 366 * Day), due(t)
        PROVE  FALSE
    <3>1. t \in Nat /\ t > from /\ t <= from + 366 * Day
      BY <1>1
    <3>2. PICK i \in Nat : t = at(i) /\ matching(at(i))
      BY <1>5, <2>2, <3>1
    <3>3. i * Minute < SearchMinutes * Minute
      BY <1>1, <1>2, <3>1, <3>2
    <3>4. i < SearchMinutes
      BY <1>1, <3>3, Multiples
    <3> HIDE DEF at
    <3>5. i \in N
      BY <1>1, <3>2, <3>4
    <3> QED
      BY <1>8, <3>5
  <2> QED
    BY <2>1, <2>2 DEF first, matching
<1>9. CASE N # {}
  <2>1. N \subseteq Nat
    BY <1>1
  <2>2. PICK n \in N : \A i \in N : n <= i
    BY <1>9, <2>1, FirstExists
  <2> DEFINE c == CHOOSE i \in 0..(SearchMinutes - 1) : least(i)
  <2> HIDE DEF at
  <2>3. n \in 0..(SearchMinutes - 1) /\ matching(at(n))
    OBVIOUS
  <2>4. ASSUME NEW j \in 0..(n - 1) PROVE ~matching(at(j))
    <3>1. j \in 0..(SearchMinutes - 1) /\ ~(n <= j)
      BY <1>1, <2>3
    <3> QED
      BY <2>2, <3>1
  <2>5. c \in 0..(SearchMinutes - 1) /\ least(c)
    BY <2>3, <2>4
  <2>6. first = start + Minute * c
    BY <1>4, <2>3
  <2> HIDE DEF c
  <2>7. c \in Nat /\ matching(at(c)) /\ \A j \in 0..(c - 1) : ~matching(at(j))
    BY <1>1, <2>5
  <2> HIDE DEF least, N
  <2>8. first = at(c)
    BY <1>1, <1>2, <1>3, <2>6, <2>7
  <2>9. first \in Nat /\ first > from /\ due(first)
    BY <1>3, <1>7, <2>7, <2>8
  <2>10. ASSUME NEW t \in (from + 1)..(first - 1), due(t)
         PROVE  FALSE
    <3>1. t \in Nat /\ t > from /\ t < first
      BY <2>9
    <3>2. PICK i \in Nat : t = at(i) /\ matching(at(i))
      BY <1>5, <2>10, <3>1
    <3>3. i < c
      BY <1>6, <2>7, <2>8, <3>1, <3>2
    <3>4. i \in 0..(c - 1)
      BY <2>7, <3>3
    <3> QED
      BY <2>7, <3>2, <3>4
  <2> QED
    BY <2>9, <2>10 DEF first, matching
<1> QED
  BY <1>8, <1>9

\* A year is at most as long as the search.
LEMMA YearFitsSearch ==
  ASSUME NEW t \in Nat
  PROVE  YearAfter(t) \in Nat /\ YearAfter(t) <= t + 366 * Day
<1> DEFINE days == IF \E d \in (t \div Day + 1)..(t \div Day + 365) :
                         Calendar[d].month = 2 /\ Calendar[d].dayOfMonth = 29 THEN 366 ELSE 365
<1>1. Day \in Nat
  BY Units
<1>2. YearAfter(t) = t + days * Day
  BY DEF YearAfter
<1>3. days \in {365, 366}
  OBVIOUS
<1> HIDE DEF days
<1> QED
  BY <1>1, <1>2, <1>3

\* What a rule runs at next is the first of its times after the instant.
LEMMA RuleSearch ==
  ASSUME NEW rule, rule.occurrences \subseteq Int, NEW from \in Nat
  PROVE  LET first == NextRRuleOccurrence(rule, from)
         IN \/ first = Never /\ \A t \in Int : t > from => t \notin rule.occurrences
            \/ /\ first \in Nat /\ first > from /\ first \in rule.occurrences
               /\ \A t \in Int : (t > from /\ t < first) => t \notin rule.occurrences
<1> DEFINE later == {t \in rule.occurrences : t > from}
           first == NextRRuleOccurrence(rule, from)
<1>1. CASE later = {}
  BY <1>1 DEF NextRRuleOccurrence
<1>2. CASE later # {}
  <2>1. later \subseteq Nat
    OBVIOUS
  <2>2. \E t \in later : \A u \in later : t <= u
    BY <1>2, <2>1, FirstExists
  <2>3. first = CHOOSE t \in later : \A u \in later : t <= u
    BY <1>2 DEF NextRRuleOccurrence
  <2>4. first \in later /\ \A u \in later : first <= u
    BY <2>2, <2>3
  <2> QED
    BY <2>1, <2>4
<1> QED
  BY <1>1, <1>2

\* Storing a schedule gives a rule a zone and leaves its kind, its expression and its
\* times alone.
LEMMA StoredKeeps ==
  ASSUME NEW x \in Schedules, NEW zone
  PROVE  /\ x.kind # "rrule" => Stored(x, zone) = x
         /\ x.kind = "rrule" => /\ Stored(x, zone).kind = "rrule"
                                /\ Stored(x, zone).rule.occurrences = x.rule.occurrences
                                /\ x.rule.occurrences \subseteq Int
<1>1. CASE x.kind = "rrule"
  <2>1. /\ "kind" \in DOMAIN x /\ "rule" \in DOMAIN x /\ "occurrences" \in DOMAIN x.rule
        /\ x.rule.occurrences \subseteq Int
    BY <1>1, RulesAssumption
  <2>2. NormalizeRRule(x.rule, zone).occurrences = x.rule.occurrences
    BY <2>1 DEF NormalizeRRule
  <2>3. Stored(x, zone) = [x EXCEPT !.rule = NormalizeRRule(x.rule, zone)]
    BY <1>1 DEF Stored
  <2> QED
    BY <1>1, <2>1, <2>2, <2>3
<1>2. CASE x.kind # "rrule"
  BY <1>2 DEF Stored
<1> QED
  BY <1>1, <1>2

\* The next run of every cron expression and every rule, in any zone and from any instant, is
\* the first time its schedule names, and computing it fails only when there is none for a
\* year (computeInitialNextRunAt, computeNextRunAfterOccurrence).
THEOREM NextRunCorrect == NextRunIsFirst
<1> SUFFICES ASSUME NEW x \in Schedules, NEW zone \in Zones, NEW from \in Instants,
                    x.kind # "once", ValidSchedule(Stored(x, zone), zone)
             PROVE  LET s == Stored(x, zone)
                        first == InitialNextRunAt(s, zone, from)
                        nothingDue(a, b) == \A t \in a..b : ~DueAt(s, zone, t)
                    IN /\ NextRunAfterOccurrence(s, zone, from) =
                            IF first = Never THEN Never ELSE [enabled |-> TRUE, nextRunAt |-> first]
                       /\ IF first = Never
                          THEN nothingDue(from + 1, YearAfter(from))
                          ELSE /\ first > from /\ DueAt(s, zone, first)
                               /\ nothingDue(from + 1, first - 1)
  BY DEF NextRunIsFirst
<1> DEFINE s == Stored(x, zone)
           first == InitialNextRunAt(s, zone, from)
<1>1. from \in Nat /\ Never \notin Int
  BY ScheduleAssumption
<1>2. x.kind \in {"cron", "rrule"}
  BY RulesAssumption
<1>3. s.kind = x.kind
  BY <1>2, StoredKeeps
<1>4. first = NextOccurrence(s, zone, from)
  BY <1>2, <1>3 DEF InitialNextRunAt
<1>5. NextRunAfterOccurrence(s, zone, from) =
        IF first = Never THEN Never ELSE [enabled |-> TRUE, nextRunAt |-> first]
  BY <1>2, <1>3, <1>4 DEF NextRunAfterOccurrence
<1>6. YearAfter(from) \in Nat /\ YearAfter(from) <= from + 366 * Day /\ Day \in Nat
  BY <1>1, YearFitsSearch, Units
<1>7. CASE x.kind = "cron"
  <2>1. first = NextCronOccurrence(s.cron, zone, from)
    BY <1>3, <1>4, <1>7 DEF NextOccurrence
  <2>2. \A t : DueAt(s, zone, t) <=> t % Minute = 0 /\ MatchesCron(s.cron, DateParts(t, zone))
    BY <1>3, <1>7 DEF DueAt
  <2> HIDE DEF s, first
  <2>3. \/ first = Never /\ \A t \in (from + 1)..(from + 366 * Day) : ~DueAt(s, zone, t)
        \/ /\ first \in Nat /\ first > from /\ DueAt(s, zone, first)
           /\ \A t \in (from + 1)..(first - 1) : ~DueAt(s, zone, t)
    BY <1>1, <2>1, <2>2, CronSearch
  <2> QED
    BY <1>1, <1>5, <1>6, <2>3 DEF s, first
<1>8. CASE x.kind = "rrule"
  <2>1. first = NextRRuleOccurrence(s.rule, from)
    BY <1>3, <1>4, <1>8 DEF NextOccurrence
  <2>2. \A t : DueAt(s, zone, t) <=> t \in s.rule.occurrences
    BY <1>3, <1>8 DEF DueAt
  <2>3. s.rule.occurrences \subseteq Int
    BY <1>8, StoredKeeps
  <2> HIDE DEF s, first
  <2>4. \/ first = Never /\ \A t \in Int : t > from => ~DueAt(s, zone, t)
        \/ /\ first \in Nat /\ first > from /\ DueAt(s, zone, first)
           /\ \A t \in Int : (t > from /\ t < first) => ~DueAt(s, zone, t)
    BY <1>1, <2>1, <2>2, <2>3, RuleSearch
  <2> QED
    BY <1>1, <1>5, <1>6, <2>4 DEF s, first
<1> QED
  BY <1>2, <1>7, <1>8

\* So it is for the tasks that are there, in every reachable state.
THEOREM EveryNextRunIsFirst == Spec => []NextRunIsFirstDue
<1>1. NextRunIsFirstDue
  BY NextRunCorrect DEF NextRunIsFirstDue
<1> QED
  BY <1>1, PTL
================================================================================
