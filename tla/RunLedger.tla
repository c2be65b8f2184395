------------------------------- MODULE RunLedger -------------------------------
(***************************************************************************)
(* What the run subsystem promises its callers, without saying how: a run  *)
(* is accepted at most once per idempotency key, is executed by at most    *)
(* one execution at a time and only while it has no outcome, and gets its  *)
(* outcome once, from an execution.  An execution can be lost (the process *)
(* stops, or the outcome cannot be written); the run is then still owed an *)
(* outcome and may be executed again.                                      *)
(***************************************************************************)
EXTENDS Naturals

CONSTANTS
  Runs,     \* run ids
  Keys,     \* idempotency keys
  NoKey,    \* a request without an idempotency key
  NoRun     \* an idempotency key nobody used yet

VARIABLES
  state,      \* [Runs -> {"absent", "running", "succeeded", "failed"}]
  executing,  \* the runs an execution is working on
  owner       \* [Keys -> Runs \cup {NoRun}]: the run a key stands for

ledgerVars == <<state, executing, owner>>

Outcomes == {"succeeded", "failed"}

Init ==
  /\ state = [r \in Runs |-> "absent"]
  /\ executing = {}
  /\ owner = [k \in Keys |-> NoRun]

\* A request becomes a run; a key is spent on the first run it names.
Accept(r, k) ==
  /\ state[r] = "absent"
  /\ state' = [state EXCEPT ![r] = "running"]
  /\ \/ k = NoKey /\ owner' = owner
     \/ /\ k \in Keys
        /\ owner[k] = NoRun
        /\ owner' = [owner EXCEPT ![k] = r]
  /\ UNCHANGED executing

\* An execution begins, on a run nobody is executing and that has no outcome.
Start(r) ==
  /\ state[r] = "running"
  /\ r \notin executing
  /\ executing' = executing \cup {r}
  /\ UNCHANGED <<state, owner>>

\* The execution's outcome becomes the run's, for good.
Finish(r, outcome) ==
  /\ r \in executing
  /\ state' = [state EXCEPT ![r] = outcome]
  /\ executing' = executing \ {r}
  /\ UNCHANGED owner

\* The execution ends and its outcome could not be recorded.
Abandon(r) ==
  /\ r \in executing
  /\ executing' = executing \ {r}
  /\ UNCHANGED <<state, owner>>

\* The process stops: every execution is lost, the ledger is not.
Halt ==
  /\ executing' = {}
  /\ UNCHANGED <<state, owner>>

Next ==
  \/ \E r \in Runs, k \in Keys \cup {NoKey} : Accept(r, k)
  \/ \E r \in Runs : Start(r) \/ Abandon(r)
  \/ \E r \in Runs, outcome \in Outcomes : Finish(r, outcome)
  \/ Halt

Spec == Init /\ [][Next]_ledgerVars
================================================================================
