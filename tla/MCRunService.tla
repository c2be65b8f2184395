----------------------------- MODULE MCRunService -----------------------------
(***************************************************************************)
(* Small instances of RunService for TLC.  The requests are chosen for what *)
(* they share: two with one key and different payloads (and threads), one   *)
(* without a key in the thread of the first.                                *)
(***************************************************************************)
EXTENDS RunService

CONSTANTS t1, t2, hello, bye, k1

Request(thread, payload, key) ==
  [threadKey |-> thread, payload |-> payload, idempotencyKey |-> key]

\* A keyed request, another that reuses its key, and an unkeyed one behind it.
KeyReuse == {Request(t1, hello, k1), Request(t2, hello, k1), Request(t1, bye, NoKey)}
================================================================================
