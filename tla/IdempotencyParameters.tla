----------------------- MODULE IdempotencyParameters ------------------------
(* The parameters of Idempotency, apart from it so that a module which puts it *)
(* beside other components can share and check them.                         *)
EXTENDS FiniteSets

CONSTANTS Retries,    \* the first request with a key and its retries
          Nobody

ASSUME RetriesAssumption == IsFiniteSet(Retries) /\ Nobody \notin Retries
=============================================================================
