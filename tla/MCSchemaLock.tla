----------------------------- MODULE MCSchemaLock -----------------------------
(* TLC instances of SchemaLock. *)
EXTENDS SchemaLock

CONSTANTS r1, r2

NoSkew == [i \in Runs |-> 0]
OneAhead == [i \in Runs |-> IF i = r2 THEN 3 ELSE 0]
=============================================================================
