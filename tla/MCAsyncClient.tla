--------------------------- MODULE MCAsyncClient ---------------------------
(***************************************************************************)
(* Finite instances of AsyncClient.                                        *)
(***************************************************************************)
EXTENDS AsyncClient

CONSTANTS r1, r2, r3

\* One request that may be retried twice, the others never.
MixedAttempts == [r \in Requests |-> IF r = r1 THEN 2 ELSE 0]
=============================================================================
