--------------------------- MODULE MCUsageLimiter ---------------------------
(***************************************************************************)
(* An instance of UsageLimiter for TLC: two threads of a batch and one of  *)
(* a single refresh, which shares an account with the batch.               *)
(***************************************************************************)
EXTENDS UsageLimiter, TLC

CONSTANTS a1, a2, r1, r2

BatchAndSingle == r1 :> {a1, a2} @@ r2 :> {a1}
=============================================================================
