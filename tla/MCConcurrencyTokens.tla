------------------------- MODULE MCConcurrencyTokens -------------------------
(* Three requests of two tenants compete for the tokens of one pool. *)
EXTENDS ConcurrencyTokens, TLC

CONSTANTS a1, a2, b1, A, B

MCTenantOf == (a1 :> A) @@ (a2 :> A) @@ (b1 :> B)
=============================================================================
