------------------------------- MODULE MCJwks -------------------------------
(***************************************************************************)
(* A small instance of Jwks: two requests race, the realm rotates once.    *)
(***************************************************************************)
EXTENDS Jwks, TLC

CONSTANTS k1, k2, r1, r2

MCKeys     == {k1, k2}
MCRequests == {r1, r2}

MCTokens   == [key : MCKeys, claims : {TRUE}, role : BOOLEAN]

Symmetric == Permutations(MCKeys) \cup Permutations(MCRequests)

============================================================================
