--------------------------- MODULE MCIdempotency ---------------------------
(* Three requests with one key, the third with a different payload.        *)
EXTENDS Idempotency, TLC

CONSTANTS r1, r2, r3

MCRequests == {r1, r2, r3}
MCPayload == (r1 :> "a") @@ (r2 :> "a") @@ (r3 :> "b")
MCSymmetry == Permutations({r1, r2})
============================================================================
