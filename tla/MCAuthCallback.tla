--------------------------- MODULE MCAuthCallback ---------------------------
(* AuthCallback with three requests and two codes. *)
EXTENDS AuthCallback

CONSTANTS r1, r2, r3, a, b

MCRequests == {r1, r2, r3}
MCCodes == {a, b}

=============================================================================
