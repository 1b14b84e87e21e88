---------------------------- MODULE MCVerifyGold ----------------------------
(* VerifyGold with one or two exporting worker runs beside the verification. *)
EXTENDS VerifyGold

CONSTANTS worker, other, verifier

MCExporters == {worker, verifier}
MCTwoWorkers == {worker, other, verifier}

=============================================================================
