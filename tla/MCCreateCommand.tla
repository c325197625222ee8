-------------------------- MODULE MCCreateCommand --------------------------
(* The instance of CreateCommand that TLC checks: every request.           *)
EXTENDS CreateCommand

AllRequests == Request
=============================================================================
