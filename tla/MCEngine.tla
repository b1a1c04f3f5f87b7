------------------------------ MODULE MCEngine ------------------------------
(* Engine with three processes, so that an abandoned kernel, an owned one  *)
(* and a third can meet, and two readiness attempts, so that a start both  *)
(* retries and gives up.                                                   *)
EXTENDS Engine

TwoAttempts == 2
=============================================================================
