----------------------------- MODULE MCElection -----------------------------
(* The instance of Election that TLC checks: four parties, F = 1.  What    *)
(* differs between deployments is in MCElection.cfg.                       *)
EXTENDS Election
=============================================================================
