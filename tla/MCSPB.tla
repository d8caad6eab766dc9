------------------------------- MODULE MCSPB -------------------------------
(* The instance of SPB that TLC checks: four parties, F = 1.  What differs *)
(* between deployments is in MCSPB.cfg.                                    *)
EXTENDS SPB
=============================================================================
