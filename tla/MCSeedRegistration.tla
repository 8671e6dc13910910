-------------------------- MODULE MCSeedRegistration --------------------------
(* Instances of SeedRegistration for TLC.                                  *)
EXTENDS SeedRegistration

CONSTANT a1

OneSeed == <<a1>>
=============================================================================
