-------------------------- MODULE MC_BuildService --------------------------
(* Small instances of BuildService for TLC.                                *)
EXTENDS BuildService, TLC

CONSTANTS b1, k1, r1, r2, h1

MC_OneHandlerHome == (h1 :> r1)
=============================================================================
