--------------------------- MODULE MCOrchestrator ---------------------------
(* Orchestrator for TLC.  The sizes come from Batch.cfg: four cases, three   *)
(* sessions at a time, one OTP slot, and a pool that has a thread for each   *)
(* session or one too few, as with the default --conc 14 on a machine of up  *)
(* to nine cores (Python's default executor has min(32, cores + 4) threads). *)
EXTENDS Orchestrator
=============================================================================
