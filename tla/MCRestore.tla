------------------------------ MODULE MCRestore ------------------------------
(***************************************************************************)
(* The instance of Restore for TLC: one client write, three backups (two   *)
(* in RestoreAcknowledged.cfg and RestorePartial.cfg), one kill.           *)
(***************************************************************************)
EXTENDS Restore
=============================================================================
