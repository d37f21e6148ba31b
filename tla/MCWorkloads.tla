----------------------------- MODULE MCWorkloads -----------------------------
(***************************************************************************)
(* The instance of WorkloadController for TLC.                             *)
(***************************************************************************)
EXTENDS WorkloadController
=============================================================================
