------------------------------ MODULE MCStateFile ------------------------------
(***************************************************************************)
(* The state file for TLC.                                                 *)
(***************************************************************************)
EXTENDS StateFile

CONSTANT alice
================================================================================
