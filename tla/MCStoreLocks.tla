---------------------------- MODULE MCStoreLocks ---------------------------
(***************************************************************************)
(* Instances of StoreLocks for TLC: the constants are all model values and *)
(* given in the cfg files.                                                 *)
(***************************************************************************)
EXTENDS StoreLocks
=============================================================================
