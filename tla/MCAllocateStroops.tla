-------------------------- MODULE MCAllocateStroops --------------------------
(***************************************************************************)
(* AllocateStroops with small constants, given by the .cfg file.           *)
(***************************************************************************)
EXTENDS AllocateStroops
=============================================================================
