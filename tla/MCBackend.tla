------------------------------ MODULE MCBackend ------------------------------
(***************************************************************************)
(* Backend with small constants, given by the .cfg file.                   *)
(***************************************************************************)
EXTENDS Backend, TLC

CONSTANTS v1, o1, f1, r1, q1, e1, e2
=============================================================================
