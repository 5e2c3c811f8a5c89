------------------------------ MODULE MCOpenPR ------------------------------
(***************************************************************************)
(* OpenPR called again and again on two branches, with two values of the   *)
(* patched setting, so that calls meet their own and each other's remains. *)
(***************************************************************************)
EXTENDS OpenPR
=============================================================================
