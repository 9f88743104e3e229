------------------------------ MODULE MCProbes ------------------------------
(***************************************************************************)
(* A sweep and a test alone, with what the row is said to be.              *)
(***************************************************************************)
EXTENDS Probes
=============================================================================
