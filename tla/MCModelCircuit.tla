---------------------------- MODULE MCModelCircuit ----------------------------
(* One slot of a kind is enough for every race of two kinds; two of sweeps *)
(* for the flag.                                                           *)
EXTENDS ModelCircuit
=============================================================================
