------------------------------- MODULE MCKernel -------------------------------
EXTENDS Kernel

(***************************************************************************)
(* Two requests a minute, a minute of one tick: a bucket serves two calls  *)
(* between ticks, and under guardian's headroom only one.                  *)
(***************************************************************************)
MCRpm == [k \in Keys |-> 2]
=============================================================================
