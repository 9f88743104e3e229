----------------------------- MODULE MCAdaptive -----------------------------
(***************************************************************************)
(* The engines alone, with the two promises that they do not keep.         *)
(***************************************************************************)
EXTENDS Adaptive

MCLimits == {<<2, 4>>, <<1, 1>>, <<3, 8>>}

(* An administrator lowers the default; the maximum stays. *)
LowerDefault == {<<1, 4>>}
=============================================================================
