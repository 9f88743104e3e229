----------------------------- MODULE MCKernelLocks -----------------------------
EXTENDS KernelLocks

(* Two reservations and a report, while the strategy is changed and read.  *)
MixedKind ==
  [reserve1 |-> "reserve", reserve2 |-> "reserve", report1 |-> "report",
   put1 |-> "put_strategy", get1 |-> "get_strategy"]

(* Two operators change the strategy while a request is served: the        *)
(* choice of MCKernelLocksPuts.cfg.                                        *)
TwoPutsKind ==
  [reserve1 |-> "reserve", put1 |-> "put_strategy", put2 |-> "put_strategy"]

MixedChoice == [r \in DOMAIN MixedKind |-> "guardian"]

TwoPutsChoice ==
  [r \in DOMAIN TwoPutsKind |-> IF r = "put1" THEN "guardian" ELSE "fairshare"]
=============================================================================
