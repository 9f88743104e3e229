------------------------------- MODULE Breaker -------------------------------
(***************************************************************************)
(* What a circuit breaker promises to the gateway, whoever implements it:  *)
(* a tripped key is given to nobody until its trial is admitted, only a    *)
(* failed call trips a key, only a successful call closes one on trial,    *)
(* and a crash loses nothing but what had not reached the disk.  A caller  *)
(* that may bypass the breaker calls any key, and changes it only by the   *)
(* outcome.  Tokens, time and failure counts are left to implementations.  *)
(***************************************************************************)
EXTENDS Integers

CONSTANTS
  Keys,
  MayBypass   (* whether calls are also made that nobody admitted          *)

VARIABLES
  phase,   (* Keys -> Phases: the breaker that admission consults          *)
  kept,    (* Keys -> Phases: the phase a restart would load               *)
  calls    (* Keys -> Nat: calls made whose outcome is still unknown       *)

breakerVars == <<phase, kept, calls>>

Phases == {"active", "half_open", "circuit_open"}

(***************************************************************************)
(* A phase that changed is written to disk, except where the write failed. *)
(***************************************************************************)
Keep ==
  /\ kept' \in [Keys -> Phases]
  /\ \A k \in Keys : kept'[k] = kept[k] \/ kept'[k] = phase'[k]

BreakerInit ==
  /\ phase = [k \in Keys |-> "active"]
  /\ kept = phase
  /\ calls = [k \in Keys |-> 0]

(* Open keys in P go on trial; keys in S, none of them open now, serve. *)
Admit(P, S) ==
  /\ \A k \in P : phase[k] = "circuit_open"
  /\ phase' = [k \in Keys |-> IF k \in P THEN "half_open" ELSE phase[k]]
  /\ \A k \in S : phase'[k] # "circuit_open"
  /\ calls' = [k \in Keys |-> IF k \in S THEN calls[k] + 1 ELSE calls[k]]
  /\ Keep

(* A call that nobody admitted. *)
Bypass(k) ==
  /\ MayBypass
  /\ calls' = [j \in Keys |-> IF j = k THEN calls[j] + 1 ELSE calls[j]]
  /\ UNCHANGED <<phase, kept>>

(* Calls of the keys in R come back, those in F with a failure. *)
Learn(R, F) ==
  /\ \A k \in R : calls[k] > 0
  /\ calls' = [k \in Keys |-> IF k \in R THEN calls[k] - 1 ELSE calls[k]]
  /\ phase' \in [Keys -> Phases]
  /\ \A k \in Keys : phase'[k] # phase[k] =>
       \/ k \in F /\ phase'[k] = "circuit_open"
       \/ k \in R \ F /\ phase[k] = "half_open" /\ phase'[k] = "active"
  /\ Keep

(* The outcome of a call never reaches the breaker. *)
Forget(k) ==
  /\ calls[k] > 0
  /\ calls' = [j \in Keys |-> IF j = k THEN calls[j] - 1 ELSE calls[j]]
  /\ UNCHANGED <<phase, kept>>

Crash ==
  /\ phase' = kept
  /\ UNCHANGED <<kept, calls>>

BreakerNext ==
  \/ \E P, S \in SUBSET Keys : Admit(P, S)
  \/ \E R \in SUBSET Keys : \E F \in SUBSET R : Learn(R, F)
  \/ \E k \in Keys : Bypass(k)
  \/ \E k \in Keys : Forget(k)
  \/ Crash

BreakerSpec == BreakerInit /\ [][BreakerNext]_breakerVars
=============================================================================
