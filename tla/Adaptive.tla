------------------------------ MODULE Adaptive ------------------------------
(***************************************************************************)
(* What the auto-pilot's engines make of a snapshot, and what their        *)
(* reversible actions do to the scheduler (internal/autopilot: adaptive,   *)
(* forecast, llm, tier, runtime; effectiveConcurrency of the scheduler).   *)
(* The controller keeps the concurrency limits it was started with; the    *)
(* scheduler's own are changed by PUT /settings.                           *)
(*                                                                         *)
(* The engines reckon in fractions, here in thousandths; products are      *)
(* rounded down to a thousandth.  All keys are enabled.                    *)
(***************************************************************************)
EXTENDS Integers, FiniteSets

CONSTANTS
  PilotKeys,     (* the upstream keys                                      *)
  Measurements,  (* SuccessRate of the health tracker in tenths of a       *)
                 (* percent: 0 also without traffic                        *)
  FailureRuns,   (* consecutive failures a key may have                    *)
  Inflights,     (* requests in flight at a tick                           *)
  Demands,       (* forecasts of the next minute's requests                *)
  Asked,         (* concurrency a language model may ask for               *)
  DefaultAtStart, MaxAtStart,  (* the limits the controller was given      *)
  LimitsLater,   (* <<default, max>> an administrator may set              *)
  MaxTicks       (* bound: decisions taken                                 *)

ASSUME AdaptiveAssumption ==
  /\ IsFiniteSet(PilotKeys) /\ PilotKeys # {}
  /\ Measurements \subseteq 0..1000
  /\ FailureRuns \cup Inflights \cup Demands \cup Asked \subseteq Nat
  /\ DefaultAtStart \in Nat \ {0} /\ MaxAtStart \in Nat /\ MaxAtStart >= DefaultAtStart
  /\ \A l \in LimitsLater : l[1] \in Nat \ {0} /\ l[2] \in Nat /\ l[2] >= l[1]
  /\ MaxTicks \in Nat

VARIABLES
  pid,       (* the adaptive engine's memory                               *)
  override,  (* Runtime.concurrency, 0 when there is none                  *)
  boost,     (* Runtime.weightBoost in percent                             *)
  limits,    (* the scheduler's <<default, max>>                           *)
  ticks,     (* decisions so far                                           *)
  last       (* history: the last adaptive decision                        *)

adaptiveVars == <<pid, override, boost, limits, ticks, last>>

-------------------------------------------------------------------------------
Clamp(v, lo, hi) == IF v < lo THEN lo ELSE IF v > hi THEN hi ELSE v

Least(a, b) == IF a < b THEN a ELSE b

Snapshots == [rate : [PilotKeys -> Measurements], consec : [PilotKeys -> FailureRuns],
              status : [PilotKeys -> {"active", "half_open", "circuit_open"}],
              inflight : Inflights]

(* AvailableKeyCount counts these. *)
ActiveKeys(s) == {k \in PilotKeys : s.status[k] = "active"}

(* What the field is said to hold, a fraction. *)
MeasuredAsFraction(r) == r

(* The success rate as the engines take it: the tracker's percentage goes  *)
(* into a field that is said to hold a fraction (types.go:49).             *)
Measured(r) == 100 * r

(* aggregateSuccessRate. *)
Sums(rate) ==
  LET sum[S \in SUBSET PilotKeys] ==
        IF S = {} THEN 0 ELSE LET k == CHOOSE k \in S : TRUE IN rate[k] + sum[S \ {k}]
  IN  sum

GlobalRate(rate) == Sums(rate)[PilotKeys] \div Cardinality(PilotKeys)

ClassifyTier(n) ==
  CASE n <= 0  -> "unknown" [] n \in 1..8 -> "low" [] n \in 9..25 -> "mid"
    [] n \in 26..75 -> "high" [] OTHER -> "peak"

ByKeys(tier, n) ==
  IF n = 0 THEN 1
  ELSE Clamp(CASE tier = "low"  -> Least(n, 5)      [] tier = "mid"  -> Least(n, 10)
               [] tier = "high" -> Least(2 * n, 50) [] tier = "peak" -> Least(4 * n, 100)
               [] OTHER -> n, 1, MaxAtStart)

(* The baseline that the PID corrects. *)
Baseline(s) ==
  IF ClassifyTier(s.inflight) # "unknown" /\ ActiveKeys(s) # {}
  THEN ByKeys(ClassifyTier(s.inflight), Cardinality(ActiveKeys(s))) ELSE DefaultAtStart

(* The controller's idea of the concurrency in force. *)
Current == IF override > 0 THEN Least(override, MaxAtStart) ELSE DefaultAtStart

(* The scheduler's: what a request is dispatched with. *)
EffectiveConcurrency == IF override > 0 THEN Least(override, limits[2]) ELSE limits[1]

-------------------------------------------------------------------------------
(* Smoothing, error, integral with its limit, derivative. *)
Updated(p, rate) ==
  LET ewma == IF p.used THEN (3 * rate + 7 * p.ewma) \div 10 ELSE rate
      err  == 990 - ewma
  IN  [used |-> TRUE, ewma |-> ewma, err |-> err,
       integral |-> Clamp(p.integral + err, -10000, 10000),
       output |-> 50 * err + 5 * Clamp(p.integral + err, -10000, 10000) + 20 * (err - p.err)]

Target(p, base) ==
  (Clamp(1000 * base - (p.output * MaxAtStart) \div 200, 1000, 1000 * MaxAtStart) + 500) \div 1000

(* Runtime.SetWeightBoost: nonsense and "no change" remove the entry. *)
Boosted(b, weak, percent) ==
  [k \in PilotKeys |-> IF k \notin weak THEN b[k]
                       ELSE IF percent <= 0 \/ percent \in 99..101 THEN 100 ELSE percent]

Weak(s) ==
  {k \in PilotKeys : /\ s.status[k] # "circuit_open"
                     /\ Measured(s.rate[k]) < 500 \/ s.consec[k] >= 3}

(* execute: a value below one is taken for one. *)
Execute(n) == override' = IF n < 1 THEN 1 ELSE n

(* Without any success nothing is done.  A key is only ever damped. *)
AdaptiveTick(s) ==
  /\ GlobalRate(s.rate) > 0
  /\ LET p == Updated(pid, Measured(GlobalRate(s.rate)))
         n == Target(p, Baseline(s))
     IN  /\ pid' = p
         /\ IF n # Current THEN Execute(n) ELSE override' = override
         /\ last' = [rate |-> GlobalRate(s.rate), base |-> Baseline(s), target |-> n]
  /\ boost' = Boosted(boost, Weak(s), 10)

(* The keys that count, all if none is active, and their room at 40        *)
(* requests a minute each.                                                 *)
Counted(s) == IF ActiveKeys(s) = {} THEN PilotKeys ELSE ActiveKeys(s)

Room(s) == 40 * Cardinality(Counted(s))

(* Many clients and a forecast demand d below 80 percent of the room.      *)
ScalesUp(s, d) ==
  LET more == ByKeys(ClassifyTier(s.inflight), Cardinality(Counted(s)))
  IN  /\ 10 * d < 8 * Room(s) /\ ClassifyTier(s.inflight) \in {"high", "peak"}
      /\ more > Current
      /\ Execute(more)
      /\ UNCHANGED <<pid, boost, last>>

Throttles(s, d) ==
  LET fewer == IF Room(s) >= d THEN Current
               ELSE (2 * Current * Room(s) + d) \div (2 * d)
  IN  /\ 10 * d >= 8 * Room(s)
      /\ Clamp(fewer, 1, Current) < Current
      /\ Execute(fewer)
      /\ UNCHANGED <<pid, boost, last>>

(* Without a model behind it the language model's engine has two rules. *)
StubTick(s) ==
  LET tier == ByKeys(ClassifyTier(s.inflight), Cardinality(ActiveKeys(s)))
  IN  /\ Measured(GlobalRate(s.rate)) \in 1..799
      /\ Execute(Least(tier, DefaultAtStart))
      /\ UNCHANGED <<pid, boost, last>>

(* With one, its tool limits what it may ask for. *)
ModelTick(n, k, percent) ==
  /\ Execute(Clamp(n, 1, MaxAtStart))
  /\ boost' = Boosted(boost, {k}, percent)
  /\ UNCHANGED <<pid, last>>

-------------------------------------------------------------------------------
AdaptiveInit ==
  /\ pid = [used |-> FALSE, ewma |-> 0, err |-> 0, integral |-> 0, output |-> 0]
  /\ override = 0
  /\ boost = [k \in PilotKeys |-> 100]
  /\ limits = <<DefaultAtStart, MaxAtStart>>
  /\ ticks = 0
  /\ last = [rate |-> 1000, base |-> DefaultAtStart, target |-> DefaultAtStart]

Tuned ==
  /\ ticks < MaxTicks
  /\ ticks' = ticks + 1
  /\ \/ \E s \in Snapshots : \/ AdaptiveTick(s) \/ StubTick(s)
                             \/ \E d \in Demands : ScalesUp(s, d) \/ Throttles(s, d)
     \/ \E n \in Asked, k \in PilotKeys, percent \in {0, 10, 100, 200} : ModelTick(n, k, percent)
  /\ UNCHANGED limits

(* UpdateConfig by PUT /settings. *)
LimitsChange(l) ==
  /\ l # limits
  /\ limits' = l
  /\ UNCHANGED <<pid, override, boost, ticks, last>>

AdaptiveNext == Tuned \/ \E l \in LimitsLater : LimitsChange(l)

AdaptiveSpec == AdaptiveInit /\ [][AdaptiveNext]_adaptiveVars

-------------------------------------------------------------------------------
(* Whichever engine asks, an override stays within the maximum that the    *)
(* controller was given.                                                   *)
AdaptiveTypeOK ==
  /\ override \in 0..MaxAtStart
  /\ boost \in [PilotKeys -> {10, 100, 200}]
  /\ limits \in LimitsLater \cup {<<DefaultAtStart, MaxAtStart>>}
  /\ ticks \in 0..MaxTicks

(* What the forecast engine says (forecast.go:117, 128): close to capacity *)
(* it lowers the concurrency, and acts only if its value is really lower   *)
(* than the one in force.                                                  *)
ThrottlingLowers ==
  [][\A s \in Snapshots, d \in Demands :
       Throttles(s, d) => EffectiveConcurrency' <= EffectiveConcurrency]_adaptiveVars

(* The engine's promise (adaptive.go:80, adaptive_test.go:68): where fewer *)
(* than half of the requests succeed, it does not go above its baseline.   *)
LowRatesBackOff == last.rate < 500 => last.target <= last.base
=============================================================================
