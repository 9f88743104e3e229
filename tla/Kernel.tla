-------------------------------- MODULE Kernel --------------------------------
(***************************************************************************)
(* The authoritative control plane of the Rust sidecar (kernel-rs): the    *)
(* per-key circuit breakers and token buckets it holds in memory, the      *)
(* breaker rows it keeps in kernel.db, and the handlers that change them,  *)
(* POST /reserve and POST /report.  Each handler runs under the store      *)
(* mutex from its first read of this state to its last write, so it is one *)
(* action here; KernelLocks models the locks that make it so.              *)
(*                                                                         *)
(* Time is relative: a breaker holds the seconds left of its cooling (the  *)
(* code's cooling_until minus the wall clock) and Tick is one second.      *)
(* Token buckets are counted in 1/Minute of a token, Minute being the      *)
(* seconds in a minute, so that the refill of rpm/60 tokens a second is an *)
(* integer.                                                                *)
(***************************************************************************)
EXTENDS Integers, FiniteSets

CONSTANTS
  Keys,           (* upstream key ids, candidates come in ascending order  *)
  Strategies,     (* presets that may be active when a request reads them  *)
  Concurrencies,  (* fan-outs the gateway may ask for                      *)
  Rpm,            (* Keys -> requests a minute the gateway sends for a key *)
  Remainings,     (* values of X-RateLimit-Remaining a report may carry    *)
  Threshold,      (* consecutive failures that trip a key                  *)
  CooldownBase,   (* seconds of the first cooling                          *)
  MaxCooldown,    (* ... and of the longest: 600 in the code               *)
  Minute,         (* seconds in a minute: 60 in the code                   *)
  ReportRpm,      (* rpm of a bucket that a report creates: 500 in the code*)
  MaxLag,         (* bound: seconds a handler may wait for the locks       *)
  MaxCalls,       (* bound: calls the gateway has out on one key           *)
  MaxConsec,      (* bound: consecutive failures counted on one key        *)
  DiskFails,      (* whether a write to kernel.db may fail                 *)
  FailOpen        (* whether the gateway calls on its own while it cannot  *)
                  (* reach the sidecar (KERNEL_FAIL_CLOSED=0)              *)

ASSUME KernelAssumption ==
  /\ Keys \subseteq Nat /\ IsFiniteSet(Keys)
  /\ Strategies # {} /\ Concurrencies \subseteq Int
  /\ Rpm \in [Keys -> Int] /\ Remainings \subseteq Nat
  /\ Threshold \in Nat \ {0} /\ CooldownBase \in Nat /\ MaxCooldown \in Nat
  /\ Minute \in Nat \ {0} /\ ReportRpm \in Nat \ {0}
  /\ MaxLag \in Nat /\ MaxCalls \in Nat /\ MaxConsec \in Nat
  /\ DiskFails \in BOOLEAN /\ FailOpen \in BOOLEAN

VARIABLES
  brk,     (* Keys -> Breaker: key_brk, the breakers in memory             *)
  saved,   (* Keys -> Breaker: table key_breakers of kernel.db             *)
  lost,    (* keys whose latest status change could not be written         *)
  cap,     (* Keys -> Nat: bucket capacity in tokens, 0 before it exists   *)
  tok,     (* Keys -> Nat: what the bucket holds, in 1/Minute of a token   *)
  out,     (* Keys -> Nat: calls reserved for the gateway, not yet settled *)
  stray    (* Keys -> Nat: calls it made without asking, not yet settled   *)

vars == <<brk, saved, lost, cap, tok, out, stray>>

-------------------------------------------------------------------------------
(***************************************************************************)
(* Breakers.  A key without an entry behaves as one with the default       *)
(* entry, which both handlers create on first use.                         *)
(***************************************************************************)
Status == {"active", "half_open", "circuit_open"}
Past == -MaxLag     (* any time that every pending request sees as expired *)
Breaker == [status : Status, consec : Nat, left : Int]
NewBreaker == [status |-> "active", consec |-> 0, left |-> Past]

(* b with n failures counted. *)
Counting(b, n) == [status |-> b.status, consec |-> n, left |-> b.left]

Longest(n) ==
  LET raw == CooldownBase * 2^n
  IN  IF raw \in CooldownBase..MaxCooldown THEN raw ELSE MaxCooldown

(* Seconds of cooling after consec failures: doubled past Threshold, capped. *)
Cooldown(consec) == Longest(consec - Threshold)

Trial == [status |-> "half_open", consec |-> 0, left |-> Past]

(* Mutant: a promoted key keeps the failures that tripped it. *)
PromoteKeepingCount(b) == [status |-> "half_open", consec |-> b.consec, left |-> Past]

(* Mutant: a promotion clears the cooling and leaves the key open. *)
PromoteForgetsStatus(b) == [status |-> b.status, consec |-> 0, left |-> Past]

(* A cooling that has run out turns into a trial with a clean count. *)
Promote(b) == Trial

(* Mutant: a success closes a tripped key as it closes one on trial. *)
SucceedAnywhere(b) == NewBreaker

(* A success clears the count and closes a key on trial, not a tripped one. *)
Succeed(b) ==
  IF b.status = "half_open" THEN NewBreaker ELSE Counting(b, 0)

(* Mutant: a late failure of an open key ends its cooling. *)
FailEndsCooling(b) ==
  IF b.consec + 1 >= Threshold
  THEN [status |-> "circuit_open", consec |-> b.consec + 1,
        left |-> IF b.status = "circuit_open" THEN 0 ELSE Cooldown(b.consec + 1)]
  ELSE Counting(b, b.consec + 1)

(* A failure counts, and from Threshold on it opens the key and restarts   *)
(* its cooling, also when the key is open already.                         *)
Fail(b) ==
  IF b.consec + 1 >= Threshold
  THEN [status |-> "circuit_open", consec |-> b.consec + 1, left |-> Cooldown(b.consec + 1)]
  ELSE Counting(b, b.consec + 1)

(* Mutant: the row is written before the breaker changes. *)
SaveBeforeChange(changed) ==
  \E W \in SUBSET changed :
    /\ DiskFails \/ W = changed
    /\ saved' = [k \in Keys |-> IF k \in W THEN brk[k] ELSE saved[k]]
    /\ lost' = (lost \cup changed) \ W

(* The rows of the keys whose status changed are upserted; a write that    *)
(* fails is ignored by the handler (`let _ =`) and the row stays behind.   *)
Save(changed) ==
  \E W \in SUBSET changed :
    /\ DiskFails \/ W = changed
    /\ saved' = [k \in Keys |-> IF k \in W THEN brk'[k] ELSE saved[k]]
    /\ lost' = (lost \cup changed) \ W

-------------------------------------------------------------------------------
(***************************************************************************)
(* Token buckets.                                                          *)
(***************************************************************************)
Capacity(rpm) == IF rpm > 1 THEN rpm ELSE 1

(* A bucket is created full, by whichever handler needs it first. *)
LazyCap(c, rpm) == IF c = 0 THEN Capacity(rpm) ELSE c
LazyTok(c, t, rpm) == IF c = 0 THEN Capacity(rpm) * Minute ELSE t

(* A call is admitted if the bucket stays at or above its reserved floor,  *)
(* capacity * (1 - headroom), with one token to spare; headroom in percent.*)
HasAdmission(c, t, headroom) ==
  100 * t >= c * Minute * (100 - headroom) + 100 * Minute

(* The upstream's own count is believed only when it is tighter. *)
Calibrate(t, rem) == IF rem * Minute < t THEN rem * Minute ELSE t

-------------------------------------------------------------------------------
(***************************************************************************)
(* Strategies: of a preset, what /reserve reads besides the ordering.      *)
(***************************************************************************)
Fanout(s) == IF s \in {"guardian", "fairshare"} THEN 1 ELSE 0
Headroom(s) == IF s = "guardian" THEN 80 ELSE 100

(* How many keys a reservation may take, before the viable ones are counted. *)
Width(s, conc) ==
  IF Fanout(s) > 0 THEN Fanout(s) ELSE IF conc > 1 THEN conc ELSE 1

-------------------------------------------------------------------------------
(***************************************************************************)
(* POST /reserve.  The handler reads the clock (lag seconds before it gets *)
(* the locks) and the strategy before it takes the locks.  Which of the    *)
(* viable keys come first depends on scores, on the gateway's in-flight    *)
(* counts or on the rotation: inputs this module leaves open, so that any  *)
(* selection of the right size is possible.                                *)
(***************************************************************************)
Cooling(k, lag) == brk[k].status = "circuit_open" /\ brk[k].left + lag > 0

Expired(C, lag) == {k \in C : brk[k].status = "circuit_open" /\ ~Cooling(k, lag)}

Promoted(C, lag) ==
  [k \in Keys |-> IF k \in Expired(C, lag) THEN Promote(brk[k]) ELSE brk[k]]

OnTrial(C, lag) == {k \in C : Promoted(C, lag)[k].status = "half_open"}

(* Mutant: the round's single trial is not counted. *)
PassAllTrials(C, lag) ==
  {k \in C : Promoted(C, lag)[k].status = "active"} \cup OnTrial(C, lag)

(* Mutant: cooling is not looked at. *)
PassCooling(C, lag) == C

(* Candidates the breakers let through: the active ones, and of those on   *)
(* trial the first in id order, whether or not it then has a token.        *)
Passed(C, lag) ==
  {k \in C : Promoted(C, lag)[k].status = "active"}
    \cup {k \in OnTrial(C, lag) : \A j \in OnTrial(C, lag) : k <= j}

Viable(C, lag, s) ==
  {k \in Passed(C, lag) :
     HasAdmission(LazyCap(cap[k], Rpm[k]), LazyTok(cap[k], tok[k], Rpm[k]), Headroom(s))}

(* Mutant: every viable key pays, the unselected too (the code before v0.13). *)
TakeTokensAllViable(P, V, S) ==
  tok' = [k \in Keys |->
            IF k \notin P THEN tok[k]
            ELSE LazyTok(cap[k], tok[k], Rpm[k]) - IF k \in V THEN Minute ELSE 0]

(* Of the keys P whose bucket was looked at, the selected S pay one token. *)
TakeTokens(P, V, S) ==
  tok' = [k \in Keys |->
            IF k \notin P THEN tok[k]
            ELSE LazyTok(cap[k], tok[k], Rpm[k]) - IF k \in S THEN Minute ELSE 0]

Selections(V, width) ==
  {S \in SUBSET V :
     Cardinality(S) = IF width < Cardinality(V) THEN width ELSE Cardinality(V)}

Reserve(C, conc, s, lag) ==
  LET P == Passed(C, lag)
      V == Viable(C, lag, s)
  IN  /\ brk' = Promoted(C, lag)
      /\ Save(Expired(C, lag))
      /\ cap' = [k \in Keys |-> IF k \in P THEN LazyCap(cap[k], Rpm[k]) ELSE cap[k]]
      /\ \E S \in Selections(V, Width(s, conc)) :
           /\ \A k \in S : out[k] + stray[k] < MaxCalls
           /\ TakeTokens(P, V, S)
           /\ out' = [k \in Keys |-> IF k \in S THEN out[k] + 1 ELSE out[k]]
      /\ UNCHANGED stray

(* A call the gateway makes on its own, /reserve being out of reach or too *)
(* slow to answer; its outcome is reported like that of any other call.    *)
Bypass(k) ==
  /\ FailOpen
  /\ out[k] + stray[k] < MaxCalls
  /\ stray' = [stray EXCEPT ![k] = @ + 1]
  /\ UNCHANGED <<brk, saved, lost, cap, tok, out>>

-------------------------------------------------------------------------------
(***************************************************************************)
(* POST /report.  The gateway reports each call of a request at most once, *)
(* all of them in one batch, the T among them that it made without asking  *)
(* like the others; rem is NoRem when the upstream sent no count.          *)
(***************************************************************************)
NoRem == -1
Item == [ok : BOOLEAN, rem : Remainings \cup {NoRem}]

Report(items, T) ==
  LET R == DOMAIN items
      Counted == {k \in R : items[k].rem # NoRem}
  IN  /\ \A k \in R : IF k \in T THEN stray[k] > 0 ELSE out[k] > 0
      /\ \A k \in R : items[k].ok \/ brk[k].consec < MaxConsec
      /\ brk' = [k \in Keys |->
                   IF k \notin R THEN brk[k]
                   ELSE IF items[k].ok THEN Succeed(brk[k]) ELSE Fail(brk[k])]
      /\ Save({k \in R : brk'[k].status # brk[k].status})
      /\ cap' = [k \in Keys |-> IF k \in Counted THEN LazyCap(cap[k], ReportRpm) ELSE cap[k]]
      /\ tok' = [k \in Keys |->
                   IF k \in Counted
                   THEN Calibrate(LazyTok(cap[k], tok[k], ReportRpm), items[k].rem)
                   ELSE tok[k]]
      /\ out' = [k \in Keys |-> IF k \in R \ T THEN out[k] - 1 ELSE out[k]]
      /\ stray' = [k \in Keys |-> IF k \in R \cap T THEN stray[k] - 1 ELSE stray[k]]

(* A call of whose outcome the sidecar never hears: the gateway stopped    *)
(* listening at its first success, or the report did not get through.      *)
Forget(k) ==
  /\ \/ out[k] > 0 /\ out' = [out EXCEPT ![k] = @ - 1] /\ UNCHANGED stray
     \/ stray[k] > 0 /\ stray' = [stray EXCEPT ![k] = @ - 1] /\ UNCHANGED out
  /\ UNCHANGED <<brk, saved, lost, cap, tok>>

(***************************************************************************)
(* The sidecar stops and starts again: breakers come back from kernel.db,  *)
(* buckets do not.  The gateway and its calls live on.                     *)
(***************************************************************************)
Restart ==
  /\ brk' = saved
  /\ lost' = {}
  /\ cap' = [k \in Keys |-> 0]
  /\ tok' = [k \in Keys |-> 0]
  /\ UNCHANGED <<saved, out, stray>>

(* A second passes: coolings run down, buckets refill up to their capacity. *)
Older(b) ==
  [status |-> b.status, consec |-> b.consec, left |-> IF b.left > Past THEN b.left - 1 ELSE Past]

(* Mutant: the refill is not clamped. *)
RefilledUnclamped(c, t) == t + c

Refilled(c, t) == IF t + c < c * Minute THEN t + c ELSE c * Minute

Tick ==
  /\ brk' = [k \in Keys |-> Older(brk[k])]
  /\ saved' = [k \in Keys |-> Older(saved[k])]
  /\ tok' = [k \in Keys |-> Refilled(cap[k], tok[k])]
  /\ UNCHANGED <<lost, cap, out, stray>>

-------------------------------------------------------------------------------
Init ==
  /\ brk = [k \in Keys |-> NewBreaker]
  /\ saved = brk
  /\ lost = {}
  /\ cap = [k \in Keys |-> 0]
  /\ tok = [k \in Keys |-> 0]
  /\ out = [k \in Keys |-> 0]
  /\ stray = out

Next ==
  \/ \E C \in SUBSET Keys, conc \in Concurrencies, s \in Strategies, lag \in 0..MaxLag :
       Reserve(C, conc, s, lag)
  \/ \E R \in SUBSET Keys : \E items \in [R -> Item], T \in SUBSET R : Report(items, T)
  \/ \E k \in Keys : Bypass(k)
  \/ \E k \in Keys : Forget(k)
  \/ Restart
  \/ Tick

Spec == Init /\ [][Next]_vars

(* Some request arrives with key k among its candidates. *)
ReserveWith(k) ==
  \E C \in SUBSET Keys, conc \in Concurrencies, s \in Strategies, lag \in 0..MaxLag :
    k \in C /\ Reserve(C, conc, s, lag)

(* Some request reports a batch with an outcome of key k in it. *)
ReportWith(k) ==
  \E R \in SUBSET Keys :
    k \in R /\ \E items \in [R -> Item], T \in SUBSET R : Report(items, T)

(***************************************************************************)
(* Time passes, requests keep naming every key (the gateway sends all its  *)
(* enabled keys with each request), and no upstream call lasts forever     *)
(* (each runs under the dispatch timeout), reported or not.                *)
(***************************************************************************)
FairSpec ==
  /\ Spec
  /\ WF_vars(Tick)
  /\ \A k \in Keys : WF_vars(ReserveWith(k)) /\ WF_vars(ReportWith(k) \/ Forget(k))

-------------------------------------------------------------------------------
(* Every variable keeps the shape its Rust type gives it; a bucket never   *)
(* holds more than its capacity.                                           *)
TypeOK ==
  /\ brk \in [Keys -> Breaker]
  /\ saved \in [Keys -> Breaker]
  /\ lost \in SUBSET Keys
  /\ cap \in [Keys -> Nat]
  /\ tok \in [Keys -> Nat]
  /\ out \in [Keys -> Nat]
  /\ stray \in [Keys -> Nat]
  /\ \A k \in Keys : tok[k] <= cap[k] * Minute

(* A key that serves, or that is on trial, has fewer than Threshold        *)
(* failures counted and no cooling left: whatever reports, restarts and    *)
(* failed writes came before, no key at its threshold is let through.      *)
ServingKeysAreHealthy ==
  \A k \in Keys : brk[k].status # "circuit_open" =>
    brk[k].consec < Threshold /\ brk[k].left = Past

(* Unless the write of its latest status change failed, the row of a key   *)
(* has the status that admission uses: a restart finds every open key open *)
(* and closes or re-opens none.                                            *)
DiskTracksMemory ==
  \A k \in Keys \ lost : saved[k].status = brk[k].status

(* An open key is not released before the time that was written, and told  *)
(* to the gateway, when it tripped: later results only prolong a cooling.  *)
PromisedCoolingKept ==
  \A k \in Keys \ lost :
    brk[k].status = "circuit_open" => saved[k].left <= brk[k].left

(* No reservation is ever made on a key that is still cooling.             *)
NoCallWhileCooling ==
  [][\A k \in Keys : out'[k] > out[k] =>
       ~(brk[k].status = "circuit_open" /\ brk[k].left > 0)]_vars

(* A bucket is debited one token for a call that is really made, or is     *)
(* tightened by a report of such a call; candidates that were looked at    *)
(* and not selected pay nothing.                                           *)
OnlyCallsArePaid ==
  [][\A k \in Keys : cap[k] > 0 /\ tok'[k] < tok[k] =>
       \/ out'[k] = out[k] + 1 /\ tok'[k] = tok[k] - Minute
       \/ out'[k] = out[k] - 1 \/ stray'[k] = stray[k] - 1
       \/ cap'[k] = 0]_vars

(* One step admits at most one call on a key on trial.                     *)
OneTrialPerRound ==
  [][\A j, k \in Keys :
       /\ out'[j] > out[j] /\ brk'[j].status = "half_open"
       /\ out'[k] > out[k] /\ brk'[k].status = "half_open"
       => j = k]_vars

(* The sidecar is a circuit breaker as Breaker promises one.               *)
Contract == INSTANCE Breaker WITH
  MayBypass <- FailOpen,
  phase <- [k \in Keys |-> brk[k].status],
  kept <- [k \in Keys |-> saved[k].status],
  calls <- [k \in Keys |-> out[k] + stray[k]]

ImplementsBreaker == Contract!BreakerSpec

(* An open key does not stay open forever: late failures of calls made     *)
(* before it tripped can prolong its cooling, but there are finitely many, *)
(* and then a request puts it on trial.  This needs a gateway that in the  *)
(* end asks before it calls: one that keeps calling an open key on its own *)
(* can keep it open.                                                       *)
OpenKeysGetATrial ==
  <>[](\A k \in Keys : stray[k] = 0) =>
    \A k \in Keys : brk[k].status = "circuit_open" ~> brk[k].status # "circuit_open"

(* What the design asks of a trial (docs/specs/2026-06-19-n-slmcrs-design.md *)
(* section 7.4: one request is let through, and on failure the cooling     *)
(* continues): a failed call on a key on trial re-opens it.                *)
FailedTrialReopens ==
  [][\A k \in Keys : brk[k].status = "half_open" /\ brk'[k].consec > brk[k].consec
       => brk'[k].status = "circuit_open"]_vars
=============================================================================
