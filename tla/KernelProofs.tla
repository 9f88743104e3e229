----------------------------- MODULE KernelProofs -----------------------------
(***************************************************************************)
(* Theorems about Kernel, for every set of keys and every value of the     *)
(* other constants.  First the operators, then type correctness, then the  *)
(* inductive invariant behind the breaker's safety properties, then the    *)
(* properties of its steps, and last that it implements Breaker.           *)
(***************************************************************************)
EXTENDS Kernel, TLAPS

(***************************************************************************)
(* Operators.                                                              *)
(***************************************************************************)

(* However often it is doubled, a cooling is at least the first one. *)
LEMMA CooldownBounds ==
  ASSUME NEW consec \in Nat, consec >= Threshold
  PROVE  Cooldown(consec) \in Nat /\ Longest(0) <= Cooldown(consec)
<1>1. 2^0 = 1
  OBVIOUS
<1>2. QED
  BY <1>1, KernelAssumption DEF Cooldown, Longest

(* The breaker transitions keep a breaker's shape. *)
LEMMA BreakerTransitions ==
  ASSUME NEW b \in Breaker
  PROVE  /\ Promote(b) \in Breaker /\ Succeed(b) \in Breaker
         /\ Fail(b) \in Breaker /\ Older(b) \in Breaker
<1>1. Past \in Int
  BY KernelAssumption DEF Past
<1>2. NewBreaker \in Breaker /\ Promote(b) \in Breaker
  BY <1>1 DEF NewBreaker, Promote, Trial, Breaker, Status
<1>3. Succeed(b) \in Breaker
  BY <1>2 DEF Succeed, Counting, Breaker, Status
<1>4. Fail(b) \in Breaker
  <2>1. CASE b.consec + 1 >= Threshold
    <3>1. b.consec + 1 \in Nat
      BY DEF Breaker
    <3>2. Cooldown(b.consec + 1) \in Nat
      BY <2>1, <3>1, CooldownBounds
    <3>3. QED
      BY <2>1, <3>1, <3>2 DEF Fail, Breaker, Status
  <2>2. CASE ~(b.consec + 1 >= Threshold)
    BY <2>2 DEF Fail, Counting, Breaker
  <2>3. QED
    BY <2>1, <2>2
<1>5. Older(b) \in Breaker
  BY <1>1 DEF Older, Breaker
<1>6. QED
  BY <1>2, <1>3, <1>4, <1>5

(* A bucket, once created, has a capacity and holds at most that. *)
LEMMA LazyBucket ==
  ASSUME NEW c \in Nat, NEW t \in Nat, NEW rpm \in Int, t <= c * Minute
  PROVE  /\ LazyCap(c, rpm) \in Nat /\ LazyTok(c, t, rpm) \in Nat
         /\ LazyTok(c, t, rpm) <= LazyCap(c, rpm) * Minute
<1>1. Capacity(rpm) \in Nat
  BY DEF Capacity
<1>2. Capacity(rpm) * Minute \in Nat
  BY <1>1, KernelAssumption
<1>3. QED
  BY <1>1, <1>2 DEF LazyCap, LazyTok

(* A bucket that passes the admission check can pay a token. *)
LEMMA AdmissionLeavesAToken ==
  ASSUME NEW c \in Nat, NEW t \in Nat, NEW s, HasAdmission(c, t, Headroom(s))
  PROVE  t - Minute \in Nat
<1>1. c * Minute \in Nat
  BY KernelAssumption
<1>2. Headroom(s) = 80 \/ Headroom(s) = 100
  BY DEF Headroom
<1>3. c * Minute * (100 - Headroom(s)) >= 0
  BY <1>1, <1>2
<1>4. QED
  BY <1>2, <1>3, <1>1, KernelAssumption DEF HasAdmission

(* A report's remaining count only lowers what a bucket holds. *)
LEMMA CalibrateLowers ==
  ASSUME NEW t \in Nat, NEW rem \in Nat
  PROVE  Calibrate(t, rem) \in Nat /\ Calibrate(t, rem) <= t
<1>1. rem * Minute \in Nat
  BY KernelAssumption
<1>2. QED
  BY <1>1 DEF Calibrate

(* A refill keeps a bucket within its capacity. *)
LEMMA RefillStaysWithin ==
  ASSUME NEW c \in Nat, NEW t \in Nat, t <= c * Minute
  PROVE  Refilled(c, t) \in Nat /\ Refilled(c, t) <= c * Minute
<1>1. c * Minute \in Nat
  BY KernelAssumption
<1>2. QED
  BY <1>1 DEF Refilled

(* What is on disk is, key by key, what was there or what memory holds. *)
LEMMA SavedRows ==
  ASSUME NEW changed, Save(changed)
  PROVE  \A k \in Keys : saved'[k] = saved[k] \/ (k \in changed /\ saved'[k] = brk'[k])
BY DEF Save

(* Only a key whose row was not written stays lost. *)
LEMMA UnwrittenRowsAreLost ==
  ASSUME NEW changed, Save(changed)
  PROVE  \A k \in Keys : k \notin lost' =>
           \/ k \in changed /\ saved'[k] = brk'[k]
           \/ k \notin changed /\ k \notin lost /\ saved'[k] = saved[k]
BY DEF Save

(* A save keeps the rows and the lost keys of the right type. *)
LEMMA SaveType ==
  ASSUME NEW changed, Save(changed), changed \subseteq Keys, lost \in SUBSET Keys,
         brk' \in [Keys -> Breaker], saved \in [Keys -> Breaker]
  PROVE  saved' \in [Keys -> Breaker] /\ lost' \in SUBSET Keys
BY DEF Save

(***************************************************************************)
(* Type correctness, one lemma for each action with work to do.            *)
(***************************************************************************)
LEMMA InitType == Init => TypeOK
<1>1. SUFFICES ASSUME Init PROVE TypeOK
  OBVIOUS
<1>2. NewBreaker \in Breaker
  BY KernelAssumption DEF NewBreaker, Breaker, Status, Past
<1>3. brk \in [Keys -> Breaker] /\ saved \in [Keys -> Breaker]
  BY <1>1, <1>2 DEF Init
<1>4. \A k \in Keys : tok[k] <= cap[k] * Minute
  BY <1>1, KernelAssumption DEF Init
<1>5. QED
  BY <1>1, <1>3, <1>4 DEF Init, TypeOK

LEMMA ReserveType ==
  ASSUME TypeOK, NEW C \in SUBSET Keys, NEW conc, NEW s, NEW lag, Reserve(C, conc, s, lag)
  PROVE  TypeOK'
<1> DEFINE P == Passed(C, lag)
           V == Viable(C, lag, s)
<1>1. brk' \in [Keys -> Breaker]
  <2>1. brk' = Promoted(C, lag)
    BY DEF Reserve
  <2>2. \A k \in Keys : brk[k] \in Breaker /\ Promote(brk[k]) \in Breaker
    BY BreakerTransitions DEF TypeOK
  <2>3. QED
    BY <2>1, <2>2 DEF Promoted
<1>2. saved' \in [Keys -> Breaker] /\ lost' \in SUBSET Keys
  <2>1. Save(Expired(C, lag)) /\ Expired(C, lag) \subseteq Keys
    BY DEF Reserve, Expired
  <2>2. QED
    BY <1>1, <2>1, SaveType DEF TypeOK
<1>3. PICK S \in Selections(V, Width(s, conc)) :
        /\ TakeTokens(P, V, S)
        /\ out' = [k \in Keys |-> IF k \in S THEN out[k] + 1 ELSE out[k]]
  BY DEF Reserve
<1>4. S \subseteq V
  BY <1>3 DEF Selections
<1>5. out' \in [Keys -> Nat] /\ stray' \in [Keys -> Nat]
  BY <1>3 DEF Reserve, TypeOK
<1>6. cap' = [k \in Keys |-> IF k \in P THEN LazyCap(cap[k], Rpm[k]) ELSE cap[k]]
  BY DEF Reserve
<1>7. \A k \in Keys : cap'[k] \in Nat /\ tok'[k] \in Nat /\ tok'[k] <= cap'[k] * Minute
  <2>1. SUFFICES ASSUME NEW k \in Keys
                 PROVE  cap'[k] \in Nat /\ tok'[k] \in Nat /\ tok'[k] <= cap'[k] * Minute
    OBVIOUS
  <2> DEFINE c == LazyCap(cap[k], Rpm[k])
             t == LazyTok(cap[k], tok[k], Rpm[k])
  <2>2. cap[k] \in Nat /\ tok[k] \in Nat /\ tok[k] <= cap[k] * Minute /\ Rpm[k] \in Int
    BY KernelAssumption DEF TypeOK
  <2>3. c \in Nat /\ t \in Nat /\ t <= c * Minute
    BY <2>2, LazyBucket
  <2>4. CASE k \in P /\ k \in S
    <3>1. HasAdmission(c, t, Headroom(s))
      BY <1>4, <2>4 DEF Viable
    <3>2. t - Minute \in Nat
      BY <2>3, <3>1, AdmissionLeavesAToken
    <3>3. cap'[k] = c /\ tok'[k] = t - Minute
      BY <1>3, <1>6, <2>4 DEF TakeTokens
    <3>4. c * Minute \in Nat /\ Minute \in Nat
      BY <2>3, KernelAssumption
    <3> HIDE DEF c, t
    <3>5. QED
      BY <2>3, <3>2, <3>3, <3>4
  <2>5. CASE k \in P /\ k \notin S
    <3>1. cap'[k] = c /\ tok'[k] = t - 0
      BY <1>3, <1>6, <2>5 DEF TakeTokens
    <3> HIDE DEF c, t
    <3>2. QED
      BY <2>3, <3>1
  <2>6. CASE k \notin P
    BY <1>3, <1>6, <2>2, <2>6 DEF TakeTokens
  <2>7. QED
    BY <2>4, <2>5, <2>6
<1>8. cap' \in [Keys -> Nat] /\ tok' \in [Keys -> Nat]
  <2>1. tok' = [k \in Keys |-> tok'[k]]
    BY <1>3 DEF TakeTokens
  <2>2. cap' = [k \in Keys |-> cap'[k]]
    BY <1>6
  <2>3. QED
    BY <1>7, <2>1, <2>2
<1>9. QED
  BY <1>1, <1>2, <1>5, <1>7, <1>8 DEF TypeOK

LEMMA ReportType ==
  ASSUME TypeOK, NEW R \in SUBSET Keys, NEW items \in [R -> Item], NEW T \in SUBSET R,
         Report(items, T)
  PROVE  TypeOK'
<1>1. DOMAIN items = R
  OBVIOUS
<1>2. brk' \in [Keys -> Breaker]
  <2>1. \A k \in Keys : Succeed(brk[k]) \in Breaker /\ Fail(brk[k]) \in Breaker
    BY BreakerTransitions DEF TypeOK
  <2>2. QED
    BY <1>1, <2>1 DEF Report, TypeOK
<1>3. saved' \in [Keys -> Breaker] /\ lost' \in SUBSET Keys
  <2>1. Save({k \in R : brk'[k].status # brk[k].status})
    BY <1>1 DEF Report
  <2>2. QED
    BY <1>2, <2>1, SaveType DEF TypeOK
<1>4. out' \in [Keys -> Nat] /\ stray' \in [Keys -> Nat]
  <2>1. \A k \in R : IF k \in T THEN stray[k] > 0 ELSE out[k] > 0
    BY <1>1 DEF Report
  <2>2. /\ out' = [k \in Keys |-> IF k \in R \ T THEN out[k] - 1 ELSE out[k]]
        /\ stray' = [k \in Keys |-> IF k \in R \cap T THEN stray[k] - 1 ELSE stray[k]]
    BY <1>1 DEF Report
  <2>3. QED
    BY <2>1, <2>2 DEF TypeOK
<1> DEFINE Counted == {k \in R : items[k].rem # NoRem}
<1>5. /\ cap' = [k \in Keys |-> IF k \in Counted THEN LazyCap(cap[k], ReportRpm) ELSE cap[k]]
      /\ tok' = [k \in Keys |->
                   IF k \in Counted
                   THEN Calibrate(LazyTok(cap[k], tok[k], ReportRpm), items[k].rem)
                   ELSE tok[k]]
  BY <1>1 DEF Report
<1>6. \A k \in Keys : cap'[k] \in Nat /\ tok'[k] \in Nat /\ tok'[k] <= cap'[k] * Minute
  <2>1. SUFFICES ASSUME NEW k \in Keys
                 PROVE  cap'[k] \in Nat /\ tok'[k] \in Nat /\ tok'[k] <= cap'[k] * Minute
    OBVIOUS
  <2>2. cap[k] \in Nat /\ tok[k] \in Nat /\ tok[k] <= cap[k] * Minute
    BY DEF TypeOK
  <2>3. CASE k \in Counted
    <3> DEFINE c == LazyCap(cap[k], ReportRpm)
               t == LazyTok(cap[k], tok[k], ReportRpm)
    <3>1. c \in Nat /\ t \in Nat /\ t <= c * Minute
      <4>1. ReportRpm \in Int
        BY KernelAssumption
      <4>2. QED
        BY <2>2, <4>1, LazyBucket
    <3>2. items[k].rem \in Nat
      BY <2>3, KernelAssumption DEF Item
    <3>3. cap'[k] = c /\ tok'[k] = Calibrate(t, items[k].rem)
      BY <1>5, <2>3
    <3>4. c * Minute \in Nat
      BY <3>1, KernelAssumption
    <3>5. Calibrate(t, items[k].rem) \in Nat /\ Calibrate(t, items[k].rem) <= t
      <4> HIDE DEF t
      <4>1. QED
        BY <3>1, <3>2, CalibrateLowers
    <3> HIDE DEF c, t
    <3>6. QED
      BY <3>1, <3>3, <3>4, <3>5
  <2>4. CASE k \notin Counted
    BY <1>5, <2>2, <2>4
  <2>5. QED
    BY <2>3, <2>4
<1>7. cap' \in [Keys -> Nat] /\ tok' \in [Keys -> Nat]
  <2>1. tok' = [k \in Keys |-> tok'[k]] /\ cap' = [k \in Keys |-> cap'[k]]
    BY <1>5
  <2>2. QED
    BY <1>6, <2>1
<1>8. QED
  BY <1>2, <1>3, <1>4, <1>6, <1>7 DEF TypeOK

LEMMA RestartType == TypeOK /\ Restart => TypeOK'
BY KernelAssumption DEF TypeOK, Restart

LEMMA TickType == TypeOK /\ Tick => TypeOK'
<1>1. SUFFICES ASSUME TypeOK, Tick PROVE TypeOK'
  OBVIOUS
<1>2. brk' \in [Keys -> Breaker] /\ saved' \in [Keys -> Breaker]
  <2>1. \A k \in Keys : Older(brk[k]) \in Breaker /\ Older(saved[k]) \in Breaker
    BY <1>1, BreakerTransitions DEF TypeOK
  <2>2. QED
    BY <1>1, <2>1 DEF Tick
<1>3. \A k \in Keys : Refilled(cap[k], tok[k]) \in Nat
                        /\ Refilled(cap[k], tok[k]) <= cap[k] * Minute
  BY <1>1, RefillStaysWithin DEF TypeOK
<1>4. QED
  BY <1>1, <1>2, <1>3 DEF Tick, TypeOK

LEMMA StrayType ==
  ASSUME TypeOK, NEW k \in Keys, Bypass(k) \/ Forget(k)
  PROVE  TypeOK'
<1>1. out' \in [Keys -> Nat] /\ stray' \in [Keys -> Nat]
  BY DEF Bypass, Forget, TypeOK
<1>2. UNCHANGED <<brk, saved, lost, cap, tok>>
  BY DEF Bypass, Forget
<1>3. QED
  BY <1>1, <1>2 DEF TypeOK

(* Nothing in one step takes the state out of its types. *)
LEMMA StepType == TypeOK /\ [Next]_vars => TypeOK'
<1>1. SUFFICES ASSUME TypeOK, [Next]_vars PROVE TypeOK'
  OBVIOUS
<1>2. ASSUME NEW C \in SUBSET Keys, NEW conc \in Concurrencies, NEW s \in Strategies,
             NEW lag \in 0..MaxLag, Reserve(C, conc, s, lag)
      PROVE  TypeOK'
  BY <1>1, <1>2, ReserveType
<1>3. ASSUME NEW R \in SUBSET Keys, NEW items \in [R -> Item], NEW T \in SUBSET R,
             Report(items, T)
      PROVE  TypeOK'
  BY <1>1, <1>3, ReportType
<1>4. ASSUME NEW k \in Keys, Bypass(k) \/ Forget(k) PROVE TypeOK'
  BY <1>1, <1>4, StrayType
<1>5. CASE Restart
  BY <1>1, <1>5, RestartType
<1>6. CASE Tick
  BY <1>1, <1>6, TickType
<1>7. CASE UNCHANGED vars
  BY <1>1, <1>7 DEF vars, TypeOK
<1>8. QED
  BY <1>1, <1>2, <1>3, <1>4, <1>5, <1>6, <1>7 DEF Next

(* The state always has its types, and no bucket ever holds more than its  *)
(* capacity or less than nothing, for any limits and any interleaving.     *)
THEOREM TypeCorrect == Spec => []TypeOK
BY InitType, StepType, PTL DEF Spec

(***************************************************************************)
(* The inductive invariant.  A restart puts the rows of kernel.db in the   *)
(* place of memory, so what is promised of breakers must hold of the rows; *)
(* and a row is written only when a status changes, which happens at the   *)
(* first failure that reaches Threshold, so that no row ever holds more    *)
(* than the shortest cooling: this is why later failures, which move the   *)
(* cooling in memory and not the row, can only prolong it.                 *)
(***************************************************************************)
Healthy(b) == b.status # "circuit_open" => b.consec < Threshold /\ b.left = Past

RowsAreSound ==
  \A k \in Keys : Healthy(saved[k]) /\ saved[k].left <= Longest(0)

IInv ==
  /\ TypeOK
  /\ ServingKeysAreHealthy
  /\ RowsAreSound
  /\ DiskTracksMemory
  /\ PromisedCoolingKept

(* The transitions of a breaker keep it healthy; one that changes status   *)
(* ends with at most the shortest cooling, and one that stays open keeps   *)
(* what cooling it has or starts one at least as long as the shortest.     *)
LEMMA TransitionsKeepHealth ==
  ASSUME NEW b \in Breaker, Healthy(b), NEW c \in {Succeed(b), Fail(b)}
  PROVE  /\ Healthy(c)
         /\ c.status # b.status => c.left <= Longest(0)
         /\ c.status = "circuit_open" => c.left = b.left \/ Longest(0) <= c.left
         /\ c.status = "circuit_open" /\ b.status # "circuit_open" => c.left = Longest(0)
<1>1. Past \in Int /\ Past <= 0 /\ Longest(0) \in Nat
  <2>1. 2^0 = 1
    OBVIOUS
  <2>2. QED
    BY <2>1, KernelAssumption DEF Past, Longest
<1>2. CASE c = Succeed(b)
  BY <1>1, <1>2, KernelAssumption DEF Succeed, Counting, NewBreaker, Healthy, Breaker, Status
<1>3. CASE c = Fail(b) /\ b.consec + 1 >= Threshold
  <2>1. b.consec \in Nat /\ b.status \in Status
    BY DEF Breaker
  <2>2. Longest(0) <= Cooldown(b.consec + 1)
    BY <1>3, <2>1, CooldownBounds
  <2>3. c.status = "circuit_open" /\ c.left = Cooldown(b.consec + 1)
    BY <1>3 DEF Fail
  <2>4. b.status # "circuit_open" => Cooldown(b.consec + 1) = Longest(0)
    <3>1. SUFFICES ASSUME b.status # "circuit_open"
                   PROVE  Cooldown(b.consec + 1) = Longest(0)
      OBVIOUS
    <3>2. b.consec + 1 = Threshold
      BY <1>3, <2>1, <3>1, KernelAssumption DEF Healthy
    <3>3. Threshold - Threshold = 0
      BY KernelAssumption
    <3>4. Cooldown(Threshold) = Longest(0)
      BY <3>3, Zenon DEF Cooldown
    <3>5. QED
      BY <3>2, <3>4, Zenon
  <2>5. QED
    BY <1>1, <2>1, <2>2, <2>3, <2>4 DEF Healthy
<1>4. CASE c = Fail(b) /\ ~(b.consec + 1 >= Threshold)
  <2>1. c.status = b.status /\ c.consec = b.consec + 1 /\ c.left = b.left
    BY <1>4 DEF Fail, Counting
  <2>2. b.consec \in Nat
    BY DEF Breaker
  <2>3. QED
    BY <1>4, <2>1, <2>2, KernelAssumption DEF Healthy
<1>5. QED
  BY <1>2, <1>3, <1>4

LEMMA PastIsShort == Past \in Int /\ Longest(0) \in Nat /\ Past <= Longest(0)
<1>1. 2^0 = 1
  OBVIOUS
<1>2. QED
  BY <1>1, KernelAssumption DEF Past, Longest

LEMMA InitInv == Init => IInv
<1>1. SUFFICES ASSUME Init PROVE IInv
  OBVIOUS
<1>2. \A k \in Keys : brk[k] = NewBreaker /\ saved[k] = NewBreaker
  BY <1>1 DEF Init
<1>3. Healthy(NewBreaker) /\ NewBreaker.status = "active" /\ NewBreaker.left <= Longest(0)
  BY PastIsShort, KernelAssumption DEF Healthy, NewBreaker
<1>4. TypeOK
  BY <1>1, InitType
<1>5. QED
  BY <1>2, <1>3, <1>4
     DEF IInv, ServingKeysAreHealthy, RowsAreSound, DiskTracksMemory, PromisedCoolingKept, Healthy

LEMMA ReserveInv ==
  ASSUME IInv, NEW C \in SUBSET Keys, NEW conc, NEW s, NEW lag, Reserve(C, conc, s, lag)
  PROVE  IInv'
<1> DEFINE E == Expired(C, lag)
<1>1. TypeOK'
  BY ReserveType DEF IInv
<1>2. \A k \in Keys : brk'[k] = IF k \in E THEN Trial ELSE brk[k]
  BY DEF Reserve, Promoted, Promote
<1>3. Healthy(Trial) /\ Trial.status = "half_open" /\ Trial.left <= Longest(0)
  BY PastIsShort, KernelAssumption DEF Healthy, Trial
<1>4. Save(E)
  BY DEF Reserve
<1>5. \A k \in Keys : saved'[k] = saved[k] \/ (k \in E /\ saved'[k] = brk'[k])
  BY <1>4, SavedRows
<1>6. \A k \in Keys : k \notin lost' =>
        \/ k \in E /\ saved'[k] = brk'[k]
        \/ k \notin E /\ k \notin lost /\ saved'[k] = saved[k]
  BY <1>4, UnwrittenRowsAreLost
<1> HIDE DEF E
<1>7. ServingKeysAreHealthy'
  BY <1>2, <1>3 DEF IInv, ServingKeysAreHealthy, Healthy
<1>8. RowsAreSound'
  <2>1. SUFFICES ASSUME NEW k \in Keys PROVE Healthy(saved'[k]) /\ saved'[k].left <= Longest(0)
    BY DEF RowsAreSound, Healthy
  <2>2. Healthy(saved[k]) /\ saved[k].left <= Longest(0)
    BY DEF IInv, RowsAreSound
  <2>3. QED
    BY <1>2, <1>3, <1>5, <2>2
<1>9. DiskTracksMemory'
  BY <1>2, <1>6 DEF IInv, DiskTracksMemory
<1>10. PromisedCoolingKept'
  BY <1>2, <1>3, <1>6 DEF IInv, PromisedCoolingKept
<1>11. QED
  BY <1>1, <1>7, <1>8, <1>9, <1>10 DEF IInv

LEMMA ReportInv ==
  ASSUME IInv, NEW R \in SUBSET Keys, NEW items \in [R -> Item], NEW T \in SUBSET R,
         Report(items, T)
  PROVE  IInv'
<1> DEFINE E == {k \in R : brk'[k].status # brk[k].status}
<1>1. TypeOK'
  BY ReportType DEF IInv
<1>2. Save(E)
  BY DEF Report
<1>3. \A k \in Keys : saved'[k] = saved[k] \/ (k \in E /\ saved'[k] = brk'[k])
  BY <1>2, SavedRows
<1>4. \A k \in Keys : k \notin lost' =>
        \/ k \in E /\ saved'[k] = brk'[k]
        \/ k \notin E /\ k \notin lost /\ saved'[k] = saved[k]
  BY <1>2, UnwrittenRowsAreLost
<1>5. \A k \in Keys : brk'[k] = brk[k] \/ brk'[k] \in {Succeed(brk[k]), Fail(brk[k])}
  BY DEF Report
<1>6. \A k \in Keys : brk[k] \in Breaker /\ Healthy(brk[k])
  BY DEF IInv, TypeOK, ServingKeysAreHealthy, Healthy
<1>7. \A k \in Keys : k \notin E => brk'[k].status = brk[k].status
  BY DEF Report
<1>8. \A k \in Keys :
        /\ Healthy(brk'[k])
        /\ k \in E => brk'[k].left <= Longest(0)
        /\ brk'[k].status = "circuit_open" => brk'[k].left = brk[k].left \/ Longest(0) <= brk'[k].left
  <2>1. SUFFICES ASSUME NEW k \in Keys
                 PROVE  /\ Healthy(brk'[k])
                        /\ k \in E => brk'[k].left <= Longest(0)
                        /\ brk'[k].status = "circuit_open" =>
                             brk'[k].left = brk[k].left \/ Longest(0) <= brk'[k].left
    OBVIOUS
  <2>2. CASE brk'[k] = brk[k]
    BY <1>6, <2>2
  <2>3. CASE brk'[k] \in {Succeed(brk[k]), Fail(brk[k])}
    <3>1. PICK c \in {Succeed(brk[k]), Fail(brk[k])} : c = brk'[k]
      BY <2>3
    <3>2. brk[k] \in Breaker /\ Healthy(brk[k])
      BY <1>6
    <3>3. /\ Healthy(c)
          /\ c.status # brk[k].status => c.left <= Longest(0)
          /\ c.status = "circuit_open" => c.left = brk[k].left \/ Longest(0) <= c.left
      BY <3>2, TransitionsKeepHealth
    <3>4. QED
      BY <3>1, <3>3
  <2>4. QED
    BY <1>5, <2>2, <2>3
<1> HIDE DEF E
<1>9. ServingKeysAreHealthy'
  BY <1>8 DEF ServingKeysAreHealthy, Healthy
<1>10. RowsAreSound'
  <2>1. SUFFICES ASSUME NEW k \in Keys PROVE Healthy(saved'[k]) /\ saved'[k].left <= Longest(0)
    BY DEF RowsAreSound, Healthy
  <2>2. Healthy(saved[k]) /\ saved[k].left <= Longest(0)
    BY DEF IInv, RowsAreSound
  <2>3. QED
    BY <1>3, <1>8, <2>2
<1>11. DiskTracksMemory'
  BY <1>4, <1>7 DEF IInv, DiskTracksMemory
<1>12. PromisedCoolingKept'
  <2>1. SUFFICES ASSUME NEW k \in Keys \ lost', brk'[k].status = "circuit_open"
                 PROVE  saved'[k].left <= brk'[k].left
    BY DEF PromisedCoolingKept
  <2>2. brk'[k] \in Breaker /\ saved[k].left <= Longest(0) /\ saved[k] \in Breaker /\ Longest(0) \in Int
    BY <1>1, PastIsShort DEF IInv, RowsAreSound, TypeOK
  <2>3. CASE saved'[k] = brk'[k]
    BY <2>2, <2>3 DEF Breaker
  <2>4. CASE k \notin E /\ k \notin lost /\ saved'[k] = saved[k]
    <3>1. saved[k].left <= brk[k].left
      BY <1>7, <2>1, <2>4 DEF IInv, PromisedCoolingKept
    <3>2. QED
      BY <1>8, <2>1, <2>2, <2>4, <3>1 DEF Breaker
  <2>5. QED
    BY <1>4, <2>3, <2>4
<1>13. QED
  BY <1>1, <1>9, <1>10, <1>11, <1>12 DEF IInv

LEMMA RestartInv == IInv /\ Restart => IInv'
<1>1. SUFFICES ASSUME IInv, Restart PROVE IInv'
  OBVIOUS
<1>2. TypeOK'
  BY <1>1, RestartType DEF IInv
<1>3. brk' = saved /\ saved' = saved
  BY <1>1 DEF Restart
<1>4. \A k \in Keys : Healthy(saved[k]) /\ saved[k].left <= Longest(0) /\ saved[k].left \in Int
  BY <1>1 DEF IInv, RowsAreSound, TypeOK, Breaker
<1>5. QED
  BY <1>2, <1>3, <1>4
     DEF IInv, ServingKeysAreHealthy, RowsAreSound, DiskTracksMemory, PromisedCoolingKept, Healthy

(* A second's passing keeps a breaker's health and the order of coolings. *)
LEMMA OlderIsMonotone ==
  ASSUME NEW a \in Breaker, NEW b \in Breaker
  PROVE  /\ Older(a).status = a.status /\ Older(a).consec = a.consec
         /\ a.left = Past => Older(a).left = Past
         /\ a.left <= Longest(0) => Older(a).left <= Longest(0)
         /\ a.left <= b.left => Older(a).left <= Older(b).left
<1>1. a.left \in Int /\ b.left \in Int
  BY DEF Breaker
<1>2. QED
  BY <1>1, PastIsShort DEF Older

LEMMA TickInv == IInv /\ Tick => IInv'
<1>1. SUFFICES ASSUME IInv, Tick PROVE IInv'
  OBVIOUS
<1>2. TypeOK'
  BY <1>1, TickType DEF IInv
<1>3. \A k \in Keys : brk'[k] = Older(brk[k]) /\ saved'[k] = Older(saved[k])
  BY <1>1 DEF Tick
<1>4. lost' = lost
  BY <1>1 DEF Tick
<1>5. \A k \in Keys : brk[k] \in Breaker /\ saved[k] \in Breaker
  BY <1>1 DEF IInv, TypeOK
<1>6. ServingKeysAreHealthy'
  BY <1>1, <1>3, <1>5, OlderIsMonotone DEF IInv, ServingKeysAreHealthy
<1>7. RowsAreSound'
  BY <1>1, <1>3, <1>5, OlderIsMonotone DEF IInv, RowsAreSound, Healthy
<1>8. DiskTracksMemory'
  BY <1>1, <1>3, <1>4, <1>5, OlderIsMonotone DEF IInv, DiskTracksMemory
<1>9. PromisedCoolingKept'
  BY <1>1, <1>3, <1>4, <1>5, OlderIsMonotone DEF IInv, PromisedCoolingKept
<1>10. QED
  BY <1>2, <1>6, <1>7, <1>8, <1>9 DEF IInv

LEMMA StepInv == IInv /\ [Next]_vars => IInv'
<1>1. SUFFICES ASSUME IInv, [Next]_vars PROVE IInv'
  OBVIOUS
<1>2. TypeOK'
  BY <1>1, StepType DEF IInv
<1>3. ASSUME NEW C \in SUBSET Keys, NEW conc \in Concurrencies, NEW s \in Strategies,
             NEW lag \in 0..MaxLag, Reserve(C, conc, s, lag)
      PROVE  IInv'
  BY <1>1, <1>3, ReserveInv
<1>4. ASSUME NEW R \in SUBSET Keys, NEW items \in [R -> Item], NEW T \in SUBSET R,
             Report(items, T)
      PROVE  IInv'
  BY <1>1, <1>4, ReportInv
<1>5. ASSUME NEW k \in Keys, Bypass(k) \/ Forget(k) PROVE IInv'
  BY <1>1, <1>2, <1>5
     DEF Bypass, Forget, IInv, ServingKeysAreHealthy, RowsAreSound, DiskTracksMemory,
         PromisedCoolingKept, Healthy
<1>6. CASE Restart
  BY <1>1, <1>6, RestartInv
<1>7. CASE Tick
  BY <1>1, <1>7, TickInv
<1>8. CASE UNCHANGED vars
  BY <1>1, <1>2, <1>8
     DEF vars, IInv, ServingKeysAreHealthy, RowsAreSound, DiskTracksMemory, PromisedCoolingKept, Healthy
<1>9. QED
  BY <1>1, <1>3, <1>4, <1>5, <1>6, <1>7, <1>8 DEF Next

(* The inductive invariant holds in every state. *)
THEOREM Invariance == Spec => []IInv
BY InitInv, StepInv, PTL DEF Spec

(* No key that has reached Threshold failures, or that still cools, ever   *)
(* serves, across restarts and failed writes.                              *)
THEOREM ServingKeysHealthy == Spec => []ServingKeysAreHealthy
<1>1. IInv => ServingKeysAreHealthy
  BY DEF IInv
<1>2. QED
  BY <1>1, Invariance, PTL

(* kernel.db has the status of every key whose last write went through. *)
THEOREM DiskCorrect == Spec => []DiskTracksMemory
<1>1. IInv => DiskTracksMemory
  BY DEF IInv
<1>2. QED
  BY <1>1, Invariance, PTL

(* The cooling announced when a key trips is a lower bound of the time it  *)
(* stays open.                                                             *)
THEOREM CoolingKept == Spec => []PromisedCoolingKept
<1>1. IInv => PromisedCoolingKept
  BY DEF IInv
<1>2. QED
  BY <1>1, Invariance, PTL

(***************************************************************************)
(* Properties of steps.                                                    *)
(***************************************************************************)

(* A reservation serves only keys the breakers passed. *)
LEMMA ServedKeysPassed ==
  ASSUME TypeOK, NEW C \in SUBSET Keys, NEW conc, NEW s, NEW lag \in 0..MaxLag,
         Reserve(C, conc, s, lag), NEW k \in Keys, out'[k] > out[k]
  PROVE  /\ k \in Passed(C, lag)
         /\ brk'[k] = Promoted(C, lag)[k]
         /\ brk'[k].status \in {"active", "half_open"}
         /\ ~Cooling(k, lag)
<1>1. PICK S \in Selections(Viable(C, lag, s), Width(s, conc)) :
        out' = [j \in Keys |-> IF j \in S THEN out[j] + 1 ELSE out[j]]
  BY DEF Reserve
<1>2. k \in S
  BY <1>1 DEF TypeOK
<1>3. k \in Passed(C, lag)
  BY <1>1, <1>2 DEF Selections, Viable
<1>4. brk' = Promoted(C, lag)
  BY DEF Reserve
<1>5. brk'[k].status \in {"active", "half_open"}
  BY <1>3, <1>4 DEF Passed, OnTrial
<1>6. ~Cooling(k, lag)
  <2>1. SUFFICES ASSUME Cooling(k, lag) PROVE FALSE
    OBVIOUS
  <2>2. k \notin Expired(C, lag)
    BY <2>1 DEF Expired
  <2>3. brk'[k] = brk[k]
    BY <1>4, <2>2 DEF Promoted
  <2>4. QED
    BY <1>5, <2>1, <2>3 DEF Cooling
<1>7. QED
  BY <1>3, <1>4, <1>5, <1>6

(* Only a reservation adds to what is out. *)
LEMMA OnlyReservationsServe ==
  ASSUME TypeOK, [Next]_vars, NEW k \in Keys, out'[k] > out[k]
  PROVE  \E C \in SUBSET Keys, conc \in Concurrencies, s \in Strategies, lag \in 0..MaxLag :
           Reserve(C, conc, s, lag)
<1>1. out \in [Keys -> Nat]
  BY DEF TypeOK
<1>2. ASSUME NEW R \in SUBSET Keys, NEW items \in [R -> Item], NEW T \in SUBSET R,
             Report(items, T)
      PROVE  FALSE
  <2>1. out' = [i \in Keys |-> IF i \in DOMAIN items \ T THEN out[i] - 1 ELSE out[i]]
    BY <1>2 DEF Report
  <2>2. QED
    BY <1>1, <2>1
<1>3. ASSUME NEW j \in Keys, Bypass(j) \/ Forget(j) PROVE FALSE
  BY <1>1, <1>3 DEF Bypass, Forget
<1>4. CASE Restart \/ Tick \/ UNCHANGED vars
  BY <1>1, <1>4 DEF Restart, Tick, vars
<1>5. QED
  BY <1>2, <1>3, <1>4 DEF Next

(* No reservation is made on a key that is still cooling. *)
THEOREM CoolingKeysAreLeftAlone == Spec => NoCallWhileCooling
<1>1. ASSUME TypeOK, [Next]_vars
      PROVE  [\A k \in Keys : out'[k] > out[k] =>
                ~(brk[k].status = "circuit_open" /\ brk[k].left > 0)]_vars
  <2>1. SUFFICES ASSUME NEW k \in Keys, out'[k] > out[k],
                        brk[k].status = "circuit_open", brk[k].left > 0
                 PROVE  FALSE
    OBVIOUS
  <2>2. PICK C \in SUBSET Keys, conc \in Concurrencies, s \in Strategies, lag \in 0..MaxLag :
          Reserve(C, conc, s, lag)
    BY <1>1, <2>1, OnlyReservationsServe
  <2>3. ~Cooling(k, lag)
    BY <1>1, <2>1, <2>2, ServedKeysPassed
  <2>4. brk[k].left \in Int /\ lag \in Nat
    BY <1>1, KernelAssumption DEF TypeOK, Breaker
  <2>5. QED
    BY <2>1, <2>3, <2>4 DEF Cooling
<1>2. QED
  BY <1>1, TypeCorrect, PTL DEF Spec, NoCallWhileCooling

(* What a step that debits a bucket is for.                                *)
Paid(k) ==
  \/ out'[k] = out[k] + 1 /\ tok'[k] = tok[k] - Minute
  \/ out'[k] = out[k] - 1 \/ stray'[k] = stray[k] - 1
  \/ cap'[k] = 0

LEMMA ReservationPays ==
  ASSUME TypeOK, NEW C \in SUBSET Keys, NEW conc, NEW s, NEW lag \in 0..MaxLag,
         Reserve(C, conc, s, lag), NEW k \in Keys, cap[k] > 0, tok'[k] < tok[k]
  PROVE  Paid(k)
<1>1. PICK S \in Selections(Viable(C, lag, s), Width(s, conc)) :
        /\ TakeTokens(Passed(C, lag), Viable(C, lag, s), S)
        /\ out' = [j \in Keys |-> IF j \in S THEN out[j] + 1 ELSE out[j]]
  BY DEF Reserve
<1>2. LazyTok(cap[k], tok[k], Rpm[k]) = tok[k] /\ tok[k] \in Nat /\ Minute \in Nat
  BY KernelAssumption DEF LazyTok, TypeOK
<1>3. tok'[k] = IF k \notin Passed(C, lag) THEN tok[k]
                ELSE tok[k] - IF k \in S THEN Minute ELSE 0
  BY <1>1, <1>2 DEF TakeTokens
<1>4. k \in S /\ tok'[k] = tok[k] - Minute
  BY <1>2, <1>3
<1>5. out'[k] = out[k] + 1
  BY <1>1, <1>4
<1>6. QED
  BY <1>4, <1>5 DEF Paid

LEMMA ReportTightens ==
  ASSUME TypeOK, NEW R \in SUBSET Keys, NEW items \in [R -> Item], NEW T \in SUBSET R,
         Report(items, T), NEW k \in Keys, tok'[k] < tok[k]
  PROVE  Paid(k)
<1>1. k \in R
  <2>1. SUFFICES ASSUME k \notin R PROVE FALSE
    OBVIOUS
  <2>2. tok'[k] = tok[k] /\ tok[k] \in Nat
    BY <2>1 DEF Report, TypeOK
  <2>3. QED
    BY <2>2
<1>2. /\ out' = [j \in Keys |-> IF j \in R \ T THEN out[j] - 1 ELSE out[j]]
      /\ stray' = [j \in Keys |-> IF j \in R \cap T THEN stray[j] - 1 ELSE stray[j]]
  BY DEF Report
<1>3. QED
  BY <1>1, <1>2 DEF Paid

(* Only a selected key pays a token, and only the report of a call makes a *)
(* bucket tighter (reserve, take_token, calibrate).                        *)
THEOREM UnselectedKeysKeepTokens == Spec => OnlyCallsArePaid
<1>1. ASSUME TypeOK, [Next]_vars
      PROVE  [\A k \in Keys : cap[k] > 0 /\ tok'[k] < tok[k] => Paid(k)]_vars
  <2>1. SUFFICES ASSUME NEW k \in Keys, cap[k] > 0, tok'[k] < tok[k]
                 PROVE  Paid(k)
    OBVIOUS
  <2>2. tok[k] \in Nat /\ cap[k] \in Nat /\ tok[k] <= cap[k] * Minute /\ tok \in [Keys -> Nat]
    BY <1>1 DEF TypeOK
  <2>3. ASSUME NEW j \in Keys, Bypass(j) \/ Forget(j) PROVE Paid(k)
    BY <2>1, <2>2, <2>3 DEF Bypass, Forget
  <2>4. CASE Restart
    BY <2>4 DEF Restart, Paid
  <2>5. CASE Tick
    <3>1. tok'[k] = Refilled(cap[k], tok[k])
      BY <2>5 DEF Tick
    <3>2. cap[k] * Minute \in Nat
      BY <2>2, KernelAssumption
    <3> DEFINE full == cap[k] * Minute
    <3>3. tok'[k] = IF tok[k] + cap[k] < full THEN tok[k] + cap[k] ELSE full
      BY <3>1 DEF Refilled
    <3> HIDE DEF full
    <3>4. full \in Nat /\ tok[k] <= full
      BY <2>2, <3>2 DEF full
    <3>5. QED
      BY <2>1, <2>2, <3>3, <3>4
  <2>6. CASE UNCHANGED vars
    BY <2>1, <2>2, <2>6 DEF vars
  <2>7. QED
    BY <1>1, <2>1, <2>3, <2>4, <2>5, <2>6, ReservationPays, ReportTightens DEF Next
<1>2. QED
  BY <1>1, TypeCorrect, PTL DEF Spec, OnlyCallsArePaid, Paid

(* One reservation admits at most one call on a key on trial. *)
THEOREM TrialsAreSingle == Spec => OneTrialPerRound
<1>1. ASSUME TypeOK, [Next]_vars
      PROVE  [\A j, k \in Keys :
                /\ out'[j] > out[j] /\ brk'[j].status = "half_open"
                /\ out'[k] > out[k] /\ brk'[k].status = "half_open"
                => j = k]_vars
  <2>1. SUFFICES ASSUME NEW j \in Keys, NEW k \in Keys,
                        out'[j] > out[j], brk'[j].status = "half_open",
                        out'[k] > out[k], brk'[k].status = "half_open"
                 PROVE  j = k
    OBVIOUS
  <2>2. PICK C \in SUBSET Keys, conc \in Concurrencies, s \in Strategies, lag \in 0..MaxLag :
          Reserve(C, conc, s, lag)
    BY <1>1, <2>1, OnlyReservationsServe
  <2>3. /\ j \in Passed(C, lag) /\ Promoted(C, lag)[j].status = "half_open"
        /\ k \in Passed(C, lag) /\ Promoted(C, lag)[k].status = "half_open"
    BY <1>1, <2>1, <2>2, ServedKeysPassed
  <2>4. j <= k /\ k <= j
    BY <2>3 DEF Passed, OnTrial
  <2>5. j \in Nat /\ k \in Nat
    BY KernelAssumption
  <2>6. QED
    BY <2>4, <2>5
<1>2. QED
  BY <1>1, TypeCorrect, PTL DEF Spec, OneTrialPerRound

(***************************************************************************)
(* Refinement: with its counts, clocks and buckets forgotten, the sidecar  *)
(* takes only steps that Breaker allows.                                   *)
(***************************************************************************)
LEMMA KeepHolds ==
  ASSUME TypeOK, TypeOK', NEW changed, Save(changed)
  PROVE  Contract!Keep
<1>1. \A k \in Keys : saved'[k] = saved[k] \/ saved'[k] = brk'[k]
  BY SavedRows
<1>2. \A k \in Keys : saved'[k].status \in Contract!Phases
  BY DEF TypeOK, Breaker, Status, Contract!Phases
<1>3. QED
  BY <1>1, <1>2 DEF Contract!Keep

LEMMA ReserveAdmits ==
  ASSUME TypeOK, NEW C \in SUBSET Keys, NEW conc, NEW s, NEW lag \in 0..MaxLag,
         Reserve(C, conc, s, lag)
  PROVE  \E P, S \in SUBSET Keys : Contract!Admit(P, S)
<1>1. PICK S \in Selections(Viable(C, lag, s), Width(s, conc)) :
        out' = [k \in Keys |-> IF k \in S THEN out[k] + 1 ELSE out[k]]
  BY DEF Reserve
<1>2. S \subseteq Keys
  BY DEF Selections, Viable, Passed, OnTrial
<1>3. Expired(C, lag) \subseteq Keys /\ \A k \in Expired(C, lag) : brk[k].status = "circuit_open"
  BY DEF Expired
<1>4. brk' = [k \in Keys |-> IF k \in Expired(C, lag) THEN Trial ELSE brk[k]]
  BY DEF Reserve, Promoted, Promote
<1>5. [k \in Keys |-> out[k] + stray[k]]' =
         [k \in Keys |-> IF k \in S THEN [j \in Keys |-> out[j] + stray[j]][k] + 1
                                    ELSE [j \in Keys |-> out[j] + stray[j]][k]]
  <2>1. stray' = stray
    BY DEF Reserve
  <2>2. \A k \in Keys : out[k] \in Nat /\ stray[k] \in Nat
    BY DEF TypeOK
  <2>3. QED
    BY <1>1, <2>1, <2>2
<1>6. \A k \in S : brk'[k].status # "circuit_open"
  <2>1. SUFFICES ASSUME NEW k \in S PROVE brk'[k].status # "circuit_open"
    OBVIOUS
  <2>2. k \in Keys /\ out'[k] > out[k]
    BY <1>1, <1>2 DEF TypeOK
  <2>3. QED
    BY <2>2, ServedKeysPassed
<1>7. [k \in Keys |-> brk[k].status]' =
        [k \in Keys |-> IF k \in Expired(C, lag) THEN "half_open" ELSE [j \in Keys |-> brk[j].status][k]]
  BY <1>4 DEF Trial
<1>8. Contract!Keep
  BY ReserveType, KeepHolds DEF Reserve
<1>9. Contract!Admit(Expired(C, lag), S)
  BY <1>2, <1>3, <1>6, <1>7, <1>8, <1>5 DEF Contract!Admit
<1>10. QED
  BY <1>2, <1>3, <1>9

LEMMA ReportLearns ==
  ASSUME TypeOK, NEW R \in SUBSET Keys, NEW items \in [R -> Item], NEW T \in SUBSET R,
         Report(items, T)
  PROVE  \E Q \in SUBSET Keys : \E F \in SUBSET Q : Contract!Learn(Q, F)
<1> DEFINE F == {k \in R : ~items[k].ok}
<1>1. \A k \in R : out[k] + stray[k] > 0
  BY DEF Report, TypeOK
<1>2. [k \in Keys |-> out[k] + stray[k]]' =
        [k \in Keys |-> IF k \in R THEN [j \in Keys |-> out[j] + stray[j]][k] - 1
                                   ELSE [j \in Keys |-> out[j] + stray[j]][k]]
  <2>1. /\ out' = [k \in Keys |-> IF k \in R \ T THEN out[k] - 1 ELSE out[k]]
        /\ stray' = [k \in Keys |-> IF k \in R \cap T THEN stray[k] - 1 ELSE stray[k]]
    BY DEF Report
  <2>2. \A k \in Keys : out[k] \in Nat /\ stray[k] \in Nat
    BY DEF TypeOK
  <2>3. QED
    BY <2>1, <2>2
<1>3. TypeOK'
  BY ReportType
<1>4. [k \in Keys |-> brk[k].status]' \in [Keys -> Contract!Phases]
  BY <1>3 DEF TypeOK, Breaker, Status, Contract!Phases
<1>5. \A k \in Keys : brk'[k].status # brk[k].status =>
        \/ k \in F /\ brk'[k].status = "circuit_open"
        \/ k \in R \ F /\ brk[k].status = "half_open" /\ brk'[k].status = "active"
  <2>1. SUFFICES ASSUME NEW k \in Keys, brk'[k].status # brk[k].status
                 PROVE  \/ k \in F /\ brk'[k].status = "circuit_open"
                        \/ k \in R \ F /\ brk[k].status = "half_open" /\ brk'[k].status = "active"
    OBVIOUS
  <2>2. brk'[k] = IF k \notin R THEN brk[k]
                  ELSE IF items[k].ok THEN Succeed(brk[k]) ELSE Fail(brk[k])
    BY DEF Report
  <2>3. k \in R
    BY <2>1, <2>2
  <2>4. CASE items[k].ok
    BY <2>1, <2>2, <2>3, <2>4 DEF Succeed, Counting, NewBreaker
  <2>5. CASE ~items[k].ok
    BY <2>1, <2>2, <2>3, <2>5 DEF Fail, Counting
  <2>6. QED
    BY <2>4, <2>5
<1>6. Contract!Keep
  BY <1>3, KeepHolds DEF Report
<1>7. Contract!Learn(R, F)
  BY <1>1, <1>2, <1>4, <1>5, <1>6 DEF Contract!Learn
<1>8. QED
  BY <1>7

(* The sidecar implements the circuit breaker's contract. *)
THEOREM Implementation == Spec => ImplementsBreaker
<1>1. Init => Contract!BreakerInit
  BY DEF Init, NewBreaker, Contract!BreakerInit
<1>2. ASSUME TypeOK, [Next]_vars
      PROVE  [Contract!BreakerNext]_(Contract!breakerVars)
  <2>1. ASSUME NEW C \in SUBSET Keys, NEW conc \in Concurrencies, NEW s \in Strategies,
               NEW lag \in 0..MaxLag, Reserve(C, conc, s, lag)
        PROVE  Contract!BreakerNext
    BY <1>2, <2>1, ReserveAdmits DEF Contract!BreakerNext
  <2>2. ASSUME NEW R \in SUBSET Keys, NEW items \in [R -> Item], NEW T \in SUBSET R,
               Report(items, T)
        PROVE  Contract!BreakerNext
    BY <1>2, <2>2, ReportLearns DEF Contract!BreakerNext
  <2>3. ASSUME NEW k \in Keys, Bypass(k) PROVE Contract!BreakerNext
    <3>1. Contract!Bypass(k)
      <4>1. \A j \in Keys : out'[j] + stray'[j] = IF j = k THEN out[j] + stray[j] + 1
                                                         ELSE out[j] + stray[j]
        BY <1>2, <2>3 DEF Bypass, TypeOK
      <4>2. UNCHANGED <<brk, saved>> /\ FailOpen
        BY <2>3 DEF Bypass
      <4>3. QED
        BY <2>3, <4>1, <4>2 DEF Contract!Bypass
    <3>2. QED
      BY <2>3, <3>1 DEF Contract!BreakerNext
  <2>4. ASSUME NEW k \in Keys, Forget(k) PROVE Contract!BreakerNext
    <3>1. Contract!Forget(k)
      <4>1. \A j \in Keys : out'[j] + stray'[j] = IF j = k THEN (out[j] + stray[j]) - 1
                                                         ELSE out[j] + stray[j]
        BY <1>2, <2>4 DEF Forget, TypeOK
      <4>2. UNCHANGED <<brk, saved>> /\ out[k] + stray[k] > 0
        BY <1>2, <2>4 DEF Forget, TypeOK
      <4>3. QED
        BY <2>4, <4>1, <4>2 DEF Contract!Forget
    <3>2. QED
      BY <2>4, <3>1 DEF Contract!BreakerNext
  <2>5. CASE Restart
    <3>1. Contract!Crash
      BY <2>5 DEF Restart, Contract!Crash
    <3>2. QED
      BY <3>1 DEF Contract!BreakerNext
  <2>6. CASE Tick
    <3>1. \A k \in Keys : brk'[k].status = brk[k].status /\ saved'[k].status = saved[k].status
      BY <2>6 DEF Tick, Older
    <3>2. QED
      BY <2>6, <3>1 DEF Tick, Contract!breakerVars
  <2>7. CASE UNCHANGED vars
    BY <2>7 DEF vars, Contract!breakerVars
  <2>8. QED
    BY <1>2, <2>1, <2>2, <2>3, <2>4, <2>5, <2>6, <2>7 DEF Next
<1>3. QED
  BY <1>1, <1>2, TypeCorrect, PTL DEF Spec, ImplementsBreaker, Contract!BreakerSpec
=============================================================================
