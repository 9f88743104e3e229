------------------------------- MODULE Dispatch -------------------------------
(***************************************************************************)
(* The gateway's scheduler (internal/scheduler): a request selects keys,   *)
(* calls several of them at once, answers with the first success and feeds *)
(* the outcomes back.  Three deployments: without a sidecar, where the     *)
(* rows of upstream_keys, the failure counts and the token buckets of this *)
(* process decide (the code's `degrade`); and with one, where /reserve and *)
(* /report decide, and where a sidecar that cannot be reached makes the    *)
(* gateway either refuse (fail_closed) or select for itself (fail_open).   *)
(*                                                                         *)
(* Requests run concurrently, and no lock spans a selection: the rows are  *)
(* listed, then judged, then written back; a token is looked for when a    *)
(* key is selected and taken later.  The sidecar is Kernel's subject and   *)
(* here an environment that answers, or does not.  Time is relative, as in *)
(* Kernel.                                                                 *)
(***************************************************************************)
EXTENDS Integers, FiniteSets

CONSTANTS
  Keys,           (* enabled upstream keys; listed in ascending order      *)
  Requests,       (* slots for concurrent requests                         *)
  Streams,        (* those of them that ask for a stream                   *)
  Deployments,    (* subset of {"no_kernel", "fail_open", "fail_closed"}   *)
  Concurrency,    (* keys called at once                                   *)
  Fanout,         (* the active strategy's limit on that, 0 for none       *)
  Floor,          (* tokens the strategy's headroom keeps in a bucket      *)
  Capacity,       (* tokens in a full bucket                               *)
  Threshold,      (* consecutive failures that trip a key                  *)
  CooldownBase,   (* seconds of the first cooling                          *)
  MaxCooldown,    (* ... and of the longest: 600 in the code               *)
  WritesMayFail,  (* may a write to upstream_keys fail?                    *)
  MaxConsec       (* bound: consecutive failures counted on one key        *)

ASSUME DispatchAssumption ==
  /\ Keys \subseteq Nat /\ IsFiniteSet(Keys)
  /\ Streams \subseteq Requests /\ IsFiniteSet(Requests)
  /\ Deployments \subseteq {"no_kernel", "fail_open", "fail_closed"}
  /\ Concurrency \in Nat \ {0} /\ Fanout \in Nat /\ Floor \in Nat /\ Capacity \in Nat
  /\ Threshold \in Nat \ {0} /\ CooldownBase \in Nat /\ MaxCooldown \in Nat
  /\ WritesMayFail \in BOOLEAN /\ MaxConsec \in Nat

VARIABLES
  deployment,  (* how this process was started                             *)
  row,         (* Keys -> Row: table upstream_keys                         *)
  consec,      (* Keys -> Nat: HealthTracker.consecutiveFail               *)
  tokens,      (* Keys -> 0..Capacity: the buckets of ratelimit.Manager    *)
  gauge,       (* inflight.gauge                                           *)
  req,         (* Requests -> Request: the locals of each running request  *)
  unpaid,      (* history: keys called although no token was taken         *)
  failing      (* history: Keys -> consecutive failed calls, to Threshold  *)

vars == <<deployment, row, consec, tokens, gauge, req, unpaid, failing>>

-------------------------------------------------------------------------------
Status == {"active", "half_open", "circuit_open"}
Row == [status : Status, left : Nat]
Active == [status |-> "active", left |-> 0]
Trial == [status |-> "half_open", left |-> 0]
Open(n) == [status |-> "circuit_open", left |-> n]

Stages == {"idle", "listing", "choosing", "paying", "racing", "healing",
           "settling", "streaming"}

Nothing == [k \in Keys |-> Active]

(* seen: the listed rows.  keys: the selection, waiting: those of the n    *)
(* called of which nothing was received yet.  trial: keys on trial in this *)
(* request's view.  won, lost: keys whose call succeeded, whose call       *)
(* failed and is to be fed back.  granted: keys the sidecar reserved.      *)
Idle == [stage |-> "idle", seen |-> Nothing, keys |-> {}, waiting |-> {},
         trial |-> {}, won |-> {}, lost |-> {}, granted |-> {}]

Request ==
  [stage : Stages, seen : [Keys -> Row], keys : SUBSET Keys, waiting : SUBSET Keys,
   trial : SUBSET Keys, won : SUBSET Keys, lost : SUBSET Keys, granted : SUBSET Keys]

Degraded == deployment = "no_kernel"

Smaller(m, n) == IF m < n THEN m ELSE n

(* checkCircuitBreaker doubles once for each failure above the threshold,  *)
(* and applies the limit last.                                             *)
Doubled[i \in 0..MaxConsec] == IF i = 0 THEN CooldownBase ELSE 2 * Doubled[i - 1]

Cooldown(n) == Smaller(Doubled[n - Threshold], MaxCooldown)

(* A row that cannot be written is logged and left as it is.  The context  *)
(* of the request is also that of the write: its timeout, or a caller that *)
(* hangs up, is enough for one to fail.                                    *)
Losable == IF WritesMayFail THEN SUBSET Keys ELSE {{}}

Write(rows, lost) == row' = [k \in Keys |-> IF k \in lost THEN row[k] ELSE rows[k]]

(* Mutant: the gauge is not given back. *)
GaugeStaysUp(r) ==
  /\ req' = [req EXCEPT ![r] = Idle]
  /\ gauge' = gauge

(* The request returns to its caller and leaves the gauge, which its Dec   *)
(* never takes below 0.                                                    *)
Return(r) ==
  /\ req' = [req EXCEPT ![r] = Idle]
  /\ gauge' = IF gauge > 0 THEN gauge - 1 ELSE 0

-------------------------------------------------------------------------------
(***************************************************************************)
(* Selection.                                                              *)
(***************************************************************************)
Arrive(r) ==
  /\ req[r].stage = "idle"
  /\ req' = [req EXCEPT ![r].stage = "listing"]
  /\ gauge' = gauge + 1
  /\ UNCHANGED <<deployment, row, consec, tokens, unpaid, failing>>

List(r) ==
  /\ req[r].stage = "listing"
  /\ req' = [req EXCEPT ![r].stage = "choosing", ![r].seen = row]
  /\ UNCHANGED <<deployment, row, consec, tokens, gauge, unpaid, failing>>

(* The keys cannot be listed: the request ends with that error. *)
ListFails(r) ==
  /\ req[r].stage = "listing"
  /\ Return(r)
  /\ UNCHANGED <<deployment, row, consec, tokens, unpaid, failing>>

Cooling(r) ==
  {k \in Keys : req[r].seen[k].status = "circuit_open" /\ req[r].seen[k].left > 0}
Expired(r) ==
  {k \in Keys : req[r].seen[k].status = "circuit_open" /\ req[r].seen[k].left = 0}
OnTrial(r) == {k \in Keys : req[r].seen[k].status = "half_open"} \cup Expired(r)

(* The listed keys that are not cooling, of those on trial only the first, *)
(* and of these the ones whose bucket keeps its floor.                     *)
Viable(r) ==
  {k \in Keys \ Cooling(r) :
     /\ k \in OnTrial(r) => \A j \in OnTrial(r) : k <= j
     /\ tokens[k] >= Floor + 1}

(* Subsets of S with n elements, or S if it has fewer. *)
UpTo(n, S) == {T \in SUBSET S : Cardinality(T) = Smaller(n, Cardinality(S))}

Width == IF Degraded /\ Fanout > 0 THEN Smaller(Fanout, Concurrency) ELSE Concurrency

Call(r, keys, picked, trial, granted, stage) ==
  req' = [req EXCEPT ![r] = [Idle EXCEPT !.stage = stage, !.keys = keys,
                                         !.waiting = picked, !.trial = trial,
                                         !.granted = granted]]

(* Mutant: an expired key is let through as a trial without being marked. *)
PromoteInMemoryOnly(E, lost) ==
  /\ row' = row
  /\ consec' = [k \in Keys |-> IF k \in E THEN 0 ELSE consec[k]]

(* Expired keys are put on trial, with their failures forgotten. *)
Promote(E, lost) ==
  /\ Write([k \in Keys |-> IF k \in E THEN Trial ELSE row[k]], lost)
  /\ consec' = [k \in Keys |-> IF k \in E THEN 0 ELSE consec[k]]

(* selectKeysGo, and what follows it up to the calls.  Which of the viable *)
(* keys come first is left open: scores and the rotation decide.  Only a   *)
(* gateway started without a sidecar goes on to pay.                       *)
ChooseByItself(r, lost) ==
  /\ req[r].stage = "choosing"
  /\ Promote(Expired(r), lost)
  /\ failing' = [k \in Keys |-> IF k \in Expired(r) THEN 0 ELSE failing[k]]
  /\ IF Viable(r) = {}
     THEN Return(r) /\ UNCHANGED unpaid
     ELSE \E picked \in UpTo(Width, Viable(r)) :
            /\ Call(r, Viable(r), picked, OnTrial(r) \cap Viable(r), {},
                    IF Degraded THEN "paying" ELSE "racing")
            /\ unpaid' = IF Degraded THEN unpaid ELSE unpaid \cup picked
            /\ UNCHANGED gauge
  /\ UNCHANGED <<deployment, tokens>>

(* Mutant: a gateway that should refuse selects for itself. *)
MayChooseAlways(r) == TRUE

(* Without a sidecar, or with one that cannot be reached and is not insisted on. *)
MayChoose(r) == deployment \in {"no_kernel", "fail_open"}

ChooseGo(r) == MayChoose(r) /\ \E lost \in Losable : ChooseByItself(r, lost)

(* With a sidecar that must be reached and is not, the request is refused. *)
Refuse(r) ==
  /\ req[r].stage = "choosing" /\ deployment = "fail_closed"
  /\ Return(r)
  /\ UNCHANGED <<deployment, row, consec, tokens, unpaid, failing>>

(* The sidecar reserves some of the candidates it is sent, and says which  *)
(* of them it put on trial; that is written to upstream_keys.              *)
ChooseKernel(r) ==
  /\ req[r].stage = "choosing" /\ ~Degraded
  /\ \E S, E \in SUBSET (Keys \ Cooling(r)) :
       /\ Cardinality(S) <= Concurrency
       /\ row' = [k \in Keys |-> IF k \in E THEN Trial ELSE row[k]]
       /\ IF S = {} THEN Return(r)
          ELSE Call(r, S, S, {}, S, "racing") /\ UNCHANGED gauge
  /\ UNCHANGED <<deployment, consec, tokens, unpaid, failing>>

(* Allow takes a token if there is one; its answer is not looked at. *)
Pay(r) ==
  /\ req[r].stage = "paying"
  /\ tokens' = [k \in Keys |-> IF k \in req[r].waiting /\ tokens[k] > 0
                               THEN tokens[k] - 1 ELSE tokens[k]]
  /\ unpaid' = unpaid \cup {k \in req[r].waiting : tokens[k] = 0}
  /\ req' = [req EXCEPT ![r].stage = "racing"]
  /\ UNCHANGED <<deployment, row, consec, gauge, failing>>

-------------------------------------------------------------------------------
(***************************************************************************)
(* The race.  Results are received one by one until the first success or   *)
(* the last failure; what comes later is never received.                   *)
(***************************************************************************)
Receive(r, k) ==
  /\ req[r].stage = "racing" /\ k \in req[r].waiting

(* Mutant: a bucket follows the upstream's count upwards too. *)
CalibrateBothWays(r, k) ==
  \E n \in 0..(Capacity + 1) :
    /\ r \in Streams \/ ~Degraded => n = tokens[k]
    /\ tokens' = [tokens EXCEPT ![k] = n]

(* Without a sidecar, an answer that says how many requests remain lowers  *)
(* the bucket to that; that of a stream is not read.                       *)
Calibrate(r, k) ==
  \E n \in 0..tokens[k] :
    /\ r \in Streams \/ ~Degraded => n = tokens[k]
    /\ tokens' = [tokens EXCEPT ![k] = n]

Failed(k) ==
  failing' = [failing EXCEPT ![k] = Smaller(@ + 1, Threshold)]

(* No answer: a timeout, or no connection.  Health is not told; a call     *)
(* that was not a stream is reported to the sidecar.                       *)
NoAnswer(r, k) ==
  /\ Receive(r, k)
  /\ req' = [req EXCEPT ![r].waiting = @ \ {k},
                        ![r].lost = IF r \in Streams \/ Degraded THEN @ ELSE @ \cup {k}]
  /\ Failed(k)
  /\ UNCHANGED <<deployment, row, consec, tokens, gauge, unpaid>>

(* A rejection: HTTP 429 or another status that is no success. *)
Rejection(r, k) ==
  /\ Receive(r, k)
  /\ consec[k] < MaxConsec
  /\ req' = [req EXCEPT ![r].waiting = @ \ {k},
                        ![r].lost = IF Degraded THEN @ ELSE @ \cup {k}]
  /\ consec' = IF Degraded THEN [consec EXCEPT ![k] = @ + 1] ELSE consec
  /\ Failed(k)
  /\ Calibrate(r, k)
  /\ UNCHANGED <<deployment, row, gauge, unpaid>>

(* The first success ends the race.  Without a sidecar, health is told at  *)
(* once, and a key that was on trial when it was selected is then closed.  *)
Success(r, k) ==
  /\ Receive(r, k)
  /\ req' = [req EXCEPT ![r].waiting = {}, ![r].won = {k},
                        ![r].stage = IF Degraded /\ k \in req[r].trial
                                     THEN "healing" ELSE "settling"]
  /\ consec' = IF Degraded THEN [consec EXCEPT ![k] = 0] ELSE consec
  /\ failing' = [failing EXCEPT ![k] = 0]
  /\ Calibrate(r, k)
  /\ UNCHANGED <<deployment, row, gauge, unpaid>>

(* The row is closed whatever became of it since it was listed. *)
Heal(r) ==
  /\ req[r].stage = "healing"
  /\ \E lost \in Losable :
       Write([k \in Keys |-> IF k \in req[r].won THEN Active ELSE row[k]], lost)
  /\ req' = [req EXCEPT ![r].stage = "settling"]
  /\ UNCHANGED <<deployment, consec, tokens, gauge, unpaid, failing>>

-------------------------------------------------------------------------------
(***************************************************************************)
(* Settling.                                                               *)
(***************************************************************************)
(* Mutant: the loop over the results is left by a success only. *)
SettlingOnceWon(r) == req[r].stage = "settling"

Settling(r) ==
  \/ req[r].stage = "settling"
  \/ req[r].stage = "racing" /\ req[r].waiting = {}

(* A stream that was won stays up until its caller closes it. *)
Leave(r) ==
  IF r \in Streams /\ req[r].won # {}
  THEN req' = [req EXCEPT ![r] = [Idle EXCEPT !.stage = "streaming"]] /\ UNCHANGED gauge
  ELSE Return(r)

(* Without a sidecar: of all the keys selected, called or not, those at    *)
(* their threshold are opened, or their cooling is started again; a stream *)
(* does not look.                                                          *)
SettleGo(r) ==
  /\ Settling(r) /\ Degraded
  /\ \E lost \in Losable :
       Write([k \in Keys |-> IF r \notin Streams /\ k \in req[r].keys /\ consec[k] >= Threshold
                             THEN Open(Cooldown(consec[k])) ELSE row[k]], lost)
  /\ Leave(r)
  /\ UNCHANGED <<deployment, consec, tokens, unpaid, failing>>

(* With one: a batch goes to /report, and of the keys in it the sidecar    *)
(* says which it opened, and for how long, and which it closed, unless it  *)
(* could not be reached.                                                   *)
SettleKernel(r) ==
  /\ Settling(r) /\ ~Degraded
  /\ \E O \in SUBSET req[r].lost, C \in SUBSET req[r].won :
       \E left \in [O -> CooldownBase..MaxCooldown] :
         row' = [k \in Keys |-> IF k \in O THEN Open(left[k])
                                ELSE IF k \in C THEN Active ELSE row[k]]
  /\ Leave(r)
  /\ UNCHANGED <<deployment, consec, tokens, unpaid, failing>>

CloseStream(r) ==
  /\ req[r].stage = "streaming"
  /\ Return(r)
  /\ UNCHANGED <<deployment, row, consec, tokens, unpaid, failing>>

(* A second passes, and buckets refill by what it is worth, which may be    *)
(* less than a token: the fractions are left open.                         *)
Older(w) == [w EXCEPT !.left = IF @ > 0 THEN @ - 1 ELSE 0]

Tick ==
  /\ row' = [k \in Keys |-> Older(row[k])]
  /\ req' = [r \in Requests |->
               [req[r] EXCEPT !.seen = [k \in Keys |-> Older(req[r].seen[k])]]]
  /\ \E t \in [Keys -> 0..Capacity] :
       (\A k \in Keys : tokens[k] <= t[k]) /\ tokens' = t
  /\ UNCHANGED <<deployment, consec, gauge, unpaid, failing>>

-------------------------------------------------------------------------------
Init ==
  /\ deployment \in Deployments
  /\ row = [k \in Keys |-> Active]
  /\ consec = [k \in Keys |-> 0]
  /\ tokens = [k \in Keys |-> Capacity]
  /\ gauge = 0
  /\ req = [r \in Requests |-> Idle]
  /\ unpaid = {}
  /\ failing = consec

Step(r) ==
  \/ List(r)
  \/ ListFails(r)
  \/ ChooseGo(r)
  \/ Refuse(r)
  \/ ChooseKernel(r)
  \/ Pay(r)
  \/ \E k \in Keys : NoAnswer(r, k)
  \/ \E k \in Keys : Rejection(r, k)
  \/ \E k \in Keys : Success(r, k)
  \/ Heal(r)
  \/ SettleGo(r)
  \/ SettleKernel(r)
  \/ CloseStream(r)

Next == (\E r \in Requests : Arrive(r) \/ Step(r)) \/ Tick

Spec == Init /\ [][Next]_vars

(***************************************************************************)
(* Goroutines run, every call ends by the dispatch timeout at the latest,  *)
(* and a handler closes its stream when it returns; time passes.  For the  *)
(* recovery of keys, also: requests keep coming, and the store is read,    *)
(* and written where that matters, now and again.                          *)
(***************************************************************************)
Promoting(r, k) == MayChoose(r) /\ k \in Expired(r) /\ ChooseByItself(r, {})

FairSpec ==
  /\ Spec
  /\ WF_vars(Tick)
  /\ \A r \in Requests :
       /\ WF_vars(Arrive(r)) /\ WF_vars(Step(r)) /\ SF_vars(List(r))
       /\ \A k \in Keys : SF_vars(Promoting(r, k))

-------------------------------------------------------------------------------
(* Every variable keeps its type; buckets stay within their capacity.      *)
TypeOK ==
  /\ deployment \in Deployments
  /\ row \in [Keys -> Row]
  /\ consec \in [Keys -> 0..MaxConsec]
  /\ tokens \in [Keys -> 0..Capacity]
  /\ gauge \in Nat
  /\ req \in [Requests -> Request]
  /\ unpaid \subseteq Keys
  /\ failing \in [Keys -> 0..Threshold]

(* The in-flight gauge, from which Auto-Pilot derives its tier, counts the *)
(* requests between their first step and their return or the end of their  *)
(* stream: every early return, error and success gives it back once.       *)
GaugeCountsRequests ==
  gauge = Cardinality({r \in Requests : req[r].stage # "idle"})

(* A gateway told to insist on the sidecar calls no key that it did not    *)
(* reserve.                                                                *)
FailClosedCallsAreGranted ==
  deployment = "fail_closed" => \A r \in Requests : req[r].waiting \subseteq req[r].granted

(* Every request comes to its end, whatever the upstreams and the sidecar  *)
(* answer.                                                                 *)
RequestsEnd ==
  \A r \in Requests : req[r].stage # "idle" ~> req[r].stage = "idle"

(* A row marked open is not open forever: the next request after its       *)
(* cooling puts it on trial.                                               *)
OpenRowsGetATrial ==
  \A k \in Keys : Degraded /\ row[k].status = "circuit_open" ~> row[k].status # "circuit_open"

(* What the README claims (README.md, features: strictly within official   *)
(* limits, one token bucket per key): no key is called without a token.    *)
CallsArePaid == unpaid = {}

(* What the design asks (docs/specs/2026-06-19-n-slmcrs-design.md section  *)
(* 7.4: N consecutive failures, timeouts included, open the breaker): when *)
(* no request is under way, a key that failed Threshold times is open.     *)
FailuresOpenTheKey ==
  (\A r \in Requests : req[r].stage = "idle") =>
    \A k \in Keys : Degraded /\ failing[k] = Threshold => row[k].status = "circuit_open"
=============================================================================
