---------------------------- MODULE DispatchProofs ----------------------------
(***************************************************************************)
(* Theorems about Dispatch, for every number of keys and requests, every   *)
(* deployment and every limit.  First what a cooling can be, then for each *)
(* step of a request what it does to its own record, to the gauge and to   *)
(* what it was granted, then the invariants.                               *)
(***************************************************************************)
EXTENDS Dispatch, Lemmas

LEMMA Numbers ==
  /\ Threshold \in Nat /\ Threshold > 0 /\ Capacity \in Nat /\ Floor \in Nat
  /\ CooldownBase \in Nat /\ MaxCooldown \in Nat /\ MaxConsec \in Nat
BY DispatchAssumption

(***************************************************************************)
(* The loop of checkCircuitBreaker.                                        *)
(***************************************************************************)
LEMMA DoubledExists ==
  \A i \in 0..MaxConsec :
    /\ Doubled[i] \in Nat
    /\ Doubled[i] = IF i = 0 THEN CooldownBase ELSE 2 * Doubled[i - 1]
<1> DEFINE Rounds(f) == [i \in 0..MaxConsec |->
                           IF i = 0 THEN CooldownBase ELSE 2 * f[i - 1]]
<1>0. MaxConsec + 1 \in Nat /\ CooldownBase \in Nat
  BY Numbers
<1>1. PICK g \in [0..(MaxConsec + 1) -> Nat] : IsRounds(g, CooldownBase, MaxConsec + 1, {})
  BY <1>0, RoundsExist
<1> DEFINE f == [i \in 0..MaxConsec |-> g[i + 1]]
<1>2. ASSUME NEW i \in 0..MaxConsec PROVE f[i] = Rounds(f)[i]
  <2>1. i + 1 \in 0..(MaxConsec + 1) /\ (i > 0 => i - 1 \in 0..MaxConsec /\ (i - 1) + 1 = i)
    BY Numbers
  <2>2. g[i + 1] = IF i + 1 <= 1 THEN CooldownBase ELSE 2 * g[i]
    BY <1>1, <2>1 DEF IsRounds
  <2>3. CASE i = 0
    BY <2>2, <2>3
  <2>4. CASE i > 0
    <3>1. f[i - 1] = g[i]
      BY <2>1, <2>4
    <3>2. QED
      BY <2>2, <2>4, <3>1
  <2>5. QED
    BY <2>3, <2>4
<1>3. f = Rounds(f)
  BY <1>2
<1> HIDE DEF f
<1>4. Doubled = Rounds(Doubled)
  BY <1>3 DEF Doubled
<1>5. \A i \in 0..MaxConsec : Doubled[i] = IF i = 0 THEN CooldownBase ELSE 2 * Doubled[i - 1]
  BY <1>4
<1>6. \A i \in 0..MaxConsec : Doubled[i] \in Nat
  <2> HIDE DEF Rounds
  <2>1. ASSUME NEW i \in 0..MaxConsec
        PROVE  \/ Doubled[i] = CooldownBase
               \/ i > 0 /\ (Doubled[i] = Doubled[i - 1] \/ Doubled[i] = 2 * Doubled[i - 1])
    BY Numbers, <1>5
  <2>2. KeepsOrDoubles(Doubled, CooldownBase, MaxConsec)
    BY <2>1 DEF KeepsOrDoubles
  <2>3. QED
    BY Numbers, <2>2, RoundsAreNumbers
<1>7. QED
  BY <1>5, <1>6

LEMMA CooldownIsNat ==
  ASSUME NEW n \in 0..MaxConsec, n >= Threshold
  PROVE  Cooldown(n) \in Nat
<1>1. n - Threshold \in 0..MaxConsec
  BY Numbers
<1>2. Doubled[n - Threshold] \in Nat
  BY <1>1, DoubledExists
<1>3. QED
  BY <1>2, Numbers DEF Cooldown, Smaller

(***************************************************************************)
(* The steps of a request.  In every one of them it gets a new record x,   *)
(* and moves the gauge as the record says.                                 *)
(***************************************************************************)
Granted(x) == x.waiting \subseteq x.granted

Moves(r, x) ==
  /\ req' = [req EXCEPT ![r] = x]
  /\ \/ req[r].stage = "idle" /\ x.stage # "idle" /\ gauge' = gauge + 1
     \/ req[r].stage # "idle" /\ x.stage = "idle" /\ gauge' = IF gauge > 0 THEN gauge - 1 ELSE 0
     \/ req[r].stage # "idle" /\ x.stage # "idle" /\ gauge' = gauge
  /\ deployment = "fail_closed" /\ Granted(req[r]) => Granted(x)

RowsTyped == row' \in [Keys -> Row]

OthersTyped ==
  /\ consec' \in [Keys -> 0..MaxConsec] /\ tokens' \in [Keys -> 0..Capacity]
  /\ unpaid' \subseteq Keys /\ failing' \in [Keys -> 0..Threshold]

LEMMA IdleIsGranted == Idle \in Request /\ Idle.stage = "idle" /\ Granted(Idle)
BY DEF Idle, Request, Nothing, Active, Row, Status, Stages, Granted

LEMMA ReturnMoves ==
  ASSUME NEW r \in Requests, TypeOK, Return(r), req[r].stage # "idle"
  PROVE  Moves(r, Idle)
BY IdleIsGranted DEF Return, Moves

LEMMA WritesAreTyped ==
  ASSUME TypeOK, NEW rows \in [Keys -> Row], NEW lost, Write(rows, lost)
  PROVE  RowsTyped
BY DEF Write, TypeOK, RowsTyped

LEMMA StatesAreRows ==
  Active \in Row /\ Trial \in Row /\ \A n \in Nat : Open(n) \in Row
BY DEF Active, Trial, Open, Row, Status

(* The selection: what ChooseByItself and ChooseKernel make of the record. *)
LEMMA CallMoves ==
  ASSUME NEW r \in Requests, TypeOK, req[r].stage = "choosing",
         NEW keys \in SUBSET Keys, NEW picked \in SUBSET Keys, NEW trial \in SUBSET Keys,
         NEW granted \in SUBSET Keys, NEW stage \in Stages, stage # "idle",
         Call(r, keys, picked, trial, granted, stage), UNCHANGED gauge,
         deployment = "fail_closed" => picked \subseteq granted
  PROVE  \E x \in Request : Moves(r, x)
<1> DEFINE x == [Idle EXCEPT !.stage = stage, !.keys = keys, !.waiting = picked,
                             !.trial = trial, !.granted = granted]
<1>1. x \in Request /\ x.stage = stage /\ x.waiting = picked /\ x.granted = granted
  BY DEF Idle, Request, Nothing, Active, Row, Status
<1>2. Moves(r, x)
  BY <1>1 DEF Call, Moves, Granted
<1>3. QED
  BY <1>1, <1>2

LEMMA ArriveMoves ==
  ASSUME NEW r \in Requests, TypeOK, Arrive(r)
  PROVE  (\E x \in Request : Moves(r, x)) /\ RowsTyped /\ OthersTyped
<1> DEFINE x == [req[r] EXCEPT !.stage = "listing"]
<1>1. x \in Request /\ x.stage = "listing" /\ x.waiting = req[r].waiting
        /\ x.granted = req[r].granted
  BY DEF TypeOK, Request, Stages
<1>2. req' = [req EXCEPT ![r] = x]
  BY DEF Arrive
<1>3. Moves(r, x)
  BY <1>1, <1>2 DEF Arrive, Moves, Granted
<1>4. QED
  BY <1>1, <1>3 DEF Arrive, TypeOK, RowsTyped, OthersTyped

LEMMA ListMoves ==
  ASSUME NEW r \in Requests, TypeOK, List(r) \/ ListFails(r)
  PROVE  (\E x \in Request : Moves(r, x)) /\ RowsTyped /\ OthersTyped
<1>1. RowsTyped /\ OthersTyped
  BY DEF List, ListFails, TypeOK, RowsTyped, OthersTyped
<1>2. CASE List(r)
  <2> DEFINE x == [req[r] EXCEPT !.stage = "choosing", !.seen = row]
  <2>1. x \in Request /\ x.stage = "choosing" /\ x.waiting = req[r].waiting
          /\ x.granted = req[r].granted
    BY DEF TypeOK, Request, Stages
  <2>2. req' = [req EXCEPT ![r] = x]
    BY <1>2 DEF List, TypeOK
  <2>3. Moves(r, x)
    BY <1>2, <2>1, <2>2 DEF List, Moves, Granted
  <2>4. QED
    BY <1>1, <2>1, <2>3
<1>3. CASE ListFails(r)
  BY <1>1, <1>3, ReturnMoves, IdleIsGranted DEF ListFails
<1>4. QED
  BY <1>2, <1>3

LEMMA RefuseMoves ==
  ASSUME NEW r \in Requests, TypeOK, Refuse(r) \/ CloseStream(r)
  PROVE  (\E x \in Request : Moves(r, x)) /\ RowsTyped /\ OthersTyped
<1>1. RowsTyped /\ OthersTyped
  BY DEF Refuse, CloseStream, TypeOK, RowsTyped, OthersTyped
<1>2. QED
  BY <1>1, ReturnMoves, IdleIsGranted DEF Refuse, CloseStream

(* A gateway that insists on the sidecar does not choose by itself. *)
LEMMA ChooseGoMoves ==
  ASSUME NEW r \in Requests, TypeOK, ChooseGo(r)
  PROVE  (\E x \in Request : Moves(r, x)) /\ RowsTyped /\ OthersTyped
<1>1. PICK lost \in Losable : ChooseByItself(r, lost)
  BY DEF ChooseGo
<1>2. req[r].stage = "choosing" /\ deployment # "fail_closed"
  BY <1>1 DEF ChooseGo, MayChoose, ChooseByItself
<1>3. RowsTyped
  <2>1. [k \in Keys |-> IF k \in Expired(r) THEN Trial ELSE row[k]] \in [Keys -> Row]
    BY StatesAreRows DEF TypeOK
  <2>2. Write([k \in Keys |-> IF k \in Expired(r) THEN Trial ELSE row[k]], lost)
    BY <1>1 DEF ChooseByItself, Promote
  <2>3. QED
    BY <2>1, <2>2, WritesAreTyped
<1>4. Viable(r) \subseteq Keys
  BY DEF Viable
<1>5. OthersTyped /\ \E x \in Request : Moves(r, x)
  <2>1. /\ consec' \in [Keys -> 0..MaxConsec] /\ failing' \in [Keys -> 0..Threshold]
        /\ tokens' \in [Keys -> 0..Capacity]
    BY <1>1, Numbers DEF ChooseByItself, Promote, TypeOK
  <2>2. CASE Viable(r) = {}
    <3>1. Return(r) /\ unpaid' = unpaid
      BY <1>1, <2>2 DEF ChooseByItself
    <3>2. QED
      BY <1>2, <2>1, <3>1, ReturnMoves, IdleIsGranted DEF OthersTyped, TypeOK
  <2>3. CASE Viable(r) # {}
    <3>1. PICK picked \in UpTo(Width, Viable(r)) :
            /\ Call(r, Viable(r), picked, OnTrial(r) \cap Viable(r), {},
                    IF Degraded THEN "paying" ELSE "racing")
            /\ unpaid' = IF Degraded THEN unpaid ELSE unpaid \cup picked
            /\ UNCHANGED gauge
      BY <1>1, <2>3 DEF ChooseByItself
    <3>2. picked \subseteq Keys /\ OnTrial(r) \cap Viable(r) \subseteq Keys
      BY <1>4 DEF UpTo
    <3>3. PICK stage \in {"paying", "racing"} :
            Call(r, Viable(r), picked, OnTrial(r) \cap Viable(r), {}, stage)
      BY <3>1
    <3>4. \E x \in Request : Moves(r, x)
      BY <1>2, <1>4, <3>1, <3>2, <3>3, CallMoves DEF Stages
    <3>5. QED
      BY <2>1, <3>1, <3>2, <3>4 DEF OthersTyped, TypeOK
  <2>4. QED
    BY <2>2, <2>3
<1>6. QED
  BY <1>3, <1>5

LEMMA ChooseKernelMoves ==
  ASSUME NEW r \in Requests, TypeOK, ChooseKernel(r)
  PROVE  (\E x \in Request : Moves(r, x)) /\ RowsTyped /\ OthersTyped
<1>1. PICK S, E \in SUBSET (Keys \ Cooling(r)) :
        /\ row' = [k \in Keys |-> IF k \in E THEN Trial ELSE row[k]]
        /\ IF S = {} THEN Return(r)
           ELSE Call(r, S, S, {}, S, "racing") /\ UNCHANGED gauge
  BY DEF ChooseKernel
<1>2. req[r].stage = "choosing"
  BY DEF ChooseKernel
<1>3. RowsTyped /\ OthersTyped
  BY <1>1, StatesAreRows DEF ChooseKernel, TypeOK, RowsTyped, OthersTyped
<1>4. CASE S = {}
  BY <1>1, <1>2, <1>3, <1>4, ReturnMoves, IdleIsGranted
<1>5. CASE S # {}
  <2>1. S \in SUBSET Keys /\ {} \in SUBSET Keys /\ "racing" \in Stages
    BY DEF Stages
  <2>2. Call(r, S, S, {}, S, "racing") /\ UNCHANGED gauge
    BY <1>1, <1>5
  <2>3. QED
    BY <1>2, <1>3, <2>1, <2>2, CallMoves
<1>6. QED
  BY <1>4, <1>5

LEMMA PayMoves ==
  ASSUME NEW r \in Requests, TypeOK, Pay(r)
  PROVE  (\E x \in Request : Moves(r, x)) /\ RowsTyped /\ OthersTyped
<1> DEFINE x == [req[r] EXCEPT !.stage = "racing"]
<1>1. x \in Request /\ x.stage = "racing" /\ x.waiting = req[r].waiting
        /\ x.granted = req[r].granted
  BY DEF TypeOK, Request, Stages
<1>2. req' = [req EXCEPT ![r] = x]
  BY DEF Pay
<1>3. Moves(r, x)
  BY <1>1, <1>2 DEF Pay, Moves, Granted
<1>4. tokens' \in [Keys -> 0..Capacity] /\ unpaid' \subseteq Keys
  BY Numbers DEF Pay, TypeOK, Request
<1>5. QED
  BY <1>1, <1>3, <1>4 DEF Pay, TypeOK, RowsTyped, OthersTyped

(***************************************************************************)
(* The race and what follows it.                                           *)
(***************************************************************************)
LEMMA CalibrateLowers ==
  ASSUME TypeOK, NEW r \in Requests, NEW k \in Keys, Calibrate(r, k)
  PROVE  tokens' \in [Keys -> 0..Capacity]
<1>1. PICK n \in 0..tokens[k] : tokens' = [tokens EXCEPT ![k] = n]
  BY DEF Calibrate
<1>2. n \in 0..Capacity
  BY Numbers DEF TypeOK
<1>3. QED
  BY <1>1, <1>2 DEF TypeOK

LEMMA FailedIsBounded ==
  ASSUME TypeOK, NEW k \in Keys, Failed(k)
  PROVE  failing' \in [Keys -> 0..Threshold]
<1>1. Smaller(failing[k] + 1, Threshold) \in 0..Threshold
  BY Numbers DEF TypeOK, Smaller
<1>2. QED
  BY <1>1 DEF Failed, TypeOK

(* A received failure takes the key out of those waited for. *)
LEMMA FailureMoves ==
  ASSUME NEW r \in Requests, NEW k \in Keys, TypeOK, Receive(r, k), UNCHANGED gauge,
         NEW lost \in SUBSET Keys,
         req' = [req EXCEPT ![r].waiting = @ \ {k}, ![r].lost = lost]
  PROVE  \E x \in Request : Moves(r, x)
<1> DEFINE x == [req[r] EXCEPT !.waiting = @ \ {k}, !.lost = lost]
<1>1. x \in Request /\ x.stage = "racing" /\ x.waiting \subseteq req[r].waiting
        /\ x.granted = req[r].granted
  BY DEF TypeOK, Request, Receive
<1>2. req' = [req EXCEPT ![r] = x]
  BY DEF TypeOK
<1>3. Moves(r, x)
  BY <1>1, <1>2 DEF Receive, Moves, Granted
<1>4. QED
  BY <1>1, <1>3

LEMMA NoAnswerMoves ==
  ASSUME NEW r \in Requests, NEW k \in Keys, TypeOK, NoAnswer(r, k)
  PROVE  (\E x \in Request : Moves(r, x)) /\ RowsTyped /\ OthersTyped
<1> DEFINE lost == IF r \in Streams \/ Degraded THEN req[r].lost ELSE req[r].lost \cup {k}
<1>1. lost \in SUBSET Keys /\ req' = [req EXCEPT ![r].waiting = @ \ {k}, ![r].lost = lost]
  BY DEF NoAnswer, TypeOK, Request
<1> HIDE DEF lost
<1>2. \E x \in Request : Moves(r, x)
  BY <1>1, FailureMoves DEF NoAnswer
<1>3. failing' \in [Keys -> 0..Threshold]
  BY FailedIsBounded DEF NoAnswer
<1>4. QED
  BY <1>2, <1>3 DEF NoAnswer, TypeOK, RowsTyped, OthersTyped

LEMMA RejectionMoves ==
  ASSUME NEW r \in Requests, NEW k \in Keys, TypeOK, Rejection(r, k)
  PROVE  (\E x \in Request : Moves(r, x)) /\ RowsTyped /\ OthersTyped
<1> DEFINE lost == IF Degraded THEN req[r].lost ELSE req[r].lost \cup {k}
<1>1. lost \in SUBSET Keys /\ req' = [req EXCEPT ![r].waiting = @ \ {k}, ![r].lost = lost]
  BY DEF Rejection, TypeOK, Request
<1> HIDE DEF lost
<1>2. \E x \in Request : Moves(r, x)
  BY <1>1, FailureMoves DEF Rejection
<1>3. failing' \in [Keys -> 0..Threshold] /\ tokens' \in [Keys -> 0..Capacity]
  BY FailedIsBounded, CalibrateLowers DEF Rejection
<1>4. consec' \in [Keys -> 0..MaxConsec]
  <2>1. consec[k] < MaxConsec /\ consec' = IF Degraded THEN [consec EXCEPT ![k] = @ + 1] ELSE consec
    BY DEF Rejection
  <2>2. QED
    BY <2>1, Numbers DEF TypeOK
<1>5. QED
  BY <1>2, <1>3, <1>4 DEF Rejection, TypeOK, RowsTyped, OthersTyped

LEMMA SuccessMoves ==
  ASSUME NEW r \in Requests, NEW k \in Keys, TypeOK, Success(r, k)
  PROVE  (\E x \in Request : Moves(r, x)) /\ RowsTyped /\ OthersTyped
<1> DEFINE stage == IF Degraded /\ k \in req[r].trial THEN "healing" ELSE "settling"
           x == [req[r] EXCEPT !.waiting = {}, !.won = {k}, !.stage = stage]
<1>1. x \in Request /\ x.stage # "idle" /\ x.waiting = {}
  BY DEF TypeOK, Request, Stages
<1>2. req' = [req EXCEPT ![r] = x]
  BY DEF Success, TypeOK
<1>3. Moves(r, x)
  BY <1>1, <1>2 DEF Success, Receive, Moves, Granted
<1>4. tokens' \in [Keys -> 0..Capacity]
  BY CalibrateLowers DEF Success
<1>5. consec' \in [Keys -> 0..MaxConsec] /\ failing' \in [Keys -> 0..Threshold]
  BY Numbers DEF Success, TypeOK
<1>6. QED
  BY <1>1, <1>3, <1>4, <1>5 DEF Success, TypeOK, RowsTyped, OthersTyped

LEMMA HealMoves ==
  ASSUME NEW r \in Requests, TypeOK, Heal(r)
  PROVE  (\E x \in Request : Moves(r, x)) /\ RowsTyped /\ OthersTyped
<1> DEFINE x == [req[r] EXCEPT !.stage = "settling"]
           rows == [k \in Keys |-> IF k \in req[r].won THEN Active ELSE row[k]]
<1>1. x \in Request /\ x.stage = "settling" /\ x.waiting = req[r].waiting
        /\ x.granted = req[r].granted
  BY DEF TypeOK, Request, Stages
<1>2. req' = [req EXCEPT ![r] = x]
  BY DEF Heal
<1>3. Moves(r, x)
  BY <1>1, <1>2 DEF Heal, Moves, Granted
<1>4. RowsTyped
  <2>1. rows \in [Keys -> Row]
    BY StatesAreRows DEF TypeOK
  <2>2. \E lost \in Losable : Write(rows, lost)
    BY DEF Heal
  <2>3. QED
    BY <2>1, <2>2, WritesAreTyped
<1>5. QED
  BY <1>1, <1>3, <1>4 DEF Heal, TypeOK, OthersTyped

LEMMA LeaveMoves ==
  ASSUME NEW r \in Requests, TypeOK, Settling(r), Leave(r)
  PROVE  \E x \in Request : Moves(r, x)
<1>1. req[r].stage # "idle"
  BY DEF Settling
<1>2. CASE r \in Streams /\ req[r].won # {}
  <2> DEFINE x == [Idle EXCEPT !.stage = "streaming"]
  <2>1. x \in Request /\ x.stage = "streaming" /\ x.waiting = {}
    BY DEF Idle, Request, Nothing, Active, Row, Status, Stages
  <2>2. Moves(r, x)
    BY <1>1, <1>2, <2>1 DEF Leave, Moves, Granted
  <2>3. QED
    BY <2>1, <2>2
<1>3. CASE ~(r \in Streams /\ req[r].won # {})
  BY <1>1, <1>3, ReturnMoves, IdleIsGranted DEF Leave
<1>4. QED
  BY <1>2, <1>3

LEMMA SettleGoMoves ==
  ASSUME NEW r \in Requests, TypeOK, SettleGo(r)
  PROVE  (\E x \in Request : Moves(r, x)) /\ RowsTyped /\ OthersTyped
<1> DEFINE rows == [k \in Keys |->
                      IF r \notin Streams /\ k \in req[r].keys /\ consec[k] >= Threshold
                      THEN Open(Cooldown(consec[k])) ELSE row[k]]
<1>1. rows \in [Keys -> Row]
  <2> SUFFICES ASSUME NEW k \in Keys, consec[k] >= Threshold
               PROVE  Open(Cooldown(consec[k])) \in Row
    BY DEF TypeOK
  <2>1. Cooldown(consec[k]) \in Nat
    BY CooldownIsNat DEF TypeOK
  <2>2. QED
    BY <2>1, StatesAreRows
<1>2. \E lost \in Losable : Write(rows, lost)
  BY DEF SettleGo
<1>3. RowsTyped
  BY <1>1, <1>2, WritesAreTyped
<1>4. QED
  BY <1>3, LeaveMoves DEF SettleGo, TypeOK, OthersTyped

LEMMA SettleKernelMoves ==
  ASSUME NEW r \in Requests, TypeOK, SettleKernel(r)
  PROVE  (\E x \in Request : Moves(r, x)) /\ RowsTyped /\ OthersTyped
<1>1. RowsTyped
  <2>0. PICK O \in SUBSET req[r].lost, C \in SUBSET req[r].won :
          \E left \in [O -> CooldownBase..MaxCooldown] :
            row' = [k \in Keys |-> IF k \in O THEN Open(left[k])
                                   ELSE IF k \in C THEN Active ELSE row[k]]
    BY DEF SettleKernel
  <2>1. PICK left \in [O -> CooldownBase..MaxCooldown] :
          row' = [k \in Keys |-> IF k \in O THEN Open(left[k])
                                 ELSE IF k \in C THEN Active ELSE row[k]]
    BY <2>0
  <2>2. \A k \in O : left[k] \in Nat
    BY <2>1, Numbers
  <2>3. QED
    BY <2>1, <2>2, StatesAreRows DEF TypeOK, RowsTyped
<1>2. QED
  BY <1>1, LeaveMoves DEF SettleKernel, TypeOK, OthersTyped

LEMMA RequestMoves ==
  ASSUME NEW r \in Requests, TypeOK, Arrive(r) \/ Step(r)
  PROVE  (\E x \in Request : Moves(r, x)) /\ RowsTyped /\ OthersTyped /\ UNCHANGED deployment
<1>1. UNCHANGED deployment
  BY DEF Step, Arrive, List, ListFails, ChooseGo, ChooseByItself, Refuse, ChooseKernel, Pay,
         NoAnswer, Rejection, Success, Heal, SettleGo, SettleKernel, CloseStream
<1>2. QED
  BY <1>1, ArriveMoves, ListMoves, ChooseGoMoves, RefuseMoves, ChooseKernelMoves, PayMoves,
     NoAnswerMoves, RejectionMoves, SuccessMoves, HealMoves, SettleGoMoves, SettleKernelMoves
     DEF Step

(* A second that passes changes no more than times, and adds tokens. *)
LEMMA TickTypes ==
  ASSUME TypeOK, Tick
  PROVE  /\ RowsTyped /\ OthersTyped /\ UNCHANGED <<deployment, gauge>>
         /\ req' \in [Requests -> Request]
         /\ \A r \in Requests : /\ req'[r].stage = req[r].stage
                                /\ req'[r].waiting = req[r].waiting
                                /\ req'[r].granted = req[r].granted
<1>1. \A w \in Row : Older(w) \in Row
  BY DEF Older, Row
<1>2. RowsTyped /\ OthersTyped /\ UNCHANGED <<deployment, gauge>>
  BY <1>1 DEF Tick, TypeOK, RowsTyped, OthersTyped
<1>3. ASSUME NEW r \in Requests
      PROVE  /\ req'[r] \in Request
             /\ req'[r].stage = req[r].stage /\ req'[r].waiting = req[r].waiting
             /\ req'[r].granted = req[r].granted
  <2>1. req'[r] = [req[r] EXCEPT !.seen = [k \in Keys |-> Older(req[r].seen[k])]]
    BY DEF Tick
  <2>2. req[r] \in Request
    BY DEF TypeOK
  <2>3. [k \in Keys |-> Older(req[r].seen[k])] \in [Keys -> Row]
    BY <1>1, <2>2 DEF Request
  <2>4. QED
    BY <2>1, <2>2, <2>3 DEF Request
<1>4. req' = [r \in Requests |-> req'[r]]
  BY DEF Tick
<1>5. QED
  BY <1>2, <1>3, <1>4

-------------------------------------------------------------------------------
(***************************************************************************)
(* The inductive invariant: the types, the count, and what a gateway that  *)
(* insists on the sidecar waits for.  The count needs the types only, but  *)
(* for each request what Moves says of its step.                           *)
(***************************************************************************)
InFlight == {r \in Requests : req[r].stage # "idle"}

IInv == TypeOK /\ GaugeCountsRequests /\ FailClosedCallsAreGranted

LEMMA InFlightIsFinite == IsFiniteSet(InFlight)
BY DispatchAssumption, FS_Subset DEF InFlight

LEMMA InitInv == Init => IInv
<1> SUFFICES ASSUME Init PROVE IInv
  OBVIOUS
<1>1. TypeOK
  BY StatesAreRows, IdleIsGranted, Numbers DEF Init, TypeOK
<1>2. GaugeCountsRequests
  <2>1. InFlight = {}
    BY IdleIsGranted DEF Init, InFlight
  <2>2. QED
    BY <2>1, FS_EmptySet DEF Init, InFlight, GaugeCountsRequests
<1>3. FailClosedCallsAreGranted
  BY IdleIsGranted DEF Init, FailClosedCallsAreGranted, Granted
<1>4. QED
  BY <1>1, <1>2, <1>3 DEF IInv

LEMMA MovesKeepCount ==
  ASSUME TypeOK, GaugeCountsRequests, NEW r \in Requests, NEW x \in Request, Moves(r, x)
  PROVE  GaugeCountsRequests' /\ gauge' \in Nat
<1>1. gauge = Cardinality(InFlight) /\ gauge \in Nat
  BY DEF GaugeCountsRequests, InFlight, TypeOK
<1>2. \A s \in Requests : req'[s].stage = IF s = r THEN x.stage ELSE req[s].stage
  BY DEF Moves, TypeOK
<1>3. SUFFICES gauge' = Cardinality(InFlight') /\ gauge' \in Nat
  BY DEF GaugeCountsRequests, InFlight
<1>4. CASE req[r].stage = "idle" /\ x.stage # "idle" /\ gauge' = gauge + 1
  <2>1. InFlight' = InFlight \cup {r} /\ r \notin InFlight
    BY <1>2, <1>4 DEF InFlight
  <2>2. Cardinality(InFlight \cup {r}) = Cardinality(InFlight) + 1
    BY <2>1, InFlightIsFinite, FS_AddElement
  <2>3. QED
    BY <1>1, <1>4, <2>1, <2>2
<1>5. CASE /\ req[r].stage # "idle" /\ x.stage = "idle"
           /\ gauge' = IF gauge > 0 THEN gauge - 1 ELSE 0
  <2>1. InFlight' = InFlight \ {r} /\ r \in InFlight
    BY <1>2, <1>5 DEF InFlight
  <2>2. Cardinality(InFlight \ {r}) = Cardinality(InFlight) - 1
    BY <2>1, InFlightIsFinite, FS_RemoveElement
  <2>3. Cardinality(InFlight \ {r}) \in Nat
    BY InFlightIsFinite, FS_RemoveElement, FS_CardinalityType
  <2>4. QED
    BY <1>1, <1>5, <2>1, <2>2, <2>3
<1>6. CASE req[r].stage # "idle" /\ x.stage # "idle" /\ gauge' = gauge
  <2>1. InFlight' = InFlight
    BY <1>2, <1>6 DEF InFlight
  <2>2. QED
    BY <1>1, <1>6, <2>1
<1>7. QED
  BY <1>4, <1>5, <1>6 DEF Moves

LEMMA StepInv == IInv /\ [Next]_vars => IInv'
<1> SUFFICES ASSUME IInv, [Next]_vars PROVE IInv'
  OBVIOUS
<1>1. TypeOK /\ GaugeCountsRequests /\ FailClosedCallsAreGranted
  BY DEF IInv
<1>2. ASSUME NEW r \in Requests, Arrive(r) \/ Step(r) PROVE IInv'
  <2>1. PICK x \in Request : Moves(r, x)
    BY <1>1, <1>2, RequestMoves
  <2>2. RowsTyped /\ OthersTyped /\ UNCHANGED deployment
    BY <1>1, <1>2, RequestMoves
  <2>3. GaugeCountsRequests' /\ gauge' \in Nat
    BY <1>1, <2>1, MovesKeepCount
  <2>4. TypeOK'
    BY <1>1, <2>1, <2>2, <2>3 DEF TypeOK, RowsTyped, OthersTyped, Moves
  <2>5. FailClosedCallsAreGranted'
    BY <1>1, <2>1, <2>2 DEF TypeOK, Moves, Granted, FailClosedCallsAreGranted
  <2>6. QED
    BY <2>3, <2>4, <2>5 DEF IInv
<1>3. ASSUME Tick PROVE IInv'
  <2>1. TypeOK'
    BY <1>1, <1>3, TickTypes DEF TypeOK, RowsTyped, OthersTyped
  <2>2. GaugeCountsRequests'
    <3>1. InFlight' = InFlight /\ gauge' = gauge
      BY <1>1, <1>3, TickTypes DEF InFlight
    <3>2. QED
      BY <1>1, <3>1 DEF GaugeCountsRequests, InFlight
  <2>3. FailClosedCallsAreGranted'
    BY <1>1, <1>3, TickTypes DEF FailClosedCallsAreGranted
  <2>4. QED
    BY <2>1, <2>2, <2>3 DEF IInv
<1>4. CASE UNCHANGED vars
  BY <1>1, <1>4 DEF vars, IInv, TypeOK, GaugeCountsRequests, FailClosedCallsAreGranted
<1>5. QED
  BY <1>2, <1>3, <1>4 DEF Next

-------------------------------------------------------------------------------
(***************************************************************************)
(* Theorems.                                                               *)
(***************************************************************************)
(* The invariant holds in every state.                                     *)
THEOREM Invariance == Spec => []IInv
BY InitInv, StepInv, PTL DEF Spec

(* Whatever is answered, calibrated, refilled and written, buckets stay    *)
(* within their capacity and coolings are numbers of seconds.              *)
THEOREM TypeCorrect == Spec => []TypeOK
<1>1. IInv => TypeOK
  BY DEF IInv
<1>2. QED
  BY <1>1, Invariance, PTL

(* The gauge the auto-pilot reads is the number of requests and streams    *)
(* under way, whichever way each of them ends.                             *)
THEOREM GaugeIsExact == Spec => []GaugeCountsRequests
<1>1. IInv => GaugeCountsRequests
  BY DEF IInv
<1>2. QED
  BY <1>1, Invariance, PTL

(* Insisting on the sidecar, the gateway waits for no key that the sidecar *)
(* did not reserve for that request.                                       *)
THEOREM OnlyGrantedCalls == Spec => []FailClosedCallsAreGranted
<1>1. IInv => FailClosedCallsAreGranted
  BY DEF IInv
<1>2. QED
  BY <1>1, Invariance, PTL
=============================================================================
