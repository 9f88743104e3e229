-------------------------- MODULE ModelCircuitProofs --------------------------
(***************************************************************************)
(* Theorems about ModelCircuit, for every number of requests, sweeps and   *)
(* resets and every threshold and cooling.  First the two loops that       *)
(* double a cooling, then what each party makes of a row, and then the     *)
(* inductive invariant.                                                    *)
(***************************************************************************)
EXTENDS ModelCircuit, Lemmas

(***************************************************************************)
(* The cooling after n rounds.                                             *)
(***************************************************************************)
(* The recursive functions of the module exist, and go from round to round. *)
LEMMA RoundsOfKernel ==
  \A i \in 0..BadToPermanent :
    /\ RoundsKernel[i] \in Nat
    /\ RoundsKernel[i] = IF i <= 1 THEN SweepCooldown
                         ELSE IF RoundsKernel[i - 1] >= MaxCooldown THEN RoundsKernel[i - 1]
                         ELSE 2 * RoundsKernel[i - 1]
<1> DEFINE H == {n \in Nat : n >= MaxCooldown}
           Rounds(f) == [i \in 0..BadToPermanent |->
                           IF i <= 1 THEN SweepCooldown
                           ELSE IF f[i - 1] >= MaxCooldown THEN f[i - 1]
                           ELSE 2 * f[i - 1]]
<1>1. SweepCooldown \in Nat /\ BadToPermanent \in Nat /\ MaxCooldown \in Nat
  BY ModelCircuitAssumption
<1>2. PICK f \in [0..BadToPermanent -> Nat] :
        IsRounds(f, SweepCooldown, BadToPermanent, H)
  <2> HIDE DEF H
  <2> QED
    BY <1>1, RoundsExist
<1>3. ASSUME NEW i \in 0..BadToPermanent PROVE f[i] = Rounds(f)[i]
  <2>1. i > 1 => f[i - 1] \in Nat
    BY <1>1, <1>2
  <2>2. QED
    BY <1>1, <1>2, <2>1 DEF IsRounds
<1>4. f = Rounds(f)
  BY <1>2, <1>3
<1>5. RoundsKernel = Rounds(RoundsKernel)
  BY <1>4 DEF RoundsKernel
<1>6. \A i \in 0..BadToPermanent :
       RoundsKernel[i] = IF i <= 1 THEN SweepCooldown
                         ELSE IF RoundsKernel[i - 1] >= MaxCooldown THEN RoundsKernel[i - 1]
                         ELSE 2 * RoundsKernel[i - 1]
  BY <1>5
<1>7. \A i \in 0..BadToPermanent : RoundsKernel[i] \in Nat
  <2> HIDE DEF Rounds
  <2>1. ASSUME NEW i \in 0..BadToPermanent
        PROVE  \/ RoundsKernel[i] = SweepCooldown
               \/ i > 0 /\ (\/ RoundsKernel[i] = RoundsKernel[i - 1]
                            \/ RoundsKernel[i] = 2 * RoundsKernel[i - 1])
    BY <1>1, <1>6
  <2>2. KeepsOrDoubles(RoundsKernel, SweepCooldown, BadToPermanent)
    BY <2>1 DEF KeepsOrDoubles
  <2>3. QED
    BY <1>1, <2>2, RoundsAreNumbers
<1>8. QED
  BY <1>6, <1>7

LEMMA RoundsOfGo ==
  \A i \in 0..BadToPermanent :
    /\ RoundsGo[i] \in Nat
    /\ RoundsGo[i] = IF i <= 1 THEN SweepCooldown ELSE 2 * RoundsGo[i - 1]
<1> DEFINE Rounds(f) == [i \in 0..BadToPermanent |->
                           IF i <= 1 THEN SweepCooldown ELSE 2 * f[i - 1]]
<1>1. SweepCooldown \in Nat /\ BadToPermanent \in Nat
  BY ModelCircuitAssumption
<1>2. PICK f \in [0..BadToPermanent -> Nat] :
        IsRounds(f, SweepCooldown, BadToPermanent, {})
  BY <1>1, RoundsExist
<1>3. ASSUME NEW i \in 0..BadToPermanent PROVE f[i] = Rounds(f)[i]
  BY <1>1, <1>2 DEF IsRounds
<1>4. f = Rounds(f)
  BY <1>2, <1>3
<1>5. RoundsGo = Rounds(RoundsGo)
  BY <1>4 DEF RoundsGo
<1>6. \A i \in 0..BadToPermanent :
       RoundsGo[i] = IF i <= 1 THEN SweepCooldown ELSE 2 * RoundsGo[i - 1]
  BY <1>5
<1>7. \A i \in 0..BadToPermanent : RoundsGo[i] \in Nat
  <2> HIDE DEF Rounds
  <2>1. ASSUME NEW i \in 0..BadToPermanent
        PROVE  \/ RoundsGo[i] = SweepCooldown
               \/ i > 0 /\ (\/ RoundsGo[i] = RoundsGo[i - 1]
                            \/ RoundsGo[i] = 2 * RoundsGo[i - 1])
    BY <1>1, <1>6
  <2>2. KeepsOrDoubles(RoundsGo, SweepCooldown, BadToPermanent)
    BY <2>1 DEF KeepsOrDoubles
  <2>3. QED
    BY <1>1, <2>2, RoundsAreNumbers
<1>8. QED
  BY <1>6, <1>7

(***************************************************************************)
(* The two loops end at the same cooling: as long as neither has reached   *)
(* the limit they are equal, and once one has, both have.                  *)
(***************************************************************************)
LEMMA CoolingsAgree ==
  ASSUME NEW n \in 0..BadToPermanent
  PROVE  /\ NextCooldownKernel(n) = NextCooldownGo(n)
         /\ NextCooldownKernel(n) \in Nat /\ NextCooldownGo(n) \in Nat
<1> DEFINE Same(i) == \/ RoundsKernel[i] = RoundsGo[i]
                      \/ RoundsKernel[i] >= MaxCooldown /\ RoundsGo[i] >= MaxCooldown
           T == {i \in Nat : i <= BadToPermanent /\ ~Same(i)}
<1>1. BadToPermanent \in Nat /\ MaxCooldown \in Nat
  BY ModelCircuitAssumption
<1>2. T = {}
  <2> SUFFICES ASSUME T # {} PROVE FALSE
    OBVIOUS
  <2>1. PICK i \in T : \A j \in T : i <= j
    BY LeastNat
  <2>2. i \in 0..BadToPermanent /\ ~Same(i)
    BY <1>1, <2>1
  <2>3. CASE i <= 1
    BY <2>2, <2>3, RoundsOfKernel, RoundsOfGo
  <2>4. CASE i > 1
    <3>1. i - 1 \in 0..BadToPermanent /\ i - 1 \in Nat /\ ~(i <= i - 1)
      BY <1>1, <2>2, <2>4
    <3>2. Same(i - 1)
      BY <1>1, <2>1, <3>1
    <3>3. /\ RoundsKernel[i - 1] \in Nat /\ RoundsGo[i - 1] \in Nat
          /\ RoundsKernel[i] = IF RoundsKernel[i - 1] >= MaxCooldown
                               THEN RoundsKernel[i - 1] ELSE 2 * RoundsKernel[i - 1]
          /\ RoundsGo[i] = 2 * RoundsGo[i - 1]
      BY <2>2, <2>4, <3>1, RoundsOfKernel, RoundsOfGo
    <3>4. Same(i)
      BY <1>1, <3>2, <3>3
    <3>5. QED
      BY <2>2, <3>4
  <2>5. QED
    BY <2>2, <2>3, <2>4
<1>3. Same(n)
  BY <1>1, <1>2
<1>4. RoundsKernel[n] \in Nat /\ RoundsGo[n] \in Nat
  BY RoundsOfKernel, RoundsOfGo
<1>5. QED
  BY <1>1, <1>3, <1>4 DEF NextCooldownKernel, NextCooldownGo, Limited

(***************************************************************************)
(* What the parties make of a row.                                         *)
(***************************************************************************)
FlagFollows(m) == m.permanent <=> m.state = "permanent"

Sound(m) == m \in Row \cup {Absent} /\ FlagFollows(m)

LEMMA Numbers ==
  /\ Threshold \in Nat /\ Threshold > 0 /\ BadToPermanent \in Nat /\ BadToPermanent > 0
  /\ Cooldown \in Nat /\ SweepCooldown \in Nat /\ MaxCooldown \in Nat
BY ModelCircuitAssumption

LEMMA AbsentIs ==
  /\ Absent.state = "absent" /\ Absent.left = 0 /\ Absent.fails = 0
  /\ [Absent EXCEPT !.left = 0] = Absent /\ [Absent EXCEPT !.fails = 0] = Absent
<1>1. Absent.state = "absent" /\ Absent.left = 0 /\ Absent.fails = 0
  BY DEF Absent, Fresh
<1>2. Absent = [i \in DOMAIN Absent |-> Absent[i]]
  BY DEF Absent, Fresh
<1>3. [Absent EXCEPT !.left = 0] = Absent
  BY <1>1, <1>2, Zenon
<1>4. [Absent EXCEPT !.fails = 0] = Absent
  BY <1>1, <1>2, Zenon
<1>5. QED
  BY <1>1, <1>3, <1>4

LEMMA CoolingsAre ==
  /\ 0 \in Coolings /\ Cooldown \in Coolings /\ SweepCooldown \in Coolings
  /\ \A n \in 0..BadToPermanent :
       NextCooldownKernel(n) \in Coolings /\ NextCooldownGo(n) \in Coolings
  /\ \A n \in Coolings : n \in Nat /\ (IF n > 0 THEN n - 1 ELSE 0) \in Coolings
<1>1. \A n \in Nat : Limited(n) \in Coolings
  BY ModelCircuitAssumption DEF Limited, Coolings
<1>2. \A n \in 0..BadToPermanent :
        NextCooldownKernel(n) \in Coolings /\ NextCooldownGo(n) \in Coolings
  BY <1>1, RoundsOfKernel, RoundsOfGo DEF NextCooldownKernel, NextCooldownGo
<1>3. SweepCooldown \in Coolings /\ Cooldown \in Coolings /\ 0 \in Coolings
  BY ModelCircuitAssumption DEF Coolings
<1>4. \A n \in Coolings : n \in Nat /\ (IF n > 0 THEN n - 1 ELSE 0) \in Coolings
  BY ModelCircuitAssumption DEF Coolings
<1>5. QED
  BY <1>2, <1>3, <1>4

LEMMA FreshIsSound == Fresh \in Row /\ Sound(Fresh) /\ Sound(Absent)
BY Numbers, CoolingsAre DEF Fresh, Absent, Row, Sound, FlagFollows

(* The copy a writer changes, seen as a whole row. *)
LEMMA CopyIsSound ==
  ASSUME NEW m, Sound(m)
  PROVE  /\ Copy(m) \in Row /\ FlagFollows(Copy(m))
         /\ Copy(m).state = "permanent" <=> m.state = "permanent"
<1>1. CASE m = Absent
  BY <1>1, FreshIsSound DEF Copy, Sound, Fresh, Absent
<1>2. CASE m # Absent
  BY <1>2 DEF Copy, Sound
<1>3. QED
  BY <1>1, <1>2

LEMMA OneMoreIsBounded ==
  ASSUME NEW most \in Nat, most > 0, NEW n \in 0..most
  PROVE  /\ OneMore(n, most) \in 0..most
         /\ OneMore(n, most) >= most <=> n + 1 >= most
BY DEF OneMore

LEMMA RecordedIsSound ==
  ASSUME NEW m, Sound(m), ~Permanent(m)
  PROVE  Sound(Recorded(m))
<1> DEFINE c == [Copy(m) EXCEPT !.fails = OneMore(@, Threshold)]
<1>1. Copy(m) \in Row /\ FlagFollows(Copy(m)) /\ Copy(m).state # "permanent"
  BY CopyIsSound DEF Permanent
<1>2. OneMore(Copy(m).fails, Threshold) \in 0..Threshold
  BY <1>1, Numbers, OneMoreIsBounded DEF Row
<1>3. c \in Row /\ ~c.permanent /\ c.state # "permanent"
  BY <1>1, <1>2 DEF Row, FlagFollows
<1> HIDE DEF c
<1>4. /\ [c EXCEPT !.state = "open", !.left = Cooldown] \in Row
      /\ FlagFollows([c EXCEPT !.state = "open", !.left = Cooldown])
  BY <1>3, CoolingsAre DEF Row, FlagFollows
<1>5. Recorded(m) \in {c, [c EXCEPT !.state = "open", !.left = Cooldown]}
  BY DEF Recorded, c
<1>6. QED
  BY <1>3, <1>4, <1>5 DEF Sound, FlagFollows

LEMMA ClearedIsSound ==
  ASSUME NEW m, Sound(m)
  PROVE  Sound(Cleared(m)) /\ (Permanent(m) => Permanent(Cleared(m)))
<1>1. CASE m = Absent
  <2>1. Cleared(Absent) = Absent
    BY AbsentIs DEF Cleared
  <2>2. QED
    BY <1>1, <2>1
<1>2. CASE m \in Row
  <2>1. 0 \in 0..Threshold /\ 0 \in Coolings
    BY Numbers, CoolingsAre
  <2>2. CASE m.state = "open"
    BY <1>2, <2>1, <2>2 DEF Cleared, Sound, FlagFollows, Permanent, Row
  <2>3. CASE m.state # "open"
    BY <1>2, <2>1, <2>3 DEF Cleared, Sound, FlagFollows, Permanent, Row
  <2>4. QED
    BY <2>2, <2>3
<1>3. QED
  BY <1>1, <1>2 DEF Sound

LEMMA OlderIsSound ==
  ASSUME NEW m, Sound(m)
  PROVE  Sound(Older(m)) /\ Older(m).state = m.state
<1>1. CASE m = Absent
  <2>1. Older(Absent) = Absent
    BY AbsentIs DEF Older
  <2>2. QED
    BY <1>1, <2>1
<1>2. CASE m \in Row
  <2>1. (IF m.left > 0 THEN m.left - 1 ELSE 0) \in Coolings
    BY <1>2, CoolingsAre DEF Row
  <2>2. QED
    BY <1>2, <2>1 DEF Older, Sound, FlagFollows, Row
<1>3. QED
  BY <1>1, <1>2 DEF Sound

(* A row, by its fields; the others are a row's. *)
Becomes(m, state, left, fails, bad, permanent) ==
  /\ m \in Row
  /\ m.state = state /\ m.left = left /\ m.fails = fails /\ m.bad = bad
  /\ m.permanent <=> permanent

(* The two verdicts on a row, for each outcome of a sweep's probes. *)
LEMMA VerdictFields ==
  ASSUME NEW m, Sound(m), NEW c, c = Copy(m),
         NEW worse, worse = OneMore(c.bad, BadToPermanent),
         NEW ever \in BOOLEAN, ever <=> c.state = "permanent",
         NEW now \in BOOLEAN, now <=> worse >= BadToPermanent
  PROVE  /\ Becomes(VerdictKernel(m, "healthy"),
                    IF ever THEN "permanent" ELSE "closed", 0, c.fails, 0, ever)
         /\ Becomes(VerdictKernel(m, "poor"),
                    IF ever THEN "permanent" ELSE "open",
                    IF ever THEN 0 ELSE NextCooldownKernel(c.bad), c.fails, c.bad, ever)
         /\ Becomes(VerdictKernel(m, "bad"),
                    IF ever \/ now THEN "permanent" ELSE "open",
                    IF ever \/ now THEN 0 ELSE SweepCooldown, c.fails, worse, ever \/ now)
         /\ Becomes(VerdictGo(m, "healthy"),
                    IF ever THEN "permanent" ELSE "closed",
                    IF ever THEN c.left ELSE 0, c.fails, 0, ever)
         /\ Becomes(VerdictGo(m, "poor"),
                    IF ever THEN "permanent" ELSE "open",
                    IF ever THEN c.left ELSE NextCooldownGo(c.bad), c.fails, c.bad, ever)
         /\ Becomes(VerdictGo(m, "bad"),
                    IF ever \/ now THEN "permanent" ELSE "open",
                    IF ever \/ now THEN c.left ELSE SweepCooldown, c.fails, worse,
                    ever \/ now)
<1>1. c \in Row /\ (c.permanent <=> c.state = "permanent")
  BY CopyIsSound DEF FlagFollows
<1>2. c.bad \in 0..BadToPermanent /\ 0 \in 0..BadToPermanent
  BY <1>1, Numbers DEF Row
<1>3. worse \in 0..BadToPermanent /\ (now <=> c.bad + 1 >= BadToPermanent)
  BY <1>2, Numbers, OneMoreIsBounded
<1>4. NextCooldownKernel(c.bad) \in Coolings /\ NextCooldownGo(c.bad) \in Coolings
  BY <1>2, CoolingsAre
<1>5. SweepCooldown \in Coolings /\ 0 \in Coolings
  BY CoolingsAre
<1> USE <1>1 DEF Becomes, Row
<1>6. Becomes(VerdictKernel(m, "healthy"),
              IF ever THEN "permanent" ELSE "closed", 0, c.fails, 0, ever)
  BY <1>2, <1>5 DEF VerdictKernel
<1>7. Becomes(VerdictKernel(m, "poor"),
              IF ever THEN "permanent" ELSE "open",
              IF ever THEN 0 ELSE NextCooldownKernel(c.bad), c.fails, c.bad, ever)
  BY <1>4, <1>5 DEF VerdictKernel
<1>8. Becomes(VerdictKernel(m, "bad"),
              IF ever \/ now THEN "permanent" ELSE "open",
              IF ever \/ now THEN 0 ELSE SweepCooldown, c.fails, worse, ever \/ now)
  BY <1>3, <1>5 DEF VerdictKernel
<1>9. Becomes(VerdictGo(m, "healthy"),
              IF ever THEN "permanent" ELSE "closed",
              IF ever THEN c.left ELSE 0, c.fails, 0, ever)
  BY <1>2, <1>5 DEF VerdictGo
<1>10. Becomes(VerdictGo(m, "poor"),
               IF ever THEN "permanent" ELSE "open",
               IF ever THEN c.left ELSE NextCooldownGo(c.bad), c.fails, c.bad, ever)
  BY <1>4 DEF VerdictGo
<1>11. Becomes(VerdictGo(m, "bad"),
               IF ever \/ now THEN "permanent" ELSE "open",
               IF ever \/ now THEN c.left ELSE SweepCooldown, c.fails, worse, ever \/ now)
  BY <1>3, <1>5 DEF VerdictGo
<1>12. QED
  BY <1>6, <1>7, <1>8, <1>9, <1>10, <1>11

(* The two verdicts on a sound row differ in a permanent one's cooling at  *)
(* most.                                                                   *)
LEMMA VerdictsBecome ==
  ASSUME NEW m, Sound(m), NEW r \in Rates
  PROVE  \E k, n, s, f, b, p :
         /\ Becomes(VerdictKernel(m, r), s, k, f, b, p)
         /\ Becomes(VerdictGo(m, r), s, n, f, b, p)
         /\ k = n \/ (s = "permanent" /\ k = 0)
         /\ p <=> s = "permanent"
         /\ Permanent(m) => s = "permanent"
<1>1. PICK c : c = Copy(m)
  OBVIOUS
<1>2. PICK worse : worse = OneMore(c.bad, BadToPermanent)
  OBVIOUS
<1>3. PICK ever \in BOOLEAN : ever <=> c.state = "permanent"
  OBVIOUS
<1>4. PICK now \in BOOLEAN : now <=> worse >= BadToPermanent
  OBVIOUS
<1>5. Permanent(m) => ever
  BY <1>1, <1>3, CopyIsSound DEF Permanent
<1>6. NextCooldownKernel(c.bad) = NextCooldownGo(c.bad)
  BY <1>1, CopyIsSound, CoolingsAgree DEF Row
<1>7. \E k, n, s, f, b, p :
         /\ Becomes(VerdictKernel(m, r), s, k, f, b, p)
         /\ Becomes(VerdictGo(m, r), s, n, f, b, p)
         /\ k = n \/ (s = "permanent" /\ k = 0)
         /\ p <=> s = "permanent"
         /\ Permanent(m) => s = "permanent"
  <2>1. CASE r = "healthy"
    <3>1. /\ Becomes(VerdictKernel(m, r),
                     IF ever THEN "permanent" ELSE "closed", 0, c.fails, 0, ever)
          /\ Becomes(VerdictGo(m, r),
                     IF ever THEN "permanent" ELSE "closed",
                     IF ever THEN c.left ELSE 0, c.fails, 0, ever)
      BY <2>1, <1>1, <1>2, <1>3, <1>4, VerdictFields, Zenon
    <3>2. QED
      BY <3>1, <1>5
  <2>2. CASE r = "poor"
    <3>1. /\ Becomes(VerdictKernel(m, r),
                     IF ever THEN "permanent" ELSE "open",
                     IF ever THEN 0 ELSE NextCooldownKernel(c.bad), c.fails, c.bad, ever)
          /\ Becomes(VerdictGo(m, r),
                     IF ever THEN "permanent" ELSE "open",
                     IF ever THEN c.left ELSE NextCooldownGo(c.bad), c.fails, c.bad, ever)
      BY <2>2, <1>1, <1>2, <1>3, <1>4, VerdictFields, Zenon
    <3>2. QED
      BY <3>1, <1>5, <1>6
  <2>3. CASE r = "bad"
    <3>1. /\ Becomes(VerdictKernel(m, r),
                     IF ever \/ now THEN "permanent" ELSE "open",
                     IF ever \/ now THEN 0 ELSE SweepCooldown, c.fails, worse, ever \/ now)
          /\ Becomes(VerdictGo(m, r),
                     IF ever \/ now THEN "permanent" ELSE "open",
                     IF ever \/ now THEN c.left ELSE SweepCooldown, c.fails, worse,
                     ever \/ now)
      BY <2>3, <1>1, <1>2, <1>3, <1>4, VerdictFields, Zenon
    <3>2. QED
      BY <3>1, <1>5
  <2>4. QED
    BY <2>1, <2>2, <2>3 DEF Rates
<1>8. QED
  BY <1>7

(* A verdict on a sound row is a sound row, and a permanent one stays so. *)
LEMMA VerdictsAreSound ==
  ASSUME NEW m, Sound(m), NEW r \in Rates, NEW v \in {VerdictKernel(m, r), VerdictGo(m, r)}
  PROVE  v \in Row /\ Sound(v) /\ (Permanent(m) => Permanent(v))
BY VerdictsBecome DEF Becomes, Sound, FlagFollows, Permanent

LEMMA VerdictsMeet ==
  ASSUME NEW m, Sound(m), NEW r \in Rates
  PROVE  \/ VerdictKernel(m, r) = VerdictGo(m, r)
         \/ /\ Permanent(VerdictKernel(m, r))
            /\ [VerdictGo(m, r) EXCEPT !.left = 0] = VerdictKernel(m, r)
<1>1. PICK k, n, s, f, b, p :
         /\ Becomes(VerdictKernel(m, r), s, k, f, b, p)
         /\ Becomes(VerdictGo(m, r), s, n, f, b, p)
         /\ k = n \/ (s = "permanent" /\ k = 0)
  BY VerdictsBecome
<1>2. CASE k = n
  BY <1>1, <1>2 DEF Becomes, Row
<1>3. CASE s = "permanent" /\ k = 0
  <2>1. /\ Permanent(VerdictKernel(m, r))
        /\ Becomes([VerdictGo(m, r) EXCEPT !.left = 0], s, 0, f, b, p)
    BY <1>1, <1>3 DEF Becomes, Row, Permanent
  <2>2. QED
    BY <1>1, <1>3, <2>1 DEF Becomes, Row
<1>4. QED
  BY <1>1, <1>2, <1>3

-------------------------------------------------------------------------------
(***************************************************************************)
(* The inductive invariant.  That rows are hidden as they are refused      *)
(* needs the flag of a row to follow its state, in the table and in every  *)
(* copy that may yet be written; that needs a request not to have read a   *)
(* permanent row before it records a failure.  One sweep at a time is said *)
(* without a count: the sweep under way is the one the flag is up for.     *)
(***************************************************************************)
RowsAreSound == FlagFollows(row) /\ \A p \in Procs : FlagFollows(seen[p])

RecordsWhatMayTrip == \A p \in Requests : pc[p] = "recording" => ~Permanent(seen[p])

Sweeping == {p \in Sweeps : pc[p] # "idle"}

FlagIsTheSweeps ==
  /\ running => \E p \in Sweeps : Sweeping = {p}
  /\ ~running => Sweeping = {}

IInv == TypeOK /\ RowsAreSound /\ RecordsWhatMayTrip /\ FlagIsTheSweeps

LEMMA Kinds ==
  /\ Requests \subseteq Procs /\ Sweeps \subseteq Procs /\ Resets \subseteq Procs
  /\ Requests \cap Sweeps = {} /\ Requests \cap Resets = {} /\ Sweeps \cap Resets = {}
BY ModelCircuitAssumption DEF Procs

LEMMA InitInv == Init => IInv
<1> SUFFICES ASSUME Init PROVE IInv
  OBVIOUS
<1>1. TypeOK
  BY DEF Init, TypeOK, Labels
<1>2. RowsAreSound
  BY FreshIsSound DEF Init, RowsAreSound, Sound
<1>3. RecordsWhatMayTrip
  BY Kinds DEF Init, RecordsWhatMayTrip
<1>4. FlagIsTheSweeps
  BY Kinds DEF Init, FlagIsTheSweeps, Sweeping
<1>5. QED
  BY <1>1, <1>2, <1>3, <1>4 DEF IInv

(* What a party does to its own label and copy, with a row that is sound. *)
LEMMA PartyKeepsRows ==
  ASSUME TypeOK, RowsAreSound, NEW p \in Procs, Sound(row'), running' \in BOOLEAN,
         NEW label \in Labels, pc' = [pc EXCEPT ![p] = label],
         NEW m, Sound(m), seen' = [seen EXCEPT ![p] = m]
  PROVE  TypeOK' /\ RowsAreSound'
<1>1. TypeOK'
  BY DEF TypeOK, Sound
<1>2. RowsAreSound'
  BY DEF TypeOK, RowsAreSound, Sound
<1>3. QED
  BY <1>1, <1>2

(* ... which leaves the sweep under way alone, unless the party is one. *)
LEMMA OthersKeepTheFlag ==
  ASSUME TypeOK, FlagIsTheSweeps, NEW p \in Procs, p \notin Sweeps, running' = running,
         NEW label \in Labels, pc' = [pc EXCEPT ![p] = label]
  PROVE  FlagIsTheSweeps'
<1>1. Sweeping' = Sweeping
  BY DEF Sweeping, TypeOK
<1>2. QED
  BY <1>1 DEF FlagIsTheSweeps

LEMMA SweepKeepsTheFlag ==
  ASSUME TypeOK, FlagIsTheSweeps, NEW p \in Sweeps, pc[p] # "idle", running' = running,
         NEW label \in Labels, label # "idle", pc' = [pc EXCEPT ![p] = label]
  PROVE  FlagIsTheSweeps'
<1>1. Sweeping' = Sweeping
  BY Kinds DEF Sweeping, TypeOK
<1>2. QED
  BY <1>1 DEF FlagIsTheSweeps

LEMMA SweepGivesTheFlagBack ==
  ASSUME TypeOK, FlagIsTheSweeps, NEW p \in Sweeps, pc[p] # "idle", running' = FALSE,
         pc' = [pc EXCEPT ![p] = "idle"]
  PROVE  FlagIsTheSweeps'
<1>1. Sweeping = {p}
  BY DEF FlagIsTheSweeps, Sweeping
<1>2. Sweeping' = {}
  BY <1>1, Kinds DEF Sweeping, TypeOK
<1>3. QED
  BY <1>2 DEF FlagIsTheSweeps

LEMMA StepInv == IInv /\ [Next]_vars => IInv'
<1> SUFFICES ASSUME IInv, [Next]_vars PROVE IInv'
  OBVIOUS
<1> USE Kinds
<1>a. /\ TypeOK /\ RowsAreSound /\ RecordsWhatMayTrip /\ FlagIsTheSweeps
      /\ Sound(row) /\ \A p \in Procs : Sound(seen[p])
  BY DEF IInv, TypeOK, RowsAreSound, Sound
<1>b. {"idle", "serving", "recording", "clearing", "probing", "judging", "resetting"}
        \subseteq Labels
  BY DEF Labels
<1>1. ASSUME NEW p \in Requests, Admit(p) \/ AdmitUnasked(p) PROVE IInv'
  <2>1. pc' = [pc EXCEPT ![p] = "serving"] /\ UNCHANGED <<row, running, seen>>
    BY <1>1 DEF Admit, AdmitUnasked, Goto
  <2>2. TypeOK' /\ RowsAreSound'
    BY <2>1, <1>a, <1>b DEF TypeOK, RowsAreSound
  <2>3. RecordsWhatMayTrip'
    BY <2>1, <1>a DEF RecordsWhatMayTrip, TypeOK
  <2>4. FlagIsTheSweeps'
    BY <2>1, <1>a, <1>b, OthersKeepTheFlag
  <2>5. QED
    BY <2>2, <2>3, <2>4 DEF IInv
<1>2. ASSUME NEW p \in Requests, FailureReads(p) PROVE IInv'
  <2>1. CASE Permanent(row)
    <3>1. UNCHANGED vars
      BY <1>2, <2>1 DEF FailureReads, IsPermanent, Permanent, vars
    <3>2. QED
      BY <3>1, <1>a DEF vars, IInv, TypeOK, RowsAreSound, RecordsWhatMayTrip,
                        FlagIsTheSweeps, Sweeping
  <2>2. CASE ~Permanent(row)
    <3>1. /\ pc' = [pc EXCEPT ![p] = "recording"] /\ seen' = [seen EXCEPT ![p] = row]
          /\ UNCHANGED <<row, running>>
      BY <1>2, <2>2 DEF FailureReads, IsPermanent, Permanent, Goto
    <3>2. TypeOK' /\ RowsAreSound'
      BY <3>1, <1>a, <1>b, PartyKeepsRows DEF TypeOK
    <3>3. RecordsWhatMayTrip'
      BY <3>1, <2>2, <1>a DEF RecordsWhatMayTrip, TypeOK
    <3>4. FlagIsTheSweeps'
      BY <3>1, <1>a, <1>b, OthersKeepTheFlag
    <3>5. QED
      BY <3>2, <3>3, <3>4 DEF IInv
  <2>3. QED
    BY <2>1, <2>2
<1>3. ASSUME NEW p \in Requests, FailureWrites(p) PROVE IInv'
  <2>1. /\ pc[p] = "recording" /\ row' \in {row, Recorded(seen[p])}
        /\ pc' = [pc EXCEPT ![p] = "serving"] /\ seen' = [seen EXCEPT ![p] = Absent]
        /\ UNCHANGED running
    BY <1>3 DEF FailureWrites, Goto
  <2>2. ~Permanent(seen[p])
    BY <2>1, <1>a DEF RecordsWhatMayTrip
  <2>3. Sound(row')
    BY <2>1, <2>2, <1>a, RecordedIsSound
  <2>4. TypeOK' /\ RowsAreSound'
    BY <2>1, <2>3, <1>a, <1>b, FreshIsSound, PartyKeepsRows DEF TypeOK
  <2>5. RecordsWhatMayTrip'
    BY <2>1, <1>a DEF RecordsWhatMayTrip, TypeOK
  <2>6. FlagIsTheSweeps'
    BY <2>1, <1>a, <1>b, OthersKeepTheFlag
  <2>7. QED
    BY <2>4, <2>5, <2>6 DEF IInv
<1>4. ASSUME NEW p \in Requests, SuccessReads(p) PROVE IInv'
  <2>1. PICK label \in {"idle", "clearing"}, m \in {Absent, row} :
          /\ pc' = [pc EXCEPT ![p] = label] /\ seen' = [seen EXCEPT ![p] = m]
          /\ UNCHANGED <<row, running>>
    BY <1>4 DEF SuccessReads, Finish, Goto
  <2>2. TypeOK' /\ RowsAreSound'
    BY <2>1, <1>a, <1>b, FreshIsSound, PartyKeepsRows DEF TypeOK
  <2>3. RecordsWhatMayTrip'
    BY <2>1, <1>a DEF RecordsWhatMayTrip, TypeOK
  <2>4. FlagIsTheSweeps'
    BY <2>1, <1>a, <1>b, OthersKeepTheFlag
  <2>5. QED
    BY <2>2, <2>3, <2>4 DEF IInv
<1>5. ASSUME NEW p \in Requests, SuccessWrites(p) \/ Leave(p) PROVE IInv'
  <2>1. /\ row' \in {row, Cleared(seen[p])}
        /\ pc' = [pc EXCEPT ![p] = "idle"] /\ seen' = [seen EXCEPT ![p] = Absent]
        /\ UNCHANGED running
    BY <1>5 DEF SuccessWrites, Leave, Finish, Goto
  <2>2. Sound(row')
    BY <2>1, <1>a, ClearedIsSound
  <2>3. TypeOK' /\ RowsAreSound'
    BY <2>1, <2>2, <1>a, <1>b, FreshIsSound, PartyKeepsRows DEF TypeOK
  <2>4. RecordsWhatMayTrip'
    BY <2>1, <1>a DEF RecordsWhatMayTrip, TypeOK
  <2>5. FlagIsTheSweeps'
    BY <2>1, <1>a, <1>b, OthersKeepTheFlag
  <2>6. QED
    BY <2>3, <2>4, <2>5 DEF IInv
<1>6. ASSUME NEW p \in Sweeps, StartSweep(p) PROVE IInv'
  <2>1. /\ pc[p] = "idle" /\ ~running /\ running' = TRUE
        /\ pc' = [pc EXCEPT ![p] = "probing"] /\ UNCHANGED <<row, seen>>
    BY <1>6 DEF StartSweep, Goto
  <2>2. TypeOK' /\ RowsAreSound'
    BY <2>1, <1>a, <1>b DEF TypeOK, RowsAreSound
  <2>3. RecordsWhatMayTrip'
    BY <2>1, <1>a DEF RecordsWhatMayTrip, TypeOK
  <2>4. Sweeping' = {p}
    BY <2>1, <1>a DEF FlagIsTheSweeps, Sweeping, TypeOK
  <2>5. FlagIsTheSweeps'
    BY <2>1, <2>4 DEF FlagIsTheSweeps
  <2>6. QED
    BY <2>2, <2>3, <2>5 DEF IInv
<1>7. ASSUME NEW p \in Sweeps, SweepReads(p) PROVE IInv'
  <2>1. /\ pc[p] = "probing" /\ pc' = [pc EXCEPT ![p] = "judging"]
        /\ seen' = [seen EXCEPT ![p] = row] /\ UNCHANGED <<row, running>>
    BY <1>7 DEF SweepReads, Goto
  <2>2. TypeOK' /\ RowsAreSound'
    BY <2>1, <1>a, <1>b, PartyKeepsRows DEF TypeOK
  <2>3. RecordsWhatMayTrip'
    BY <2>1, <1>a DEF RecordsWhatMayTrip, TypeOK
  <2>4. FlagIsTheSweeps'
    BY <2>1, <1>a, <1>b, SweepKeepsTheFlag
  <2>5. QED
    BY <2>2, <2>3, <2>4 DEF IInv
<1>8. ASSUME NEW p \in Sweeps, SweepWrites(p) \/ GiveUp(p) PROVE IInv'
  <2>1. /\ pc[p] # "idle" /\ running' = FALSE
        /\ pc' = [pc EXCEPT ![p] = "idle"] /\ seen' = [seen EXCEPT ![p] = Absent]
        /\ \/ row' = row
           \/ \E r \in Rates : row' \in {VerdictKernel(seen[p], r), VerdictGo(seen[p], r)}
    BY <1>8 DEF SweepWrites, GiveUp, Finish, Goto
  <2>2. Sound(row')
    BY <2>1, <1>a, VerdictsAreSound
  <2>3. TypeOK' /\ RowsAreSound'
    BY <2>1, <2>2, <1>a, <1>b, FreshIsSound, PartyKeepsRows
  <2>4. RecordsWhatMayTrip'
    BY <2>1, <1>a DEF RecordsWhatMayTrip, TypeOK
  <2>5. FlagIsTheSweeps'
    BY <2>1, <1>a, SweepGivesTheFlagBack
  <2>6. QED
    BY <2>3, <2>4, <2>5 DEF IInv
<1>9. ASSUME NEW p \in Resets, ResetReads(p) PROVE IInv'
  <2>1. /\ pc' = [pc EXCEPT ![p] = "resetting"] /\ seen' = [seen EXCEPT ![p] = row]
        /\ UNCHANGED <<row, running>>
    BY <1>9 DEF ResetReads, Goto
  <2>2. TypeOK' /\ RowsAreSound'
    BY <2>1, <1>a, <1>b, PartyKeepsRows DEF TypeOK
  <2>3. RecordsWhatMayTrip'
    BY <2>1, <1>a DEF RecordsWhatMayTrip, TypeOK
  <2>4. FlagIsTheSweeps'
    BY <2>1, <1>a, <1>b, OthersKeepTheFlag
  <2>5. QED
    BY <2>2, <2>3, <2>4 DEF IInv
<1>10. ASSUME NEW p \in Resets, ResetWrites(p) PROVE IInv'
  <2>1. /\ row' \in {row, Fresh} /\ pc' = [pc EXCEPT ![p] = "idle"]
        /\ seen' = [seen EXCEPT ![p] = Absent] /\ UNCHANGED running
    BY <1>10 DEF ResetWrites, WasReset, Finish, Goto
  <2>2. TypeOK' /\ RowsAreSound'
    BY <2>1, <1>a, <1>b, FreshIsSound, PartyKeepsRows DEF TypeOK
  <2>3. RecordsWhatMayTrip'
    BY <2>1, <1>a DEF RecordsWhatMayTrip, TypeOK
  <2>4. FlagIsTheSweeps'
    BY <2>1, <1>a, <1>b, OthersKeepTheFlag
  <2>5. QED
    BY <2>2, <2>3, <2>4 DEF IInv
<1>11. ASSUME Restart PROVE IInv'
  <2>1. /\ ~running' /\ running' \in BOOLEAN /\ row' = row
        /\ pc' = [p \in Procs |-> "idle"] /\ seen' = [p \in Procs |-> Absent]
    BY <1>11 DEF Restart
  <2>2. TypeOK' /\ RowsAreSound'
    BY <2>1, <1>a, <1>b, FreshIsSound DEF TypeOK, RowsAreSound, Sound
  <2>3. RecordsWhatMayTrip'
    BY <2>1 DEF RecordsWhatMayTrip
  <2>4. FlagIsTheSweeps'
    BY <2>1 DEF FlagIsTheSweeps, Sweeping
  <2>5. QED
    BY <2>2, <2>3, <2>4 DEF IInv
<1>12. ASSUME Tick PROVE IInv'
  <2>1. /\ row' = Older(row) /\ seen' = [p \in Procs |-> Older(seen[p])]
        /\ UNCHANGED <<running, pc>>
    BY <1>12 DEF Tick
  <2>2. Sound(row') /\ \A p \in Procs : Sound(seen'[p]) /\ seen'[p].state = seen[p].state
    BY <2>1, <1>a, OlderIsSound
  <2>3. TypeOK' /\ RowsAreSound'
    BY <2>1, <2>2, <1>a DEF TypeOK, RowsAreSound, Sound
  <2>4. RecordsWhatMayTrip'
    BY <2>1, <2>2, <1>a DEF RecordsWhatMayTrip, Permanent
  <2>5. FlagIsTheSweeps'
    BY <2>1, <1>a DEF FlagIsTheSweeps, Sweeping
  <2>6. QED
    BY <2>3, <2>4, <2>5 DEF IInv
<1>13. CASE UNCHANGED vars
  BY <1>13, <1>a DEF vars, IInv, TypeOK, RowsAreSound, RecordsWhatMayTrip,
                     FlagIsTheSweeps, Sweeping
<1>14. QED
  BY <1>1, <1>2, <1>3, <1>4, <1>5, <1>6, <1>7, <1>8, <1>9, <1>10, <1>11, <1>12, <1>13
     DEF Next, Request, Sweep

-------------------------------------------------------------------------------
(***************************************************************************)
(* Theorems.                                                               *)
(***************************************************************************)
(* The invariant holds in every state.                                     *)
THEOREM Invariance == Spec => []IInv
BY InitInv, StepInv, PTL DEF Spec

(* Rows keep to their ranges, whoever writes them, in whatever order: the  *)
(* counts of model_circuit never pass their thresholds.                    *)
THEOREM TypeCorrect == Spec => []TypeOK
<1>1. IInv => TypeOK
  BY DEF IInv
<1>2. QED
  BY <1>1, Invariance, PTL

(* Sweeper.running is up exactly while one sweep is under way, however     *)
(* the sweep ends and wherever the gateway is restarted.                   *)
THEOREM SweepsExclude == Spec => []OneSweepAtATime
<1>1. IInv => OneSweepAtATime
  <2> SUFFICES ASSUME IInv PROVE Cardinality(Sweeping) = IF running THEN 1 ELSE 0
    BY DEF OneSweepAtATime, Sweeping
  <2>1. CASE running
    <3>1. PICK p \in Sweeps : Sweeping = {p}
      BY <2>1 DEF IInv, FlagIsTheSweeps
    <3>2. Cardinality({p}) = 1
      BY FS_Singleton
    <3>3. QED
      BY <2>1, <3>1, <3>2
  <2>2. CASE ~running
    BY <2>2, FS_EmptySet DEF IInv, FlagIsTheSweeps
  <2>3. QED
    BY <2>1, <2>2
<1>2. QED
  BY <1>1, Invariance, PTL

(* ListCircuitHiddenModels, which goes by the flag, leaves out exactly the *)
(* models that IsModelCircuitOpen, which goes by the state, refuses.       *)
THEOREM HiddenAsRefused == Spec => []HiddenIsRefused
<1>1. IInv => HiddenIsRefused
  BY DEF IInv, RowsAreSound, FlagFollows, HiddenIsRefused, Hidden, Blocked
<1>2. QED
  BY <1>1, Invariance, PTL

(* The sidecar's /verdict and the gateway's applyVerdict make the same of  *)
(* every row there can be, for every threshold, cooling and limit.         *)
THEOREM SameVerdict == Spec => []VerdictsAgree
<1>1. IInv => VerdictsAgree
  <2> SUFFICES ASSUME IInv, NEW r \in Rates
               PROVE  \/ VerdictKernel(row, r) = VerdictGo(row, r)
                      \/ /\ Permanent(VerdictKernel(row, r))
                         /\ [VerdictGo(row, r) EXCEPT !.left = 0] = VerdictKernel(row, r)
    BY DEF VerdictsAgree
  <2>1. Sound(row)
    BY DEF IInv, TypeOK, RowsAreSound, Sound
  <2>2. QED
    BY <2>1, VerdictsMeet
<1>2. QED
  BY <1>1, Invariance, PTL

(* Only an administrator lifts a circuit that he read as permanent; any    *)
(* other party that lifts one read the row before it became so.            *)
THEOREM LiftedKnowingly == Spec => LiftedKnowinglyByResetsOnly
<1> DEFINE Lifts == Permanent(row) /\ ~Permanent(row') =>
                      \E p \in Procs : /\ pc[p] # "idle" /\ pc'[p] # pc[p]
                                       /\ p \in Resets \/ ~Permanent(seen[p])
<1>1. IInv /\ [Next]_vars => [Lifts]_vars
  <2> SUFFICES ASSUME IInv, Next, Permanent(row), ~Permanent(row')
               PROVE  \E p \in Procs : /\ pc[p] # "idle" /\ pc'[p] # pc[p]
                                       /\ p \in Resets \/ ~Permanent(seen[p])
    OBVIOUS
  <2> USE Kinds
  <2>1. /\ TypeOK /\ Sound(row) /\ \A p \in Procs : Sound(seen[p])
        /\ RecordsWhatMayTrip
    BY DEF IInv, TypeOK, RowsAreSound, Sound
  <2>2. row' # row
    OBVIOUS
  <2>3. ~Tick
    BY <2>1, OlderIsSound DEF Tick, Permanent
  <2>4. CASE \E p \in Requests : FailureWrites(p)
    BY <2>1, <2>4 DEF FailureWrites, Goto, RecordsWhatMayTrip, TypeOK
  <2>5. CASE \E p \in Requests : SuccessWrites(p)
    <3>1. PICK p \in Requests : SuccessWrites(p)
      BY <2>5
    <3>2. ~Permanent(seen[p])
      BY <3>1, <2>1, <2>2, ClearedIsSound DEF SuccessWrites
    <3>3. QED
      BY <3>1, <3>2, <2>1 DEF SuccessWrites, Finish, Goto, TypeOK
  <2>6. CASE \E p \in Sweeps : SweepWrites(p)
    <3>1. PICK p \in Sweeps : SweepWrites(p)
      BY <2>6
    <3>2. ~Permanent(seen[p])
      BY <3>1, <2>1, <2>2, VerdictsAreSound DEF SweepWrites
    <3>3. QED
      BY <3>1, <3>2, <2>1 DEF SweepWrites, Finish, Goto, TypeOK
  <2>7. CASE \E p \in Resets : ResetWrites(p)
    BY <2>1, <2>7 DEF ResetWrites, Finish, Goto, TypeOK
  <2>8. QED
    BY <2>2, <2>3, <2>4, <2>5, <2>6, <2>7
       DEF Next, Request, Sweep, Admit, AdmitUnasked, FailureReads, SuccessReads, Leave,
           StartSweep, SweepReads, GiveUp, ResetReads, Restart
<1>2. QED
  BY <1>1, Invariance, PTL DEF Spec, LiftedKnowinglyByResetsOnly
=============================================================================
