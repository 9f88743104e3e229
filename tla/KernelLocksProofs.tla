--------------------------- MODULE KernelLocksProofs ---------------------------
(***************************************************************************)
(* Theorems about KernelLocks, for every number of requests of every kind. *)
(* First what the four programs look like and which guards a handler holds *)
(* at each of their steps, then the inductive invariant: guards follow the *)
(* program, write guards exclude, and what was read or written under a     *)
(* lock stays as it is while the lock is held.                             *)
(***************************************************************************)
EXTENDS KernelLocks, TLAPS

(***************************************************************************)
(* The programs, step by step.                                             *)
(***************************************************************************)
LEMMA ReserveSteps ==
  /\ Len(ReserveProgram) = 11 /\ DOMAIN ReserveProgram = 1..11
  /\ ReserveProgram[1] = Take("active", "read")
  /\ ReserveProgram[2] = Drop({"active"})
  /\ ReserveProgram[3] = Take("store", "write")
  /\ ReserveProgram[4] = Take("key_brk", "write")
  /\ ReserveProgram[5] = Take("buckets", "write")
  /\ ReserveProgram[6] = Take("windows", "write")
  /\ ReserveProgram[7] = Run("change")
  /\ ReserveProgram[8] = Run("save")
  /\ ReserveProgram[9] = Run("peek")
  /\ ReserveProgram[10] = Run("consume")
  /\ ReserveProgram[11] = Drop({"windows", "buckets", "key_brk", "store"})
BY DEF ReserveProgram

LEMMA ReportSteps ==
  /\ Len(ReportProgram) = 8 /\ DOMAIN ReportProgram = 1..8
  /\ ReportProgram[1] = Take("store", "write")
  /\ ReportProgram[2] = Take("key_brk", "write")
  /\ ReportProgram[3] = Take("windows", "write")
  /\ ReportProgram[4] = Take("buckets", "write")
  /\ ReportProgram[5] = Run("calibrate")
  /\ ReportProgram[6] = Run("change")
  /\ ReportProgram[7] = Run("save")
  /\ ReportProgram[8] = Drop({"buckets", "windows", "key_brk", "store"})
BY DEF ReportProgram

LEMMA PutSteps ==
  /\ Len(PutProgram) = 10 /\ DOMAIN PutProgram = 1..10
  /\ PutProgram[1] = Take("active", "write")
  /\ PutProgram[2] = Run("set")
  /\ PutProgram[3] = Drop({"active"})
  /\ PutProgram[4] = Take("store", "write")
  /\ PutProgram[5] = Run("persist")
  /\ PutProgram[6] = Take("active", "read")
  /\ PutProgram[7] = Drop({"active"})
  /\ PutProgram[8] = Drop({"store"})
  /\ PutProgram[9] = Take("key_brk", "read")
  /\ PutProgram[10] = Drop({"key_brk"})
BY DEF PutProgram

LEMMA GetSteps ==
  /\ Len(GetProgram) = 4 /\ DOMAIN GetProgram = 1..4
  /\ GetProgram[1] = Take("key_brk", "read")
  /\ GetProgram[2] = Drop({"key_brk"})
  /\ GetProgram[3] = Take("active", "read")
  /\ GetProgram[4] = Drop({"active"})
BY DEF GetProgram

Programs == {ReserveProgram, ReportProgram, PutProgram, GetProgram}

LEMMA ProgramOf ==
  ASSUME NEW r \in Requests
  PROVE  /\ Program(r) \in Programs
         /\ Kind[r] = "reserve" => Program(r) = ReserveProgram
         /\ Kind[r] = "report" => Program(r) = ReportProgram
         /\ Kind[r] = "put_strategy" => Program(r) = PutProgram
         /\ Kind[r] = "get_strategy" => Program(r) = GetProgram
BY LocksAssumption DEF Program, Programs

(* The guards a handler has taken, and not dropped, before step n of P. *)
HeldAt(P, n) ==
  {g \in Locks \X Modes :
     \E i \in 1..(n - 1) :
       /\ P[i] = Take(g[1], g[2])
       /\ \A j \in (i + 1)..(n - 1) : P[j].op = "drop" => g[1] \notin P[j].locks}

(* Every step is one of the three, and takes a lock there is. *)
LEMMA StepShape ==
  ASSUME NEW P \in Programs
  PROVE  /\ Len(P) \in Nat /\ DOMAIN P = 1..Len(P)
         /\ \A n \in 1..Len(P) :
              /\ P[n].op \in {"take", "drop", "run"}
              /\ P[n].op = "take" => /\ P[n] = Take(P[n].lock, P[n].mode)
                                     /\ P[n].lock \in Locks /\ P[n].mode \in Modes
              /\ P[n].op = "run" => P[n] = Run(P[n].effect)
<1> USE DEF Take, Drop, Run, Locks, Modes
<1>1. CASE P = ReserveProgram
  BY <1>1, ReserveSteps
<1>2. CASE P = ReportProgram
  BY <1>2, ReportSteps
<1>3. CASE P = PutProgram
  BY <1>3, PutSteps
<1>4. CASE P = GetProgram
  BY <1>4, GetSteps
<1>5. QED
  BY <1>1, <1>2, <1>3, <1>4 DEF Programs

(* A handler that has come to its end holds nothing. *)
LEMMA ProgramsRelease ==
  ASSUME NEW P \in Programs
  PROVE  HeldAt(P, Len(P) + 1) = {}
<1> SUFFICES ASSUME NEW g \in Locks \X Modes, NEW i \in 1..Len(P),
                    P[i] = Take(g[1], g[2]),
                    \A j \in (i + 1)..Len(P) : P[j].op = "drop" => g[1] \notin P[j].locks
             PROVE  FALSE
  BY StepShape DEF HeldAt
<1> USE DEF Take, Drop, Run
<1>1. CASE P = ReserveProgram
  <2>1. i \in {1, 3, 4, 5, 6}
    BY <1>1, ReserveSteps
  <2>2. CASE i = 1
    BY <1>1, <2>2, ReserveSteps
  <2>3. CASE i \in {3, 4, 5, 6}
    <3>1. P[11].op = "drop" /\ 11 \in (i + 1)..Len(P)
      BY <1>1, <2>3, ReserveSteps
    <3>2. g[1] \in P[11].locks
      BY <1>1, <2>3, ReserveSteps
    <3>3. QED
      BY <3>1, <3>2
  <2>4. QED
    BY <2>1, <2>2, <2>3
<1>2. CASE P = ReportProgram
  <2>1. i \in {1, 2, 3, 4}
    BY <1>2, ReportSteps
  <2>2. P[8].op = "drop" /\ 8 \in (i + 1)..Len(P)
    BY <1>2, <2>1, ReportSteps
  <2>3. g[1] \in P[8].locks
    BY <1>2, <2>1, ReportSteps
  <2>4. QED
    BY <2>2, <2>3
<1>3. CASE P = PutProgram
  <2>1. i \in {1, 4, 6, 9}
    BY <1>3, PutSteps
  <2>2. /\ i = 1 => P[3].op = "drop" /\ 3 \in (i + 1)..Len(P) /\ g[1] \in P[3].locks
        /\ i = 4 => P[8].op = "drop" /\ 8 \in (i + 1)..Len(P) /\ g[1] \in P[8].locks
        /\ i = 6 => P[7].op = "drop" /\ 7 \in (i + 1)..Len(P) /\ g[1] \in P[7].locks
        /\ i = 9 => P[10].op = "drop" /\ 10 \in (i + 1)..Len(P) /\ g[1] \in P[10].locks
    BY <1>3, PutSteps
  <2>3. QED
    BY <2>1, <2>2
<1>4. CASE P = GetProgram
  <2>1. i \in {1, 3}
    BY <1>4, GetSteps
  <2>2. P[i + 1].op = "drop" /\ i + 1 \in (i + 1)..Len(P) /\ g[1] \in P[i + 1].locks
    BY <1>4, <2>1, GetSteps
  <2>3. QED
    BY <2>2
<1>5. QED
  BY <1>1, <1>2, <1>3, <1>4 DEF Programs

(* How one step of a program changes what its handler holds. *)
LEMMA HeldAfter ==
  ASSUME NEW P \in Programs, NEW n \in 1..Len(P)
  PROVE  /\ P[n].op = "take" => HeldAt(P, n + 1) = HeldAt(P, n) \cup {<<P[n].lock, P[n].mode>>}
         /\ P[n].op = "drop" => HeldAt(P, n + 1) = {g \in HeldAt(P, n) : g[1] \notin P[n].locks}
         /\ P[n].op = "run" => HeldAt(P, n + 1) = HeldAt(P, n)
<1> n \in Nat /\ n \in 1..n /\ (n + 1) - 1 = n
  BY StepShape
<1> USE DEF HeldAt
<1>1. ASSUME P[n].op = "take"
      PROVE  HeldAt(P, n + 1) = HeldAt(P, n) \cup {<<P[n].lock, P[n].mode>>}
  <2>1. P[n] = Take(P[n].lock, P[n].mode) /\ <<P[n].lock, P[n].mode>> \in Locks \X Modes
    BY <1>1, StepShape
  <2>2. ASSUME NEW g \in Locks \X Modes, NEW i \in 1..n, P[i] = Take(g[1], g[2]), i # n,
               \A j \in (i + 1)..n : P[j].op = "drop" => g[1] \notin P[j].locks
        PROVE  g \in HeldAt(P, n)
    BY <2>2
  <2>3. ASSUME NEW g \in HeldAt(P, n)
        PROVE  g \in HeldAt(P, n + 1)
    BY <2>3, <1>1
  <2>4. ASSUME NEW g \in Locks \X Modes, P[n] = Take(g[1], g[2])
        PROVE  g = <<P[n].lock, P[n].mode>>
    BY <2>4 DEF Take
  <2>5. <<P[n].lock, P[n].mode>> \in HeldAt(P, n + 1)
    BY <2>1
  <2>6. QED
    BY <2>2, <2>3, <2>4, <2>5
<1>2. ASSUME P[n].op = "drop"
      PROVE  HeldAt(P, n + 1) = {g \in HeldAt(P, n) : g[1] \notin P[n].locks}
  <2>1. \A l, m : P[n] # Take(l, m)
    BY <1>2 DEF Take
  <2>2. QED
    BY <1>2, <2>1
<1>3. ASSUME P[n].op = "run"
      PROVE  HeldAt(P, n + 1) = HeldAt(P, n)
  <2>1. \A l, m : P[n] # Take(l, m)
    BY <1>3 DEF Take
  <2>2. QED
    BY <1>3, <2>1
<1>4. QED
  BY <1>1, <1>2, <1>3

Stored == <<"store", "write">>
Bucketed == <<"buckets", "write">>

(* A breaker is changed, and its row written, in one hold of the store;    *)
(* the bucket is only touched under its lock.                              *)
LEMMA CriticalSections ==
  ASSUME NEW P \in Programs, NEW n \in 1..Len(P)
  PROVE  /\ P[n] = Run("change") => /\ Stored \in HeldAt(P, n)
                                    /\ n + 1 \in 1..Len(P) /\ P[n + 1] = Run("save")
         /\ P[n] = Run("save") => /\ Stored \in HeldAt(P, n)
                                  /\ n - 1 \in 1..Len(P) /\ P[n - 1] = Run("change")
         /\ P[n] = Run("peek") => /\ Bucketed \in HeldAt(P, n)
                                  /\ P = ReserveProgram /\ n = 9
         /\ P[n] = Run("consume") => /\ Bucketed \in HeldAt(P, n)
                                     /\ P = ReserveProgram /\ n = 10
         /\ P[n] = Run("calibrate") => Bucketed \in HeldAt(P, n)
<1> USE DEF Take, Drop, Run
<1>1. CASE P = ReserveProgram
  <2>1. n \in 7..10 => Stored \in HeldAt(P, n) /\ Bucketed \in HeldAt(P, n)
    <3>1. ASSUME n \in 7..10
          PROVE  \A j \in 4..(n - 1) : P[j].op # "drop"
      BY <1>1, <3>1, ReserveSteps
    <3>2. Stored \in Locks \X Modes /\ Bucketed \in Locks \X Modes
      BY DEF Stored, Bucketed, Locks, Modes
    <3>3. P[3] = Take("store", "write") /\ P[5] = Take("buckets", "write")
      BY <1>1, ReserveSteps
    <3>4. n \in 7..10 => 3 \in 1..(n - 1) /\ 5 \in 1..(n - 1)
      OBVIOUS
    <3>5. QED
      BY <3>1, <3>2, <3>3, <3>4 DEF HeldAt, Stored, Bucketed
  <2>2. QED
    BY <1>1, <2>1, ReserveSteps
<1>2. CASE P = ReportProgram
  <2>1. n \in 5..7 => Stored \in HeldAt(P, n) /\ Bucketed \in HeldAt(P, n)
    <3>1. ASSUME n \in 5..7
          PROVE  \A j \in 1..(n - 1) : P[j].op # "drop"
      BY <1>2, <3>1, ReportSteps
    <3>2. Stored \in Locks \X Modes /\ Bucketed \in Locks \X Modes
      BY DEF Stored, Bucketed, Locks, Modes
    <3>3. P[1] = Take("store", "write") /\ P[4] = Take("buckets", "write")
      BY <1>2, ReportSteps
    <3>4. n \in 5..7 => 1 \in 1..(n - 1) /\ 4 \in 1..(n - 1)
      OBVIOUS
    <3>5. QED
      BY <3>1, <3>2, <3>3, <3>4 DEF HeldAt, Stored, Bucketed
  <2>2. QED
    BY <1>2, <2>1, ReportSteps, ReserveSteps
<1>3. CASE P = PutProgram
  BY <1>3, PutSteps
<1>4. CASE P = GetProgram
  BY <1>4, GetSteps
<1>5. QED
  BY <1>1, <1>2, <1>3, <1>4 DEF Programs

(* A handler that takes a lock holds nothing, or the store and not that    *)
(* lock: among the holders of the store, of whom there is one, the order   *)
(* of the locks does not matter.                                           *)
LEMMA TakesUnderTheStore ==
  ASSUME NEW P \in Programs, NEW n \in 1..Len(P), P[n].op = "take"
  PROVE  \/ HeldAt(P, n) = {}
         \/ /\ Stored \in HeldAt(P, n)
            /\ \A m \in Modes : <<P[n].lock, m>> \notin HeldAt(P, n)
<1> USE DEF Take, Drop, Run
<1>1. ASSUME \A i \in 1..(n - 1) : P[i].op = "take" =>
               \E j \in (i + 1)..(n - 1) : P[j].op = "drop" /\ P[i].lock \in P[j].locks
      PROVE  HeldAt(P, n) = {}
  <2> SUFFICES ASSUME NEW g \in Locks \X Modes, NEW i \in 1..(n - 1), P[i] = Take(g[1], g[2])
               PROVE  \E j \in (i + 1)..(n - 1) : P[j].op = "drop" /\ g[1] \in P[j].locks
    BY DEF HeldAt
  <2>1. P[i].op = "take" /\ P[i].lock = g[1]
    OBVIOUS
  <2>2. QED
    BY <1>1, <2>1
<1>2. ASSUME NEW s \in 1..(n - 1), P[s] = Take("store", "write"),
             \A j \in (s + 1)..(n - 1) : P[j].op = "drop" => "store" \notin P[j].locks
      PROVE  Stored \in HeldAt(P, n)
  <2>1. Stored \in Locks \X Modes /\ Stored[1] = "store" /\ Stored[2] = "write"
    BY DEF Stored, Locks, Modes
  <2>2. QED
    BY <1>2, <2>1 DEF HeldAt
<1>3. ASSUME \A i \in 1..(n - 1) : P[i].op = "take" /\ P[i].lock = P[n].lock =>
               \E j \in (i + 1)..(n - 1) : P[j].op = "drop" /\ P[i].lock \in P[j].locks
      PROVE  \A m \in Modes : <<P[n].lock, m>> \notin HeldAt(P, n)
  <2> SUFFICES ASSUME NEW m \in Modes, NEW i \in 1..(n - 1), P[i] = Take(P[n].lock, m)
               PROVE  \E j \in (i + 1)..(n - 1) : P[j].op = "drop" /\ P[n].lock \in P[j].locks
    BY DEF HeldAt
  <2>1. P[i].op = "take" /\ P[i].lock = P[n].lock
    OBVIOUS
  <2>2. QED
    BY <1>3, <2>1
<1>4. CASE P = ReserveProgram
  <2>1. n \in {1, 3, 4, 5, 6}
    BY <1>4, ReserveSteps
  <2>2. CASE n \in {1, 3}
    BY <1>1, <1>4, <2>2, ReserveSteps
  <2>3. CASE n \in {4, 5, 6}
    <3>1. 3 \in 1..(n - 1) /\ \A j \in 4..(n - 1) : P[j].op = "take"
      BY <1>4, <2>3, ReserveSteps
    <3>2. Stored \in HeldAt(P, n)
      BY <1>2, <1>4, <3>1, ReserveSteps
    <3>3. \A i \in 1..(n - 1) : P[i].op = "take" => P[i].lock # P[n].lock
      BY <1>4, <2>3, ReserveSteps
    <3>4. QED
      BY <1>3, <3>2, <3>3
  <2>4. QED
    BY <2>1, <2>2, <2>3
<1>5. CASE P = ReportProgram
  <2>1. n \in {1, 2, 3, 4}
    BY <1>5, ReportSteps
  <2>2. CASE n = 1
    BY <1>1, <2>2
  <2>3. CASE n \in {2, 3, 4}
    <3>1. 1 \in 1..(n - 1) /\ \A j \in 2..(n - 1) : P[j].op = "take"
      BY <1>5, <2>3, ReportSteps
    <3>2. Stored \in HeldAt(P, n)
      BY <1>2, <1>5, <3>1, ReportSteps
    <3>3. \A i \in 1..(n - 1) : P[i].op = "take" => P[i].lock # P[n].lock
      BY <1>5, <2>3, ReportSteps
    <3>4. QED
      BY <1>3, <3>2, <3>3
  <2>4. QED
    BY <2>1, <2>2, <2>3
<1>6. CASE P = PutProgram
  <2>1. n \in {1, 4, 6, 9}
    BY <1>6, PutSteps
  <2>2. CASE n \in {1, 4}
    BY <1>1, <1>6, <2>2, PutSteps
  <2>3. CASE n = 9
    <3>1. /\ P[3].op = "drop" /\ P[3].locks = {"active"}
          /\ P[7].op = "drop" /\ P[7].locks = {"active"}
          /\ P[8].op = "drop" /\ P[8].locks = {"store"}
      BY <1>6, PutSteps
    <3>2. \A i \in 1..8 : P[i].op = "take" =>
            \/ i = 1 /\ P[i].lock = "active"
            \/ i = 4 /\ P[i].lock = "store"
            \/ i = 6 /\ P[i].lock = "active"
      BY <1>6, PutSteps
    <3>3. QED
      BY <1>1, <2>3, <3>1, <3>2
  <2>4. CASE n = 6
    <3>1. P[4] = Take("store", "write") /\ \A j \in 5..5 : P[j].op = "run"
      BY <1>6, PutSteps
    <3>2. Stored \in HeldAt(P, n)
      BY <1>2, <2>4, <3>1
    <3>3. P[3].op = "drop" /\ P[3].locks = {"active"} /\ P[n].lock = "active"
      BY <1>6, <2>4, PutSteps
    <3>4. \A i \in 1..5 : P[i].op = "take" /\ P[i].lock = P[n].lock => i = 1
      BY <1>6, <2>4, PutSteps
    <3>5. QED
      BY <1>3, <2>4, <3>2, <3>3, <3>4
  <2>5. QED
    BY <2>1, <2>2, <2>3, <2>4
<1>7. CASE P = GetProgram
  <2>1. n \in {1, 3}
    BY <1>7, GetSteps
  <2>2. QED
    BY <1>1, <1>7, <2>1, GetSteps
<1>8. QED
  BY <1>4, <1>5, <1>6, <1>7 DEF Programs

-------------------------------------------------------------------------------
(***************************************************************************)
(* The inductive invariant.                                                *)
(***************************************************************************)
At(r, e) == Running(r) /\ Step(r) = Run(e)

(* Only handlers that are about to take a lock wait for one. *)
AskersTake == \A r \in asking : Step(r).op = "take"

GuardsFollow == \A r \in Requests : held[r] = HeldAt(Program(r), pc[r])

(* The locks do what locks are for. *)
WritersExclude ==
  \A q, r \in Requests : \A l \in Locks : \A m \in Modes :
    q # r /\ <<l, "write">> \in held[q] => <<l, m>> \notin held[r]

(* A reservation that saw a token finds it when it takes it. *)
TokenIsThere ==
  \A r \in viable : /\ Program(r) = ReserveProgram /\ pc[r] >= 10
                    /\ pc[r] = 10 => tokens > 0

(* At most one change is not on disk yet: the one of the handler that is   *)
(* about to save it.                                                       *)
RowsPending ==
  /\ \A r \in Requests : At(r, "save") => changes = Append(rows, r)
  /\ (\A r \in Requests : ~At(r, "save")) => changes = rows

IInv ==
  /\ TypeOK /\ AskersTake /\ GuardsFollow /\ WritersExclude
  /\ TokenIsThere /\ EveryCallIsPaid /\ RowsPending

LEMMA InitInv == Init => IInv
<1> SUFFICES ASSUME Init PROVE IInv
  OBVIOUS
<1>1. \A r \in Requests : /\ Program(r) \in Programs /\ Len(Program(r)) \in Nat
                          /\ 1 \in DOMAIN Program(r) /\ HeldAt(Program(r), 1) = {}
                          /\ Program(r)[1] # Run("save")
  <2> SUFFICES ASSUME NEW r \in Requests
               PROVE  /\ 1 \in DOMAIN Program(r) /\ HeldAt(Program(r), 1) = {}
                      /\ Program(r)[1] # Run("save")
    BY ProgramOf, StepShape
  <2>1. HeldAt(Program(r), 1) = {}
    BY DEF HeldAt
  <2>2. 1 \in DOMAIN Program(r) /\ Program(r)[1].op = "take"
    BY ProgramOf, ReserveSteps, ReportSteps, PutSteps, GetSteps DEF Programs, Take
  <2>3. QED
    BY <2>1, <2>2 DEF Run
<1>2. TypeOK
  BY <1>1, LocksAssumption DEF Init, TypeOK, Answered, Running
<1>3. AskersTake /\ GuardsFollow /\ WritersExclude /\ TokenIsThere
  BY <1>1 DEF Init, AskersTake, GuardsFollow, WritersExclude, TokenIsThere
<1>4. EveryCallIsPaid
  BY LocksAssumption DEF Init, EveryCallIsPaid
<1>5. RowsPending
  BY <1>1 DEF Init, RowsPending, At, Step
<1>6. QED
  BY <1>2, <1>3, <1>4, <1>5 DEF IInv

(* A handler's step moves it, and it alone, to its next step. *)
LEMMA Moves ==
  ASSUME IInv, NEW r \in Requests, Running(r), Advance(r)
  PROVE  /\ Program(r) \in Programs /\ pc[r] \in 1..Len(Program(r))
         /\ pc' \in [Requests -> Nat] /\ pc'[r] = pc[r] + 1
         /\ \A q \in Requests \ {r} : pc'[q] = pc[q]
         /\ \A q \in Requests : pc'[q] \in 1..Len(Program(q)) + 1
<1>1. \A q \in Requests : /\ Program(q) \in Programs /\ Len(Program(q)) \in Nat
                          /\ DOMAIN Program(q) = 1..Len(Program(q))
  BY ProgramOf, StepShape
<1>2. pc \in [Requests -> Nat] /\ \A q \in Requests : pc[q] \in 1..Len(Program(q)) + 1
  BY DEF IInv, TypeOK
<1>3. pc[r] \in 1..Len(Program(r))
  BY <1>1 DEF Running
<1>4. pc' = [pc EXCEPT ![r] = pc[r] + 1]
  BY DEF Advance
<1>5. QED
  BY <1>1, <1>2, <1>3, <1>4

(* Whatever the step is, what the handler holds follows its program. *)
LEMMA GuardsStep ==
  ASSUME IInv, NEW r \in Requests, Running(r), Advance(r),
         Step(r).op = "take" => held' = [held EXCEPT ![r] = @ \cup {<<Step(r).lock, Step(r).mode>>}],
         Step(r).op = "drop" => held' = [held EXCEPT ![r] = {g \in @ : g[1] \notin Step(r).locks}],
         Step(r).op = "run" => held' = held
  PROVE  /\ held' \in [Requests -> SUBSET (Locks \X Modes)]
         /\ GuardsFollow'
         /\ \A q \in Requests : Answered(q)' => held'[q] = {}
<1>1. /\ Program(r) \in Programs /\ pc[r] \in 1..Len(Program(r))
      /\ pc'[r] = pc[r] + 1 /\ \A q \in Requests \ {r} : pc'[q] = pc[q]
      /\ \A q \in Requests : pc'[q] \in 1..Len(Program(q)) + 1
  BY Moves
<1>2. held \in [Requests -> SUBSET (Locks \X Modes)] /\ GuardsFollow
  BY DEF IInv, TypeOK
<1>3. Step(r) = Program(r)[pc[r]] /\ Step(r).op \in {"take", "drop", "run"}
  BY <1>1, StepShape DEF Step
<1>4. held'[r] = HeldAt(Program(r), pc[r] + 1)
      /\ held' = [held EXCEPT ![r] = HeldAt(Program(r), pc[r] + 1)]
  <2>1. held[r] = HeldAt(Program(r), pc[r])
    BY <1>2 DEF GuardsFollow
  <2>2. CASE Step(r).op = "take"
    BY <1>1, <1>2, <1>3, <2>1, <2>2, HeldAfter
  <2>3. CASE Step(r).op = "drop"
    <3> DEFINE kept(G) == {g \in G : g[1] \notin Step(r).locks}
    <3>1. HeldAt(Program(r), pc[r] + 1) = kept(HeldAt(Program(r), pc[r]))
      BY <1>1, <1>3, <2>3, HeldAfter
    <3>2. held' = [held EXCEPT ![r] = kept(held[r])]
      BY <2>3
    <3>3. QED
      BY <1>2, <2>1, <3>1, <3>2
  <2>4. CASE Step(r).op = "run"
    BY <1>1, <1>2, <1>3, <2>1, <2>4, HeldAfter
  <2>5. QED
    BY <1>3, <2>2, <2>3, <2>4
<1>5. \A q \in Requests : held'[q] = HeldAt(Program(q), pc'[q])
  BY <1>1, <1>2, <1>4 DEF GuardsFollow
<1>6. held' \in [Requests -> SUBSET (Locks \X Modes)]
  <2>1. HeldAt(Program(r), pc[r] + 1) \in SUBSET (Locks \X Modes)
    BY DEF HeldAt
  <2>2. QED
    BY <1>2, <1>4, <2>1
<1>7. ASSUME NEW q \in Requests, Answered(q)'
      PROVE  held'[q] = {}
  <2>1. Program(q) \in Programs /\ DOMAIN Program(q) = 1..Len(Program(q)) /\ Len(Program(q)) \in Nat
    BY ProgramOf, StepShape
  <2>2. pc'[q] = Len(Program(q)) + 1
    BY <1>1, <1>7, <2>1 DEF Answered, Running
  <2>3. QED
    BY <1>5, <2>1, <2>2, ProgramsRelease
<1>8. QED
  BY <1>5, <1>6, <1>7 DEF GuardsFollow

(* A step that changes no breaker and writes no row. *)
LEMMA RowsRest ==
  ASSUME IInv, NEW r \in Requests, Running(r), Advance(r),
         ~At(r, "change"), ~At(r, "save"), changes' = changes, rows' = rows
  PROVE  RowsPending'
<1>1. /\ Program(r) \in Programs /\ pc[r] \in 1..Len(Program(r))
      /\ pc'[r] = pc[r] + 1 /\ \A q \in Requests \ {r} : pc'[q] = pc[q]
  BY Moves
<1>2. ~At(r, "save")'
  <2> SUFFICES ASSUME At(r, "save")'
               PROVE  FALSE
    OBVIOUS
  <2>1. pc[r] + 1 \in 1..Len(Program(r)) /\ Program(r)[pc[r] + 1] = Run("save")
    BY <1>1, StepShape DEF At, Running, Step
  <2>2. Program(r)[(pc[r] + 1) - 1] = Run("change") /\ (pc[r] + 1) - 1 = pc[r]
    BY <1>1, <2>1, CriticalSections, StepShape
  <2>3. QED
    BY <2>2 DEF At, Step
<1>3. \A q \in Requests : At(q, "save")' <=> At(q, "save")
  BY <1>1, <1>2 DEF At, Running, Step
<1>4. RowsPending
  BY DEF IInv
<1>5. QED
  BY <1>3, <1>4 DEF RowsPending

(* A step that does not touch the bucket. *)
LEMMA TokensRest ==
  ASSUME IInv, NEW r \in Requests, Running(r), Advance(r),
         tokens' = tokens, viable' = viable, served' = served
  PROVE  TokenIsThere' /\ EveryCallIsPaid'
<1>1. /\ pc'[r] = pc[r] + 1 /\ pc[r] \in Nat
      /\ \A q \in Requests \ {r} : pc'[q] = pc[q]
  BY Moves DEF IInv, TypeOK
<1>2. viable \subseteq Requests /\ TokenIsThere /\ EveryCallIsPaid
  BY DEF IInv, TypeOK
<1>3. TokenIsThere'
  BY <1>1, <1>2 DEF TokenIsThere
<1>4. QED
  BY <1>2, <1>3 DEF EveryCallIsPaid

LEMMA AskInv == ASSUME IInv, NEW r \in Requests, Ask(r) PROVE IInv'
<1>1. /\ Running(r) /\ Step(r).op = "take" /\ asking' = asking \cup {r}
      /\ pc' = pc /\ held' = held
      /\ UNCHANGED <<active, meta, tokens, viable, served, changes, rows>>
  BY DEF Ask
<1>2. TypeOK' /\ AskersTake'
  BY <1>1 DEF IInv, TypeOK, AskersTake, Running, Answered, Step
<1>3. GuardsFollow' /\ WritersExclude' /\ TokenIsThere' /\ EveryCallIsPaid'
  BY <1>1 DEF IInv, GuardsFollow, WritersExclude, TokenIsThere, EveryCallIsPaid
<1>4. RowsPending'
  BY <1>1 DEF IInv, RowsPending, At, Running, Step
<1>5. QED
  BY <1>2, <1>3, <1>4 DEF IInv

(* What taking a lock, dropping some, or an effect does to the waiting. *)
LEMMA WaitingStep ==
  ASSUME IInv, NEW r \in Requests, Running(r), Advance(r),
         asking' = asking \ {r}
  PROVE  AskersTake' /\ asking' \subseteq {q \in Requests : Running(q)}'
<1>1. \A q \in Requests \ {r} : pc'[q] = pc[q]
  BY Moves
<1>2. asking \subseteq {q \in Requests : Running(q)} /\ AskersTake
  BY DEF IInv, TypeOK
<1>3. QED
  BY <1>1, <1>2 DEF AskersTake, Running, Step

LEMMA LockInv == ASSUME IInv, NEW r \in Requests, Lock(r) PROVE IInv'
<1>1. /\ Running(r) /\ Step(r).op = "take" /\ Advance(r) /\ CanLock(r)
      /\ asking' = asking \ {r}
      /\ held' = [held EXCEPT ![r] = @ \cup {<<Step(r).lock, Step(r).mode>>}]
      /\ UNCHANGED <<active, meta, tokens, viable, served, changes, rows>>
  BY DEF Lock, IInv, TypeOK, AskersTake
<1>2. /\ held' \in [Requests -> SUBSET (Locks \X Modes)] /\ GuardsFollow'
      /\ \A q \in Requests : Answered(q)' => held'[q] = {}
  BY <1>1, GuardsStep
<1>3. AskersTake' /\ asking' \subseteq {q \in Requests : Running(q)}'
  BY <1>1, WaitingStep
<1>4. TypeOK'
  BY <1>1, <1>2, <1>3, Moves DEF IInv, TypeOK
<1>5. WritersExclude'
  <2>1. \A q \in Requests : /\ <<Step(r).lock, "write">> \notin held[q]
                            /\ Step(r).mode = "write" => <<Step(r).lock, "read">> \notin held[q]
    BY <1>1 DEF CanLock, Excludes
  <2>2. WritersExclude /\ held \in [Requests -> SUBSET (Locks \X Modes)]
    BY DEF IInv, TypeOK
  <2>3. \A q \in Requests \ {r} : held'[q] = held[q]
    BY <1>1, <2>2
  <2>4. held'[r] = held[r] \cup {<<Step(r).lock, Step(r).mode>>}
    BY <1>1, <2>2
  <2>5. ASSUME NEW p \in Requests, NEW q \in Requests, NEW l \in Locks, NEW m \in Modes,
               p # q, <<l, "write">> \in held'[p], <<l, m>> \in held'[q]
        PROVE  FALSE
    <3>1. CASE p = r
      <4>1. <<l, m>> \in held[q]
        BY <2>3, <2>5, <3>1
      <4>2. <<l, "write">> = <<Step(r).lock, Step(r).mode>>
        BY <2>2, <2>4, <2>5, <3>1, <4>1 DEF WritersExclude
      <4>3. l = Step(r).lock /\ Step(r).mode = "write" /\ (m = "read" \/ m = "write")
        BY <4>2 DEF Modes
      <4>4. QED
        BY <2>1, <4>1, <4>3
    <3>2. CASE q = r
      <4>1. <<l, "write">> \in held[p]
        BY <2>3, <2>5, <3>2
      <4>2. <<l, m>> = <<Step(r).lock, Step(r).mode>>
        BY <2>2, <2>4, <2>5, <3>2, <4>1 DEF WritersExclude
      <4>3. QED
        BY <2>1, <4>1, <4>2
    <3>3. CASE p # r /\ q # r
      BY <2>2, <2>3, <2>5, <3>3 DEF WritersExclude
    <3>4. QED
      BY <3>1, <3>2, <3>3
  <2>6. QED
    BY <2>5 DEF WritersExclude
<1>6. TokenIsThere' /\ EveryCallIsPaid'
  BY <1>1, TokensRest
<1>7. RowsPending'
  BY <1>1, RowsRest DEF At, Run
<1>8. QED
  BY <1>2, <1>3, <1>4, <1>5, <1>6, <1>7 DEF IInv

(* Whoever takes no lock leaves everyone else's guards exclusive. *)
LEMMA FewerGuards ==
  ASSUME IInv, NEW r \in Requests,
         \A q \in Requests : held'[q] \subseteq held[q]
  PROVE  WritersExclude'
BY DEF IInv, WritersExclude

LEMMA UnlockInv == ASSUME IInv, NEW r \in Requests, Unlock(r) PROVE IInv'
<1>1. /\ Running(r) /\ Step(r).op = "drop" /\ Advance(r)
      /\ asking' = asking
      /\ held' = [held EXCEPT ![r] = {g \in @ : g[1] \notin Step(r).locks}]
      /\ UNCHANGED <<active, meta, tokens, viable, served, changes, rows>>
  BY DEF Unlock
<1>2. /\ held' \in [Requests -> SUBSET (Locks \X Modes)] /\ GuardsFollow'
      /\ \A q \in Requests : Answered(q)' => held'[q] = {}
  BY <1>1, GuardsStep
<1>3. AskersTake' /\ asking' \subseteq {q \in Requests : Running(q)}'
  <2>1. asking' = asking \ {r}
    BY <1>1 DEF IInv, AskersTake
  <2>2. QED
    BY <1>1, <2>1, WaitingStep
<1>4. TypeOK'
  BY <1>1, <1>2, <1>3, Moves DEF IInv, TypeOK
<1>5. WritersExclude'
  <2>1. held \in [Requests -> SUBSET (Locks \X Modes)]
    BY DEF IInv, TypeOK
  <2>2. \A q \in Requests : held'[q] \subseteq held[q]
    BY <1>1, <2>1
  <2>3. QED
    BY <2>2, FewerGuards
<1>6. TokenIsThere' /\ EveryCallIsPaid'
  BY <1>1, TokensRest
<1>7. RowsPending'
  BY <1>1, RowsRest DEF At, Run
<1>8. QED
  BY <1>2, <1>3, <1>4, <1>5, <1>6, <1>7 DEF IInv

(* What every effect leaves as it should be. *)
LEMMA EffectStep ==
  ASSUME IInv, NEW r \in Requests, NEW e, Does(r, e)
  PROVE  /\ Running(r) /\ Advance(r) /\ At(r, e)
         /\ asking' = asking /\ held' = held
         /\ pc' \in [Requests -> Nat]
         /\ \A q \in Requests : pc'[q] \in 1..Len(Program(q)) + 1
         /\ asking' \subseteq {q \in Requests : Running(q)}'
         /\ \A q \in Requests : Answered(q)' => held'[q] = {}
         /\ AskersTake' /\ GuardsFollow' /\ WritersExclude'
<1>1. /\ Running(r) /\ Step(r).op = "run" /\ Step(r).effect = e /\ Advance(r)
      /\ asking' = asking /\ held' = held
  BY DEF Does
<1>2. At(r, e)
  BY <1>1, Moves, StepShape DEF At, Step
<1>3. GuardsFollow' /\ \A q \in Requests : Answered(q)' => held'[q] = {}
  BY <1>1, GuardsStep
<1>4. asking' = asking \ {r}
  BY <1>1 DEF IInv, AskersTake
<1>5. WritersExclude'
  BY <1>1, FewerGuards
<1>6. QED
  BY <1>1, <1>2, <1>3, <1>4, <1>5, Moves, WaitingStep

(* Two handlers are never both inside what one lock guards. *)
LEMMA Alone ==
  ASSUME IInv, NEW q \in Requests, NEW r \in Requests, NEW l \in Locks,
         <<l, "write">> \in HeldAt(Program(q), pc[q]),
         <<l, "write">> \in HeldAt(Program(r), pc[r])
  PROVE  q = r
BY DEF IInv, GuardsFollow, WritersExclude, Modes

LEMMA StrategyInv == ASSUME IInv, NEW r \in Requests, Set(r) \/ Persist(r) PROVE IInv'
<1>1. PICK e \in {"set", "persist"} : Does(r, e)
  BY DEF Set, Persist
<1>2. UNCHANGED <<tokens, viable, served, changes, rows>>
  BY DEF Set, Persist
<1>3. TokenIsThere' /\ EveryCallIsPaid'
  BY <1>1, <1>2, EffectStep, TokensRest
<1>4. RowsPending'
  <2>1. ~At(r, "change") /\ ~At(r, "save")
    BY <1>1, EffectStep DEF At, Run
  <2>2. QED
    BY <1>1, <1>2, <2>1, EffectStep, RowsRest
<1>5. TypeOK'
  BY <1>1, <1>2, EffectStep DEF IInv, TypeOK
<1>6. QED
  BY <1>1, <1>3, <1>4, <1>5, EffectStep DEF IInv

LEMMA SavesAreAlone ==
  ASSUME IInv, NEW q \in Requests, NEW r \in Requests,
         At(q, "save") \/ At(q, "change"), At(r, "save") \/ At(r, "change")
  PROVE  q = r
<1>1. \A p \in Requests : At(p, "save") \/ At(p, "change") =>
        <<"store", "write">> \in HeldAt(Program(p), pc[p])
  BY ProgramOf, StepShape, CriticalSections DEF At, Running, Step, Stored
<1>2. "store" \in Locks
  BY DEF Locks
<1>3. QED
  BY <1>1, <1>2, Alone

LEMMA ChangeInv == ASSUME IInv, NEW r \in Requests, Change(r) PROVE IInv'
<1>1. Does(r, "change") /\ changes' = Append(changes, r)
      /\ UNCHANGED <<tokens, viable, served, rows>>
  BY DEF Change
<1>2. At(r, "change") /\ Running(r) /\ Advance(r) /\ ~At(r, "save")
  BY <1>1, EffectStep DEF At, Run
<1>3. /\ Program(r) \in Programs /\ pc[r] \in 1..Len(Program(r))
      /\ pc'[r] = pc[r] + 1 /\ \A q \in Requests \ {r} : pc'[q] = pc[q]
  BY <1>2, Moves
<1>4. RowsPending'
  <2>1. \A q \in Requests : ~At(q, "save")
    BY <1>2, SavesAreAlone
  <2>2. changes = rows
    BY <2>1 DEF IInv, RowsPending
  <2>3. At(r, "save")'
    BY <1>2, <1>3, CriticalSections, StepShape DEF At, Running, Step
  <2>4. \A q \in Requests \ {r} : ~At(q, "save")'
    BY <1>3, <2>1 DEF At, Running, Step
  <2>5. QED
    BY <1>1, <2>2, <2>3, <2>4 DEF RowsPending
<1>5. TokenIsThere' /\ EveryCallIsPaid'
  BY <1>1, <1>2, TokensRest
<1>6. TypeOK'
  BY <1>1, EffectStep DEF IInv, TypeOK
<1>7. QED
  BY <1>1, <1>4, <1>5, <1>6, EffectStep DEF IInv

LEMMA SaveInv == ASSUME IInv, NEW r \in Requests, Save(r) PROVE IInv'
<1>1. Does(r, "save") /\ rows' = Append(rows, r)
      /\ UNCHANGED <<tokens, viable, served, changes>>
  BY DEF Save
<1>2. At(r, "save") /\ Running(r) /\ Advance(r)
  BY <1>1, EffectStep
<1>3. /\ Program(r) \in Programs /\ pc[r] \in 1..Len(Program(r))
      /\ pc'[r] = pc[r] + 1 /\ \A q \in Requests \ {r} : pc'[q] = pc[q]
  BY <1>2, Moves
<1>4. RowsPending'
  <2>1. \A q \in Requests \ {r} : ~At(q, "save")
    BY <1>2, SavesAreAlone
  <2>2. changes' = rows'
    BY <1>1, <1>2 DEF IInv, RowsPending
  <2>3. ~At(r, "save")'
    <3> SUFFICES ASSUME At(r, "save")'
                 PROVE  FALSE
      OBVIOUS
    <3>1. pc[r] + 1 \in 1..Len(Program(r)) /\ Program(r)[pc[r] + 1] = Run("save")
      BY <1>3, StepShape DEF At, Running, Step
    <3>2. Program(r)[(pc[r] + 1) - 1] = Run("change") /\ (pc[r] + 1) - 1 = pc[r]
      BY <1>3, <3>1, CriticalSections, StepShape
    <3>3. QED
      BY <1>2, <3>2 DEF At, Step, Run
  <2>4. \A q \in Requests : ~At(q, "save")'
    BY <1>3, <2>1, <2>3 DEF At, Running, Step
  <2>5. QED
    BY <2>2, <2>4 DEF RowsPending
<1>5. TokenIsThere' /\ EveryCallIsPaid'
  BY <1>1, <1>2, TokensRest
<1>6. TypeOK'
  <2>1. rows' \in Seq(Requests)
    BY <1>1 DEF IInv, TypeOK
  <2>2. QED
    BY <1>1, <2>1, EffectStep DEF IInv, TypeOK
<1>7. QED
  BY <1>1, <1>4, <1>5, <1>6, EffectStep DEF IInv

LEMMA BucketsAreAlone ==
  ASSUME IInv, NEW q \in Requests, NEW r \in Requests,
         At(q, "peek") \/ At(q, "consume") \/ At(q, "calibrate"),
         At(r, "peek") \/ At(r, "consume") \/ At(r, "calibrate")
  PROVE  q = r
<1>1. \A p \in Requests : At(p, "peek") \/ At(p, "consume") \/ At(p, "calibrate") =>
        <<"buckets", "write">> \in HeldAt(Program(p), pc[p])
  BY ProgramOf, StepShape, CriticalSections DEF At, Running, Step, Bucketed
<1>2. "buckets" \in Locks
  BY DEF Locks
<1>3. QED
  BY <1>1, <1>2, Alone

(* Who saw a token and is about to take it is at that step. *)
LEMMA AboutToConsume ==
  ASSUME IInv, NEW r \in viable, pc[r] = 10
  PROVE  r \in Requests /\ At(r, "consume")
BY ReserveSteps DEF IInv, TypeOK, TokenIsThere, At, Running, Step

LEMMA PeekInv == ASSUME IInv, NEW r \in Requests, Peek(r) PROVE IInv'
<1>1. /\ Does(r, "peek") /\ viable' = IF tokens > 0 THEN viable \cup {r} ELSE viable
      /\ UNCHANGED <<tokens, served, changes, rows>>
  BY DEF Peek
<1>2. At(r, "peek") /\ Running(r) /\ Advance(r) /\ ~At(r, "change") /\ ~At(r, "save")
  BY <1>1, EffectStep DEF At, Run
<1>3. /\ pc'[r] = pc[r] + 1 /\ \A q \in Requests \ {r} : pc'[q] = pc[q]
      /\ Program(r) = ReserveProgram /\ pc[r] = 9
  BY <1>2, Moves, CriticalSections DEF At, Step
<1>4. TokenIsThere'
  <2>1. viable \subseteq Requests /\ TokenIsThere /\ tokens \in Nat
    BY LocksAssumption DEF IInv, TypeOK
  <2>2. r \notin viable
    BY <1>3, <2>1 DEF TokenIsThere
  <2>3. ASSUME NEW q \in viable' PROVE /\ Program(q) = ReserveProgram /\ pc'[q] >= 10
                                       /\ pc'[q] = 10 => tokens' > 0
    <3>1. CASE q = r
      BY <1>1, <1>3, <2>2, <2>3, <3>1
    <3>2. CASE q # r
      BY <1>1, <1>3, <2>1, <2>3, <3>2 DEF TokenIsThere
    <3>3. QED
      BY <3>1, <3>2
  <2>4. QED
    BY <2>3 DEF TokenIsThere
<1>5. EveryCallIsPaid' /\ RowsPending'
  BY <1>1, <1>2, RowsRest DEF IInv, EveryCallIsPaid
<1>6. TypeOK'
  BY <1>1, EffectStep DEF IInv, TypeOK
<1>7. QED
  BY <1>1, <1>4, <1>5, <1>6, EffectStep DEF IInv

(* A token less, or a tighter bucket, is nothing another reservation       *)
(* counts on.                                                              *)
LEMMA FewerTokens ==
  ASSUME IInv, NEW r \in Requests, Running(r), Advance(r),
         At(r, "consume") \/ At(r, "calibrate"), viable' = viable
  PROVE  TokenIsThere'
<1>1. /\ pc'[r] = pc[r] + 1 /\ pc[r] \in Nat
      /\ \A q \in Requests \ {r} : pc'[q] = pc[q]
  BY Moves DEF IInv, TypeOK
<1>2. viable \subseteq Requests /\ TokenIsThere
  BY DEF IInv, TypeOK
<1>3. ASSUME NEW q \in viable
      PROVE  Program(q) = ReserveProgram /\ pc'[q] >= 10 /\ pc'[q] # 10
  <2>1. Program(q) = ReserveProgram /\ pc[q] >= 10 /\ pc[q] \in Nat
    BY <1>2 DEF TokenIsThere, IInv, TypeOK
  <2>2. CASE q = r
    BY <1>1, <2>1, <2>2
  <2>3. CASE q # r
    <3>1. pc[q] # 10
      BY <2>3, AboutToConsume, BucketsAreAlone
    <3>2. QED
      BY <1>1, <1>2, <2>1, <2>3, <3>1
  <2>4. QED
    BY <2>2, <2>3
<1>4. \A q \in viable' : Program(q) = ReserveProgram /\ pc'[q] >= 10 /\ pc'[q] # 10
  BY <1>3
<1>5. QED
  BY <1>4 DEF TokenIsThere

LEMMA ConsumeInv == ASSUME IInv, NEW r \in Requests, Consume(r) PROVE IInv'
<1>1. /\ Does(r, "consume") /\ UNCHANGED <<viable, changes, rows>>
      /\ tokens' = IF r \in viable /\ tokens > 0 THEN tokens - 1 ELSE tokens
      /\ served' = IF r \in viable THEN served + 1 ELSE served
  BY DEF Consume
<1>2. At(r, "consume") /\ Running(r) /\ Advance(r) /\ ~At(r, "change") /\ ~At(r, "save")
  BY <1>1, EffectStep DEF At, Run
<1>3. r \in viable => tokens > 0
  <2>1. pc[r] = 10
    BY <1>2, Moves, CriticalSections DEF At, Step
  <2>2. QED
    BY <2>1 DEF IInv, TokenIsThere
<1>4. tokens' \in 0..Tokens /\ served' \in Nat /\ EveryCallIsPaid'
  BY <1>1, <1>3, LocksAssumption DEF IInv, TypeOK, EveryCallIsPaid
<1>5. TokenIsThere' /\ RowsPending'
  BY <1>1, <1>2, FewerTokens, RowsRest
<1>6. TypeOK'
  BY <1>1, <1>4, EffectStep DEF IInv, TypeOK
<1>7. QED
  BY <1>1, <1>4, <1>5, <1>6, EffectStep DEF IInv

LEMMA CalibrateInv == ASSUME IInv, NEW r \in Requests, Calibrate(r) PROVE IInv'
<1>1. Does(r, "calibrate") /\ UNCHANGED <<viable, served, changes, rows>>
  BY DEF Calibrate
<1>2. tokens' \in 0..Tokens /\ tokens' <= tokens
  BY LocksAssumption DEF Calibrate, IInv, TypeOK
<1>3. At(r, "calibrate") /\ Running(r) /\ Advance(r) /\ ~At(r, "change") /\ ~At(r, "save")
  BY <1>1, EffectStep DEF At, Run
<1>4. EveryCallIsPaid'
  <2>1. tokens \in Int /\ tokens' \in Int /\ served \in Int /\ Tokens \in Int
        /\ served + tokens <= Tokens
    BY <1>2, LocksAssumption DEF IInv, TypeOK, EveryCallIsPaid
  <2>2. served' = served /\ tokens' <= tokens
    BY <1>1, <1>2
  <2>3. \A s, t, u, n \in Int : s + t <= n /\ u <= t => s + u <= n
    OBVIOUS
  <2>4. served + tokens' <= Tokens
    BY <2>1, <2>2, <2>3
  <2>5. QED
    BY <2>2, <2>4 DEF EveryCallIsPaid
<1>5. TokenIsThere' /\ RowsPending'
  BY <1>1, <1>3, FewerTokens, RowsRest
<1>6. TypeOK'
  BY <1>1, <1>2, EffectStep DEF IInv, TypeOK
<1>7. QED
  BY <1>1, <1>4, <1>5, <1>6, EffectStep DEF IInv

(* Who had begun is gone, with the guards it held. *)
LEMMA RestartInv == IInv /\ Restart => IInv'
<1> SUFFICES ASSUME IInv, Restart PROVE IInv'
  OBVIOUS
<1>1. \A q \in Requests : /\ Program(q) \in Programs /\ Len(Program(q)) \in Nat \ {0}
                          /\ DOMAIN Program(q) = 1..Len(Program(q))
                          /\ Program(q)[1] # Run("save")
  <2>1. \A q \in Requests : Program(q) \in Programs
    BY ProgramOf
  <2>2. \A P \in Programs : P[1].op = "take" /\ Len(P) > 0
    BY ReserveSteps, ReportSteps, PutSteps, GetSteps DEF Programs, Take
  <2>3. QED
    BY <2>1, <2>2, StepShape DEF Run
<1>2. \A q \in Requests : pc'[q] = 1 \/ pc'[q] = Len(Program(q)) + 1
  BY <1>1 DEF Restart, IInv, TypeOK
<1>3. /\ pc' \in [Requests -> Nat] /\ asking' = {} /\ held' = [q \in Requests |-> {}]
      /\ viable' = {} /\ served' = 0 /\ tokens' = Tokens
      /\ changes' = rows' /\ rows' = rows
  BY <1>1 DEF Restart, IInv, TypeOK
<1>4. TypeOK' /\ AskersTake'
  <2>1. \A q \in Requests : pc'[q] \in 1..Len(Program(q)) + 1
    BY <1>1, <1>2
  <2>2. tokens' \in 0..Tokens
    BY <1>3, LocksAssumption
  <2>3. held' \in [Requests -> SUBSET (Locks \X Modes)] /\ \A q \in Requests : held'[q] = {}
    BY <1>3
  <2>4. rows \in Seq(Requests)
    BY DEF IInv, TypeOK
  <2>5. QED
    BY <1>3, <2>1, <2>2, <2>3, <2>4 DEF TypeOK, AskersTake
<1>5. GuardsFollow'
  <2>1. \A q \in Requests : HeldAt(Program(q), 1) = {}
    BY DEF HeldAt
  <2>2. \A q \in Requests : HeldAt(Program(q), pc'[q]) = {}
    BY <1>1, <1>2, <2>1, ProgramsRelease
  <2>3. QED
    BY <1>3, <2>2 DEF GuardsFollow
<1>6. WritersExclude' /\ TokenIsThere' /\ EveryCallIsPaid'
  BY <1>3, LocksAssumption DEF WritersExclude, TokenIsThere, EveryCallIsPaid
<1>7. RowsPending'
  <2>1. \A q \in Requests : ~At(q, "save")'
    BY <1>1, <1>2 DEF At, Running, Step
  <2>2. QED
    BY <1>3, <2>1 DEF RowsPending
<1>8. QED
  BY <1>4, <1>5, <1>6, <1>7 DEF IInv

LEMMA StepInv == IInv /\ [Next]_vars => IInv'
<1> SUFFICES ASSUME IInv, [Next]_vars PROVE IInv'
  OBVIOUS
<1>1. ASSUME NEW r \in Requests, Serve(r)
      PROVE  IInv'
  BY <1>1, AskInv, LockInv, UnlockInv, StrategyInv, ChangeInv, SaveInv, PeekInv,
     ConsumeInv, CalibrateInv DEF Serve
<1>2. CASE Restart
  BY <1>2, RestartInv
<1>3. CASE UNCHANGED vars
  BY <1>3 DEF vars, IInv, TypeOK, AskersTake, GuardsFollow, WritersExclude, TokenIsThere,
              EveryCallIsPaid, RowsPending, At, Running, Answered, Step
<1>4. QED
  BY <1>1, <1>2, <1>3 DEF Next

-------------------------------------------------------------------------------
(***************************************************************************)
(* Theorems.                                                               *)
(***************************************************************************)
(* However many requests of whatever kinds are served at the same time,    *)
(* and however often the sidecar is restarted, the invariant holds.        *)
THEOREM Invariance == Spec => []IInv
<1>1. QED
  BY InitInv, StepInv, PTL DEF Spec

(* Guards are held by running handlers only, and every variable has its    *)
(* type.                                                                   *)
THEOREM TypeCorrect == Spec => []TypeOK
<1>1. IInv => TypeOK
  BY DEF IInv
<1>2. QED
  BY <1>1, Invariance, PTL

(* No deadlock, for any number of requests, although /reserve and /report  *)
(* take the buckets and the windows in opposite orders and readers wait    *)
(* for waiting writers: if all were blocked, only the holder of the store  *)
(* could hold anything, and not the lock it waits for.                     *)
THEOREM NoDeadlock == Spec => []SomeHandlerGoesOn
<1>1. IInv => SomeHandlerGoesOn
  <2> SUFFICES ASSUME IInv, NEW first \in Requests, UnderWay(first),
                      \A r \in Requests : UnderWay(r) => r \in asking /\ ~CanLock(r)
               PROVE  FALSE
    BY DEF SomeHandlerGoesOn
  <2>1. ASSUME NEW r \in asking
        PROVE  /\ r \in Requests /\ UnderWay(r) /\ Step(r).op = "take"
               /\ Step(r).lock \in Locks /\ Step(r).mode \in Modes
               /\ \/ held[r] = {}
                  \/ /\ Stored \in held[r]
                     /\ \A m \in Modes : <<Step(r).lock, m>> \notin held[r]
    <3>1. r \in Requests /\ Running(r) /\ Step(r).op = "take" /\ held[r] = HeldAt(Program(r), pc[r])
      BY DEF IInv, TypeOK, AskersTake, GuardsFollow
    <3>2. Program(r) \in Programs /\ pc[r] \in 1..Len(Program(r))
      BY <3>1, ProgramOf, StepShape DEF Running
    <3>3. QED
      BY <3>1, <3>2, StepShape, TakesUnderTheStore DEF UnderWay, Step
  <2>2. ASSUME NEW r \in Requests, held[r] # {}
        PROVE  r \in asking
    <3>1. Running(r)
      BY <2>2 DEF IInv, TypeOK, Answered
    <3>2. HeldAt(Program(r), 1) = {} /\ held[r] = HeldAt(Program(r), pc[r]) /\ pc[r] \in Nat
      BY DEF HeldAt, IInv, GuardsFollow, TypeOK
    <3>3. pc[r] > 1
      BY <2>2, <3>1, <3>2, ProgramOf, StepShape DEF Running
    <3>4. QED
      BY <3>1, <3>3 DEF UnderWay
  <2>3. \E r \in asking : \A q \in Requests : held[q] # {} => q = r
    <3>1. CASE \A q \in Requests : held[q] = {}
      BY <3>1
    <3>2. CASE \E q \in Requests : held[q] # {}
      <4>1. PICK r \in Requests : held[r] # {}
        BY <3>2
      <4>2. ASSUME NEW q \in Requests, held[q] # {}
            PROVE  q = r
        <5>1. <<"store", "write">> \in held[q] /\ <<"store", "write">> \in held[r]
          BY <2>1, <2>2, <4>1, <4>2 DEF Stored
        <5>2. QED
          BY <5>1 DEF IInv, WritersExclude, Locks, Modes
      <4>3. QED
        BY <2>2, <4>1, <4>2
    <3>3. QED
      BY <3>1, <3>2
  <2>4. PICK r \in asking : \A q \in Requests : held[q] # {} => q = r
    BY <2>3
  <2> DEFINE l == Step(r).lock
  <2>5. \A q \in Requests : \A m \in Modes : <<l, m>> \notin held[q]
    BY <2>1, <2>4
  <2>6. \A q \in Requests : \A m \in Modes : ~Excludes(held[q], l, m)
    BY <2>5 DEF Excludes, Modes
  <2>7. PICK w \in asking : Step(w).lock = l /\ Step(w).mode = "write"
    BY <2>1, <2>6 DEF CanLock, WritersWaiting
  <2>8. CanLock(w)
    BY <2>6, <2>7 DEF CanLock, Modes
  <2>9. QED
    BY <2>1, <2>7, <2>8
<1>2. QED
  BY <1>1, Invariance, PTL

(* A token pays for at most one call: looking for it and taking it happen  *)
(* under one hold of the buckets, so nobody takes or calibrates it away in *)
(* between.                                                                *)
THEOREM CallsArePaid == Spec => []EveryCallIsPaid
<1>1. IInv => EveryCallIsPaid
  BY DEF IInv
<1>2. QED
  BY <1>1, Invariance, PTL

(* Rows are written in the order of the changes: a change and its row are  *)
(* made under one hold of the store.                                       *)
THEOREM RowsInOrder == Spec => []RowsFollowMemory
<1>1. IInv => RowsFollowMemory
  <2> SUFFICES ASSUME IInv PROVE RowsFollowMemory
    OBVIOUS
  <2>1. changes \in Seq(Requests) /\ rows \in Seq(Requests) /\ RowsPending
    BY DEF IInv, TypeOK
  <2>2. CASE \E r \in Requests : changes = Append(rows, r)
    BY <2>1, <2>2 DEF RowsFollowMemory
  <2>3. CASE changes = rows
    BY <2>1, <2>3 DEF RowsFollowMemory
  <2>4. QED
    BY <2>1, <2>2, <2>3 DEF RowsPending
<1>2. QED
  BY <1>1, Invariance, PTL
=============================================================================
