----------------------------- MODULE KernelLocks -----------------------------
(***************************************************************************)
(* The locks of the Rust sidecar.  Four handlers share one AppState: a     *)
(* mutex around the kernel.db connection (store) and one RwLock each for   *)
(* the breakers, the buckets, the health windows and the active strategy.  *)
(* /reserve and /report take buckets and windows in opposite orders.       *)
(* Kernel treats each handler as one step; this module shows what that     *)
(* rests on, and what PUT /strategy, which does not run under one lock     *)
(* from beginning to end, makes of the active strategy.                    *)
(*                                                                         *)
(* A handler is a program, a sequence of steps: take a lock, drop locks,   *)
(* or run an effect on the shared data.  The data is what can tell a bad   *)
(* interleaving: one bucket, and the order in which the breakers change in *)
(* memory and on disk.                                                     *)
(***************************************************************************)
EXTENDS Integers, Sequences, FiniteSets

CONSTANTS
  Requests,   (* the requests that arrive                                  *)
  Kind,       (* Requests -> handler that serves it                        *)
  Choice,     (* Requests -> strategy a PUT asks for                       *)
  Default,    (* strategy of a sidecar whose meta table names none         *)
  Tokens      (* what the bucket holds when it is created                  *)

ASSUME LocksAssumption ==
  /\ Kind \in [Requests -> {"reserve", "report", "put_strategy", "get_strategy"}]
  /\ DOMAIN Choice = Requests
  /\ Tokens \in Nat

VARIABLES
  pc,       (* Requests -> index into the program of its handler           *)
  asking,   (* requests blocked in a lock() call, or about to return       *)
  held,     (* Requests -> set of <<lock, mode>> guards it holds           *)
  active,   (* the active strategy in memory                               *)
  meta,     (* its row in table meta                                       *)
  tokens,   (* tokens in the bucket                                        *)
  viable,   (* reservations that found a token when they looked            *)
  served,   (* calls reserved since the sidecar started                    *)
  changes,  (* requests that changed a breaker in memory, in that order    *)
  rows      (* ... and that wrote its row to kernel.db                     *)

vars == <<pc, asking, held, active, meta, tokens, viable, served, changes, rows>>

-------------------------------------------------------------------------------
(***************************************************************************)
(* Programs.                                                               *)
(***************************************************************************)
Locks == {"store", "key_brk", "buckets", "windows", "active"}
Modes == {"read", "write"}

Take(l, m) == [op |-> "take", lock |-> l, mode |-> m]
Drop(ls) == [op |-> "drop", locks |-> ls]
Run(e) == [op |-> "run", effect |-> e]

(* Mutant: the token is looked for first, and paid for under a second lock. *)
ReserveProgramInTwoSections ==
  <<Take("active", "read"), Drop({"active"}),
    Take("buckets", "read"), Run("peek"), Drop({"buckets"}),
    Take("store", "write"), Take("key_brk", "write"),
    Take("buckets", "write"), Take("windows", "write"),
    Run("change"), Run("save"), Run("consume"),
    Drop({"windows", "buckets", "key_brk", "store"})>>

(* POST /reserve: the strategy is copied out, then everything else happens *)
(* under four locks.                                                       *)
ReserveProgram ==
  <<Take("active", "read"), Drop({"active"}),
    Take("store", "write"), Take("key_brk", "write"),
    Take("buckets", "write"), Take("windows", "write"),
    Run("change"), Run("save"), Run("peek"), Run("consume"),
    Drop({"windows", "buckets", "key_brk", "store"})>>

(* Mutant: SQLite is moved out of the critical section. *)
ReportProgramSavingLate ==
  <<Take("key_brk", "write"), Take("windows", "write"), Take("buckets", "write"),
    Run("calibrate"), Run("change"),
    Drop({"buckets", "windows", "key_brk"}),
    Take("store", "write"), Run("save"), Drop({"store"})>>

(* POST /report: windows before buckets. *)
ReportProgram ==
  <<Take("store", "write"), Take("key_brk", "write"),
    Take("windows", "write"), Take("buckets", "write"),
    Run("calibrate"), Run("change"), Run("save"),
    Drop({"buckets", "windows", "key_brk", "store"})>>

(* Mutant: the guard on the active strategy lives on while meta is written. *)
PutProgramHoldingActive ==
  <<Take("active", "write"), Run("set"),
    Take("store", "write"), Run("persist"), Take("active", "read"),
    Drop({"active", "store"}),
    Take("key_brk", "read"), Drop({"key_brk"})>>

(* PUT /strategy: memory, then disk, then (for the audit row) memory again, *)
(* then the number of breakers, for the recommendation.                    *)
PutProgram ==
  <<Take("active", "write"), Run("set"), Drop({"active"}),
    Take("store", "write"), Run("persist"), Take("active", "read"), Drop({"active"}),
    Drop({"store"}),
    Take("key_brk", "read"), Drop({"key_brk"})>>

GetProgram ==
  <<Take("key_brk", "read"), Drop({"key_brk"}), Take("active", "read"), Drop({"active"})>>

Program(r) ==
  CASE Kind[r] = "reserve" -> ReserveProgram
    [] Kind[r] = "report" -> ReportProgram
    [] Kind[r] = "put_strategy" -> PutProgram
    [] Kind[r] = "get_strategy" -> GetProgram

Running(r) == pc[r] \in DOMAIN Program(r)
Answered(r) == ~Running(r)
Step(r) == Program(r)[pc[r]]

Advance(r) == pc' = [pc EXCEPT ![r] = @ + 1]

-------------------------------------------------------------------------------
(***************************************************************************)
(* Locks.  A mutex is a lock that is only taken for writing.  A reader     *)
(* also waits for the writers that wait (the futex RwLock of std).         *)
(***************************************************************************)
Excludes(guards, l, m) ==
  <<l, "write">> \in guards \/ (m = "write" /\ <<l, "read">> \in guards)

WritersWaiting(l) ==
  {r \in asking : Step(r).lock = l /\ Step(r).mode = "write"}

CanLock(r) ==
  /\ \A q \in Requests : ~Excludes(held[q], Step(r).lock, Step(r).mode)
  /\ Step(r).mode = "read" => WritersWaiting(Step(r).lock) = {}

Ask(r) ==
  /\ Running(r) /\ Step(r).op = "take" /\ r \notin asking
  /\ asking' = asking \cup {r}
  /\ UNCHANGED <<pc, held, active, meta, tokens, viable, served, changes, rows>>

Lock(r) ==
  /\ r \in asking /\ CanLock(r)
  /\ asking' = asking \ {r}
  /\ held' = [held EXCEPT ![r] = @ \cup {<<Step(r).lock, Step(r).mode>>}]
  /\ Advance(r)
  /\ UNCHANGED <<active, meta, tokens, viable, served, changes, rows>>

Unlock(r) ==
  /\ Running(r) /\ Step(r).op = "drop"
  /\ held' = [held EXCEPT ![r] = {g \in @ : g[1] \notin Step(r).locks}]
  /\ Advance(r)
  /\ UNCHANGED <<asking, active, meta, tokens, viable, served, changes, rows>>

-------------------------------------------------------------------------------
(***************************************************************************)
(* Effects.                                                                *)
(***************************************************************************)
Does(r, e) ==
  /\ Running(r) /\ Step(r).op = "run" /\ Step(r).effect = e
  /\ Advance(r)
  /\ UNCHANGED <<asking, held>>

(* PUT: the strategy in memory, and in table meta. *)
Set(r) ==
  /\ Does(r, "set")
  /\ active' = Choice[r]
  /\ UNCHANGED <<meta, tokens, viable, served, changes, rows>>

Persist(r) ==
  /\ Does(r, "persist")
  /\ meta' = Choice[r]
  /\ UNCHANGED <<active, tokens, viable, served, changes, rows>>

(* /reserve promotes, /report counts, opens or closes: a breaker changes,  *)
(* and its row follows.                                                    *)
Change(r) ==
  /\ Does(r, "change")
  /\ changes' = Append(changes, r)
  /\ UNCHANGED <<active, meta, tokens, viable, served, rows>>

Save(r) ==
  /\ Does(r, "save")
  /\ rows' = Append(rows, r)
  /\ UNCHANGED <<active, meta, tokens, viable, served, changes>>

(* /reserve looks for a token, and later takes it if there is one. *)
Peek(r) ==
  /\ Does(r, "peek")
  /\ viable' = IF tokens > 0 THEN viable \cup {r} ELSE viable
  /\ UNCHANGED <<active, meta, tokens, served, changes, rows>>

Consume(r) ==
  /\ Does(r, "consume")
  /\ tokens' = IF r \in viable /\ tokens > 0 THEN tokens - 1 ELSE tokens
  /\ served' = IF r \in viable THEN served + 1 ELSE served
  /\ UNCHANGED <<active, meta, viable, changes, rows>>

(* /report tightens the bucket to what the upstream says remains. *)
Calibrate(r) ==
  /\ Does(r, "calibrate")
  /\ \E rem \in 0..Tokens + 1 : tokens' = IF rem < tokens THEN rem ELSE tokens
  /\ UNCHANGED <<active, meta, viable, served, changes, rows>>

(***************************************************************************)
(* The process dies with the requests it serves, and starts again from     *)
(* kernel.db, with full buckets.                                           *)
(***************************************************************************)
Restart ==
  /\ pc' = [r \in Requests |-> IF pc[r] > 1 \/ r \in asking
                             THEN Len(Program(r)) + 1 ELSE pc[r]]
  /\ asking' = {}
  /\ held' = [r \in Requests |-> {}]
  /\ active' = meta
  /\ changes' = rows
  /\ tokens' = Tokens
  /\ served' = 0
  /\ viable' = {}
  /\ UNCHANGED <<meta, rows>>

-------------------------------------------------------------------------------
Init ==
  /\ pc = [r \in Requests |-> 1]
  /\ asking = {}
  /\ held = [r \in Requests |-> {}]
  /\ active = Default
  /\ meta = Default
  /\ tokens = Tokens
  /\ viable = {}
  /\ served = 0
  /\ changes = << >>
  /\ rows = << >>

Serve(r) ==
  \/ Ask(r)
  \/ Lock(r)
  \/ Unlock(r)
  \/ Set(r)
  \/ Persist(r)
  \/ Change(r)
  \/ Save(r)
  \/ Peek(r)
  \/ Consume(r)
  \/ Calibrate(r)

Next == (\E r \in Requests : Serve(r)) \/ Restart

Spec == Init /\ [][Next]_vars

(* The system's scheduler runs every thread that can run, and hands a lock *)
(* that stays free to the thread that waits for it.                        *)
FairSpec == Spec /\ \A r \in Requests : WF_vars(Serve(r))

-------------------------------------------------------------------------------
(* Each variable has its type, and guards are held only while running.     *)
TypeOK ==
  /\ pc \in [Requests -> Nat]
  /\ \A r \in Requests : pc[r] \in 1..Len(Program(r)) + 1
  /\ asking \subseteq {r \in Requests : Running(r)}
  /\ held \in [Requests -> SUBSET (Locks \X Modes)]
  /\ \A r \in Requests : Answered(r) => held[r] = {}
  /\ tokens \in 0..Tokens
  /\ viable \subseteq Requests
  /\ served \in Nat
  /\ changes \in Seq(Requests) /\ rows \in Seq(Requests)

(* No two handlers are ever blocked on each other for good: every request  *)
(* is answered, although the handlers take the locks in different orders.  *)
EveryRequestIsAnswered ==
  \A r \in Requests : <>Answered(r)

(* A request under way: it has asked for its first lock and not finished.  *)
UnderWay(r) == Running(r) /\ (pc[r] > 1 \/ r \in asking)

(* The same without fairness: in no state are the requests under way all   *)
(* blocked in lock() (which includes readers that wait for a writer that   *)
(* waits itself).                                                          *)
SomeHandlerGoesOn ==
  (\E r \in Requests : UnderWay(r)) =>
    \E r \in Requests : UnderWay(r) /\ (r \in asking => CanLock(r))

(* A token pays for at most one call: two concurrent reservations never    *)
(* both count on the last one.                                             *)
EveryCallIsPaid == served + tokens <= Tokens

(* Rows reach kernel.db in the order in which the breakers changed, so     *)
(* that the last row is the last change.                                   *)
RowsFollowMemory ==
  /\ Len(rows) <= Len(changes)
  /\ \A i \in 1..Len(rows) : rows[i] = changes[i]

(* What PUT /strategy is documented to do (src/kernel-rs/src/main.rs,      *)
(* "sets the active strategy and persists it"): with no PUT under way, the *)
(* strategy a restart would load is the one that is active.                *)
ActiveStrategyIsPersisted ==
  (\A r \in Requests : Kind[r] = "put_strategy" => pc[r] = 1 \/ Answered(r))
    => meta = active
=============================================================================
