------------------------------ MODULE Console ------------------------------
(***************************************************************************)
(* The settings an administrator changes while the gateway runs            *)
(* (internal/admin/settings.go, strategy.go), and what a restart makes of  *)
(* them (config.Load, then main).  A field lives three times: in the       *)
(* environment, in the memory of the scheduler or the sweeper, and, once   *)
(* it was changed, as a row of table settings.  A PUT checks and changes   *)
(* the memory in one step and then writes row after row, without a         *)
(* transaction; the process may die between two rows.                      *)
(*                                                                         *)
(* "mh" stands for the fields of the sweeper, which are merged but not     *)
(* checked.  A value is 0 where the code takes it for missing or invalid.  *)
(***************************************************************************)
EXTENDS Integers, Functions

CONSTANTS
  Admins,        (* PUT requests under way at the same time                *)
  Environments,  (* what the environment may say at a start                *)
  Patches,       (* bodies of PUT /settings: some fields -> values         *)
  Presets,       (* strategy id -> its two breaker parameters              *)
  DefaultPreset  (* "balanced"                                             *)

Fields == {"threshold", "cooldown", "default", "max", "timeout", "mh"}
Checked == Fields \ {"mh"}

ASSUME ConsoleAssumption ==
  /\ \A e \in Environments : e \in [Fields -> Nat]
  /\ \A p \in Patches : DOMAIN p \subseteq Fields /\ \A f \in DOMAIN p : p[f] \in Nat
  /\ DefaultPreset \in DOMAIN Presets
  /\ \A s \in DOMAIN Presets : Presets[s] \in [{"threshold", "cooldown"} -> Nat \ {0}]

VARIABLES
  env,       (* the environment of the running process                     *)
  config,    (* Scheduler.config and Sweeper.cfg                           *)
  strategy,  (* Scheduler.strategy: the mirror of the kernel's             *)
  table,     (* rows of settings: written fields and "strategy" -> values  *)
  put,       (* Admins -> rows the request still has to write, as in table *)
  faithful   (* history: the last start read every row and took them, and  *)
             (* every PUT since ran alone, was accepted, had positive      *)
             (* values and wrote all its rows                              *)

consoleVars == <<env, config, strategy, table, put, faithful>>

-------------------------------------------------------------------------------
(* The order in which putStrategy, then persistSettings write rows. *)
SavingOrder == <<"strategy", "threshold", "cooldown", "default", "max", "timeout", "mh">>

NoRows == [f \in {} |-> 0]

IsFirst(f, rows) ==
  \E i \in DOMAIN SavingOrder : /\ SavingOrder[i] = f
                                /\ \A j \in 1..(i - 1) : SavingOrder[j] \notin DOMAIN rows

(* A table after rows were written: they replace what there was. *)
Over(t, rows) ==
  [f \in DOMAIN t \cup DOMAIN rows |-> IF f \in DOMAIN rows THEN rows[f] ELSE t[f]]

Merge(c, p) == [f \in Fields |-> IF f \in DOMAIN p /\ p[f] > 0 THEN p[f] ELSE c[f]]

Usable(c) ==
  /\ \A f \in Checked : c[f] > 0
  /\ c["max"] >= c["default"]

(* Mutant: each patch is checked by itself. *)
PatchIsConsistent(c, p) ==
  {"default", "max"} \subseteq DOMAIN p => p["max"] >= p["default"]

(* UpdateConfig's check, of the merged configuration. *)
Accepts(c, p) == Usable(Merge(c, p))

(* validate, at a start: only the concurrency is looked at. *)
Starts(e) == e["default"] > 0 /\ e["max"] >= e["default"]

(* Mutant: the rows of max_concurrency are forgotten. *)
SavedWithoutMax(p) ==
  Restrict(p, {f \in DOMAIN p \ {"max"} : f \in {"cooldown", "timeout"} => p[f] > 0})

(* Durations are written only when they are positive, counts always. *)
Saved(p) == Restrict(p, {f \in DOMAIN p : f \in {"cooldown", "timeout"} => p[f] > 0})

SavedStrategy(s) == Over([f \in {"strategy"} |-> s], Presets[s])

SchedulerRows(t) == Restrict(t, DOMAIN t \cap Checked)

(* The two LoadPersisted functions, with the rows that could be read: the  *)
(* scheduler's are one patch, taken or refused as a whole; the sweeper's   *)
(* are merged.  Where there is no row nothing is checked, which comes to   *)
(* the same.                                                               *)
Loaded(e, t) ==
  LET sweeper == Restrict(t, DOMAIN t \cap {"mh"})
  IN  Merge(IF Accepts(e, SchedulerRows(t)) THEN Merge(e, SchedulerRows(t)) ELSE e, sweeper)

LoadedStrategy(t) == IF "strategy" \in DOMAIN t THEN t["strategy"] ELSE DefaultPreset

Idle(a) == DOMAIN put[a] = {}

Quiet == \A a \in Admins : Idle(a)

-------------------------------------------------------------------------------
PutSettings(a, p) ==
  /\ Idle(a)
  /\ Accepts(config, p)
  /\ config' = Merge(config, p)
  /\ put' = [put EXCEPT ![a] = Saved(p)]
  /\ faithful' = (faithful /\ Quiet /\ \A f \in DOMAIN p : p[f] > 0)
  /\ UNCHANGED <<env, strategy, table>>

(* The mirror is switched before the parameters are checked. *)
PutStrategy(a, s) ==
  /\ Idle(a)
  /\ strategy' = s
  /\ IF Accepts(config, Presets[s])
     THEN /\ config' = Merge(config, Presets[s])
          /\ put' = [put EXCEPT ![a] = SavedStrategy(s)]
          /\ faithful' = (faithful /\ Quiet)
     ELSE /\ faithful' = FALSE
          /\ UNCHANGED <<config, put>>
  /\ UNCHANGED <<env, table>>

WriteRow(a) ==
  /\ \E f \in DOMAIN put[a] :
       /\ IsFirst(f, put[a])
       /\ table' = Over(table, Restrict(put[a], {f}))
       /\ put' = [put EXCEPT ![a] = Restrict(@, DOMAIN @ \ {f})]
  /\ UNCHANGED <<env, config, strategy, faithful>>

(* putSettings answers 500 and leaves the rest; putStrategy goes on. *)
WriteFails(a) ==
  /\ \E f \in DOMAIN put[a] :
       /\ IsFirst(f, put[a])
       /\ put' \in {[put EXCEPT ![a] = NoRows],
                    [put EXCEPT ![a] = Restrict(@, DOMAIN @ \ {f})]}
  /\ faithful' = FALSE
  /\ UNCHANGED <<env, config, strategy, table>>

(* Whatever was under way is cut off.  Rows are read one by one, and one   *)
(* that cannot be read counts as one that is not there (GetSetting).       *)
GatewayStarts(e) ==
  /\ Starts(e)
  /\ env' = e
  /\ \E read \in SUBSET DOMAIN table :
       /\ config' = Loaded(e, Restrict(table, read))
       /\ strategy' = LoadedStrategy(Restrict(table, read))
       /\ faithful' = (read = DOMAIN table /\ Accepts(e, SchedulerRows(table)))
  /\ put' = [a \in Admins |-> NoRows]
  /\ UNCHANGED table

ConsoleInit ==
  /\ env \in {e \in Environments : Starts(e)}
  /\ config = env
  /\ strategy = DefaultPreset
  /\ table = NoRows
  /\ put = [a \in Admins |-> NoRows]
  /\ faithful = TRUE

ConsoleNext ==
  \/ \E a \in Admins : \/ \E p \in Patches : PutSettings(a, p)
                       \/ \E s \in DOMAIN Presets : PutStrategy(a, s)
                       \/ WriteRow(a) \/ WriteFails(a)
  \/ \E e \in Environments : GatewayStarts(e)

ConsoleSpec == ConsoleInit /\ [][ConsoleNext]_consoleVars

-------------------------------------------------------------------------------
AreRows(rows) ==
  /\ DOMAIN rows \subseteq Fields \cup {"strategy"}
  /\ \A f \in DOMAIN rows : rows[f] \in IF f = "strategy" THEN DOMAIN Presets ELSE Nat

ConsoleTypeOK ==
  /\ env \in Environments
  /\ config \in [Fields -> Nat]
  /\ strategy \in DOMAIN Presets
  /\ AreRows(table)
  /\ DOMAIN put = Admins /\ \A a \in Admins : AreRows(put[a])
  /\ faithful \in BOOLEAN

(* Whatever mixture of rows, cut short PUTs, failed reads and changed      *)
(* environments a start finds, and whatever partial bodies administrators  *)
(* send, the scheduler has a concurrency of at least one within its        *)
(* maximum, and a positive threshold, cooling and timeout unless the       *)
(* environment, which is not checked for these, has none.                  *)
ConfigurationIsUsable ==
  /\ config["default"] > 0 /\ config["max"] >= config["default"]
  /\ \A f \in Checked : config[f] = 0 => env[f] = 0

(* Since the last start that read the rows, what administrators set by     *)
(* requests that did not overlap and were written is what the next one     *)
(* brings back, whatever was lost or failed before that start: the memory  *)
(* is that of a process that starts now and can read every row.            *)
SavedIsReloaded ==
  faithful /\ Quiet => config = Loaded(env, table) /\ strategy = LoadedStrategy(table)
=============================================================================
