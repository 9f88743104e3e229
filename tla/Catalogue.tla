----------------------------- MODULE Catalogue -----------------------------
(***************************************************************************)
(* The model catalogue (internal/modelmeta, internal/data/models.go): what *)
(* the last synchronisation made of the upstream's list of models.  The    *)
(* ticker's goroutine and administrators synchronise at the same time: a   *)
(* usable upstream key, a GET /models that takes its time, one transaction *)
(* that declares every active model gone and then the listed ones active.  *)
(*                                                                         *)
(* The client does not look at the status of the answer: an error's JSON   *)
(* has no "data" and is taken for an empty list.  Which circuits are open  *)
(* is up to module ModelCircuit; here any may open or close at any time.   *)
(* No code sets a model "disabled".  The specifications that SyncOnce adds *)
(* for display afterwards are left out.                                    *)
(***************************************************************************)
EXTENDS Integers, Sequences, FiniteSets

CONSTANTS
  Models,    (* models the upstream may list                               *)
  Syncers,   (* calls of SyncOnce that may overlap                         *)
  Breakable  (* models whose circuit may open                              *)

ASSUME CatalogueAssumption == Breakable \subseteq Models

VARIABLES
  models,   (* table models: Models -> status, "absent" without a row      *)
  sync,     (* Syncers -> [at, list]                                       *)
  blocked,  (* models whose circuit refuses requests                       *)
  steady    (* history: the models that every list so far had              *)

catalogueVars == <<models, sync, blocked, steady>>

-------------------------------------------------------------------------------
Active == {m \in Models : models[m] = "active"}

NotSyncing == [at |-> "idle", list |-> {}]

(* firstKey: without a usable key nothing is asked. *)
SyncAsks(y) ==
  /\ sync[y].at = "idle"
  /\ sync' = [sync EXCEPT ![y].at = "asked"]
  /\ UNCHANGED <<models, blocked, steady>>

(* Any JSON object is a list; what is none, and a lost connection, is an   *)
(* error.                                                                  *)
SyncAnswered(y) ==
  /\ sync[y].at = "asked"
  /\ sync' \in {[sync EXCEPT ![y] = NotSyncing]} \cup
               {[sync EXCEPT ![y] = [at |-> "write", list |-> list]] : list \in SUBSET Models}
  /\ UNCHANGED <<models, blocked, steady>>

(* Mutant: the two kinds of statement are not in one transaction. *)
UpsertInTwo(y) ==
  \/ /\ sync[y].at = "write"
     /\ models' = [m \in Models |-> IF models[m] = "active" THEN "gone" ELSE models[m]]
     /\ sync' = [sync EXCEPT ![y].at = "insert"]
     /\ UNCHANGED <<blocked, steady>>
  \/ /\ sync[y].at = "insert"
     /\ models' = [m \in Models |-> IF m \in sync[y].list THEN "active" ELSE models[m]]
     /\ steady' = IF \A m \in Models : models[m] = "absent" THEN sync[y].list
                  ELSE steady \cap sync[y].list
     /\ sync' = [sync EXCEPT ![y] = NotSyncing]
     /\ UNCHANGED blocked

UpsertModels(y) ==
  /\ sync[y].at = "write"
  /\ models' = [m \in Models |->
                 IF m \in sync[y].list THEN "active"
                 ELSE IF models[m] = "active" THEN "gone" ELSE models[m]]
  /\ steady' = IF \A m \in Models : models[m] = "absent" THEN sync[y].list
               ELSE steady \cap sync[y].list
  /\ sync' = [sync EXCEPT ![y] = NotSyncing]
  /\ UNCHANGED blocked

(* The transaction fails: nothing of it stays. *)
UpsertFails(y) ==
  /\ sync[y].at = "write"
  /\ sync' = [sync EXCEPT ![y] = NotSyncing]
  /\ UNCHANGED <<models, blocked, steady>>

CircuitTurns(m) ==
  /\ blocked' = IF m \in blocked THEN blocked \ {m} ELSE blocked \cup {m}
  /\ UNCHANGED <<models, sync, steady>>

CatalogueInit ==
  /\ models = [m \in Models |-> "absent"]
  /\ sync = [y \in Syncers |-> NotSyncing]
  /\ blocked = {} /\ steady = {}

CatalogueNext ==
  \/ \E y \in Syncers : SyncAsks(y) \/ SyncAnswered(y) \/ UpsertModels(y) \/ UpsertFails(y)
  \/ \E m \in Breakable : CircuitTurns(m)

-------------------------------------------------------------------------------
CatalogueTypeOK ==
  /\ models \in [Models -> {"absent", "active", "gone"}]
  /\ sync \in [Syncers -> [at : {"idle", "asked", "write"}, list : SUBSET Models]]
  /\ blocked \subseteq Breakable /\ steady \subseteq Models
=============================================================================
