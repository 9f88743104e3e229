------------------------------- MODULE Probes -------------------------------
(***************************************************************************)
(* Probing of models (internal/modelmeta/probe.go, internal/data/          *)
(* probes.go).  A sweep takes the list of active chat models and pings one *)
(* after the other, each ping lasting up to its timeout; administrators    *)
(* test single models, or start another sweep, meanwhile.  A result goes   *)
(* into the model's row and its history in one transaction, whose error is *)
(* ignored.                                                                *)
(*                                                                         *)
(* A probe is the number of its start, which stands for ts; what the ping  *)
(* found is left out.                                                      *)
(***************************************************************************)
EXTENDS Integers, Sequences, FiniteSets, SequencesExt

CONSTANTS
  ChatModels,  (* the chat models                                          *)
  Probers,     (* sweeps and tests under way at the same time              *)
  MaxProbes    (* bound: pings started                                     *)

ASSUME ProbesAssumption == MaxProbes \in Nat

VARIABLES
  started,  (* pings started so far                                        *)
  prober,   (* Probers -> [todo, on, probe]: models to come, the one       *)
            (* pinged now and its probe, 0 if none                         *)
  row,      (* model_probes: ChatModels -> probe, 0 without a row          *)
  trail,    (* model_probe_history: ChatModels -> probes by id             *)
  overtaken (* history: probes during which another of their model began   *)

probesVars == <<started, prober, row, trail, overtaken>>

-------------------------------------------------------------------------------
NotProbing == [todo |-> {}, on |-> "", probe |-> 0]

(* ProbeAll with the active models of the moment, or Probe of one model.   *)
(* Without a usable key nothing starts.                                    *)
ProbingStarts(p, list) ==
  /\ prober[p] = NotProbing
  /\ prober' = [prober EXCEPT ![p].todo = list]
  /\ UNCHANGED <<started, row, trail, overtaken>>

Ping(p, m) ==
  /\ m \in prober[p].todo /\ prober[p].probe = 0
  /\ started < MaxProbes
  /\ started' = started + 1
  /\ prober' = [prober EXCEPT ![p] = [todo |-> @.todo \ {m}, on |-> m, probe |-> started + 1]]
  /\ overtaken' = overtaken \cup
       {prober[q].probe : q \in {q \in Probers : prober[q].on = m /\ prober[q].probe # 0}}
  /\ UNCHANGED <<row, trail>>

Done(p) == prober' = [prober EXCEPT ![p].on = "", ![p].probe = 0]

(* Mutant: the two statements are on their own, and the second may fail. *)
UpsertWithoutTx(p) ==
  /\ prober[p].probe # 0
  /\ row' = [row EXCEPT ![prober[p].on] = prober[p].probe]
  /\ trail' \in {trail, [trail EXCEPT ![prober[p].on] = Append(@, prober[p].probe)]}
  /\ Done(p)
  /\ UNCHANGED <<started, overtaken>>

UpsertModelProbe(p) ==
  /\ prober[p].probe # 0
  /\ row' = [row EXCEPT ![prober[p].on] = prober[p].probe]
  /\ trail' = [trail EXCEPT ![prober[p].on] = Append(@, prober[p].probe)]
  /\ Done(p)
  /\ UNCHANGED <<started, overtaken>>

ProbeIsLost(p) ==
  /\ prober[p].probe # 0
  /\ Done(p)
  /\ UNCHANGED <<started, row, trail, overtaken>>

(* A restart, or the client of the test going away. *)
ProbingStops(p) ==
  /\ prober[p] # NotProbing
  /\ prober' = [prober EXCEPT ![p] = NotProbing]
  /\ UNCHANGED <<started, row, trail, overtaken>>

ProbesInit ==
  /\ started = 0
  /\ prober = [p \in Probers |-> NotProbing]
  /\ row = [m \in ChatModels |-> 0]
  /\ trail = [m \in ChatModels |-> <<>>]
  /\ overtaken = {}

ProbesNext ==
  \E p \in Probers :
    \/ \E list \in SUBSET ChatModels \ {{}} : ProbingStarts(p, list)
    \/ \E m \in ChatModels : Ping(p, m)
    \/ UpsertModelProbe(p) \/ ProbeIsLost(p) \/ ProbingStops(p)

ProbesSpec == ProbesInit /\ [][ProbesNext]_probesVars

-------------------------------------------------------------------------------
ProbesTypeOK ==
  /\ started \in 0..MaxProbes
  /\ prober \in [Probers -> [todo : SUBSET ChatModels, on : ChatModels \cup {""},
                             probe : 0..MaxProbes]]
  /\ row \in [ChatModels -> 0..MaxProbes]
  /\ trail \in [ChatModels -> Seq(1..MaxProbes)]
  /\ overtaken \subseteq 1..MaxProbes

NewestOf(m) == \A i \in DOMAIN trail[m] : trail[m][i] <= row[m]

(* The plaza, which shows the row, and the detail page, which orders the   *)
(* history by ts, go together: whatever sweeps and tests overlap, fail and *)
(* are cut off, the row is in the history, no probe is there twice, and    *)
(* the row is the page's newest unless another ping of the model began     *)
(* while its own was under way.                                            *)
RowIsNewestUnlessOvertaken ==
  \A m \in ChatModels :
    /\ IsInjective(trail[m])
    /\ row[m] \in ToSet(trail[m]) \/ (row[m] = 0 /\ trail[m] = <<>>)
    /\ row[m] \in overtaken \/ NewestOf(m)

(* What data/probes.go:16 says: the row is the most recent probe.          *)
RowIsMostRecent == \A m \in ChatModels : NewestOf(m)
=============================================================================
