----------------------------- MODULE ModelCircuit -----------------------------
(***************************************************************************)
(* The circuit of one model: its row of table model_circuit                *)
(* (internal/data/model_circuit.go).  Four parties read the whole row,     *)
(* change a copy and write the whole copy back, without a transaction      *)
(* around the two statements:                                              *)
(*   - a request that failed or succeeded on the model (the scheduler's    *)
(*     feedbackModelCircuit);                                              *)
(*   - the sweeper (internal/modelhealth), which probes the model and      *)
(*     judges it, by itself or through the sidecar's /verdict;             *)
(*   - an administrator who resets the circuit.                            *)
(* The entry handlers refuse a request for a blocked model, the model list *)
(* leaves a hidden one out; the playground asks neither.  Rows of          *)
(* different models do not interact.  Time is relative: a row says how     *)
(* many seconds its cooling has left.                                      *)
(***************************************************************************)
EXTENDS Integers, FiniteSets

CONSTANTS
  Requests,       (* slots for concurrent requests for the model           *)
  Sweeps,         (* slots for sweeps: the ticker's, an administrator's    *)
  Resets,         (* slots for manual resets                               *)
  Threshold,      (* consecutive failures that open the circuit; more are  *)
                  (* not counted, they make no difference                  *)
  Cooldown,       (* seconds it is then open                               *)
  BadToPermanent, (* bad sweeps that open it for good; likewise            *)
  SweepCooldown,  (* seconds a sweep opens it for, before back-off         *)
  MaxCooldown     (* the back-off's limit: 600 in the code                 *)

ASSUME ModelCircuitAssumption ==
  /\ Requests \cap Sweeps = {} /\ Requests \cap Resets = {} /\ Sweeps \cap Resets = {}
  /\ {Threshold, BadToPermanent} \subseteq Nat \ {0}
  /\ {Cooldown, SweepCooldown, MaxCooldown} \subseteq Nat
  /\ SweepCooldown <= MaxCooldown

VARIABLES
  row,      (* the row of the model, Absent before the first write         *)
  running,  (* Sweeper.running                                             *)
  pc,       (* Procs -> what the party is about to do                      *)
  seen      (* Procs -> the row as the party read it                       *)

vars == <<row, running, pc, seen>>

-------------------------------------------------------------------------------
Procs == Requests \cup Sweeps \cup Resets

(* The success rate of a sweep's probes, told apart by the two thresholds. *)
Rates == {"healthy", "poor", "bad"}

(* No cooling is longer than the back-off's limit, or the one that a       *)
(* request's failure starts.                                               *)
Coolings == 0..MaxCooldown \cup 0..Cooldown

Row == [state : {"closed", "open", "permanent"}, left : Coolings,
        fails : 0..Threshold, bad : 0..BadToPermanent, permanent : BOOLEAN]

Fresh == [state |-> "closed", left |-> 0, fails |-> 0, bad |-> 0, permanent |-> FALSE]
Absent == [Fresh EXCEPT !.state = "absent"]

(* Writers take a missing row for a closed circuit. *)
Copy(m) == IF m = Absent THEN Fresh ELSE m

(* Mutant: the cooling of an open circuit is not looked at. *)
BlockedForever(m) == m.state = "permanent" \/ m.state = "open"

(* IsModelCircuitOpen goes by the state ... *)
Blocked(m) == m.state = "permanent" \/ (m.state = "open" /\ m.left > 0)

(* ... and ListCircuitHiddenModels by the flag. *)
Hidden(m) == m.permanent \/ (m.state = "open" /\ m.left > 0)

-------------------------------------------------------------------------------
(***************************************************************************)
(* What each party makes of the row it read.                               *)
(***************************************************************************)
OneMore(n, most) == IF n < most THEN n + 1 ELSE most

(* Mutant: a late failure prolongs the cooling that is under way. *)
RecordedOnTop(m) ==
  LET c == [Copy(m) EXCEPT !.fails = OneMore(@, Threshold)]
  IN  IF c.fails >= Threshold THEN [c EXCEPT !.state = "open", !.left = @ + Cooldown] ELSE c

Recorded(m) ==
  LET c == [Copy(m) EXCEPT !.fails = OneMore(@, Threshold)]
  IN  IF c.fails >= Threshold THEN [c EXCEPT !.state = "open", !.left = Cooldown] ELSE c

Cleared(m) ==
  IF m.state = "open" THEN [m EXCEPT !.fails = 0, !.state = "closed", !.left = 0]
  ELSE [m EXCEPT !.fails = 0]

(* Mutant: the flag of a permanent circuit survives the reset. *)
WasResetKeepingFlag(m) == [Fresh EXCEPT !.permanent = m.permanent]

WasReset(m) == Fresh

Limited(n) == IF n > MaxCooldown THEN MaxCooldown ELSE n

(* The cooling after each round of the loop in next_cooldown, which stops  *)
(* doubling at the limit ...                                               *)
RoundsKernel[i \in 0..BadToPermanent] ==
  IF i <= 1 THEN SweepCooldown
  ELSE IF RoundsKernel[i - 1] >= MaxCooldown THEN RoundsKernel[i - 1]
  ELSE 2 * RoundsKernel[i - 1]

(* ... and in the gateway's nextCooldown, which does not. *)
RoundsGo[i \in 0..BadToPermanent] ==
  IF i <= 1 THEN SweepCooldown ELSE 2 * RoundsGo[i - 1]

(* Mutant: the loop that doubles runs once more than the gateway's. *)
NextCooldownFromZero(bad) ==
  Limited(IF bad = 0 THEN SweepCooldown ELSE 2 * RoundsKernel[bad])

NextCooldownKernel(bad) == Limited(RoundsKernel[bad])


NextCooldownGo(bad) == Limited(RoundsGo[bad])

(* compute.rs verdict, and the assignments that follow its answer. *)
VerdictKernel(m, r) ==
  LET c    == Copy(m)
      bad  == CASE r = "healthy" -> 0 [] r = "bad" -> OneMore(c.bad, BadToPermanent)
                [] OTHER -> c.bad
      perm == c.state = "permanent" \/ (r = "bad" /\ bad >= BadToPermanent)
      left == IF perm \/ r = "healthy" THEN 0
              ELSE IF r = "bad" THEN SweepCooldown ELSE NextCooldownKernel(bad)
  IN  [c EXCEPT !.bad = bad, !.permanent = perm, !.left = left,
                !.state = IF perm THEN "permanent"
                          ELSE IF r = "healthy" THEN "closed" ELSE "open"]

(* applyVerdict's own switch. *)
VerdictGo(m, r) ==
  LET c == Copy(m)
      opened(n) == IF c.state = "permanent" THEN c
                   ELSE [c EXCEPT !.state = "open", !.left = n]
  IN  CASE r = "healthy" ->
             [(IF c.state = "permanent" THEN c
               ELSE [c EXCEPT !.state = "closed", !.left = 0]) EXCEPT !.bad = 0]
        [] r = "bad" ->
             [(IF c.bad + 1 >= BadToPermanent
               THEN [c EXCEPT !.state = "permanent", !.permanent = TRUE]
               ELSE opened(SweepCooldown)) EXCEPT !.bad = OneMore(@, BadToPermanent)]
        [] OTHER -> opened(NextCooldownGo(c.bad))

-------------------------------------------------------------------------------
(***************************************************************************)
(* Requests.                                                               *)
(***************************************************************************)
Goto(p, label) == pc' = [pc EXCEPT ![p] = label]

(* The party is done, and its locals are gone. *)
Finish(p) == Goto(p, "idle") /\ seen' = [seen EXCEPT ![p] = Absent]

Admit(p) ==
  /\ pc[p] = "idle" /\ ~Blocked(row)
  /\ Goto(p, "serving")
  /\ UNCHANGED <<row, running, seen>>

(* From the playground, or the gate could not read the row. *)
AdmitUnasked(p) ==
  /\ pc[p] = "idle"
  /\ Goto(p, "serving")
  /\ UNCHANGED <<row, running, seen>>

(* Mutant: a permanent circuit is written like any other. *)
LeaveAlone(m) == FALSE

(* A permanent circuit is left alone by requests. *)
IsPermanent(m) == m.state = "permanent"

(* One of the calls failed: the row is read. *)
FailureReads(p) ==
  /\ pc[p] = "serving"
  /\ IF IsPermanent(row) THEN UNCHANGED <<pc, seen>>
     ELSE seen' = [seen EXCEPT ![p] = row] /\ Goto(p, "recording")
  /\ UNCHANGED <<row, running>>

(* The write, unless it fails; further calls of the request may yet answer. *)
FailureWrites(p) ==
  /\ pc[p] = "recording"
  /\ row' \in {row, Recorded(seen[p])}
  /\ Goto(p, "serving")
  /\ seen' = [seen EXCEPT ![p] = Absent]
  /\ UNCHANGED running

(* A call succeeded, which is the request's last feedback. *)
SuccessReads(p) ==
  /\ pc[p] = "serving"
  /\ IF row = Absent \/ IsPermanent(row) THEN Finish(p)
     ELSE seen' = [seen EXCEPT ![p] = row] /\ Goto(p, "clearing")
  /\ UNCHANGED <<row, running>>

SuccessWrites(p) ==
  /\ pc[p] = "clearing"
  /\ row' \in {row, Cleared(seen[p])}
  /\ Finish(p)
  /\ UNCHANGED running

(* No call is left, or the row could not be read. *)
Leave(p) ==
  /\ pc[p] = "serving"
  /\ Finish(p)
  /\ UNCHANGED <<row, running>>

-------------------------------------------------------------------------------
(***************************************************************************)
(* Sweeps: one at a time, by the flag.  A second one is refused.           *)
(***************************************************************************)
StartSweep(p) ==
  /\ pc[p] = "idle" /\ ~running
  /\ running' = TRUE
  /\ Goto(p, "probing")
  /\ UNCHANGED <<row, seen>>

(* The probes have ended, and the row is read. *)
SweepReads(p) ==
  /\ pc[p] = "probing"
  /\ seen' = [seen EXCEPT ![p] = row]
  /\ Goto(p, "judging")
  /\ UNCHANGED <<row, running>>

(* The verdict on what the probes said, by the sidecar or without it. *)
SweepWrites(p) ==
  /\ pc[p] = "judging"
  /\ \E r \in Rates : row' \in {row, VerdictKernel(seen[p], r), VerdictGo(seen[p], r)}
  /\ running' = FALSE
  /\ Finish(p)

(* Mutant: an error returns without the deferred reset of the flag. *)
GiveUpHoldingFlag(p) ==
  /\ pc[p] \in {"probing", "judging"}
  /\ Finish(p)
  /\ UNCHANGED <<row, running>>

(* No model or key could be listed, the context ended, the row not read. *)
GiveUp(p) ==
  /\ pc[p] \in {"probing", "judging"}
  /\ running' = FALSE
  /\ Finish(p)
  /\ UNCHANGED row

-------------------------------------------------------------------------------
(***************************************************************************)
(* Resets, restarts, time.                                                 *)
(***************************************************************************)
ResetReads(p) ==
  /\ pc[p] = "idle" /\ row # Absent
  /\ seen' = [seen EXCEPT ![p] = row]
  /\ Goto(p, "resetting")
  /\ UNCHANGED <<row, running>>

ResetWrites(p) ==
  /\ pc[p] = "resetting"
  /\ row' \in {row, WasReset(seen[p])}
  /\ Finish(p)
  /\ UNCHANGED running

(* The gateway restarts: only the row is kept. *)
Restart ==
  /\ running' = FALSE
  /\ pc' = [p \in Procs |-> "idle"]
  /\ seen' = [p \in Procs |-> Absent]
  /\ UNCHANGED row

Older(m) == [m EXCEPT !.left = IF @ > 0 THEN @ - 1 ELSE 0]

Tick ==
  /\ row' = Older(row)
  /\ seen' = [p \in Procs |-> Older(seen[p])]
  /\ UNCHANGED <<running, pc>>

-------------------------------------------------------------------------------
Init ==
  /\ row = Absent
  /\ running = FALSE
  /\ pc = [p \in Procs |-> "idle"]
  /\ seen = [p \in Procs |-> Absent]

Request(p) ==
  FailureWrites(p) \/ SuccessReads(p) \/ SuccessWrites(p) \/ Leave(p)

Sweep(p) == SweepReads(p) \/ SweepWrites(p) \/ GiveUp(p)

Next ==
  \/ \E p \in Requests : Admit(p) \/ AdmitUnasked(p) \/ FailureReads(p) \/ Request(p)
  \/ \E p \in Sweeps : StartSweep(p) \/ Sweep(p)
  \/ \E p \in Resets : ResetReads(p) \/ ResetWrites(p)
  \/ Restart
  \/ Tick

Spec == Init /\ [][Next]_vars

(***************************************************************************)
(* A request writes what it read and comes to the last of its calls, a     *)
(* sweep comes to its end, and time passes.  That requests, sweeps or      *)
(* resets start is not assumed.                                            *)
(***************************************************************************)
FairSpec ==
  /\ Spec
  /\ WF_vars(Tick)
  /\ \A p \in Requests : WF_vars(Request(p)) /\ SF_vars(Leave(p) \/ SuccessReads(p))
  /\ \A p \in Sweeps : WF_vars(Sweep(p))

-------------------------------------------------------------------------------
Labels == {"idle", "serving", "recording", "clearing", "probing", "judging", "resetting"}

(* Every variable keeps its type, and however often a circuit is opened    *)
(* while it is open, by late failures and by sweeps that back off, it      *)
(* never has more than the longest cooling left.                           *)
TypeOK ==
  /\ row \in Row \cup {Absent}
  /\ running \in BOOLEAN
  /\ pc \in [Procs -> Labels]
  /\ seen \in [Procs -> Row \cup {Absent}]

(* The flag lets one sweep run at a time, and every way a sweep can end    *)
(* gives it back: a flag left up would refuse all sweeps from then on.     *)
OneSweepAtATime ==
  Cardinality({p \in Sweeps : pc[p] # "idle"}) = IF running THEN 1 ELSE 0

(* A model is left out of the list exactly while requests for it are       *)
(* refused, although the list goes by the flag and the gate by the state.  *)
HiddenIsRefused == Hidden(row) = Blocked(row)

Permanent(m) == m.state = "permanent"

(* The sidecar's verdict and the gateway's own (applyVerdict: the numbers  *)
(* are aligned, so that falling back goes unnoticed) make the same of      *)
(* every row a sweep can read; only a permanent row's cooling, which       *)
(* nobody reads, may differ.                                               *)
VerdictsAgree ==
  \A r \in Rates :
    LET k == VerdictKernel(row, r)
        g == VerdictGo(row, r)
    IN  \/ k = g
        \/ Permanent(k) /\ [g EXCEPT !.left = 0] = k

(* Nobody who read the circuit as permanent lifts it, an administrator     *)
(* apart: whoever else does had read the row before it became so.          *)
LiftedKnowinglyByResetsOnly ==
  [][Permanent(row) /\ ~Permanent(row') =>
       \E p \in Procs : /\ pc[p] # "idle" /\ pc'[p] # pc[p]
                        /\ p \in Resets \/ ~Permanent(seen[p])]_vars

(* A model that is open, and not for good, serves again: once sweeps have  *)
(* stopped and requests come through the gate only, a circuit that is open *)
(* lets a request through, or was made permanent.                          *)
OpenModelsServeAgain ==
  /\ <>[]~running
  /\ <>[][\A p \in Requests : pc[p] = "idle" /\ pc'[p] # "idle" => ~Blocked(row)]_vars
  => (Blocked(row) ~> ~Blocked(row) \/ Permanent(row))

(* What the scheduler's comment says (feedbackModelCircuit: a permanent    *)
(* circuit is not affected by passive feedback) and the test's             *)
(* (TestApplyVerdict_PermanentNotReopenedByGoodRate: only a manual reset   *)
(* lifts it): a step that lifts a permanent circuit is a reset's.          *)
PermanentStands ==
  [][Permanent(row) /\ ~Permanent(row') =>
       \E p \in Resets : pc[p] = "resetting" /\ pc'[p] = "idle"]_vars
=============================================================================
