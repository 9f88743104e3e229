----------------------------- MODULE AutoPilot -----------------------------
(***************************************************************************)
(* The auto-pilot's loop and its modes (internal/autopilot: controller,    *)
(* executor; internal/admin/autopilot.go).  A tick takes the mode once,    *)
(* lets the engine decide, which may take long, and then carries out one   *)
(* action after the other: in manual mode none, in assisted mode the       *)
(* reversible ones, the others becoming suggestions in table settings; in  *)
(* fullauto mode all that are sure enough.  Administrators change the      *)
(* mode and approve or reject suggestions, each handler being a few        *)
(* separate statements.                                                    *)
(*                                                                         *)
(* An action is reversible ("tune": a change of the overrides, module      *)
(* Adaptive says which) or destructive (an upstream key or a credential    *)
(* is taken out of service), then with or without the confidence that      *)
(* fullauto asks for.                                                      *)
(***************************************************************************)
EXTENDS Integers, Sequences, FiniteSets

CONSTANTS
  Operators,       (* handlers of administrators under way at a time       *)
  MaxBatch,        (* bound: actions of a tick                             *)
  MaxSuggestions   (* bound: suggestions ever written                      *)

ASSUME AutoPilotAssumption ==
  MaxBatch \in Nat \ {0} /\ MaxSuggestions \in Nat

VARIABLES
  mode,       (* Controller.mode                                           *)
  modeRow,    (* settings: autopilot.mode, "" when it was never set        *)
  tick,       (* the loop: [at, mode, todo]                                *)
  written,    (* number of suggestions written so far; they are 1..written *)
  pending,    (* those whose row is there                                  *)
  operator,   (* Operators -> [at, on]: the handler and its suggestion,    *)
              (* or the mode it still has to save                          *)
  damage,     (* destructive actions carried out by ticks in each mode     *)
  runs,       (* history: times a suggestion was carried out               *)
  settled,    (* history: suggestions approved or rejected for good        *)
  contested   (* history: suggestions that two handlers had in hand, or    *)
              (* whose row could not be deleted                            *)

autoPilotVars == <<mode, modeRow, tick, written, pending, operator, damage, runs,
                   settled, contested>>

-------------------------------------------------------------------------------
Modes == {"manual", "assisted", "fullauto"}

Decisions == {"tune", "sure", "unsure"}

Suggestions == 1..MaxSuggestions

NoTick == [at |-> "idle", mode |-> "assisted", todo |-> <<>>]

NoHandler == [at |-> "idle", on |-> 0]

isDestructive(a) == a # "tune"

(* Handlers that have suggestion s in hand. *)
InHand(s) == {o \in Operators : operator[o].at \in {"execute", "delete", "drop"} /\ operator[o].on = s}

(* A handler that takes s while another has it contests it. *)
Took(s) == contested' = IF InHand(s) = {} THEN contested ELSE contested \cup {s}

-------------------------------------------------------------------------------
(***************************************************************************)
(* The loop.                                                               *)
(***************************************************************************)
TickTakesMode ==
  /\ tick.at = "idle"
  /\ tick' = [tick EXCEPT !.at = "deciding", !.mode = mode]
  /\ UNCHANGED <<mode, modeRow, written, pending, operator, damage, runs, settled, contested>>

(* An engine that fails decides nothing. *)
EngineDecides ==
  /\ tick.at = "deciding"
  /\ \E n \in 0..MaxBatch : \E todo \in [1..n -> Decisions] :
       tick' = [tick EXCEPT !.at = IF n = 0 THEN "idle" ELSE "applying", !.todo = todo]
  /\ UNCHANGED <<mode, modeRow, written, pending, operator, damage, runs, settled, contested>>

(* What Apply does with one action. *)
Disposition(m, a) ==
  CASE m = "manual" -> "record"
    [] m = "assisted" /\ isDestructive(a) -> "suggest"
    [] m = "fullauto" /\ a = "unsure" -> "record"
    [] OTHER -> "execute"

(* The row of a suggestion or of a key may fail to be written: the loop    *)
(* goes on.                                                                *)
ApplyNext ==
  /\ tick.at = "applying"
  /\ LET a    == Head(tick.todo)
         does == Disposition(tick.mode, a)
     IN  /\ \/ /\ does = "suggest" /\ written < MaxSuggestions
               /\ written' = written + 1 /\ pending' = pending \cup {written + 1}
               /\ damage' = damage
            \/ /\ does = "execute" /\ isDestructive(a)
               /\ damage' = damage \cup {<<tick.mode, a>>}
               /\ UNCHANGED <<written, pending>>
            \/ UNCHANGED <<written, pending, damage>>
         /\ tick' = [tick EXCEPT !.todo = Tail(@), !.at = IF Len(tick.todo) = 1 THEN "idle" ELSE @]
  /\ UNCHANGED <<mode, modeRow, operator, runs, settled, contested>>

-------------------------------------------------------------------------------
(***************************************************************************)
(* Administrators: SetMode is memory, then row.                            *)
(***************************************************************************)
SetMode(o, m) ==
  /\ operator[o].at = "idle"
  /\ mode' = m
  /\ operator' = [operator EXCEPT ![o] = [at |-> "save", on |-> m]]
  /\ UNCHANGED <<modeRow, tick, written, pending, damage, runs, settled, contested>>

SaveMode(o) ==
  /\ operator[o].at = "save"
  /\ modeRow' \in {operator[o].on, modeRow}
  /\ operator' = [operator EXCEPT ![o] = NoHandler]
  /\ UNCHANGED <<mode, tick, written, pending, damage, runs, settled, contested>>

(* Mutant: a suggestion whose row is gone is approved all the same. *)
ApproveAny(o, s) ==
  /\ operator[o].at = "idle" /\ s \in 1..written
  /\ operator' = [operator EXCEPT ![o] = [at |-> "execute", on |-> s]]
  /\ Took(s)
  /\ UNCHANGED <<mode, modeRow, tick, written, pending, damage, runs, settled>>

(* A missing row reads as "", which is no action: the handler answers 400. *)
ApprovePending(o, s) ==
  /\ operator[o].at = "idle" /\ s \in pending
  /\ operator' = [operator EXCEPT ![o] = [at |-> "execute", on |-> s]]
  /\ Took(s)
  /\ UNCHANGED <<mode, modeRow, tick, written, pending, damage, runs, settled>>

ExecuteApproved(o) ==
  /\ operator[o].at = "execute"
  /\ \/ /\ runs' = [runs EXCEPT ![operator[o].on] = IF @ < 2 THEN @ + 1 ELSE @]
        /\ operator' = [operator EXCEPT ![o].at = "delete"]
     \/ /\ operator' = [operator EXCEPT ![o] = NoHandler]
        /\ runs' = runs
  /\ UNCHANGED <<mode, modeRow, tick, written, pending, damage, settled, contested>>

(* An approval does not look at the error. *)
DeleteRow(o) ==
  /\ operator[o].at \in {"delete", "drop"}
  /\ LET s == operator[o].on
     IN  \/ pending' = pending \ {s} /\ settled' = settled \cup {s} /\ contested' = contested
         \/ UNCHANGED <<pending, settled>> /\ contested' = contested \cup {s}
  /\ operator' = [operator EXCEPT ![o] = NoHandler]
  /\ UNCHANGED <<mode, modeRow, tick, written, damage, runs>>

(* A rejection does not ask whether the row is there. *)
RejectPending(o, s) ==
  /\ operator[o].at = "idle" /\ s \in 1..written
  /\ operator' = [operator EXCEPT ![o] = [at |-> "drop", on |-> s]]
  /\ Took(s)
  /\ UNCHANGED <<mode, modeRow, tick, written, pending, damage, runs, settled>>

(* A restart cuts handlers off, and loads the mode (loadPersisted). *)
PilotRestarts ==
  /\ tick' = NoTick
  /\ operator' = [o \in Operators |-> NoHandler]
  /\ mode' = IF modeRow = "" THEN "assisted" ELSE modeRow
  /\ contested' = contested \cup {s \in Suggestions : InHand(s) # {}}
  /\ UNCHANGED <<modeRow, written, pending, damage, runs, settled>>

AutoPilotInit ==
  /\ mode = "assisted" /\ modeRow = ""
  /\ tick = NoTick
  /\ written = 0 /\ pending = {}
  /\ operator = [o \in Operators |-> NoHandler]
  /\ damage = {}
  /\ runs = [s \in Suggestions |-> 0]
  /\ settled = {} /\ contested = {}

AutoPilotNext ==
  \/ TickTakesMode \/ EngineDecides \/ ApplyNext
  \/ \E o \in Operators :
       \/ \E m \in Modes : SetMode(o, m)
       \/ \E s \in Suggestions : ApprovePending(o, s) \/ RejectPending(o, s)
       \/ SaveMode(o) \/ ExecuteApproved(o) \/ DeleteRow(o)
  \/ PilotRestarts

AutoPilotSpec == AutoPilotInit /\ [][AutoPilotNext]_autoPilotVars

-------------------------------------------------------------------------------
AutoPilotTypeOK ==
  /\ mode \in Modes /\ modeRow \in Modes \cup {""}
  /\ tick \in [at : {"idle", "deciding", "applying"}, mode : Modes, todo : Seq(Decisions)]
  /\ written \in 0..MaxSuggestions /\ pending \subseteq 1..written
  /\ operator \in [Operators -> [at : {"idle"}, on : {0}] \cup [at : {"save"}, on : Modes]
                                \cup [at : {"execute", "delete", "drop"}, on : 1..written]]
  /\ damage \subseteq Modes \X Decisions
  /\ runs \in [Suggestions -> 0..2]
  /\ settled \subseteq 1..written

(* A suggestion that only one handler at a time had in hand, and whose row *)
(* could be deleted, is carried out once at most, and never after it was   *)
(* rejected: approving again, approving what a colleague rejected, or      *)
(* rejecting what was carried out, changes nothing.                        *)
SuggestionsAreSettledOnce ==
  [][\A s \in Suggestions : runs'[s] # runs[s] =>
       s \in contested' \/ (runs[s] = 0 /\ s \notin settled)]_autoPilotVars
=============================================================================
