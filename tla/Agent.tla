------------------------------- MODULE Agent -------------------------------
(***************************************************************************)
(* The language model's engine with a model behind it (internal/agent,     *)
(* internal/autopilot/llm.go and llm_tools.go): up to MaxSteps times the   *)
(* whole transcript goes to the model; the tools it calls are run in       *)
(* order, each only noting an action, and their observations are appended; *)
(* an answer without calls, or the last step, ends the run.  A call of the *)
(* model may fail at any step.                                             *)
(*                                                                         *)
(* A tool call is <<step, number, name>>; texts are left out.              *)
(***************************************************************************)
EXTENDS Integers, Sequences, FiniteSets, Listing

CONSTANTS
  Tools,        (* names of the registry                                   *)
  Answers,      (* the lists of tool names a model may call at a time      *)
  MaxSteps      (* 6 in the code                                           *)

ASSUME AgentAssumption ==
  /\ MaxSteps \in Nat \ {0}
  /\ \A names \in Answers : names \in Seq(STRING)

VARIABLES
  chats,       (* answers of the model in this run                         *)
  transcript,  (* messages                                                 *)
  noted,       (* actions the tools noted                                  *)
  run,         (* "idle", "asking" the model, or "done"                    *)
  decided      (* what Decide returned: actions for the executor           *)

agentVars == <<chats, transcript, noted, run, decided>>

-------------------------------------------------------------------------------
Prompt == <<[role |-> "system", calls |-> <<>>, answers |-> <<>>],
            [role |-> "user", calls |-> <<>>, answers |-> <<>>]>>

Assistant(calls) == [role |-> "assistant", calls |-> calls, answers |-> <<>>]

Observation(call) == [role |-> "tool", calls |-> <<>>, answers |-> call]

Calls(names) == [i \in DOMAIN names |-> <<chats + 1, i, names[i]>>]

Known(calls) == Thinned(calls, {i \in DOMAIN calls : calls[i][3] \in Tools})

(* Mutant: a call of an unknown tool is passed over. *)
ObservedKnown(calls) == [i \in DOMAIN Known(calls) |-> Observation(Known(calls)[i])]

(* An unknown tool is observed as an error. *)
Observed(calls) == [i \in DOMAIN calls |-> Observation(calls[i])]

-------------------------------------------------------------------------------
AgentStarts ==
  /\ run # "asking"
  /\ run' = "asking" /\ chats' = 0
  /\ transcript' = Prompt
  /\ noted' = <<>> /\ decided' = <<>>

ModelAnswers(names) ==
  /\ run = "asking"
  /\ chats' = chats + 1
  /\ IF names = <<>>
     THEN UNCHANGED <<transcript, noted>>
     ELSE /\ transcript' = transcript \o <<Assistant(Calls(names))>> \o Observed(Calls(names))
          /\ noted' = noted \o Known(Calls(names))
  /\ IF names = <<>> \/ chats + 1 = MaxSteps
     THEN run' = "done" /\ decided' = noted'
     ELSE UNCHANGED <<run, decided>>

(* The run's actions so far are not returned. *)
ModelFails ==
  /\ run = "asking"
  /\ run' = "done"
  /\ UNCHANGED <<chats, transcript, noted, decided>>

AgentInit ==
  /\ chats = 0 /\ transcript = Prompt /\ noted = <<>>
  /\ run = "idle" /\ decided = <<>>

AgentNext ==
  \/ AgentStarts \/ ModelFails
  \/ \E names \in Answers : ModelAnswers(names)

AgentSpec == AgentInit /\ [][AgentNext]_agentVars

-------------------------------------------------------------------------------
AgentTypeOK ==
  /\ chats \in 0..MaxSteps
  /\ \A i \in DOMAIN transcript : transcript[i].role \in {"system", "user", "assistant", "tool"}
  /\ run \in {"idle", "asking", "done"}

(* What an OpenAI-compatible upstream demands of every transcript: each    *)
(* call of an assistant is answered by one tool message, in the order of   *)
(* the calls and right after it, also for tools that do not exist; and     *)
(* what the executor gets are the actions that the model was told are      *)
(* noted, or none when its run failed.                                     *)
TranscriptIsWellFormed ==
  /\ \A i \in DOMAIN transcript :
       /\ \A n \in DOMAIN transcript[i].calls :
            /\ i + n \in DOMAIN transcript
            /\ transcript[i + n].answers = transcript[i].calls[n]
       /\ transcript[i].role = "tool" =>
            \E j \in 1..(i - 1) : /\ i - j \in DOMAIN transcript[j].calls
                                  /\ transcript[j].calls[i - j] = transcript[i].answers
  /\ \A i \in DOMAIN decided :
       \E j \in DOMAIN transcript : transcript[j].answers = decided[i]
=============================================================================
