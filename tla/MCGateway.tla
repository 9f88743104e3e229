----------------------------- MODULE MCGateway -----------------------------
(***************************************************************************)
(* The components of the gateway that share no state with one another,     *)
(* side by side: a behaviour is one of the component that Init chooses,    *)
(* while the others stand still.                                           *)
(***************************************************************************)
EXTENDS Journal, Backups, Console, Adaptive, AutoPilot, Entry, Probes, Keyring, Agent, TLC

VARIABLE part   (* the component that runs                                 *)

gatewayVars == <<part, journalVars, backupsVars, consoleVars, adaptiveVars, autoPilotVars,
                 entryVars, probesVars, keyringVars, agentVars>>

-------------------------------------------------------------------------------
(* Fields of the settings in two environments; the second one has no       *)
(* timeout, which config.Load does not refuse.                             *)
MCEnvironments ==
  {[f \in Fields |-> IF f = "max" THEN 2 ELSE 1],
   [f \in Fields |-> CASE f = "timeout" -> 0 [] f \in {"default", "max", "mh"} -> 2 [] OTHER -> 1]}

MCPatches == {"max" :> 1, "max" :> 2 @@ "mh" :> 0 @@ "timeout" :> 1}

MCPresets == "balanced" :> ("threshold" :> 1 @@ "cooldown" :> 1)
          @@ "guardian" :> ("threshold" :> 2 @@ "cooldown" :> 1)

MCLimits == {<<2, 4>>, <<1, 1>>, <<3, 8>>}

MCTurn(role, text) == [role |-> role, text |-> text]

MCAsk(protocol, name, shape, system, turns) ==
  [protocol |-> protocol, name |-> name, shape |-> shape, system |-> system, turns |-> turns]

MCRequests ==
  {MCAsk("chat", "gpt", "turns", <<>>,
         <<MCTurn("user", <<"a">>), MCTurn("assistant", <<"b">>), MCTurn("tool", <<"a">>)>>),
   MCAsk("chat", "big", "prompt", <<>>, <<MCTurn("user", <<"a">>)>>),
   MCAsk("chat", "", "broken", <<>>, <<>>),
   MCAsk("claude", "claude", "turns", <<"s", "">>,
         <<MCTurn("", <<"a", "", "b">>), MCTurn("assistant", <<"b">>)>>),
   MCAsk("gemini", "gemini", "turns", <<"">>,
         <<MCTurn("user", <<"a">>), MCTurn("model", <<"b", "">>), MCTurn("", <<"a">>)>>),
   MCAsk("completions", "big", "turns", <<>>, <<MCTurn("user", <<"a">>)>>),
   MCAsk("embeddings", "big", "broken", <<>>, <<>>),
   MCAsk("ranking", "big", "prompt", <<>>, <<MCTurn("user", <<"a">>)>>),
   MCAsk("claude", "", "turns", <<>>, <<MCTurn("user", <<"a">>)>>)}

MCAliases == "chat" :> ("gpt" :> "big") @@ "claude" :> ("claude" :> "big")
          @@ "gemini" :> ("gemini" :> "small")

MCImports == {<<"k1", "bad", "k2">>, <<"k2", "k2">>}

MCAnswers == {<<>>, <<"set">>, <<"none">>, <<"none", "set">>}

-------------------------------------------------------------------------------
(* Only the console has more than one initial state. *)
MCInit ==
  /\ part \in {"journal", "backups", "console", "adaptive", "autopilot",
              "entry", "probes", "keyring", "agent"}
  /\ JournalInit /\ BackupsInit /\ ConsoleInit /\ AdaptiveInit /\ AutoPilotInit
  /\ EntryInit /\ ProbesInit /\ KeyringInit /\ AgentInit
  /\ part # "console" => env["timeout"] > 0

MCNext ==
  \/ /\ part = "journal" /\ JournalNext
     /\ UNCHANGED <<part, backupsVars, consoleVars, adaptiveVars, autoPilotVars,
                    entryVars, probesVars, keyringVars, agentVars>>
  \/ /\ part = "backups" /\ BackupsNext
     /\ UNCHANGED <<part, journalVars, consoleVars, adaptiveVars, autoPilotVars,
                    entryVars, probesVars, keyringVars, agentVars>>
  \/ /\ part = "console" /\ ConsoleNext
     /\ UNCHANGED <<part, journalVars, backupsVars, adaptiveVars, autoPilotVars,
                    entryVars, probesVars, keyringVars, agentVars>>
  \/ /\ part = "adaptive" /\ AdaptiveNext
     /\ UNCHANGED <<part, journalVars, backupsVars, consoleVars, autoPilotVars,
                    entryVars, probesVars, keyringVars, agentVars>>
  \/ /\ part = "autopilot" /\ AutoPilotNext
     /\ UNCHANGED <<part, journalVars, backupsVars, consoleVars, adaptiveVars,
                    entryVars, probesVars, keyringVars, agentVars>>
  \/ /\ part = "entry" /\ EntryNext
     /\ UNCHANGED <<part, journalVars, backupsVars, consoleVars, adaptiveVars,
                    autoPilotVars, probesVars, keyringVars, agentVars>>
  \/ /\ part = "probes" /\ ProbesNext
     /\ UNCHANGED <<part, journalVars, backupsVars, consoleVars, adaptiveVars,
                    autoPilotVars, entryVars, keyringVars, agentVars>>
  \/ /\ part = "keyring" /\ KeyringNext
     /\ UNCHANGED <<part, journalVars, backupsVars, consoleVars, adaptiveVars,
                    autoPilotVars, entryVars, probesVars, agentVars>>
  \/ /\ part = "agent" /\ AgentNext
     /\ UNCHANGED <<part, journalVars, backupsVars, consoleVars, adaptiveVars,
                    autoPilotVars, entryVars, probesVars, keyringVars>>

(* The journal's own, while it is the one that runs. *)
MCFairness ==
  /\ WF_journalVars(part = "journal" /\ Receive)
  /\ WF_journalVars(part = "journal" /\ OnTimer)
  /\ WF_journalVars(part = "journal" /\ OnDone)
  /\ WF_journalVars(part = "journal" /\ DrainEnds)
  /\ WF_journalVars(part = "journal" /\ TimerFires)
  /\ WF_journalVars(part = "journal" /\ CloseReturns)

MCSpec == MCInit /\ [][MCNext]_gatewayVars /\ MCFairness

-------------------------------------------------------------------------------
(* Every component's state has its shape: settings are numbers, queues and *)
(* batches stay within their capacity, a bucket has a rate some key has.   *)
TypesOK ==
  /\ JournalTypeOK /\ BackupsTypeOK /\ ConsoleTypeOK /\ AdaptiveTypeOK /\ AutoPilotTypeOK
  /\ EntryTypeOK /\ ProbesTypeOK /\ KeyringTypeOK /\ AgentTypeOK
=============================================================================
