------------------------------- MODULE Entry -------------------------------
(***************************************************************************)
(* A client's request on its way through internal/entry, while catalogue   *)
(* and circuits change: read and normalise the body, look the model up,    *)
(* ask for its circuit, translate, dispatch, translate back.  Each look is *)
(* a statement of its own.  What the dispatch does is module Dispatch's.   *)
(*                                                                         *)
(* A text is a sequence of blocks; one that is not text, or is empty, is   *)
(* "".  A name is a model, an alias that one of the protocols knows, or    *)
(* another string; "" is no name.                                          *)
(***************************************************************************)
EXTENDS Catalogue, Listing, SequencesExt

CONSTANTS
  ClientRequests,  (* [protocol, name, shape, system, turns]                *)
  Aliases          (* protocol -> (name -> model)                           *)

Protocols == {"chat", "completions", "embeddings", "ranking", "claude", "gemini"}

(* Those whose handlers ask the StalenessChecker. *)
Checking == {"chat", "claude", "gemini"}

OpenAIRoles == {"system", "developer", "user", "assistant", "tool"}

(* The roles that a client of the protocol uses; "" where it gives none. *)
RolesOf(protocol) == CASE protocol = "claude" -> {"", "user", "assistant"}
                       [] protocol = "gemini" -> {"", "user", "model"}
                       [] OTHER -> OpenAIRoles

(* What a request is, whichever the protocol: a prompt, or a string for    *)
(* messages, is a turn of the user, and OpenAI's system text is a turn.    *)
IsRequest(c) ==
  /\ c.protocol \in Protocols
  /\ c.shape \in {"turns", "string", "prompt", "broken"}
  /\ c.system \in Seq(STRING)
  /\ c.turns \in Seq([role : RolesOf(c.protocol), text : Seq(STRING)])
  /\ c.protocol = "chat" => c.system = <<>>
  /\ c.shape \in {"string", "prompt"} => Len(c.turns) = 1 /\ c.turns[1].role = "user"

ASSUME EntryAssumption ==
  /\ "" \notin Models
  /\ \A c \in ClientRequests : IsRequest(c)
  /\ DOMAIN Aliases \subseteq Checking
  /\ \A p \in DOMAIN Aliases : \A n \in DOMAIN Aliases[p] : Aliases[p][n] \in Models

VARIABLES
  request,  (* the client's request, or NoRequest                          *)
  at,       (* where its handler is                                        *)
  sent,     (* the body given to the scheduler                             *)
  echoed,   (* the model named in the answer                               *)
  seen      (* history: what held of its model while the request ran       *)

entryVars == <<catalogueVars, request, at, sent, echoed, seen>>

-------------------------------------------------------------------------------
NoRequest == [protocol |-> "chat", name |-> "", shape |-> "turns",
              system |-> <<>>, turns |-> <<>>]

Message(role, text) == [role |-> role, text |-> text]

(* mapModelAlias, mapClaudeModel and mapGeminiModel; the other handlers    *)
(* take the name as it is.                                                 *)
Mapped(c) ==
  IF c.protocol \in DOMAIN Aliases /\ c.name \in DOMAIN Aliases[c.protocol]
  THEN Aliases[c.protocol][c.name] ELSE c.name

(* Mutant: the circuit is asked for under the client's name. *)
CheckedName(c) == IF c.protocol = "completions" \/ c.shape = "broken" THEN "" ELSE c.name

(* What the handler asks the circuit of.  handleCompletions does not ask;  *)
(* the handlers that only forward find no model in a body that they cannot *)
(* decode, though the upstream may.                                        *)
CheckedModel(c) ==
  IF c.protocol = "completions" \/ c.shape = "broken" THEN "" ELSE Mapped(c)

(* joinBlocks, joinGeminiParts. *)
Joined(text) == Thinned(text, {i \in DOMAIN text : text[i] # ""})

(* Mutant: roles are taken over from the client. *)
SameRole(c, role) == role

(* OpenAI's name of a role. *)
Role(c, role) ==
  CASE c.protocol = "gemini" -> IF role = "model" THEN "assistant" ELSE "user"
    [] c.protocol = "claude" /\ role = "" -> "user"
    [] OTHER -> role

(* normalizeChatRequest, or one of the two ToOpenAIChatRequest. *)
Body(c) ==
  LET said == [i \in DOMAIN c.turns |-> Message(Role(c, c.turns[i].role), Joined(c.turns[i].text))]
  IN  CASE c.protocol \in {"claude", "gemini"} ->
             [model |-> Mapped(c),
              messages |-> (IF Joined(c.system) # <<>>
                            THEN <<Message("system", Joined(c.system))>> ELSE <<>>) \o said]
        [] c.protocol = "chat" ->
             [model |-> Mapped(c),
              messages |-> IF c.shape = "turns" THEN c.turns
                           ELSE <<Message("user", c.turns[1].text)>>]
        [] OTHER -> [model |-> c.name, messages |-> c.turns]

(* The model's name in the answer, as the upstream gave it or put back, if *)
(* the client gave one.  Gemini's answer has none.                         *)
Echo(c) == CASE c.protocol = "claude" /\ c.name # "" -> c.name
             [] c.protocol = "gemini" -> ""
             [] OTHER -> Body(c).model

(* What holds after the step of the model of the request that runs then.   *)
Now ==
  LET m == Mapped(request')
  IN  {fact \in {"active", "open", "unsteady", "blocked"} :
         /\ fact = "active"   => m \in Active'
         /\ fact = "open"     => m \notin blocked'
         /\ fact = "unsteady" => m \notin steady'
         /\ fact = "blocked"  => m \in blocked'}

Watched == seen' = seen \cup Now

Goes(place) ==
  /\ at' = place
  /\ UNCHANGED <<catalogueVars, request, sent, echoed>>
  /\ Watched

(* A statement's error is no reason to refuse. *)
LookFails(place) ==
  /\ at' = place
  /\ UNCHANGED <<catalogueVars, request, sent, echoed>>
  /\ seen' = seen \cup Now \cup {"failed"}

-------------------------------------------------------------------------------
RequestArrives(c) ==
  /\ at = "none"
  /\ request' = c
  /\ at' = "body"
  /\ UNCHANGED <<catalogueVars, sent, echoed>>
  /\ seen' = Now

(* A body that is no JSON gets 400, unless the handler only forwards it. *)
BodyRead ==
  /\ at = "body"
  /\ Goes(IF request.protocol \notin Checking THEN "circuit"
          ELSE IF request.shape = "broken" THEN "refused" ELSE "check")

(* Check: absent and gone models get 404, with a suggestion from a second  *)
(* statement, which is left out.                                           *)
Check ==
  /\ at = "check"
  /\ \/ Goes(IF Mapped(request) \notin Active \cup {""} THEN "refused" ELSE "circuit")
     \/ Mapped(request) # "" /\ LookFails("circuit")

checkModelCircuit ==
  /\ at = "circuit"
  /\ \/ Goes(IF CheckedModel(request) \in blocked THEN "refused" ELSE "send")
     \/ CheckedModel(request) # "" /\ LookFails("send")

DispatchBody ==
  /\ at = "send"
  /\ sent' = Body(request)
  /\ at' = "sent"
  /\ UNCHANGED <<catalogueVars, request, echoed>>
  /\ Watched

(* Every key failed, the upstream rejects the request, or its answer       *)
(* cannot be translated.                                                   *)
NoSuccess == at = "sent" /\ Goes("failed")

(* The upstream's body: as it is, translated back, or read in pieces. *)
AnswerClient ==
  /\ at = "sent"
  /\ at' = "served"
  /\ echoed' = Echo(request)
  /\ UNCHANGED <<catalogueVars, request, sent>>
  /\ Watched

RequestEnds ==
  /\ at \in {"refused", "failed", "served"}
  /\ at' = "none" /\ request' = NoRequest
  /\ sent' = [model |-> "", messages |-> <<>>] /\ echoed' = ""
  /\ seen' = {}
  /\ UNCHANGED catalogueVars

CatalogueChanges ==
  /\ CatalogueNext
  /\ UNCHANGED <<request, at, sent, echoed>>
  /\ IF at = "none" THEN seen' = seen ELSE Watched

EntryInit ==
  /\ CatalogueInit
  /\ request = NoRequest /\ at = "none"
  /\ sent = [model |-> "", messages |-> <<>>] /\ echoed = ""
  /\ seen = {}

EntryNext ==
  \/ \E c \in ClientRequests : RequestArrives(c)
  \/ BodyRead \/ Check \/ checkModelCircuit \/ DispatchBody \/ NoSuccess \/ AnswerClient
  \/ RequestEnds
  \/ CatalogueChanges

EntrySpec == EntryInit /\ [][EntryNext]_entryVars

-------------------------------------------------------------------------------
EntryTypeOK ==
  /\ CatalogueTypeOK
  /\ request \in ClientRequests \cup {NoRequest}
  /\ at \in {"none", "body", "check", "circuit", "send", "sent", "refused", "failed", "served"}
  /\ seen \subseteq {"active", "open", "unsteady", "blocked", "failed"}

(* A request is only refused if its model, under whatever alias the client *)
(* knows it, was missing from some list, or its circuit was open, at some  *)
(* moment of the request: a synchronisation never makes a model that every *)
(* list had disappear in between.                                          *)
RefusalsAreFounded ==
  at = "refused" /\ request.shape # "broken" /\ Mapped(request) \in Models =>
    \/ "blocked" \in seen
    \/ request.protocol \in Checking /\ "unsteady" \in seen

(* The model that the forwarded body names was active (in the protocols    *)
(* that look it up) and its circuit let requests through at a moment of    *)
(* the request, unless the look failed.  Nobody asks for the circuit at    *)
(* /v1/completions, nor for a body that is forwarded undecoded.            *)
ForwardedModelsWereOpen ==
  at \in {"sent", "failed", "served"} /\ sent.model \in Models /\ "failed" \notin seen =>
    /\ request.protocol \in Checking => "active" \in seen
    /\ request.protocol # "completions" /\ request.shape # "broken" => "open" \in seen

(* The upstream gets every turn of the conversation in order, after the    *)
(* system's text if there is one, in OpenAI's roles, with nothing lost but *)
(* empty and non-text blocks; and Claude's clients get back the name they  *)
(* asked for, if they gave one.                                            *)
ConversationSurvives ==
  LET c      == request
      before == Len(sent.messages) - Len(c.turns)
  IN  /\ at \in {"sent", "failed", "served"} /\ c.protocol \in Checking =>
           /\ before = IF ToSet(c.system) \subseteq {""} THEN 0 ELSE 1
           /\ \A i \in DOMAIN sent.messages : sent.messages[i].role \in OpenAIRoles
           /\ \A i \in DOMAIN c.turns :
                /\ Joined(sent.messages[before + i].text) = Joined(c.turns[i].text)
                /\ c.turns[i].role \in {"model", "assistant"}
                     <=> sent.messages[before + i].role = "assistant"
      /\ at = "served" /\ c.protocol = "claude" /\ c.name # "" => echoed = c.name
=============================================================================
