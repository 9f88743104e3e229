---------------------------- MODULE GatewayProofs ----------------------------
(***************************************************************************)
(* Theorems about what goes to the models and comes back (Entry, with its  *)
(* Catalogue, and Agent), and about the components side by side            *)
(* (MCGateway), to which those of RecordsProofs and SettingsProofs are     *)
(* carried over.                                                           *)
(***************************************************************************)
EXTENDS MCGateway, RecordsProofs, SettingsProofs

(***************************************************************************)
(* Catalogue.  A model that every list had is active: the transaction has  *)
(* no state in between.                                                    *)
(***************************************************************************)
CatalogueInv == CatalogueTypeOK /\ steady \subseteq Active

Sync == [at : {"idle", "asked", "write"}, list : SUBSET Models]

LEMMA CatalogueInitially == CatalogueInit => CatalogueInv
<1> SUFFICES ASSUME CatalogueInit
             PROVE  CatalogueInv
  OBVIOUS
<1>1. NotSyncing \in Sync
  BY DEF NotSyncing, Sync
<1>2. QED
  BY <1>1 DEF CatalogueInit, CatalogueInv, CatalogueTypeOK, Sync

LEMMA CatalogueStep == CatalogueInv /\ [CatalogueNext]_catalogueVars => CatalogueInv'
<1> SUFFICES ASSUME CatalogueInv, [CatalogueNext]_catalogueVars
             PROVE  CatalogueInv'
  OBVIOUS
<1>1. /\ models \in [Models -> {"absent", "active", "gone"}] /\ sync \in [Syncers -> Sync]
      /\ blocked \subseteq Breakable /\ steady \subseteq Models
      /\ \A m \in steady : models[m] = "active"
      /\ NotSyncing \in Sync
  BY DEF CatalogueInv, CatalogueTypeOK, Active, NotSyncing, Sync
<1>2. \A y \in Syncers : sync[y].list \in SUBSET Models
  BY <1>1 DEF Sync
<1>3. ASSUME models' \in [Models -> {"absent", "active", "gone"}], sync' \in [Syncers -> Sync],
             blocked' \subseteq Breakable, steady' \subseteq Models,
             \A m \in steady' : models'[m] = "active"
      PROVE  CatalogueInv'
  BY <1>3 DEF CatalogueInv, CatalogueTypeOK, Active, Sync
<1>4. ASSUME NEW y \in Syncers, SyncAsks(y) PROVE CatalogueInv'
  <2>1. sync' \in [Syncers -> Sync]
    BY <1>1, <1>4 DEF SyncAsks, Sync
  <2>2. QED
    BY <1>1, <1>3, <1>4, <2>1 DEF SyncAsks
<1>5. ASSUME NEW y \in Syncers, SyncAnswered(y) PROVE CatalogueInv'
  <2>1. PICK s \in Sync : sync' = [sync EXCEPT ![y] = s]
    BY <1>1, <1>5 DEF SyncAnswered, Sync
  <2>2. sync' \in [Syncers -> Sync]
    BY <1>1, <2>1
  <2>3. QED
    BY <1>1, <1>3, <1>5, <2>2 DEF SyncAnswered
<1>6. ASSUME NEW y \in Syncers, UpsertModels(y) PROVE CatalogueInv'
  <2>1. sync' \in [Syncers -> Sync]
    BY <1>1, <1>6 DEF UpsertModels
  <2>2. models' \in [Models -> {"absent", "active", "gone"}]
    BY <1>1, <1>6 DEF UpsertModels
  <2>3. steady' \subseteq sync[y].list /\ blocked' = blocked
    BY <1>6 DEF UpsertModels
  <2>4. \A m \in sync[y].list : models'[m] = "active"
    BY <1>2, <1>6 DEF UpsertModels
  <2>5. QED
    BY <1>1, <1>2, <1>3, <2>1, <2>2, <2>3, <2>4
<1>7. ASSUME NEW y \in Syncers, UpsertFails(y) PROVE CatalogueInv'
  <2>1. sync' \in [Syncers -> Sync]
    BY <1>1, <1>7 DEF UpsertFails
  <2>2. QED
    BY <1>1, <1>3, <1>7, <2>1 DEF UpsertFails
<1>8. ASSUME NEW m \in Breakable, CircuitTurns(m) PROVE CatalogueInv'
  BY <1>1, <1>3, <1>8 DEF CircuitTurns
<1>9. CASE UNCHANGED catalogueVars
  BY <1>1, <1>3, <1>9 DEF catalogueVars
<1>10. QED
  BY <1>4, <1>5, <1>6, <1>7, <1>8, <1>9 DEF CatalogueNext

-------------------------------------------------------------------------------
(***************************************************************************)
(* Entry.  What the handler found out on its way held at that moment.      *)
(***************************************************************************)
Places == {"none", "body", "check", "circuit", "send", "sent", "refused", "failed", "served"}

Facts == {"active", "open", "unsteady", "blocked", "failed"}

Forwarded == {"sent", "failed", "served"}

(* Request c names a model, and no look at it failed.                      *)
Followed(c, s) == Mapped(c) \in Models /\ "failed" \notin s

(* There is a name to ask the circuit of.                                  *)
Asking(c) == c.protocol # "completions" /\ c.shape # "broken"

(* Request c is at p, b and e are what was sent and echoed, and s what was *)
(* seen of its model.                                                      *)
Sound(c, p, b, e, s) ==
  /\ p = "check" => c.protocol \in Checking
  /\ p \in {"check", "circuit", "send"} \cup Forwarded /\ c.protocol \in Checking =>
       c.shape # "broken"
  /\ p \in {"circuit", "send"} \cup Forwarded /\ Followed(c, s) /\ c.protocol \in Checking =>
       "active" \in s
  /\ p \in {"send"} \cup Forwarded /\ Followed(c, s) /\ Asking(c) => "open" \in s
  /\ p \in Forwarded => b = Body(c)
  /\ p = "served" => e = Echo(c)
  /\ p = "refused" /\ c.shape # "broken" /\ Mapped(c) \in Models =>
       "blocked" \in s \/ (c.protocol \in Checking /\ "unsteady" \in s)

EntryInv ==
  /\ CatalogueInv
  /\ request \in ClientRequests \cup {NoRequest} /\ at \in Places /\ seen \subseteq Facts
  /\ Sound(request, at, sent, echoed, seen)

LEMMA SoundGrows ==
  ASSUME NEW c, NEW p, NEW b, NEW e, NEW s, NEW t, Sound(c, p, b, e, s), s \subseteq t
  PROVE  Sound(c, p, b, e, t)
BY DEF Sound, Followed

LEMMA NowTells ==
  /\ Now \subseteq {"active", "open", "unsteady", "blocked"}
  /\ Mapped(request') \in Active' => "active" \in Now
  /\ Mapped(request') \notin blocked' => "open" \in Now
  /\ Mapped(request') \notin steady' => "unsteady" \in Now
  /\ Mapped(request') \in blocked' => "blocked" \in Now
BY DEF Now

(* Every request, and what stands for none, is one that a client sends.    *)
LEMMA RequestsAreRequests ==
  ASSUME NEW c \in ClientRequests \cup {NoRequest}
  PROVE  IsRequest(c)
<1>1. IsRequest(NoRequest)
  <2>1. <<>> \in Seq(STRING) /\ <<>> \in Seq([role : RolesOf("chat"), text : Seq(STRING)])
    BY EmptySeq
  <2>2. QED
    BY <2>1 DEF IsRequest, NoRequest, Protocols
<1>2. QED
  BY <1>1, EntryAssumption

(* The handlers that do not look a name up take it as it is.               *)
LEMMA ForwardedName ==
  ASSUME NEW c \in ClientRequests \cup {NoRequest}
  PROVE  /\ Body(c).model = Mapped(c)
         /\ CheckedModel(c) = IF Asking(c) THEN Mapped(c) ELSE ""
<1>1. c.protocol \in Protocols
  BY RequestsAreRequests DEF IsRequest
<1> USE DEF Asking
<1>2. CASE c.protocol \in Checking
  BY <1>2 DEF Body, CheckedModel, Checking
<1>3. CASE c.protocol \notin Checking
  <2>1. Mapped(c) = c.name
    BY <1>3, EntryAssumption DEF Mapped
  <2>2. QED
    BY <1>3, <2>1 DEF Body, CheckedModel, Checking
<1>4. QED
  BY <1>2, <1>3

(* A step after which the catalogue is as it was.                          *)
LEMMA HandlerMoves ==
  ASSUME EntryInv, UNCHANGED catalogueVars,
         request' \in ClientRequests \cup {NoRequest}, at' \in Places, seen' \subseteq Facts,
         Sound(request', at', sent', echoed', seen')
  PROVE  EntryInv'
<1>1. CatalogueInv'
  BY DEF EntryInv, CatalogueInv, CatalogueTypeOK, Active, catalogueVars
<1>2. QED
  BY <1>1 DEF EntryInv

LEMMA GoesOn ==
  ASSUME EntryInv, NEW p \in Places, Goes(p) \/ LookFails(p),
         Sound(request, p, sent, echoed, seen')
  PROVE  EntryInv'
<1>1. /\ at' = p /\ UNCHANGED catalogueVars
      /\ request' = request /\ sent' = sent /\ echoed' = echoed
      /\ seen' \subseteq seen \cup Now \cup {"failed"}
  BY DEF Goes, LookFails, Watched
<1>2. seen' \subseteq Facts
  BY <1>1, NowTells DEF EntryInv, Facts
<1>3. QED
  BY <1>1, <1>2, HandlerMoves DEF EntryInv

LEMMA BodyReadStep == EntryInv /\ BodyRead => EntryInv'
<1> SUFFICES ASSUME EntryInv, BodyRead
             PROVE  EntryInv'
  OBVIOUS
<1> DEFINE place == IF request.protocol \notin Checking THEN "circuit"
                    ELSE IF request.shape = "broken" THEN "refused" ELSE "check"
<1>1. Goes(place) /\ place \in Places
  BY DEF BodyRead, Places
<1>2. Sound(request, place, sent, echoed, seen')
  BY DEF Sound, Forwarded
<1> HIDE DEF place
<1>3. QED
  BY <1>1, <1>2, GoesOn

LEMMA CheckStep == EntryInv /\ Check => EntryInv'
<1> SUFFICES ASSUME EntryInv, Check
             PROVE  EntryInv'
  OBVIOUS
<1>1. at = "check" /\ Sound(request, at, sent, echoed, seen)
  BY DEF EntryInv, Check
<1>2. request.protocol \in Checking /\ request.shape # "broken"
  BY <1>1 DEF Sound
<1>3. CASE Mapped(request) \notin Active \cup {""} /\ Goes("refused")
  <2>1. UNCHANGED catalogueVars /\ request' = request /\ seen' = seen \cup Now
    BY <1>3 DEF Goes, Watched
  <2>2. Mapped(request') \notin steady'
    BY <1>3, <2>1 DEF EntryInv, CatalogueInv, catalogueVars
  <2>3. Sound(request, "refused", sent, echoed, seen')
    BY <1>2, <2>1, <2>2, NowTells DEF Sound, Forwarded
  <2>4. QED
    BY <1>3, <2>3, GoesOn DEF Places
<1>4. CASE Mapped(request) \in Active \cup {""} /\ Goes("circuit")
  <2>1. UNCHANGED catalogueVars /\ request' = request /\ seen' = seen \cup Now
    BY <1>4 DEF Goes, Watched
  <2>2. Mapped(request) \in Models => Mapped(request') \in Active'
    BY <1>4, <2>1, EntryAssumption DEF Active, catalogueVars
  <2>3. Sound(request, "circuit", sent, echoed, seen')
    BY <1>2, <2>1, <2>2, NowTells DEF Sound, Followed, Forwarded
  <2>4. QED
    BY <1>4, <2>3, GoesOn DEF Places
<1>5. CASE LookFails("circuit")
  <2>1. "failed" \in seen'
    BY <1>5 DEF LookFails
  <2>2. Sound(request, "circuit", sent, echoed, seen')
    BY <1>2, <2>1 DEF Sound, Followed, Forwarded
  <2>3. QED
    BY <1>5, <2>2, GoesOn DEF Places
<1>6. QED
  BY <1>3, <1>4, <1>5 DEF Check

LEMMA CircuitStep == EntryInv /\ checkModelCircuit => EntryInv'
<1> SUFFICES ASSUME EntryInv, checkModelCircuit
             PROVE  EntryInv'
  OBVIOUS
<1>1. /\ at = "circuit" /\ Sound(request, at, sent, echoed, seen)
      /\ request \in ClientRequests \cup {NoRequest} /\ blocked \subseteq Models
  BY CatalogueAssumption DEF EntryInv, CatalogueInv, CatalogueTypeOK, checkModelCircuit
<1>2. CASE CheckedModel(request) \in blocked /\ Goes("refused")
  <2>1. UNCHANGED catalogueVars /\ request' = request /\ seen' = seen \cup Now
    BY <1>2 DEF Goes, Watched
  <2>2. Asking(request)
    BY <1>1, <1>2, ForwardedName, EntryAssumption
  <2>3. Mapped(request') \in blocked'
    BY <1>1, <1>2, <2>1, <2>2, ForwardedName DEF catalogueVars
  <2>4. Sound(request, "refused", sent, echoed, seen')
    BY <2>1, <2>3, NowTells DEF Sound, Forwarded
  <2>5. QED
    BY <1>2, <2>4, GoesOn DEF Places
<1>3. CASE CheckedModel(request) \notin blocked /\ Goes("send")
  <2>1. UNCHANGED catalogueVars /\ request' = request /\ seen' = seen \cup Now
    BY <1>3 DEF Goes, Watched
  <2>2. Asking(request) => Mapped(request') \notin blocked'
    BY <1>1, <1>3, <2>1, ForwardedName DEF catalogueVars
  <2>3. Sound(request, "send", sent, echoed, seen')
    BY <1>1, <2>1, <2>2, NowTells DEF Sound, Followed, Forwarded
  <2>4. QED
    BY <1>3, <2>3, GoesOn DEF Places
<1>4. CASE LookFails("send")
  <2>1. "failed" \in seen'
    BY <1>4 DEF LookFails
  <2>2. Sound(request, "send", sent, echoed, seen')
    BY <1>1, <2>1 DEF Sound, Followed, Forwarded
  <2>3. QED
    BY <1>4, <2>2, GoesOn DEF Places
<1>5. QED
  BY <1>2, <1>3, <1>4 DEF checkModelCircuit

LEMMA CatalogueChangesStep == EntryInv /\ CatalogueChanges => EntryInv'
<1> SUFFICES ASSUME EntryInv, CatalogueChanges
             PROVE  EntryInv'
  OBVIOUS
<1>1. /\ CatalogueInv' /\ request' = request /\ at' = at /\ sent' = sent /\ echoed' = echoed
      /\ seen \subseteq seen' /\ seen' \subseteq seen \cup Now
  BY CatalogueStep DEF EntryInv, CatalogueChanges, Watched
<1>2. Sound(request, at, sent, echoed, seen')
  BY <1>1, SoundGrows DEF EntryInv
<1>3. seen' \subseteq Facts
  BY <1>1, NowTells DEF EntryInv, Facts
<1>4. QED
  BY <1>1, <1>2, <1>3 DEF EntryInv

LEMMA EntryStep == EntryInv /\ [EntryNext]_entryVars => EntryInv'
<1> SUFFICES ASSUME EntryInv, [EntryNext]_entryVars
             PROVE  EntryInv'
  OBVIOUS
<1>1. /\ request \in ClientRequests \cup {NoRequest} /\ seen \subseteq Facts
      /\ Sound(request, at, sent, echoed, seen)
  BY DEF EntryInv
<1>2. Now \subseteq Facts
  BY NowTells DEF Facts
<1>3. ASSUME NEW c \in ClientRequests, RequestArrives(c) PROVE EntryInv'
  <2>1. /\ UNCHANGED catalogueVars /\ request' = c /\ at' = "body" /\ seen' = Now
        /\ sent' = sent /\ echoed' = echoed
    BY <1>3 DEF RequestArrives
  <2>2. Sound(c, "body", sent, echoed, seen')
    BY DEF Sound, Forwarded
  <2>3. QED
    BY <1>2, <2>1, <2>2, HandlerMoves DEF Places
<1>4. CASE DispatchBody
  <2>1. /\ UNCHANGED catalogueVars /\ request' = request /\ at = "send" /\ at' = "sent"
        /\ sent' = Body(request) /\ echoed' = echoed /\ seen' = seen \cup Now
    BY <1>4 DEF DispatchBody, Watched
  <2>2. Sound(request, at, sent, echoed, seen')
    BY <1>1, <2>1, SoundGrows
  <2>3. Sound(request, "sent", Body(request), echoed, seen')
    BY <2>1, <2>2 DEF Sound, Forwarded
  <2>4. QED
    BY <1>1, <1>2, <2>1, <2>3, HandlerMoves DEF Places
<1>5. CASE NoSuccess
  <2>1. at = "sent" /\ Goes("failed") /\ seen' = seen \cup Now
    BY <1>5 DEF NoSuccess, Goes, Watched
  <2>2. Sound(request, at, sent, echoed, seen')
    BY <1>1, <2>1, SoundGrows
  <2>3. Sound(request, "failed", sent, echoed, seen')
    BY <2>1, <2>2 DEF Sound, Forwarded
  <2>4. QED
    BY <2>1, <2>3, GoesOn DEF Places
<1>6. CASE AnswerClient
  <2>1. /\ UNCHANGED catalogueVars /\ request' = request /\ at = "sent" /\ at' = "served"
        /\ sent' = sent /\ echoed' = Echo(request) /\ seen' = seen \cup Now
    BY <1>6 DEF AnswerClient, Watched
  <2>2. Sound(request, at, sent, echoed, seen')
    BY <1>1, <2>1, SoundGrows
  <2>3. Sound(request, "served", sent, Echo(request), seen')
    BY <2>1, <2>2 DEF Sound, Forwarded
  <2>4. QED
    BY <1>1, <1>2, <2>1, <2>3, HandlerMoves DEF Places
<1>7. CASE RequestEnds
  <2>1. UNCHANGED catalogueVars /\ request' = NoRequest /\ at' = "none" /\ seen' = {}
    BY <1>7 DEF RequestEnds
  <2>2. Sound(NoRequest, "none", sent', echoed', {})
    BY DEF Sound, Forwarded
  <2>3. QED
    BY <2>1, <2>2, HandlerMoves DEF Places
<1>8. CASE UNCHANGED entryVars
  BY <1>1, <1>8, HandlerMoves DEF entryVars, EntryInv
<1>9. QED
  BY <1>3, <1>4, <1>5, <1>6, <1>7, <1>8, BodyReadStep, CheckStep, CircuitStep,
     CatalogueChangesStep DEF EntryNext

LEMMA EntryInitially == EntryInit => EntryInv
<1> SUFFICES ASSUME EntryInit
             PROVE  EntryInv
  OBVIOUS
<1>1. CatalogueInv /\ request = NoRequest /\ at = "none" /\ seen = {}
  BY CatalogueInitially DEF EntryInit
<1>2. Sound(NoRequest, "none", sent, echoed, {})
  BY DEF Sound, Forwarded
<1>3. QED
  BY <1>1, <1>2 DEF EntryInv, Places

(* What a handler knows of the model its request names, at each of its     *)
(* statements, whatever synchronisations and circuits do in between        *)
(* (StalenessChecker.Check, checkModelCircuit, UpsertModels).              *)
THEOREM EntryInvariance == EntrySpec => []EntryInv
<1>1. QED
  BY EntryInitially, EntryStep, PTL DEF EntrySpec

(* For any models, aliases and requests, and synchronisations that overlap *)
(* in any way: a refused model was missing from some list, or blocked.     *)
THEOREM RefusedForAReason == EntrySpec => []RefusalsAreFounded
<1>1. EntryInv => RefusalsAreFounded
  BY DEF EntryInv, Sound, RefusalsAreFounded
<1>2. QED
  BY <1>1, EntryInvariance, PTL

(* The handlers ask about the model that they forward, not about the name  *)
(* that the client gave it (checkModelCircuit before DispatchCap), unless  *)
(* the body is forwarded undecoded.                                        *)
THEOREM ForwardedIfOpen == EntrySpec => []ForwardedModelsWereOpen
<1>1. EntryInv => ForwardedModelsWereOpen
  <2> SUFFICES ASSUME EntryInv, at \in Forwarded, sent.model \in Models, "failed" \notin seen
               PROVE  /\ request.protocol \in Checking => "active" \in seen
                      /\ Asking(request) => "open" \in seen
    BY DEF ForwardedModelsWereOpen, Forwarded, Asking
  <2>1. Sound(request, at, sent, echoed, seen) /\ sent.model = Mapped(request)
    BY ForwardedName DEF EntryInv, Sound
  <2>2. QED
    BY <2>1 DEF Sound, Followed
<1>2. QED
  BY <1>1, EntryInvariance, PTL

(***************************************************************************)
(* What translating a request does to its conversation.                    *)
(***************************************************************************)
Texts == Seq(STRING)

Roles == {"", "model"} \cup OpenAIRoles

Messages == [role : Roles, text : Texts]

LEMMA FunctionIsSequence ==
  ASSUME NEW S, NEW n \in Nat, NEW f \in [1..n -> S]
  PROVE  f \in Seq(S) /\ Len(f) = n /\ DOMAIN f = 1..n
OBVIOUS

LEMMA JoinedTexts ==
  ASSUME NEW text \in Texts
  PROVE  /\ Joined(text) \in Texts
         /\ Joined(Joined(text)) = Joined(text)
         /\ Joined(text) = <<>> <=> ToSet(text) \subseteq {""}
<1> DEFINE kept == {i \in DOMAIN text : text[i] # ""}
           n == Cardinality(kept)
           joined == Joined(text)
<1>1. Len(text) \in Nat /\ DOMAIN text = 1..Len(text) /\ \A i \in DOMAIN text : text[i] \in STRING
  BY DEF Texts
<1>2. joined = Thinned(text, kept)
  BY DEF Joined
<1>3. kept \in SUBSET (1..Len(text)) /\ \A i \in kept : text[i] \in STRING /\ text[i] # ""
  BY <1>1
<1>4. kept = {} <=> ToSet(text) \subseteq {""}
  BY DEF ToSet
<1> HIDE DEF kept, joined
<1>5. n \in Nat /\ IsThinned(joined, text, kept)
  BY <1>1, <1>2, <1>3, ThinnedIsThinned
<1>6. PICK order \in [1..n -> kept] :
        /\ joined = [m \in 1..n |-> text[order[m]]]
        /\ \A i \in kept : \E m \in 1..n : order[m] = i
  BY <1>5 DEF IsThinned
<1>7. joined \in [1..n -> STRING] /\ \A m \in 1..n : joined[m] # ""
  BY <1>3, <1>6
<1>8. joined \in Texts /\ Len(joined) = n /\ DOMAIN joined = 1..n
  BY <1>5, <1>7, FunctionIsSequence DEF Texts
<1>9. Joined(joined) = joined
  <2>1. {i \in DOMAIN joined : joined[i] # ""} = 1..n
    BY <1>7, <1>8
  <2>2. Joined(joined) = Thinned(joined, 1..n)
    BY <2>1 DEF Joined
  <2>3. Thinned(joined, 1..n) = [m \in 1..n |-> joined[m]]
    BY <1>5, ThinnedOfAll
  <2>4. QED
    BY <1>7, <2>2, <2>3
<1>10. joined = <<>> <=> kept = {}
  <2>1. joined = <<>> <=> n = 0
    BY <1>5, <1>8, EmptySeq DEF Texts
  <2>2. n = 0 <=> kept = {}
    <3>1. CASE kept = {}
      BY <3>1, FS_EmptySet
    <3>2. CASE kept # {}
      <4>1. \E m \in 1..n : TRUE
        BY <1>6, <3>2
      <4>2. n # 0
        BY <4>1
      <4>3. QED
        BY <3>2, <4>2
    <3>3. QED
      BY <3>1, <3>2
  <2>3. QED
    BY <2>1, <2>2
<1>11. QED
  BY <1>4, <1>8, <1>9, <1>10 DEF joined

(* Messages that say the turns of c, after those that come before.         *)
Says(messages, before, c) ==
  /\ messages \in Seq(Messages) /\ c.turns \in Seq(Messages)
  /\ before \in Nat /\ Len(messages) = before + Len(c.turns)
  /\ \A i \in DOMAIN messages : messages[i].role \in OpenAIRoles
  /\ \A i \in DOMAIN c.turns :
       /\ Joined(messages[before + i].text) = Joined(c.turns[i].text)
       /\ c.turns[i].role \in {"model", "assistant"} <=> messages[before + i].role = "assistant"

Turned(c) ==
  [i \in DOMAIN c.turns |-> Message(Role(c, c.turns[i].role), Joined(c.turns[i].text))]

LEMMA TurnsOf ==
  ASSUME NEW c, IsRequest(c)
  PROVE  /\ c.turns \in Seq(Messages) /\ Len(c.turns) \in Nat /\ DOMAIN c.turns = 1..Len(c.turns)
         /\ \A i \in DOMAIN c.turns : c.turns[i].role \in RolesOf(c.protocol)
                                      /\ c.turns[i].text \in Texts
<1> DEFINE Turns == [role : RolesOf(c.protocol), text : Texts]
<1>1. c.turns \in Seq(Turns)
  BY DEF IsRequest, Texts
<1>2. \A t \in Turns : t.role \in RolesOf(c.protocol) /\ t.text \in Texts
  OBVIOUS
<1>3. RolesOf(c.protocol) \subseteq Roles
  BY DEF RolesOf, Roles, OpenAIRoles
<1>4. Turns \subseteq Messages
  BY <1>3 DEF Messages
<1> HIDE DEF Turns
<1>5. /\ Len(c.turns) \in Nat /\ DOMAIN c.turns = 1..Len(c.turns)
      /\ \A i \in DOMAIN c.turns : c.turns[i] \in Turns
  BY <1>1, MembersOf
<1>6. c.turns \in [1..Len(c.turns) -> Messages]
  <2>1. c.turns \in [1..Len(c.turns) -> Turns]
    BY ONLY <1>1
  <2>2. QED
    BY <1>4, <2>1
<1>7. c.turns \in Seq(Messages)
  BY <1>5, <1>6, FunctionIsSequence
<1>8. QED
  BY <1>2, <1>5, <1>7

LEMMA TurnedSays ==
  ASSUME NEW c, IsRequest(c), c.protocol \in {"claude", "gemini"}
  PROVE  Says(Turned(c), 0, c)
<1> DEFINE turned == Turned(c)
<1>1. /\ c.turns \in Seq(Messages) /\ Len(c.turns) \in Nat /\ DOMAIN c.turns = 1..Len(c.turns)
      /\ \A i \in DOMAIN c.turns : c.turns[i].role \in RolesOf(c.protocol)
                                   /\ c.turns[i].text \in Texts
  BY TurnsOf
<1>2. ASSUME NEW i \in DOMAIN c.turns
      PROVE  /\ Role(c, c.turns[i].role) \in {"user", "assistant"}
             /\ c.turns[i].role \in {"model", "assistant"}
                  <=> Role(c, c.turns[i].role) = "assistant"
  BY <1>1 DEF Role, RolesOf
<1>3. ASSUME NEW i \in DOMAIN c.turns
      PROVE  /\ turned[i] \in Messages
             /\ turned[i].role = Role(c, c.turns[i].role)
             /\ turned[i].text = Joined(c.turns[i].text)
  <2>1. turned[i] = [role |-> Role(c, c.turns[i].role), text |-> Joined(c.turns[i].text)]
    BY DEF Turned, Message
  <2>2. Role(c, c.turns[i].role) \in Roles /\ Joined(c.turns[i].text) \in Texts
    BY <1>1, <1>2, JoinedTexts DEF Roles, OpenAIRoles
  <2>3. QED
    BY <2>1, <2>2 DEF Messages
<1>4. DOMAIN turned = DOMAIN c.turns
  BY DEF Turned
<1>5. turned \in [1..Len(c.turns) -> Messages]
  BY <1>1, <1>3 DEF Turned
<1> HIDE DEF turned
<1>6. turned \in Seq(Messages) /\ Len(turned) = Len(c.turns)
  BY <1>1, <1>5
<1>7. ASSUME NEW i \in DOMAIN c.turns
      PROVE  /\ Joined(turned[0 + i].text) = Joined(c.turns[i].text)
             /\ c.turns[i].role \in {"model", "assistant"} <=> turned[0 + i].role = "assistant"
  <2>1. 0 + i = i
    BY <1>1
  <2>2. QED
    BY <1>1, <1>2, <1>3, <2>1, JoinedTexts
<1>8. Says(turned, 0, c)
  BY <1>1, <1>2, <1>3, <1>4, <1>6, <1>7 DEF Says, OpenAIRoles
<1>9. QED
  BY <1>8 DEF turned

LEMMA SystemFirst ==
  ASSUME NEW c, IsRequest(c), c.protocol \in {"claude", "gemini"}, Joined(c.system) # <<>>
  PROVE  Says(<<Message("system", Joined(c.system))>> \o Turned(c), 1, c)
<1> DEFINE first == <<Message("system", Joined(c.system))>>
           turned == Turned(c)
           messages == first \o turned
<1>1. Says(turned, 0, c)
  BY TurnedSays
<1>2. /\ turned \in Seq(Messages) /\ c.turns \in Seq(Messages)
      /\ Len(turned) = Len(c.turns) /\ Len(c.turns) \in Nat
      /\ DOMAIN turned = 1..Len(turned) /\ DOMAIN c.turns = 1..Len(c.turns)
  BY <1>1, TurnsOf DEF Says
<1>3. first \in Seq(Messages) /\ Len(first) = 1 /\ first[1].role = "system"
  <2>1. Joined(c.system) \in Texts
    BY JoinedTexts DEF IsRequest, Texts
  <2>2. Message("system", Joined(c.system)) \in Messages
    BY <2>1 DEF Message, Messages, Roles, OpenAIRoles
  <2>3. Message("system", Joined(c.system)).role = "system"
    BY DEF Message
  <2>4. QED
    BY <2>2, <2>3
<1>4. messages = first \o turned
  OBVIOUS
<1> HIDE DEF first, turned, messages
<1>5. /\ messages \in Seq(Messages) /\ Len(messages) = 1 + Len(turned)
      /\ messages[1] = first[1]
      /\ \A i \in 1..Len(turned) : messages[1 + i] = turned[i]
  <2>1. /\ messages \in Seq(Messages) /\ Len(messages) = Len(first) + Len(turned)
        /\ \A i \in 1..Len(first) : messages[i] = first[i]
        /\ \A i \in 1..Len(turned) : messages[Len(first) + i] = turned[i]
    <3>1. first \in Seq(Messages) /\ turned \in Seq(Messages)
      BY <1>2, <1>3
    <3>2. /\ first \o turned \in Seq(Messages) /\ Len(first \o turned) = Len(first) + Len(turned)
          /\ \A i \in 1..Len(first) : (first \o turned)[i] = first[i]
          /\ \A i \in 1..Len(turned) : (first \o turned)[Len(first) + i] = turned[i]
      BY ONLY <3>1, Concatenated
    <3>3. QED
      BY <1>4, <3>2
  <2>2. QED
    BY <1>3, <2>1
<1>6. ASSUME NEW i \in DOMAIN messages
      PROVE  messages[i].role \in OpenAIRoles
  <2>1. i \in 1..(1 + Len(turned)) /\ Len(turned) \in Nat
    BY <1>2, <1>5
  <2>2. CASE i = 1
    BY <1>3, <1>5, <2>2 DEF OpenAIRoles
  <2>3. CASE i # 1
    <3>1. i - 1 \in 1..Len(turned) /\ 1 + (i - 1) = i
      BY <2>1, <2>3
    <3>2. messages[i] = turned[i - 1]
      BY <1>5, <3>1
    <3>3. QED
      BY <1>1, <1>2, <3>1, <3>2 DEF Says
  <2>4. QED
    BY <2>2, <2>3
<1>7. ASSUME NEW i \in DOMAIN c.turns
      PROVE  /\ Joined(messages[1 + i].text) = Joined(c.turns[i].text)
             /\ c.turns[i].role \in {"model", "assistant"} <=> messages[1 + i].role = "assistant"
  <2>1. messages[1 + i] = turned[0 + i]
    <3>1. i \in 1..Len(turned) /\ 0 + i = i
      BY <1>2
    <3>2. QED
      BY <1>5, <3>1
  <2>2. QED
    BY <1>1, <2>1 DEF Says
<1>8. Says(messages, 1, c)
  BY <1>2, <1>5, <1>6, <1>7 DEF Says
<1>9. QED
  BY <1>8 DEF messages, first, turned

(* The first chat turn of a prompt, or the turns as they are.              *)
LEMMA ChatSays ==
  ASSUME NEW c, IsRequest(c), c.protocol = "chat", c.shape # "broken"
  PROVE  Says(Body(c).messages, 0, c)
<1> DEFINE messages == Body(c).messages
<1>1. /\ c.turns \in Seq(Messages) /\ Len(c.turns) \in Nat /\ DOMAIN c.turns = 1..Len(c.turns)
      /\ \A i \in DOMAIN c.turns : /\ c.turns[i].role \in OpenAIRoles
                                   /\ c.turns[i].text \in Texts
      /\ \A i \in DOMAIN c.turns : 0 + i = i
  <2>1. /\ c.turns \in Seq(Messages) /\ Len(c.turns) \in Nat /\ DOMAIN c.turns = 1..Len(c.turns)
        /\ \A i \in DOMAIN c.turns : c.turns[i].role \in RolesOf(c.protocol)
                                     /\ c.turns[i].text \in Texts
    BY TurnsOf
  <2>2. RolesOf(c.protocol) = OpenAIRoles
    BY DEF RolesOf
  <2>3. \A i \in 1..Len(c.turns) : 0 + i = i
    BY <2>1
  <2>4. QED
    BY <2>1, <2>2, <2>3
<1>2. CASE c.shape = "turns"
  <2>1. messages = c.turns
    BY <1>2 DEF Body
  <2> HIDE DEF messages
  <2>2. Says(messages, 0, c)
    BY <1>1, <2>1 DEF Says, OpenAIRoles
  <2>3. QED
    BY <2>2 DEF messages
<1>3. CASE c.shape # "turns"
  <2>1. Len(c.turns) = 1 /\ c.turns[1].role = "user"
    BY <1>3 DEF IsRequest
  <2>2. messages = <<Message("user", c.turns[1].text)>>
    BY <1>3 DEF Body
  <2>3. /\ Message("user", c.turns[1].text) \in Messages
        /\ Message("user", c.turns[1].text).role = "user"
        /\ Message("user", c.turns[1].text).text = c.turns[1].text
    <3>1. c.turns[1].text \in Texts
      BY <1>1, <2>1
    <3>2. QED
      BY <3>1 DEF Message, Messages, Roles, OpenAIRoles
  <2> HIDE DEF messages
  <2>4. messages \in Seq(Messages) /\ Len(messages) = 1 /\ messages[1].role = "user"
        /\ messages[1].text = c.turns[1].text
    BY <2>2, <2>3
  <2>5. \A i \in DOMAIN c.turns : i = 1 /\ 0 + i = 1
    BY <1>1, <2>1
  <2>6. Says(messages, 0, c)
    BY <1>1, <2>1, <2>4, <2>5 DEF Says
  <2>7. QED
    BY <2>6 DEF messages
<1>4. QED
  BY <1>2, <1>3

LEMMA BodySays ==
  ASSUME NEW c, IsRequest(c), c.protocol \in Checking, c.shape # "broken"
  PROVE  Says(Body(c).messages, IF ToSet(c.system) \subseteq {""} THEN 0 ELSE 1, c)
<1>1. c.system \in Texts
  BY DEF IsRequest, Texts
<1>2. CASE c.protocol = "chat"
  <2>1. ToSet(c.system) \subseteq {""}
    <3>1. c.system = <<>>
      BY <1>2 DEF IsRequest
    <3>2. QED
      BY <3>1 DEF ToSet
  <2>2. QED
    BY <1>2, <2>1, ChatSays
<1>3. CASE c.protocol # "chat"
  <2>1. c.protocol \in {"claude", "gemini"}
    BY <1>3 DEF Checking
  <2>2. Body(c).messages = (IF Joined(c.system) # <<>>
                            THEN <<Message("system", Joined(c.system))>> ELSE <<>>) \o Turned(c)
    BY <2>1 DEF Body, Turned
  <2>3. Joined(c.system) = <<>> <=> ToSet(c.system) \subseteq {""}
    BY <1>1, JoinedTexts
  <2>4. CASE Joined(c.system) = <<>>
    <3>1. Turned(c) \in Seq(Messages)
      BY <2>1, TurnedSays DEF Says
    <3>2. <<>> \o Turned(c) = Turned(c)
      BY <3>1, ConcatEmptySeq
    <3>3. QED
      BY <2>1, <2>2, <2>3, <2>4, <3>2, TurnedSays
  <2>5. CASE Joined(c.system) # <<>>
    BY <2>1, <2>2, <2>3, <2>5, SystemFirst
  <2>6. QED
    BY <2>4, <2>5
<1>4. QED
  BY <1>2, <1>3

(* Whatever the protocol and the texts, translating loses no turn, order,  *)
(* role or text (ToOpenAIChatRequest of both protocols,                    *)
(* normalizeChatRequest), and Claude's clients get their name back.        *)
THEOREM ConversationsSurvive == EntrySpec => []ConversationSurvives
<1>1. EntryInv => ConversationSurvives
  <2> SUFFICES ASSUME EntryInv
               PROVE  ConversationSurvives
    OBVIOUS
  <2> DEFINE before == IF ToSet(request.system) \subseteq {""} THEN 0 ELSE 1
  <2>1. IsRequest(request) /\ Sound(request, at, sent, echoed, seen)
    BY RequestsAreRequests DEF EntryInv
  <2>2. ASSUME at \in Forwarded, request.protocol \in Checking
        PROVE  /\ Says(sent.messages, before, request)
               /\ before = Len(sent.messages) - Len(request.turns)
    <3>1. sent = Body(request) /\ request.shape # "broken"
      BY <2>1, <2>2 DEF Sound
    <3>2. Says(sent.messages, before, request)
      BY <2>1, <2>2, <3>1, BodySays
    <3> HIDE DEF before
    <3>3. before \in Nat /\ Len(sent.messages) = before + Len(request.turns)
          /\ request.turns \in Seq(Messages)
      BY <3>2 DEF Says
    <3>4. Len(request.turns) \in Nat
      BY <3>3
    <3>5. QED
      BY <3>2, <3>3, <3>4
  <2>3. at = "served" /\ request.protocol = "claude" /\ request.name # "" => echoed = request.name
    BY <2>1 DEF Sound, Echo
  <2>4. QED
    BY <2>2, <2>3 DEF ConversationSurvives, Says, Forwarded
<1>2. QED
  BY <1>1, EntryInvariance, PTL

-------------------------------------------------------------------------------
(***************************************************************************)
(* Agent.  An action is noted by a tool that was called, and every call    *)
(* has its observation right behind the calls of its message.              *)
(***************************************************************************)
Call == Nat \X Nat \X STRING

Note == [role : {"system", "user", "assistant", "tool"}, calls : Seq(Call),
         answers : Call \cup {<<>>}]

(* In transcript t, all calls are answered and all answers were called for. *)
Answered(t) ==
  \A i \in DOMAIN t :
    /\ \A n \in DOMAIN t[i].calls : i + n \in DOMAIN t /\ t[i + n].answers = t[i].calls[n]
    /\ t[i].role = "tool" =>
         \E j \in 1..(i - 1) : i - j \in DOMAIN t[j].calls /\ t[j].calls[i - j] = t[i].answers

(* Each of the actions was observed in t.                                  *)
Told(actions, t) == \A i \in DOMAIN actions : \E j \in DOMAIN t : t[j].answers = actions[i]

AgentInv ==
  /\ chats \in 0..MaxSteps /\ run \in {"idle", "asking", "done"}
  /\ run = "asking" => chats < MaxSteps
  /\ transcript \in Seq(Note) /\ Answered(transcript)
  /\ noted \in Seq(Call) /\ Told(noted, transcript)
  /\ decided \in Seq(Call) /\ Told(decided, transcript)
  /\ run = "asking" => decided = <<>>

LEMMA CallsAreCalls ==
  ASSUME NEW names \in Answers, chats \in Nat
  PROVE  Calls(names) \in Seq(Call)
<1>1. names \in Seq(STRING)
  BY AgentAssumption
<1>2. Len(names) \in Nat /\ names \in [1..Len(names) -> STRING]
  BY ONLY <1>1
<1>3. \A i \in 1..Len(names) : <<chats + 1, i, names[i]>> \in Call
  BY <1>2 DEF Call
<1>4. Calls(names) = [i \in 1..Len(names) |-> <<chats + 1, i, names[i]>>]
  BY <1>2 DEF Calls
<1>5. Calls(names) \in [1..Len(names) -> Call]
  BY <1>3, <1>4
<1>6. QED
  BY <1>2, <1>5, FunctionIsSequence

LEMMA KnownAreCalls ==
  ASSUME NEW calls \in Seq(Call)
  PROVE  /\ Known(calls) \in Seq(Call)
         /\ \A m \in DOMAIN Known(calls) : \E i \in DOMAIN calls : Known(calls)[m] = calls[i]
<1> DEFINE kept == {i \in DOMAIN calls : calls[i][3] \in Tools}
           n == Cardinality(kept)
           known == Known(calls)
<1>1. /\ Len(calls) \in Nat /\ DOMAIN calls = 1..Len(calls)
      /\ \A i \in DOMAIN calls : calls[i] \in Call
  BY DEF Call
<1>2. known = Thinned(calls, kept)
  BY DEF Known
<1>3. kept \in SUBSET (1..Len(calls)) /\ kept \subseteq DOMAIN calls
  BY <1>1
<1> HIDE DEF kept, known
<1>4. n \in Nat /\ IsThinned(known, calls, kept)
  BY <1>1, <1>2, <1>3, ThinnedIsThinned
<1>5. PICK order \in [1..n -> kept] : known = [m \in 1..n |-> calls[order[m]]]
  BY <1>4 DEF IsThinned
<1>6. \A m \in 1..n : order[m] \in DOMAIN calls /\ known[m] = calls[order[m]]
  BY <1>3, <1>5
<1>7. known \in [1..n -> Call]
  BY <1>1, <1>5, <1>6
<1>8. known \in Seq(Call) /\ DOMAIN known = 1..n
  BY <1>4, <1>7, FunctionIsSequence
<1>9. QED
  BY <1>6, <1>8 DEF known

(* The transcript after an answer with calls.                              *)
Prolonged(t, calls) == t \o <<Assistant(calls)>> \o Observed(calls)

AnswersMore(u, t, calls) ==
  /\ u \in Seq(Note) /\ Answered(u)
  /\ \A i \in DOMAIN t : i \in DOMAIN u /\ u[i] = t[i]
  /\ \A i \in DOMAIN calls : \E j \in DOMAIN u : u[j].answers = calls[i]

LEMMA AnsweredOnceMore ==
  ASSUME NEW t \in Seq(Note), Answered(t), NEW calls \in Seq(Call), NEW u,
         u = Prolonged(t, calls)
  PROVE  AnswersMore(u, t, calls)
<1> DEFINE first == <<Assistant(calls)>>
           rest == Observed(calls)
           n == Len(t)
           k == Len(calls)
<1>1. /\ n \in Nat /\ DOMAIN t = 1..n /\ k \in Nat /\ DOMAIN calls = 1..k
      /\ \A i \in 1..k : calls[i] \in Call
  BY MembersOf
<1>2. /\ first \in Seq(Note) /\ Len(first) = 1
      /\ first[1].role = "assistant" /\ first[1].calls = calls
  <2>1. Assistant(calls) \in Note
    BY DEF Assistant, Note
  <2>2. Assistant(calls).role = "assistant" /\ Assistant(calls).calls = calls
    BY DEF Assistant
  <2>3. QED
    BY <2>1, <2>2
<1>3. ASSUME NEW i \in 1..k
      PROVE  /\ Observation(calls[i]) \in Note /\ Observation(calls[i]).role = "tool"
             /\ Observation(calls[i]).calls = <<>> /\ Observation(calls[i]).answers = calls[i]
  <2>1. calls[i] \in Call /\ <<>> \in Seq(Call)
    BY <1>1, EmptySeq
  <2>2. QED
    BY <2>1 DEF Observation, Note
<1>4. /\ rest \in Seq(Note) /\ Len(rest) = k
      /\ \A i \in 1..k : rest[i] = Observation(calls[i])
  <2>1. rest = [i \in 1..k |-> Observation(calls[i])]
    BY <1>1 DEF Observed
  <2>2. rest \in [1..k -> Note]
    BY <1>3, <2>1
  <2>3. QED
    BY <1>1, <2>1, <2>2, FunctionIsSequence
<1>5. u = (t \o first) \o rest
  BY DEF Prolonged
<1> HIDE DEF first, rest, n, k
<1>6. /\ t \o first \in Seq(Note) /\ Len(t \o first) = Len(t) + Len(first)
      /\ \A i \in 1..Len(t) : (t \o first)[i] = t[i]
      /\ \A i \in 1..Len(first) : (t \o first)[Len(t) + i] = first[i]
  <2>1. t \in Seq(Note) /\ first \in Seq(Note)
    BY <1>2
  <2>2. QED
    BY ONLY <2>1, Concatenated
<1>7. /\ u \in Seq(Note) /\ Len(u) = Len(t \o first) + Len(rest)
      /\ \A i \in 1..Len(t \o first) : u[i] = (t \o first)[i]
      /\ \A i \in 1..Len(rest) : u[Len(t \o first) + i] = rest[i]
  <2> DEFINE v == t \o first
  <2>1. v \in Seq(Note) /\ rest \in Seq(Note) /\ u = v \o rest
    BY <1>4, <1>5, <1>6
  <2> HIDE DEF v
  <2>2. /\ u \in Seq(Note) /\ Len(u) = Len(v) + Len(rest)
        /\ \A i \in 1..Len(v) : u[i] = v[i]
        /\ \A i \in 1..Len(rest) : u[Len(v) + i] = rest[i]
    BY ONLY <2>1, Concatenated
  <2>3. QED
    BY <2>2 DEF v
<1>8. /\ Len(u) = n + 1 + k /\ DOMAIN u = 1..(n + 1 + k)
      /\ \A i \in 1..n : u[i] = t[i]
      /\ u[n + 1] = first[1]
      /\ \A i \in 1..k : u[n + 1 + i] = Observation(calls[i])
  <2>1. Len(t \o first) = n + 1 /\ n \in Nat /\ Len(rest) = k
    BY <1>1, <1>2, <1>4, <1>6 DEF n
  <2>2. Len(u) = n + 1 + k /\ DOMAIN u = 1..(n + 1 + k)
    BY <1>7, <2>1
  <2>3. \A i \in 1..n : i \in 1..(n + 1) /\ u[i] = t[i]
    BY <1>6, <1>7, <2>1 DEF n
  <2>4. n + 1 \in 1..(n + 1) /\ (t \o first)[n + 1] = first[1]
    BY <1>2, <1>6, <2>1 DEF n
  <2>5. QED
    BY <1>4, <1>7, <2>1, <2>2, <2>3, <2>4
<1>9. \A i \in 1..k : n + 1 + i \in DOMAIN u /\ u[n + 1 + i].answers = calls[i]
  BY <1>1, <1>3, <1>8
<1>10. \A i \in 1..n : i \in DOMAIN u /\ u[i] = t[i]
  BY <1>1, <1>8
<1>11. ASSUME NEW i \in DOMAIN u
       PROVE  /\ \A m \in DOMAIN u[i].calls : i + m \in DOMAIN u
                                              /\ u[i + m].answers = u[i].calls[m]
              /\ u[i].role = "tool" =>
                   \E j \in 1..(i - 1) : i - j \in DOMAIN u[j].calls
                                         /\ u[j].calls[i - j] = u[i].answers
  <2>1. CASE i \in 1..n
    <3>1. u[i] = t[i] /\ i \in DOMAIN t
      BY <1>1, <1>8, <2>1
    <3>2. \A m \in DOMAIN u[i].calls : i + m \in DOMAIN u /\ u[i + m].answers = u[i].calls[m]
      <4>1. \A m \in DOMAIN t[i].calls : i + m \in 1..n /\ t[i + m].answers = t[i].calls[m]
        BY <1>1, <3>1 DEF Answered
      <4>2. QED
        BY <1>10, <3>1, <4>1
    <3>3. ASSUME u[i].role = "tool"
          PROVE  \E j \in 1..(i - 1) : i - j \in DOMAIN u[j].calls /\ u[j].calls[i - j] = u[i].answers
      <4>1. PICK j \in 1..(i - 1) : i - j \in DOMAIN t[j].calls /\ t[j].calls[i - j] = t[i].answers
        BY <3>1, <3>3 DEF Answered
      <4>2. j \in 1..n
        BY <1>1, <2>1, <4>1
      <4>3. QED
        BY <1>8, <3>1, <4>1, <4>2
    <3>4. QED
      BY <3>2, <3>3
  <2>2. CASE i = n + 1
    <3>1. u[i].role = "assistant" /\ u[i].calls = calls
      BY <1>2, <1>8, <2>2
    <3>2. QED
      BY <1>1, <1>9, <2>2, <3>1
  <2>3. CASE i \notin 1..n /\ i # n + 1
    <3>1. i - (n + 1) \in 1..k /\ n + 1 + (i - (n + 1)) = i /\ n + 1 \in 1..(i - 1)
      BY <1>1, <1>8, <2>3
    <3>2. u[i] = Observation(calls[i - (n + 1)])
      BY <1>8, <3>1
    <3>3. u[i].calls = <<>> /\ u[i].answers = calls[i - (n + 1)]
      BY <1>3, <3>1, <3>2
    <3>4. i - (n + 1) \in DOMAIN u[n + 1].calls /\ u[n + 1].calls[i - (n + 1)] = u[i].answers
      BY <1>1, <1>2, <1>8, <3>1, <3>3
    <3>5. DOMAIN u[i].calls = {}
      BY <3>3
    <3>6. QED
      BY <3>1, <3>4, <3>5
  <2>4. QED
    BY <2>1, <2>2, <2>3
<1>12. Answered(u)
  BY <1>11 DEF Answered
<1>13. \A i \in DOMAIN calls : \E j \in DOMAIN u : u[j].answers = calls[i]
  BY <1>1, <1>9
<1>14. QED
  BY <1>1, <1>7, <1>10, <1>12, <1>13 DEF AnswersMore

LEMMA StillTold ==
  ASSUME NEW actions, NEW t, NEW u, Told(actions, t),
         \A i \in DOMAIN t : i \in DOMAIN u /\ u[i] = t[i]
  PROVE  Told(actions, u)
BY DEF Told

LEMMA AnswerStep ==
  ASSUME AgentInv, NEW names \in Answers, ModelAnswers(names)
  PROVE  AgentInv'
<1>1. /\ chats \in Nat /\ MaxSteps \in Nat /\ chats < MaxSteps /\ run = "asking"
      /\ chats' = chats + 1
  BY AgentAssumption DEF AgentInv, ModelAnswers
<1>2. /\ transcript' \in Seq(Note) /\ Answered(transcript')
      /\ noted' \in Seq(Call) /\ Told(noted', transcript')
  <2>1. CASE names = <<>>
    BY <2>1 DEF ModelAnswers, AgentInv
  <2>2. CASE names # <<>>
    <3> DEFINE calls == Calls(names)
               known == Known(calls)
    <3>1. /\ transcript' = Prolonged(transcript, calls)
          /\ noted' = noted \o known
      BY <2>2 DEF ModelAnswers, Prolonged
    <3>2. calls \in Seq(Call)
      BY <1>1, CallsAreCalls
    <3> HIDE DEF calls, known
    <3>3. /\ known \in Seq(Call)
          /\ \A m \in DOMAIN known : \E i \in DOMAIN calls : known[m] = calls[i]
      BY <3>2, KnownAreCalls DEF known
    <3>4. /\ transcript' \in Seq(Note) /\ Answered(transcript')
          /\ \A i \in DOMAIN transcript : i \in DOMAIN transcript' /\ transcript'[i] = transcript[i]
          /\ \A i \in DOMAIN calls : \E j \in DOMAIN transcript' : transcript'[j].answers = calls[i]
      <4>1. transcript \in Seq(Note) /\ Answered(transcript)
        BY DEF AgentInv
      <4>2. AnswersMore(transcript', transcript, calls)
        BY <3>1, <3>2, <4>1, AnsweredOnceMore
      <4>3. QED
        BY <4>2 DEF AnswersMore
    <3>5. /\ noted \in Seq(Call) /\ Told(noted, transcript')
      BY <3>4, StillTold DEF AgentInv
    <3>6. Told(known, transcript')
      BY <3>3, <3>4 DEF Told
    <3>7. noted \o known \in Seq(Call) /\ Told(noted \o known, transcript')
      <4> DEFINE u == noted \o known
      <4>1. /\ u \in Seq(Call) /\ Len(u) = Len(noted) + Len(known)
            /\ \A i \in 1..Len(noted) : u[i] = noted[i]
            /\ \A i \in 1..Len(known) : u[Len(noted) + i] = known[i]
        BY ONLY <3>3, <3>5, Concatenated
      <4>2. /\ Len(noted) \in Nat /\ DOMAIN noted = 1..Len(noted)
            /\ Len(known) \in Nat /\ DOMAIN known = 1..Len(known)
        BY ONLY <3>3, <3>5
      <4> HIDE DEF u
      <4>3. DOMAIN u = 1..(Len(noted) + Len(known))
        BY <4>1, <4>2
      <4>4. ASSUME NEW i \in DOMAIN u
            PROVE  \E j \in DOMAIN transcript' : transcript'[j].answers = u[i]
        <5>1. CASE i \in 1..Len(noted)
          BY <3>5, <4>1, <4>2, <5>1 DEF Told
        <5>2. CASE i \notin 1..Len(noted)
          <6>1. i - Len(noted) \in DOMAIN known /\ Len(noted) + (i - Len(noted)) = i
            BY <4>2, <4>3, <5>2
          <6>2. u[i] = known[i - Len(noted)]
            BY <4>1, <4>2, <6>1
          <6>3. QED
            BY <3>6, <6>1, <6>2 DEF Told
        <5>3. QED
          BY <5>1, <5>2
      <4>5. u \in Seq(Call) /\ Told(u, transcript')
        BY <4>1, <4>4 DEF Told
      <4>6. QED
        BY <4>5 DEF u
    <3>8. QED
      BY <3>1, <3>4, <3>7
  <2>3. QED
    BY <2>1, <2>2
<1>3. CASE names = <<>> \/ chats + 1 = MaxSteps
  <2>1. run' = "done" /\ decided' = noted'
    BY <1>3 DEF ModelAnswers
  <2>2. QED
    BY <1>1, <1>2, <2>1 DEF AgentInv
<1>4. CASE ~(names = <<>> \/ chats + 1 = MaxSteps)
  <2>1. run' = run /\ decided' = decided /\ chats' < MaxSteps
    BY <1>1, <1>4 DEF ModelAnswers
  <2>2. decided' = <<>> /\ decided' \in Seq(Call) /\ Told(decided', transcript')
    <3>1. decided' = <<>>
      BY <1>1, <2>1 DEF AgentInv
    <3>2. QED
      BY <3>1, EmptySeq DEF Told
  <2>3. QED
    BY <1>1, <1>2, <2>1, <2>2 DEF AgentInv
<1>5. QED
  BY <1>3, <1>4

LEMMA PromptIsAnswered == Prompt \in Seq(Note) /\ Answered(Prompt)
<1> DEFINE system == [role |-> "system", calls |-> <<>>, answers |-> <<>>]
           user   == [role |-> "user", calls |-> <<>>, answers |-> <<>>]
<1>1. <<>> \in Seq(Call)
  BY EmptySeq
<1>2. /\ system \in Note /\ system.role # "tool" /\ system.calls = <<>>
      /\ user \in Note /\ user.role # "tool" /\ user.calls = <<>>
  BY <1>1 DEF Note
<1>3. Prompt = <<system, user>>
  BY DEF Prompt
<1> HIDE DEF system, user
<1>4. Prompt \in Seq(Note) /\ DOMAIN Prompt = 1..2 /\ Prompt[1] = system /\ Prompt[2] = user
  BY <1>2, <1>3
<1>5. \A i \in DOMAIN Prompt : Prompt[i].role # "tool" /\ DOMAIN Prompt[i].calls = {}
  <2>1. \A i \in 1..2 : i = 1 \/ i = 2
    OBVIOUS
  <2>2. DOMAIN <<>> = {}
    OBVIOUS
  <2>3. QED
    BY <1>2, <1>4, <2>1, <2>2
<1>6. QED
  BY <1>4, <1>5 DEF Answered

LEMMA AgentStep == AgentInv /\ [AgentNext]_agentVars => AgentInv'
<1> SUFFICES ASSUME AgentInv, [AgentNext]_agentVars
             PROVE  AgentInv'
  OBVIOUS
<1>1. CASE AgentStarts
  <2>1. 0 \in 0..MaxSteps /\ 0 < MaxSteps
    BY AgentAssumption
  <2>2. /\ run' = "asking" /\ chats' = 0 /\ transcript' = Prompt
        /\ noted' = <<>> /\ decided' = <<>>
    BY <1>1 DEF AgentStarts
  <2>3. <<>> \in Seq(Call) /\ \A t : Told(<<>>, t)
    BY EmptySeq DEF Told
  <2>4. QED
    BY <2>1, <2>2, <2>3, PromptIsAnswered DEF AgentInv
<1>2. CASE ModelFails
  BY <1>2 DEF ModelFails, AgentInv
<1>3. CASE UNCHANGED agentVars
  BY <1>3 DEF agentVars, AgentInv
<1>4. QED
  BY <1>1, <1>2, <1>3, AnswerStep DEF AgentNext

LEMMA AgentInitially == AgentInit => AgentInv
<1> SUFFICES ASSUME AgentInit
             PROVE  AgentInv
  OBVIOUS
<1>1. 0 \in 0..MaxSteps
  BY AgentAssumption
<1>2. <<>> \in Seq(Call) /\ \A t : Told(<<>>, t)
  BY EmptySeq DEF Told
<1>3. QED
  BY <1>1, <1>2, PromptIsAnswered DEF AgentInit, AgentInv

(* The engine's loop over answers of any length, tools that do not exist   *)
(* and calls that fail (Engine.Decide).                                    *)
THEOREM AgentInvariance == AgentSpec => []AgentInv
<1>1. QED
  BY AgentInitially, AgentStep, PTL DEF AgentSpec

(* For any tools, answers and number of steps: no upstream can refuse the  *)
(* transcript for a call without an answer, and nothing is done that the   *)
(* model was not told.                                                     *)
THEOREM TranscriptsAreWellFormed == AgentSpec => []TranscriptIsWellFormed
<1>1. AgentInv => TranscriptIsWellFormed
  BY DEF AgentInv, Answered, Told, TranscriptIsWellFormed
<1>2. QED
  BY <1>1, AgentInvariance, PTL

-------------------------------------------------------------------------------
(***************************************************************************)
(* Side by side: what one component does, the others do not notice, so     *)
(* that each behaves as its own specification says.                        *)
(***************************************************************************)
GatewaySpecs ==
  /\ JournalSteps /\ BackupsSpec /\ ConsoleSpec /\ AdaptiveSpec /\ AutoPilotSpec
  /\ EntrySpec /\ ProbesSpec /\ KeyringSpec /\ AgentSpec

LEMMA EachStepIsOnes ==
  [MCNext]_gatewayVars =>
    /\ [JournalNext]_journalVars /\ [BackupsNext]_backupsVars /\ [ConsoleNext]_consoleVars
    /\ [AdaptiveNext]_adaptiveVars /\ [AutoPilotNext]_autoPilotVars /\ [EntryNext]_entryVars
    /\ [ProbesNext]_probesVars /\ [KeyringNext]_keyringVars /\ [AgentNext]_agentVars
BY DEF MCNext, gatewayVars

(* The gateway implements each of its parts: the journal without its       *)
(* fairness, which MCFairness demands while it is the journal that runs.   *)
THEOREM GatewayIsItsParts == MCSpec => GatewaySpecs
<1>1. MCInit => /\ JournalInit /\ BackupsInit /\ ConsoleInit /\ AdaptiveInit /\ AutoPilotInit
                /\ EntryInit /\ ProbesInit /\ KeyringInit /\ AgentInit
  BY DEF MCInit
<1>2. QED
  BY <1>1, EachStepIsOnes, PTL DEF MCSpec, GatewaySpecs, JournalSteps, BackupsSpec, ConsoleSpec,
     AdaptiveSpec, AutoPilotSpec, EntrySpec, ProbesSpec, KeyringSpec, AgentSpec

GatewayInv ==
  /\ JournalInv /\ BackupsInv /\ SavedInv /\ AdaptiveInv /\ PilotInv
  /\ EntryInv /\ ProbesInv /\ KeyringInv /\ AgentInv

(* The inductive invariants hold together.                                 *)
THEOREM GatewayInvariance == MCSpec => []GatewayInv
<1>1. QED
  BY GatewayIsItsParts, JournalInvariance, BackupsInvariance, ConsoleInvariance,
     AdaptiveInvariance, AutoPilotInvariance, EntryInvariance, ProbesInvariance,
     KeyringInvariance, AgentInvariance, PTL DEF GatewaySpecs, GatewayInv

(* The state of every component has its shape, for all values of all the   *)
(* constants.                                                              *)
THEOREM TypesCorrect == MCSpec => []TypesOK
<1>1. EntryInv => EntryTypeOK
  BY DEF EntryInv, EntryTypeOK, CatalogueInv, Places, Facts
<1>2. AgentInv => AgentTypeOK
  <2>1. \A m \in Note : m.role \in {"system", "user", "assistant", "tool"}
    BY DEF Note
  <2>2. transcript \in Seq(Note) => \A i \in DOMAIN transcript : transcript[i] \in Note
    OBVIOUS
  <2>3. QED
    BY <2>1, <2>2 DEF AgentInv, AgentTypeOK
<1>3. GatewayInv => TypesOK
  BY <1>1, <1>2 DEF GatewayInv, TypesOK, JournalInv, BackupsInv, SavedInv, AdaptiveInv, PilotInv,
     ProbesInv, KeyringInv
<1>4. QED
  BY <1>3, GatewayInvariance, PTL

(* And everything proved of a component holds of the gateway.              *)
THEOREM GatewayIsSafe ==
  MCSpec => /\ [](RowsFollowTheCallers /\ CloseFlushes /\ PagesShowEachLineOnce)
            /\ [](NewestAreKept /\ RowIsNewestUnlessOvertaken /\ BucketsAreTheirOwn)
            /\ [](ConfigurationIsUsable /\ SavedIsReloaded)
            /\ [](RefusalsAreFounded /\ ForwardedModelsWereOpen /\ ConversationSurvives)
            /\ []TranscriptIsWellFormed
            /\ SuggestionsAreSettledOnce
<1>1. QED
  BY GatewayIsItsParts, RowsInOrderOfCallers, CloseKeepsItsPromise, PagesAreComplete,
     RotationKeepsNewest, RowsAreNewest, KeysHaveTheirOwnBuckets,
     ConfigurationStaysUsable, RestartsBringBack, RefusedForAReason,
     ForwardedIfOpen, ConversationsSurvive, TranscriptsAreWellFormed, SettledOnce, PTL
     DEF GatewaySpecs
=============================================================================
