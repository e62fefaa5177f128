--------------------------- MODULE SettingsProofs ---------------------------
(***************************************************************************)
(* What is proved of ModelSettings for every number of workspaces,         *)
(* requests, models, keys and URLs, whatever sizes the models have and     *)
(* whichever names share a slug.                                           *)
(***************************************************************************)
EXTENDS ModelSettings, TLAPS

-----------------------------------------------------------------------------
(* What a request knows at each of its steps.  A resolved pair of settings  *)
(* is Named: the server's default, or a collection called after them.       *)

WellNamed(x) ==
  \/ /\ x.collection = DefaultCollection /\ x.dims = DefaultSize
     /\ x.provider = "ollama" /\ x.model = DefaultModel
  \/ x.collection = collectionName(x.provider, x.model, x.dims)

Selects(r) == r.ws \in Workspaces /\ r.provider \in Providers /\ r.model \in Models

Credentials(r) == r.provider \in Providers /\ r.key \in Keys /\ r.url \in Urls

HoldsItsOwn(r) ==
  /\ r.client \in Client
  /\ r.client.half = r.half /\ r.client.provider = r.provider
  /\ r.client.model = r.model /\ r.client.url = r.url /\ r.client.key = r.key

Resolving == {"credential", "load", "build", "held"}
Targeted(r) == r.pc \in Resolving /\ r.op = "resolve" /\ r.half = "embedding"

RequestOK(r) ==
  /\ r \in RequestState
  /\ r.pc \in {"probe", "upsert"} => r.op = "save" /\ r.ws \in Workspaces /\ Credentials(r)
  /\ r.pc = "settings" => r.op = "resolve" /\ r.ws \in Workspaces
  /\ r.pc = "credential" => r.op \in {"set", "resolve"} /\ Selects(r)
  /\ r.pc = "saveLLM" => Selects(r)
  /\ r.pc = "dims" => r.op = "set" /\ r.half = "embedding" /\ Selects(r)
  /\ r.pc \in {"exists", "create", "saveEmbedding"} =>
       /\ r.op = "set" /\ r.half = "embedding" /\ Selects(r)
       /\ r.collection = collectionName(r.provider, r.model, r.dims)
  /\ r.pc = "count" => r.op = "set" /\ r.ws \in Workspaces
  /\ r.pc \in {"load", "build", "held"} => r.op = "resolve" /\ Selects(r)
  /\ r.pc = "held" => HoldsItsOwn(r)
  /\ Targeted(r) => WellNamed(r)

RequestsOK == /\ request \in [Requests -> RequestState]
              /\ \A q \in Requests : RequestOK(request[q])

TablesOK ==
  /\ credentials \subseteq Credential
  /\ llm \subseteq LLMSetting /\ embedding \subseteq EmbeddingSetting
  /\ collections \subseteq [name: Collection, size: Nat]
  /\ clients \subseteq Client

(* A collection's size is the one its name says; the settings of a workspace *)
(* are named after themselves.                                               *)
Sized(c) == c.size = IF c.name = DefaultCollection THEN DefaultSize ELSE c.name.dims
NamesOK ==
  /\ Exists(DefaultCollection)
  /\ \A c \in collections : Sized(c)
  /\ \A row \in embedding :
       /\ row.collection = collectionName(row.provider, row.model, row.dims)
       /\ Exists(row.collection)
  /\ \A q \in Requests :
       request[q].pc = "saveEmbedding" \/ Targeted(request[q]) => Exists(request[q].collection)

Settled == RequestsOK /\ TablesOK /\ NamesOK

USE ModelSettingsAssumption DEF ModelSettingsAssumption

-----------------------------------------------------------------------------
LEMMA ProvidersFact == "ollama" \in Providers /\ "" \notin Providers
  BY DEF Providers, Catalog, Entry

LEMMA Constants ==
  /\ "idle" \in Pc /\ "probe" \in Pc /\ "upsert" \in Pc /\ "credential" \in Pc
  /\ "dims" \in Pc /\ "exists" \in Pc /\ "create" \in Pc /\ "saveLLM" \in Pc
  /\ "saveEmbedding" \in Pc /\ "count" \in Pc /\ "settings" \in Pc /\ "load" \in Pc
  /\ "build" \in Pc /\ "held" \in Pc /\ "answered" \in Pc
  /\ "llm" \in Half /\ "embedding" \in Half
  /\ "save" \in Op /\ "set" \in Op /\ "resolve" \in Op
  BY DEF Pc, Half, Op

LEMMA NamedCollection ==
  ASSUME NEW p \in Providers, NEW m \in Models, NEW d \in Nat
  PROVE  /\ collectionName(p, m, d) \in Collection
         /\ collectionName(p, m, d) # DefaultCollection
         /\ collectionName(p, m, d).dims = d
         /\ collectionName(p, m, d).provider = p
         /\ collectionName(p, m, d).slug = Slug[m]
  BY ProvidersFact DEF collectionName, Collection, DefaultCollection

LEMMA IdleFacts ==
  /\ Idle \in RequestState
  /\ Idle.pc = "idle"
<1>1. DefaultCollection \in Collection /\ NoClient \in Client \cup {NoClient}
  BY DEF Collection
<1> QED
  BY <1>1 DEF Idle, RequestState, Pc, Op, Half

\* A step that gives one request a new state leaves the others alone.
LEMMA OneMoves ==
  ASSUME RequestsOK, NEW q \in Requests, NEW new, RequestOK(new),
         request' = [request EXCEPT ![q] = new]
  PROVE  RequestsOK'
<1>1. new \in RequestState
  BY DEF RequestOK
<1>2. request' \in [Requests -> RequestState]
  BY <1>1 DEF RequestsOK
<1>3. \A p \in Requests : request'[p] = IF p = q THEN new ELSE request[p]
  BY <1>1 DEF RequestsOK
<1> QED
  BY <1>2, <1>3 DEF RequestsOK

LEMMA Here ==
  ASSUME RequestsOK, NEW q \in Requests
  PROVE  RequestOK(request[q]) /\ request[q] \in RequestState
  BY DEF RequestsOK, RequestOK

LEMMA AnswerKeeps ==
  ASSUME RequestsOK, NEW q \in Requests, NEW reply \in {"ok", "bad", "unavailable", "failed"},
         Answer(q, reply)
  PROVE  RequestsOK'
<1> DEFINE w == request[q].ws
           new == [Idle EXCEPT !.pc = "answered", !.ws = w, !.reply = reply]
<1>1. w \in Workspaces \cup {""}
  BY Here DEF RequestState
<1> HIDE DEF w
<1>5. "answered" \in Pc
  BY Constants
<1>2. new \in RequestState
  BY <1>1, <1>5, IdleFacts, ZenonT(30) DEF RequestState
<1>6. new.pc = "answered"
  BY IdleFacts DEF RequestState
<1>3. RequestOK(new)
  BY <1>2, <1>6 DEF RequestOK, Targeted, Resolving
<1>4. request' = [request EXCEPT ![q] = new]
  BY DEF Answer, w
<1> QED
  BY <1>3, <1>4, OneMoves

LEMMA BeginKeeps ==
  ASSUME RequestsOK, NEW q \in Requests, NEW op \in {"set", "resolve"}, NEW half \in Half,
         NEW w \in Workspaces, NEW p \in Providers \cup {""}, NEW m \in Models \cup {""},
         NEW pc, Begin(q, op, half, w, p, m, pc),
         \/ pc = "credential" /\ p \in Providers /\ m \in Models
            /\ (op = "resolve" => half = "llm")
         \/ pc = "settings" /\ op = "resolve"
  PROVE  RequestsOK'
<1> DEFINE new == [Idle EXCEPT !.pc = pc, !.op = op, !.half = half, !.ws = w,
                               !.provider = p, !.model = m]
<1>3. pc \in Pc /\ op \in Op
  BY Constants
<1>4. new \in RequestState
  BY <1>3, IdleFacts DEF RequestState
<1>1. /\ new.pc = pc /\ new.op = op /\ new.half = half
      /\ new.ws = w /\ new.provider = p /\ new.model = m
  BY IdleFacts DEF RequestState
<1> HIDE DEF new
<1>2. RequestOK(new)
  BY <1>1, <1>4 DEF RequestOK, Targeted, Resolving, Selects
<1> QED
  BY <1>2, OneMoves DEF Begin, new

LEMMA RefuseKeeps ==
  ASSUME RequestsOK, NEW q \in Requests, NEW w \in Workspaces, Refuse(q, w)
  PROVE  RequestsOK'
<1> DEFINE new == [Idle EXCEPT !.pc = "answered", !.ws = w, !.reply = "bad"]
<1>1. new \in RequestState /\ new.pc = "answered"
  BY IdleFacts, Constants DEF RequestState
<1>2. RequestOK(new)
  BY <1>1 DEF RequestOK, Targeted, Resolving
<1> QED
  BY <1>2, OneMoves DEF Refuse

\* The next step of a request that keeps what it knows.
LEMMA GotoKeeps ==
  ASSUME RequestsOK, NEW q \in Requests, NEW pc \in Pc, Goto(q, pc),
         RequestOK([request[q] EXCEPT !.pc = pc])
  PROVE  RequestsOK'
  BY OneMoves DEF Goto

-----------------------------------------------------------------------------
(* Each step leaves every request knowing what it has to.                   *)

LEMMA SaveKeeps ==
  ASSUME RequestsOK, NEW q \in Requests, SaveCredential(q) \/ ProbeModels(q) \/ StoreCredential(q)
  PROVE  RequestsOK'
<1>1. CASE SaveCredential(q)
  <2>1. PICK w \in Workspaces, p \in Named, k \in Keys, u \in Urls :
          \/ Refuse(q, w)
          \/ /\ TakesKey(p)
             /\ request' = [request EXCEPT ![q] =
                  [Idle EXCEPT !.pc = "probe", !.op = "save", !.ws = w, !.provider = p,
                               !.key = k, !.url = u]]
    BY <1>1 DEF SaveCredential
  <2> DEFINE new == [Idle EXCEPT !.pc = "probe", !.op = "save", !.ws = w, !.provider = p,
                                 !.key = k, !.url = u]
  <2>2. CASE Refuse(q, w)
    BY <2>2, RefuseKeeps
  <2>3. CASE TakesKey(p) /\ request' = [request EXCEPT ![q] = new]
    <3>1. /\ new \in RequestState /\ new.pc = "probe" /\ new.op = "save" /\ new.ws = w
          /\ new.provider = p /\ new.key = k /\ new.url = u
      BY <2>3, IdleFacts, Constants, ZenonT(30) DEF RequestState, TakesKey
    <3>2. RequestOK(new)
      BY <2>3, <3>1 DEF RequestOK, Targeted, Resolving, Credentials, TakesKey
    <3> QED
      BY <2>3, <3>2, OneMoves
  <2> QED
    BY <2>1, <2>2, <2>3
<1>2. CASE ProbeModels(q)
  <2>1. RequestOK(request[q]) /\ request[q] \in RequestState /\ request[q].pc = "probe"
    BY <1>2, Here DEF ProbeModels, At
  <2> DEFINE new == [request[q] EXCEPT !.pc = "upsert"]
  <2>6. request[q] \in RequestState /\ "upsert" \in Pc
    BY <2>1, Constants
  <2>5. new \in RequestState
    BY <2>6, ZenonT(30) DEF RequestState
  <2>3. /\ new.pc = "upsert" /\ new.op = request[q].op
        /\ new.ws = request[q].ws /\ new.provider = request[q].provider
        /\ new.key = request[q].key /\ new.url = request[q].url
    BY <2>6 DEF RequestState
  <2> HIDE DEF new
  <2>4. RequestOK(new)
    BY <2>1, <2>3, <2>5 DEF RequestOK, Targeted, Resolving, Credentials
  <2>2. RequestOK([request[q] EXCEPT !.pc = "upsert"])
    BY <2>4 DEF new
  <2> QED
    BY <1>2, <2>2, GotoKeeps, AnswerKeeps DEF ProbeModels, Pc
<1>3. CASE StoreCredential(q)
  BY <1>3, AnswerKeeps DEF StoreCredential
<1> QED
  BY <1>1, <1>2, <1>3

LEMMA SelectKeeps ==
  ASSUME RequestsOK, NEW q \in Requests, Select(q)
  PROVE  RequestsOK'
<1>1. PICK w \in Workspaces, o \in Offered :
        \/ /\ Serves(o.provider, o.half)
           /\ Begin(q, "set", o.half, w, o.provider, o.model, "credential")
        \/ Refuse(q, w)
  BY DEF Select
<1>2. CASE Refuse(q, w)
  BY <1>2, RefuseKeeps
<1>3. CASE Serves(o.provider, o.half)
             /\ Begin(q, "set", o.half, w, o.provider, o.model, "credential")
  <2>1. o.half \in Half /\ o.provider \in Providers /\ o.model \in Models
    BY <1>3 DEF Serves, Half
  <2> QED
    BY <1>3, <2>1, BeginKeeps
<1> QED
  BY <1>1, <1>2, <1>3

LEMMA ResolveKeeps ==
  ASSUME RequestsOK, NEW q \in Requests, Resolve(q)
  PROVE  RequestsOK'
<1>1. CASE \E w \in Workspaces : \E o \in {x \in Offered : x.half = "llm"} :
             IF o.provider \in Providers
             THEN Begin(q, "resolve", "llm", w, o.provider, o.model, "credential")
             ELSE Refuse(q, w)
  <2>1. PICK w \in Workspaces, o \in Offered :
          \/ /\ o.provider \in Providers
             /\ Begin(q, "resolve", "llm", w, o.provider, o.model, "credential")
          \/ Refuse(q, w)
    BY <1>1
  <2>2. o.model \in Models /\ "llm" \in Half
    BY DEF Half
  <2> QED
    BY <2>1, <2>2, BeginKeeps, RefuseKeeps
<1>2. CASE \E w \in Workspaces : \E half \in Half :
             Begin(q, "resolve", half, w, "", "", "settings")
  BY <1>2, BeginKeeps
<1> QED
  BY <1>1, <1>2 DEF Resolve

LEMMA GetSettingsKeeps ==
  ASSUME Settled, NEW q \in Requests, GetSettings(q)
  PROVE  RequestsOK'
<1> DEFINE r == request[q]
           rows == Of(IF r.half = "llm" THEN llm ELSE embedding, r.ws)
           row == CHOOSE x \in rows : TRUE
           default == [r EXCEPT !.pc = "credential", !.provider = "ollama",
                         !.model = DefaultModel, !.dims = DefaultSize,
                         !.collection = DefaultCollection]
           chosenLLM == [r EXCEPT !.pc = "credential", !.provider = row.provider,
                           !.model = row.model]
           chosen == [r EXCEPT !.pc = "credential", !.provider = row.provider,
                        !.model = row.model, !.dims = row.dims,
                        !.collection = row.collection]
<1>1. RequestsOK /\ TablesOK /\ NamesOK
  BY DEF Settled
<1>2. RequestOK(r) /\ r \in RequestState /\ r.pc = "settings"
  BY <1>1, Here DEF GetSettings, At
<1>3. r.op = "resolve" /\ r.ws \in Workspaces
  BY <1>2 DEF RequestOK
<1>4. request' = [request EXCEPT ![q] =
        IF rows = {} THEN default ELSE IF r.half = "llm" THEN chosenLLM ELSE chosen]
  BY DEF GetSettings
<1>5. rows # {} => row \in rows
  OBVIOUS
<1> HIDE DEF row
<1>6. CASE rows = {}
  <2>1. /\ default \in RequestState /\ default.pc = "credential" /\ default.op = "resolve"
        /\ default.ws = r.ws /\ default.provider = "ollama" /\ default.model = DefaultModel
        /\ default.dims = DefaultSize /\ default.collection = DefaultCollection
    BY <1>2, <1>3, ProvidersFact, Constants DEF RequestState, Collection
  <2>2. RequestOK(default)
    BY <1>3, <2>1, ProvidersFact DEF RequestOK, Selects, WellNamed
  <2> QED
    BY <1>1, <1>4, <1>6, <2>2, OneMoves
<1>7. CASE rows # {} /\ r.half = "llm"
  <2>1. row.provider \in Providers /\ row.model \in Models
    BY <1>1, <1>5, <1>7 DEF TablesOK, LLMSetting, Of
  <2>2. /\ chosenLLM \in RequestState /\ chosenLLM.pc = "credential"
        /\ chosenLLM.op = "resolve" /\ chosenLLM.half = "llm" /\ chosenLLM.ws = r.ws
        /\ chosenLLM.provider = row.provider /\ chosenLLM.model = row.model
    BY <1>2, <1>3, <1>7, <2>1, Constants DEF RequestState
  <2>3. RequestOK(chosenLLM)
    BY <1>3, <2>1, <2>2 DEF RequestOK, Selects, Targeted
  <2> QED
    BY <1>1, <1>4, <1>7, <2>3, OneMoves
<1>8. CASE rows # {} /\ r.half # "llm"
  <2>1. /\ row \in embedding
        /\ row.provider \in Providers /\ row.model \in Models /\ row.dims \in Nat
        /\ row.collection \in Collection
    BY <1>1, <1>5, <1>8 DEF TablesOK, EmbeddingSetting, Of
  <2>2. row.collection = collectionName(row.provider, row.model, row.dims)
    BY <1>1, <2>1 DEF NamesOK
  <2>3. /\ chosen \in RequestState /\ chosen.pc = "credential" /\ chosen.op = "resolve"
        /\ chosen.ws = r.ws /\ chosen.provider = row.provider /\ chosen.model = row.model
        /\ chosen.dims = row.dims /\ chosen.collection = row.collection
    BY <1>2, <1>3, <2>1, Constants DEF RequestState
  <2>4. RequestOK(chosen)
    BY <1>3, <2>1, <2>2, <2>3 DEF RequestOK, Selects, WellNamed
  <2> QED
    BY <1>1, <1>4, <1>8, <2>4, OneMoves
<1> QED
  BY <1>6, <1>7, <1>8

LEMMA FoundKey ==
  ASSUME TablesOK, NEW q \in Requests, Found(q) # {}
  PROVE  /\ (CHOOSE c \in Found(q) : TRUE) \in Found(q)
         /\ (CHOOSE c \in Found(q) : TRUE).key \in Keys
         /\ (CHOOSE c \in Found(q) : TRUE).url \in Urls
<1>1. (CHOOSE c \in Found(q) : TRUE) \in Found(q)
  OBVIOUS
<1> QED
  BY <1>1 DEF Found, TablesOK, Credential

LEMMA CredentialKeeps ==
  ASSUME RequestsOK, TablesOK, NEW q \in Requests, CredentialFor(q)
  PROVE  RequestsOK'
<1> DEFINE r == request[q]
           pc == AfterCredential(q)
           key == IF Found(q) = {} THEN "" ELSE (CHOOSE c \in Found(q) : TRUE).key
           url == IF Found(q) = {} THEN "" ELSE (CHOOSE c \in Found(q) : TRUE).url
           new == [r EXCEPT !.pc = pc, !.key = key, !.url = url]
<1>1. /\ RequestOK(r) /\ r \in RequestState /\ r.pc = "credential"
      /\ r.op \in {"set", "resolve"} /\ Selects(r)
  BY Here DEF CredentialFor, At, RequestOK
<1>7. pc = IF r.op = "resolve" THEN "load" ELSE IF r.half = "llm" THEN "saveLLM" ELSE "dims"
  BY <1>1 DEF AfterCredential
<1>2. pc \in Pc
  BY <1>7, Constants
<1>3. key \in Keys \cup {""} /\ url \in Urls \cup {""}
  BY FoundKey
<1> HIDE DEF pc, key, url
<1>4. CASE ~Usable(q)
  BY <1>4, AnswerKeeps DEF CredentialFor
<1>5. CASE Usable(q) /\ pc = "saveLLM"
  <2>1. RequestOK([r EXCEPT !.pc = "saveLLM"])
    BY <1>1 DEF RequestOK, RequestState, Pc, Selects, Targeted, Resolving
  <2> QED
    BY <1>2, <1>5, <2>1, GotoKeeps DEF CredentialFor, pc
<1>6. CASE Usable(q) /\ pc # "saveLLM"
  <2>0. r \in RequestState
    BY <1>1
  <2>1. /\ new \in RequestState /\ new.pc = pc /\ new.op = r.op /\ new.half = r.half
        /\ new.ws = r.ws /\ new.provider = r.provider /\ new.model = r.model
        /\ new.dims = r.dims /\ new.collection = r.collection
    BY <2>0, <1>2, <1>3, ZenonT(30) DEF RequestState
  <2>2. r.half \in Half
    BY <1>1 DEF RequestState
  <2>3. request' = [request EXCEPT ![q] = new]
    BY <1>6 DEF CredentialFor, WithCredential, pc, key, url
  <2> HIDE DEF new
  <2>4. (WellNamed(new) <=> WellNamed(r)) /\ (Selects(new) <=> Selects(r))
    BY <2>1 DEF WellNamed, Selects
  <2>5. ASSUME new.pc = "load", new.op = "resolve" PROVE RequestOK(new)
    BY <1>1, <2>1, <2>4, <2>5 DEF RequestOK, Targeted, Resolving
  <2>6. ASSUME new.pc = "dims", new.op = "set", new.half = "embedding" PROVE RequestOK(new)
    BY <1>1, <2>1, <2>4, <2>6 DEF RequestOK, Targeted, Resolving
  <2>7. RequestOK(new)
    BY <1>1, <1>7, <1>6, <2>1, <2>2, <2>5, <2>6 DEF Half
  <2> QED
    BY <2>3, <2>7, OneMoves
<1> QED
  BY <1>4, <1>5, <1>6

LEMMA SizeIsNat ==
  ASSUME NEW r \in RequestState, r.model \in Models
  PROVE  Size(r) \in Nat
<1> DEFINE url == IF r.url = "" THEN DefaultUrl ELSE r.url
<1>1. url \in Urls
  BY DEF RequestState
<1> HIDE DEF url
<1>3. Dims[url] \in [Models -> Nat]
  BY <1>1
<1>2. Dims[url][r.model] \in Nat
  BY <1>3
<1> QED
  BY <1>2 DEF Size, url

LEMMA SetKeeps ==
  ASSUME RequestsOK, NEW q \in Requests,
         \/ SaveLLMSettings(q) \/ ProbeDimensions(q) \/ CollectionExists(q)
         \/ CreateCollection(q) \/ SaveEmbeddingSettings(q) \/ StaleSourceCount(q)
  PROVE  RequestsOK'
<1> DEFINE r == request[q]
<1>1. RequestOK(r) /\ r \in RequestState
  BY Here
<1>2. CASE SaveLLMSettings(q)
  BY <1>2, AnswerKeeps DEF SaveLLMSettings
<1>3. CASE ProbeDimensions(q)
  <2> DEFINE name == collectionName(r.provider, r.model, Size(r))
             new == [r EXCEPT !.pc = "exists", !.dims = Size(r), !.key = "", !.url = "",
                              !.collection = name]
  <2>1. r.op = "set" /\ r.half = "embedding" /\ Selects(r)
    BY <1>1, <1>3 DEF ProbeDimensions, At, RequestOK
  <2>2. Size(r) \in Nat /\ name \in Collection
    BY <1>1, <2>1, SizeIsNat, NamedCollection DEF Selects
  <2>3. /\ new \in RequestState /\ new.pc = "exists" /\ new.op = r.op /\ new.half = r.half
        /\ new.ws = r.ws /\ new.provider = r.provider /\ new.model = r.model
        /\ new.dims = Size(r) /\ new.collection = name
    BY <1>1, <2>2, Constants DEF RequestState
  <2>4. RequestOK(new)
    BY <2>1, <2>3 DEF RequestOK, Selects, Targeted, Resolving
  <2>5. CASE Size(r) = 0
    BY <1>3, <2>5, AnswerKeeps DEF ProbeDimensions
  <2>6. CASE Size(r) # 0
    <3>1. request' = [request EXCEPT ![q] = new]
      BY <1>3, <2>6 DEF ProbeDimensions
    <3> QED
      BY <2>4, <3>1, OneMoves
  <2> QED
    BY <2>5, <2>6
<1>4. ASSUME NEW pc \in {"create", "saveEmbedding"}, r.pc \in {"exists", "create"}, Goto(q, pc)
      PROVE  RequestsOK'
  <2> DEFINE new == [r EXCEPT !.pc = pc]
  <2>4. r \in RequestState /\ pc \in Pc
    BY <1>1, <1>4, Constants
  <2>5. new \in RequestState
    BY <2>4, ZenonT(30) DEF RequestState
  <2>2. /\ new.pc = pc /\ new.op = r.op /\ new.half = r.half
        /\ new.ws = r.ws /\ new.provider = r.provider /\ new.model = r.model
        /\ new.dims = r.dims /\ new.collection = r.collection
    BY <2>4 DEF RequestState
  <2> HIDE DEF new
  <2>3. RequestOK(new)
    BY <1>1, <1>4, <2>2, <2>5 DEF RequestOK, Selects, Targeted, Resolving
  <2>1. RequestOK([r EXCEPT !.pc = pc])
    BY <2>3 DEF new
  <2> QED
    BY <1>4, <2>1, GotoKeeps DEF Pc
<1>5. CASE CollectionExists(q)
  BY <1>4, <1>5 DEF CollectionExists, At
<1>6. CASE CreateCollection(q)
  <2>1. r.pc = "create" /\ (Goto(q, "saveEmbedding") \/ Answer(q, "failed"))
    BY <1>6 DEF CreateCollection, At
  <2> QED
    BY <1>4, <2>1, AnswerKeeps
<1>7. CASE SaveEmbeddingSettings(q)
  <2> DEFINE new == [r EXCEPT !.pc = "count"]
  <2>4. r \in RequestState /\ "count" \in Pc
    BY <1>1, Constants
  <2>5. new \in RequestState
    BY <2>4, ZenonT(30) DEF RequestState
  <2>2. /\ new.pc = "count" /\ new.op = r.op /\ new.ws = r.ws
    BY <2>4 DEF RequestState
  <2> HIDE DEF new
  <2>3. RequestOK(new)
    BY <1>1, <1>7, <2>2, <2>5 DEF SaveEmbeddingSettings, At, RequestOK, Selects, Targeted, Resolving
  <2>1. RequestOK([r EXCEPT !.pc = "count"])
    BY <2>3 DEF new
  <2> QED
    BY <1>7, <2>1, GotoKeeps DEF SaveEmbeddingSettings, Pc
<1>8. CASE StaleSourceCount(q)
  <2> DEFINE told == StaleSources(r) # {}
             w == r.ws
             new == [Idle EXCEPT !.pc = "answered", !.ws = w, !.reply = "ok",
                                 !.op = "set", !.half = "embedding", !.stale = told]
  <2>0. told \in BOOLEAN /\ w \in Workspaces \cup {""}
    BY <1>1 DEF RequestState
  <2> HIDE DEF told, w
  <2>1. new \in RequestState /\ new.pc = "answered"
    BY <2>0, IdleFacts, Constants, ZenonT(30) DEF RequestState
  <2>2. RequestOK(new)
    BY <2>1 DEF RequestOK, Targeted, Resolving
  <2>3. request' = [request EXCEPT ![q] = new]
    BY <1>8 DEF StaleSourceCount, told, w
  <2> QED
    BY <2>2, <2>3, OneMoves
<1> QED
  BY <1>2, <1>3, <1>5, <1>6, <1>7, <1>8

LEMMA HoldKeeps ==
  ASSUME RequestsOK, NEW q \in Requests, request[q].pc \in {"load", "build"},
         NEW c \in Client, clientKey(c) = clientKey(Built(q)), Hold(q, c)
  PROVE  RequestsOK'
<1> DEFINE r == request[q]
           new == [r EXCEPT !.pc = "held", !.client = c]
<1>1. RequestOK(r) /\ r \in RequestState /\ r.op = "resolve" /\ Selects(r)
  BY Here DEF RequestOK
<1>2. /\ new \in RequestState /\ new.pc = "held" /\ new.op = r.op /\ new.half = r.half
      /\ new.ws = r.ws /\ new.provider = r.provider /\ new.model = r.model
      /\ new.key = r.key /\ new.url = r.url /\ new.dims = r.dims
      /\ new.collection = r.collection /\ new.client = c
  BY <1>1, Constants, ZenonT(30) DEF RequestState
<1>3. c.half = r.half /\ c.provider = r.provider /\ c.model = r.model /\ c.url = r.url
      /\ c.key = r.key
  BY DEF clientKey, Built
<1>4. request' = [request EXCEPT ![q] = new]
  BY DEF Hold
<1> HIDE DEF new
<1>5. (WellNamed(new) <=> WellNamed(r)) /\ (Selects(new) <=> Selects(r))
  BY <1>2 DEF WellNamed, Selects
<1>6. HoldsItsOwn(new)
  BY <1>2, <1>3 DEF HoldsItsOwn
<1>7. RequestOK(new)
  BY <1>1, <1>2, <1>5, <1>6 DEF RequestOK, Targeted, Resolving
<1> QED
  BY <1>4, <1>7, OneMoves

LEMMA BuiltIsClient ==
  ASSUME RequestsOK, NEW q \in Requests, request[q].pc \in {"load", "build"}
  PROVE  Built(q) \in Client
<1>1. RequestOK(request[q]) /\ request[q] \in RequestState /\ Selects(request[q])
  BY Here DEF RequestOK
<1> QED
  BY <1>1 DEF RequestState, Selects, Built, Client, Half

\* What a request comes to hold is in the cache, and is what it would build.
LEMMA ActualClient ==
  ASSUME RequestsOK, TablesOK, NEW q \in Requests, request[q].pc \in {"load", "build"}
  PROVE  /\ Actual(q) \in Client /\ clientKey(Actual(q)) = clientKey(Built(q))
         /\ Cached(q) # {} => Actual(q) \in Cached(q)
<1>1. CASE Cached(q) = {}
  BY <1>1, BuiltIsClient DEF Actual
<1>2. CASE Cached(q) # {}
  <2>1. Actual(q) \in Cached(q)
    BY <1>2 DEF Actual
  <2> QED
    BY <2>1 DEF Cached, TablesOK
<1> QED
  BY <1>1, <1>2

LEMMA ClientKeeps ==
  ASSUME RequestsOK, TablesOK, NEW q \in Requests, Load(q) \/ BuildClient(q)
  PROVE  RequestsOK'
<1>1. CASE Load(q)
  <2>1. request[q].pc = "load"
    BY <1>1 DEF Load, At
  <2>2. CASE Cached(q) = {}
    <3>1. RequestOK(request[q]) /\ request[q] \in RequestState
      BY Here
    <3> DEFINE r == request[q]
               new == [r EXCEPT !.pc = "build"]
    <3>5. r \in RequestState /\ "build" \in Pc
      BY <3>1, Constants
    <3>6. new \in RequestState
      BY <3>5, ZenonT(30) DEF RequestState
    <3>3. /\ new.pc = "build" /\ new.op = r.op /\ new.half = r.half
          /\ new.ws = r.ws /\ new.provider = r.provider /\ new.model = r.model
          /\ new.dims = r.dims /\ new.collection = r.collection
      BY <3>5 DEF RequestState
    <3> HIDE DEF new
    <3>4. RequestOK(new)
      BY <2>1, <3>1, <3>3, <3>6 DEF RequestOK, Selects, Targeted, Resolving, WellNamed
    <3>2. RequestOK([request[q] EXCEPT !.pc = "build"])
      BY <3>4 DEF new
    <3> QED
      BY <1>1, <2>2, <3>2, GotoKeeps DEF Load, Pc
  <2>3. CASE Cached(q) # {}
    <3>1. PICK c \in Cached(q) : Hold(q, c)
      BY <1>1, <2>3 DEF Load
    <3>2. c \in Client /\ clientKey(c) = clientKey(Built(q))
      BY DEF Cached, TablesOK
    <3> QED
      BY <2>1, <3>1, <3>2, HoldKeeps
  <2> QED
    BY <2>2, <2>3
<1>2. CASE BuildClient(q)
  BY <1>2, ActualClient, HoldKeeps DEF BuildClient, At
<1> QED
  BY <1>1, <1>2

LEMMA EndKeeps ==
  ASSUME RequestsOK, NEW q \in Requests, Index(q) \/ CallFails(q) \/ Finish(q)
  PROVE  RequestsOK'
<1>1. RequestOK(Idle)
  BY IdleFacts DEF RequestOK, Targeted, Resolving
<1>2. CASE Index(q) \/ Finish(q)
  BY <1>1, <1>2, OneMoves DEF Index, Finish
<1>3. CASE CallFails(q)
  BY <1>3, AnswerKeeps DEF CallFails
<1> QED
  BY <1>2, <1>3

LEMMA RequestsStep ==
  ASSUME Settled, NEW q \in Requests, Step(q)
  PROVE  RequestsOK'
<1>1. RequestsOK /\ TablesOK
  BY DEF Settled
<1> QED
  BY <1>1, SaveKeeps, SelectKeeps, ResolveKeeps, GetSettingsKeeps, CredentialKeeps,
     SetKeeps, ClientKeeps, EndKeeps DEF Step

-----------------------------------------------------------------------------
(* The tables and the caches.                                               *)

LEMMA TablesStep ==
  ASSUME Settled, NEW q \in Requests, Step(q)
  PROVE  TablesOK'
<1> DEFINE r == request[q]
<1>1. RequestsOK /\ TablesOK /\ RequestOK(r) /\ r \in RequestState
  BY Here DEF Settled
<1>2. CASE StoreCredential(q)
  <2>1. [ws |-> r.ws, provider |-> r.provider, key |-> r.key, url |-> r.url] \in Credential
    BY <1>1, <1>2 DEF StoreCredential, At, RequestOK, Credentials, Credential
  <2> QED
    BY <1>1, <1>2, <2>1 DEF StoreCredential, TablesOK
<1>3. CASE SaveLLMSettings(q)
  <2>1. [ws |-> r.ws, provider |-> r.provider, model |-> r.model] \in LLMSetting
    BY <1>1, <1>3 DEF SaveLLMSettings, At, RequestOK, Selects, LLMSetting
  <2> QED
    BY <1>1, <1>3, <2>1 DEF SaveLLMSettings, Upsert, TablesOK
<1>4. CASE CreateCollection(q)
  <2>1. [name |-> r.collection, size |-> r.dims] \in [name: Collection, size: Nat]
    BY <1>1 DEF RequestState
  <2> QED
    BY <1>1, <1>4, <2>1 DEF CreateCollection, TablesOK
<1>5. CASE SaveEmbeddingSettings(q)
  <2>1. [ws |-> r.ws, provider |-> r.provider, model |-> r.model, dims |-> r.dims,
         collection |-> r.collection] \in EmbeddingSetting
    BY <1>1, <1>5 DEF SaveEmbeddingSettings, At, RequestOK, Selects, RequestState,
                      EmbeddingSetting
  <2> QED
    BY <1>1, <1>5, <2>1 DEF SaveEmbeddingSettings, Upsert, TablesOK
<1>6. CASE BuildClient(q)
  BY <1>1, <1>6, ActualClient DEF BuildClient, At, TablesOK
<1>7. CASE UNCHANGED <<credentials, llm, embedding, collections, clients>>
  BY <1>1, <1>7 DEF TablesOK
<1> QED
  BY <1>2, <1>3, <1>4, <1>5, <1>6, <1>7
     DEF Step, SaveCredential, ProbeModels, Select, Resolve, GetSettings, CredentialFor,
         ProbeDimensions, CollectionExists, StaleSourceCount, Load, Index, CallFails, Finish,
         Begin, Refuse, store

\* What the other requests know does not change.
LEMMA OthersStay ==
  ASSUME RequestsOK, NEW q \in Requests, Step(q), NEW p \in Requests, p # q
  PROVE  request'[p] = request[p]
  BY DEF RequestsOK, Step, SaveCredential, ProbeModels, StoreCredential, Select, Resolve,
         GetSettings, CredentialFor, WithCredential, SaveLLMSettings, ProbeDimensions,
         CollectionExists, CreateCollection, SaveEmbeddingSettings, StaleSourceCount, Load,
         BuildClient, Hold, Index, CallFails, Finish, Begin, Refuse, Answer, Goto

\* The step a request is at after it answered, or began.
LEMMA AnswerPc ==
  ASSUME RequestsOK, NEW q \in Requests, NEW reply, Answer(q, reply)
  PROVE  request'[q].pc = "answered"
<1> DEFINE w == request[q].ws
           new == [Idle EXCEPT !.pc = "answered", !.ws = w, !.reply = reply]
<1>1. request'[q] = new
  BY DEF RequestsOK, Answer
<1> HIDE DEF w
<1>2. new.pc = "answered"
  BY IdleFacts DEF RequestState
<1> QED
  BY <1>1, <1>2

LEMMA RefusePc ==
  ASSUME RequestsOK, NEW q \in Requests, NEW w, Refuse(q, w)
  PROVE  request'[q].pc = "answered"
<1> DEFINE new == [Idle EXCEPT !.pc = "answered", !.ws = w, !.reply = "bad"]
<1>1. request'[q] = new
  BY DEF RequestsOK, Refuse
<1>2. new.pc = "answered"
  BY IdleFacts DEF RequestState
<1> QED
  BY <1>1, <1>2

LEMMA BeginPc ==
  ASSUME RequestsOK, NEW q \in Requests, NEW op, NEW half, NEW w, NEW p, NEW m, NEW pc,
         Begin(q, op, half, w, p, m, pc)
  PROVE  request'[q].pc = pc /\ request'[q].op = op /\ request'[q].half = half
<1> DEFINE new == [Idle EXCEPT !.pc = pc, !.op = op, !.half = half, !.ws = w,
                               !.provider = p, !.model = m]
<1>1. new.pc = pc /\ new.op = op /\ new.half = half
  BY IdleFacts DEF RequestState
<1>2. request'[q] = new
  BY DEF RequestsOK, Begin
<1> QED
  BY <1>1, <1>2

LEMMA GotoPc ==
  ASSUME RequestsOK, NEW q \in Requests, NEW pc, Goto(q, pc)
  PROVE  /\ request'[q].pc = pc /\ request'[q].op = request[q].op
         /\ request'[q].half = request[q].half
         /\ request'[q].collection = request[q].collection
<1>1. request[q] \in RequestState /\ request'[q] = [request[q] EXCEPT !.pc = pc]
  BY DEF RequestsOK, Goto
<1> QED
  BY <1>1 DEF RequestState

LEMMA CredentialPc ==
  ASSUME RequestsOK, NEW q \in Requests, CredentialFor(q)
  PROVE  request'[q].pc \in {"answered", "load", "saveLLM", "dims"}
<1> DEFINE r == request[q]
           pc == AfterCredential(q)
           key == IF Found(q) = {} THEN "" ELSE (CHOOSE c \in Found(q) : TRUE).key
           url == IF Found(q) = {} THEN "" ELSE (CHOOSE c \in Found(q) : TRUE).url
           new == [r EXCEPT !.pc = pc, !.key = key, !.url = url]
<1>1. \/ Answer(q, "bad") \/ Goto(q, "saveLLM")
      \/ request' = [request EXCEPT ![q] = new]
  BY DEF CredentialFor, WithCredential
<1>2. pc \in {"load", "saveLLM", "dims"}
  BY DEF AfterCredential
<1>3. r \in RequestState
  BY DEF RequestsOK
<1> HIDE DEF pc, key, url
<1>4. new.pc = pc
  BY <1>3 DEF RequestState
<1>5. CASE request' = [request EXCEPT ![q] = new]
  BY <1>2, <1>4, <1>5 DEF RequestsOK
<1>6. CASE Answer(q, "bad")
  BY <1>6, AnswerPc
<1>7. CASE Goto(q, "saveLLM")
  <2>1. request'[q].pc = "saveLLM"
    BY <1>7, GotoPc, Zenon
  <2> QED
    BY <2>1
<1> QED
  BY <1>1, <1>5, <1>6, <1>7

\* Where the steps lead that give a request no target and no collection.
LEMMA ElsewherePc ==
  ASSUME RequestsOK, NEW q \in Requests,
         \/ SaveCredential(q) \/ ProbeModels(q) \/ StoreCredential(q) \/ Select(q)
         \/ SaveLLMSettings(q) \/ ProbeDimensions(q) \/ SaveEmbeddingSettings(q)
         \/ StaleSourceCount(q) \/ Index(q) \/ CallFails(q) \/ Finish(q)
  PROVE  \/ request'[q].pc \in {"idle", "probe", "upsert", "exists", "count", "answered"}
         \/ request'[q].pc = "credential" /\ request'[q].op = "set"
<1> DEFINE r == request[q]
<1>1. r \in RequestState /\ request \in [Requests -> RequestState]
  BY DEF RequestsOK
<1>2. CASE SaveCredential(q)
  <2>1. PICK w \in Workspaces, p \in Named, k \in Keys, u \in Urls :
          \/ Refuse(q, w)
          \/ request' = [request EXCEPT ![q] =
               [Idle EXCEPT !.pc = "probe", !.op = "save", !.ws = w, !.provider = p,
                            !.key = k, !.url = u]]
    BY <1>2 DEF SaveCredential
  <2> DEFINE new == [Idle EXCEPT !.pc = "probe", !.op = "save", !.ws = w, !.provider = p,
                                 !.key = k, !.url = u]
  <2>2. new.pc = "probe"
    BY IdleFacts DEF RequestState
  <2> HIDE DEF new
  <2>3. CASE request' = [request EXCEPT ![q] = new]
    BY <1>1, <2>2, <2>3
  <2> QED
    BY <2>1, <2>3, RefusePc DEF new
<1>3. CASE ProbeModels(q)
  BY <1>3, AnswerPc, GotoPc DEF ProbeModels
<1>4. CASE StoreCredential(q) \/ SaveLLMSettings(q) \/ CallFails(q)
  BY <1>4, AnswerPc DEF StoreCredential, SaveLLMSettings, CallFails
<1>5. CASE Select(q)
  <2>1. PICK w \in Workspaces, o \in Offered :
          \/ Begin(q, "set", o.half, w, o.provider, o.model, "credential")
          \/ Refuse(q, w)
    BY <1>5 DEF Select
  <2> QED
    BY <2>1, BeginPc, RefusePc
<1>6. CASE ProbeDimensions(q)
  <2> DEFINE name == collectionName(r.provider, r.model, Size(r))
             size == Size(r)
             new == [r EXCEPT !.pc = "exists", !.dims = size, !.key = "", !.url = "",
                              !.collection = name]
  <2>1. Answer(q, "unavailable") \/ request' = [request EXCEPT ![q] = new]
    BY <1>6 DEF ProbeDimensions
  <2> HIDE DEF name, size
  <2>2. new.pc = "exists"
    BY <1>1 DEF RequestState
  <2> QED
    BY <1>1, <2>1, <2>2, AnswerPc
<1>7. CASE SaveEmbeddingSettings(q)
  BY <1>7, GotoPc DEF SaveEmbeddingSettings
<1>8. CASE StaleSourceCount(q)
  <2> DEFINE told == StaleSources(r) # {}
             w == r.ws
             new == [Idle EXCEPT !.pc = "answered", !.ws = w, !.reply = "ok",
                                 !.op = "set", !.half = "embedding", !.stale = told]
  <2>1. request'[q] = new
    BY <1>1, <1>8 DEF StaleSourceCount
  <2> HIDE DEF told, w
  <2>2. new.pc = "answered"
    BY IdleFacts DEF RequestState
  <2> QED
    BY <2>1, <2>2
<1>9. CASE Index(q) \/ Finish(q)
  BY <1>1, <1>9, IdleFacts DEF Index, Finish
<1> QED
  BY <1>2, <1>3, <1>4, <1>5, <1>6, <1>7, <1>8, <1>9

\* A resolve begins without a target, and an override never gets one.
LEMMA ResolvePc ==
  ASSUME RequestsOK, NEW q \in Requests, Resolve(q)
  PROVE  \/ request'[q].pc \in {"answered", "settings"}
         \/ request'[q].pc = "credential" /\ request'[q].half = "llm"
<1>1. PICK w \in Workspaces :
        \/ \E o \in Offered : Begin(q, "resolve", "llm", w, o.provider, o.model, "credential")
        \/ Refuse(q, w)
        \/ \E half \in Half : Begin(q, "resolve", half, w, "", "", "settings")
  BY DEF Resolve
<1>2. ASSUME NEW o, Begin(q, "resolve", "llm", w, o.provider, o.model, "credential")
      PROVE  request'[q].pc = "credential" /\ request'[q].half = "llm"
  BY <1>2, BeginPc
<1>3. ASSUME NEW half, Begin(q, "resolve", half, w, "", "", "settings")
      PROVE  request'[q].pc = "settings"
  BY <1>3, BeginPc
<1> QED
  BY <1>1, <1>2, <1>3, RefusePc

\* Who comes to a step with a target had it before, or has it from a row or
\* from the server's default.
LEMMA TargetsStep ==
  ASSUME Settled, NEW q \in Requests, Step(q), Targeted(request'[q])
  PROVE  \/ Targeted(request[q]) /\ request'[q].collection = request[q].collection
         \/ request'[q].collection = DefaultCollection
         \/ \E row \in embedding : request'[q].collection = row.collection
<1> DEFINE r == request[q]
<1>1. /\ RequestsOK /\ TablesOK /\ RequestOK(r) /\ r \in RequestState
      /\ request \in [Requests -> RequestState]
  BY Here DEF Settled, RequestsOK
<1>2. request'[q].pc \in Resolving /\ request'[q].op = "resolve"
      /\ request'[q].half = "embedding"
  BY DEF Targeted
<1>3. ASSUME NEW reply, Answer(q, reply) PROVE FALSE
  BY <1>1, <1>2, <1>3, AnswerPc DEF Resolving
<1>5. ASSUME NEW pc, pc \notin Resolving, Goto(q, pc) PROVE FALSE
  <2>1. request'[q].pc = pc
    BY <1>1, <1>5, GotoPc, Zenon
  <2> QED
    BY <1>2, <1>5, <2>1
<1>9. ASSUME Resolve(q) PROVE FALSE
  BY <1>1, <1>2, <1>9, ResolvePc DEF Resolving
<1>10. CASE GetSettings(q)
  <2> DEFINE rows == Of(IF r.half = "llm" THEN llm ELSE embedding, r.ws)
             row == CHOOSE x \in rows : TRUE
             default == [r EXCEPT !.pc = "credential", !.provider = "ollama",
                           !.model = DefaultModel, !.dims = DefaultSize,
                           !.collection = DefaultCollection]
             chosenLLM == [r EXCEPT !.pc = "credential", !.provider = row.provider,
                             !.model = row.model]
             chosen == [r EXCEPT !.pc = "credential", !.provider = row.provider,
                          !.model = row.model, !.dims = row.dims,
                          !.collection = row.collection]
  <2>1. request'[q] = IF rows = {} THEN default ELSE IF r.half = "llm" THEN chosenLLM ELSE chosen
    BY <1>1, <1>10 DEF GetSettings
  <2>2. rows # {} => row \in rows
    OBVIOUS
  <2> HIDE DEF row
  <2>3. default.collection = DefaultCollection /\ chosenLLM.half = r.half
        /\ chosen.collection = row.collection
    BY <1>1 DEF RequestState
  <2>4. rows # {} /\ r.half # "llm" => row \in embedding
    BY <2>2 DEF Of
  <2> QED
    BY <1>2, <2>1, <2>3, <2>4
<1>11. CASE CredentialFor(q)
  <2> DEFINE pc == AfterCredential(q)
             key == IF Found(q) = {} THEN "" ELSE (CHOOSE c \in Found(q) : TRUE).key
             url == IF Found(q) = {} THEN "" ELSE (CHOOSE c \in Found(q) : TRUE).url
             new == [r EXCEPT !.pc = pc, !.key = key, !.url = url]
  <2>1. request' = [request EXCEPT ![q] = new]
    BY <1>3, <1>5, <1>11 DEF CredentialFor, WithCredential, Resolving
  <2> HIDE DEF pc, key, url
  <2>2. request'[q] = new /\ new.op = r.op /\ new.half = r.half /\ new.collection = r.collection
    BY <1>1, <2>1 DEF RequestState
  <2> QED
    BY <1>2, <1>11, <2>2 DEF CredentialFor, At, Targeted, Resolving
<1>12. ASSUME CollectionExists(q) \/ CreateCollection(q) PROVE FALSE
  BY <1>3, <1>5, <1>12 DEF CollectionExists, CreateCollection, Resolving
<1>15. CASE Load(q) \/ BuildClient(q)
  <2>1. r.pc \in {"load", "build"} /\ r.op = "resolve"
    BY <1>1, <1>15 DEF Load, BuildClient, At, RequestOK
  <2>2. ASSUME NEW c, Hold(q, c)
        PROVE  request'[q].half = r.half /\ request'[q].collection = r.collection
    <3>1. request'[q] = [r EXCEPT !.pc = "held", !.client = c]
      BY <1>1, <2>2 DEF Hold
    <3> QED
      BY <1>1, <3>1 DEF RequestState
  <2>3. request'[q].half = r.half /\ request'[q].collection = r.collection
    BY <1>1, <1>15, <2>2, GotoPc DEF Load, BuildClient
  <2> QED
    BY <1>2, <2>1, <2>3 DEF Targeted, Resolving
<1> QED
  BY <1>1, <1>2, <1>9, <1>10, <1>11, <1>12, <1>15, ElsewherePc DEF Step, Resolving

LEMMA SameNameSameSize ==
  ASSUME TablesOK, NamesOK, NEW c \in collections, NEW d \in collections, c.name = d.name
  PROVE  c = d
<1>1. c \in [name: Collection, size: Nat] /\ d \in [name: Collection, size: Nat]
  BY DEF TablesOK
<1>2. c.size = d.size
  BY DEF NamesOK, Sized
<1>3. c = [name |-> c.name, size |-> c.size] /\ d = [name |-> d.name, size |-> d.size]
  BY <1>1
<1> QED
  BY <1>2, <1>3

\* Collections are only created: who is new is new under its name, and has
\* the size its name says.
LEMMA CollectionsStep ==
  ASSUME Settled, NEW q \in Requests, Step(q)
  PROVE  /\ collections \subseteq collections'
         /\ \A c \in collections' : Sized(c)
         /\ \A c, d \in collections' : c.name = d.name => c = d
<1> DEFINE r == request[q]
<1>1. RequestsOK /\ TablesOK /\ NamesOK /\ RequestOK(r) /\ r \in RequestState
  BY Here DEF Settled
<1>2. ASSUME NEW c \in collections, NEW d \in collections, c.name = d.name PROVE c = d
  BY <1>1, <1>2, SameNameSameSize
<1>3. CASE CreateCollection(q) /\ ~Exists(r.collection)
  <2>1. collections' = collections \cup {[name |-> r.collection, size |-> r.dims]}
    BY <1>3 DEF CreateCollection
  <2>2. /\ r.provider \in Providers /\ r.model \in Models /\ r.dims \in Nat
        /\ r.collection = collectionName(r.provider, r.model, r.dims)
    BY <1>1, <1>3 DEF CreateCollection, At, RequestOK, Selects, RequestState
  <2>5. /\ collectionName(r.provider, r.model, r.dims) # DefaultCollection
        /\ collectionName(r.provider, r.model, r.dims).dims = r.dims
    BY <2>2, ProvidersFact DEF collectionName, DefaultCollection
  <2>3. r.collection # DefaultCollection /\ r.collection.dims = r.dims
    BY <2>2, <2>5
  <2>4. Sized([name |-> r.collection, size |-> r.dims])
    BY <2>3 DEF Sized
  <2> QED
    <3>1. collections \subseteq collections' /\ \A c \in collections' : Sized(c)
      BY <1>1, <2>1, <2>4 DEF NamesOK
    <3>2. \A c \in collections : c.name # r.collection
      BY <1>3 DEF Exists
    <3> DEFINE new == [name |-> r.collection, size |-> r.dims]
    <3>4. collections' = collections \cup {new} /\ new.name = r.collection
      BY <2>1
    <3> HIDE DEF new
    <3>3. \A c, d \in collections' : c.name = d.name => c = d
      BY <1>2, <3>2, <3>4
    <3> QED
      BY <3>1, <3>3
<1>4. CASE UNCHANGED collections
  BY <1>1, <1>2, <1>4 DEF NamesOK, Sized
<1> QED
  BY <1>3, <1>4 DEF Step, SaveCredential, ProbeModels, StoreCredential, Select, Resolve,
     GetSettings, CredentialFor, SaveLLMSettings, ProbeDimensions, CollectionExists,
     CreateCollection, SaveEmbeddingSettings, StaleSourceCount, Load, BuildClient, Index,
     CallFails, Finish, Begin, Refuse, store

LEMMA ExistsGrows ==
  ASSUME NEW name, Exists(name), collections \subseteq collections'
  PROVE  \E c \in collections' : c.name = name
  BY DEF Exists

\* Only SaveEmbeddingSettings writes the settings.
LEMMA EmbeddingStep ==
  ASSUME Settled, NEW q \in Requests, Step(q)
  PROVE  \A row \in embedding' :
           /\ row.collection = collectionName(row.provider, row.model, row.dims)
           /\ Exists(row.collection)
<1> DEFINE r == request[q]
<1>1. RequestsOK /\ NamesOK /\ RequestOK(r) /\ r \in RequestState
  BY Here DEF Settled
<1>2. CASE SaveEmbeddingSettings(q)
  <2> DEFINE new == [ws |-> r.ws, provider |-> r.provider, model |-> r.model,
                     dims |-> r.dims, collection |-> r.collection]
  <2>1. r.pc = "saveEmbedding" /\ embedding' \subseteq embedding \cup {new}
    BY <1>2 DEF SaveEmbeddingSettings, At, Upsert
  <2>2. new.collection = collectionName(new.provider, new.model, new.dims)
    BY <1>1, <2>1 DEF RequestOK
  <2>3. Exists(new.collection)
    BY <1>1, <2>1 DEF NamesOK
  <2> QED
    BY <1>1, <2>1, <2>2, <2>3 DEF NamesOK
<1>3. CASE UNCHANGED embedding
  BY <1>1, <1>3 DEF NamesOK
<1> QED
  BY <1>2, <1>3 DEF Step, SaveCredential, ProbeModels, StoreCredential, Select, Resolve,
     GetSettings, CredentialFor, SaveLLMSettings, ProbeDimensions, CollectionExists,
     CreateCollection, StaleSourceCount, Load, BuildClient, Index,
     CallFails, Finish, Begin, Refuse, store

\* Who comes to write settings saw their collection, or created it.
LEMMA SavingStep ==
  ASSUME Settled, NEW q \in Requests, Step(q), request'[q].pc = "saveEmbedding"
  PROVE  \E c \in collections' : c.name = request'[q].collection
<1> DEFINE r == request[q]
<1>1. RequestsOK /\ r \in RequestState
  BY Here DEF Settled
<1>2. CASE CollectionExists(q)
  <2>1. CASE ~Exists(r.collection)
    <3>1. Goto(q, "create")
      BY <1>2, <2>1 DEF CollectionExists
    <3>2. request'[q].pc = "create"
      BY <1>1, <3>1, GotoPc, Zenon
    <3> QED
      BY <3>2
  <2>2. CASE Exists(r.collection)
    <3>1. Goto(q, "saveEmbedding") /\ UNCHANGED collections
      BY <1>2, <2>2 DEF CollectionExists, store
    <3>2. request'[q].collection = r.collection
      BY <1>1, <3>1, GotoPc, Zenon
    <3> QED
      BY <2>2, <3>1, <3>2 DEF Exists
  <2> QED
    BY <2>1, <2>2
<1>3. CASE CreateCollection(q)
  <2>1. ~Answer(q, "failed")
    BY <1>1, AnswerPc
  <2>2. /\ collections' = collections \cup {[name |-> r.collection, size |-> r.dims]}
        /\ Goto(q, "saveEmbedding")
    BY <1>3, <2>1 DEF CreateCollection
  <2>3. request'[q].collection = r.collection
    BY <1>1, <2>2, GotoPc, Zenon
  <2> DEFINE new == [name |-> r.collection, size |-> r.dims]
  <2>4. new \in collections' /\ new.name = r.collection
    BY <2>2
  <2> QED
    BY <2>3, <2>4
<1>4. ASSUME GetSettings(q) PROVE FALSE
  <2>1. request'[q].pc = "credential"
    BY <1>1, <1>4 DEF GetSettings, RequestsOK, RequestState
  <2> QED
    BY <2>1
<1>5. ASSUME CredentialFor(q) PROVE FALSE
  BY <1>1, <1>5, CredentialPc
<1>6. ASSUME Load(q) \/ BuildClient(q) PROVE FALSE
  <2>1. ASSUME NEW c, Hold(q, c) PROVE FALSE
    <3>1. request'[q] = [r EXCEPT !.pc = "held", !.client = c]
      BY <1>1, <2>1 DEF Hold, RequestsOK
    <3> QED
      BY <1>1, <3>1 DEF RequestState
  <2>2. Goto(q, "build")
    BY <1>6, <2>1 DEF Load, BuildClient
  <2>3. request'[q].pc = "build"
    BY <1>1, <2>2, GotoPc, Zenon
  <2> QED
    BY <2>3
<1> QED
  BY <1>1, <1>2, <1>3, <1>4, <1>5, <1>6, ElsewherePc, ResolvePc DEF Step

LEMMA NamesStep ==
  ASSUME Settled, NEW q \in Requests, Step(q)
  PROVE  NamesOK'
<1>1. RequestsOK /\ TablesOK /\ NamesOK
  BY DEF Settled
<1>2. collections \subseteq collections'
  BY CollectionsStep
<1>3. ASSUME NEW p \in Requests,
             request'[p].pc = "saveEmbedding" \/ Targeted(request'[p])
      PROVE  \E c \in collections' : c.name = request'[p].collection
  <2>1. CASE p # q
    <3>1. request'[p] = request[p]
      BY <1>1, <2>1, OthersStay
    <3>2. Exists(request[p].collection)
      BY <1>1, <1>3, <3>1 DEF NamesOK
    <3> QED
      BY <1>2, <3>1, <3>2, ExistsGrows
  <2>2. CASE p = q /\ request'[q].pc = "saveEmbedding"
    BY <2>2, SavingStep
  <2>3. CASE p = q /\ Targeted(request'[q])
    <3>1. Exists(request'[q].collection)
      BY <1>1, <2>3, TargetsStep DEF NamesOK
    <3> QED
      BY <1>2, <2>3, <3>1, ExistsGrows
  <2> QED
    BY <1>3, <2>1, <2>2, <2>3
<1>4. /\ \E c \in collections' : c.name = DefaultCollection
      /\ \A c \in collections' : Sized(c)
  BY <1>1, <1>2, CollectionsStep, ExistsGrows DEF NamesOK
<1>5. \A row \in embedding' :
        /\ row.collection = collectionName(row.provider, row.model, row.dims)
        /\ \E c \in collections' : c.name = row.collection
  BY <1>2, EmbeddingStep, ExistsGrows
<1> QED
  BY <1>3, <1>4, <1>5 DEF NamesOK, Sized, Exists

-----------------------------------------------------------------------------
(* Settled is an inductive invariant.                                       *)

LEMMA InitSettled == ASSUME Init PROVE Settled
<1>1. RequestOK(Idle)
  BY IdleFacts DEF RequestOK, Targeted, Resolving
<1>2. RequestsOK
  BY <1>1, IdleFacts DEF Init, RequestsOK
<1> DEFINE c == [name |-> DefaultCollection, size |-> DefaultSize]
<1>6. /\ c \in [name: Collection, size: Nat]
      /\ c.name = DefaultCollection /\ c.size = DefaultSize
  BY DEF Collection
<1>7. collections = {c}
  BY DEF Init
<1> HIDE DEF c
<1>3. TablesOK
  BY <1>6, <1>7 DEF Init, TablesOK
<1>4. \A q \in Requests : request[q].pc = "idle"
  BY IdleFacts DEF Init
<1>5. NamesOK
  BY <1>4, <1>6, <1>7 DEF Init, NamesOK, Exists, Sized, Targeted, Resolving
<1> QED
  BY <1>2, <1>3, <1>5 DEF Settled

LEMMA SettledStep == ASSUME Settled, [Next]_vars PROVE Settled'
<1>1. CASE \E q \in Requests : Step(q)
  BY <1>1, RequestsStep, TablesStep, NamesStep DEF Settled
<1>2. CASE \/ \E w \in Workspaces, p \in Named : DeleteCredential(w, p)
           \/ UNCHANGED vars
  <2>1. /\ UNCHANGED <<llm, embedding, collections, clients, request>>
        /\ credentials' \subseteq credentials
    BY <1>2 DEF DeleteCredential, vars, store
  <2>2. RequestsOK'
    BY <2>1 DEF Settled, RequestsOK
  <2>3. TablesOK'
    BY <2>1 DEF Settled, TablesOK
  <2>4. NamesOK'
    BY <2>1 DEF Settled, NamesOK, Exists, Sized
  <2> QED
    BY <2>2, <2>3, <2>4 DEF Settled
<1> QED
  BY <1>1, <1>2 DEF Next

\* Every request knows what its step needs, the tables have their shapes, and
\* what is named exists, whichever requests of whichever workspaces overlap.
THEOREM SettledAlways == Spec => []Settled
<1>1. Init => Settled
  BY InitSettled
<1>2. Settled /\ [Next]_vars => Settled'
  BY SettledStep
<1> QED
  BY <1>1, <1>2, PTL DEF Spec

-----------------------------------------------------------------------------
(* EnsureCollection.                                                        *)

LEMMA NameFields ==
  ASSUME NEW x, x.provider \in Providers,
         x.collection = collectionName(x.provider, x.model, x.dims)
  PROVE  /\ x.collection # DefaultCollection /\ x.collection.dims = x.dims
         /\ x.collection.provider = x.provider /\ x.collection.slug = Slug[x.model]
<1> DEFINE p == x.provider
           s == Slug[x.model]
           d == x.dims
           name == [provider |-> p, slug |-> s, dims |-> d]
<1>1. x.collection = name
  BY DEF collectionName
<1>2. p # ""
  BY ProvidersFact
<1> HIDE DEF p, s, d
<1>3. name.dims = d /\ name.provider = p /\ name.slug = s
  OBVIOUS
<1>4. name # DefaultCollection
  BY <1>2 DEF DefaultCollection
<1> HIDE DEF name
<1> QED
  BY <1>1, <1>3, <1>4 DEF p, s, d

\* Who is named after its own settings fits the collection of that name.
LEMMA NamedFits ==
  ASSUME NamesOK, NEW x, Exists(x.collection), WellNamed(x),
         x.provider \in Providers
  PROVE  Fits(x)
<1>1. PICK c \in collections : c.name = x.collection
  BY DEF Exists
<1>2. Sized(c)
  BY DEF NamesOK
<1>3. CASE x.collection = DefaultCollection /\ x.dims = DefaultSize
  BY <1>1, <1>2, <1>3 DEF Sized, Fits
<1>4. CASE x.collection = collectionName(x.provider, x.model, x.dims)
  <2>1. x.collection # DefaultCollection /\ x.collection.dims = x.dims
    BY <1>4, NameFields
  <2>2. c.size = c.name.dims
    BY <1>1, <1>2, <2>1 DEF Sized
  <2> QED
    BY <1>1, <2>1, <2>2 DEF Fits
<1> QED
  BY <1>3, <1>4 DEF WellNamed

LEMMA SettledFits == ASSUME Settled PROVE SettingsFit
<1>1. RequestsOK /\ TablesOK /\ NamesOK
  BY DEF Settled
<1>2. ASSUME NEW row \in embedding PROVE Fits(row)
  <2>1. row.provider \in Providers
    BY <1>1 DEF TablesOK, EmbeddingSetting
  <2> QED
    BY <1>1, <2>1, NamedFits DEF NamesOK, WellNamed
<1>3. ASSUME NEW q \in Requests, request[q].pc \in {"saveEmbedding", "held"},
             request[q].half = "embedding"
      PROVE  Fits(request[q])
  <2>1. RequestOK(request[q])
    BY <1>1, Here
  <2>2. request[q].provider \in Providers /\ WellNamed(request[q])
    BY <1>3, <2>1 DEF RequestOK, Selects, Targeted, Resolving, WellNamed
  <2>3. Exists(request[q].collection)
    BY <1>1, <1>3, <2>1 DEF NamesOK, RequestOK, Targeted, Resolving
  <2> QED
    BY <1>1, <2>2, <2>3, NamedFits
<1>4. ASSUME NEW c \in collections, NEW d \in collections, c.name = d.name PROVE c = d
  BY <1>1, <1>4, SameNameSameSize
<1> QED
  BY <1>2, <1>3, <1>4 DEF SettingsFit

\* A workspace's settings, and what any run or query holds of them, name a
\* collection that exists and has the settings' vector size; no two
\* collections share a name.  EnsureCollection looks and creates in two calls.
THEOREM SettingsAlwaysFit == Spec => []SettingsFit
<1>1. Settled => SettingsFit
  BY SettledFits
<1> QED
  BY <1>1, SettledAlways, PTL

-----------------------------------------------------------------------------
(* ResolveEmbedder.                                                         *)

\* A target is the server's, or its collection tells its space.
Space(t) ==
  t = IF t.collection = DefaultCollection
      THEN [collection |-> t.collection, dims |-> DefaultSize,
            provider |-> "ollama", slug |-> Slug[DefaultModel]]
      ELSE [collection |-> t.collection, dims |-> t.collection.dims,
            provider |-> t.collection.provider, slug |-> t.collection.slug]

LEMMA NamedSpace ==
  ASSUME NEW x, WellNamed(x), x.provider \in Providers
  PROVE  Space(Target(x, x.provider, x.model))
<1> DEFINE t == Target(x, x.provider, x.model)
<1>0. t.collection = x.collection
  BY DEF Target
<1>1. CASE /\ x.collection = DefaultCollection /\ x.dims = DefaultSize
           /\ x.provider = "ollama" /\ x.model = DefaultModel
  BY <1>0, <1>1 DEF Space, Target
<1>2. CASE x.collection = collectionName(x.provider, x.model, x.dims)
  <2>1. /\ x.collection # DefaultCollection /\ x.collection.dims = x.dims
        /\ x.collection.provider = x.provider /\ x.collection.slug = Slug[x.model]
    BY <1>2, NameFields
  <2>2. t.collection # DefaultCollection
    BY <1>0, <2>1
  <2>3. t = [collection |-> x.collection, dims |-> x.dims, provider |-> x.provider,
             slug |-> Slug[x.model]]
    BY DEF Target
  <2>4. t = [collection |-> t.collection, dims |-> t.collection.dims,
             provider |-> t.collection.provider, slug |-> t.collection.slug]
    BY <1>0, <2>1, <2>3
  <2> QED
    BY <2>2, <2>4 DEF Space
<1> QED
  BY <1>1, <1>2 DEF WellNamed

LEMMA SettledSpaces == ASSUME Settled PROVE OneSpacePerCollection
<1>1. RequestsOK /\ TablesOK /\ NamesOK
  BY DEF Settled
<1>2. ASSUME NEW row \in embedding PROVE Space(Target(row, row.provider, row.model))
  <2>1. row.provider \in Providers
    BY <1>1 DEF TablesOK, EmbeddingSetting
  <2> QED
    BY <1>1, <2>1, NamedSpace DEF NamesOK, WellNamed
<1>3. ASSUME NEW r \in Held PROVE Space(Target(r, r.client.provider, r.client.model))
  <2>1. RequestOK(r) /\ r.pc = "held" /\ r.half = "embedding"
    BY <1>1, Here DEF Held, At
  <2>2. /\ r.provider \in Providers /\ WellNamed(r)
        /\ r.client.provider = r.provider /\ r.client.model = r.model
    BY <2>1 DEF RequestOK, Selects, Targeted, Resolving, HoldsItsOwn
  <2>3. Space(Target(r, r.provider, r.model))
    BY <2>2, NamedSpace
  <2> QED
    BY <2>2, <2>3
<1>4. \A t \in Targets : Space(t)
  BY <1>2, <1>3 DEF Targets
<1> QED
  BY <1>4 DEF OneSpacePerCollection, Space

\* Whatever workspaces choose, no collection ever holds the vectors of two
\* providers, two sizes or two slugs, and a run embeds with a client of the
\* very provider and slug its collection is named after.
THEOREM CollectionsAreOneSpace == Spec => []OneSpacePerCollection
<1>1. Settled => OneSpacePerCollection
  BY SettledSpaces
<1> QED
  BY <1>1, SettledAlways, PTL

-----------------------------------------------------------------------------
(* LoadOrStore.                                                             *)

CacheOK ==
  /\ \A c, d \in clients : clientKey(c) = clientKey(d) => c = d
  /\ \A q \in Requests : request[q].pc = "held" => request[q].client \in clients

\* A client is come by in the cache only.
LEMMA HeldStep ==
  ASSUME Settled, NEW q \in Requests, Step(q), request'[q].pc = "held"
  PROVE  Load(q) \/ BuildClient(q)
<1> DEFINE r == request[q]
<1>1. RequestsOK /\ r \in RequestState
  BY Here DEF Settled
<1>2. ASSUME GetSettings(q) PROVE FALSE
  <2>1. request'[q].pc = "credential"
    BY <1>1, <1>2 DEF GetSettings, RequestsOK, RequestState
  <2> QED
    BY <2>1
<1>3. ASSUME NEW reply, Answer(q, reply) PROVE FALSE
  BY <1>1, <1>3, AnswerPc
<1>4. ASSUME NEW pc, pc # "held", Goto(q, pc) PROVE FALSE
  <2>1. request'[q].pc = pc
    BY <1>1, <1>4, GotoPc, Zenon
  <2> QED
    BY <1>4, <2>1
<1>5. ASSUME CredentialFor(q) PROVE FALSE
  BY <1>1, <1>5, CredentialPc
<1>6. ASSUME CollectionExists(q) \/ CreateCollection(q) PROVE FALSE
  BY <1>3, <1>4, <1>6 DEF CollectionExists, CreateCollection
<1> QED
  BY <1>1, <1>2, <1>5, <1>6, ElsewherePc, ResolvePc DEF Step

LEMMA HoldClient ==
  ASSUME RequestsOK, NEW q \in Requests, NEW c, Hold(q, c)
  PROVE  request'[q].client = c
<1> DEFINE r == request[q]
<1>1. r \in RequestState
  BY DEF RequestsOK
<1>2. request'[q] = [r EXCEPT !.pc = "held", !.client = c]
  BY DEF Hold, RequestsOK
<1> HIDE DEF r
<1>3. [r EXCEPT !.pc = "held", !.client = c].client = c
  BY <1>1 DEF RequestState
<1> QED
  BY <1>2, <1>3

\* Who comes to hold a client holds one of the cache as the step leaves it,
\* and a client in the cache stays there.
LEMMA CacheStep ==
  ASSUME Settled, CacheOK, NEW q \in Requests, Step(q)
  PROVE  CacheOK'
<1>1. RequestsOK /\ TablesOK
  BY DEF Settled
<1>2. CASE BuildClient(q)
  <2> DEFINE c == Actual(q)
  <2>1. /\ clientKey(c) = clientKey(Built(q)) /\ (Cached(q) # {} => c \in Cached(q))
        /\ clients' = (clients \ Cached(q)) \cup {c} /\ Hold(q, c)
    BY <1>1, <1>2, ActualClient DEF BuildClient, At
  <2>2. request'[q].client = c
    BY <1>1, <2>1, HoldClient
  <2> HIDE DEF c
  <2>3. \A d \in Cached(q) : d = c
    BY <2>1 DEF CacheOK, Cached
  <2>4. clients' = clients \cup {c}
    BY <2>1, <2>3
  <2>5. \A d \in clients : clientKey(d) = clientKey(c) => d = c
    BY <2>1, <2>3 DEF Cached
  <2>6. \A d, e \in clients' : clientKey(d) = clientKey(e) => d = e
    BY <2>4, <2>5 DEF CacheOK
  <2>7. \A p \in Requests : request'[p].pc = "held" => request'[p].client \in clients'
    BY <1>1, <2>2, <2>4, OthersStay DEF CacheOK
  <2> QED
    BY <2>6, <2>7 DEF CacheOK, clientKey
<1>3. CASE ~BuildClient(q)
  <2>1. UNCHANGED clients
    BY <1>3 DEF Step, SaveCredential, ProbeModels, StoreCredential, Select, Resolve,
       GetSettings, CredentialFor, SaveLLMSettings, ProbeDimensions, CollectionExists,
       CreateCollection, SaveEmbeddingSettings, StaleSourceCount, Load, Index,
       CallFails, Finish, Begin, Refuse, store
  <2>2. ASSUME request'[q].pc = "held" PROVE request'[q].client \in clients
    <3>1. Load(q)
      BY <1>3, <2>2, HeldStep
    <3>2. ~Goto(q, "build")
      <4>1. ASSUME Goto(q, "build") PROVE request'[q].pc = "build"
        BY <1>1, <4>1, GotoPc, Zenon
      <4> QED
        BY <2>2, <4>1
    <3>3. PICK c \in Cached(q) : Hold(q, c)
      BY <3>1, <3>2 DEF Load
    <3>5. request'[q].client = c
      BY <1>1, <3>3, HoldClient
    <3> QED
      BY <3>3, <3>5 DEF Cached
  <2>3. \A p \in Requests : request'[p].pc = "held" => request'[p].client \in clients
    BY <1>1, <2>2, OthersStay DEF CacheOK
  <2> QED
    BY <2>1, <2>3 DEF CacheOK, clientKey
<1> QED
  BY <1>2, <1>3

\* Two holders of a client of one half, provider, model, URL and key hold the
\* same one, also when both looked before either had stored it.
THEOREM ClientsAreShared == Spec => []OneClientPerKey
<1>1. Init => CacheOK
  BY IdleFacts DEF Init, CacheOK
<1>2. Settled /\ CacheOK /\ [Next]_vars => CacheOK'
  <2> SUFFICES ASSUME Settled, CacheOK, [Next]_vars PROVE CacheOK'
    OBVIOUS
  <2>1. CASE \E q \in Requests : Step(q)
    BY <2>1, CacheStep
  <2>2. CASE \/ \E w \in Workspaces, p \in Named : DeleteCredential(w, p)
             \/ UNCHANGED vars
    <3>1. UNCHANGED <<clients, request>>
      BY <2>2 DEF DeleteCredential, vars, store
    <3> QED
      BY <3>1 DEF CacheOK, clientKey
  <2> QED
    BY <2>1, <2>2 DEF Next
<1>3. CacheOK => OneClientPerKey
  BY DEF CacheOK, OneClientPerKey, At
<1> QED
  BY <1>1, <1>2, <1>3, SettledAlways, PTL DEF Spec

-----------------------------------------------------------------------------
(* Keys that are rotated or deleted while a client is resolved.             *)

Seeks(r) == r.pc \in {"settings", "credential"} /\ r.op = "resolve"
Has(r) == r.pc \in {"load", "build", "held"} /\ TakesKey(r.provider)
Knows(r, s) == \E c \in s : c.provider = r.provider /\ c.key = r.key /\ c.url = r.url

SeenOf(q) ==
  /\ Seeks(request[q]) => Of(credentials, request[q].ws) \subseteq seen[q]
  /\ Has(request[q]) => Knows(request[q], seen[q])
SeenOK == /\ seen = [q \in Requests |-> seen[q]]
          /\ \A q \in Requests : SeenOf(q)

LEMMA HoldPc ==
  ASSUME RequestsOK, NEW q \in Requests, NEW c, Hold(q, c)
  PROVE  /\ request'[q].pc = "held" /\ request'[q].provider = request[q].provider
         /\ request'[q].key = request[q].key /\ request'[q].url = request[q].url
<1> DEFINE r == request[q]
           new == [r EXCEPT !.pc = "held", !.client = c]
<1>1. r \in RequestState
  BY DEF RequestsOK
<1>2. request'[q] = new
  BY DEF Hold, RequestsOK
<1> HIDE DEF r
<1>3. new.pc = "held" /\ new.provider = r.provider /\ new.key = r.key /\ new.url = r.url
  BY <1>1 DEF RequestState
<1> HIDE DEF new
<1> QED
  BY <1>2, <1>3 DEF r

LEMMA GotoKeepsKey ==
  ASSUME RequestsOK, NEW q \in Requests, NEW pc, Goto(q, pc)
  PROVE  /\ request'[q].provider = request[q].provider
         /\ request'[q].key = request[q].key /\ request'[q].url = request[q].url
<1>1. request[q] \in RequestState /\ request'[q] = [request[q] EXCEPT !.pc = pc]
  BY DEF RequestsOK, Goto
<1> QED
  BY <1>1 DEF RequestState

\* credentialFor takes a credential that is there, if the provider needs one.
LEMMA CredentialSeen ==
  ASSUME Settled, SeenOK, NEW q \in Requests, CredentialFor(q), Has(request'[q])
  PROVE  Knows(request'[q], seen[q])
<1> DEFINE r == request[q]
           pc == AfterCredential(q)
           chosen == CHOOSE c \in Found(q) : TRUE
           key == IF Found(q) = {} THEN "" ELSE chosen.key
           url == IF Found(q) = {} THEN "" ELSE chosen.url
           new == [r EXCEPT !.pc = pc, !.key = key, !.url = url]
<1>1. RequestsOK /\ RequestOK(r) /\ r \in RequestState /\ r.pc = "credential"
  BY Here DEF Settled, CredentialFor, At
<1>2. ~Answer(q, "bad")
  BY <1>1, AnswerPc DEF Has
<1>3. ~Goto(q, "saveLLM")
  <2>1. ASSUME Goto(q, "saveLLM") PROVE request'[q].pc = "saveLLM"
    BY <1>1, <2>1, GotoPc, Zenon
  <2> QED
    BY <2>1 DEF Has
<1>4. Usable(q) /\ request' = [request EXCEPT ![q] = new]
  BY <1>2, <1>3 DEF CredentialFor, WithCredential
<1>5. Found(q) # {} => chosen \in Found(q)
  OBVIOUS
<1>6. pc = "load" => r.op = "resolve"
  BY DEF AfterCredential
<1>7. pc \in {"load", "saveLLM", "dims"}
  BY DEF AfterCredential
<1> HIDE DEF pc, key, url, chosen
<1>8. /\ request'[q] = new /\ new.pc = pc /\ new.key = key /\ new.url = url
      /\ new.provider = r.provider
  BY <1>1, <1>4 DEF RequestsOK, RequestState
<1> HIDE DEF new
<1>9. r.op = "resolve" /\ TakesKey(r.provider)
  BY <1>6, <1>7, <1>8 DEF Has
<1>10. Found(q) # {}
  BY <1>4, <1>9 DEF Usable, TakesKey
<1>11. chosen \in Of(credentials, r.ws) /\ chosen.provider = r.provider
  BY <1>5, <1>10 DEF Found, SameKey, Of
<1>12. Of(credentials, r.ws) \subseteq seen[q]
  BY <1>1, <1>9 DEF SeenOK, SeenOf, Seeks
<1> QED
  BY <1>8, <1>10, <1>11, <1>12 DEF Knows, key, url

LEMMA SeenHere ==
  ASSUME Settled, SeenOK, NEW q \in Requests, Step(q), ~StoreCredential(q)
  PROVE  SeenOf(q)'
<1> DEFINE r == request[q]
<1>1. RequestsOK /\ RequestOK(r) /\ r \in RequestState
  BY Here DEF Settled
<1>2. CASE Resolve(q)
  <2>1. PICK w \in Workspaces :
          \/ \E o \in Offered : Begin(q, "resolve", "llm", w, o.provider, o.model, "credential")
          \/ Refuse(q, w)
          \/ \E half \in Half : Begin(q, "resolve", half, w, "", "", "settings")
    BY <1>2 DEF Resolve
  <2>2. CASE Refuse(q, w)
    BY <1>1, <2>2, RefusePc DEF SeenOf, Seeks, Has
  <2>3. ASSUME NEW half, NEW p, NEW m, NEW pc \in {"credential", "settings"},
               Begin(q, "resolve", half, w, p, m, pc)
        PROVE  SeenOf(q)'
    <3> DEFINE new == [Idle EXCEPT !.pc = pc, !.op = "resolve", !.half = half, !.ws = w,
                                   !.provider = p, !.model = m]
    <3>1. new.pc = pc /\ new.ws = w
      BY IdleFacts DEF RequestState
    <3>2. request'[q] = new
      BY <1>1, <2>3 DEF RequestsOK, Begin
    <3> HIDE DEF new
    <3>3. seen'[q] = Of(credentials, w) /\ UNCHANGED credentials
      BY <2>3 DEF Begin, Noted, SeenOK, store
    <3> QED
      BY <3>1, <3>2, <3>3 DEF SeenOf, Seeks, Has, Of
  <2> QED
    BY <2>1, <2>2, <2>3
<1>3. CASE GetSettings(q)
  <2>1. r.pc = "settings" /\ r.op = "resolve" /\ UNCHANGED <<credentials, seen>>
    BY <1>1, <1>3 DEF GetSettings, At, RequestOK, store
  <2>2. request'[q].pc = "credential" /\ request'[q].ws = r.ws
    BY <1>1, <1>3 DEF GetSettings, RequestsOK, RequestState
  <2>3. Of(credentials, r.ws) \subseteq seen[q]
    BY <2>1 DEF SeenOK, SeenOf, Seeks
  <2> QED
    BY <2>1, <2>2, <2>3 DEF SeenOf, Seeks, Has, Of
<1>4. CASE CredentialFor(q)
  <2>1. request'[q].pc \notin {"settings", "credential"}
    BY <1>1, <1>4, CredentialPc
  <2>2. UNCHANGED seen
    BY <1>4 DEF CredentialFor
  <2>3. Has(request'[q]) => Knows(request'[q], seen[q])
    BY <1>4, CredentialSeen
  <2> QED
    BY <2>1, <2>2, <2>3 DEF SeenOf, Seeks, Has, Knows
<1>5. CASE Load(q) \/ BuildClient(q)
  <2>1. r.pc \in {"load", "build"} /\ UNCHANGED seen
    BY <1>5 DEF Load, BuildClient, At
  <2>2. \/ Goto(q, "build")
        \/ \E c : Hold(q, c)
    BY <1>5 DEF Load, BuildClient
  <2>3. /\ request'[q].pc \in {"build", "held"} /\ request'[q].provider = r.provider
        /\ request'[q].key = r.key /\ request'[q].url = r.url
    <3>1. CASE Goto(q, "build")
      BY <1>1, <3>1, GotoPc, GotoKeepsKey, Zenon
    <3>2. CASE \E c : Hold(q, c)
      BY <1>1, <3>2, HoldPc
    <3> QED
      BY <2>2, <3>1, <3>2
  <2>4. TakesKey(r.provider) => Knows(r, seen[q])
    BY <2>1 DEF SeenOK, SeenOf, Has
  <2> QED
    BY <2>1, <2>3, <2>4 DEF SeenOf, Seeks, Has, Knows, TakesKey
<1>6. CASE CollectionExists(q) \/ CreateCollection(q)
  <2>1. \/ Answer(q, "failed") \/ Goto(q, "saveEmbedding") \/ Goto(q, "create")
    BY <1>6 DEF CollectionExists, CreateCollection
  <2>2. request'[q].pc \in {"answered", "saveEmbedding", "create"}
    <3>1. CASE Answer(q, "failed")
      BY <1>1, <3>1, AnswerPc
    <3>2. CASE Goto(q, "saveEmbedding")
      BY <1>1, <3>2, GotoPc, Zenon
    <3>3. CASE Goto(q, "create")
      BY <1>1, <3>3, GotoPc, Zenon
    <3> QED
      BY <2>1, <3>1, <3>2, <3>3
  <2> QED
    BY <2>2 DEF SeenOf, Seeks, Has
<1>7. CASE \/ SaveCredential(q) \/ ProbeModels(q) \/ Select(q)
           \/ SaveLLMSettings(q) \/ ProbeDimensions(q) \/ SaveEmbeddingSettings(q)
           \/ StaleSourceCount(q) \/ Index(q) \/ CallFails(q) \/ Finish(q)
  BY <1>1, <1>7, ElsewherePc DEF SeenOf, Seeks, Has
<1> QED
  BY <1>2, <1>3, <1>4, <1>5, <1>6, <1>7 DEF Step

\* The others' requests are as they were; what they have seen only grows,
\* with every credential that is stored for their workspace.
LEMMA SeenStep ==
  ASSUME Settled, SeenOK, NEW q \in Requests, Step(q)
  PROVE  SeenOK'
<1>1. RequestsOK
  BY DEF Settled
<1>2. CASE StoreCredential(q)
  <2>1. seen' = [p \in Requests |-> IF request[p].op = "resolve"
                  THEN seen[p] \cup Of(credentials', request[p].ws) ELSE {}]
    BY <1>2 DEF StoreCredential, Notice
  <2>2. ASSUME NEW p \in Requests, p # q PROVE SeenOf(p)'
    <3>1. request'[p] = request[p]
      BY <1>1, <2>2, OthersStay
    <3>2. request[p].op = "resolve" =>
            seen'[p] = seen[p] \cup Of(credentials', request[p].ws)
      BY <2>1
    <3>3. Seeks(request[p]) \/ Has(request[p]) => request[p].op = "resolve"
      BY <1>1, Here DEF Seeks, Has, RequestOK
    <3>4. Seeks(request[p]) => Of(credentials', request[p].ws) \subseteq seen'[p]
      BY <3>2, <3>3
    <3>5. Has(request[p]) => Knows(request[p], seen'[p])
      BY <3>2, <3>3 DEF SeenOK, SeenOf, Knows
    <3> QED
      BY <3>1, <3>4, <3>5 DEF SeenOf, Seeks, Has, Knows, Of
  <2>3. SeenOf(q)'
    <3>1. request'[q].pc = "answered"
      BY <1>1, <1>2, AnswerPc DEF StoreCredential
    <3> QED
      BY <3>1 DEF SeenOf, Seeks, Has
  <2>4. seen' = [p \in Requests |-> seen'[p]]
    BY <2>1
  <2> QED
    BY <2>2, <2>3, <2>4 DEF SeenOK
<1>3. CASE ~StoreCredential(q)
  <2>1. /\ UNCHANGED credentials
        /\ \/ UNCHANGED seen
           \/ \E s : seen' = [seen EXCEPT ![q] = s]
    BY <1>3 DEF Step, SaveCredential, ProbeModels, Select, Resolve,
       GetSettings, CredentialFor, SaveLLMSettings, ProbeDimensions, CollectionExists,
       CreateCollection, SaveEmbeddingSettings, StaleSourceCount, Load, BuildClient, Index,
       CallFails, Finish, Begin, Noted, Refuse, store
  <2>2. /\ seen' = [p \in Requests |-> seen'[p]]
        /\ \A p \in Requests \ {q} : seen'[p] = seen[p]
    BY <2>1 DEF SeenOK
  <2>3. ASSUME NEW p \in Requests, p # q PROVE SeenOf(p)'
    <3>1. request'[p] = request[p] /\ seen'[p] = seen[p]
      BY <1>1, <2>2, <2>3, OthersStay
    <3>2. SeenOf(p)
      BY DEF SeenOK
    <3> QED
      BY <2>1, <3>1, <3>2 DEF SeenOf, Seeks, Has, Knows, Of
  <2> QED
    BY <1>3, <2>2, <2>3, SeenHere DEF SeenOK
<1> QED
  BY <1>2, <1>3

\* Whoever holds a client of a provider that needs a key holds it by a key and
\* a URL that the workspace had at some moment of the same request: neither
\* cache serves a key that was rotated or deleted before.
THEOREM ClientsAreCurrent == Spec => []ClientIsCurrent
<1>1. Init => SeenOK
  BY IdleFacts DEF Init, SeenOK, SeenOf, Seeks, Has
<1>2. Settled /\ SeenOK /\ [Next]_vars => SeenOK'
  <2> SUFFICES ASSUME Settled, SeenOK, [Next]_vars PROVE SeenOK'
    OBVIOUS
  <2>1. CASE \E q \in Requests : Step(q)
    BY <2>1, SeenStep
  <2>2. CASE \/ \E w \in Workspaces, p \in Named : DeleteCredential(w, p)
             \/ UNCHANGED vars
    <3>1. UNCHANGED <<request, seen>> /\ credentials' \subseteq credentials
      BY <2>2 DEF DeleteCredential, vars, store
    <3>2. \A q \in Requests : SeenOf(q)'
      BY <3>1 DEF SeenOK, SeenOf, Seeks, Has, Knows, Of
    <3> QED
      BY <3>1, <3>2 DEF SeenOK
  <2> QED
    BY <2>1, <2>2 DEF Next
<1>3. Settled /\ SeenOK => ClientIsCurrent
  <2> SUFFICES ASSUME Settled, SeenOK, NEW q \in Requests, request[q].pc = "held",
                      Catalog[request[q].provider].requiresAPIKey
               PROVE  \E c \in seen[q] :
                        /\ c.provider = request[q].client.provider
                        /\ c.key = request[q].client.key
                        /\ c.url = request[q].client.url
    BY DEF ClientIsCurrent, At
  <2>1. /\ HoldsItsOwn(request[q]) /\ request[q].provider \in Providers
    BY Here DEF Settled, RequestOK, Selects
  <2>2. Knows(request[q], seen[q])
    BY <2>1 DEF SeenOK, SeenOf, Has, TakesKey
  <2> QED
    BY <2>1, <2>2 DEF Knows, HoldsItsOwn
<1> QED
  BY <1>1, <1>2, <1>3, SettledAlways, PTL DEF Spec
=============================================================================
