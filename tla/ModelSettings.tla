--------------------------- MODULE ModelSettings ---------------------------
(***************************************************************************)
(* Package modelconfig: the keys a workspace saves per provider, the       *)
(* models it selects, the Qdrant collection each embedding model gets and  *)
(* the clients the resolvers build from all of this and cache.  Requests   *)
(* of one workspace overlap, and each reads the rows it needs one by one.  *)
(***************************************************************************)
EXTENDS Naturals, FiniteSets

CONSTANTS
  Workspaces,    \* workspaces that share the server's collections
  Requests,      \* slots for the requests and runs under way at one time
  Models,        \* model names
  Offered,       \* selections that requests carry, of known providers or not
  Slug,          \* what collectionName makes of a model's name
  Keys,          \* API keys
  Urls,          \* base URLs
  Accepted,      \* <<provider, key, url>>: where listing the models works
  Dims,          \* Dims[url][model]: size of its vectors, 0 if it embeds nothing
  DefaultUrl,    \* the catalog's BaseURL of a provider
  DefaultModel,  \* OLLAMA_EMBEDDING_MODEL and OLLAMA_COMPLETION_MODEL
  DefaultSize,   \* QDRANT_VECTOR_SIZE
  OllamaEnabled, \* OLLAMA_URL is set
  MaxRequests    \* bound: requests and runs that begin

ASSUME ModelSettingsAssumption ==
  /\ Offered \subseteq [half: {"llm", "embedding"}, provider: STRING, model: Models]
  /\ Slug \in [Models -> STRING]
  /\ DefaultUrl \in Urls /\ DefaultModel \in Models
  /\ DefaultSize \in Nat \ {0}
  /\ Dims \in [Urls -> [Models -> Nat]]
  /\ "" \notin Keys \cup Urls \cup Models
  /\ OllamaEnabled \in BOOLEAN /\ MaxRequests \in Nat

Entry(key, completions, embeddings, kind) ==
  [requiresAPIKey |-> key, supportsCompletions |-> completions,
   supportsEmbeddings |-> embeddings, kind |-> kind]

Catalog ==
  [ollama     |-> Entry(FALSE, TRUE, TRUE, "ollama"),
   gemini     |-> Entry(TRUE, TRUE, TRUE, "openaicompat"),
   groq       |-> Entry(TRUE, TRUE, FALSE, "openaicompat"),
   openrouter |-> Entry(TRUE, TRUE, FALSE, "openaicompat"),
   github     |-> Entry(TRUE, TRUE, FALSE, "openaicompat"),
   anthropic  |-> Entry(TRUE, TRUE, FALSE, "anthropic"),
   openai     |-> Entry(TRUE, TRUE, TRUE, "openaicompat")]

Providers == DOMAIN Catalog

\* Two names may share a slug, and the base URL is no part of the name.
\* Mutant: the name without the dimension.
CollectionWithoutDims(provider, model, dims) ==
  [provider |-> provider, slug |-> Slug[model], dims |-> 0]
\* Mutant: the name without the provider, as if all were one.
CollectionOfModel(provider, model, dims) ==
  [provider |-> "openai", slug |-> Slug[model], dims |-> dims]
collectionName(provider, model, dims) ==
  [provider |-> provider, slug |-> Slug[model], dims |-> dims]

\* QDRANT_COLLECTION_NAME, which no workspace's collection is called.
DefaultCollection == [provider |-> "", slug |-> "", dims |-> 0]

Collection == {DefaultCollection} \cup
              [provider: Providers, slug: {Slug[m] : m \in Models}, dims: Nat]

VARIABLES
  credentials,  \* provider_credential
  llm,          \* workspace_model_settings, its completion half
  embedding,    \* workspace_model_settings, its embedding half
  collections,  \* Qdrant's collections with their vector size
  clients,      \* the resolver's two caches: clients by clientKey
  indexed,      \* what the workspace's source was last embedded with
  request,      \* the requests and runs
  begun,        \* how many there have been
  seen          \* history: the credentials its workspace had during a request

store == <<credentials, llm, embedding, collections, clients, indexed>>
vars == <<store, request, begun, seen>>

Credential == [ws: Workspaces, provider: Providers, key: Keys, url: Urls]
LLMSetting == [ws: Workspaces, provider: Providers, model: Models]
EmbeddingSetting == [ws: Workspaces, provider: Providers, model: Models,
                     dims: Nat, collection: Collection]
Of(table, w) == {row \in table : row.ws = w}

\* The upsert of a table whose primary key is the workspace.
Upsert(table, row) == (table \ Of(table, row.ws)) \cup {row}

\* A client works with the credential it was built with; `by` tells apart
\* the clients built of the same one.
Client == [half: {"llm", "embedding"}, provider: Providers, model: Models,
           url: Urls \cup {""}, key: Keys \cup {""}, by: Requests]
NoClient == [half |-> "llm", provider |-> "", model |-> "", url |-> "", key |-> "",
             by |-> ""]

Pc == {"idle", "probe", "upsert", "credential", "dims", "exists", "create",
       "saveLLM", "saveEmbedding", "count", "settings", "load", "build", "held",
       "answered"}
Half == {"llm", "embedding"}
Op == {"none", "save", "set", "resolve"}

Idle == [pc |-> "idle", op |-> "none", half |-> "llm", ws |-> "", provider |-> "",
         model |-> "", key |-> "", url |-> "", dims |-> 0,
         collection |-> DefaultCollection, client |-> NoClient, reply |-> "none",
         stale |-> FALSE]

Init ==
  /\ credentials = {} /\ llm = {} /\ embedding = {}
  /\ collections = {[name |-> DefaultCollection, size |-> DefaultSize]}
  /\ clients = {}
  /\ indexed = {}
  /\ request = [q \in Requests |-> Idle] /\ begun = 0
  /\ seen = [q \in Requests |-> {}]

-----------------------------------------------------------------------------
At(q, pc) == request[q].pc = pc
Goto(q, pc) == request' = [request EXCEPT ![q].pc = pc]
Answer(q, reply) ==
  request' = [request EXCEPT ![q] =
    [Idle EXCEPT !.pc = "answered", !.ws = request[q].ws, !.reply = reply]]

\* What the requests that resolve a client could have found so far.
Noted(q, op, w) ==
  seen' = [seen EXCEPT ![q] = IF op = "resolve" THEN Of(credentials, w) ELSE {}]
Notice == seen' = [q \in Requests |-> IF request[q].op = "resolve"
                     THEN seen[q] \cup Of(credentials', request[q].ws) ELSE {}]

\* A handler starts: the path, the body and the membership are in order.
Arrive(q) == At(q, "idle") /\ begun < MaxRequests /\ begun' = begun + 1

Begin(q, op, half, w, provider, model, pc) ==
  /\ Arrive(q)
  /\ request' = [request EXCEPT ![q] =
       [Idle EXCEPT !.pc = pc, !.op = op, !.half = half, !.ws = w,
                    !.provider = provider, !.model = model]]
  /\ Noted(q, op, w)
  /\ UNCHANGED store

Refuse(q, w) ==
  /\ Arrive(q)
  /\ request' = [request EXCEPT ![q] =
       [Idle EXCEPT !.pc = "answered", !.ws = w, !.reply = "bad"]]
  /\ UNCHANGED <<store, seen>>

\* A call to Postgres, Qdrant or a provider fails, or the client is gone.
CallFails(q) ==
  /\ request[q].pc \notin {"idle", "held", "answered"}
  /\ Answer(q, IF request[q].pc \in {"probe", "dims"} THEN "unavailable" ELSE "failed")
  /\ UNCHANGED <<store, begun, seen>>

\* The handler returns, or the caller is done with its client.
Finish(q) ==
  /\ request[q].pc \in {"answered", "held"}
  /\ request' = [request EXCEPT ![q] = Idle]
  /\ seen' = [seen EXCEPT ![q] = {}]
  /\ UNCHANGED <<store, begun>>

-----------------------------------------------------------------------------
(* SaveCredential and DeleteCredential. *)

Named == {o.provider : o \in Offered}
TakesKey(p) == p \in Providers /\ Catalog[p].requiresAPIKey

SaveCredential(q) ==
  \E w \in Workspaces, p \in Named, k \in Keys, u \in Urls :
    \/ ~TakesKey(p) /\ Refuse(q, w)
    \/ /\ TakesKey(p)
       /\ Arrive(q)
       /\ request' = [request EXCEPT ![q] =
            [Idle EXCEPT !.pc = "probe", !.op = "save", !.ws = w, !.provider = p,
                         !.key = k, !.url = u]]
       /\ UNCHANGED <<store, seen>>

ProviderAccepts(q) ==
  <<request[q].provider, request[q].key, request[q].url>> \in Accepted

ProbeModels(q) ==
  /\ At(q, "probe")
  /\ IF ProviderAccepts(q) THEN Goto(q, "upsert") ELSE Answer(q, "unavailable")
  /\ UNCHANGED <<store, begun, seen>>

SameKey(c, w, p) == c.ws = w /\ c.provider = p

Conflicting(r) == {c \in credentials : SameKey(c, r.ws, r.provider)}

StoreCredential(q) ==
  /\ At(q, "upsert")
  /\ LET r == request[q]
     IN credentials' = (credentials \ Conflicting(r)) \cup
          {[ws |-> r.ws, provider |-> r.provider, key |-> r.key, url |-> r.url]}
  /\ Answer(q, "ok")
  /\ Notice
  /\ UNCHANGED <<llm, embedding, collections, clients, indexed, begun>>

\* One statement; deleting a key that is not there is no error.
DeleteCredential(w, p) ==
  /\ credentials' = {c \in credentials : ~SameKey(c, w, p)}
  /\ UNCHANGED <<llm, embedding, collections, clients, indexed, request, begun, seen>>

-----------------------------------------------------------------------------
(* credentialFor, which every selection goes through. *)

Found(q) == {c \in credentials : SameKey(c, request[q].ws, request[q].provider)}

Usable(q) ==
  IF Catalog[request[q].provider].requiresAPIKey THEN Found(q) # {}
  ELSE OllamaEnabled

WithCredential(q, pc) ==
  request' = [request EXCEPT ![q].pc = pc,
    ![q].key = IF Found(q) = {} THEN "" ELSE (CHOOSE c \in Found(q) : TRUE).key,
    ![q].url = IF Found(q) = {} THEN "" ELSE (CHOOSE c \in Found(q) : TRUE).url]

AfterCredential(q) ==
  CASE request[q].op = "resolve" -> "load"
    [] request[q].op = "set" /\ request[q].half = "llm" -> "saveLLM"
    [] OTHER -> "dims"

CredentialFor(q) ==
  /\ At(q, "credential")
  /\ IF ~Usable(q) THEN Answer(q, "bad")
     ELSE IF AfterCredential(q) = "saveLLM" THEN Goto(q, "saveLLM")
     ELSE WithCredential(q, AfterCredential(q))
  /\ UNCHANGED <<store, begun, seen>>

-----------------------------------------------------------------------------
(* SetLLM and SetEmbedding. *)

Serves(p, half) ==
  /\ p \in Providers
  /\ IF half = "llm" THEN Catalog[p].supportsCompletions
     ELSE Catalog[p].supportsEmbeddings

Select(q) ==
  \E w \in Workspaces, o \in Offered :
    IF Serves(o.provider, o.half)
    THEN Begin(q, "set", o.half, w, o.provider, o.model, "credential")
    ELSE Refuse(q, w)

SaveLLMSettings(q) ==
  /\ At(q, "saveLLM")
  /\ LET r == request[q]
     IN llm' = Upsert(llm, [ws |-> r.ws, provider |-> r.provider, model |-> r.model])
  /\ Answer(q, "ok")
  /\ UNCHANGED <<credentials, embedding, collections, clients, indexed, begun, seen>>

\* The vectors that a client of this key and URL returns.
Size(r) == Dims[IF r.url = "" THEN DefaultUrl ELSE r.url][r.model]

ProbeDimensions(q) ==
  /\ At(q, "dims")
  /\ LET r == request[q] IN
       IF Size(r) = 0 THEN Answer(q, "unavailable")
       ELSE request' = [request EXCEPT ![q].pc = "exists", ![q].dims = Size(r),
              ![q].key = "", ![q].url = "", ![q].collection = collectionName(r.provider, r.model, Size(r))]
  /\ UNCHANGED <<store, begun, seen>>

Exists(name) == \E c \in collections : c.name = name

\* EnsureCollection looks first and creates later.
CollectionExists(q) ==
  /\ At(q, "exists")
  /\ Goto(q, IF Exists(request[q].collection) THEN "saveEmbedding" ELSE "create")
  /\ UNCHANGED <<store, begun, seen>>

\* Qdrant refuses to create a collection twice.
CreateCollection(q) ==
  /\ At(q, "create")
  /\ \/ /\ ~Exists(request[q].collection)
        /\ collections' = collections \cup
             {[name |-> request[q].collection, size |-> request[q].dims]}
        /\ Goto(q, "saveEmbedding")
     \/ /\ Exists(request[q].collection)
        /\ Answer(q, "failed")
        /\ UNCHANGED collections
  /\ UNCHANGED <<credentials, llm, embedding, clients, indexed, begun, seen>>

SaveEmbeddingSettings(q) ==
  /\ At(q, "saveEmbedding")
  /\ LET r == request[q]
     IN embedding' = Upsert(embedding,
          [ws |-> r.ws, provider |-> r.provider, model |-> r.model,
           dims |-> r.dims, collection |-> r.collection])
  /\ Goto(q, "count")
  /\ UNCHANGED <<credentials, llm, collections, clients, indexed, begun, seen>>

StaleSources(r) == {s \in Of(indexed, r.ws) : s.model # r.model}

StaleSourceCount(q) ==
  /\ At(q, "count")
  /\ request' = [request EXCEPT ![q] =
       [Idle EXCEPT !.pc = "answered", !.ws = request[q].ws, !.reply = "ok",
                    !.op = "set", !.half = "embedding",
                    !.stale = StaleSources(request[q]) # {}]]
  /\ UNCHANGED <<store, begun, seen>>

-----------------------------------------------------------------------------
(* ResolveLLM and ResolveEmbedder, for a query or for an indexing run. *)

\* The chat composer's override selects by itself; else the settings do.
Resolve(q) ==
  \E w \in Workspaces :
    \/ \E o \in {x \in Offered : x.half = "llm"} :
         IF o.provider \in Providers
         THEN Begin(q, "resolve", "llm", w, o.provider, o.model, "credential")
         ELSE Refuse(q, w)
    \/ \E half \in Half : Begin(q, "resolve", half, w, "", "", "settings")

\* HasLLM, HasEmbedding; without either, the server's Ollama.
GetSettings(q) ==
  /\ At(q, "settings")
  /\ LET r == request[q]
         rows == Of(IF r.half = "llm" THEN llm ELSE embedding, r.ws)
         row == CHOOSE x \in rows : TRUE
     IN request' = [request EXCEPT ![q] =
          IF rows = {} THEN
            [r EXCEPT !.pc = "credential", !.provider = "ollama",
              !.model = DefaultModel, !.dims = DefaultSize,
              !.collection = DefaultCollection]
          ELSE IF r.half = "llm" THEN
            [r EXCEPT !.pc = "credential", !.provider = row.provider,
              !.model = row.model]
          ELSE
            [r EXCEPT !.pc = "credential", !.provider = row.provider,
              !.model = row.model, !.dims = row.dims,
              !.collection = row.collection]]
  /\ UNCHANGED <<store, begun, seen>>

\* Mutant: the cache's key leaves the API key out.
clientKeyOfUrl(c) == <<c.half, c.provider, c.model, c.url, "">>
clientKey(c) == <<c.half, c.provider, c.model, c.url, c.key>>

Built(q) ==
  LET r == request[q] IN [half |-> r.half, provider |-> r.provider,
    model |-> r.model, url |-> r.url, key |-> r.key, by |-> q]
Cached(q) == {c \in clients : clientKey(c) = clientKey(Built(q))}

Hold(q, client) ==
  request' = [request EXCEPT ![q].pc = "held", ![q].client = client]

Load(q) ==
  /\ At(q, "load")
  /\ IF Cached(q) = {} THEN Goto(q, "build") ELSE \E c \in Cached(q) : Hold(q, c)
  /\ UNCHANGED <<store, begun, seen>>

\* Mutant: Store instead of LoadOrStore.
Latest(q) == Built(q)
Actual(q) == IF Cached(q) = {} THEN Built(q) ELSE CHOOSE c \in Cached(q) : TRUE

\* llm.New or embedding.New, then LoadOrStore: another request may have put
\* its client there since this one looked.
BuildClient(q) ==
  /\ At(q, "build")
  /\ Hold(q, Actual(q))
  /\ clients' = (clients \ Cached(q)) \cup {Actual(q)}
  /\ UNCHANGED <<credentials, llm, embedding, collections, indexed, begun, seen>>

\* A run that resolved before embeds the workspace's source: its chunks name
\* the model, its vectors are in the target's collection.
Index(q) ==
  /\ At(q, "held") /\ request[q].half = "embedding"
  /\ LET r == request[q]
     IN indexed' = Upsert(indexed, [ws |-> r.ws, model |-> r.model,
                                    collection |-> r.collection])
  /\ request' = [request EXCEPT ![q] = Idle]
  /\ seen' = [seen EXCEPT ![q] = {}]
  /\ UNCHANGED <<credentials, llm, embedding, collections, clients, begun>>

-----------------------------------------------------------------------------
Step(q) ==
  \/ SaveCredential(q) \/ ProbeModels(q) \/ StoreCredential(q)
  \/ Select(q) \/ Resolve(q) \/ GetSettings(q) \/ CredentialFor(q)
  \/ SaveLLMSettings(q)
  \/ ProbeDimensions(q) \/ CollectionExists(q) \/ CreateCollection(q)
  \/ SaveEmbeddingSettings(q) \/ StaleSourceCount(q)
  \/ Load(q) \/ BuildClient(q) \/ Index(q)
  \/ CallFails(q) \/ Finish(q)

Next ==
  \/ \E q \in Requests : Step(q)
  \/ \E w \in Workspaces, p \in Named : DeleteCredential(w, p)

Spec == Init /\ [][Next]_vars

-----------------------------------------------------------------------------
RequestState ==
  [pc: Pc, op: Op, half: Half, ws: Workspaces \cup {""}, provider: Providers \cup {""},
   model: Models \cup {""}, key: Keys \cup {""}, url: Urls \cup {""}, dims: Nat,
   collection: Collection, client: Client \cup {NoClient},
   reply: {"none", "ok", "bad", "unavailable", "failed"}, stale: BOOLEAN]

(* Every table, cache and request has its shape, and a table has one row per
   primary key. *)
TypeOK ==
  /\ credentials \subseteq Credential
  /\ \A c, d \in credentials : SameKey(c, d.ws, d.provider) => c = d
  /\ llm \subseteq LLMSetting /\ embedding \subseteq EmbeddingSetting
  /\ \A t \in {llm, embedding} : \A r, s \in t : r.ws = s.ws => r = s
  /\ collections \subseteq [name: Collection, size: Nat]
  /\ clients \subseteq Client
  /\ indexed \subseteq [ws: Workspaces, model: Models, collection: Collection]
  /\ request \in [Requests -> RequestState]
  /\ seen \in [Requests -> SUBSET Credential]

(* EnsureCollection and collectionName: what a workspace's settings name, and
   what any run or query holds of them, is a collection that exists and has
   the size of those settings, however the requests that chose overlap. *)
Fits(x) == \E c \in collections : c.name = x.collection /\ c.size = x.dims
SettingsFit ==
  /\ \A row \in embedding : Fits(row)
  /\ \A q \in Requests :
       request[q].pc \in {"saveEmbedding", "held"} /\ request[q].half = "embedding"
         => Fits(request[q])
  /\ \A c, d \in collections : c.name = d.name => c = d

(* The resolvers' caches: whoever holds a client holds one of a credential
   that the workspace had at some moment of the same request. A rotated or a
   deleted key is not served from the cache. *)
ClientIsCurrent ==
  \A q \in Requests :
    LET r == request[q] IN
      At(q, "held") /\ Catalog[r.provider].requiresAPIKey =>
        \E c \in seen[q] :
          c.provider = r.client.provider /\ c.key = r.client.key /\ c.url = r.client.url

(* LoadOrStore: two requests that need the same client use the same one, also
   when both found the cache empty. *)
OneClientPerKey ==
  \A p, q \in Requests :
    At(p, "held") /\ At(q, "held")
      /\ clientKey(request[p].client) = clientKey(request[q].client)
    => request[p].client = request[q].client

(* ResolveEmbedder: a collection is used, by any query or run under way and by
   any workspace's settings, with one provider, one size and one slug of a
   model, and by a client of that provider and slug. *)
Target(x, provider, model) ==
  [collection |-> x.collection, dims |-> x.dims, provider |-> provider,
   slug |-> Slug[model]]
Held == {request[q] : q \in {p \in Requests : At(p, "held")
                                             /\ request[p].half = "embedding"}}
Targets == {Target(r, r.client.provider, r.client.model) : r \in Held}
             \cup {Target(row, row.provider, row.model) : row \in embedding}
OneSpacePerCollection ==
  \A s, t \in Targets : s.collection = t.collection => s = t

(* service.go:94-96 and 364-366: sources whose vectors are not in the
   workspace's collection must be re-indexed, and the answer says so. *)
StaleIsTold ==
  \A q \in Requests :
    LET r == request[q] IN
      At(q, "answered") /\ r.op = "set" /\ r.half = "embedding" /\ r.reply = "ok"
        /\ (\A o \in Requests \ {q} : At(o, "idle"))
        /\ (\E s \in Of(indexed, r.ws) :
              \A row \in Of(embedding, r.ws) : s.collection # row.collection)
      => r.stale
=============================================================================
