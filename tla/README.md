# NeuralVault in TLA+

NeuralVault is a retrieval server: users upload files, the server chunks and
embeds them, and questions are answered by a language model from the chunks
found.  This directory holds TLA+ models of the parts of it where goroutines,
stores and clients interleave, the TLC configurations that check them, and
TLAPS proofs of the most important results.  Paths below are relative to
`src/api/internal/` unless they start with `src/`.

## The system

| component | state it keeps | operations | talks to |
|---|---|---|---|
| ingest pipeline `sources/service.go` | rows of `sources`, `source_files`; `indexSem` | Create, Ingest, ReindexWorkspace, Delete, two kinds of background run, ResetStuckIndexing | chunk store, Qdrant, MinIO, model resolver, progress bus |
| chunk store `chunking/service.go` | rows of `chunks` | ChunkSource (one transaction per file), DeleteChunks, ListChunks | Postgres |
| progress bus `sources/bus.go` | map of subscriber channels under a mutex | Subscribe and its cancel, publish (never blocks, drops when full) | runs publish, SSE handlers subscribe |
| status stream `sources/handler.go` | one handler per connection | StreamStatus: read, subscribe, re-read, wait | bus, `sources` rows |
| query stream `retrieval/handler.go` | one handler and one goroutine per request | QueryStream | RetrievalService.Answer, conversations |
| retrieval `retrieval/service.go` | none | Retrieve (vector + lexical + fusion + rerank), Answer | Qdrant, Postgres, reranker, LLM |
| LLM clients `llm/*` | one goroutine per stream | Complete, Stream | HTTP providers |
| embedding clients `embedding/*` | none | Embed, EmbedBatch (retry on 429, order of the answer) | HTTP providers |
| splitters `chunking/markdown`, `chunking/text`; captions `sources/caption.go` | none | Split; captionStructuredChunks | chunk store, LLM |
| model configuration `modelconfig/*` | credentials, settings, client caches | SaveCredential, DeleteCredential, SetLLM, SetEmbedding, ResolveEmbedder, ResolveLLM | Postgres, Qdrant collections, providers |
| conversations `conversations/*` | `conversations`, `messages` | Create, AppendMessage, ListMessages | Postgres |
| auth, workspaces | `users`, `user_identity`, `workspace`, membership; signed cookies | login, provisioning, membership guard | OIDC provider, Postgres |
| server `src/api/cmd/server/main.go` | none | startup (ResetStuckIndexing), graceful shutdown of HTTP | all |
| reader, catalog, crypto, health, config, router, CLI, web | none that is shared | pure functions, wiring, clients | |

### What is hard in it

* **No transaction spans the stores.**  A source is rows in Postgres, points in
  Qdrant and objects in MinIO.  A handler or a run changes them one call at a
  time, undoes nothing, and can fail after any call.
* **Background runs outlive their request.**  `go s.runIndexJob(...)` starts a
  goroutine that waits for a slot, resolves its models, and works for up to ten
  minutes while Ingest, ReindexWorkspace, Delete and SetEmbedding arrive.  What
  keeps two runs off one source is one SQL compare-and-swap.
* **Status and event are two steps.**  A run writes `sources.status` and then
  publishes its terminal event; a stream subscribes and then re-reads the
  status; the bus drops what does not fit.
* **Everything in memory dies with the process**, rows in `indexing` do not.
* **Three goroutines and a client share one query stream**, joined by the
  request's context, a channel of one and an unbuffered channel.
* **A query reads three stores at three moments**, none of them locked against
  the run that replaces what it reads.
* **Settings are read row by row and cached**, while other requests of the same
  workspace rotate a key, delete it, or select another model; EnsureCollection
  looks first and creates later.
* **Provisioning is just in time**: the first two logins of one person race for
  the same unique keys, and browser tabs overwrite each other's state cookie.
* **Texts are cut, captioned and embedded by index**: chunk, caption, vector and
  row are matched by position through retries, reordered answers and captions
  that cannot be stored.

### What makes each component correct

* Pipeline: one worker per source; a status of `indexing` has an owner and ends;
  `indexed` means every file has its chunks and each chunk one point in the
  collection its row names; chunk indexes never collide; models never mix in a
  source; Delete leaves nothing behind; slots are neither lost nor freed twice.
* Bus and stream: no send to a dead channel; a handler that decides to wait has
  its terminal event before it; file events arrive without holes; the end that
  is told is that of the run the client joined.
* Query stream: `sources`, tokens, one `done` or `error`; what is stored is what
  the client was told is done; the handler returns.
* Retrieval: the fused order respects both searches; nothing without a row and
  nothing of another workspace is answered; the best candidates are; a quiet
  workspace answers as many chunks as were asked for.
* Model configuration: settings name a collection of their vector size; a
  collection holds one provider's vectors of one slug and size; a client is
  shared and was built of a key the workspace had during the request.
* Accounts: a person is one user; a workspace has an owner; a conversation lists
  only its members' messages, in the order of its turns; a request acts as the
  person that logged in.
* One file: no line is lost; fences are not cut; spans name their section; each
  point has the vector of the text its row has.

## Modules

| module | what it is |
|---|---|
| `SourceLifecycle` | abstract: what the pipeline promises about a source's status and its holder |
| `Ingestion` | the pipeline with its stores, requests and runs; implements `SourceLifecycle` |
| `MCIngestion` | instances of `Ingestion` |
| `StatusStream` | ProgressBus, the runs that publish, StreamStatus; its runs take `SourceLifecycle` steps |
| `CompletionStream` | QueryStream, the goroutine around Answer, a provider's stream |
| `ModelSettings` | modelconfig: keys, selections, collections, the resolvers and their caches |
| `MCModelSettings` | instances of `ModelSettings` |
| `Retrieval` | Retrieve against a run, a Delete and a settings change |
| `Accounts` | logins, sessions, workspaces, conversations under concurrent requests |
| `MCAccounts` | the instance of `Accounts` |
| `FileIndexing` | one file from its lines to its points: splitters, captions, EmbedBatch |
| `MCFileIndexing` | the instance of `FileIndexing` |
| `IngestionProofs` | of `Ingestion`: type correctness and slot accounting; one worker per source; it implements `SourceLifecycle`; who ends a status of `indexing` |
| `StoreProofs` | of `Ingestion`: chunk indexes do not collide; one embedding model per source; the order of Delete; no emptying before models are resolved; an indexed source is searchable |
| `StatusProofs` | the bus, the hand-over, the lifecycle steps and the file events of `StatusStream` |
| `CompletionProofs` | the safety of `CompletionStream` |
| `SettingsProofs` | the safety of `ModelSettings` |
| `AccountsProofs` | the safety of `Accounts` |
| `RetrievalProofs` | the safety of `Retrieval` |
| `FileProofs` | the safety of `FileIndexing`: what the splitters compute, and the pipeline of a file |

### Ingestion

One action is one call to a store with the code around it that no other
goroutine can see.  A call comes out `ok`, `failed`, or `lost` (it took effect
and its caller sees an error); the constants `Failing` and `Lossy` say which
calls may do so in a run.

| code | actions |
|---|---|
| `Create` (handler and service) | `BeginCreate`, `StoreFile` per part, `InsertSource`, `InsertSourceFile` per part (the last launches the run) |
| `Ingest`, `ReindexWorkspace` | `Ingest` / `ReindexWorkspace`, then per source `LoadSource`, `ClaimAndLaunch` or `RefuseClaim` |
| `Delete` | `BeginDelete` (row and target read), `DeleteSourceVectors`, `DeleteObject` per key, `DeleteRow` |
| `runIndexJob` | `Acquire`; the release is part of `Announce` |
| `indexInBackground` | `ResolveModels`, per file `ChunkFile`, `UpsertChunkVectors`, `UpdateEmbeddingModel`, then `SettleStatus`, `Announce` |
| `reingestInBackground` | the same with `DeleteChunks`, `ClearVectors`, `ListObjects`, `DownloadToTemp` before the files |
| the ten-minute context | `Expire`: every later call of the run fails, the status write included |
| process death, `ResetStuckIndexing` | `Restart` |
| `SetEmbedding` | `SetEmbedding`: what ResolveEmbedder returns from now on |

Abstracted: a file is the name it is stored under and the number of chunks the
splitter makes of it (`Spans`; a file of an unsupported extension makes none);
a model together with its collection is a target; chunk ids are the run and the
index.  Captions never fail a run; they are in `FileIndexing`.  The files of a run are taken in any order, since nothing depends on the
walk's.  UUIDs are drawn from `Sources`, each once.

### StatusStream

One source.  A row that reads `indexing` comes before its run, so a Create and
an Ingest are two steps: the row is inserted (`Init`) or claimed (`Claim`), then
`Launch` starts the run.  With `WriteFails` it may not: the request has failed in
between, at the reply of the insert or of the claim or at a row of `source_files`
(`sources/service.go:200-207`, `227-229`), and the row reads `indexing` without a
run.  `ProcessFile`, `EndPipeline`, `Settle` and `Announce` are a run seen from
the bus.  A handler goes `Connect`
(first read), `Subscribe`, `Reread`, then `Receive`, `TimeOut` (the 15-minute
timer) or `Disconnect`.  `Settle` and the reset of `Restart` may fail too
(`WriteFails`).  The history variable `stuck` says that the row has nobody to
end it: the write that should have ended it failed, or its run was never
launched.  `publish` holds the mutex over all its sends, and so
is one step.  Heartbeats are left out: they are comments to the client.

### CompletionStream

One request.  `answerCh` is the channel of one, `offered` the chunk a provider
is blocked on sending, `closed` its channel's end.  `SendsDoneAtEOF` tells the
OpenAI-compatible and Anthropic clients (a clean EOF yields a Done chunk) from
Ollama's (the channel just closes); the request draws its client and whether it
names a conversation.  The history variable `body` says how the body ended:
with its terminator, with an error, or cut off at a clean EOF.  The
OpenAI-compatible and Anthropic clients take the last for whole
(`TakenForWhole`), so a turn of theirs that was cut off is stored: `StoredAsTold`
allows it, and the finding `CompletionStreamPartial` tells it.  The request's context is cancelled when the
client goes away or the handler returns, which is net/http's part.

### ModelSettings

A request or run has a slot of `Requests`; each row it reads or writes and each
call it makes is a step, and `CallFails` ends it at any of them.

| code | actions |
|---|---|
| `SaveCredential` (handler and service) | `SaveCredential`, `ProbeModels`, `StoreCredential` |
| `DeleteCredential` | `DeleteCredential`, one statement |
| `SetLLM`, `SetEmbedding` | `Select` (catalog checks), `CredentialFor`, then `SaveLLMSettings`, or `ProbeDimensions`, `CollectionExists`, `CreateCollection`, `SaveEmbeddingSettings`, `StaleSourceCount` |
| `ResolveLLM`, `ResolveEmbedder` | `Resolve` (with or without the composer's override), `GetSettings`, `CredentialFor`, `Load`, `BuildClient` (LoadOrStore) |
| a run that embeds the workspace's source | `Index` |

The catalog is the table of the code.  A collection's name is the triple that
`collectionName` prints, with the model's slug as a constant (`Slug`), since two
names may share one.  What a provider accepts and the size of its vectors are
constants too (`Accepted`, `Dims`); the size depends on the base URL, which is no
part of the name.  `seen` is a history variable.

### Retrieval

| code | actions |
|---|---|
| `Retrieve` | `Begin` (top_k and the pool), `EmbedQuery`, `SearchVectors`, `lexicalSearch`, `loadChunks` (fusion and rows), `Rerank` (or the degraded answer), `QueryFails` |
| a re-ingest | `StartRun`, `DeleteChunks`, `DeleteSourceVectors`, `ChunkSource`, `UpsertChunkVectors` |
| `Delete` | `StartRun`, `DeleteSourceVectors`, `DeleteRow` |
| either fails | `RunFails` |
| `SetEmbedding` | `SetEmbedding` |

The searches answer any ranking of any best part of what they may find.
`1/(rrfK + rank)` is an exact fraction in place of a float64; the two can differ
only in a tie, where the code then takes the order in which candidates were
found (`IdsIndex`), as the model does.  The reranker may score all, some or none.
What the two sorts return is `Sorted`: at each place the element that as many
others precede as the place says.

### Accounts

Requests are numbered; a request's number is the id of the rows it makes.

| code | actions |
|---|---|
| `Login`, `Callback`, `Token`, `Logout` | `Login`, `Callback`/`Token` then `Exchange`, `resolveUser`, `provisionUser` (two inserts and a commit), `issueSession`; `LoginFails`; `Logout` |
| `RequireUser` | `Admit` |
| workspaces `Create`, the guard | `AskForWorkspace`, `CreateWorkspace` (two inserts and a commit); `EnsureMember` |
| conversations `Create`, `AppendMessage`, `ListMessages` | `AskForConversation`, `CreateConversation`; `BeginAppend`, `AppendMessage`; the operator `ListMessages` |
| `Query`, `QueryStream` over a conversation | `Ask`, `EnsureMember`, `ensureConversationInWorkspace`, `Retrieve`, the question's append, `Generate`, the answer's |
| any call fails, the reply of a commit included | `Fails`, `LoginFails` |
| external: an address changes, time passes | `ChangeEmail`, `Tomorrow` |

A transaction is the rows it will commit (`tx`); an INSERT waits for one that
holds its unique key and fails where a committed row has it, as Postgres does.
`created_at` is the program's `time.Now()`, taken once the transaction has begun
(`conversations/service.go:162`); that clock is taken not to step back.  A signed
cookie is that the cookie is the one the server issued.

### FileIndexing

| code | actions and operators |
|---|---|
| `markdown.Split`, `splitByParagraph` | `SplitMarkdown`, `SpansOf`, `splitByParagraph` |
| `text.Split`, `splitParagraphs` | `SplitText`, `splitParagraphs` |
| `ChunkSource` | `Split`, `ChunkSource` |
| `captionStructuredChunks` | `Caption` per chunk |
| `EmbedBatch` of both clients | `StartEmbedding`, `Answered`, `Refused`, `RateLimited`, `Sleep` |
| `upsertChunkVectors`, `updateEmbeddingModel` | the actions of those names |

A line is its kind (heading, fence, table row, prose, blank), of a size per kind;
a text is the sequence of its line numbers.  The splitters are folds over lines
and paragraphs, one operator per loop body (`PlainLine`, `SectionLine`,
`MarkdownLine`, `PackParagraph`, `SpanOfParagraph`).  They run over every file
of up to `MaxLines` such lines.  The UPDATE that stores a caption works or
fails; that it works and its reply is lost is left out (the row would then have
the caption and the vector not).  What the splitters return is compared with
properties that do not follow the code: which lines are in which span, which
of them a fence holds (`Fenced`), and what the sizes then are.

## Runs

All bounds are in the `.cfg` files.  `CHECK_DEADLOCK FALSE` stands in the runs of
`Ingestion`, `StatusStream`, `CompletionStream` and `ModelSettings`, whose
instances may stop: ids, goroutines and requests are each used once or up to a
bound.  The other three are checked for deadlock: a query may always begin or go
on, and `Accounts` and `FileIndexing` stutter only once nothing is under way.

| run | asks | bounds, and why they are enough |
|---|---|---|
| `IngestionFaults` | who holds a source, slots, order of Delete, no emptying before models are resolved, refinement | one source, one file, two requests, two runs, every fault: a second contender for the source and a second run after the first are what these properties take to break |
| `IngestionFiles` | indexes, models, searchability | three files of 2, 1 and 0 chunks, two runs, two targets: a base index after several chunks and after none, a re-index with other settings |
| `IngestionLive` | every wait: queued runs end, a source in `indexing` is owned and leaves it | two sources, two runs, one slot, failing pipeline calls and restarts; not the faults that leave a row in `indexing` (`deadline`, `status`, `fileRow`, a lost reply of the claim or the insert) |
| `StatusStream` | bus, hand-over of the terminal event, gaps, what a run does to the status, every wait ends | one stream, three runs, two files, a channel of two so that it overflows; status writes, launches and the startup reset may fail. Any number of streams is left to the theorems: a stream sees the others only as members of the bus |
| `CompletionStream` | protocol, storage, end, return | three tokens (none, one, several), the three clients, with and without a conversation; failing store; disconnect at any step |
| `ModelSettings` | settings fit collections, spaces do not mix, clients are shared and current | two workspaces, two overlapping requests and four in all: one to save a key, one to select, two to race; two models of one slug, two keys, two URLs with different sizes; symmetric in requests and workspaces |
| `Retrieval` | order, ghosts, cut, completeness | six chunks: a source's former and its fresh one, two of another source, an orphan point, another workspace's; top_k of 0 to 3 with a cap of 2, a pool of 3 or twice top_k |
| `Accounts` | identity, ownership, tenancy, conversations | three requests, two at once, two browsers, two people, an empty address, a session of a day; each behaviour has one of five budgets (`MCBudgets`: two redirects and their callbacks; three logins and a change of address; logins, a redirect, a logout and a change; two overlapping requests behind the guard; a login, a request, a logout and a day) |
| `FileIndexing` | splitters, captions, vectors | every file of up to five lines of five kinds and three extensions; sizes scaled so that two lines fill a span and one may be over the cap; two retries, a deadline that cuts into them |
| `IngestionDeadline`, `ModelSettingsStale`, `CompletionStreamPartial` | the findings, one property each | as small as the counterexample |

In the code `MaxConcurrent` is 8, a subscriber's channel holds 64, the pool is
four times top_k, and a span is cut at 800 to 1500 characters; the models take
sizes at which contention, overflow and cuts come at once.

`SpareRun` keeps a goroutine in reserve for every Create in flight, so that the
bound on `Runs` never stands for a refusal of the program.

`TypeOK` is a run's invariant for `Ingestion`, where it is also the base of the
proofs; for `Accounts`, `Retrieval` and `FileIndexing` it is proved
(`TypesAreKept`, `TypeCorrect`); in the other modules it states the shapes for
the reader.

### Findings

Three runs end in a violation of something the repository's text says; each has
one property, and PROJECT.json quotes the line.

| run | what happens |
|---|---|
| `IngestionDeadline` | the status write that should report a timeout uses the context that timed out: the row stays `indexing` |
| `CompletionStreamPartial` | an answer cut off at a clean end of the body is told `done` and stored (OpenAI-compatible and Anthropic clients) |
| `ModelSettingsStale` | the first selection of the model that was the default moves the workspace to an empty collection and tells of no stale source |

The models state further properties that the code does not have.  They are
definitions without a run, each with its comment; for some the repository's text
says otherwise, and the line is given:

| property | what happens |
|---|---|
| `Ingestion!DeletedHasNoVectors` | points written after Delete cleared them outlive the source |
| `Ingestion!SkippedRunIsCurrent` | a source ReindexWorkspace skips may be indexed with the former settings |
| `Ingestion!DoneMeansIndexed` | `done` is published even if the write of `indexed` failed |
| `Accounts!TitleOfTheFirst` | after a first question of spaces only, the answer gives the conversation its title, though `conversations/service.go:143-148` says that only the first message does and that it is the user's question; what the code does is `TitleOfTheFirstText` |
| `CompletionStream!EndIsAlwaysTold` | an Ollama body that ends early gives neither `done` nor `error`, though `retrieval/handler.go:213-215` says "finally a terminal" event |
| `CompletionStream!CancelEndsProducer` | a provider's goroutine blocks for ever once the handler is gone, though `llm/llm.go:55` says that cancelling closes the channel early |
| `StatusStream!TimesOutOnlyWhenStuck` | the terminal event is dropped and a settled source "timed out" |

Read from the models, without a property: an upload that fails after some of its
parts leaves their objects behind (`StoreFile`); two parts cleaned to one path leave
the row `indexing` with no goroutine (`FileRowFits`); the points a source has in
the collection of a former model are never cleared (`VectorsIn`); a client that
closes on `done` can lose the stored answer (`PersistAnswer`); the `done` of one
run can end a stream that joined the next (`Announce`); the lexical search still
finds a workspace's chunks after it switched models, though the handler says
retrieval finds nothing until a re-index (`lexicalSearch`); a second person with
the same address, or with none, is refused for ever by the unique email
(`EmailIsUnique`); two callbacks at once may both pass with one state
(`StateMatches`); an unclosed fence hides every later heading (`StartsSection`), and a
section cut at several blank lines counts its line numbers short (`NextLine`).

## Fairness

* `WF(RunStep(r))` for a run that holds a slot: all its calls carry a context of
  ten minutes, so each returns.
* `SF(Acquire(r))`: goroutines blocked on a channel send are served in the order
  they came, and the slot comes free again and again.
* `WF(InsertSourceFile(q))`: a handler in the middle of its inserts goes on;
  each returns or fails.
* `StatusStream`: weak fairness of runs, from their launch on (a request with a
  row in `indexing` launches its run or fails), of the re-read and of receiving.
  The timer and the client are not counted on.
* `CompletionStream`: weak fairness of the three goroutines.  The client is not
  counted on.

Nothing is assumed of new requests, settings changes, restarts or failures.

## Proofs

Every assumption is on constants.  `IngestionAssumption`: the types of the
constants, that `None` and `NoTarget` are not members of the sets they extend, that `Runs` is
finite and `MaxConcurrent` is positive (which config validation requires).
Everything else is arbitrary: any number of sources, files, chunks per file,
runs and requests, any set of failing and lossy calls.  `ModelSettingsAssumption`
says the types of its constants, that "" is none of the keys, URLs and models, and
that the default size is positive: any workspaces, overlapping requests, models,
slugs and sizes.  `StatusStreamAssumption` bounds nothing but that there is a run
and room for an event: any connections, runs, files and capacity.
`CompletionStreamAssumption` gives the three clients their names; the number of
tokens is any.  `AccountsAssumption` asks for a browser, two people and two
addresses, and a session of at least a day; budgets and bounds are any.
`RetrievalAssumption` says that the chunks are finitely many, which of them are
whose, and that the defaults are positive and within their cap: any rankings, top_k, pool size,
`rrfK` and scores.  `FileIndexingAssumption` gives the types of its constants and
that an empty line has no characters: files of any length, lines of any size,
any cap and target, also a target above the cap, and any retries and deadline.

One theorem has a hypothesis besides: `IndexingHasItsOwner` assumes
`EndsAreWritten`, which says which faults do not happen (a deadline, a failing
write of the status, of a file row or of the startup reset; a lost reply of the
insert, of a file row or of the claim) and that no two parts of an upload are
cleaned to one name.  That is what `IngestionLive` leaves out, and each part is
needed: without it the row stays `indexing` with nobody to end it, as the
finding `IngestionDeadline` shows for the first.

| theorem | states | inductive invariant |
|---|---|---|
| `TypeCorrect` | `Spec => []TypeOK` | `Shape` |
| `SlotAccounting` | `Spec => []SlotsAreHeld` | `Shape` |
| `NoRaceOnASource` | `Spec => []OneWorkerPerSource` | `Shape` and `Held` |
| `ImplementsLifecycle` | `Spec => LifecycleSpec` | `Shape` and `Held` |
| `IndexingHasItsOwner` | `Spec => []IndexingIsOwned` under `EndsAreWritten` | `Shape`, `Held` and `Ending` |
| `IndexesAreFree` | `Spec => []NoIndexCollision` | `Shape`, `Held` and `Indexed` |
| `OneModel` | `Spec => []OneModelPerSource` | `Shape`, `Held` and `Indexed` |
| `RowIsLast` | `Spec => []RowGoesLast` | `Shape`, `Held` and `Emptied` |
| `ResolvedBeforeEmptied` | `Spec => EmptiedOnlyAfterResolve` | `Shape`, `Held` and `Indexed` |
| `IndexedMeansSearchable` | `Spec => []IndexedIsSearchable` | `Shape`, `Held`, `Indexed` and `Searched` |
| `BusIsWired` | `Spec => []BusMatchesStreams` | `Wired` |
| `WhoWaitsIsServed` | `Spec => []WaitingIsServed` | `Wired`, `RunsOK`, `Owned`, `Buffered` and `Served` |
| `RunsKeepLifecycle` | `Spec => LifecycleSteps` | `RunsOK` and `Owned` |
| `FilesComeWithoutGaps` | `Spec => []NoGaps` | `Wired`, `RunsOK`, `Verdicts`, `Buffered`, `Sent`, `Silent` and `Gapless` |
| `StoredIsTold` | `Spec => []StoredAsTold` | `Streamed` |
| `ProtocolIsKept` | `Spec => []StreamProtocol` | `Streamed` |
| `StayersAreTold` | `Spec => []EndIsTold` | `Streamed` |
| `SettingsAlwaysFit` | `Spec => []SettingsFit` | `Settled` |
| `CollectionsAreOneSpace` | `Spec => []OneSpacePerCollection` | `Settled` |
| `ClientsAreShared` | `Spec => []OneClientPerKey` | `Settled` and `CacheOK` |
| `ClientsAreCurrent` | `Spec => []ClientIsCurrent` | `Settled` and `SeenOK` |
| `TypesAreKept` | `Spec => []TypeOK` | `Sound` |
| `SubjectsAndUsersMatch` | `Spec => []OneUserPerSubject` | `Sound` |
| `WorkspacesAreOwned` | `Spec => []OwnedWorkspaces` | `Sound` |
| `TenantsStayApart` | `Spec => []TenantsApart` | `Sound` |
| `TitleIsOfTheFirstText` | `Spec => []TitleOfTheFirstText` | `Sound` |
| `AnswersComeAfter` | `Spec => []AnswersFollowQuestions` | `Sound` |
| `RequestsActAsTheirLogin` | `Spec => ActsAsItsLogin` | `Sound` |
| `FusionIsFair` | `Spec => []FusionRespectsBoth` | `RetrievalInv` |
| `GhostsAreNotAnswered` | `Spec => []NoGhosts` | `RetrievalInv` |
| `TheBestAreAnswered` | `Spec => []BestAreAnswered` | `RetrievalInv` |
| `QuietQueriesFind` | `Spec => []QuietQueryFinds` | `RetrievalInv` |
| `TypeCorrect` of `Retrieval` | `Spec => []TypeOK` | `RetrievalInv` and `Bounds` |
| `LinesAreKept` | `Spec => []NothingIsLost` | `FileInv` |
| `FencesAreKept` | `Spec => []FencesStayWhole` | `FileInv` |
| `HeadingsAreNamed` | `Spec => []SectionsAreNamed` | `FileInv` |
| `PackingIsTight` | `Spec => []TextIsPacked` | `FileInv` |
| `PointsAreRows` | `Spec => []EachPointIsItsRow` | `FileInv` |
| `TypeCorrect` of `FileIndexing` | `Spec => []TypeOK` | `FileInv` and `Bounds` |

* **`Shape`** has the types with what ties them together: a run past its queue
  knows its source, and its target once it has resolved; a request in the middle of an operation
  knows its source; and the semaphore counts the holders.  The bound
  `indexSem \in 0..MaxConcurrent` of `TypeOK` is not inductive without the
  count: a release could go below zero.
* **`Held`** says that a source is held by at most one run or Create.
  `OneWorkerPerSource` alone does not survive `ClaimAndLaunch`: one has to know
  that a worker's source reads `indexing` (so the claim fails), that a Create
  drew an id nobody else has, and that it launches its run only while it is the
  one maker of that source.
* **`Indexed`** adds that the chunk rows of a source at work belong to the run
  at work, lie below its running total, and carry its target or none.  It is
  needed because `NoIndexCollision` speaks of the moment before an insert only,
  and the rows a run meets there are those its earlier steps deleted or wrote.
* **`Ending`** is `IndexingIsOwned` with what its two delicate steps need: the
  last insert of a Create launches the run only if every name it has yet to
  insert is free, and the status write ends the status only within the run's
  deadline.
* **`Emptied`** says of a Delete past its listing that it has every key the
  source has, and of one past its objects that none is left.  A source with a
  row can get no new object, because only its Create stores one and a Create
  that stores has no row yet.
* **`Searched`** follows the content of a source that no Delete has touched, from
  the parts of the upload to the status write: the objects are those of the
  upload; the run's list of files is theirs; the files it is done with have all
  their rows, tagged below the running total; and the points in the target's
  collection are those of the rows, less the file at work between its insert
  and its upsert (`Inserted`, `Pointed`).  `Indexed` gives that no other run's
  rows are among them.  At the status write nothing is left to do, which is
  `Searchable`; and a run that fails leaves `error`, not `indexed`.

* **`Wired`** ties a handler's place to its channel and to the bus.  **`Owned`** says
  that one run at most works on the source or is about to be launched on it, that
  the row then reads `indexing` or is gone, and that a row that reads `indexing` has such a run unless it is stuck;
  **`Served`** is `WaitingIsServed` with what `Receive` and `Announce` need.  The
  re-read is where they meet: the handler decides to wait because the row reads
  `indexing`, so a run has yet to announce, and being in the bus already, the
  handler gets what it announces.
* **`Gapless`** is about `Heard`, what a client got followed by what its channel
  still holds: it is unbroken, and whoever is in the bus and heard of a file of a
  run heard of every later one the run has finished (`UpToDate`).  `NoGaps` is
  about what was sent, and says nothing of an event on its way; `UpToDate` is
  what the next file event and `done` need (`Verdicts`: a run says done after
  its last file only).  `Receive` moves an event from one side of `Heard` to the
  other and leaves it as it was; a handler that returns leaves a start of it.
* **`Streamed`** reads off the events how far the stream has come (nothing, a
  refusal, `sources` and as many tokens as the answer has, or those and a
  terminal event) and ties it to the handler's place (`Said`), to the chunk on
  its way from the provider (`Produced`: a done on its way is of a body taken for
  whole), and to the messages stored (`Stored`).
  A handler that is gone may leave the client at any of the stages; one whose
  client stays, and whose provider closes its channel behind a terminal chunk,
  only at an end.
* **`Settled`** is three parts.  `RequestsOK`: what a request knows at each step of
  its operation (a resolver past its settings has a provider of the catalog, a
  selection past the probe has the name and the size that go together).
  `TablesOK`: the shapes of the rows, one per key.  `NamesOK`: a name that a row
  or a request about to save holds is a collection that exists, and every
  collection's size is the one its name says.  `SettingsFit` is not
  inductive alone: the moment before the row is written, the name is known to
  the request only.
* **`CacheOK`** adds that the caches have one client per key and that a holder's
  client is in them; **`SeenOK`** that the key and URL a resolver carries
  between reading its credential and getting its client are in its history.

* **`Sound`** says of each request, by where it is, what its transaction holds
  (`Holds`), which ids no committed row has yet (`Fresh`), what it has been let
  through on (`Entitled`: rows are never deleted, so it stays true), and that a
  turn about to answer has its question committed before (`Asked`); and of the
  tables that each row has the rows beside it that its transaction made (`Rows`),
  that a session is of the subject that logged in (`Sessions`), and that a
  message is by a member (`Written`).  `Apart` is what the unique key of
  `user_identity` gives two first logins that overlap: an INSERT waits for the
  transaction that holds the key, so two never stand before their commits with
  one subject.

* **`RetrievalInv`** says that once the chunk rows are read, the candidates are
  those found that had a row then, in the fused order, and the answer is what is computed from
  them and the reranker's scores; and that as long as nothing has disturbed the
  query (`quiet`), what it has read is what the stores hold.  The properties
  speak of the answer only, and every step before it is needed to tell what the
  answer is made of.  `FusionRespectsBoth` rests on the comparison of fractions
  (`LessIsAnOrder`, `PlusIsMonotone`, `ShareFalls`) being an order that both
  ranks raise, with `IdsIndex` breaking ties so that it is total
  (`FusedOrderIsTotal`) and `SortedSorts` applies: a total order on a finite set
  has one sequence in which each member stands where its predecessors are as
  many as its place.
* **`FileInv`** says that the spans are what the splitter returns for this
  file, that rows and chunks agree, and that the vectors, once there, are those
  of the chunks' texts in their order: `AnswerIsTexts` shows of any order of the
  answer that `ByIndex` undoes it, and that what is short or empty is refused.
  What a splitter returns is a second induction, over the lines it has read:
  each fold is first turned into the sequence of its states (`FoldStates`), and
  `Induction`, which is that a set of naturals with 0 and successors has them
  all, carries an invariant of the states from one to the next.
    * For the paragraphs of plain text or of a section, it is that those done
      follow each other with a line between them, begin and end in lines that
      say something, and miss none (`Cover`); that the open one goes on from
      there; and, for a section, that the flag says whether a fence is open
      (`Odd`), from which no fence is cut (`Whole`).
    * For the spans of plain text it is `PackInv`: they hold the paragraphs so
      far, what is in the buffer taken for a span (`Packing`), and with nothing
      in the buffer the last one has reached the target.
    * For Markdown it is `Reading`: the section that is open began outside every
      fence, at its heading if it has one (`SectionAt`), and the spans above it
      are in order, miss nothing and name their headings (`Marks`).  A fence
      that is open cannot reach from one section into the next
      (`NoCrossing`), so what holds of the spans of the sections holds of both
      together (`ConcatMarks`).  `CountInv` follows the line numbers of a
      section that is cut, which are counted and so have to be shown to stay at
      or above the paragraph they are for.

The refinement maps `worker` to "busy" while a run between claim and status
write, or a Create that will launch one, holds the source; a lost reply of the
claim or the insert is an abstract step that leaves it free.

**Model-checked only:** liveness (`IndexingSettles`, `EveryRunEnds`,
`WaitingEnds`, `HandlerReturns`), which TLAPS does not reach.  Every invariant and
action property of a passing run is a theorem.  The library's induction
theorems take an operator, which the provers cannot instantiate, so induction
over data goes through sets: the smallest natural that is not in the set of
those for which the claim holds (`Smallest`, `Induction`).

## Not modelled

Formats and text (SSE frames, JSON, prompts, wire formats, how a line is told to
be a heading), cryptography (the secrets cipher, the signature of a cookie),
health checks, configuration, logging and wiring, the generated API docs, the
CLI and `migrate`, the web client, the providers' non-streaming calls and model
lists, which are one request and one reply, and the routes that only read.
Server shutdown drains HTTP and leaves the runs to die: to the stores that is
`Restart`.  PROJECT.json lists each component with its reason.

Five hazards have no property that a run checks.  For two the code breaks what
one would state (see Findings): a source that ReindexWorkspace skips, and a
provider's goroutine that leaks.  The wait for a slot counts for the stream's
timer and not for the run's, and takes a clock that both share.  The `done` of
one run can end a stream that joined the next: `StatusStream` has it as a
behaviour and states nothing of it.  When a run gives up retrying to embed is
bounded by its context only.

## Plan

Done: the pipeline and its abstract lifecycle, the status stream, the query
stream, model configuration, retrieval, accounts and conversations, one file's
way through splitters and embedders; and every safety property that a passing
run checks is a theorem.  Left to model: `Shutdown`, with in-flight streams and
runs, as a refinement of `Restart`; a splitter that does not take a line's kind
as given but tells it from the line's text.
