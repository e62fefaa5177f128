----------------------------- MODULE Ingestion -----------------------------
(***************************************************************************)
(* The ingest pipeline of NeuralVault: package sources of the API, with    *)
(* the chunk store it drives.                                              *)
(*                                                                         *)
(* A source lives in three stores that share no transaction: Postgres      *)
(* (rows of sources, source_files and chunks), Qdrant (one point per       *)
(* chunk, in the collection of the embedding model that made it) and the   *)
(* object store (the uploaded files).  HTTP handlers (requests here) and   *)
(* background goroutines (runs) change them one call at a time; every call *)
(* may fail, may take effect although its caller sees an error, and may be *)
(* the last one before the process dies.  One action below is one call to  *)
(* a store together with the code around it that no other goroutine sees.  *)
(***************************************************************************)
EXTENDS Naturals, FiniteSets

CONSTANTS
  Sources,        \* ids a Create may draw (uuid.New: each is used once)
  Parts,          \* the file parts of a multipart upload
  Names,          \* cleaned relative paths: object keys and source_files.name
  NameOf,         \* the path each part is stored under; two parts may share it
  Spans,          \* how many chunks the splitter makes of the file at a path
  Targets,        \* embedding targets: a model together with its collection
  NoTarget,       \* chunks.embedding_model = "", or a run yet to resolve
  Runs,           \* background goroutines, each launched at most once
  Requests,       \* HTTP requests in flight at one time
  MaxConcurrent,  \* config Indexing.MaxConcurrent, the size of indexSem
  Failing,        \* the calls that may fail without taking effect
  Lossy,          \* the calls that may take effect and still report an error
  None            \* no source, no file

Calls == {"store", "insert", "fileRow", "claim", "delete", "pipeline",
          "status", "deadline", "reset", "crash"}

ASSUME IngestionAssumption ==
  /\ NameOf \in [Parts -> Names]
  /\ Spans \in [Names -> Nat]
  /\ NoTarget \notin Targets
  /\ None \notin Sources \cup Names
  /\ MaxConcurrent \in Nat \ {0}
  /\ IsFiniteSet(Runs)
  /\ Failing \subseteq Calls /\ Lossy \subseteq Calls

VARIABLES
  status,      \* sources.status, or why there is no row: "unborn", "deleted"
  upload,      \* the parts of the Create that drew the id
  fileRows,    \* source_files, by source
  objects,     \* the object store, by source (prefix <workspace>/<source>/)
  chunks,      \* rows of table chunks
  vectors,     \* Qdrant points
  settings,    \* the target ResolveEmbedder returns for the workspace
  run,         \* the background goroutines
  indexSem,    \* how many slots of the semaphore are taken
  req,         \* the HTTP requests
  touched      \* history: sources from which a Delete removed content

stores == <<status, fileRows, objects, chunks, vectors>>
vars == <<status, upload, fileRows, objects, chunks, vectors, settings, run,
          indexSem, req, touched>>

RowStatus == {"indexing", "indexed", "error"}
Status == {"unborn", "deleted"} \cup RowStatus

\* The calls of a run that may change chunks and vectors, and the status
\* write that ends them, in the order of the code.
PipelineSteps == {"resolve", "clearChunks", "clearVectors", "list",
                  "download", "chunk", "upsert", "tag"}
Settling == {"succeed", "fail"}
HoldingSlot == PipelineSteps \cup Settling \cup {"announce"}
Live == {"queued"} \cup PipelineSteps \cup Settling

Chunk == [source: Sources, run: Runs, name: Names, index: Nat,
          model: Targets \cup {NoTarget}]
Vector == [source: Sources, run: Runs, index: Nat, collection: Targets]

RunState == [pc: {"idle", "queued", "ended"} \cup HoldingSlot,
             source: Sources \cup {None},
             fresh: BOOLEAN,       \* indexInBackground, not reingestInBackground
             target: Targets \cup {NoTarget},
             todo: SUBSET Names,   \* files still to chunk
             file: Names \cup {None},   \* the file in hand
             base: Nat,            \* runPipeline's total: BaseIndex of the next file
             late: BOOLEAN,        \* the 10-minute context has expired
             event: {"none", "done", "error"}]   \* terminal event it publishes

ReqState == [op: {"idle", "create", "ingest", "delete"},
             at: {"start", "store", "insert", "fileRows", "load", "claim",
                  "vectors", "objects", "row"},
             source: Sources \cup {None},
             parts: SUBSET Parts,
             todo: SUBSET Sources,
             keys: SUBSET Names,
             target: Targets \cup {NoTarget}]   \* the workspace's when it began

\* A run as `go runIndexJob(...)` has not started it, and a request slot as
\* no handler uses it.
\* One that has returned keeps nothing.
IdleRun == [pc |-> "idle", source |-> None, fresh |-> FALSE,
            target |-> NoTarget, todo |-> {}, file |-> None, base |-> 0,
            late |-> FALSE, event |-> "none"]
IdleReq == [op |-> "idle", at |-> "start", source |-> None, parts |-> {},
            todo |-> {}, keys |-> {}, target |-> NoTarget]
EndedRun == [IdleRun EXCEPT !.pc = "ended"]

NamesOf(P) == {NameOf[p] : p \in P}
HasRow(s) == status[s] \in RowStatus

\* The work of a run between the claim of its source and the status write.
Works(r, s) == run[r].pc \in Live /\ run[r].source = s

Init ==
  /\ status = [s \in Sources |-> "unborn"]
  /\ upload = [s \in Sources |-> {}]
  /\ fileRows = [s \in Sources |-> {}]
  /\ objects = [s \in Sources |-> {}]
  /\ chunks = {}
  /\ vectors = {}
  /\ settings \in Targets
  /\ run = [r \in Runs |-> IdleRun]
  /\ indexSem = 0
  /\ req = [q \in Requests |-> IdleReq]
  /\ touched = {}

-----------------------------------------------------------------------------
(* How a call to a store comes out.                                        *)

Outcomes(call) == {"ok"} \cup {o \in {"failed"} : call \in Failing}
                         \cup {o \in {"lost"} : call \in Lossy}
Applied(out) == out # "failed"

\* A run's calls carry its context: once that has expired none is made.
RunOutcomes(r, call) == IF run[r].late THEN {"failed"} ELSE Outcomes(call)

\* A run goes on as `next` says, or to the error path of its caller.
Proceed(r, out, next) ==
  run' = [run EXCEPT ![r] = IF out = "ok" THEN next ELSE [@ EXCEPT !.pc = "fail"]]

\* A handler goes on as `next` says, or answers the error and is over.
Reply(q, out, next) ==
  req' = [req EXCEPT ![q] = IF out = "ok" THEN next ELSE IdleReq]

\* `go s.runIndexJob(...)`: the goroutine starts by waiting for a slot.  A
\* fresh run reads the temp directory Create filled.
Launch(s, fresh) ==
  \E r \in Runs :
    /\ run[r].pc = "idle"
    /\ run' = [run EXCEPT ![r] =
         [IdleRun EXCEPT !.pc = "queued", !.source = s, !.fresh = fresh,
                         !.todo = IF fresh THEN NamesOf(upload[s]) ELSE {}]]

\* Bound: a goroutine is left for every Create in flight and one more.
SpareRun == Cardinality({q \in Requests : req[q].op = "create"})
              < Cardinality({r \in Runs : run[r].pc = "idle"})

-----------------------------------------------------------------------------
(* Create: every part goes to the temp directory and the object store, then *)
(* the row is inserted as indexing, then one source_files row per part.  No *)
(* earlier step is undone when a later one fails.                           *)

BeginCreate(q) ==
  /\ req[q].op = "idle"
  /\ SpareRun
  /\ \E s \in Sources, P \in (SUBSET Parts) \ {{}} :
       /\ upload[s] = {}
       /\ upload' = [upload EXCEPT ![s] = P]
       /\ req' = [req EXCEPT ![q] = [IdleReq EXCEPT !.op = "create",
                    !.at = "store", !.source = s, !.parts = P]]
  /\ UNCHANGED <<stores, settings, run, indexSem, touched>>

StoreFile(q) ==
  LET s == req[q].source IN
  /\ req[q].at = "store"
  /\ \E p \in req[q].parts, out \in Outcomes("store") :
       LET left == req[q].parts \ {p} IN
       /\ objects' = IF Applied(out)
                     THEN [objects EXCEPT ![s] = @ \cup {NameOf[p]}] ELSE objects
       /\ Reply(q, out, [req[q] EXCEPT !.parts = left,
                           !.at = IF left = {} THEN "insert" ELSE "store"])
  /\ UNCHANGED <<status, upload, fileRows, chunks, vectors, settings, run,
                 indexSem, touched>>

InsertSource(q) ==
  LET s == req[q].source IN
  /\ req[q].at = "insert"
  /\ \E out \in Outcomes("insert") :
       /\ status' = IF Applied(out)
                    THEN [status EXCEPT ![s] = "indexing"] ELSE status
       /\ Reply(q, out, [req[q] EXCEPT !.at = "fileRows", !.parts = upload[s]])
  /\ UNCHANGED <<upload, fileRows, objects, chunks, vectors, settings, run,
                 indexSem, touched>>

\* The table's foreign key and its UNIQUE (source_id, name) refuse a row.
FileRowFits(s, p) == HasRow(s) /\ NameOf[p] \notin fileRows[s]

\* The last row inserted, Create starts the run and answers.
InsertSourceFile(q) ==
  LET s == req[q].source IN
  /\ req[q].at = "fileRows"
  /\ \E p \in req[q].parts :
       \E out \in IF FileRowFits(s, p) THEN Outcomes("fileRow") ELSE {"failed"} :
         LET left == req[q].parts \ {p} IN
         /\ fileRows' = IF Applied(out)
                        THEN [fileRows EXCEPT ![s] = @ \cup {NameOf[p]}] ELSE fileRows
         /\ Reply(q, out, IF left = {} THEN IdleReq
                          ELSE [req[q] EXCEPT !.parts = left])
         /\ IF out = "ok" /\ left = {} THEN Launch(s, TRUE) ELSE UNCHANGED run
  /\ UNCHANGED <<status, upload, objects, chunks, vectors, settings, indexSem,
                 touched>>

-----------------------------------------------------------------------------
(* Ingest of one source, and ReindexWorkspace: an Ingest of each source the *)
(* List returned.                                                           *)

BeginIngest(q, S) ==
  /\ req[q].op = "idle"
  /\ req' = [req EXCEPT ![q] = [IdleReq EXCEPT !.op = "ingest", !.at = "load",
                                               !.todo = S, !.target = settings]]
  /\ UNCHANGED <<stores, upload, settings, run, indexSem, touched>>

Ingest(q) == \E s \in Sources : HasRow(s) /\ BeginIngest(q, {s})

ReindexWorkspace(q) ==
  LET listed == {s \in Sources : HasRow(s)} IN
  Cardinality(listed) > 1 /\ BeginIngest(q, listed)

\* getByID: a source deleted since it was listed ends the whole call.
LoadSource(q) ==
  /\ req[q].at = "load"
  /\ \E s \in req[q].todo :
       Reply(q, IF HasRow(s) THEN "ok" ELSE "failed",
             [req[q] EXCEPT !.at = "claim", !.source = s, !.todo = @ \ {s}])
  /\ UNCHANGED <<stores, upload, settings, run, indexSem, touched>>

\* claimForIndexing updates the row only where status <> 'indexing'.
\* Mutant: the compare-and-swap lost its condition.
ClaimableAnyStatus(s) == HasRow(s)
Claimable(s) == HasRow(s) /\ status[s] # "indexing"

NextSource(q) == IF req[q].todo = {} THEN IdleReq
                 ELSE [req[q] EXCEPT !.at = "load", !.source = None]

\* The claim takes the source: the run starts and the next source is loaded.
ClaimAndLaunch(q) ==
  LET s == req[q].source IN
  /\ req[q].at = "claim"
  /\ Claimable(s)
  /\ SpareRun
  /\ \E out \in Outcomes("claim") :
       /\ status' = IF Applied(out)
                    THEN [status EXCEPT ![s] = "indexing"] ELSE status
       /\ Reply(q, out, NextSource(q))
       /\ IF out = "ok" THEN Launch(s, FALSE) ELSE UNCHANGED run
  /\ UNCHANGED <<upload, fileRows, objects, chunks, vectors, settings,
                 indexSem, touched>>

\* No row updated: ErrAlreadyIndexing, which ReindexWorkspace skips.
RefuseClaim(q) ==
  /\ req[q].at = "claim"
  /\ ~ Claimable(req[q].source)
  /\ req' = [req EXCEPT ![q] = NextSource(q)]
  /\ UNCHANGED <<stores, upload, settings, run, indexSem, touched>>

-----------------------------------------------------------------------------
(* Delete: vectors of the workspace's current collection, then the objects, *)
(* then the row (whose removal cascades).  It asks nothing of the status.   *)

BeginDelete(q) ==
  /\ req[q].op = "idle"
  /\ \E s \in Sources :
       /\ HasRow(s)
       /\ req' = [req EXCEPT ![q] = [IdleReq EXCEPT !.op = "delete",
                    !.at = "vectors", !.source = s, !.target = settings]]
  /\ UNCHANGED <<stores, upload, settings, run, indexSem, touched>>

VectorsIn(s, t) == {v \in vectors : v.source = s /\ v.collection = t}

\* Where Delete goes once the objects are listed.
\* Mutant: the row goes first, the objects are for later.
AfterVectorsRow(s) == "row"
AfterVectors(s) == IF objects[s] = {} THEN "row" ELSE "objects"

\* The listing is taken with it: a source that has a row gains no object.
DeleteSourceVectors(q) ==
  LET s == req[q].source IN
  /\ req[q].at = "vectors"
  /\ \E out \in Outcomes("delete") :
       /\ vectors' = IF Applied(out) THEN vectors \ VectorsIn(s, req[q].target)
                     ELSE vectors
       /\ touched' = IF Applied(out) THEN touched \cup {s} ELSE touched
       /\ Reply(q, out, [req[q] EXCEPT !.keys = objects[s],
                           !.at = AfterVectors(s)])
  /\ UNCHANGED <<status, upload, fileRows, objects, chunks, settings, run,
                 indexSem>>

DeleteObject(q) ==
  LET s == req[q].source IN
  /\ req[q].at = "objects"
  /\ \E k \in req[q].keys, out \in Outcomes("delete") :
       LET left == req[q].keys \ {k} IN
       /\ objects' = IF Applied(out) THEN [objects EXCEPT ![s] = @ \ {k}]
                     ELSE objects
       /\ Reply(q, out, [req[q] EXCEPT !.keys = left,
                           !.at = IF left = {} THEN "row" ELSE "objects"])
  /\ UNCHANGED <<status, upload, fileRows, chunks, vectors, settings, run,
                 indexSem, touched>>

DeleteRow(q) ==
  LET s == req[q].source IN
  /\ req[q].at = "row"
  /\ \E out \in Outcomes("delete") :
       IF Applied(out)
       THEN /\ status' = [status EXCEPT ![s] = "deleted"]
            /\ fileRows' = [fileRows EXCEPT ![s] = {}]
            /\ chunks' = {c \in chunks : c.source # s}
       ELSE UNCHANGED <<status, fileRows, chunks>>
  /\ req' = [req EXCEPT ![q] = IdleReq]
  /\ UNCHANGED <<upload, objects, vectors, settings, run, indexSem, touched>>

\* The workspace's embedding settings are saved with another target.
SetEmbedding ==
  /\ \E t \in Targets \ {settings} : settings' = t
  /\ UNCHANGED <<stores, upload, run, indexSem, req, touched>>

-----------------------------------------------------------------------------
(* The background run.                                                      *)

At(r, pc) == run[r].pc = pc
runOnly == <<stores, upload, settings, indexSem, req, touched>>

\* Mutant: the send on indexSem never blocks.
SlotFreeAlways == TRUE
SlotFree == indexSem < MaxConcurrent

\* Mutant: reingest deletes the chunks before it resolves the models.
FirstStepClears(r) == IF run[r].fresh THEN "resolve" ELSE "clearChunks"
FirstStep(r) == "resolve"

\* indexSem <- struct{}{}, before the run's context and its deadline exist.
Acquire(r) ==
  /\ At(r, "queued")
  /\ SlotFree
  /\ indexSem' = indexSem + 1
  /\ run' = [run EXCEPT ![r].pc = FirstStep(r)]
  /\ UNCHANGED <<stores, upload, settings, req, touched>>

\* The 10-minute context expires; nothing stops, but its calls now fail.
Expire(r) ==
  /\ "deadline" \in Failing
  /\ run[r].pc \in PipelineSteps \cup Settling
  /\ ~ run[r].late
  /\ run' = [run EXCEPT ![r].late = TRUE]
  /\ UNCHANGED runOnly

\* resolveModels: the embedder's target is read once for the whole run.
ResolveModels(r) ==
  /\ At(r, "resolve")
  /\ \E out \in RunOutcomes(r, "pipeline") \ {"lost"} :
       Proceed(r, out, [run[r] EXCEPT !.target = settings,
                          !.pc = IF run[r].fresh THEN "chunk" ELSE "clearChunks"])
  /\ UNCHANGED runOnly

ChunksOf(s) == {c \in chunks : c.source = s}

DeleteChunks(r) ==
  /\ At(r, "clearChunks")
  /\ \E out \in RunOutcomes(r, "pipeline") :
       /\ chunks' = IF Applied(out) THEN chunks \ ChunksOf(run[r].source) ELSE chunks
       /\ Proceed(r, out, [run[r] EXCEPT !.pc = "clearVectors"])
  /\ UNCHANGED <<status, upload, fileRows, objects, vectors, settings,
                 indexSem, req, touched>>

\* deleteSourceVectors, in the collection this run will write to.
\* Mutant: the previous generation's points are left.
VectorsKept(r) == vectors
VectorsCleared(r) == vectors \ VectorsIn(run[r].source, run[r].target)

ClearVectors(r) ==
  /\ At(r, "clearVectors")
  /\ \E out \in RunOutcomes(r, "pipeline") :
       /\ vectors' = IF Applied(out) THEN VectorsCleared(r) ELSE vectors
       /\ Proceed(r, out, [run[r] EXCEPT !.pc = "list"])
  /\ UNCHANGED <<status, upload, fileRows, objects, chunks, settings, indexSem,
                 req, touched>>

ListObjects(r) ==
  /\ At(r, "list")
  /\ \E out \in RunOutcomes(r, "pipeline") \ {"lost"} :
       Proceed(r, out, [run[r] EXCEPT !.pc = "download",
                                      !.todo = objects[run[r].source]])
  /\ UNCHANGED runOnly

\* runPipeline's loop: the next file, or the status write after the last one.
NextFile(todo) == IF todo = {} THEN "succeed" ELSE "chunk"

\* downloadToTemp of every listed key; a key deleted since then fails.
DownloadToTemp(r) ==
  /\ At(r, "download")
  /\ \E out \in IF run[r].todo \subseteq objects[run[r].source]
                THEN RunOutcomes(r, "pipeline") \ {"lost"} ELSE {"failed"} :
       Proceed(r, out, [run[r] EXCEPT !.pc = NextFile(run[r].todo)])
  /\ UNCHANGED runOnly

FileChunks(r, n) ==
  {[source |-> run[r].source, run |-> r, name |-> n, index |-> run[r].base + i,
    model |-> NoTarget] : i \in {j \in 0..Spans[n] : j < Spans[n]}}

\* The chunks table's foreign key and its UNIQUE (source_id, chunk_index).
ChunksFit(new) ==
  \A c \in new : /\ HasRow(c.source)
                 /\ \A d \in chunks : d.source = c.source => d.index # c.index

\* ChunkSource: the file's chunks are inserted in one transaction.  A file
\* without spans is done with that.
ChunkFile(r) ==
  /\ At(r, "chunk")
  /\ \E n \in run[r].todo :
       LET new == FileChunks(r, n)
           left == run[r].todo \ {n} IN
       \E out \in IF ChunksFit(new) THEN RunOutcomes(r, "pipeline") ELSE {"failed"} :
         /\ chunks' = IF Applied(out) THEN chunks \cup new ELSE chunks
         /\ Proceed(r, out,
              IF new = {} THEN [run[r] EXCEPT !.todo = left, !.pc = NextFile(left)]
              ELSE [run[r] EXCEPT !.todo = left, !.file = n, !.pc = "upsert"])
  /\ UNCHANGED <<status, upload, fileRows, objects, vectors, settings,
                 indexSem, req, touched>>

\* EmbedBatch and upsertChunkVectors: one point per chunk in memory, whether
\* or not its row is still there, in the collection the run resolved.
UpsertChunkVectors(r) ==
  /\ At(r, "upsert")
  /\ \E out \in RunOutcomes(r, "pipeline") :
       /\ vectors' = IF Applied(out)
            THEN vectors \cup {[source |-> c.source, run |-> r, index |-> c.index,
                                collection |-> run[r].target]
                                 : c \in FileChunks(r, run[r].file)}
            ELSE vectors
       /\ Proceed(r, out, [run[r] EXCEPT !.pc = "tag"])
  /\ UNCHANGED <<status, upload, fileRows, objects, chunks, settings, indexSem,
                 req, touched>>

\* Mutant: the model is resolved again instead of threaded through the run.
ModelOfNow(r) == settings
ModelOf(r) == run[r].target

\* total += len(chunks).
\* Mutant: the running total does not advance.
TotalStays(r) == run[r].base
TotalAfter(r) == run[r].base + Spans[run[r].file]

\* updateEmbeddingModel: the rows of the batch that are still there.
UpdateEmbeddingModel(r) ==
  LET batch == {c \in chunks : c.run = r /\ c.index >= run[r].base} IN
  /\ At(r, "tag")
  /\ \E out \in RunOutcomes(r, "pipeline") :
       /\ chunks' = IF Applied(out)
                    THEN (chunks \ batch) \cup
                         {[c EXCEPT !.model = ModelOf(r)] : c \in batch}
                    ELSE chunks
       /\ Proceed(r, out, [run[r] EXCEPT !.base = TotalAfter(r),
                             !.file = None, !.pc = NextFile(run[r].todo)])
  /\ UNCHANGED <<status, upload, fileRows, objects, vectors, settings,
                 indexSem, req, touched>>

\* updateStatus: a row that is gone is no error.
\* Mutant: the status write is forgotten.
StatusForgotten(s, v) == status
StatusWritten(s, v) == IF HasRow(s) THEN [status EXCEPT ![s] = v] ELSE status

\* The status write of either path; its failure is only logged.
SettleStatus(r) ==
  LET done == run[r].pc = "succeed" IN
  /\ run[r].pc \in Settling
  /\ \E out \in RunOutcomes(r, "status") :
       status' = IF Applied(out)
                 THEN StatusWritten(run[r].source, IF done THEN "indexed" ELSE "error")
                 ELSE status
  /\ run' = [run EXCEPT ![r].pc = "announce",
                        ![r].event = IF done THEN "done" ELSE "error"]
  /\ UNCHANGED <<upload, fileRows, objects, chunks, vectors, settings,
                 indexSem, req, touched>>

\* Mutant: a run that failed returns without the deferred release.
SlotsAfterLeak(r) == IF run[r].event = "error" THEN indexSem ELSE indexSem - 1
SlotsAfter(r) == indexSem - 1

\* The terminal event is published and the deferred release frees the slot.
Announce(r) ==
  /\ At(r, "announce")
  /\ run' = [run EXCEPT ![r] = EndedRun]
  /\ indexSem' = SlotsAfter(r)
  /\ UNCHANGED <<stores, upload, settings, req, touched>>

-----------------------------------------------------------------------------
\* The process dies at any point and starts again: goroutines, handlers and
\* the semaphore are gone.  ResetStuckIndexing runs before serving; startup
\* goes on when it fails.
Restart ==
  /\ "crash" \in Failing
  /\ \E out \in Outcomes("reset") :
       status' = IF Applied(out)
                 THEN [s \in Sources |-> IF status[s] = "indexing" THEN "error"
                                         ELSE status[s]]
                 ELSE status
  /\ run' = [r \in Runs |-> IF At(r, "idle") THEN IdleRun ELSE EndedRun]
  /\ req' = [q \in Requests |-> IdleReq]
  /\ indexSem' = 0
  /\ UNCHANGED <<upload, fileRows, objects, chunks, vectors, settings, touched>>

Handler(q) ==
  \/ BeginCreate(q) \/ StoreFile(q) \/ InsertSource(q) \/ InsertSourceFile(q)
  \/ Ingest(q) \/ ReindexWorkspace(q) \/ LoadSource(q)
  \/ ClaimAndLaunch(q) \/ RefuseClaim(q)
  \/ BeginDelete(q) \/ DeleteSourceVectors(q) \/ DeleteObject(q) \/ DeleteRow(q)

\* A run's own steps once it holds a slot.
RunStep(r) ==
  \/ ResolveModels(r)
  \/ DeleteChunks(r) \/ ClearVectors(r) \/ ListObjects(r) \/ DownloadToTemp(r)
  \/ ChunkFile(r) \/ UpsertChunkVectors(r) \/ UpdateEmbeddingModel(r)
  \/ SettleStatus(r) \/ Announce(r)

Next ==
  \/ \E q \in Requests : Handler(q)
  \/ \E r \in Runs : Acquire(r) \/ Expire(r) \/ RunStep(r)
  \/ SetEmbedding
  \/ Restart

Spec == Init /\ [][Next]_vars

\* Every call of a run returns: its context ends it after ten minutes.  Slots
\* are handed to waiting goroutines in the order they came.  A handler in the
\* middle of its inserts goes on with the next: its calls return or fail.
Fairness == /\ \A r \in Runs : WF_vars(RunStep(r)) /\ SF_vars(Acquire(r))
            /\ \A q \in Requests : WF_vars(InsertSourceFile(q))
FairSpec == Spec /\ Fairness

-----------------------------------------------------------------------------
(* Properties.                                                             *)

\* Every variable keeps its type; chunk and point ids are unique by
\* construction of the run that made them.
TypeOK ==
  /\ status \in [Sources -> Status]
  /\ upload \in [Sources -> SUBSET Parts]
  /\ fileRows \in [Sources -> SUBSET Names]
  /\ objects \in [Sources -> SUBSET Names]
  /\ chunks \subseteq Chunk
  /\ vectors \subseteq Vector
  /\ settings \in Targets
  /\ run \in [Runs -> RunState]
  /\ indexSem \in 0..MaxConcurrent
  /\ req \in [Requests -> ReqState]
  /\ touched \subseteq Sources

\* A Create that has inserted its row and will still launch the run.
Creates(q, s) == req[q].at = "fileRows" /\ req[q].source = s

\* Two goroutines never race on the chunks and vectors of one source: between
\* the claim and the status write a source has one holder, a run or the Create
\* that will launch it (claimForIndexing, service.go:221-224).  A holder's
\* source reads `indexing` as long as it has a row.
OneWorkerPerSource ==
  \A s \in Sources :
    /\ \A r1, r2 \in Runs : Works(r1, s) /\ Works(r2, s) => r1 = r2
    /\ \A r \in Runs, q \in Requests : ~ (Works(r, s) /\ Creates(q, s))
    /\ (\E r \in Runs : Works(r, s)) => status[s] \in {"indexing", "deleted"}

\* The run about to insert a file's chunks never meets a chunk_index that is
\* taken: the rows of earlier runs are gone and its own lie below BaseIndex
\* (runPipeline's running total against UNIQUE (source_id, chunk_index)).
NoIndexCollision ==
  \A r \in Runs : At(r, "chunk") =>
    \A c \in chunks : c.source = run[r].source => c.run = r /\ c.index < run[r].base

\* The chunks of one source never carry two embedding models, at any moment
\* of any run and across settings changes: models are resolved once per run
\* (ingestModels) and the rows of the run before are deleted first.
OneModelPerSource ==
  \A c, d \in chunks :
    c.source = d.source /\ NoTarget \notin {c.model, d.model} => c.model = d.model

\* A source shown as indexed is searchable in full: every file of the upload
\* has all its chunks, the indexes are distinct, and in the collection of the
\* model the rows name the source has exactly one point per chunk row.  Only a
\* Delete, begun and not finished, may have taken content away.
IndexedIsSearchable ==
  \A s \in Sources \ touched : status[s] = "indexed" =>
    /\ \A n \in NamesOf(upload[s]) :
         Cardinality({c \in ChunksOf(s) : c.name = n}) = Spans[n]
    /\ \A c, d \in ChunksOf(s) : c.index = d.index => c = d
    /\ \A c \in ChunksOf(s) :
         /\ c.model \in Targets
         /\ {<<v.run, v.index>> : v \in VectorsIn(s, c.model)}
              = {<<d.run, d.index>> : d \in ChunksOf(s)}

\* Delete removes the row last, so a row that is gone leaves no object behind
\* whatever else runs on the source (service.go:271-273).
RowGoesLast == \A s \in Sources : status[s] = "deleted" => objects[s] = {}

\* The semaphore counts the runs in the pipeline: no exit of a run, failure
\* included, keeps a slot or frees it twice (runIndexJob).
SlotsAreHeld == indexSem = Cardinality({r \in Runs : run[r].pc \in HoldingSlot})

\* A status of indexing has someone who will end it: "any source left in
\* indexing is a leftover from a crashed or restarted process"
\* (service.go:818-821).
IndexingIsOwned ==
  \A s \in Sources : status[s] = "indexing" =>
    (\E r \in Runs : Works(r, s)) \/ (\E q \in Requests : Creates(q, s))

\* A run announces done only when the source reads indexed, or is gone.
DoneMeansIndexed ==
  [][\A r \in Runs : run[r].event = "none" /\ run'[r].event = "done"
       => status'[run[r].source] \in {"indexed", "deleted"}]_vars

\* Reingest resolves its models before it deletes anything: what empties a
\* source of chunk rows is a run that knows where the new ones go, or the
\* removal of the row (service.go:466-468).
EmptiedOnlyAfterResolve ==
  [][\A s \in Sources : ChunksOf(s) \ chunks' # {} =>
       \/ status'[s] = "deleted"
       \/ \E r \in Runs : Works(r, s) /\ run[r].target # NoTarget]_vars

\* Every goroutine launched comes to its end, so it gets a slot in the end
\* and none keeps it for ever (runIndexJob, the 10-minute context).
EveryRunEnds == \A r \in Runs : run[r].pc = "queued" ~> run[r].pc = "ended"

\* A source does not stay indexing.
IndexingSettles ==
  \A s \in Sources : status[s] = "indexing" ~> status[s] # "indexing"

\* A source whose row is gone has no point in any collection: Delete removes
\* "its Qdrant vectors" (service.go:60-61).
DeletedHasNoVectors ==
  \A v \in vectors : status[v.source] # "deleted"

\* A source ReindexWorkspace skips as already indexing is "re-embedded by the
\* run already under way" (service.go:246-248) with the settings it was asked
\* to re-index for.  Only a ReindexWorkspace has a source left to do.
SkippedRunIsCurrent ==
  [][\A q \in Requests :
       RefuseClaim(q) /\ req[q].todo # {} /\ req[q].target = settings =>
       \A r \in Runs : Works(r, req[q].source) =>
         run[r].target \in {NoTarget, settings}]_vars

\* The lifecycle this pipeline implements, with the holder of a source for
\* its worker.
worker == [s \in Sources |->
  IF (\E r \in Runs : Works(r, s)) \/ (\E q \in Requests : Creates(q, s))
  THEN "busy" ELSE "free"]

Lifecycle == INSTANCE SourceLifecycle
LifecycleSpec == Lifecycle!Spec
=============================================================================
