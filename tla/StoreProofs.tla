---------------------------- MODULE StoreProofs ----------------------------
(***************************************************************************)
(* The three stores of Ingestion, for every value of its constants.  The   *)
(* rows of chunks: a run never meets an index that is taken, and a source  *)
(* never mixes two embedding models.  Objects, rows and points together:   *)
(* what a Delete leaves behind, when a source loses its rows, and that a   *)
(* source shown as indexed is searchable in full.                          *)
(***************************************************************************)
EXTENDS IngestionProofs

USE DEF RowStatus, Status, PipelineSteps, Settling, HoldingSlot, Live, At, Applied

-----------------------------------------------------------------------------
(* The inductive invariant.  What a run inserted belongs to its source; a   *)
(* source without a row, or with a Create still to launch, has no chunk;    *)
(* and the run that works on a source knows what lies in the table: nothing *)
(* once it has cleared it, then its own rows below its running total, with  *)
(* its own model.                                                           *)

ChunksAreOwned ==
  \A c \in chunks :
    /\ run[c.run].pc # "idle"
    /\ run[c.run].pc \in Live => run[c.run].source = c.source

NoChunkBefore ==
  \A c \in chunks :
    /\ status[c.source] # "unborn"
    /\ \A q \in Requests : ~ Creates(q, c.source)

\* How far the indexes of the run's rows go.
Reach(r) == IF run[r].pc = "chunk" THEN run[r].base
            ELSE run[r].base + Spans[run[r].file]

KnowsTable(r) ==
  /\ run[r].pc \in {"queued", "resolve", "clearChunks", "clearVectors", "list", "download"}
       => run[r].base = 0
  /\ \/ run[r].pc \in {"queued", "resolve"} /\ run[r].fresh
     \/ run[r].pc \in {"clearVectors", "list", "download"}
     => \A c \in chunks : c.source # run[r].source
  /\ run[r].pc \in {"chunk", "upsert", "tag"} =>
       \A c \in chunks : c.source = run[r].source =>
         c.run = r /\ c.index < Reach(r) /\ c.model \in {NoTarget, run[r].target}

Indexed == /\ ChunksAreOwned /\ NoChunkBefore /\ OneModelPerSource
           /\ \A r \in Runs : KnowsTable(r)

LEMMA InitIndexed == Init => Indexed
<1> SUFFICES ASSUME Init PROVE Indexed
  OBVIOUS
<1>1. chunks = {} /\ \A r \in Runs : run[r].pc = "idle"
  BY DEF Init, IdleRun
<1> QED
  BY <1>1 DEF Indexed, ChunksAreOwned, NoChunkBefore, OneModelPerSource, KnowsTable

\* Rows may go at any time, as long as none comes and no run moves.
LEMMA ShrinkIndexed ==
  ASSUME Indexed, UNCHANGED run, chunks' \subseteq chunks, NoChunkBefore'
  PROVE  Indexed'
<1>1. \A r \in Runs : KnowsTable(r)'
  BY DEF Indexed, KnowsTable, Reach
<1> QED
  BY <1>1 DEF Indexed, ChunksAreOwned, OneModelPerSource

\* A run is launched for a source; the one of a Create finds no chunk.
LEMMA LaunchIndexed ==
  ASSUME Shape, Indexed, NEW s \in Sources, NEW fresh \in BOOLEAN, Launch(s, fresh),
         UNCHANGED chunks, fresh => \A c \in chunks : c.source # s, NoChunkBefore'
  PROVE  Indexed'
<1>1. PICK r \in Runs : Launch(s, fresh)!(r)
  BY DEF Launch
<1> DEFINE new == [IdleRun EXCEPT !.pc = "queued", !.source = s, !.fresh = fresh,
                         !.todo = IF fresh THEN NamesOf(upload[s]) ELSE {}]
<1>2. new.pc = "queued" /\ new.source = s /\ new.fresh = fresh /\ new.base = 0
  BY DEF IdleRun
<1>3. /\ run[r].pc = "idle" /\ run'[r] = new
      /\ \A o \in Runs \ {r} : run'[o] = run[o]
  BY <1>1 DEF Shape, RunOK
<1> HIDE DEF new
<1>4. \A o \in Runs : KnowsTable(o)'
  BY <1>2, <1>3 DEF Indexed, KnowsTable, Reach
<1>5. ChunksAreOwned'
  BY <1>3 DEF Indexed, ChunksAreOwned, Shape, StoresOK, Chunk
<1> QED
  BY <1>4, <1>5 DEF Indexed, OneModelPerSource

\* A step of the run that works on s: it may change the rows of s only.
LEMMA WorkIndexed ==
  ASSUME Shape, Held, Indexed, NEW r \in Runs, NEW s \in Sources, Works(r, s),
         \A o \in Runs \ {r} : run'[o] = run[o],
         run'[r].source = s, run'[r].pc # "idle",
         \A c : c.source # s => (c \in chunks' <=> c \in chunks),
         chunks' \subseteq Chunk,
         \A c \in chunks' : c.source = s => c.run = r \/ c \in chunks,
         \A c, d \in chunks' : c.source = s /\ d.source = s
            /\ NoTarget \notin {c.model, d.model} => c.model = d.model,
         KnowsTable(r)', UNCHANGED req, status'[s] # "unborn",
         \A x \in Sources \ {s} : status'[x] = status[x]
  PROVE  Indexed'
<1>1. \A o \in Runs \ {r} : run[o].pc \in Live => run[o].source # s
  BY DEF Held, OneWorker, Works
<1>2. \A o \in Runs \ {r} : KnowsTable(o)'
  BY <1>1 DEF Indexed, KnowsTable, Reach
<1>3. ChunksAreOwned'
  BY DEF Indexed, ChunksAreOwned, Chunk, Works
<1>4. NoChunkBefore'
  <2>1. \A q \in Requests : ~ Creates(q, s)
    BY DEF Held, MakerXorWorker, Makes, Creates, Shape, ReqOK, ReqShape
  <2> QED
    BY <2>1 DEF Indexed, NoChunkBefore, Creates, Chunk
<1>5. OneModelPerSource'
  BY DEF Indexed, OneModelPerSource
<1> QED
  BY <1>2, <1>3, <1>4, <1>5 DEF Indexed

-----------------------------------------------------------------------------
(* The steps of a run.                                                      *)

\* Steps that leave the tables alone move the run's own knowledge only.
LEMMA MoveIndexed ==
  ASSUME Shape, Held, Indexed, NEW r \in Runs, NEW s \in Sources, Works(r, s),
         \A o \in Runs \ {r} : run'[o] = run[o],
         run'[r].source = s, run'[r].pc # "idle",
         UNCHANGED <<chunks, req>>, KnowsTable(r)', status'[s] # "unborn",
         \A x \in Sources \ {s} : status'[x] = status[x]
  PROVE  Indexed'
<1>1. chunks' \subseteq Chunk
  BY DEF Shape, StoresOK
<1>2. \A c, d \in chunks' : c.source = s /\ d.source = s
            /\ NoTarget \notin {c.model, d.model} => c.model = d.model
  BY DEF Indexed, OneModelPerSource
<1> QED
  BY <1>1, <1>2, WorkIndexed

\* What Proceed does to the runs.
LEMMA ProceedMeans ==
  ASSUME RunOK, NEW r \in Runs, NEW out, NEW next, Proceed(r, out, next)
  PROVE  /\ \A o \in Runs \ {r} : run'[o] = run[o]
         /\ out = "ok" => run'[r] = next
         /\ out # "ok" => /\ run'[r].pc = "fail"
                          /\ run'[r].source = run[r].source
  BY DEF Proceed, RunOK, RunState

LEMMA FailedKnows ==
  ASSUME NEW r \in Runs, run[r].pc \in {"fail", "succeed", "announce", "ended", "idle"}
  PROVE  KnowsTable(r)
  BY DEF KnowsTable

\* The source of a run in its pipeline.
LEMMA PipelineSource ==
  ASSUME Shape, Held, NEW r \in Runs, run[r].pc \in Live
  PROVE  /\ run[r] \in RunState /\ run[r].source \in Sources
         /\ Works(r, run[r].source) /\ status[run[r].source] # "unborn"
  BY DEF Shape, RunOK, RunShape, Works, Held, WorkedIsIndexing

\* Resolving, clearing the points, listing and downloading touch no row.
LEMMA QuietStepIndexed ==
  ASSUME Shape, Shape', Held, Indexed, NEW r \in Runs,
         ResolveModels(r) \/ ClearVectors(r) \/ ListObjects(r) \/ DownloadToTemp(r)
  PROVE  Indexed'
<1>0. run[r].pc \in {"resolve", "clearVectors", "list", "download"}
  BY DEF ResolveModels, ClearVectors, ListObjects, DownloadToTemp
<1>1. PICK s \in Sources : /\ s = run[r].source /\ Works(r, s) /\ status[s] # "unborn"
                           /\ run[r] \in RunState
  BY <1>0, PipelineSource
<1>2. UNCHANGED <<status, chunks, req>>
  BY DEF ResolveModels, ClearVectors, ListObjects, DownloadToTemp, runOnly, stores
<1>k. KnowsTable(r)
  BY DEF Indexed
<1>3. ASSUME NEW out, NEW next, Proceed(r, out, next), next.source = s,
             next.pc \in Live, out = "ok" => KnowsTable(r)'
      PROVE  Indexed'
  <2>1. /\ \A o \in Runs \ {r} : run'[o] = run[o]
        /\ out = "ok" => run'[r] = next
        /\ out # "ok" => run'[r].pc = "fail" /\ run'[r].source = s
    BY <1>1, <1>3, ProceedMeans DEF Shape
  <2>2. KnowsTable(r)'
    BY <1>3, <2>1 DEF KnowsTable
  <2> QED
    BY <1>1, <1>2, <1>3, <2>1, <2>2, MoveIndexed
<1>4. CASE ResolveModels(r)
  <2> DEFINE next == [run[r] EXCEPT !.target = settings,
                          !.pc = IF run[r].fresh THEN "chunk" ELSE "clearChunks"]
  <2>1. PICK out : Proceed(r, out, next)
    BY <1>4 DEF ResolveModels
  <2>2. /\ next.source = s /\ next.base = run[r].base /\ next.fresh = run[r].fresh
        /\ next.pc = IF run[r].fresh THEN "chunk" ELSE "clearChunks"
    BY <1>1 DEF RunState
  <2>3. out = "ok" => run'[r] = next
    BY <2>1, ProceedMeans DEF Shape
  <2>4. run[r].base = 0 /\ (run[r].fresh => \A c \in chunks : c.source # s)
    BY <1>1, <1>4, <1>k DEF ResolveModels, KnowsTable
  <2> HIDE DEF next
  <2>5. out = "ok" => KnowsTable(r)'
    BY <1>2, <2>2, <2>3, <2>4 DEF KnowsTable
  <2> QED
    BY <1>3, <2>1, <2>2, <2>5
<1>5. CASE ClearVectors(r)
  <2> DEFINE next == [run[r] EXCEPT !.pc = "list"]
  <2>1. PICK out : Proceed(r, out, next)
    BY <1>5 DEF ClearVectors
  <2>2. next.source = s /\ next.base = run[r].base /\ next.pc = "list"
    BY <1>1 DEF RunState
  <2>3. out = "ok" => run'[r] = next
    BY <2>1, ProceedMeans DEF Shape
  <2>4. run[r].base = 0 /\ \A c \in chunks : c.source # s
    BY <1>1, <1>5, <1>k DEF ClearVectors, KnowsTable
  <2> HIDE DEF next
  <2>5. out = "ok" => KnowsTable(r)'
    BY <1>2, <2>2, <2>3, <2>4 DEF KnowsTable
  <2> QED
    BY <1>3, <2>1, <2>2, <2>5
<1>6. CASE ListObjects(r)
  <2> DEFINE next == [run[r] EXCEPT !.pc = "download", !.todo = objects[run[r].source]]
  <2>1. PICK out : Proceed(r, out, next)
    BY <1>6 DEF ListObjects
  <2>2. next.source = s /\ next.base = run[r].base /\ next.pc = "download"
    BY <1>1 DEF RunState
  <2>3. out = "ok" => run'[r] = next
    BY <2>1, ProceedMeans DEF Shape
  <2>4. run[r].base = 0 /\ \A c \in chunks : c.source # s
    BY <1>1, <1>6, <1>k DEF ListObjects, KnowsTable
  <2> HIDE DEF next
  <2>5. out = "ok" => KnowsTable(r)'
    BY <1>2, <2>2, <2>3, <2>4 DEF KnowsTable
  <2> QED
    BY <1>3, <2>1, <2>2, <2>5
<1>7. CASE DownloadToTemp(r)
  <2> DEFINE next == [run[r] EXCEPT !.pc = NextFile(run[r].todo)]
  <2>1. PICK out : Proceed(r, out, next)
    BY <1>7 DEF DownloadToTemp
  <2>2. next.source = s /\ next.base = run[r].base /\ next.pc \in {"chunk", "succeed"}
    BY <1>1 DEF RunState, NextFile
  <2>3. out = "ok" => run'[r] = next
    BY <2>1, ProceedMeans DEF Shape
  <2>4. run[r].base = 0 /\ \A c \in chunks : c.source # s
    BY <1>1, <1>7, <1>k DEF DownloadToTemp, KnowsTable
  <2> HIDE DEF next
  <2>5. out = "ok" => KnowsTable(r)'
    BY <1>2, <2>2, <2>3, <2>4 DEF KnowsTable
  <2> QED
    BY <1>3, <2>1, <2>2, <2>5
<1> QED
  BY <1>4, <1>5, <1>6, <1>7

\* The run's source is emptied before anything is inserted.
LEMMA DeleteChunksIndexed ==
  ASSUME Shape, Shape', Held, Indexed, NEW r \in Runs, DeleteChunks(r)
  PROVE  Indexed'
<1>0. run[r].pc = "clearChunks"
  BY DEF DeleteChunks
<1>1. PICK s \in Sources : /\ s = run[r].source /\ Works(r, s) /\ status[s] # "unborn"
                           /\ run[r] \in RunState
  BY <1>0, PipelineSource
<1> DEFINE next == [run[r] EXCEPT !.pc = "clearVectors"]
<1>2. PICK out :
        /\ chunks' = IF out # "failed" THEN chunks \ ChunksOf(run[r].source) ELSE chunks
        /\ Proceed(r, out, next)
  BY DEF DeleteChunks
<1>3. next.source = s /\ next.base = run[r].base /\ next.pc = "clearVectors"
  BY <1>1 DEF RunState
<1>4. /\ \A o \in Runs \ {r} : run'[o] = run[o]
      /\ out = "ok" => run'[r] = next
      /\ out # "ok" => run'[r].pc = "fail" /\ run'[r].source = s
  BY <1>1, <1>2, ProceedMeans DEF Shape
<1> HIDE DEF next
<1>5. KnowsTable(r)'
  <2>1. run[r].base = 0
    BY <1>0 DEF Indexed, KnowsTable
  <2>2. CASE out = "ok"
    BY <1>1, <1>2, <1>3, <1>4, <2>1, <2>2 DEF KnowsTable, ChunksOf
  <2>3. CASE out # "ok"
    BY <1>4, <2>3 DEF KnowsTable
  <2> QED
    BY <2>2, <2>3
<1>6. /\ chunks' \subseteq chunks
      /\ \A c : c.source # s => (c \in chunks' <=> c \in chunks)
  BY <1>1, <1>2 DEF ChunksOf
<1>7. \A c, d \in chunks' : c.source = s /\ d.source = s
            /\ NoTarget \notin {c.model, d.model} => c.model = d.model
  BY <1>6 DEF Indexed, OneModelPerSource
<1>8. UNCHANGED <<status, req>> /\ chunks' \subseteq Chunk
  BY <1>6 DEF DeleteChunks, Shape, StoresOK
<1>9. run'[r].source = s /\ run'[r].pc # "idle"
  BY <1>3, <1>4
<1> QED
  BY <1>1, <1>4, <1>5, <1>6, <1>7, <1>8, <1>9, WorkIndexed

\* The new rows lie between the running total and the total after the file.
LEMMA ChunkFileIndexed ==
  ASSUME Shape, Shape', Held, Indexed, NEW r \in Runs, ChunkFile(r)
  PROVE  Indexed'
<1>0. run[r].pc = "chunk"
  BY DEF ChunkFile
<1>1. PICK s \in Sources : /\ s = run[r].source /\ Works(r, s) /\ status[s] # "unborn"
                           /\ run[r] \in RunState
  BY <1>0, PipelineSource
<1>2. PICK n, out :
          /\ n \in run[r].todo
          /\ chunks' = IF out # "failed" THEN chunks \cup FileChunks(r, n) ELSE chunks
          /\ Proceed(r, out,
              IF FileChunks(r, n) = {}
              THEN [run[r] EXCEPT !.todo = run[r].todo \ {n},
                                  !.pc = NextFile(run[r].todo \ {n})]
              ELSE [run[r] EXCEPT !.todo = run[r].todo \ {n}, !.file = n, !.pc = "upsert"])
  BY DEF ChunkFile
<1> DEFINE new == FileChunks(r, n)
           next == IF new = {}
              THEN [run[r] EXCEPT !.todo = run[r].todo \ {n},
                                  !.pc = NextFile(run[r].todo \ {n})]
              ELSE [run[r] EXCEPT !.todo = run[r].todo \ {n}, !.file = n, !.pc = "upsert"]
<1>3. /\ next.source = s /\ next.base = run[r].base /\ next.target = run[r].target
      /\ new = {} => next.pc \in {"chunk", "succeed"}
      /\ new # {} => next.pc = "upsert" /\ next.file = n
  BY <1>1 DEF RunState, NextFile
<1>4. /\ \A o \in Runs \ {r} : run'[o] = run[o]
      /\ out = "ok" => run'[r] = next
      /\ out # "ok" => run'[r].pc = "fail" /\ run'[r].source = s
  BY <1>1, <1>2, ProceedMeans DEF Shape
<1> HIDE DEF next
<1>n. n \in Names /\ Spans[n] \in Nat /\ run[r].base \in Nat
  BY <1>1, <1>2, IngestionAssumption DEF IngestionAssumption, RunState
<1>5. \A c \in new : /\ c.source = s /\ c.run = r /\ c.model = NoTarget
                     /\ c.index < run[r].base + Spans[n]
  BY <1>1, <1>n DEF FileChunks
<1>6. \A c \in chunks : c.source = s =>
         c.run = r /\ c.index < run[r].base /\ c.model \in {NoTarget, run[r].target}
  BY <1>0, <1>1 DEF Indexed, KnowsTable, Reach
<1>t. \A c \in chunks : c.index \in Nat
  BY DEF Shape, StoresOK, Chunk
<1>7. KnowsTable(r)'
  <2>1. CASE out # "ok"
    BY <1>4, <2>1 DEF KnowsTable
  <2>2. CASE out = "ok" /\ new = {}
    <3>1. chunks' = chunks
      BY <1>2, <2>2
    <3> QED
      BY <1>1, <1>3, <1>4, <1>6, <2>2, <3>1 DEF KnowsTable, Reach
  <2>3. CASE out = "ok" /\ new # {}
    <3>1. \A c \in chunks' : c.source = s =>
         c.run = r /\ c.index < run[r].base + Spans[n] /\ c.model \in {NoTarget, run[r].target}
      BY <1>2, <1>n, <1>t, <1>5, <1>6, <2>3
    <3> QED
      BY <1>1, <1>3, <1>4, <2>3, <3>1 DEF KnowsTable, Reach
  <2> QED
    BY <2>1, <2>2, <2>3
<1>8. /\ \A c : c.source # s => (c \in chunks' <=> c \in chunks)
      /\ \A c \in chunks' : c.source = s => c.run = r \/ c \in chunks
      /\ \A c, d \in chunks' : c.source = s /\ d.source = s
            /\ NoTarget \notin {c.model, d.model} => c.model = d.model
  BY <1>2, <1>5, <1>6
<1>9. UNCHANGED <<status, req>> /\ chunks' \subseteq Chunk
  BY DEF ChunkFile, Shape, StoresOK
<1>10. run'[r].source = s /\ run'[r].pc # "idle"
  BY <1>3, <1>4
<1> QED
  BY <1>1, <1>4, <1>7, <1>8, <1>9, <1>10, WorkIndexed

LEMMA UpsertIndexed ==
  ASSUME Shape, Shape', Held, Indexed, NEW r \in Runs, UpsertChunkVectors(r)
  PROVE  Indexed'
<1>0. run[r].pc = "upsert"
  BY DEF UpsertChunkVectors
<1>1. PICK s \in Sources : /\ s = run[r].source /\ Works(r, s) /\ status[s] # "unborn"
                           /\ run[r] \in RunState
  BY <1>0, PipelineSource
<1> DEFINE next == [run[r] EXCEPT !.pc = "tag"]
<1>2. PICK out : Proceed(r, out, next)
  BY DEF UpsertChunkVectors
<1>3. /\ next.source = s /\ next.base = run[r].base /\ next.pc = "tag"
      /\ next.target = run[r].target /\ next.file = run[r].file
  BY <1>1 DEF RunState
<1>4. /\ \A o \in Runs \ {r} : run'[o] = run[o]
      /\ out = "ok" => run'[r] = next
      /\ out # "ok" => run'[r].pc = "fail" /\ run'[r].source = s
  BY <1>1, <1>2, ProceedMeans DEF Shape
<1> HIDE DEF next
<1>5. UNCHANGED <<status, chunks, req>>
  BY DEF UpsertChunkVectors
<1>6. KnowsTable(r)'
  <2>1. CASE out # "ok"
    BY <1>4, <2>1 DEF KnowsTable
  <2>2. CASE out = "ok"
    <3>1. \A c \in chunks : c.source = s =>
            c.run = r /\ c.index < run[r].base + Spans[run[r].file]
              /\ c.model \in {NoTarget, run[r].target}
      BY <1>0, <1>1 DEF Indexed, KnowsTable, Reach
    <3> QED
      BY <1>3, <1>4, <1>5, <2>2, <3>1 DEF KnowsTable, Reach
  <2> QED
    BY <2>1, <2>2
<1>7. run'[r].source = s /\ run'[r].pc # "idle"
  BY <1>3, <1>4
<1> QED
  BY <1>1, <1>4, <1>5, <1>6, <1>7, MoveIndexed

\* The batch gets the model the whole run was given.
LEMMA TagIndexed ==
  ASSUME Shape, Shape', Held, Indexed, NEW r \in Runs, UpdateEmbeddingModel(r)
  PROVE  Indexed'
<1>0. run[r].pc = "tag"
  BY DEF UpdateEmbeddingModel
<1>1. PICK s \in Sources : /\ s = run[r].source /\ Works(r, s) /\ status[s] # "unborn"
                           /\ run[r] \in RunState
  BY <1>0, PipelineSource
<1> DEFINE next == [run[r] EXCEPT !.base = TotalAfter(r), !.file = None,
                                    !.pc = NextFile(run[r].todo)]
           batch == {c \in chunks : c.run = r /\ c.index >= run[r].base}
           tagged == {[c EXCEPT !.model = run[r].target] : c \in batch}
<1>2. PICK out : /\ chunks' = IF out # "failed" THEN (chunks \ batch) \cup tagged ELSE chunks
                 /\ Proceed(r, out, next)
  BY DEF UpdateEmbeddingModel, ModelOf
<1>3. /\ next.source = s /\ next.base = run[r].base + Spans[run[r].file]
      /\ next.pc \in {"chunk", "succeed"} /\ next.target = run[r].target
  BY <1>1 DEF RunState, TotalAfter, NextFile
<1>4. /\ \A o \in Runs \ {r} : run'[o] = run[o]
      /\ out = "ok" => run'[r] = next
      /\ out # "ok" => run'[r].pc = "fail" /\ run'[r].source = s
  BY <1>1, <1>2, ProceedMeans DEF Shape
<1> HIDE DEF next
<1>5. \A c \in chunks : c.source = s =>
         c.run = r /\ c.index < run[r].base + Spans[run[r].file]
           /\ c.model \in {NoTarget, run[r].target}
  BY <1>0, <1>1 DEF Indexed, KnowsTable, Reach
<1>6. \A c \in batch : c.source = s
  BY <1>0, <1>1 DEF Indexed, ChunksAreOwned
<1>7. \A c \in tagged : c.source = s /\ c.run = r /\ c.model = run[r].target
                       /\ c.index < run[r].base + Spans[run[r].file]
  <2> SUFFICES ASSUME NEW b \in batch, NEW c, c = [b EXCEPT !.model = run[r].target]
               PROVE  /\ c.source = s /\ c.run = r /\ c.model = run[r].target
                      /\ c.index < run[r].base + Spans[run[r].file]
    OBVIOUS
  <2>1. b \in Chunk /\ b \in chunks
    BY DEF Shape, StoresOK
  <2>2. c.source = b.source /\ c.run = b.run /\ c.index = b.index /\ c.model = run[r].target
    BY <2>1 DEF Chunk
  <2> QED
    BY <1>5, <1>6, <2>1, <2>2
<1> HIDE DEF tagged, batch
<1>8. \A c \in chunks' : c.source = s =>
         c.run = r /\ c.index < run[r].base + Spans[run[r].file]
           /\ c.model \in {NoTarget, run[r].target}
  BY <1>2, <1>5, <1>7
<1>9. KnowsTable(r)'
  <2>1. CASE out # "ok"
    BY <1>4, <2>1 DEF KnowsTable
  <2>2. CASE out = "ok"
    BY <1>3, <1>4, <1>8, <2>2 DEF KnowsTable, Reach
  <2> QED
    BY <2>1, <2>2
<1>10. \A c : c.source # s => (c \in chunks' <=> c \in chunks)
  BY <1>2, <1>6, <1>7
<1>11. \A c, d \in chunks' : c.source = s /\ d.source = s
            /\ NoTarget \notin {c.model, d.model} => c.model = d.model
  BY <1>8
<1>12. UNCHANGED <<status, req>> /\ chunks' \subseteq Chunk
  BY DEF UpdateEmbeddingModel, Shape, StoresOK
<1>13. run'[r].source = s /\ run'[r].pc # "idle"
  BY <1>3, <1>4
<1> QED
  BY <1>1, <1>4, <1>8, <1>9, <1>10, <1>11, <1>12, <1>13, WorkIndexed

\* The status write changes the row, not what lies in the tables.
LEMMA SettleIndexed ==
  ASSUME Shape, Shape', Held, Indexed, NEW r \in Runs, SettleStatus(r)
  PROVE  Indexed'
<1>1. PICK s \in Sources : /\ s = run[r].source /\ Works(r, s) /\ status[s] # "unborn"
                           /\ run[r] \in RunState
  BY PipelineSource DEF SettleStatus
<1>2. /\ \A o \in Runs \ {r} : run'[o] = run[o]
      /\ run'[r].source = s /\ run'[r].pc = "announce"
      /\ UNCHANGED <<chunks, req>>
  BY <1>1 DEF SettleStatus, Shape, RunOK, RunState
<1>3. status'[s] # "unborn" /\ \A x \in Sources \ {s} : status'[x] = status[x]
  BY <1>1 DEF SettleStatus, StatusWritten, Shape, StoresOK
<1>4. KnowsTable(r)'
  BY <1>2 DEF KnowsTable
<1> QED
  BY <1>1, <1>2, <1>3, <1>4, MoveIndexed

LEMMA SlotStepIndexed ==
  ASSUME Shape, Shape', Held, Indexed, NEW r \in Runs,
         Acquire(r) \/ Expire(r) \/ Announce(r)
  PROVE  Indexed'
<1>u. UNCHANGED <<status, chunks, req>>
  BY DEF Acquire, Expire, Announce, stores, runOnly
<1>k. KnowsTable(r)
  BY DEF Indexed
<1>1. CASE Acquire(r)
  <2>1. PICK s \in Sources : /\ s = run[r].source /\ Works(r, s) /\ status[s] # "unborn"
                             /\ run[r] \in RunState
    BY <1>1, PipelineSource DEF Acquire
  <2>2. /\ \A o \in Runs \ {r} : run'[o] = run[o]
        /\ run[r].pc = "queued" /\ run'[r].pc = "resolve" /\ run'[r].source = s
        /\ run'[r].fresh = run[r].fresh /\ run'[r].base = run[r].base
    BY <1>1, <2>1 DEF Acquire, FirstStep, Shape, RunOK, RunState
  <2>3. KnowsTable(r)'
    BY <1>u, <1>k, <2>1, <2>2 DEF KnowsTable
  <2> QED
    BY <1>u, <2>1, <2>2, <2>3, MoveIndexed
<1>2. CASE Expire(r)
  <2>1. PICK s \in Sources : /\ s = run[r].source /\ Works(r, s) /\ status[s] # "unborn"
                             /\ run[r] \in RunState
    BY <1>2, PipelineSource DEF Expire
  <2> DEFINE late == [run[r] EXCEPT !.late = TRUE]
  <2>2. /\ \A o \in Runs \ {r} : run'[o] = run[o]
        /\ run'[r] = late
    BY <1>2 DEF Expire, Shape, RunOK
  <2>3. /\ late.pc = run[r].pc /\ late.source = s /\ late.fresh = run[r].fresh
        /\ late.base = run[r].base /\ late.target = run[r].target /\ late.file = run[r].file
    BY <2>1 DEF RunState
  <2> HIDE DEF late
  <2>4. KnowsTable(r)'
    BY <1>u, <1>k, <2>1, <2>2, <2>3 DEF KnowsTable, Reach
  <2>5. run[r].pc # "idle"
    BY <1>2 DEF Expire
  <2> QED
    BY <1>u, <2>1, <2>2, <2>3, <2>4, <2>5, MoveIndexed
<1>3. CASE Announce(r)
  <2>1. /\ \A o \in Runs \ {r} : run'[o] = run[o]
        /\ run'[r].pc = "ended"
    BY <1>3 DEF Announce, EndedRun, IdleRun, Shape, RunOK
  <2>2. \A o \in Runs : KnowsTable(o)'
    BY <1>u, <2>1 DEF Indexed, KnowsTable, Reach
  <2>3. ChunksAreOwned'
    BY <1>u, <2>1 DEF Indexed, ChunksAreOwned, Shape, StoresOK, Chunk
  <2>4. NoChunkBefore' /\ OneModelPerSource'
    BY <1>u DEF Indexed, NoChunkBefore, OneModelPerSource, Creates
  <2> QED
    BY <2>2, <2>3, <2>4 DEF Indexed
<1> QED
  BY <1>1, <1>2, <1>3

-----------------------------------------------------------------------------
(* The steps of a handler, and the rest.                                    *)

\* A handler that adds no row and launches nothing: the only new maker of a
\* row is a Create whose source had none.
LEMMA HandlerIndexed ==
  ASSUME Shape, Shape', Held, Indexed, NEW q \in Requests, Handler(q),
         ~ InsertSourceFile(q), ~ ClaimAndLaunch(q)
  PROVE  Indexed'
<1>0. req[q] \in ReqState /\ req \in [Requests -> ReqState]
  BY DEF Shape, ReqOK
<1>1. /\ UNCHANGED run /\ chunks' \subseteq chunks
      /\ \A o \in Requests \ {q} : req'[o] = req[o]
  BY <1>0 DEF Handler, BeginCreate, StoreFile, InsertSource, Ingest, ReindexWorkspace, BeginIngest,
     LoadSource, RefuseClaim, BeginDelete, DeleteSourceVectors, DeleteObject, DeleteRow,
     stores, Reply
<1>2. CASE InsertSource(q)
  <2>1. PICK s \in Sources : s = req[q].source /\ Makes(q, s) /\ status[s] = "unborn"
    BY <1>2 DEF InsertSource, Makes, Shape, ReqOK, ReqShape, Held, MakerSeesRow
  <2>2. \A c \in chunks : c.source # s
    BY <2>1 DEF Indexed, NoChunkBefore
  <2>3. \A x \in Sources \ {s} : status'[x] = status[x]
    BY <1>2, <2>1 DEF InsertSource, Shape, StoresOK
  <2>4. \A x \in Sources \ {s} : ~ Creates(q, x)'
    <3> DEFINE next == [req[q] EXCEPT !.at = "fileRows", !.parts = upload[req[q].source]]
    <3>1. next.source = s /\ IdleReq.at = "start"
      BY <1>0, <2>1 DEF ReqState, IdleReq
    <3>2. req'[q] = next \/ req'[q] = IdleReq
      BY <1>0, <1>2 DEF InsertSource, Reply
    <3> QED
      BY <3>1, <3>2 DEF Creates
  <2>5. NoChunkBefore'
    BY <1>1, <2>2, <2>3, <2>4 DEF Indexed, NoChunkBefore, Creates, Shape, StoresOK, Chunk
  <2> QED
    BY <1>1, <2>5, ShrinkIndexed
<1>3. CASE ~ InsertSource(q)
  <2>1. req'[q].at # "fileRows"
    <3>i. IdleReq.at = "start"
      BY DEF IdleReq
    <3>1. CASE BeginCreate(q)
      BY <1>0, <3>1 DEF BeginCreate, IdleReq
    <3>2. ASSUME NEW S, BeginIngest(q, S) PROVE req'[q].at # "fileRows"
      BY <1>0, <3>2 DEF BeginIngest, IdleReq
    <3>3. ASSUME NEW out, NEW next, next.at # "fileRows", Reply(q, out, next)
          PROVE  req'[q].at # "fileRows"
      BY <1>0, <3>i, <3>3 DEF Reply
    <3>4. CASE StoreFile(q)
      <4>1. PICK next, p, out :
              /\ Reply(q, out, next)
              /\ next = [req[q] EXCEPT !.parts = req[q].parts \ {p},
                           !.at = IF req[q].parts \ {p} = {} THEN "insert" ELSE "store"]
        BY <3>4 DEF StoreFile
      <4>2. next.at # "fileRows"
        BY <1>0, <4>1 DEF ReqState
      <4> QED
        BY <3>3, <4>1, <4>2
    <3>5. CASE LoadSource(q)
      <4>1. PICK x, out : Reply(q, out,
               [req[q] EXCEPT !.at = "claim", !.source = x, !.todo = req[q].todo \ {x}])
        BY <3>5 DEF LoadSource
      <4>2. [req[q] EXCEPT !.at = "claim", !.source = x, !.todo = req[q].todo \ {x}].at = "claim"
        BY <1>0 DEF ReqState
      <4> QED
        BY <3>3, <4>1, <4>2
    <3>6. CASE RefuseClaim(q)
      BY <1>0, <3>i, <3>6 DEF RefuseClaim, NextSource, ReqState
    <3>7. CASE BeginDelete(q) \/ DeleteRow(q)
      <4>1. CASE BeginDelete(q)
        <5>1. PICK x : req' = [req EXCEPT ![q] = [IdleReq EXCEPT !.op = "delete",
                                 !.at = "vectors", !.source = x, !.target = settings]]
          BY <4>1 DEF BeginDelete
        <5> QED
          BY <1>0, <5>1 DEF IdleReq
      <4>2. CASE DeleteRow(q)
        BY <1>0, <3>i, <4>2 DEF DeleteRow
      <4> QED
        BY <3>7, <4>1, <4>2
    <3>8. CASE DeleteSourceVectors(q)
      <4>1. PICK out : Reply(q, out, [req[q] EXCEPT !.keys = objects[req[q].source],
                           !.at = AfterVectors(req[q].source)])
        BY <3>8 DEF DeleteSourceVectors
      <4>2. [req[q] EXCEPT !.keys = objects[req[q].source],
                           !.at = AfterVectors(req[q].source)].at # "fileRows"
        BY <1>0 DEF ReqState, AfterVectors
      <4> QED
        BY <3>3, <4>1, <4>2
    <3>9. CASE DeleteObject(q)
      <4>1. PICK next, k, out :
              /\ Reply(q, out, next)
              /\ next = [req[q] EXCEPT !.keys = req[q].keys \ {k},
                           !.at = IF req[q].keys \ {k} = {} THEN "row" ELSE "objects"]
        BY <3>9 DEF DeleteObject
      <4>2. next.at # "fileRows"
        BY <1>0, <4>1 DEF ReqState
      <4> QED
        BY <3>3, <4>1, <4>2
    <3> QED
      BY <1>3, <3>1, <3>2, <3>4, <3>5, <3>6, <3>7, <3>8, <3>9
         DEF Handler, Ingest, ReindexWorkspace
  <2>2. \A x \in Sources : status'[x] = "unborn" => status[x] = "unborn"
    BY <1>3 DEF Handler, BeginCreate, StoreFile, Ingest, ReindexWorkspace, BeginIngest,
       LoadSource, RefuseClaim, BeginDelete, DeleteSourceVectors, DeleteObject, DeleteRow,
       stores, Shape, StoresOK
  <2>3. NoChunkBefore'
    BY <1>1, <2>1, <2>2 DEF Indexed, NoChunkBefore, Creates, Shape, StoresOK, Chunk
  <2> QED
    BY <1>1, <2>3, ShrinkIndexed
<1> QED
  BY <1>2, <1>3

\* The two handlers that may launch a run.
LEMMA LauncherIndexed ==
  ASSUME Shape, Shape', Held, Held', Indexed, NEW q \in Requests,
         InsertSourceFile(q) \/ ClaimAndLaunch(q)
  PROVE  Indexed'
<1>0. req[q] \in ReqState /\ req \in [Requests -> ReqState] /\ IdleReq.at = "start"
  BY DEF Shape, ReqOK, IdleReq
<1>1. PICK s \in Sources : s = req[q].source
  BY DEF InsertSourceFile, ClaimAndLaunch, Shape, ReqOK, ReqShape
<1>2. CASE InsertSourceFile(q)
  <2>1. Creates(q, s) /\ UNCHANGED <<status, chunks>>
    BY <1>1, <1>2 DEF InsertSourceFile, Creates
  <2>2. \A o \in Requests, x \in Sources : Creates(o, x)' => Creates(o, x)
    <3>1. PICK p, out : Reply(q, out, IF req[q].parts \ {p} = {} THEN IdleReq
                          ELSE [req[q] EXCEPT !.parts = req[q].parts \ {p}])
      BY <1>2 DEF InsertSourceFile
    <3>2. /\ \A o \in Requests \ {q} : req'[o] = req[o]
          /\ req'[q].at = "fileRows" => req'[q].source = s
      BY <1>0, <1>1, <3>1 DEF Reply, ReqState
    <3> QED
      BY <2>1, <3>2 DEF Creates
  <2>3. NoChunkBefore'
    BY <2>1, <2>2 DEF Indexed, NoChunkBefore, Shape, StoresOK, Chunk
  <2>4. CASE UNCHANGED run
    BY <2>1, <2>3, <2>4, ShrinkIndexed
  <2>5. CASE Launch(s, TRUE)
    <3>1. \A c \in chunks : c.source # s
      BY <2>1 DEF Indexed, NoChunkBefore
    <3> QED
      BY <2>1, <2>3, <2>5, <3>1, LaunchIndexed
  <2> QED
    BY <1>1, <1>2, <2>4, <2>5 DEF InsertSourceFile
<1>3. CASE ClaimAndLaunch(q)
  <2>1. /\ UNCHANGED chunks
        /\ \A x \in Sources : status'[x] = "unborn" => status[x] = "unborn"
    BY <1>1, <1>3 DEF ClaimAndLaunch, Shape, StoresOK
  <2>2. \A o \in Requests, x \in Sources : Creates(o, x)' => Creates(o, x)
    <3>1. NextSource(q).at # "fileRows"
      BY <1>0, <1>3 DEF ClaimAndLaunch, NextSource, ReqState
    <3> QED
      BY <1>0, <1>3, <3>1 DEF ClaimAndLaunch, Reply, Creates
  <2>3. NoChunkBefore'
    BY <2>1, <2>2 DEF Indexed, NoChunkBefore, Shape, StoresOK, Chunk
  <2>4. CASE UNCHANGED run
    BY <2>1, <2>3, <2>4, ShrinkIndexed
  <2>5. CASE Launch(s, FALSE)
    BY <2>1, <2>3, <2>5, LaunchIndexed
  <2> QED
    BY <1>1, <1>3, <2>4, <2>5 DEF ClaimAndLaunch
<1> QED
  BY <1>2, <1>3

LEMMA RestartIndexed ==
  ASSUME Shape, Shape', Indexed, Restart
  PROVE  Indexed'
<1>1. /\ UNCHANGED chunks
      /\ \A r \in Runs : run'[r].pc \in {"idle", "ended"} /\ (run'[r].pc = "idle" => run[r].pc = "idle")
      /\ \A q \in Requests, x \in Sources : ~ Creates(q, x)'
      /\ \A x \in Sources : status'[x] = "unborn" => status[x] = "unborn"
  BY DEF Restart, IdleRun, EndedRun, IdleReq, Creates, Shape, StoresOK
<1>2. ChunksAreOwned' /\ NoChunkBefore'
  BY <1>1 DEF Indexed, ChunksAreOwned, NoChunkBefore, Shape, StoresOK, Chunk
<1>3. \A r \in Runs : KnowsTable(r)'
  BY <1>1 DEF KnowsTable
<1> QED
  BY <1>1, <1>2, <1>3 DEF Indexed, OneModelPerSource

-----------------------------------------------------------------------------
(* The theorems.                                                            *)

LEMMA IndexedInvariant == Spec => []Indexed
<1>1. ASSUME Shape, Shape', Held, Held', Indexed, [Next]_vars
      PROVE  Indexed'
  <2>1. CASE UNCHANGED vars
    BY <1>1, <2>1, ShrinkIndexed DEF vars, Indexed, NoChunkBefore, Creates
  <2>2. CASE SetEmbedding
    BY <1>1, <2>2, ShrinkIndexed DEF SetEmbedding, stores, Indexed, NoChunkBefore, Creates
  <2>3. ASSUME NEW q \in Requests, Handler(q)
        PROVE  Indexed'
    BY <1>1, <2>3, HandlerIndexed, LauncherIndexed
  <2>4. ASSUME NEW r \in Runs, Acquire(r) \/ Expire(r) \/ RunStep(r)
        PROVE  Indexed'
    BY <1>1, <2>4, QuietStepIndexed, DeleteChunksIndexed, ChunkFileIndexed, UpsertIndexed,
       TagIndexed, SettleIndexed, SlotStepIndexed DEF RunStep
  <2> QED
    BY <1>1, <2>1, <2>2, <2>3, <2>4, RestartIndexed DEF Next
<1> QED
  BY <1>1, InitIndexed, ShapeInvariant, HeldInvariant, PTL DEF Spec

\* A run about to insert a file's chunks meets no row of an earlier run and
\* none of its own at or above its running total, so the table's UNIQUE
\* (source_id, chunk_index) never refuses it.
THEOREM IndexesAreFree == Spec => []NoIndexCollision
<1>1. Indexed => NoIndexCollision
  BY DEF Indexed, KnowsTable, Reach, NoIndexCollision
<1> QED
  BY <1>1, IndexedInvariant, PTL

\* The chunks of a source never carry two embedding models, whenever the
\* settings change and wherever a run stops.
THEOREM OneModel == Spec => []OneModelPerSource
<1>1. Indexed => OneModelPerSource
  BY DEF Indexed
<1> QED
  BY <1>1, IndexedInvariant, PTL

-----------------------------------------------------------------------------
(* What the step of a handler makes of its request, whichever way its call  *)
(* comes out.                                                               *)

LEMMA IdleMeans ==
  /\ IdleReq.op = "idle" /\ IdleReq.at = "start" /\ IdleReq.parts = {}
  BY DEF IdleReq

LEMMA StoreFileMeans ==
  ASSUME Shape, NEW q \in Requests, StoreFile(q)
  PROVE  \E p \in req[q].parts, out \in Outcomes("store") :
           /\ req[q].op = "create" /\ req[q].at = "store" /\ req[q].source \in Sources
           /\ objects' = IF out # "failed"
                THEN [objects EXCEPT ![req[q].source] = @ \cup {NameOf[p]}] ELSE objects
           /\ \A o \in Requests \ {q} : req'[o] = req[o]
           /\ out # "ok" => req'[q].op = "idle" /\ req'[q].at = "start"
           /\ out = "ok" =>
                /\ req'[q].op = "create" /\ req'[q].source = req[q].source
                /\ req'[q].parts = req[q].parts \ {p}
                /\ req'[q].at = IF req[q].parts \ {p} = {} THEN "insert" ELSE "store"
<1>1. PICK p \in req[q].parts, out \in Outcomes("store") :
         /\ objects' = IF out # "failed"
              THEN [objects EXCEPT ![req[q].source] = @ \cup {NameOf[p]}] ELSE objects
         /\ Reply(q, out, [req[q] EXCEPT !.parts = req[q].parts \ {p},
                           !.at = IF req[q].parts \ {p} = {} THEN "insert" ELSE "store"])
  BY DEF StoreFile
<1> DEFINE next == [req[q] EXCEPT !.parts = req[q].parts \ {p},
                  !.at = IF req[q].parts \ {p} = {} THEN "insert" ELSE "store"]
<1>2. /\ req[q].op = "create" /\ req[q].at = "store" /\ req[q].source \in Sources
      /\ next.op = "create" /\ next.source = req[q].source
      /\ next.parts = req[q].parts \ {p}
      /\ next.at = IF req[q].parts \ {p} = {} THEN "insert" ELSE "store"
  BY DEF StoreFile, Shape, ReqOK, ReqShape, ReqState
<1>3. /\ \A o \in Requests \ {q} : req'[o] = req[o]
      /\ req'[q] = IF out = "ok" THEN next ELSE IdleReq
  BY <1>1, ReplyOthers DEF Shape
<1> HIDE DEF next
<1> QED
  BY <1>1, <1>2, <1>3, IdleMeans

LEMMA DeleteVectorsMeans ==
  ASSUME Shape, NEW q \in Requests, DeleteSourceVectors(q)
  PROVE  \E out \in Outcomes("delete") :
           /\ req[q].op \notin {"create", "idle"} /\ req[q].at = "vectors" /\ req[q].source \in Sources
           /\ vectors' = IF out # "failed"
                THEN vectors \ VectorsIn(req[q].source, req[q].target) ELSE vectors
           /\ touched' = IF out # "failed" THEN touched \cup {req[q].source} ELSE touched
           /\ \A o \in Requests \ {q} : req'[o] = req[o]
           /\ out # "ok" => req'[q].op = "idle" /\ req'[q].at = "start"
           /\ out = "ok" =>
                /\ req'[q].op = req[q].op /\ req'[q].source = req[q].source
                /\ req'[q].keys = objects[req[q].source]
                /\ req'[q].at = IF objects[req[q].source] = {} THEN "row" ELSE "objects"
<1>1. PICK out \in Outcomes("delete") :
         /\ vectors' = IF out # "failed"
              THEN vectors \ VectorsIn(req[q].source, req[q].target) ELSE vectors
         /\ touched' = IF out # "failed" THEN touched \cup {req[q].source} ELSE touched
         /\ Reply(q, out, [req[q] EXCEPT !.keys = objects[req[q].source],
                           !.at = AfterVectors(req[q].source)])
  BY DEF DeleteSourceVectors
<1> DEFINE next == [req[q] EXCEPT !.keys = objects[req[q].source],
                           !.at = AfterVectors(req[q].source)]
<1>2. /\ req[q].op \notin {"create", "idle"} /\ req[q].at = "vectors" /\ req[q].source \in Sources
      /\ next.op = req[q].op /\ next.source = req[q].source
      /\ next.keys = objects[req[q].source]
      /\ next.at = IF objects[req[q].source] = {} THEN "row" ELSE "objects"
  BY DEF DeleteSourceVectors, Shape, ReqOK, ReqShape, ReqState, AfterVectors
<1>3. /\ \A o \in Requests \ {q} : req'[o] = req[o]
      /\ req'[q] = IF out = "ok" THEN next ELSE IdleReq
  BY <1>1, ReplyOthers DEF Shape
<1> HIDE DEF next
<1> QED
  BY <1>1, <1>2, <1>3, IdleMeans

LEMMA DeleteObjectMeans ==
  ASSUME Shape, NEW q \in Requests, DeleteObject(q)
  PROVE  \E k \in req[q].keys, out \in Outcomes("delete") :
           /\ req[q].at = "objects" /\ req[q].source \in Sources
           /\ objects' = IF out # "failed"
                THEN [objects EXCEPT ![req[q].source] = @ \ {k}] ELSE objects
           /\ \A o \in Requests \ {q} : req'[o] = req[o]
           /\ out # "ok" => req'[q].op = "idle" /\ req'[q].at = "start"
           /\ out = "ok" =>
                /\ req'[q].op = req[q].op /\ req'[q].source = req[q].source
                /\ req'[q].keys = req[q].keys \ {k}
                /\ req'[q].at = IF req[q].keys \ {k} = {} THEN "row" ELSE "objects"
<1>1. PICK k \in req[q].keys, out \in Outcomes("delete") :
         /\ objects' = IF out # "failed"
              THEN [objects EXCEPT ![req[q].source] = @ \ {k}] ELSE objects
         /\ Reply(q, out, [req[q] EXCEPT !.keys = req[q].keys \ {k},
                           !.at = IF req[q].keys \ {k} = {} THEN "row" ELSE "objects"])
  BY DEF DeleteObject
<1> DEFINE next == [req[q] EXCEPT !.keys = req[q].keys \ {k},
                  !.at = IF req[q].keys \ {k} = {} THEN "row" ELSE "objects"]
<1>2. /\ req[q].at = "objects" /\ req[q].source \in Sources
      /\ next.op = req[q].op /\ next.source = req[q].source
      /\ next.keys = req[q].keys \ {k}
      /\ next.at = IF req[q].keys \ {k} = {} THEN "row" ELSE "objects"
  BY DEF DeleteObject, Shape, ReqOK, ReqShape, ReqState
<1>3. /\ \A o \in Requests \ {q} : req'[o] = req[o]
      /\ req'[q] = IF out = "ok" THEN next ELSE IdleReq
  BY <1>1, ReplyOthers DEF Shape
<1> HIDE DEF next
<1> QED
  BY <1>1, <1>2, <1>3, IdleMeans

LEMMA BeginCreateMeans ==
  ASSUME Shape, NEW q \in Requests, BeginCreate(q)
  PROVE  \E s \in Sources, P \in (SUBSET Parts) \ {{}} :
           /\ upload[s] = {} /\ upload' = [upload EXCEPT ![s] = P]
           /\ \A o \in Requests \ {q} : req'[o] = req[o]
           /\ req'[q].op = "create" /\ req'[q].at = "store" /\ req'[q].source = s
           /\ req'[q].parts = P
<1>1. PICK s \in Sources, P \in (SUBSET Parts) \ {{}} :
         /\ upload[s] = {} /\ upload' = [upload EXCEPT ![s] = P]
         /\ req' = [req EXCEPT ![q] = [IdleReq EXCEPT !.op = "create",
                      !.at = "store", !.source = s, !.parts = P]]
  BY DEF BeginCreate
<1> DEFINE next == [IdleReq EXCEPT !.op = "create", !.at = "store", !.source = s, !.parts = P]
<1>2. next.op = "create" /\ next.at = "store" /\ next.source = s /\ next.parts = P
  BY DEF IdleReq
<1>3. /\ \A o \in Requests \ {q} : req'[o] = req[o]
      /\ req'[q] = next
  BY <1>1 DEF Shape, ReqOK
<1> HIDE DEF next
<1> QED
  BY <1>1, <1>2, <1>3

LEMMA InsertSourceMeans ==
  ASSUME Shape, Held, NEW q \in Requests, InsertSource(q)
  PROVE  \E s \in Sources, out \in Outcomes("insert") :
           /\ Makes(q, s) /\ req[q].at = "insert" /\ status[s] = "unborn"
           /\ status' = IF out # "failed" THEN [status EXCEPT ![s] = "indexing"] ELSE status
           /\ \A o \in Requests \ {q} : req'[o] = req[o]
           /\ out # "ok" => req'[q].op = "idle" /\ req'[q].at = "start"
           /\ out = "ok" =>
                req'[q].op = "create" /\ req'[q].at = "fileRows" /\ req'[q].source = s
<1>0. PICK s \in Sources : s = req[q].source
  BY DEF InsertSource, Shape, ReqOK, ReqShape
<1>1. PICK out \in Outcomes("insert") :
         /\ status' = IF out # "failed" THEN [status EXCEPT ![s] = "indexing"] ELSE status
         /\ Reply(q, out, [req[q] EXCEPT !.at = "fileRows", !.parts = upload[s]])
  BY <1>0 DEF InsertSource
<1> DEFINE next == [req[q] EXCEPT !.at = "fileRows", !.parts = upload[s]]
<1>2. /\ Makes(q, s) /\ req[q].at = "insert"
      /\ next.op = "create" /\ next.at = "fileRows" /\ next.source = s
  BY <1>0 DEF InsertSource, Makes, Shape, ReqOK, ReqShape, ReqState
<1>3. /\ \A o \in Requests \ {q} : req'[o] = req[o]
      /\ req'[q] = IF out = "ok" THEN next ELSE IdleReq
  BY <1>1, ReplyOthers DEF Shape
<1>4. status[s] = "unborn"
  BY <1>2 DEF Held, MakerSeesRow
<1> HIDE DEF next
<1> QED
  BY <1>1, <1>2, <1>3, <1>4, IdleMeans

LEMMA InsertSourceFileMeans ==
  ASSUME Shape, NEW q \in Requests, InsertSourceFile(q)
  PROVE  \E s \in Sources :
           /\ Makes(q, s) /\ Creates(q, s)
           /\ UNCHANGED run \/ Launch(s, TRUE)
           /\ \A o \in Requests \ {q} : req'[o] = req[o]
           /\ \/ req'[q].op = "idle" /\ req'[q].at = "start"
              \/ req'[q].op = "create" /\ req'[q].at = "fileRows" /\ req'[q].source = s
<1>0. PICK s \in Sources : s = req[q].source
  BY DEF InsertSourceFile, Shape, ReqOK, ReqShape
<1>1. PICK p, out :
         /\ Reply(q, out, IF req[q].parts \ {p} = {} THEN IdleReq
                          ELSE [req[q] EXCEPT !.parts = req[q].parts \ {p}])
         /\ UNCHANGED run \/ Launch(s, TRUE)
  BY <1>0 DEF InsertSourceFile
<1> DEFINE more == [req[q] EXCEPT !.parts = req[q].parts \ {p}]
<1>2. /\ Makes(q, s) /\ Creates(q, s)
      /\ more.op = "create" /\ more.at = "fileRows" /\ more.source = s
  BY <1>0 DEF InsertSourceFile, Makes, Creates, Shape, ReqOK, ReqShape, ReqState
<1>3. /\ \A o \in Requests \ {q} : req'[o] = req[o]
      /\ req'[q] \in {more, IdleReq}
  BY <1>1, ReplyOthers DEF Shape
<1> HIDE DEF more
<1> QED
  BY <1>1, <1>2, <1>3, IdleMeans

\* Ingest, ReindexWorkspace and the start of a Delete: the claim changes a row
\* that is settled.
CreateStep(q) == BeginCreate(q) \/ StoreFile(q) \/ InsertSource(q) \/ InsertSourceFile(q)
DeleteStep(q) == DeleteSourceVectors(q) \/ DeleteObject(q) \/ DeleteRow(q)

LEMMA OtherHandlerMeans ==
  ASSUME Shape, NEW q \in Requests, Handler(q), ~ CreateStep(q), ~ DeleteStep(q)
  PROVE  /\ UNCHANGED <<objects, chunks, vectors, upload, touched>>
         /\ \A o \in Requests \ {q} : req'[o] = req[o]
         /\ req'[q].op # "create" /\ req'[q].at \notin {"objects", "row"}
         /\ \A x \in Sources :
              status'[x] = status[x] \/ (Claimable(x) /\ status'[x] = "indexing")
         /\ UNCHANGED run \/ \E x \in Sources : Launch(x, FALSE)
<1> USE DEF CreateStep, DeleteStep
<1>0. /\ req[q] \in ReqState /\ req \in [Requests -> ReqState]
      /\ req[q].op = "create" <=> req[q].at \in {"store", "insert", "fileRows"}
  BY DEF Shape, ReqOK, ReqShape
<1>1. /\ UNCHANGED <<objects, chunks, vectors, upload, touched>>
      /\ \A x \in Sources :
           status'[x] = status[x] \/ (Claimable(x) /\ status'[x] = "indexing")
  BY DEF Handler, Ingest, ReindexWorkspace, BeginIngest, LoadSource, ClaimAndLaunch,
     RefuseClaim, BeginDelete, stores, Shape, StoresOK
<1>2. UNCHANGED run \/ \E x \in Sources : Launch(x, FALSE)
  BY DEF Handler, Ingest, ReindexWorkspace, BeginIngest, LoadSource, ClaimAndLaunch,
     RefuseClaim, BeginDelete, Shape, ReqOK, ReqShape
<1>3. ASSUME NEW S, BeginIngest(q, S)
      PROVE  /\ \A o \in Requests \ {q} : req'[o] = req[o]
             /\ req'[q].op = "ingest" /\ req'[q].at = "load"
  BY <1>0, <1>3 DEF BeginIngest, IdleReq
<1>4. ASSUME NEW out, NEW next, Reply(q, out, next), next.op # "create",
             next.at \notin {"objects", "row"}
      PROVE  /\ \A o \in Requests \ {q} : req'[o] = req[o]
             /\ req'[q].op # "create" /\ req'[q].at \notin {"objects", "row"}
  BY <1>4, ReplyOthers, IdleMeans DEF Shape
<1>5. CASE LoadSource(q)
  <2>1. PICK s, out : Reply(q, out,
            [req[q] EXCEPT !.at = "claim", !.source = s, !.todo = req[q].todo \ {s}])
    BY <1>5 DEF LoadSource
  <2> DEFINE next == [req[q] EXCEPT !.at = "claim", !.source = s, !.todo = req[q].todo \ {s}]
  <2>2. next.at = "claim" /\ next.op = req[q].op /\ req[q].op # "create"
    BY <1>0, <1>5 DEF ReqState, LoadSource
  <2> QED
    BY <1>1, <1>2, <1>4, <2>1, <2>2
<1>n. req[q].at = "claim" =>
        NextSource(q).at \in {"start", "load"} /\ NextSource(q).op # "create"
  BY <1>0, IdleMeans DEF NextSource, ReqState
<1>6. CASE ClaimAndLaunch(q)
  BY <1>1, <1>2, <1>4, <1>6, <1>n DEF ClaimAndLaunch
<1>7. CASE RefuseClaim(q)
  BY <1>0, <1>1, <1>2, <1>7, <1>n DEF RefuseClaim
<1>8. CASE BeginDelete(q)
  <2>1. PICK s : req' = [req EXCEPT ![q] = [IdleReq EXCEPT !.op = "delete",
                            !.at = "vectors", !.source = s, !.target = settings]]
    BY <1>8 DEF BeginDelete
  <2> DEFINE next == [IdleReq EXCEPT !.op = "delete", !.at = "vectors", !.source = s,
                        !.target = settings]
  <2>2. next.at = "vectors" /\ next.op = "delete"
    BY DEF IdleReq
  <2> QED
    BY <1>0, <1>1, <1>2, <2>1, <2>2
<1> QED
  BY <1>1, <1>2, <1>3, <1>5, <1>6, <1>7, <1>8
     DEF Handler, Ingest, ReindexWorkspace

-----------------------------------------------------------------------------
(* The row goes last.  A Delete that comes to the row has seen every object *)
(* go: its listing held them all, and a source that has a row gains none,   *)
(* since objects come only from a Create that has not inserted its row.     *)

DeletesAll ==
  \A q \in Requests :
    /\ req[q].at = "objects" => objects[req[q].source] \subseteq req[q].keys
    /\ req[q].at = "row" => objects[req[q].source] = {}

Emptied == RowGoesLast /\ DeletesAll

LEMMA HandlerEmptied ==
  ASSUME Shape, Held, Emptied, NEW q \in Requests, Handler(q)
  PROVE  Emptied'
<1>t. /\ objects \in [Sources -> SUBSET Names] /\ status \in [Sources -> Status]
      /\ \A o \in Requests : req[o].at \in {"objects", "row"} =>
           req[o].source \in Sources /\ status[req[o].source] # "unborn"
  BY DEF Shape, StoresOK, ReqOK, ReqShape, Held, DeletedWasBorn
<1>1. CASE StoreFile(q)
  <2>1. PICK p, out :
           /\ req[q].op = "create" /\ req[q].at = "store" /\ req[q].source \in Sources
           /\ objects' = IF out # "failed"
                THEN [objects EXCEPT ![req[q].source] = @ \cup {NameOf[p]}] ELSE objects
           /\ \A o \in Requests \ {q} : req'[o] = req[o]
           /\ req'[q].at \in {"start", "insert", "store"}
    BY <1>1, StoreFileMeans
  <2>2. status[req[q].source] = "unborn" /\ UNCHANGED status
    BY <1>1, <2>1 DEF StoreFile, Held, MakerSeesRow, Makes
  <2>3. \A x \in Sources : status[x] # "unborn" => objects'[x] = objects[x]
    BY <1>t, <2>1, <2>2
  <2> QED
    BY <1>t, <2>1, <2>2, <2>3 DEF Emptied, RowGoesLast, DeletesAll
<1>2. CASE DeleteSourceVectors(q)
  <2>1. PICK out :
           /\ req[q].source \in Sources
           /\ \A o \in Requests \ {q} : req'[o] = req[o]
           /\ out # "ok" => req'[q].at = "start"
           /\ out = "ok" =>
                /\ req'[q].source = req[q].source
                /\ req'[q].keys = objects[req[q].source]
                /\ req'[q].at = IF objects[req[q].source] = {} THEN "row" ELSE "objects"
    BY <1>2, DeleteVectorsMeans
  <2>2. UNCHANGED <<status, objects>>
    BY <1>2 DEF DeleteSourceVectors
  <2> QED
    BY <2>1, <2>2 DEF Emptied, RowGoesLast, DeletesAll
<1>3. CASE DeleteObject(q)
  <2>1. PICK k, out :
           /\ req[q].at = "objects" /\ req[q].source \in Sources
           /\ objects' = IF out # "failed"
                THEN [objects EXCEPT ![req[q].source] = @ \ {k}] ELSE objects
           /\ \A o \in Requests \ {q} : req'[o] = req[o]
           /\ out # "ok" => req'[q].at = "start"
           /\ out = "ok" =>
                /\ req'[q].source = req[q].source
                /\ req'[q].keys = req[q].keys \ {k}
                /\ req'[q].at = IF req[q].keys \ {k} = {} THEN "row" ELSE "objects"
    BY <1>3, DeleteObjectMeans
  <2>2. UNCHANGED status /\ \A x \in Sources : objects'[x] \subseteq objects[x]
    BY <1>3, <1>t, <2>1 DEF DeleteObject
  <2>3. out = "ok" => objects'[req[q].source] = objects[req[q].source] \ {k}
    BY <1>t, <2>1
  <2>4. DeletesAll'
    <3>1. \A o \in Requests \ {q} :
            /\ req'[o].at = "objects" => objects'[req'[o].source] \subseteq req'[o].keys
            /\ req'[o].at = "row" => objects'[req'[o].source] = {}
      BY <1>t, <2>1, <2>2 DEF Emptied, DeletesAll
    <3>2. /\ req'[q].at = "objects" => objects'[req'[q].source] \subseteq req'[q].keys
          /\ req'[q].at = "row" => objects'[req'[q].source] = {}
      <4>1. objects[req[q].source] \subseteq req[q].keys
        BY <2>1 DEF Emptied, DeletesAll
      <4> QED
        BY <2>1, <2>3, <4>1
    <3> QED
      BY <3>1, <3>2 DEF DeletesAll
  <2> QED
    BY <2>2, <2>4 DEF Emptied, RowGoesLast
<1>4. CASE DeleteRow(q)
  <2>1. /\ req[q].source \in Sources /\ objects[req[q].source] = {}
        /\ UNCHANGED objects /\ req' = [req EXCEPT ![q] = IdleReq]
        /\ \A x \in Sources : status'[x] = "deleted" =>
             status[x] = "deleted" \/ x = req[q].source
    BY <1>4, <1>t DEF DeleteRow, Emptied, DeletesAll
  <2>2. \A o \in Requests : req'[o] = req[o] \/ req'[o].at = "start"
    BY <2>1, IdleMeans DEF Shape, ReqOK
  <2> QED
    BY <2>1, <2>2 DEF Emptied, RowGoesLast, DeletesAll
<1>5. CASE BeginCreate(q) \/ InsertSource(q) \/ InsertSourceFile(q)
  <2>1. /\ UNCHANGED objects
        /\ \A x \in Sources : status'[x] = "deleted" => status[x] = "deleted"
    BY <1>5, <1>t DEF BeginCreate, InsertSource, InsertSourceFile, stores
  <2>2. /\ \A o \in Requests \ {q} : req'[o] = req[o]
        /\ req'[q].at \notin {"objects", "row"}
    <3>1. CASE BeginCreate(q)
      BY <3>1, BeginCreateMeans
    <3>2. CASE InsertSource(q)
      <4>1. PICK s \in Sources, out \in Outcomes("insert") :
              /\ \A o \in Requests \ {q} : req'[o] = req[o]
              /\ out # "ok" => req'[q].at = "start"
              /\ out = "ok" => req'[q].at = "fileRows"
        BY <3>2, InsertSourceMeans
      <4> QED
        BY <4>1
    <3>3. CASE InsertSourceFile(q)
      BY <3>3, InsertSourceFileMeans
    <3> QED
      BY <1>5, <3>1, <3>2, <3>3
  <2> QED
    BY <2>1, <2>2 DEF Emptied, RowGoesLast, DeletesAll
<1>6. CASE ~ CreateStep(q) /\ ~ DeleteStep(q)
  <2>1. /\ UNCHANGED objects
        /\ \A o \in Requests \ {q} : req'[o] = req[o]
        /\ req'[q].at \notin {"objects", "row"}
        /\ \A x \in Sources : status'[x] = "deleted" => status[x] = "deleted"
    BY <1>6, OtherHandlerMeans
  <2> QED
    BY <2>1 DEF Emptied, RowGoesLast, DeletesAll
<1> QED
  BY <1>1, <1>2, <1>3, <1>4, <1>5, <1>6 DEF CreateStep, DeleteStep

\* No run stores or deletes an object, or removes a row.
LEMMA RunLeavesObjects ==
  ASSUME Shape, NEW r \in Runs, Acquire(r) \/ Expire(r) \/ RunStep(r)
  PROVE  /\ UNCHANGED <<objects, req, upload, touched>>
         /\ \A x \in Sources : status'[x] = "deleted" => status[x] = "deleted"
<1>1. CASE SettleStatus(r)
  BY <1>1 DEF SettleStatus, StatusWritten, Shape, StoresOK
<1>2. CASE ~ SettleStatus(r)
  BY <1>2 DEF Acquire, Expire, RunStep, ResolveModels, DeleteChunks, ClearVectors,
     ListObjects, DownloadToTemp, ChunkFile, UpsertChunkVectors, UpdateEmbeddingModel,
     Announce, runOnly, stores
<1> QED
  BY <1>1, <1>2

LEMMA EmptiedInvariant == Spec => []Emptied
<1>1. Init => Emptied
  BY IdleMeans DEF Init, Emptied, RowGoesLast, DeletesAll
<1>2. ASSUME Shape, Held, Emptied, [Next]_vars
      PROVE  Emptied'
  <2>1. CASE UNCHANGED vars
    BY <1>2, <2>1 DEF vars, Emptied, RowGoesLast, DeletesAll
  <2>2. ASSUME NEW r \in Runs, Acquire(r) \/ Expire(r) \/ RunStep(r)
        PROVE  Emptied'
    BY <1>2, <2>2, RunLeavesObjects DEF Emptied, RowGoesLast, DeletesAll
  <2>3. CASE SetEmbedding
    BY <1>2, <2>3 DEF SetEmbedding, stores, Emptied, RowGoesLast, DeletesAll
  <2>4. CASE Restart
    <3>1. /\ UNCHANGED objects /\ \A q \in Requests : req'[q].at = "start"
          /\ \A x \in Sources : status'[x] = "deleted" => status[x] = "deleted"
      BY <1>2, <2>4, IdleMeans DEF Restart, Shape, StoresOK
    <3> QED
      BY <1>2, <3>1 DEF Emptied, RowGoesLast, DeletesAll
  <2> QED
    BY <1>2, <2>1, <2>2, <2>3, <2>4, HandlerEmptied DEF Next
<1> QED
  BY <1>1, <1>2, ShapeInvariant, HeldInvariant, PTL DEF Spec

\* A row that is gone leaves no object behind, however many Deletes of the
\* source run at once, with a run beside them, and whichever call fails.
THEOREM RowIsLast == Spec => []RowGoesLast
<1>1. Emptied => RowGoesLast
  BY DEF Emptied
<1> QED
  BY <1>1, EmptiedInvariant, PTL

-----------------------------------------------------------------------------
(* Who takes rows away: a run past its resolve, from its own source, or the *)
(* removal of the source's row.                                             *)

LEMMA RowsLeave ==
  ASSUME Shape, Held, Indexed, [Next]_vars, NEW s \in Sources,
         ChunksOf(s) \ chunks' # {}
  PROVE  \/ status'[s] = "deleted"
         \/ \E r \in Runs : Works(r, s) /\ run[r].target # NoTarget
<1>1. PICK c \in chunks : c.source = s /\ c \notin chunks'
  BY DEF ChunksOf
<1>2. ASSUME NEW q \in Requests, Handler(q)
      PROVE  status'[s] = "deleted"
  <2>1. DeleteRow(q)
    BY <1>1, <1>2 DEF Handler, BeginCreate, StoreFile, InsertSource, InsertSourceFile, Ingest,
       ReindexWorkspace, BeginIngest, LoadSource, ClaimAndLaunch, RefuseClaim, BeginDelete,
       DeleteSourceVectors, DeleteObject, stores
  <2> QED
    BY <1>1, <2>1 DEF DeleteRow, Shape, StoresOK
<1>3. ASSUME NEW r \in Runs, RunStep(r)
      PROVE  Works(r, s) /\ run[r].target # NoTarget
  <2>1. DeleteChunks(r) \/ UpdateEmbeddingModel(r)
    BY <1>1, <1>3 DEF RunStep, ResolveModels, ClearVectors, ListObjects, DownloadToTemp,
       ChunkFile, UpsertChunkVectors, SettleStatus, Announce, runOnly, stores
  <2>2. run[r].pc \in {"clearChunks", "tag"}
    BY <2>1 DEF DeleteChunks, UpdateEmbeddingModel
  <2>3. run[r].target \in Targets
    BY <2>2 DEF Shape, RunOK, RunShape
  <2>4. run[r].source = s
    <3>1. CASE DeleteChunks(r)
      BY <1>1, <3>1 DEF DeleteChunks, ChunksOf
    <3>2. CASE UpdateEmbeddingModel(r)
      <4>1. c.run = r
        BY <1>1, <3>2 DEF UpdateEmbeddingModel
      <4> QED
        BY <1>1, <2>2, <4>1 DEF Indexed, ChunksAreOwned
    <3> QED
      BY <2>1, <3>1, <3>2
  <2> QED
    BY <2>2, <2>3, <2>4, IngestionAssumption DEF Works, IngestionAssumption
<1>4. ~ UNCHANGED chunks
  BY <1>1
<1> QED
  BY <1>2, <1>3, <1>4 DEF Next, Acquire, Expire, SetEmbedding, Restart, runOnly, stores, vars

\* No step empties a source of rows but a run that has resolved its models, or
\* a Delete of the row: a re-ingest whose settings name no model keeps what
\* was searchable.
THEOREM ResolvedBeforeEmptied == Spec => EmptiedOnlyAfterResolve
<1>1. Shape /\ Held /\ Indexed /\ [Next]_vars =>
        [\A s \in Sources : ChunksOf(s) \ chunks' # {} =>
           \/ status'[s] = "deleted"
           \/ \E r \in Runs : Works(r, s) /\ run[r].target # NoTarget]_vars
  BY RowsLeave
<1> QED
  BY <1>1, ShapeInvariant, HeldInvariant, IndexedInvariant, PTL
     DEF Spec, EmptiedOnlyAfterResolve

-----------------------------------------------------------------------------
(* Searchable in full.  The inductive invariant follows the content of a    *)
(* source that no Delete has touched from the upload to the status write:   *)
(* the objects of its Create, the list of files of the run that works on    *)
(* it, and how much of each file has rows and points already.               *)

Rows(s, n) == {c \in ChunksOf(s) : c.name = n}

\* Every part of an upload is in the object store before the row is inserted,
\* and stays there until a Delete.
ObjectsStored ==
  \A s \in Sources :
    /\ objects[s] \subseteq NamesOf(upload[s])
    /\ status[s] # "unborn" /\ s \notin touched => objects[s] = NamesOf(upload[s])
    /\ \A q \in Requests : Makes(q, s) =>
         /\ req[q].at = "store" =>
              /\ req[q].parts \subseteq upload[s]
              /\ NamesOf(upload[s]) \subseteq objects[s] \cup NamesOf(req[q].parts)
         /\ req[q].at = "insert" => objects[s] = NamesOf(upload[s])

DeletesTouch ==
  /\ \A s \in Sources : status[s] = "deleted" => s \in touched
  /\ \A q \in Requests : req[q].at \in {"objects", "row"} => req[q].source \in touched

NoPointBefore ==
  \A v \in vectors :
    /\ status[v.source] # "unborn"
    /\ \A q \in Requests : ~ Creates(q, v.source)

\* Up to which index the run has inserted rows, and up to which it has points.
Inserted(r) == IF run[r].pc \in {"upsert", "tag"}
               THEN run[r].base + Spans[run[r].file] ELSE run[r].base
Pointed(r) == IF run[r].pc = "upsert" THEN run[r].base ELSE Inserted(r)

\* The files that are no longer to do have all their rows, tagged when they
\* lie below the running total, and the points are those of the rows.
Filled(r, s) ==
  /\ run[r].todo \subseteq NamesOf(upload[s])
  /\ \A n \in NamesOf(upload[s]) \ run[r].todo :
       IsFiniteSet(Rows(s, n)) /\ Cardinality(Rows(s, n)) = Spans[n]
  /\ \A c \in ChunksOf(s) :
       /\ c.name \notin run[r].todo /\ c.index < Inserted(r)
       /\ c.index < run[r].base => c.model = run[r].target
  /\ \A c, d \in ChunksOf(s) : c.index = d.index => c = d
  /\ run[r].pc = "upsert" => FileChunks(r, run[r].file) \subseteq ChunksOf(s)
  /\ \A v \in VectorsIn(s, run[r].target) :
       \E c \in ChunksOf(s) : c.run = v.run /\ c.index = v.index /\ c.index < Pointed(r)
  /\ \A c \in ChunksOf(s) : c.index < Pointed(r) =>
       \E v \in VectorsIn(s, run[r].target) : v.run = c.run /\ v.index = c.index

\* What the run that works on s has before it.
Prepared(r, s) ==
  /\ run[r].pc \in {"queued", "resolve"} /\ run[r].fresh =>
       run[r].todo = NamesOf(upload[s]) /\ \A t \in Targets : VectorsIn(s, t) = {}
  /\ run[r].pc \in {"list", "download"} => VectorsIn(s, run[r].target) = {}
  /\ run[r].pc = "download" => run[r].todo = NamesOf(upload[s])
  /\ run[r].pc \in {"chunk", "upsert", "tag", "succeed"} => Filled(r, s)
  /\ run[r].pc = "succeed" => run[r].todo = {}

Searchable(s) ==
  /\ \A n \in NamesOf(upload[s]) : Cardinality(Rows(s, n)) = Spans[n]
  /\ \A c, d \in ChunksOf(s) : c.index = d.index => c = d
  /\ \A c \in ChunksOf(s) :
       /\ c.model \in Targets
       /\ {<<v.run, v.index>> : v \in VectorsIn(s, c.model)}
            = {<<d.run, d.index>> : d \in ChunksOf(s)}

Searched ==
  /\ ObjectsStored /\ DeletesTouch /\ NoPointBefore
  /\ \A s \in Sources \ touched :
       /\ \A r \in Runs : Works(r, s) => Prepared(r, s)
       /\ status[s] = "indexed" => Searchable(s)

LEMMA InitSearched == Init => Searched
<1> SUFFICES ASSUME Init PROVE Searched
  OBVIOUS
<1>1. /\ \A s \in Sources : objects[s] = {} /\ status[s] = "unborn"
      /\ vectors = {} /\ \A r \in Runs : run[r].pc = "idle"
      /\ \A q \in Requests : req[q].op = "idle" /\ req[q].at = "start"
  BY IdleMeans DEF Init, IdleRun
<1> QED
  BY <1>1 DEF Searched, ObjectsStored, DeletesTouch, NoPointBefore, Makes, Works

\* Counting through a map that takes each element to another of its own.
LEMMA CountedBy ==
  ASSUME NEW S, IsFiniteSet(S), NEW T, NEW f \in [S -> T],
         \A x, y \in S : f[x] = f[y] => x = y,
         \A t \in T : \E x \in S : f[x] = t
  PROVE  IsFiniteSet(T) /\ Cardinality(T) = Cardinality(S)
<1>1. f \in Bijection(S, T)
  BY DEF Bijection, Injection, IsInjective, Surjection
<1> QED
  BY <1>1, FS_Bijection DEF ExistsBijection

\* A file makes as many chunks as it has spans.
LEMMA FileChunksCount ==
  ASSUME NEW r \in Runs, run[r].base \in Nat, NEW n \in Names
  PROVE  /\ IsFiniteSet(FileChunks(r, n)) /\ Cardinality(FileChunks(r, n)) = Spans[n]
         /\ \A c, d \in FileChunks(r, n) : c.index = d.index => c = d
         /\ FileChunks(r, n) = {} => Spans[n] = 0
         /\ \A c \in FileChunks(r, n) :
              /\ c.source = run[r].source /\ c.run = r /\ c.name = n /\ c.model = NoTarget
              /\ c.index \in run[r].base .. (run[r].base + Spans[n] - 1)
         /\ \A k \in run[r].base .. (run[r].base + Spans[n] - 1) :
              \E c \in FileChunks(r, n) : c.index = k
<1> DEFINE make(i) == [source |-> run[r].source, run |-> r, name |-> n,
                       index |-> run[r].base + i, model |-> NoTarget]
           Offsets == 0..(Spans[n] - 1)
           f == [i \in Offsets |-> make(i)]
<1>1. Spans[n] \in Nat
  BY IngestionAssumption DEF IngestionAssumption
<1>2. FileChunks(r, n) = {make(i) : i \in Offsets}
  <2>1. {j \in 0..Spans[n] : j < Spans[n]} = Offsets
    BY <1>1
  <2> QED
    BY <2>1 DEF FileChunks
<1>3. /\ f \in [Offsets -> FileChunks(r, n)]
      /\ \A c \in FileChunks(r, n) : \E i \in Offsets : f[i] = c
  BY <1>2
<1>4. \A i, j \in Offsets : f[i] = f[j] => i = j
  <2>1. \A i \in Offsets : f[i].index = run[r].base + i
    OBVIOUS
  <2> QED
    BY <1>1, <2>1
<1>5. IsFiniteSet(Offsets) /\ Cardinality(Offsets) = Spans[n]
  <2>1. 0 \in Int /\ Spans[n] - 1 \in Int
    BY <1>1
  <2>2. /\ IsFiniteSet(0..(Spans[n] - 1))
        /\ Cardinality(0..(Spans[n] - 1)) = IF 0 > Spans[n] - 1 THEN 0 ELSE Spans[n] - 1 - 0 + 1
    BY ONLY <2>1, FS_Interval
  <2> QED
    BY <1>1, <2>2
<1>6. IsFiniteSet(FileChunks(r, n)) /\ Cardinality(FileChunks(r, n)) = Spans[n]
  <2> HIDE DEF f, Offsets
  <2> QED
    BY <1>3, <1>4, <1>5, CountedBy
<1>7. FileChunks(r, n) = {} => Spans[n] = 0
  BY <1>6, FS_EmptySet
<1>8. \A c, d \in FileChunks(r, n) : c.index = d.index => c = d
  BY <1>1, <1>2
<1>9. \A c \in FileChunks(r, n) :
        /\ c.source = run[r].source /\ c.run = r /\ c.name = n /\ c.model = NoTarget
        /\ c.index \in run[r].base .. (run[r].base + Spans[n] - 1)
  BY <1>1, <1>2
<1>10. \A k \in run[r].base .. (run[r].base + Spans[n] - 1) :
         \E c \in FileChunks(r, n) : c.index = k
  <2> SUFFICES ASSUME NEW k \in run[r].base .. (run[r].base + Spans[n] - 1)
               PROVE  \E c \in FileChunks(r, n) : c.index = k
    OBVIOUS
  <2>1. k - run[r].base \in Offsets /\ make(k - run[r].base).index = k
    BY <1>1
  <2> QED
    BY <1>2, <2>1
<1> QED
  BY <1>6, <1>7, <1>8, <1>9, <1>10

-----------------------------------------------------------------------------
(* What a step leaves alone it keeps.                                       *)

Content(s) == <<ChunksOf(s), [t \in Targets |-> VectorsIn(s, t)], upload[s]>>

LEMMA PreparedKept ==
  ASSUME NEW r \in Runs, NEW s \in Sources, Shape, run'[r] = run[r], Works(r, s),
         Content(s)' = Content(s), Prepared(r, s)
  PROVE  Prepared(r, s)'
<1>1. /\ ChunksOf(s)' = ChunksOf(s) /\ upload'[s] = upload[s]
      /\ \A t \in Targets : VectorsIn(s, t)' = VectorsIn(s, t)
  <2>1. \A t \in Targets : [x \in Targets |-> VectorsIn(s, x)]'[t] = [x \in Targets |-> VectorsIn(s, x)][t]
    BY DEF Content
  <2> QED
    BY <2>1 DEF Content
<1>2. /\ \A n : Rows(s, n)' = Rows(s, n) /\ FileChunks(r, n)' = FileChunks(r, n)
      /\ Inserted(r)' = Inserted(r) /\ Pointed(r)' = Pointed(r)
      /\ NamesOf(upload[s])' = NamesOf(upload[s])
  BY <1>1 DEF Rows, FileChunks, Inserted, Pointed, NamesOf
<1>3. run[r].pc \in {"list", "download", "chunk", "upsert", "tag", "succeed"}
        => run[r].target \in Targets
  BY DEF Shape, RunOK, RunShape
<1>4. run[r].pc \in {"chunk", "upsert", "tag", "succeed"} => Filled(r, s)'
  BY <1>1, <1>2, <1>3 DEF Prepared, Filled
<1> QED
  BY <1>1, <1>2, <1>3, <1>4 DEF Prepared

LEMMA SearchableKept ==
  ASSUME NEW s \in Sources, Content(s)' = Content(s), Searchable(s)
  PROVE  Searchable(s)'
<1>1. /\ ChunksOf(s)' = ChunksOf(s) /\ upload'[s] = upload[s]
      /\ \A t \in Targets : VectorsIn(s, t)' = VectorsIn(s, t)
  <2>1. \A t \in Targets : [x \in Targets |-> VectorsIn(s, x)]'[t] = [x \in Targets |-> VectorsIn(s, x)][t]
    BY DEF Content
  <2> QED
    BY <2>1 DEF Content
<1>2. \A n : Rows(s, n)' = Rows(s, n)
  BY <1>1 DEF Rows
<1> QED
  BY <1>1, <1>2 DEF Searchable, NamesOf

\* A step of the run that works on s changes the rows and points of s only.
LEMMA WorkSearched ==
  ASSUME Shape, Shape', Held, Searched, NEW r \in Runs, NEW s \in Sources, Works(r, s),
         \A o \in Runs \ {r} : run'[o] = run[o],
         run'[r].source = s, UNCHANGED <<objects, upload, req, touched>>,
         \A c : c.source # s => (c \in chunks' <=> c \in chunks),
         \A v : v.source # s => (v \in vectors' <=> v \in vectors),
         status'[s] # "unborn", status'[s] = "deleted" => status[s] = "deleted",
         \A x \in Sources \ {s} : status'[x] = status[x],
         s \notin touched /\ run'[r].pc \in Live => Prepared(r, s)',
         s \notin touched /\ status'[s] = "indexed" => Searchable(s)'
  PROVE  Searched'
<1>0. status[s] \in {"indexing", "deleted"} /\ \A q \in Requests : ~ Makes(q, s)
  BY DEF Held, WorkedIsIndexing, MakerXorWorker
<1>1. ObjectsStored'
  BY <1>0 DEF Searched, ObjectsStored, Makes, NamesOf
<1>2. DeletesTouch'
  BY DEF Searched, DeletesTouch
<1>3. NoPointBefore'
  <2>1. \A q \in Requests : ~ Creates(q, s)
    BY <1>0 DEF Makes, Creates, Shape, ReqOK, ReqShape
  <2>2. \A v \in vectors' : v.source \in Sources
    BY DEF Shape, StoresOK, Vector
  <2> QED
    BY <2>1, <2>2 DEF Searched, NoPointBefore, Creates
<1>4. ASSUME NEW x \in Sources \ {s}
      PROVE  Content(x)' = Content(x)
  <2>1. ChunksOf(x)' = ChunksOf(x)
    BY DEF ChunksOf
  <2>2. \A t \in Targets : VectorsIn(x, t)' = VectorsIn(x, t)
    BY DEF VectorsIn
  <2> QED
    BY <2>1, <2>2 DEF Content
<1>5. ASSUME NEW x \in Sources \ touched', NEW o \in Runs, Works(o, x)'
      PROVE  Prepared(o, x)'
  <2>1. CASE o = r
    BY <1>5, <2>1 DEF Works
  <2>2. CASE o # r
    <3>1. Works(o, x) /\ run'[o] = run[o] /\ x # s
      BY <1>5, <2>2 DEF Works, Held, OneWorker
    <3>2. Prepared(o, x)
      BY <3>1 DEF Searched
    <3> QED
      BY <1>4, <3>1, <3>2, PreparedKept
  <2> QED
    BY <2>1, <2>2
<1>6. ASSUME NEW x \in Sources \ touched', status'[x] = "indexed"
      PROVE  Searchable(x)'
  <2>1. CASE x = s
    BY <1>6, <2>1
  <2>2. CASE x # s
    BY <1>4, <1>6, <2>2, SearchableKept DEF Searched
  <2> QED
    BY <2>1, <2>2
<1> QED
  BY <1>1, <1>2, <1>3, <1>5, <1>6 DEF Searched

\* The steps of a run that leave the status alone.
LEMMA CallSearched ==
  ASSUME Shape, Shape', Held, Searched, NEW r \in Runs, NEW s \in Sources, Works(r, s),
         NEW out, NEW next, Proceed(r, out, next), next.source = s,
         UNCHANGED <<status, objects, upload, req, touched>>,
         \A c : c.source # s => (c \in chunks' <=> c \in chunks),
         \A v : v.source # s => (v \in vectors' <=> v \in vectors),
         s \notin touched /\ out = "ok" => Prepared(r, s)'
  PROVE  Searched'
<1>1. /\ \A o \in Runs \ {r} : run'[o] = run[o]
      /\ out = "ok" => run'[r] = next
      /\ out # "ok" => run'[r].pc = "fail" /\ run'[r].source = s
  BY ProceedMeans DEF Shape, Works
<1>2. status[s] \in {"indexing", "deleted"}
  BY DEF Held, WorkedIsIndexing
<1>3. s \notin touched => Prepared(r, s)'
  BY <1>1 DEF Prepared
<1> QED
  BY <1>1, <1>2, <1>3, WorkSearched

\* The pipeline starts from an empty table and an empty collection.
LEMMA StartFilled ==
  ASSUME Shape', NEW r \in Runs, NEW s \in Sources,
         run'[r].pc \in {"chunk", "succeed"}, run'[r].todo = NamesOf(upload[s])',
         ChunksOf(s)' = {}, VectorsIn(s, run[r].target)' = {}
  PROVE  Filled(r, s)'
  BY DEF Filled

-----------------------------------------------------------------------------
(* The steps of a run.                                                      *)

LEMMA ResolveSearched ==
  ASSUME Shape, Shape', Held, Indexed, Searched, NEW r \in Runs, ResolveModels(r)
  PROVE  Searched'
<1>0. run[r].pc = "resolve"
  BY DEF ResolveModels
<1>1. PICK s \in Sources : s = run[r].source /\ Works(r, s) /\ run[r] \in RunState
  BY <1>0, PipelineSource
<1> DEFINE next == [run[r] EXCEPT !.target = settings,
                        !.pc = IF run[r].fresh THEN "chunk" ELSE "clearChunks"]
<1>2. PICK out : Proceed(r, out, next)
  BY DEF ResolveModels
<1>3. /\ next.source = s /\ next.todo = run[r].todo /\ next.target = settings
      /\ next.pc = IF run[r].fresh THEN "chunk" ELSE "clearChunks"
  BY <1>1 DEF RunState
<1>4. out = "ok" => run'[r] = next
  BY <1>2, ProceedMeans DEF Shape
<1> HIDE DEF next
<1>5. UNCHANGED <<status, objects, upload, req, touched, chunks, vectors>>
  BY DEF ResolveModels, runOnly, stores
<1>6. ASSUME s \notin touched, out = "ok"
      PROVE  Prepared(r, s)'
  <2>1. CASE run[r].fresh
    <3>1. /\ run[r].todo = NamesOf(upload[s]) /\ \A t \in Targets : VectorsIn(s, t) = {}
          /\ \A c \in chunks : c.source # s
      BY <1>0, <1>1, <1>6, <2>1 DEF Searched, Prepared, Indexed, KnowsTable
    <3>2. settings \in Targets
      BY DEF Shape, StoresOK
    <3>3. /\ ChunksOf(s)' = {} /\ VectorsIn(s, run[r].target)' = {}
          /\ run'[r].todo = NamesOf(upload[s])' /\ run'[r].pc = "chunk"
      BY <1>3, <1>4, <1>5, <1>6, <2>1, <3>1, <3>2 DEF ChunksOf, VectorsIn, NamesOf
    <3>4. Filled(r, s)'
      BY <3>3, StartFilled
    <3> QED
      BY <3>3, <3>4 DEF Prepared
  <2>2. CASE ~ run[r].fresh
    BY <1>3, <1>4, <1>6, <2>2 DEF Prepared
  <2> QED
    BY <2>1, <2>2
<1> QED
  BY <1>1, <1>2, <1>3, <1>5, <1>6, CallSearched

LEMMA ClearSearched ==
  ASSUME Shape, Shape', Held, Searched, NEW r \in Runs,
         DeleteChunks(r) \/ ClearVectors(r)
  PROVE  Searched'
<1>0. run[r].pc \in {"clearChunks", "clearVectors"}
  BY DEF DeleteChunks, ClearVectors
<1>1. PICK s \in Sources : s = run[r].source /\ Works(r, s) /\ run[r] \in RunState
  BY <1>0, PipelineSource
<1>2. CASE DeleteChunks(r)
  <2> DEFINE next == [run[r] EXCEPT !.pc = "clearVectors"]
  <2>1. PICK out :
          /\ chunks' = IF out # "failed" THEN chunks \ ChunksOf(s) ELSE chunks
          /\ Proceed(r, out, next)
    BY <1>1, <1>2 DEF DeleteChunks
  <2>2. next.source = s /\ next.pc = "clearVectors"
    BY <1>1 DEF RunState
  <2>3. out = "ok" => run'[r] = next
    BY <2>1, ProceedMeans DEF Shape
  <2> HIDE DEF next
  <2>4. /\ UNCHANGED <<status, objects, upload, req, touched, vectors>>
        /\ \A c : c.source # s => (c \in chunks' <=> c \in chunks)
    BY <1>2, <2>1 DEF DeleteChunks, ChunksOf
  <2>5. out = "ok" => Prepared(r, s)'
    BY <2>2, <2>3 DEF Prepared
  <2> QED
    BY <1>1, <2>1, <2>2, <2>4, <2>5, CallSearched
<1>3. CASE ClearVectors(r)
  <2> DEFINE next == [run[r] EXCEPT !.pc = "list"]
  <2>1. PICK out :
          /\ vectors' = IF out # "failed" THEN vectors \ VectorsIn(s, run[r].target)
                        ELSE vectors
          /\ Proceed(r, out, next)
    BY <1>1, <1>3 DEF ClearVectors, VectorsCleared
  <2>2. next.source = s /\ next.pc = "list" /\ next.target = run[r].target
    BY <1>1 DEF RunState
  <2>3. out = "ok" => run'[r] = next
    BY <2>1, ProceedMeans DEF Shape
  <2> HIDE DEF next
  <2>4. /\ UNCHANGED <<status, objects, upload, req, touched, chunks>>
        /\ \A v : v.source # s => (v \in vectors' <=> v \in vectors)
    BY <1>3, <2>1 DEF ClearVectors, VectorsIn
  <2>5. out = "ok" => VectorsIn(s, run[r].target)' = {}
    BY <2>1, <2>2, <2>3 DEF VectorsIn
  <2>6. out = "ok" => Prepared(r, s)'
    BY <2>2, <2>3, <2>5 DEF Prepared
  <2> QED
    BY <1>1, <2>1, <2>2, <2>4, <2>6, CallSearched
<1> QED
  BY <1>2, <1>3

\* The listing shows what was uploaded; the download keeps it.
LEMMA FetchSearched ==
  ASSUME Shape, Shape', Held, Indexed, Searched, NEW r \in Runs,
         ListObjects(r) \/ DownloadToTemp(r)
  PROVE  Searched'
<1>0. run[r].pc \in {"list", "download"}
  BY DEF ListObjects, DownloadToTemp
<1>1. PICK s \in Sources : /\ s = run[r].source /\ Works(r, s) /\ run[r] \in RunState
                           /\ status[s] # "unborn"
  BY <1>0, PipelineSource
<1>2. /\ UNCHANGED <<status, objects, upload, req, touched, chunks, vectors>>
      /\ UNCHANGED <<ChunksOf(s), NamesOf(upload[s])>>
      /\ \A t : VectorsIn(s, t)' = VectorsIn(s, t)
  BY DEF ListObjects, DownloadToTemp, runOnly, stores, VectorsIn, ChunksOf, NamesOf
<1>3. s \notin touched => VectorsIn(s, run[r].target) = {}
  BY <1>0, <1>1 DEF Searched, Prepared
<1>4. CASE ListObjects(r)
  <2> DEFINE next == [run[r] EXCEPT !.pc = "download", !.todo = objects[s]]
  <2>1. PICK out : Proceed(r, out, next)
    BY <1>1, <1>4 DEF ListObjects
  <2>2. /\ next.source = s /\ next.pc = "download" /\ next.target = run[r].target
        /\ next.todo = objects[s]
    BY <1>1 DEF RunState
  <2>3. out = "ok" => run'[r] = next
    BY <2>1, ProceedMeans DEF Shape
  <2> HIDE DEF next
  <2>4. s \notin touched => objects[s] = NamesOf(upload[s])
    BY <1>1 DEF Searched, ObjectsStored
  <2>5. out = "ok" => VectorsIn(s, run[r].target)' = VectorsIn(s, run[r].target)
    BY <1>2, <2>2, <2>3 DEF VectorsIn
  <2>6. s \notin touched /\ out = "ok" => Prepared(r, s)'
    BY <1>2, <1>3, <2>2, <2>3, <2>4, <2>5 DEF Prepared
  <2> QED
    BY <1>1, <1>2, <2>1, <2>2, <2>6, CallSearched
<1>5. CASE DownloadToTemp(r)
  <2> DEFINE next == [run[r] EXCEPT !.pc = NextFile(run[r].todo)]
  <2>1. PICK out : Proceed(r, out, next)
    BY <1>5 DEF DownloadToTemp
  <2>2. /\ next.source = s /\ next.pc = NextFile(run[r].todo) /\ next.target = run[r].target
        /\ next.todo = run[r].todo
    BY <1>1 DEF RunState
  <2>3. out = "ok" => run'[r] = next
    BY <2>1, ProceedMeans DEF Shape
  <2> HIDE DEF next
  <2>4. /\ run[r].pc = "download" /\ ChunksOf(s) = {}
        /\ s \notin touched => run[r].todo = NamesOf(upload[s])
    BY <1>1, <1>5 DEF DownloadToTemp, Indexed, KnowsTable, ChunksOf, Searched, Prepared
  <2>5. out = "ok" => VectorsIn(s, run[r].target)' = VectorsIn(s, run[r].target)
    BY <1>2, <2>2, <2>3 DEF VectorsIn
  <2>6. ASSUME s \notin touched, out = "ok"
        PROVE  Prepared(r, s)'
    <3>1. /\ run'[r].pc \in {"chunk", "succeed"} /\ run'[r].todo = NamesOf(upload[s])'
          /\ run'[r].pc = "succeed" => run'[r].todo = {}
      BY <1>2, <2>2, <2>3, <2>4, <2>6 DEF NextFile
    <3>2. Filled(r, s)'
      BY <1>2, <1>3, <2>4, <2>5, <2>6, <3>1, StartFilled
    <3> QED
      BY <3>1, <3>2 DEF Prepared
  <2> QED
    BY <1>1, <1>2, <2>1, <2>2, <2>6, CallSearched
<1> QED
  BY <1>4, <1>5

\* What an untouched run in its loop has before it.
LEMMA InLoop ==
  ASSUME Shape, Held, Indexed, Searched, NEW r \in Runs,
         run[r].pc \in {"chunk", "upsert", "tag"}
  PROVE  /\ run[r] \in RunState /\ run[r].base \in Nat /\ run[r].target \in Targets
         /\ run[r].todo \subseteq Names
         /\ \E s \in Sources :
              /\ s = run[r].source /\ Works(r, s)
              /\ s \notin touched => Filled(r, s)
              /\ \A c \in ChunksOf(s) : c \in chunks /\ c.source = s /\ c.run = r
              /\ \A c \in ChunksOf(s) : c \in Chunk /\ c.index \in Nat
<1>1. PICK s \in Sources : s = run[r].source /\ Works(r, s) /\ run[r] \in RunState
  BY PipelineSource
<1>2. \A c \in ChunksOf(s) : c \in chunks /\ c.source = s /\ c.run = r
  BY <1>1 DEF Indexed, KnowsTable, ChunksOf
<1>3. \A c \in ChunksOf(s) : c \in Chunk /\ c.index \in Nat
  BY <1>2 DEF Shape, StoresOK, Chunk
<1>4. s \notin touched => Filled(r, s)
  BY <1>1 DEF Searched, Prepared
<1>5. run[r].target \in Targets /\ run[r].base \in Nat /\ run[r].todo \subseteq Names
  BY <1>1 DEF Shape, RunOK, RunShape, RunState
<1> QED
  BY <1>1, <1>2, <1>3, <1>4, <1>5

\* A file without spans is done; one with some has all its rows, and no point.
LEMMA ChunkFileSearched ==
  ASSUME Shape, Shape', Held, Indexed, Searched, NEW r \in Runs, ChunkFile(r)
  PROVE  Searched'
<1>0. run[r].pc = "chunk"
  BY DEF ChunkFile
<1>1. PICK s \in Sources :
        /\ s = run[r].source /\ Works(r, s) /\ run[r] \in RunState /\ run[r].base \in Nat
        /\ run[r].todo \subseteq Names
        /\ s \notin touched => Filled(r, s)
        /\ \A c \in ChunksOf(s) : c \in chunks /\ c.source = s /\ c.index \in Nat
  BY <1>0, InLoop
<1>2. PICK n, out :
          /\ n \in run[r].todo
          /\ chunks' = IF out # "failed" THEN chunks \cup FileChunks(r, n) ELSE chunks
          /\ Proceed(r, out,
              IF FileChunks(r, n) = {}
              THEN [run[r] EXCEPT !.todo = run[r].todo \ {n},
                                  !.pc = NextFile(run[r].todo \ {n})]
              ELSE [run[r] EXCEPT !.todo = run[r].todo \ {n}, !.file = n, !.pc = "upsert"])
  BY DEF ChunkFile
<1> DEFINE new == FileChunks(r, n)
           left == run[r].todo \ {n}
           next == IF new = {} THEN [run[r] EXCEPT !.todo = left, !.pc = NextFile(left)]
                   ELSE [run[r] EXCEPT !.todo = left, !.file = n, !.pc = "upsert"]
<1>3. /\ next.source = s /\ next.base = run[r].base /\ next.target = run[r].target
      /\ next.todo = left
      /\ new = {} => next.pc = NextFile(left)
      /\ new # {} => next.pc = "upsert" /\ next.file = n
  BY <1>1 DEF RunState
<1>4. out = "ok" => run'[r] = next
  BY <1>2, ProceedMeans DEF Shape
<1>p. Proceed(r, out, next)
  BY <1>2
<1> HIDE DEF next
<1>n. n \in Names /\ Spans[n] \in Nat
  BY <1>1, <1>2, IngestionAssumption DEF IngestionAssumption
<1>f. /\ IsFiniteSet(new) /\ Cardinality(new) = Spans[n]
      /\ \A c, d \in new : c.index = d.index => c = d
      /\ new = {} => Spans[n] = 0
      /\ \A c \in new : c.source = s /\ c.name = n /\ c.index \in Nat
                        /\ run[r].base <= c.index /\ c.index < run[r].base + Spans[n]
  BY <1>1, <1>n, FileChunksCount
<1>5. /\ UNCHANGED <<status, objects, upload, req, touched, vectors>>
      /\ \A c : c.source # s => (c \in chunks' <=> c \in chunks)
  BY <1>2, <1>f DEF ChunkFile
<1>6. ASSUME s \notin touched, out = "ok"
      PROVE  Prepared(r, s)'
  <2>1. Filled(r, s) /\ Inserted(r) = run[r].base /\ Pointed(r) = run[r].base
    BY <1>0, <1>1, <1>6 DEF Inserted, Pointed
  <2>2. /\ ChunksOf(s)' = ChunksOf(s) \cup new
        /\ \A t : VectorsIn(s, t)' = VectorsIn(s, t)
        /\ NamesOf(upload[s])' = NamesOf(upload[s])
        /\ FileChunks(r, n)' = IF run'[r].base = run[r].base /\ run'[r].source = s
                               THEN new ELSE FileChunks(r, n)'
    BY <1>1, <1>2, <1>5, <1>6, <1>f DEF ChunksOf, VectorsIn, NamesOf, FileChunks
  <2>3. run'[r].base = run[r].base /\ run'[r].target = run[r].target /\ run'[r].todo = left
    BY <1>3, <1>4, <1>6
  <2>4. Rows(s, n) = {}
    BY <1>2, <2>1 DEF Filled, Rows
  <2>5. Rows(s, n)' = new /\ \A m : m # n => Rows(s, m)' = Rows(s, m)
    BY <1>f, <2>2, <2>4 DEF Rows
  <2>6. \A m \in NamesOf(upload[s])' \ run'[r].todo :
          IsFiniteSet(Rows(s, m)') /\ Cardinality(Rows(s, m)') = Spans[m]
    <3> SUFFICES ASSUME NEW m \in NamesOf(upload[s])' \ run'[r].todo
                 PROVE  IsFiniteSet(Rows(s, m)') /\ Cardinality(Rows(s, m)') = Spans[m]
      OBVIOUS
    <3>1. CASE m = n
      BY <1>f, <2>5, <3>1
    <3>2. CASE m # n
      BY <2>1, <2>2, <2>3, <2>5, <3>2 DEF Filled
    <3> QED
      BY <3>1, <3>2
  <2>i. Inserted(r)' = run[r].base + (IF new = {} THEN 0 ELSE Spans[n]) /\ Pointed(r)' = run[r].base
    <3>1. CASE new = {}
      <4>1. run'[r].pc \in {"chunk", "succeed"}
        BY <1>3, <1>4, <1>6, <3>1 DEF NextFile
      <4> QED
        BY <1>1, <2>3, <3>1, <4>1 DEF Inserted, Pointed
    <3>2. CASE new # {}
      BY <1>3, <1>4, <1>6, <2>3, <3>2 DEF Inserted, Pointed
    <3> QED
      BY <3>1, <3>2
  <2>7. \A c \in ChunksOf(s)' :
          /\ c.name \notin run'[r].todo /\ c.index < Inserted(r)'
          /\ c.index < run'[r].base => c.model = run'[r].target
    <3>1. ASSUME NEW c \in ChunksOf(s)
          PROVE  /\ c.name \notin left /\ c.index < Inserted(r)'
                 /\ c.index < run[r].base => c.model = run[r].target
      BY <1>1, <1>n, <2>1, <2>i DEF Filled
    <3>2. ASSUME NEW c \in new
          PROVE  /\ c.name \notin left /\ c.index < Inserted(r)' /\ ~ c.index < run[r].base
      BY <1>1, <1>f, <2>i
    <3> QED
      BY <2>2, <2>3, <3>1, <3>2
  <2>8. \A c, d \in ChunksOf(s)' : c.index = d.index => c = d
    <3>1. \A c \in ChunksOf(s), d \in new : c.index # d.index
      BY <1>1, <1>f, <2>1 DEF Filled
    <3>2. \A c, d \in ChunksOf(s) : c.index = d.index => c = d
      BY <2>1 DEF Filled
    <3> QED
      BY <1>f, <2>2, <3>1, <3>2
  <2>9. run'[r].pc = "upsert" => FileChunks(r, run[r].file)' \subseteq ChunksOf(s)'
    <3>1. CASE new = {}
      BY <1>3, <1>4, <1>6, <3>1 DEF NextFile
    <3>2. CASE new # {}
      <4>1. run'[r].file = n /\ run'[r].source = s
        BY <1>3, <1>4, <1>6, <3>2
      <4>2. FileChunks(r, run[r].file)' = FileChunks(r, n)
        BY <1>1, <2>3, <4>1 DEF FileChunks
      <4> QED
        BY <2>2, <4>2
    <3> QED
      BY <3>1, <3>2
  <2>10. \A v \in VectorsIn(s, run[r].target)' : \E c \in ChunksOf(s)' :
           c.run = v.run /\ c.index = v.index /\ c.index < Pointed(r)'
    <3>1. \A v \in VectorsIn(s, run[r].target) : \E c \in ChunksOf(s) :
           c.run = v.run /\ c.index = v.index /\ c.index < Pointed(r)
      BY <2>1 DEF Filled
    <3>2. VectorsIn(s, run[r].target)' = VectorsIn(s, run[r].target)
      BY <1>5, <2>3 DEF VectorsIn
    <3> QED
      BY <2>1, <2>2, <2>i, <3>1, <3>2
  <2>11. \A c \in ChunksOf(s)' : c.index < Pointed(r)' =>
           \E v \in VectorsIn(s, run[r].target)' : v.run = c.run /\ v.index = c.index
    <3>1. \A c \in ChunksOf(s) : c.index < Pointed(r) =>
            \E v \in VectorsIn(s, run[r].target) : v.run = c.run /\ v.index = c.index
      BY <2>1 DEF Filled
    <3>2. VectorsIn(s, run[r].target)' = VectorsIn(s, run[r].target)
      BY <1>5, <2>3 DEF VectorsIn
    <3>3. \A c \in new : ~ c.index < run[r].base
      BY <1>1, <1>f
    <3> QED
      BY <2>1, <2>2, <2>i, <3>1, <3>2, <3>3
  <2>12. run'[r].todo \subseteq NamesOf(upload[s])'
    BY <2>1, <2>2, <2>3 DEF Filled
  <2>13. Filled(r, s)'
    BY <2>6, <2>7, <2>8, <2>9, <2>10, <2>11, <2>12 DEF Filled
  <2>14. run'[r].pc \in {"chunk", "succeed", "upsert"} /\ (run'[r].pc = "succeed" => left = {})
    BY <1>3, <1>4, <1>6 DEF NextFile
  <2> QED
    BY <2>3, <2>13, <2>14 DEF Prepared
<1> QED
  BY <1>1, <1>p, <1>3, <1>5, <1>6, CallSearched

\* The rows of the file in hand get their points.
LEMMA UpsertSearched ==
  ASSUME Shape, Shape', Held, Indexed, Searched, NEW r \in Runs, UpsertChunkVectors(r)
  PROVE  Searched'
<1>0. run[r].pc = "upsert"
  BY DEF UpsertChunkVectors
<1>1. PICK s \in Sources :
        /\ s = run[r].source /\ Works(r, s) /\ run[r] \in RunState /\ run[r].base \in Nat
        /\ run[r].target \in Targets
        /\ s \notin touched => Filled(r, s)
        /\ \A c \in ChunksOf(s) : c.source = s /\ c.run = r /\ c.index \in Nat
  BY <1>0, InLoop
<1> DEFINE next == [run[r] EXCEPT !.pc = "tag"]
           rows == FileChunks(r, run[r].file)
           points == {[source |-> c.source, run |-> r, index |-> c.index,
                       collection |-> run[r].target] : c \in rows}
<1>2. PICK out : /\ vectors' = IF out # "failed" THEN vectors \cup points ELSE vectors
                 /\ Proceed(r, out, next)
  BY DEF UpsertChunkVectors
<1>3. /\ next.source = s /\ next.pc = "tag" /\ next.base = run[r].base
      /\ next.target = run[r].target /\ next.file = run[r].file /\ next.todo = run[r].todo
  BY <1>1 DEF RunState
<1>4. out = "ok" => run'[r] = next
  BY <1>2, ProceedMeans DEF Shape
<1>n. run[r].file \in Names /\ Spans[run[r].file] \in Nat
  BY <1>0, IngestionAssumption DEF IngestionAssumption, Shape, RunOK, RunShape
<1>f. /\ \A c \in rows : /\ c.source = s /\ c.run = r /\ c.index \in Nat
                         /\ run[r].base <= c.index /\ c.index < run[r].base + Spans[run[r].file]
      /\ \A k \in run[r].base .. (run[r].base + Spans[run[r].file] - 1) :
           \E c \in rows : c.index = k
  BY <1>1, <1>n, FileChunksCount
<1> HIDE DEF next, rows
<1>v. \A v \in points :
        /\ v.source = s /\ v.run = r /\ v.collection = run[r].target
        /\ \E c \in rows : c.index = v.index
  BY <1>f
<1>w. ASSUME NEW c \in rows
      PROVE  \E v \in points : v.index = c.index
  <2> DEFINE point == [source |-> c.source, run |-> r, index |-> c.index,
                       collection |-> run[r].target]
  <2>1. point \in points /\ point.index = c.index
    OBVIOUS
  <2> QED
    BY <2>1
<1> HIDE DEF points
<1>5. /\ UNCHANGED <<status, objects, upload, req, touched, chunks>>
      /\ \A v : v.source # s => (v \in vectors' <=> v \in vectors)
  BY <1>2, <1>v DEF UpsertChunkVectors
<1>6. ASSUME s \notin touched, out = "ok"
      PROVE  Prepared(r, s)'
  <2>1. /\ Filled(r, s) /\ Pointed(r) = run[r].base
        /\ Inserted(r) = run[r].base + Spans[run[r].file]
        /\ rows \subseteq ChunksOf(s)
    BY <1>0, <1>1, <1>6 DEF Inserted, Pointed, Filled, rows
  <2>2. /\ run'[r].pc = "tag" /\ run'[r].base = run[r].base /\ run'[r].target = run[r].target
        /\ run'[r].file = run[r].file /\ run'[r].todo = run[r].todo
    BY <1>3, <1>4, <1>6
  <2>3. /\ Inserted(r)' = run[r].base + Spans[run[r].file]
        /\ Pointed(r)' = run[r].base + Spans[run[r].file]
    BY <2>2 DEF Inserted, Pointed
  <2>4. /\ ChunksOf(s)' = ChunksOf(s) /\ \A m : Rows(s, m)' = Rows(s, m)
        /\ NamesOf(upload[s])' = NamesOf(upload[s])
    BY <1>5 DEF ChunksOf, Rows, NamesOf
  <2>5. VectorsIn(s, run[r].target)' = VectorsIn(s, run[r].target) \cup points
    BY <1>2, <1>6, <1>v, <2>2 DEF VectorsIn
  <2>6. \A v \in VectorsIn(s, run[r].target)' : \E c \in ChunksOf(s)' :
           c.run = v.run /\ c.index = v.index /\ c.index < Pointed(r)'
    <3>1. ASSUME NEW v \in VectorsIn(s, run[r].target)
          PROVE  \E c \in ChunksOf(s) : c.run = v.run /\ c.index = v.index /\ c.index < Pointed(r)'
      <4>1. PICK c \in ChunksOf(s) : c.run = v.run /\ c.index = v.index /\ c.index < Pointed(r)
        BY <2>1, <3>1 DEF Filled
      <4> QED
        BY <1>1, <1>n, <2>1, <2>3, <4>1
    <3>2. ASSUME NEW v \in points
          PROVE  \E c \in ChunksOf(s) : c.run = v.run /\ c.index = v.index /\ c.index < Pointed(r)'
      <4>1. PICK c \in rows : c.index = v.index
        BY <1>v, <3>2
      <4> QED
        BY <1>f, <1>v, <2>1, <2>3, <3>2, <4>1
    <3> QED
      BY <2>4, <2>5, <3>1, <3>2
  <2>7. \A c \in ChunksOf(s)' : c.index < Pointed(r)' =>
           \E v \in VectorsIn(s, run[r].target)' : v.run = c.run /\ v.index = c.index
    <3> SUFFICES ASSUME NEW c \in ChunksOf(s), c.index < run[r].base + Spans[run[r].file]
                 PROVE  \E v \in VectorsIn(s, run[r].target) \cup points :
                          v.run = c.run /\ v.index = c.index
      BY <2>3, <2>4, <2>5
    <3>1. CASE c.index < run[r].base
      BY <2>1, <3>1 DEF Filled
    <3>2. CASE ~ c.index < run[r].base
      <4>1. c.index \in run[r].base .. (run[r].base + Spans[run[r].file] - 1)
        BY <1>1, <1>n, <3>2
      <4>2. PICK d \in rows : d.index = c.index
        BY <1>f, <4>1
      <4>3. PICK v \in points : v.index = d.index
        BY <1>w
      <4> QED
        BY <1>1, <1>v, <4>2, <4>3
    <3> QED
      BY <3>1, <3>2
  <2>8. /\ run'[r].todo \subseteq NamesOf(upload[s])'
        /\ \A n \in NamesOf(upload[s])' \ run'[r].todo :
             IsFiniteSet(Rows(s, n)') /\ Cardinality(Rows(s, n)') = Spans[n]
        /\ \A c, d \in ChunksOf(s)' : c.index = d.index => c = d
    BY <2>1, <2>2, <2>4 DEF Filled
  <2>9. \A c \in ChunksOf(s)' :
          /\ c.name \notin run'[r].todo /\ c.index < Inserted(r)'
          /\ c.index < run'[r].base => c.model = run'[r].target
    BY <2>1, <2>2, <2>3, <2>4 DEF Filled
  <2>10. Filled(r, s)'
    BY <2>2, <2>6, <2>7, <2>8, <2>9 DEF Filled
  <2> QED
    BY <2>2, <2>10 DEF Prepared
<1> QED
  BY <1>1, <1>2, <1>3, <1>5, <1>6, CallSearched

\* The batch of the file in hand is tagged, and the total moves past it.
LEMMA TagSearched ==
  ASSUME Shape, Shape', Held, Indexed, Searched, NEW r \in Runs, UpdateEmbeddingModel(r)
  PROVE  Searched'
<1>0. run[r].pc = "tag"
  BY DEF UpdateEmbeddingModel
<1>1. PICK s \in Sources :
        /\ s = run[r].source /\ Works(r, s) /\ run[r] \in RunState /\ run[r].base \in Nat
        /\ run[r].target \in Targets
        /\ s \notin touched => Filled(r, s)
        /\ \A c \in ChunksOf(s) : c \in chunks /\ c.source = s /\ c.run = r
        /\ \A c \in ChunksOf(s) : c \in Chunk /\ c.index \in Nat
  BY <1>0, InLoop
<1> DEFINE next == [run[r] EXCEPT !.base = TotalAfter(r),
                             !.file = None, !.pc = NextFile(run[r].todo)]
           batch == {c \in chunks : c.run = r /\ c.index >= run[r].base}
           tag(c) == IF c.index >= run[r].base THEN [c EXCEPT !.model = run[r].target] ELSE c
<1>2. PICK out : /\ chunks' = IF out # "failed"
                      THEN (chunks \ batch) \cup {[c EXCEPT !.model = run[r].target] : c \in batch}
                      ELSE chunks
                 /\ Proceed(r, out, next)
  BY DEF UpdateEmbeddingModel, ModelOf
<1>3. /\ next.source = s /\ next.base = run[r].base + Spans[run[r].file]
      /\ next.target = run[r].target /\ next.todo = run[r].todo
      /\ next.pc = NextFile(run[r].todo)
  BY <1>1 DEF RunState, TotalAfter
<1>4. out = "ok" => run'[r] = next
  BY <1>2, ProceedMeans DEF Shape
<1> HIDE DEF next
<1>n. Spans[run[r].file] \in Nat
  BY <1>0, IngestionAssumption DEF IngestionAssumption, Shape, RunOK, RunShape
<1>b. \A c \in batch : c \in ChunksOf(s) /\ c.index >= run[r].base
  <2>1. \A c \in batch : c.source = s
    BY <1>0, <1>1 DEF Indexed, ChunksAreOwned
  <2> QED
    BY <2>1 DEF ChunksOf
<1>c. \A c \in ChunksOf(s) : c.index >= run[r].base => c \in batch
  BY <1>1
<1>t. \A c \in ChunksOf(s) :
        /\ tag(c).source = s /\ tag(c).run = c.run /\ tag(c).name = c.name
        /\ tag(c).index = c.index
        /\ tag(c).model = IF c.index >= run[r].base THEN run[r].target ELSE c.model
  BY <1>1 DEF Chunk
<1>5. /\ UNCHANGED <<status, objects, upload, req, touched, vectors>>
      /\ out # "failed" => ChunksOf(s)' = {tag(c) : c \in ChunksOf(s)}
      /\ \A c : c.source # s => (c \in chunks' <=> c \in chunks)
  <2>1. UNCHANGED <<status, objects, upload, req, touched, vectors>>
    BY DEF UpdateEmbeddingModel
  <2>2. \A c \in batch : [c EXCEPT !.model = run[r].target] = tag(c)
    BY <1>b
  <2>3. out # "failed" => chunks' = (chunks \ batch) \cup {tag(c) : c \in batch}
    BY <1>2, <2>2
  <2>4. \A c \in ChunksOf(s) : c \notin batch => tag(c) = c
    BY <1>c
  <2> HIDE DEF tag, batch
  <2>5. \A c \in batch : tag(c).source = s
    BY <1>b, <1>t
  <2>6. \A c : c.source # s => (c \in chunks' <=> c \in chunks)
    BY <1>2, <1>b, <2>3, <2>5 DEF ChunksOf
  <2>7. ASSUME out # "failed"
        PROVE  ChunksOf(s)' = {tag(c) : c \in ChunksOf(s)}
    <3>1. \A c \in chunks' : c.source = s => \E d \in ChunksOf(s) : c = tag(d)
      BY <1>b, <2>3, <2>4, <2>7 DEF ChunksOf
    <3>2. \A d \in ChunksOf(s) : tag(d) \in chunks' /\ tag(d).source = s
      BY <1>t, <2>3, <2>4, <2>7 DEF ChunksOf
    <3> QED
      BY <3>1, <3>2 DEF ChunksOf
  <2> QED
    BY <2>1, <2>6, <2>7
<1> HIDE DEF tag, batch
<1>6. ASSUME s \notin touched, out = "ok"
      PROVE  Prepared(r, s)'
  <2>1. /\ Filled(r, s) /\ Pointed(r) = Inserted(r)
        /\ Inserted(r) = run[r].base + Spans[run[r].file]
    BY <1>0, <1>1, <1>6 DEF Inserted, Pointed
  <2>2. /\ run'[r].pc = NextFile(run[r].todo) /\ run'[r].target = run[r].target
        /\ run'[r].base = Inserted(r) /\ run'[r].todo = run[r].todo
    BY <1>3, <1>4, <1>6, <2>1
  <2>3. Inserted(r)' = Inserted(r) /\ Pointed(r)' = Pointed(r)
    BY <2>1, <2>2 DEF Inserted, Pointed, NextFile
  <2>4. /\ ChunksOf(s)' = {tag(c) : c \in ChunksOf(s)}
        /\ NamesOf(upload[s])' = NamesOf(upload[s])
    BY <1>5, <1>6 DEF NamesOf
  <2>5. VectorsIn(s, run[r].target)' = VectorsIn(s, run[r].target)
    BY <1>5, <2>2 DEF VectorsIn
  <2>6. \A c, d \in ChunksOf(s) : c.index = d.index => c = d
    BY <2>1 DEF Filled
  <2>7. ASSUME NEW m \in NamesOf(upload[s]) \ run[r].todo
        PROVE  IsFiniteSet(Rows(s, m)') /\ Cardinality(Rows(s, m)') = Spans[m]
    <3> DEFINE S == Rows(s, m)
               T == Rows(s, m)'
               f == [c \in S |-> tag(c)]
    <3>1. IsFiniteSet(S) /\ Cardinality(S) = Spans[m]
      BY <2>1 DEF Filled
    <3>2. f \in [S -> T] /\ \A t \in T : \E x \in S : f[x] = t
      BY <1>t, <2>4 DEF Rows
    <3>3. \A x, y \in S : f[x] = f[y] => x = y
      BY <1>t, <2>6 DEF Rows
    <3> HIDE DEF S, T, f
    <3>4. IsFiniteSet(T) /\ Cardinality(T) = Cardinality(S)
      BY <3>1, <3>2, <3>3, CountedBy
    <3> QED
      BY <3>1, <3>4 DEF T
  <2>8. \A c \in ChunksOf(s)' :
          /\ c.name \notin run'[r].todo /\ c.index < Inserted(r)'
          /\ c.index < run'[r].base => c.model = run'[r].target
    <3> SUFFICES ASSUME NEW c \in ChunksOf(s)
                 PROVE  /\ tag(c).name \notin run[r].todo /\ tag(c).index < Inserted(r)
                        /\ tag(c).model = run[r].target
      BY <2>2, <2>3, <2>4
    <3>1. /\ c.name \notin run[r].todo /\ c.index < Inserted(r)
          /\ c.index < run[r].base => c.model = run[r].target
      BY <2>1 DEF Filled
    <3>2. c.index < run[r].base \/ c.index >= run[r].base
      BY <1>1
    <3> QED
      BY <1>t, <3>1, <3>2
  <2>9. \A c, d \in ChunksOf(s)' : c.index = d.index => c = d
    BY <1>t, <2>4, <2>6
  <2>10. \A v \in VectorsIn(s, run[r].target)' : \E c \in ChunksOf(s)' :
           c.run = v.run /\ c.index = v.index /\ c.index < Pointed(r)'
    <3> SUFFICES ASSUME NEW v \in VectorsIn(s, run[r].target)
                 PROVE  \E c \in ChunksOf(s) : /\ tag(c).run = v.run /\ tag(c).index = v.index
                                              /\ tag(c).index < Pointed(r)
      BY <2>3, <2>4, <2>5
    <3> QED
      BY <1>t, <2>1 DEF Filled
  <2>11. \A c \in ChunksOf(s)' : c.index < Pointed(r)' =>
           \E v \in VectorsIn(s, run[r].target)' : v.run = c.run /\ v.index = c.index
    <3> SUFFICES ASSUME NEW c \in ChunksOf(s), tag(c).index < Pointed(r)
                 PROVE  \E v \in VectorsIn(s, run[r].target) :
                          v.run = tag(c).run /\ v.index = tag(c).index
      BY <2>3, <2>4, <2>5
    <3> QED
      BY <1>t, <2>1 DEF Filled
  <2>12. /\ run'[r].todo \subseteq NamesOf(upload[s])'
         /\ \A m \in NamesOf(upload[s])' \ run'[r].todo :
              IsFiniteSet(Rows(s, m)') /\ Cardinality(Rows(s, m)') = Spans[m]
    BY <2>1, <2>2, <2>4, <2>7 DEF Filled
  <2>13. run'[r].pc \in {"chunk", "succeed"} /\ (run'[r].pc = "succeed" => run'[r].todo = {})
    BY <2>2 DEF NextFile
  <2>14. Filled(r, s)'
    BY <2>8, <2>9, <2>10, <2>11, <2>12, <2>13 DEF Filled
  <2> QED
    BY <2>13, <2>14 DEF Prepared
<1> QED
  BY <1>1, <1>2, <1>3, <1>5, <1>6, CallSearched

\* The write of indexed comes after the last file.
LEMMA SettleSearched ==
  ASSUME Shape, Shape', Held, Indexed, Searched, NEW r \in Runs, SettleStatus(r)
  PROVE  Searched'
<1>0. run[r].pc \in Settling
  BY DEF SettleStatus
<1>1. PICK s \in Sources : s = run[r].source /\ Works(r, s) /\ run[r] \in RunState
  BY <1>0, PipelineSource
<1>2. /\ \A o \in Runs \ {r} : run'[o] = run[o]
      /\ run'[r].source = s /\ run'[r].pc = "announce"
  BY <1>1 DEF SettleStatus, Shape, RunOK, RunState
<1>3. /\ UNCHANGED <<objects, upload, req, touched, chunks, vectors>>
      /\ \A x \in Sources \ {s} : status'[x] = status[x]
      /\ status'[s] = status[s] \/ HasRow(s)
      /\ status[s] = "deleted" => status'[s] = "deleted"
      /\ status'[s] \notin {"unborn", "deleted"} \/ status'[s] = status[s]
      /\ status'[s] = "indexed" => run[r].pc = "succeed" \/ status[s] = "indexed"
  BY <1>1 DEF SettleStatus, StatusWritten, HasRow, Shape, StoresOK
<1>4. status[s] \in {"indexing", "deleted"}
  BY <1>1 DEF Held, WorkedIsIndexing
<1>5. ASSUME s \notin touched, status'[s] = "indexed"
      PROVE  Searchable(s)'
  <2>1. run[r].pc = "succeed"
    BY <1>3, <1>4, <1>5
  <2>2. Filled(r, s) /\ run[r].todo = {}
    BY <1>1, <1>5, <2>1 DEF Searched, Prepared
  <2>3. /\ run[r].target \in Targets /\ Inserted(r) = run[r].base /\ Pointed(r) = run[r].base
    BY <2>1 DEF Shape, RunOK, RunShape, Inserted, Pointed
  <2>4. \A c \in ChunksOf(s) : c.model = run[r].target /\ c.index < Pointed(r)
    BY <2>2, <2>3 DEF Filled
  <2>5. {<<v.run, v.index>> : v \in VectorsIn(s, run[r].target)}
          = {<<d.run, d.index>> : d \in ChunksOf(s)}
    <3>1. \A v \in VectorsIn(s, run[r].target) :
            \E c \in ChunksOf(s) : c.run = v.run /\ c.index = v.index
      BY <2>2 DEF Filled
    <3>2. \A c \in ChunksOf(s) :
            \E v \in VectorsIn(s, run[r].target) : v.run = c.run /\ v.index = c.index
      BY <2>2, <2>4 DEF Filled
    <3> QED
      BY <3>1, <3>2
  <2>6. \A n \in NamesOf(upload[s]) : Cardinality(Rows(s, n)) = Spans[n]
    BY <2>2 DEF Filled
  <2>7. Searchable(s)
    BY <2>2, <2>3, <2>4, <2>5, <2>6 DEF Searchable, Filled
  <2>8. Content(s)' = Content(s)
    BY <1>3 DEF Content, ChunksOf, VectorsIn
  <2> QED
    BY <2>7, <2>8, SearchableKept
<1> QED
  BY <1>1, <1>2, <1>3, <1>4, <1>5, WorkSearched

LEMMA SlotSearched ==
  ASSUME Shape, Shape', Held, Searched, NEW r \in Runs, Acquire(r) \/ Expire(r)
  PROVE  Searched'
<1>0. run[r].pc \in Live
  BY DEF Acquire, Expire
<1>1. PICK s \in Sources : s = run[r].source /\ Works(r, s) /\ run[r] \in RunState
  BY <1>0, PipelineSource
<1>2. /\ UNCHANGED <<status, upload, objects, chunks, vectors, req, touched>>
      /\ \A o \in Runs \ {r} : run'[o] = run[o]
  BY DEF Acquire, Expire, stores, runOnly, Shape, RunOK
<1>3. /\ run'[r].source = s /\ run'[r].fresh = run[r].fresh /\ run'[r].todo = run[r].todo
      /\ run'[r].target = run[r].target /\ run'[r].base = run[r].base
      /\ run'[r].file = run[r].file
      /\ \/ run'[r].pc = run[r].pc
         \/ run[r].pc = "queued" /\ run'[r].pc = "resolve"
  <2>1. CASE Acquire(r)
    <3>1. run'[r] = [run[r] EXCEPT !.pc = "resolve"]
      BY <2>1 DEF Acquire, FirstStep, Shape, RunOK
    <3> QED
      BY <1>1, <2>1, <3>1 DEF Acquire, RunState
  <2>2. CASE Expire(r)
    <3>1. run'[r] = [run[r] EXCEPT !.late = TRUE]
      BY <2>2 DEF Expire, Shape, RunOK
    <3>2. run'[r].pc = run[r].pc
      BY <1>1, <3>1 DEF RunState
    <3> QED
      BY <1>1, <3>1, <3>2 DEF RunState
  <2> QED
    BY <2>1, <2>2
<1>4. status[s] \in {"indexing", "deleted"}
  BY <1>1 DEF Held, WorkedIsIndexing
<1>5. ASSUME s \notin touched
      PROVE  Prepared(r, s)'
  <2>0. Prepared(r, s)
    BY <1>1, <1>5 DEF Searched
  <2>1. CASE run[r].pc = "queued" /\ run'[r].pc = "resolve"
    <3>1. /\ NamesOf(upload[s])' = NamesOf(upload[s])
          /\ \A t : VectorsIn(s, t)' = VectorsIn(s, t)
      BY <1>2 DEF NamesOf, VectorsIn
    <3> QED
      BY <1>3, <2>0, <2>1, <3>1 DEF Prepared
  <2>2. CASE run'[r].pc = run[r].pc
    <3>1. /\ NamesOf(upload[s])' = NamesOf(upload[s]) /\ ChunksOf(s)' = ChunksOf(s)
          /\ \A t : VectorsIn(s, t)' = VectorsIn(s, t)
          /\ VectorsIn(s, run[r].target)' = VectorsIn(s, run[r].target)
          /\ \A m : Rows(s, m)' = Rows(s, m)
      BY <1>2, <1>3 DEF NamesOf, VectorsIn, ChunksOf, Rows
    <3>2. FileChunks(r, run[r].file)' = FileChunks(r, run[r].file)
      BY <1>1, <1>3 DEF FileChunks
    <3>3. Inserted(r)' = Inserted(r) /\ Pointed(r)' = Pointed(r)
      BY <1>3, <2>2 DEF Inserted, Pointed
    <3>4. Filled(r, s) => Filled(r, s)'
      BY <1>3, <2>2, <3>1, <3>2, <3>3 DEF Filled
    <3> QED
      BY <1>3, <2>0, <2>2, <3>1, <3>4 DEF Prepared
  <2> QED
    BY <1>3, <2>1, <2>2
<1> QED
  BY <1>1, <1>2, <1>3, <1>4, <1>5, WorkSearched

-----------------------------------------------------------------------------
(* The steps that no run at work makes.                                     *)

LEMMA OutsideSearched ==
  ASSUME Shape, Searched, ObjectsStored', DeletesTouch', NoPointBefore',
         touched \subseteq touched',
         \A x \in Sources \ touched', r \in Runs : Works(r, x)' =>
           \/ run'[r] = run[r] /\ Content(x)' = Content(x)
           \/ Prepared(r, x)',
         \A x \in Sources \ touched' : status'[x] = "indexed" =>
           status[x] = "indexed" /\ Content(x)' = Content(x)
  PROVE  Searched'
<1>1. ASSUME NEW x \in Sources \ touched', NEW r \in Runs, Works(r, x)'
      PROVE  Prepared(r, x)'
  <2>1. CASE run'[r] = run[r] /\ Content(x)' = Content(x)
    <3>1. Works(r, x) /\ Prepared(r, x)
      BY <1>1, <2>1 DEF Works, Searched
    <3> QED
      BY <2>1, <3>1, PreparedKept
  <2> QED
    BY <1>1, <2>1
<1>2. ASSUME NEW x \in Sources \ touched', status'[x] = "indexed"
      PROVE  Searchable(x)'
  BY <1>2, SearchableKept DEF Searched
<1> QED
  BY <1>1, <1>2 DEF Searched

\* What a source holds stays as it is while the stores do.
LEMMA SameContent ==
  ASSUME UNCHANGED <<chunks, vectors>>, NEW x \in Sources, upload'[x] = upload[x]
  PROVE  Content(x)' = Content(x)
  BY DEF Content, ChunksOf, VectorsIn

\* A run is launched on a source that is not worked on; the one of a Create
\* has the whole upload before it.
LEMMA LaunchSearched ==
  ASSUME Shape, NEW s \in Sources, NEW fresh \in BOOLEAN, Launch(s, fresh), Searched,
         UNCHANGED upload, fresh => \A v \in vectors' : v.source # s
  PROVE  \A x \in Sources, r \in Runs : Works(r, x)' => run'[r] = run[r] \/ Prepared(r, x)'
<1>1. PICK r \in Runs : Launch(s, fresh)!(r)
  BY DEF Launch
<1> DEFINE new == [IdleRun EXCEPT !.pc = "queued", !.source = s, !.fresh = fresh,
                         !.todo = IF fresh THEN NamesOf(upload[s]) ELSE {}]
<1>2. /\ new.pc = "queued" /\ new.source = s /\ new.fresh = fresh
      /\ fresh => new.todo = NamesOf(upload[s])
  BY DEF IdleRun
<1>3. run'[r] = new /\ \A o \in Runs \ {r} : run'[o] = run[o]
  BY <1>1 DEF Shape, RunOK
<1> HIDE DEF new
<1>4. \A x \in Sources : Works(r, x)' => x = s
  BY <1>2, <1>3 DEF Works
<1>5. Prepared(r, s)'
  <2>1. fresh => \A t : VectorsIn(s, t)' = {}
    BY DEF VectorsIn
  <2>2. NamesOf(upload[s])' = NamesOf(upload[s])
    BY DEF NamesOf
  <2> QED
    BY <1>2, <1>3, <2>1, <2>2 DEF Prepared
<1> QED
  BY <1>3, <1>4, <1>5

LEMMA CreateSearched ==
  ASSUME Shape, Shape', Held, Held', Searched, NEW q \in Requests, CreateStep(q)
  PROVE  Searched'
<1>s. ObjectsStored /\ DeletesTouch /\ NoPointBefore
  BY DEF Searched
<1>t. /\ \A x \in Sources, o \in Requests : Creates(o, x) <=> Makes(o, x) /\ req[o].at = "fileRows"
      /\ \A x \in Sources, o \in Requests :
           Creates(o, x)' <=> Makes(o, x)' /\ req'[o].at = "fileRows"
      /\ \A v \in vectors : v.source \in Sources
  BY DEF Creates, Makes, Shape, ReqOK, ReqShape, StoresOK, Vector
<1>1. CASE BeginCreate(q)
  <2>1. PICK s \in Sources, P \in (SUBSET Parts) \ {{}} :
           /\ upload[s] = {} /\ upload' = [upload EXCEPT ![s] = P]
           /\ \A o \in Requests \ {q} : req'[o] = req[o]
           /\ req'[q].op = "create" /\ req'[q].at = "store" /\ req'[q].source = s
           /\ req'[q].parts = P
    BY <1>1, BeginCreateMeans
  <2>2. UNCHANGED <<status, objects, chunks, vectors, run, touched>>
    BY <1>1 DEF BeginCreate, stores
  <2>3. /\ upload'[s] = P /\ \A x \in Sources \ {s} : upload'[x] = upload[x]
        /\ status[s] = "unborn" /\ \A o \in Requests : ~ Makes(o, s)
        /\ \A r \in Runs : ~ Works(r, s)
    BY <2>1 DEF Shape, StoresOK, Held, DrawnBeforeBorn, MakerSeesRow, WorkedIsIndexing
  <2>4. /\ \A o \in Requests, x \in Sources \ {s} : Makes(o, x)' => o # q /\ Makes(o, x)
        /\ \A o \in Requests : Makes(o, s)' => o = q
    BY <2>1, <2>3 DEF Makes
  <2>5. ObjectsStored'
    <3>1. ASSUME NEW x \in Sources \ {s}
          PROVE  /\ objects'[x] \subseteq NamesOf(upload[x])'
                 /\ status'[x] # "unborn" /\ x \notin touched' => objects'[x] = NamesOf(upload[x])'
                 /\ \A o \in Requests : Makes(o, x)' =>
                      /\ req'[o].at = "store" =>
                           /\ req'[o].parts \subseteq upload'[x]
                           /\ NamesOf(upload[x])' \subseteq objects'[x] \cup NamesOf(req[o].parts)'
                      /\ req'[o].at = "insert" => objects'[x] = NamesOf(upload[x])'
      BY <1>s, <2>1, <2>2, <2>3, <2>4 DEF ObjectsStored, NamesOf
    <3>2. /\ objects'[s] \subseteq NamesOf(upload[s])' /\ status'[s] = "unborn"
          /\ NamesOf(upload[s])' \subseteq NamesOf(req[q].parts)'
      BY <1>s, <2>1, <2>2, <2>3 DEF ObjectsStored, NamesOf
    <3> QED
      BY <2>1, <2>3, <2>4, <3>1, <3>2 DEF ObjectsStored
  <2>6. DeletesTouch' /\ NoPointBefore'
    BY <1>s, <1>t, <2>1, <2>2, <2>3, <2>4 DEF DeletesTouch, NoPointBefore
  <2>7. \A x \in Sources \ {s} : Content(x)' = Content(x)
    BY <2>2, <2>3, SameContent
  <2> QED
    BY <2>2, <2>3, <2>5, <2>6, <2>7, OutsideSearched DEF Works
<1>2. CASE StoreFile(q)
  <2>1. PICK p \in req[q].parts, out \in Outcomes("store") :
           /\ req[q].op = "create" /\ req[q].at = "store" /\ req[q].source \in Sources
           /\ objects' = IF out # "failed"
                THEN [objects EXCEPT ![req[q].source] = @ \cup {NameOf[p]}] ELSE objects
           /\ \A o \in Requests \ {q} : req'[o] = req[o]
           /\ out # "ok" => req'[q].op = "idle" /\ req'[q].at = "start"
           /\ out = "ok" =>
                /\ req'[q].op = "create" /\ req'[q].source = req[q].source
                /\ req'[q].parts = req[q].parts \ {p}
                /\ req'[q].at = IF req[q].parts \ {p} = {} THEN "insert" ELSE "store"
    BY <1>2, StoreFileMeans
  <2>2. UNCHANGED <<status, upload, chunks, vectors, run, touched>>
    BY <1>2 DEF StoreFile
  <2>3. PICK s \in Sources : s = req[q].source /\ Makes(q, s)
    BY <2>1 DEF Makes
  <2>4. /\ status[s] = "unborn" /\ \A o \in Requests \ {q} : ~ Makes(o, s)
        /\ \A x \in Sources \ {s} : ~ Makes(q, x) /\ ~ Makes(q, x)'
    BY <2>1, <2>3 DEF Held, MakerSeesRow, OneMaker, Makes
  <2>5. /\ \A x \in Sources \ {s} : objects'[x] = objects[x]
        /\ objects[s] \subseteq objects'[s] /\ objects'[s] \subseteq objects[s] \cup {NameOf[p]}
        /\ out = "ok" => objects'[s] = objects[s] \cup {NameOf[p]}
    BY <2>1, <2>3 DEF Shape, StoresOK
  <2>6. ObjectsStored'
    <3>0. /\ objects[s] \subseteq NamesOf(upload[s]) /\ req[q].parts \subseteq upload[s]
          /\ NamesOf(upload[s]) \subseteq objects[s] \cup NamesOf(req[q].parts)
      BY <1>s, <2>1, <2>3 DEF ObjectsStored
    <3>1. ASSUME NEW x \in Sources \ {s}
          PROVE  /\ objects'[x] \subseteq NamesOf(upload[x])'
                 /\ status'[x] # "unborn" /\ x \notin touched' => objects'[x] = NamesOf(upload[x])'
                 /\ \A o \in Requests : Makes(o, x)' =>
                      /\ req'[o].at = "store" =>
                           /\ req'[o].parts \subseteq upload'[x]
                           /\ NamesOf(upload[x])' \subseteq objects'[x] \cup NamesOf(req[o].parts)'
                      /\ req'[o].at = "insert" => objects'[x] = NamesOf(upload[x])'
      BY <1>s, <2>1, <2>2, <2>4, <2>5 DEF ObjectsStored, NamesOf, Makes
    <3>2. objects'[s] \subseteq NamesOf(upload[s])'
      BY <2>1, <2>2, <2>5, <3>0 DEF NamesOf
    <3>3. ASSUME NEW o \in Requests, Makes(o, s)'
          PROVE  /\ o = q /\ out = "ok"
      BY <2>1, <2>3, <2>4, <3>3 DEF Makes
    <3>4. out = "ok" => /\ req'[q].parts \subseteq upload'[s]
                        /\ NamesOf(upload[s])' \subseteq objects'[s] \cup NamesOf(req[q].parts)'
      BY <2>1, <2>2, <2>5, <3>0 DEF NamesOf
    <3>5. out = "ok" /\ req'[q].at = "insert" => objects'[s] = NamesOf(upload[s])'
      <4>1. req'[q].at = "insert" /\ out = "ok" => NamesOf(req[q].parts)' = {}
        BY <2>1 DEF NamesOf
      <4> QED
        BY <3>2, <3>4, <4>1
    <3> QED
      BY <2>2, <2>4, <3>1, <3>2, <3>3, <3>4, <3>5 DEF ObjectsStored
  <2>7. DeletesTouch' /\ NoPointBefore'
    BY <1>s, <1>t, <2>1, <2>2 DEF DeletesTouch, NoPointBefore, Makes
  <2> QED
    BY <2>2, <2>6, <2>7, SameContent, OutsideSearched DEF Works
<1>3. CASE InsertSource(q)
  <2>1. PICK s \in Sources, out \in Outcomes("insert") :
           /\ Makes(q, s) /\ req[q].at = "insert" /\ status[s] = "unborn"
           /\ status' = IF out # "failed" THEN [status EXCEPT ![s] = "indexing"] ELSE status
           /\ \A o \in Requests \ {q} : req'[o] = req[o]
           /\ out # "ok" => req'[q].op = "idle" /\ req'[q].at = "start"
           /\ out = "ok" =>
                req'[q].op = "create" /\ req'[q].at = "fileRows" /\ req'[q].source = s
    BY <1>3, InsertSourceMeans
  <2>2. UNCHANGED <<upload, objects, chunks, vectors, run, touched>>
    BY <1>3 DEF InsertSource
  <2>3. /\ objects[s] = NamesOf(upload[s])
        /\ \A x \in Sources \ {s} : status'[x] = status[x]
        /\ status'[s] \in {"unborn", "indexing"}
    BY <1>s, <2>1 DEF ObjectsStored, Shape, StoresOK
  <2>4. ObjectsStored'
    <3>1. \A o \in Requests, x \in Sources : Makes(o, x)' =>
            (o # q /\ Makes(o, x)) \/ req'[o].at = "fileRows"
      BY <2>1 DEF Makes
    <3> QED
      BY <1>s, <2>1, <2>2, <2>3, <3>1 DEF ObjectsStored, NamesOf
  <2>5. DeletesTouch'
    BY <1>s, <2>1, <2>2, <2>3 DEF DeletesTouch
  <2>6. NoPointBefore'
    <3>1. \A v \in vectors : v.source # s
      BY <1>s, <2>1 DEF NoPointBefore
    <3> QED
      BY <1>s, <1>t, <2>1, <2>2, <2>3, <3>1 DEF NoPointBefore, Creates
  <2> QED
    BY <2>2, <2>3, <2>4, <2>5, <2>6, SameContent, OutsideSearched DEF Works
<1>4. CASE InsertSourceFile(q)
  <2>1. PICK s \in Sources :
           /\ Makes(q, s) /\ Creates(q, s)
           /\ UNCHANGED run \/ Launch(s, TRUE)
           /\ \A o \in Requests \ {q} : req'[o] = req[o]
           /\ \/ req'[q].op = "idle" /\ req'[q].at = "start"
              \/ req'[q].op = "create" /\ req'[q].at = "fileRows" /\ req'[q].source = s
    BY <1>4, InsertSourceFileMeans
  <2>2. UNCHANGED <<status, upload, objects, chunks, vectors, touched>>
    BY <1>4 DEF InsertSourceFile
  <2>3. ObjectsStored'
    <3>1. \A o \in Requests, x \in Sources : Makes(o, x)' =>
            (o # q /\ Makes(o, x)) \/ req'[o].at = "fileRows"
      BY <2>1 DEF Makes
    <3> QED
      BY <1>s, <2>1, <2>2, <3>1 DEF ObjectsStored, NamesOf
  <2>4. DeletesTouch' /\ NoPointBefore'
    <3>1. \A o \in Requests, x \in Sources : Creates(o, x)' => Creates(o, x)
      BY <2>1 DEF Creates
    <3> QED
      BY <1>s, <1>t, <2>1, <2>2, <3>1 DEF DeletesTouch, NoPointBefore
  <2>5. \A v \in vectors' : v.source # s
    BY <1>s, <2>1, <2>2 DEF NoPointBefore
  <2>6. \A x \in Sources, r \in Runs : Works(r, x)' => run'[r] = run[r] \/ Prepared(r, x)'
    BY <2>1, <2>2, <2>5, LaunchSearched
  <2> QED
    BY <2>2, <2>3, <2>4, <2>6, SameContent, OutsideSearched
<1> QED
  BY <1>1, <1>2, <1>3, <1>4 DEF CreateStep

\* A Delete changes what a source holds only when it has touched it.
LEMMA DeleteSearched ==
  ASSUME Shape, Shape', Held, Searched, NEW q \in Requests, DeleteStep(q)
  PROVE  Searched'
<1>s. ObjectsStored /\ DeletesTouch /\ NoPointBefore
  BY DEF Searched
<1>1. CASE DeleteSourceVectors(q)
  <2>1. PICK out \in Outcomes("delete") :
           /\ req[q].op \notin {"create", "idle"} /\ req[q].at = "vectors" /\ req[q].source \in Sources
           /\ vectors' = IF out # "failed"
                THEN vectors \ VectorsIn(req[q].source, req[q].target) ELSE vectors
           /\ touched' = IF out # "failed" THEN touched \cup {req[q].source} ELSE touched
           /\ \A o \in Requests \ {q} : req'[o] = req[o]
           /\ out # "ok" => req'[q].op = "idle" /\ req'[q].at = "start"
           /\ out = "ok" =>
                /\ req'[q].op = req[q].op /\ req'[q].source = req[q].source
                /\ req'[q].keys = objects[req[q].source]
                /\ req'[q].at = IF objects[req[q].source] = {} THEN "row" ELSE "objects"
    BY <1>1, DeleteVectorsMeans
  <2>2. UNCHANGED <<status, upload, objects, chunks, run>>
    BY <1>1 DEF DeleteSourceVectors
  <2>3. touched \subseteq touched' /\ (out = "ok" => req[q].source \in touched')
    BY <2>1
  <2>4. ObjectsStored'
    <3>1. \A o \in Requests, x \in Sources : Makes(o, x)' => o # q /\ Makes(o, x)
      BY <2>1 DEF Makes
    <3> QED
      BY <1>s, <2>1, <2>2, <2>3, <3>1 DEF ObjectsStored, NamesOf
  <2>5. DeletesTouch' /\ NoPointBefore'
    <3>1. \A o \in Requests, x \in Sources : Creates(o, x)' => Creates(o, x)
      BY <2>1 DEF Creates
    <3>2. vectors' \subseteq vectors
      BY <2>1
    <3>3. \A v \in vectors : v.source \in Sources
      BY DEF Shape, StoresOK, Vector
    <3> QED
      BY <1>s, <2>1, <2>2, <2>3, <3>1, <3>2, <3>3 DEF DeletesTouch, NoPointBefore
  <2>6. \A x \in Sources \ touched' : Content(x)' = Content(x)
    <3> SUFFICES ASSUME NEW x \in Sources \ touched'
                 PROVE  Content(x)' = Content(x)
      OBVIOUS
    <3>1. \A v : v.source = x => (v \in vectors' <=> v \in vectors)
      BY <2>1 DEF VectorsIn
    <3>2. \A t \in Targets : VectorsIn(x, t)' = VectorsIn(x, t)
      BY <3>1 DEF VectorsIn
    <3>3. ChunksOf(x)' = ChunksOf(x)
      BY <2>2 DEF ChunksOf
    <3> QED
      BY <2>2, <3>2, <3>3 DEF Content
  <2> QED
    BY <2>2, <2>3, <2>4, <2>5, <2>6, OutsideSearched
<1>2. CASE DeleteObject(q)
  <2>1. PICK k \in req[q].keys, out \in Outcomes("delete") :
           /\ req[q].at = "objects" /\ req[q].source \in Sources
           /\ objects' = IF out # "failed"
                THEN [objects EXCEPT ![req[q].source] = @ \ {k}] ELSE objects
           /\ \A o \in Requests \ {q} : req'[o] = req[o]
           /\ out # "ok" => req'[q].op = "idle" /\ req'[q].at = "start"
           /\ out = "ok" =>
                /\ req'[q].op = req[q].op /\ req'[q].source = req[q].source
                /\ req'[q].keys = req[q].keys \ {k}
                /\ req'[q].at = IF req[q].keys \ {k} = {} THEN "row" ELSE "objects"
    BY <1>2, DeleteObjectMeans
  <2>2. UNCHANGED <<status, upload, chunks, vectors, run, touched>>
    BY <1>2 DEF DeleteObject
  <2>3. /\ \A x \in Sources \ {req[q].source} : objects'[x] = objects[x]
        /\ objects'[req[q].source] \subseteq objects[req[q].source]
        /\ req[q].source \in touched /\ status[req[q].source] # "unborn"
        /\ req[q].op # "create"
    BY <1>s, <2>1 DEF DeletesTouch, Shape, StoresOK, Held, DeletedWasBorn, ReqOK, ReqShape
  <2>4. \A o \in Requests, x \in Sources :
          /\ Makes(o, x)' => o # q /\ Makes(o, x)
          /\ Creates(o, x)' => Creates(o, x)
    BY <2>1, <2>3 DEF Makes, Creates
  <2>5. ObjectsStored'
    <3>1. \A o \in Requests : Makes(o, req[q].source) => req[o].at \notin {"store", "insert"}
      BY <2>1, <2>3 DEF Held, MakerSeesRow
    <3>2. \A o \in Requests, x \in Sources : Makes(o, x)' /\ req'[o].at \in {"store", "insert"} =>
            /\ Makes(o, x) /\ req'[o] = req[o] /\ objects'[x] = objects[x]
      BY <2>1, <2>3, <2>4, <3>1 DEF Makes
    <3>3. \A x \in Sources :
            /\ objects'[x] \subseteq NamesOf(upload[x])'
            /\ status'[x] # "unborn" /\ x \notin touched' => objects'[x] = NamesOf(upload[x])'
      BY <1>s, <2>1, <2>2, <2>3 DEF ObjectsStored, NamesOf
    <3> QED
      BY <1>s, <2>2, <3>2, <3>3 DEF ObjectsStored, NamesOf
  <2>6. DeletesTouch' /\ NoPointBefore'
    <3>1. \A v \in vectors : v.source \in Sources
      BY DEF Shape, StoresOK, Vector
    <3> QED
      BY <1>s, <2>1, <2>2, <2>3, <2>4, <3>1 DEF DeletesTouch, NoPointBefore
  <2> QED
    BY <2>2, <2>5, <2>6, SameContent, OutsideSearched
<1>3. CASE DeleteRow(q)
  <2>1. /\ req[q].source \in touched /\ req[q].at = "row" /\ req[q].source \in Sources
        /\ req[q].op # "create"
        /\ req' = [req EXCEPT ![q] = IdleReq]
        /\ UNCHANGED <<upload, objects, vectors, run, touched>>
        /\ \A x \in Sources \ {req[q].source} : status'[x] = status[x]
        /\ status'[req[q].source] = "deleted" \/ UNCHANGED status
        /\ \A c : c.source # req[q].source => (c \in chunks' <=> c \in chunks)
    BY <1>3, <1>s DEF DeleteRow, DeletesTouch, Shape, StoresOK, ReqOK, ReqShape
  <2>2. \A o \in Requests : \/ req'[o] = req[o] /\ o # q
                            \/ req'[o].op = "idle" /\ req'[o].at = "start"
    BY <2>1, IdleMeans DEF Shape, ReqOK
  <2>3. status[req[q].source] # "unborn"
    BY <2>1 DEF Held, DeletedWasBorn
  <2>4. ObjectsStored'
    <3>1. \A o \in Requests, x \in Sources : Makes(o, x)' => req'[o] = req[o] /\ Makes(o, x)
      BY <2>2 DEF Makes
    <3>2. \A x \in Sources : status'[x] # "unborn" => status[x] # "unborn"
      BY <2>1, <2>3
    <3> QED
      BY <1>s, <2>1, <3>1, <3>2 DEF ObjectsStored, NamesOf
  <2>5. DeletesTouch' /\ NoPointBefore'
    <3>1. \A v \in vectors : v.source \in Sources
      BY DEF Shape, StoresOK, Vector
    <3>2. \A o \in Requests, x \in Sources : Creates(o, x)' => Creates(o, x)
      BY <2>2 DEF Creates
    <3> QED
      BY <1>s, <2>1, <2>2, <3>1, <3>2 DEF DeletesTouch, NoPointBefore
  <2>6. \A x \in Sources \ touched : Content(x)' = Content(x)
    <3> SUFFICES ASSUME NEW x \in Sources \ touched
                 PROVE  Content(x)' = Content(x)
      OBVIOUS
    <3>1. ChunksOf(x)' = ChunksOf(x)
      BY <2>1 DEF ChunksOf
    <3>2. \A t \in Targets : VectorsIn(x, t)' = VectorsIn(x, t)
      BY <2>1 DEF VectorsIn
    <3> QED
      BY <2>1, <3>1, <3>2 DEF Content
  <2> QED
    BY <2>1, <2>4, <2>5, <2>6, OutsideSearched
<1> QED
  BY <1>1, <1>2, <1>3 DEF DeleteStep

\* The other handlers read the stores, claim a settled row or launch a run
\* that will clear what it finds.
LEMMA OtherSearched ==
  ASSUME Shape, Shape', Held, Searched, NEW q \in Requests,
         Handler(q), ~ CreateStep(q), ~ DeleteStep(q)
  PROVE  Searched'
<1>s. ObjectsStored /\ DeletesTouch /\ NoPointBefore
  BY DEF Searched
<1>1. /\ UNCHANGED <<objects, chunks, vectors, upload, touched>>
      /\ \A o \in Requests \ {q} : req'[o] = req[o]
      /\ req'[q].op # "create" /\ req'[q].at \notin {"objects", "row"}
      /\ \A x \in Sources :
           status'[x] = status[x] \/ (Claimable(x) /\ status'[x] = "indexing")
      /\ UNCHANGED run \/ \E x \in Sources : Launch(x, FALSE)
  BY OtherHandlerMeans
<1>2. /\ \A o \in Requests, x \in Sources : Makes(o, x)' => o # q /\ Makes(o, x)
      /\ \A o \in Requests, x \in Sources : Creates(o, x)' => Creates(o, x)
      /\ \A x \in Sources : (status'[x] = "unborn" <=> status[x] = "unborn")
                         /\ (status'[x] = "deleted" => status[x] = "deleted")
                         /\ (status'[x] = "indexed" => status[x] = "indexed")
  BY <1>1 DEF Makes, Creates, Shape, ReqOK, ReqShape, Claimable, HasRow
<1>3. ObjectsStored'
  BY <1>s, <1>1, <1>2 DEF ObjectsStored, NamesOf
<1>4. DeletesTouch' /\ NoPointBefore'
  <2>1. \A v \in vectors : v.source \in Sources
    BY DEF Shape, StoresOK, Vector
  <2> QED
    BY <1>s, <1>1, <1>2, <2>1 DEF DeletesTouch, NoPointBefore
<1>5. \A x \in Sources, r \in Runs : Works(r, x)' => run'[r] = run[r] \/ Prepared(r, x)'
  BY <1>1, LaunchSearched
<1> QED
  BY <1>1, <1>2, <1>3, <1>4, <1>5, SameContent, OutsideSearched

\* A settings change, the end of a run and a restart leave the stores alone.
LEMMA QuietSearched ==
  ASSUME Shape, Shape', Searched,
         UNCHANGED <<objects, chunks, vectors, upload, touched>>,
         \A r \in Runs : run'[r] = run[r] \/ run'[r].pc \notin Live,
         \A q \in Requests : req'[q] = req[q] \/ req'[q].at = "start",
         \A x \in Sources : \/ status'[x] = status[x]
                            \/ status[x] = "indexing" /\ status'[x] = "error"
  PROVE  Searched'
<1>s. ObjectsStored /\ DeletesTouch /\ NoPointBefore
  BY DEF Searched
<1>1. \A q \in Requests, x \in Sources :
        /\ Makes(q, x)' => Makes(q, x) /\ req'[q] = req[q]
        /\ Creates(q, x)' => Creates(q, x)
  BY DEF Makes, Creates, Shape, ReqOK, ReqShape
<1>2. ObjectsStored'
  BY <1>s, <1>1 DEF ObjectsStored, NamesOf
<1>3. DeletesTouch' /\ NoPointBefore'
  <2>1. \A v \in vectors : v.source \in Sources
    BY DEF Shape, StoresOK, Vector
  <2> QED
    BY <1>s, <1>1, <2>1 DEF DeletesTouch, NoPointBefore
<1>4. \A r \in Runs, x \in Sources : Works(r, x)' => run'[r] = run[r]
  BY DEF Works
<1> QED
  BY <1>2, <1>3, <1>4, SameContent, OutsideSearched

LEMMA SearchedInvariant == Spec => []Searched
<1>1. ASSUME Shape, Shape', Held, Held', Indexed, Searched, [Next]_vars
      PROVE  Searched'
  <2>1. CASE UNCHANGED vars \/ SetEmbedding
    BY <1>1, <2>1, QuietSearched DEF vars, SetEmbedding, stores
  <2>2. ASSUME NEW q \in Requests, Handler(q)
        PROVE  Searched'
    BY <1>1, <2>2, CreateSearched, DeleteSearched, OtherSearched
  <2>3. ASSUME NEW r \in Runs, Acquire(r) \/ Expire(r) \/ RunStep(r)
        PROVE  Searched'
    <3>1. CASE Announce(r)
      <4>1. \A o \in Runs : run'[o] = run[o] \/ run'[o].pc = "ended"
        BY <1>1, <3>1 DEF Announce, EndedRun, IdleRun, Shape, RunOK
      <4> QED
        BY <1>1, <3>1, <4>1, QuietSearched DEF Announce, stores
    <3> QED
      BY <1>1, <2>3, <3>1, SlotSearched, ResolveSearched, ClearSearched, FetchSearched,
         ChunkFileSearched, UpsertSearched, TagSearched, SettleSearched DEF RunStep
  <2>4. CASE Restart
    <3>1. \A o \in Runs : run'[o].pc \in {"idle", "ended"}
      BY <2>4 DEF Restart, EndedRun, IdleRun
    <3>2. /\ UNCHANGED <<objects, chunks, vectors, upload, touched>>
          /\ \A q \in Requests : req'[q].at = "start"
          /\ \A x \in Sources : \/ status'[x] = status[x]
                                \/ status[x] = "indexing" /\ status'[x] = "error"
      BY <2>4, IdleMeans DEF Restart
    <3> QED
      BY <1>1, <3>1, <3>2, QuietSearched
  <2> QED
    BY <1>1, <2>1, <2>2, <2>3, <2>4 DEF Next
<1> QED
  BY <1>1, InitSearched, ShapeInvariant, HeldInvariant, IndexedInvariant, PTL DEF Spec

\* A source that reads indexed is searchable in full, in the collection of the
\* model its rows name, through every re-index, settings change, fault and
\* restart; only a Delete that began and did not finish takes content away.
THEOREM IndexedMeansSearchable == Spec => []IndexedIsSearchable
<1>1. Searched => IndexedIsSearchable
  BY DEF Searched, Searchable, Rows, IndexedIsSearchable
<1> QED
  BY <1>1, SearchedInvariant, PTL

============================================================================
