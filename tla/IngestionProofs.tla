-------------------------- MODULE IngestionProofs --------------------------
(***************************************************************************)
(* What is proved of Ingestion for every number of sources, files, runs    *)
(* and requests, every fault and every size of the semaphore: its types,   *)
(* the semaphore's count, that no source ever has two holders, that the    *)
(* pipeline implements SourceLifecycle, and who owns a source in indexing. *)
(***************************************************************************)
EXTENDS Ingestion, FiniteSetTheorems, TLAPS

USE DEF RowStatus, Status, PipelineSteps, Settling, HoldingSlot, Live, At, Applied

-----------------------------------------------------------------------------
(* Type correctness.  It needs to know which fields of a run and of a       *)
(* request are filled at which step, and that the semaphore counts its      *)
(* holders: a release must not take it below zero.                          *)

StoresOK ==
  /\ status \in [Sources -> Status]
  /\ upload \in [Sources -> SUBSET Parts]
  /\ fileRows \in [Sources -> SUBSET Names]
  /\ objects \in [Sources -> SUBSET Names]
  /\ chunks \subseteq Chunk
  /\ vectors \subseteq Vector
  /\ settings \in Targets
  /\ touched \subseteq Sources

RunShape ==
  \A r \in Runs :
    /\ run[r].pc \in {"queued"} \cup HoldingSlot => run[r].source \in Sources
    /\ run[r].pc \in (PipelineSteps \ {"resolve"}) \cup {"succeed"}
         => run[r].target \in Targets
    /\ run[r].pc \in {"upsert", "tag"} => run[r].file \in Names
RunOK == run \in [Runs -> RunState] /\ RunShape

ReqShape ==
  \A q \in Requests :
    /\ req[q].op = "create" <=> req[q].at \in {"store", "insert", "fileRows"}
    /\ req[q].op = "idle" <=> req[q].at = "start"
    /\ req[q].at \notin {"start", "load"} => req[q].source \in Sources
ReqOK == req \in [Requests -> ReqState] /\ ReqShape

SemOK == indexSem \in 0..MaxConcurrent /\ SlotsAreHeld

Shape == StoresOK /\ RunOK /\ ReqOK /\ SemOK

Holders == {r \in Runs : run[r].pc \in HoldingSlot}

LEMMA InitShape == Init => Shape
<1> SUFFICES ASSUME Init PROVE Shape
  OBVIOUS
<1>1. StoresOK
  BY DEF Init, StoresOK
<1>2. RunOK
  BY DEF Init, RunOK, RunShape, RunState, IdleRun
<1>3. ReqOK
  BY DEF Init, ReqOK, ReqShape, ReqState, IdleReq
<1>4. indexSem = 0 /\ {r \in Runs : run[r].pc \in HoldingSlot} = {}
  BY DEF Init, IdleRun
<1>5. SlotsAreHeld
  BY <1>4, FS_EmptySet DEF SlotsAreHeld
<1>6. indexSem \in 0..MaxConcurrent
  BY <1>4, IngestionAssumption DEF IngestionAssumption
<1> QED
  BY <1>1, <1>2, <1>3, <1>5, <1>6 DEF Shape, SemOK

\* A handler's reply leaves the requests well formed if its next state is.
LEMMA ReplyShape ==
  ASSUME ReqOK, NEW q \in Requests, NEW out, NEW next \in ReqState,
         next.op = "create" <=> next.at \in {"store", "insert", "fileRows"},
         next.op = "idle" <=> next.at = "start",
         next.at \notin {"start", "load"} => next.source \in Sources,
         Reply(q, out, next)
  PROVE  ReqOK'
<1>1. IdleReq \in ReqState /\ IdleReq.op = "idle" /\ IdleReq.at = "start"
  BY DEF IdleReq, ReqState
<1> QED
  BY <1>1 DEF ReqOK, ReqShape, Reply

\* A launch leaves the runs well formed and takes no slot.
LEMMA LaunchShape ==
  ASSUME RunOK, StoresOK, NEW s \in Sources, NEW fresh \in BOOLEAN,
         Launch(s, fresh)
  PROVE  RunOK' /\ Holders' = Holders
<1>1. NamesOf(upload[s]) \subseteq Names
  BY IngestionAssumption DEF IngestionAssumption, StoresOK, NamesOf
<1>2. PICK r \in Runs : Launch(s, fresh)!(r)
  BY DEF Launch
<1> DEFINE new == [IdleRun EXCEPT !.pc = "queued", !.source = s, !.fresh = fresh,
                         !.todo = IF fresh THEN NamesOf(upload[s]) ELSE {}]
<1>3. new \in RunState /\ new.pc = "queued" /\ new.source = s
  BY <1>1 DEF IdleRun, RunState
<1> QED
  BY <1>2, <1>3 DEF RunOK, RunShape, Holders

\* A run's call leaves the runs well formed, whichever way it comes out.
LEMMA ProceedShape ==
  ASSUME RunOK, NEW r \in Runs, run[r].pc \in HoldingSlot,
         NEW out, NEW next \in RunState,
         next.source = run[r].source, next.pc \in HoldingSlot,
         next.pc \in (PipelineSteps \ {"resolve"}) \cup {"succeed"}
           => next.target \in Targets,
         next.pc \in {"upsert", "tag"} => next.file \in Names,
         Proceed(r, out, next)
  PROVE  RunOK' /\ Holders' = Holders
<1>1. [run[r] EXCEPT !.pc = "fail"] \in RunState
  BY DEF RunOK, RunState
<1> QED
  BY <1>1 DEF RunOK, RunShape, Proceed, Holders

LEMMA SameHolders ==
  ASSUME SemOK, Holders' = Holders, UNCHANGED indexSem
  PROVE  SemOK'
  BY DEF SemOK, SlotsAreHeld, Holders

\* The chunks a run makes of a file in its hands are well typed.
LEMMA FileChunksType ==
  ASSUME RunOK, NEW r \in Runs, run[r].pc \in HoldingSlot, NEW n \in Names
  PROVE  FileChunks(r, n) \subseteq Chunk
  BY IngestionAssumption DEF IngestionAssumption, RunOK, RunShape, RunState, FileChunks, Chunk

\* A handler's step: one store changes at most, and a run may be launched.
LEMMA HandlerShape ==
  ASSUME Shape, NEW q \in Requests, Handler(q)
  PROVE  Shape'
<1> USE DEF Shape
<1>q. req[q] \in ReqState
  BY DEF ReqOK
<1>1. CASE BeginCreate(q)
  <2>1. PICK s \in Sources, P \in (SUBSET Parts) \ {{}} :
           /\ upload' = [upload EXCEPT ![s] = P]
           /\ req' = [req EXCEPT ![q] = [IdleReq EXCEPT !.op = "create",
                        !.at = "store", !.source = s, !.parts = P]]
    BY <1>1 DEF BeginCreate
  <2>2. ReqOK'
    BY <2>1 DEF ReqOK, ReqShape, ReqState, IdleReq
  <2>3. StoresOK' /\ RunOK' /\ SemOK'
    BY <1>1, <2>1, SameHolders DEF BeginCreate, StoresOK, stores, RunOK, RunShape, Holders
  <2> QED
    BY <2>2, <2>3
<1>2. CASE StoreFile(q)
  <2>s. req[q].source \in Sources
    BY <1>2 DEF StoreFile, ReqOK, ReqShape
  <2>1. PICK p \in req[q].parts, out \in Outcomes("store") :
          LET left == req[q].parts \ {p} IN
          /\ objects' = IF Applied(out)
                 THEN [objects EXCEPT ![req[q].source] = @ \cup {NameOf[p]}] ELSE objects
          /\ Reply(q, out, [req[q] EXCEPT !.parts = left,
                           !.at = IF left = {} THEN "insert" ELSE "store"])
    BY <1>2 DEF StoreFile
  <2> DEFINE next == [req[q] EXCEPT !.parts = req[q].parts \ {p},
                  !.at = IF req[q].parts \ {p} = {} THEN "insert" ELSE "store"]
  <2>2. /\ next \in ReqState /\ next.at \in {"insert", "store"}
        /\ next.op = "create" /\ next.source = req[q].source
    BY <1>q, <1>2 DEF ReqState, StoreFile, ReqOK, ReqShape
  <2>3. ReqOK'
    BY <2>s, <2>1, <2>2, ReplyShape
  <2>4. NameOf[p] \in Names
    BY <1>q, IngestionAssumption DEF IngestionAssumption, ReqState
  <2>5. objects' \in [Sources -> SUBSET Names]
    BY <2>1, <2>4, <2>s DEF StoresOK
  <2>6. StoresOK'
    BY <1>2, <2>5 DEF StoreFile, StoresOK
  <2> QED
    BY <1>2, <2>3, <2>6, SameHolders DEF StoreFile, RunOK, RunShape, Holders
<1>3. CASE InsertSource(q)
  <2>s. req[q].source \in Sources
    BY <1>3 DEF InsertSource, ReqOK, ReqShape
  <2>1. PICK out \in Outcomes("insert") :
          /\ status' = IF Applied(out)
                 THEN [status EXCEPT ![req[q].source] = "indexing"] ELSE status
          /\ Reply(q, out, [req[q] EXCEPT !.at = "fileRows", !.parts = upload[req[q].source]])
    BY <1>3 DEF InsertSource
  <2> DEFINE next == [req[q] EXCEPT !.at = "fileRows", !.parts = upload[req[q].source]]
  <2>2. /\ next \in ReqState /\ next.at = "fileRows"
        /\ next.op = "create" /\ next.source = req[q].source
    BY <1>q, <1>3, <2>s DEF ReqState, InsertSource, ReqOK, ReqShape, StoresOK
  <2>3. ReqOK'
    BY <2>s, <2>1, <2>2, ReplyShape
  <2>5. StoresOK'
    BY <1>3, <2>1 DEF InsertSource, StoresOK
  <2> QED
    BY <1>3, <2>3, <2>5, SameHolders DEF InsertSource, RunOK, RunShape, Holders
<1>4. CASE InsertSourceFile(q)
  <2>s. req[q].source \in Sources
    BY <1>4 DEF InsertSourceFile, ReqOK, ReqShape
  <2>1. PICK p \in req[q].parts, out \in {"ok", "failed", "lost"} :
          LET left == req[q].parts \ {p} IN
          /\ fileRows' = IF Applied(out)
               THEN [fileRows EXCEPT ![req[q].source] = @ \cup {NameOf[p]}] ELSE fileRows
          /\ Reply(q, out, IF left = {} THEN IdleReq
                           ELSE [req[q] EXCEPT !.parts = left])
          /\ IF out = "ok" /\ left = {} THEN Launch(req[q].source, TRUE)
             ELSE UNCHANGED run
    BY <1>4 DEF InsertSourceFile, Outcomes
  <2> DEFINE next == IF req[q].parts \ {p} = {} THEN IdleReq
                     ELSE [req[q] EXCEPT !.parts = req[q].parts \ {p}]
  <2>2. /\ next \in ReqState
        /\ next.op = "create" <=> next.at \in {"store", "insert", "fileRows"}
        /\ next.op = "idle" <=> next.at = "start"
        /\ next.at \notin {"start", "load"} => next.source = req[q].source
    BY <1>q, <1>4 DEF ReqState, IdleReq, InsertSourceFile, ReqOK, ReqShape
  <2>3. ReqOK'
    BY <2>s, <2>1, <2>2, ReplyShape
  <2>4. NameOf[p] \in Names
    BY <1>q, IngestionAssumption DEF IngestionAssumption, ReqState
  <2>5. fileRows' \in [Sources -> SUBSET Names]
    BY <2>1, <2>4, <2>s DEF StoresOK
  <2>6. StoresOK'
    BY <1>4, <2>5 DEF InsertSourceFile, StoresOK
  <2>7. RunOK' /\ Holders' = Holders
    BY <2>s, <2>1, LaunchShape DEF RunOK, RunShape, Holders
  <2> QED
    BY <1>4, <2>3, <2>6, <2>7, SameHolders DEF InsertSourceFile
<1>5. ASSUME NEW S \in SUBSET Sources, BeginIngest(q, S)
      PROVE  Shape'
  <2>2. ReqOK'
    BY <1>5 DEF BeginIngest, ReqOK, ReqShape, ReqState, IdleReq, StoresOK
  <2> QED
    BY <1>5, <2>2, SameHolders DEF BeginIngest, StoresOK, stores, RunOK, RunShape, Holders
<1>6. CASE Ingest(q) \/ ReindexWorkspace(q)
  BY <1>5, <1>6 DEF Ingest, ReindexWorkspace
<1>7. CASE LoadSource(q)
  <2>1. PICK s \in req[q].todo, out \in {"ok", "failed"} :
          Reply(q, out, [req[q] EXCEPT !.at = "claim", !.source = s, !.todo = @ \ {s}])
    BY <1>7 DEF LoadSource
  <2> DEFINE next == [req[q] EXCEPT !.at = "claim", !.source = s, !.todo = req[q].todo \ {s}]
  <2>2. /\ next \in ReqState /\ next.at = "claim" /\ next.source \in Sources
        /\ next.op \notin {"create", "idle"}
    BY <1>q, <1>7 DEF ReqState, LoadSource, ReqOK, ReqShape
  <2>3. ReqOK'
    BY <2>1, <2>2, ReplyShape
  <2> QED
    BY <1>7, <2>3, SameHolders DEF LoadSource, StoresOK, stores, RunOK, RunShape, Holders
<1>n. req[q].at = "claim" =>
        /\ NextSource(q) \in ReqState /\ NextSource(q).at \in {"start", "load"}
        /\ NextSource(q).op # "create"
        /\ NextSource(q).op = "idle" <=> NextSource(q).at = "start"
  BY <1>q DEF NextSource, ReqState, IdleReq, ReqOK, ReqShape
<1>8. CASE ClaimAndLaunch(q)
  <2>s. req[q].source \in Sources
    BY <1>8 DEF ClaimAndLaunch, ReqOK, ReqShape
  <2>1. PICK out \in Outcomes("claim") :
       /\ status' = IF Applied(out)
                    THEN [status EXCEPT ![req[q].source] = "indexing"] ELSE status
       /\ Reply(q, out, NextSource(q))
       /\ IF out = "ok" THEN Launch(req[q].source, FALSE) ELSE UNCHANGED run
    BY <1>8 DEF ClaimAndLaunch
  <2>3. ReqOK'
    BY <1>8, <1>n, <2>1, ReplyShape DEF ClaimAndLaunch
  <2>5. StoresOK'
    BY <1>8, <2>1 DEF ClaimAndLaunch, StoresOK
  <2>6. RunOK' /\ Holders' = Holders
    BY <2>s, <2>1, LaunchShape DEF RunOK, RunShape, Holders
  <2> QED
    BY <1>8, <2>3, <2>5, <2>6, SameHolders DEF ClaimAndLaunch
<1>9. CASE RefuseClaim(q)
  <2>1. ReqOK'
    BY <1>9, <1>n DEF RefuseClaim, ReqOK, ReqShape
  <2> QED
    BY <1>9, <2>1, SameHolders DEF RefuseClaim, StoresOK, stores, RunOK, RunShape, Holders
<1>10. CASE BeginDelete(q)
  <2>1. PICK s \in Sources :
          req' = [req EXCEPT ![q] = [IdleReq EXCEPT !.op = "delete",
                    !.at = "vectors", !.source = s, !.target = settings]]
    BY <1>10 DEF BeginDelete
  <2>2. ReqOK'
    BY <2>1 DEF ReqOK, ReqShape, ReqState, IdleReq, StoresOK
  <2> QED
    BY <1>10, <2>2, SameHolders DEF BeginDelete, StoresOK, stores, RunOK, RunShape, Holders
<1>11. CASE DeleteSourceVectors(q)
  <2>s. req[q].source \in Sources
    BY <1>11 DEF DeleteSourceVectors, ReqOK, ReqShape
  <2>1. PICK out \in Outcomes("delete") :
       /\ vectors' = IF Applied(out) THEN vectors \ VectorsIn(req[q].source, req[q].target)
                     ELSE vectors
       /\ touched' = IF Applied(out) THEN touched \cup {req[q].source} ELSE touched
       /\ Reply(q, out, [req[q] EXCEPT !.keys = objects[req[q].source],
                           !.at = AfterVectors(req[q].source)])
    BY <1>11 DEF DeleteSourceVectors
  <2> DEFINE next == [req[q] EXCEPT !.keys = objects[req[q].source],
                           !.at = AfterVectors(req[q].source)]
  <2>2. /\ next \in ReqState /\ next.at \in {"row", "objects"}
        /\ next.source = req[q].source /\ next.op \notin {"create", "idle"}
    BY <1>q, <1>11, <2>s DEF ReqState, AfterVectors, DeleteSourceVectors, ReqOK, ReqShape, StoresOK
  <2>3. ReqOK'
    BY <2>s, <2>1, <2>2, ReplyShape
  <2>5. StoresOK'
    BY <1>11, <2>1, <2>s DEF DeleteSourceVectors, StoresOK
  <2> QED
    BY <1>11, <2>3, <2>5, SameHolders DEF DeleteSourceVectors, RunOK, RunShape, Holders
<1>12. CASE DeleteObject(q)
  <2>s. req[q].source \in Sources
    BY <1>12 DEF DeleteObject, ReqOK, ReqShape
  <2>1. PICK k \in req[q].keys, out \in Outcomes("delete") :
       LET left == req[q].keys \ {k} IN
       /\ objects' = IF Applied(out) THEN [objects EXCEPT ![req[q].source] = @ \ {k}]
                     ELSE objects
       /\ Reply(q, out, [req[q] EXCEPT !.keys = left,
                           !.at = IF left = {} THEN "row" ELSE "objects"])
    BY <1>12 DEF DeleteObject
  <2> DEFINE next == [req[q] EXCEPT !.keys = req[q].keys \ {k},
                  !.at = IF req[q].keys \ {k} = {} THEN "row" ELSE "objects"]
  <2>2. /\ next \in ReqState /\ next.at \in {"row", "objects"}
        /\ next.source = req[q].source /\ next.op \notin {"create", "idle"}
    BY <1>q, <1>12 DEF ReqState, DeleteObject, ReqOK, ReqShape
  <2>3. ReqOK'
    BY <2>s, <2>1, <2>2, ReplyShape
  <2>5. StoresOK'
    BY <1>12, <2>1 DEF DeleteObject, StoresOK
  <2> QED
    BY <1>12, <2>3, <2>5, SameHolders DEF DeleteObject, RunOK, RunShape, Holders
<1>13. CASE DeleteRow(q)
  <2>1. StoresOK'
    BY <1>13 DEF DeleteRow, StoresOK
  <2>2. ReqOK'
    BY <1>13 DEF DeleteRow, ReqOK, ReqShape, ReqState, IdleReq
  <2> QED
    BY <1>13, <2>1, <2>2, SameHolders DEF DeleteRow, RunOK, RunShape, Holders
<1> QED
  BY <1>1, <1>2, <1>3, <1>4, <1>6, <1>7, <1>8, <1>9, <1>10, <1>11, <1>12, <1>13
     DEF Handler

\* A step of a run that holds a slot and goes on holding it.
LEMMA PipelineShape ==
  ASSUME Shape, NEW r \in Runs, RunStep(r), ~ Announce(r)
  PROVE  Shape'
<1> USE DEF Shape
<1>h. run[r].pc \in HoldingSlot
  BY DEF RunStep, ResolveModels, DeleteChunks, ClearVectors, ListObjects, DownloadToTemp,
     ChunkFile, UpsertChunkVectors, UpdateEmbeddingModel, SettleStatus, Announce
<1>r. /\ run[r] \in RunState /\ run[r].source \in Sources
      /\ run[r].pc \in (PipelineSteps \ {"resolve"}) \cup {"succeed"}
           => run[r].target \in Targets
  BY <1>h DEF RunOK, RunShape
<1>1. CASE ResolveModels(r)
  <2> DEFINE next == [run[r] EXCEPT !.target = settings,
                          !.pc = IF run[r].fresh THEN "chunk" ELSE "clearChunks"]
  <2>1. PICK out : Proceed(r, out, next)
    BY <1>1 DEF ResolveModels
  <2>2. /\ next \in RunState /\ next.pc \in {"chunk", "clearChunks"}
        /\ next.source = run[r].source /\ next.target \in Targets
    BY <1>r DEF RunState, StoresOK
  <2> QED
    BY <1>1, <1>h, <1>r, <2>1, <2>2, ProceedShape, SameHolders
       DEF ResolveModels, runOnly, stores, StoresOK, ReqOK, ReqShape
<1>2. CASE DeleteChunks(r)
  <2> DEFINE next == [run[r] EXCEPT !.pc = "clearVectors"]
  <2>1. PICK out : Proceed(r, out, next)
    BY <1>2 DEF DeleteChunks
  <2>2. /\ next \in RunState /\ next.pc = "clearVectors"
        /\ next.source = run[r].source /\ next.target = run[r].target
    BY <1>r DEF RunState
  <2>3. RunOK' /\ Holders' = Holders
    BY <1>2, <1>h, <1>r, <2>1, <2>2, ProceedShape DEF DeleteChunks
  <2> QED
    BY <1>2, <2>3, SameHolders DEF DeleteChunks, StoresOK, ReqOK, ReqShape
<1>3. CASE ClearVectors(r)
  <2> DEFINE next == [run[r] EXCEPT !.pc = "list"]
  <2>1. PICK out : Proceed(r, out, next)
    BY <1>3 DEF ClearVectors
  <2>2. /\ next \in RunState /\ next.pc = "list"
        /\ next.source = run[r].source /\ next.target = run[r].target
    BY <1>r DEF RunState
  <2>3. RunOK' /\ Holders' = Holders
    BY <1>3, <1>h, <1>r, <2>1, <2>2, ProceedShape DEF ClearVectors
  <2> QED
    BY <1>3, <2>3, SameHolders DEF ClearVectors, VectorsCleared, StoresOK, ReqOK, ReqShape
<1>4. CASE ListObjects(r)
  <2> DEFINE next == [run[r] EXCEPT !.pc = "download", !.todo = objects[run[r].source]]
  <2>1. PICK out : Proceed(r, out, next)
    BY <1>4 DEF ListObjects
  <2>2. /\ next \in RunState /\ next.pc = "download"
        /\ next.source = run[r].source /\ next.target = run[r].target
    BY <1>r DEF RunState, StoresOK
  <2>3. RunOK' /\ Holders' = Holders
    BY <1>4, <1>h, <1>r, <2>1, <2>2, ProceedShape DEF ListObjects
  <2> QED
    BY <1>4, <2>3, SameHolders DEF ListObjects, runOnly, stores, StoresOK, ReqOK, ReqShape
<1>n. ASSUME NEW todo \in SUBSET Names
      PROVE  NextFile(todo) \in {"succeed", "chunk"}
  BY DEF NextFile
<1>5. CASE DownloadToTemp(r)
  <2> DEFINE next == [run[r] EXCEPT !.pc = NextFile(run[r].todo)]
  <2>1. PICK out : Proceed(r, out, next)
    BY <1>5 DEF DownloadToTemp
  <2>2. /\ next \in RunState /\ next.pc \in {"succeed", "chunk"}
        /\ next.source = run[r].source /\ next.target = run[r].target
    BY <1>r DEF RunState, NextFile
  <2>3. RunOK' /\ Holders' = Holders
    BY <1>5, <1>h, <1>r, <2>1, <2>2, ProceedShape DEF DownloadToTemp
  <2> QED
    BY <1>5, <2>3, SameHolders DEF DownloadToTemp, runOnly, stores, StoresOK, ReqOK, ReqShape
<1>6. CASE ChunkFile(r)
  <2>1. PICK n, out :
          /\ n \in run[r].todo
          /\ chunks' = IF Applied(out) THEN chunks \cup FileChunks(r, n) ELSE chunks
          /\ Proceed(r, out,
              IF FileChunks(r, n) = {}
              THEN [run[r] EXCEPT !.todo = run[r].todo \ {n},
                                  !.pc = NextFile(run[r].todo \ {n})]
              ELSE [run[r] EXCEPT !.todo = run[r].todo \ {n}, !.file = n, !.pc = "upsert"])
    BY <1>6 DEF ChunkFile
  <2> DEFINE next == IF FileChunks(r, n) = {}
              THEN [run[r] EXCEPT !.todo = run[r].todo \ {n},
                                  !.pc = NextFile(run[r].todo \ {n})]
              ELSE [run[r] EXCEPT !.todo = run[r].todo \ {n}, !.file = n, !.pc = "upsert"]
  <2>n. n \in Names
    BY <1>r, <2>1 DEF RunState
  <2>2. /\ next \in RunState /\ next.pc \in {"succeed", "chunk", "upsert"}
        /\ next.source = run[r].source /\ next.target = run[r].target
        /\ next.pc = "upsert" => next.file \in Names
    BY <1>r, <2>n DEF RunState, NextFile
  <2>3. RunOK' /\ Holders' = Holders
    BY <1>6, <1>h, <1>r, <2>1, <2>2, ProceedShape DEF ChunkFile
  <2>4. StoresOK'
    BY <1>6, <1>h, <2>1, <2>n, FileChunksType DEF ChunkFile, StoresOK
  <2> QED
    BY <1>6, <2>3, <2>4, SameHolders DEF ChunkFile, ReqOK, ReqShape
<1>7. CASE UpsertChunkVectors(r)
  <2> DEFINE next == [run[r] EXCEPT !.pc = "tag"]
             points == {[source |-> c.source, run |-> r, index |-> c.index,
                         collection |-> run[r].target] : c \in FileChunks(r, run[r].file)}
  <2>f. run[r].file \in Names
    BY <1>7 DEF UpsertChunkVectors, RunOK, RunShape
  <2>1. PICK out : /\ vectors' = IF Applied(out) THEN vectors \cup points ELSE vectors
                   /\ Proceed(r, out, next)
    BY <1>7 DEF UpsertChunkVectors
  <2>2. /\ next \in RunState /\ next.pc = "tag" /\ next.file = run[r].file
        /\ next.source = run[r].source /\ next.target = run[r].target
    BY <1>r DEF RunState
  <2>3. RunOK' /\ Holders' = Holders
    BY <1>7, <1>h, <1>r, <2>f, <2>1, <2>2, ProceedShape DEF UpsertChunkVectors
  <2>4. points \subseteq Vector
    BY <1>7, <1>h, <1>r, <2>f, FileChunksType DEF UpsertChunkVectors, Chunk, Vector
  <2> QED
    BY <1>7, <2>1, <2>3, <2>4, SameHolders DEF UpsertChunkVectors, StoresOK, ReqOK, ReqShape
<1>8. CASE UpdateEmbeddingModel(r)
  <2> DEFINE next == [run[r] EXCEPT !.base = TotalAfter(r), !.file = None,
                                    !.pc = NextFile(run[r].todo)]
             batch == {c \in chunks : c.run = r /\ c.index >= run[r].base}
  <2>f. run[r].file \in Names
    BY <1>8 DEF UpdateEmbeddingModel, RunOK, RunShape
  <2>1. PICK out : /\ chunks' = IF Applied(out)
                        THEN (chunks \ batch) \cup {[c EXCEPT !.model = ModelOf(r)] : c \in batch}
                        ELSE chunks
                   /\ Proceed(r, out, next)
    BY <1>8 DEF UpdateEmbeddingModel
  <2>t. TotalAfter(r) \in Nat
    BY <1>r, <2>f, IngestionAssumption DEF IngestionAssumption, TotalAfter, RunState
  <2>2. /\ next \in RunState /\ next.pc \in {"succeed", "chunk"}
        /\ next.source = run[r].source /\ next.target = run[r].target
    BY <1>r, <2>t DEF RunState, NextFile
  <2>3. RunOK' /\ Holders' = Holders
    BY <1>8, <1>h, <1>r, <2>1, <2>2, ProceedShape DEF UpdateEmbeddingModel
  <2>4. chunks' \subseteq Chunk
    <3>1. \A c \in chunks : [c EXCEPT !.model = ModelOf(r)] \in Chunk
      BY <1>r DEF StoresOK, Chunk, ModelOf, RunState
    <3> QED
      BY <2>1, <3>1 DEF StoresOK
  <2> QED
    BY <1>8, <2>3, <2>4, SameHolders DEF UpdateEmbeddingModel, StoresOK, ReqOK, ReqShape
<1>9. CASE SettleStatus(r)
  <2>1. status' \in [Sources -> Status]
    BY <1>9 DEF SettleStatus, StatusWritten, StoresOK
  <2>2. RunOK' /\ Holders' = Holders
    BY <1>9, <1>h, <1>r DEF SettleStatus, RunOK, RunShape, RunState, Holders
  <2> QED
    BY <1>9, <2>1, <2>2, SameHolders DEF SettleStatus, StoresOK, ReqOK, ReqShape
<1> QED
  BY <1>1, <1>2, <1>3, <1>4, <1>5, <1>6, <1>7, <1>8, <1>9 DEF RunStep

\* The holders are finitely many, so their number moves by one with a slot.
LEMMA HoldersFinite == IsFiniteSet(Holders)
<1>1. Holders \in SUBSET Runs
  BY DEF Holders
<1> QED
  BY <1>1, FS_Subset, IngestionAssumption DEF IngestionAssumption

LEMMA AcquireShape ==
  ASSUME Shape, NEW r \in Runs, Acquire(r)
  PROVE  Shape'
<1> USE DEF Shape
<1>1. run[r].pc = "queued" /\ run[r] \in RunState /\ run[r].source \in Sources
  BY DEF Acquire, RunOK, RunShape
<1>2. run' = [run EXCEPT ![r].pc = "resolve"]
  BY DEF Acquire, FirstStep
<1>3. RunOK'
  BY <1>1, <1>2 DEF RunOK, RunShape, RunState
<1>4. Holders' = Holders \cup {r} /\ r \notin Holders
  BY <1>1, <1>2 DEF Holders, RunOK
<1>5. Cardinality(Holders') = Cardinality(Holders) + 1
  BY <1>4, HoldersFinite, FS_AddElement
<1>6. SemOK'
  BY <1>5, IngestionAssumption
     DEF SemOK, SlotsAreHeld, Holders, Acquire, SlotFree, IngestionAssumption
<1> QED
  BY <1>3, <1>6 DEF Acquire, stores, StoresOK, ReqOK, ReqShape

\* The run that frees a slot held one, so the count was not zero.
LEMMA AnnounceShape ==
  ASSUME Shape, NEW r \in Runs, Announce(r)
  PROVE  Shape'
<1> USE DEF Shape
<1>1. run[r].pc = "announce" /\ run' = [run EXCEPT ![r] = EndedRun]
  BY DEF Announce
<1>2. EndedRun \in RunState /\ EndedRun.pc = "ended"
  BY DEF EndedRun, IdleRun, RunState
<1>3. RunOK'
  BY <1>1, <1>2 DEF RunOK, RunShape
<1>4. Holders' = Holders \ {r} /\ r \in Holders
  BY <1>1, <1>2 DEF Holders, RunOK
<1>5. /\ Cardinality(Holders') = Cardinality(Holders) - 1
      /\ Cardinality(Holders') \in Nat
  BY <1>4, HoldersFinite, FS_RemoveElement, FS_CardinalityType
<1>6. SemOK'
  BY <1>5, IngestionAssumption
     DEF SemOK, SlotsAreHeld, Holders, Announce, SlotsAfter, IngestionAssumption
<1> QED
  BY <1>3, <1>6 DEF Announce, stores, StoresOK, ReqOK, ReqShape

LEMMA OtherShape ==
  ASSUME Shape, SetEmbedding \/ Restart \/ \E r \in Runs : Expire(r)
  PROVE  Shape'
<1> USE DEF Shape
<1>1. CASE SetEmbedding
  BY <1>1, SameHolders
     DEF SetEmbedding, stores, StoresOK, RunOK, RunShape, ReqOK, ReqShape, Holders
<1>2. ASSUME NEW r \in Runs, Expire(r)
      PROVE  Shape'
  <2> DEFINE late == [run[r] EXCEPT !.late = TRUE]
  <2>1. /\ late \in RunState /\ late.pc = run[r].pc /\ late.source = run[r].source
        /\ late.target = run[r].target /\ late.file = run[r].file
    BY DEF RunOK, RunState
  <2>2. run' = [run EXCEPT ![r] = late]
    BY <1>2 DEF Expire, RunOK
  <2>3. RunOK' /\ Holders' = Holders
    BY <2>1, <2>2 DEF RunOK, RunShape, Holders
  <2> QED
    BY <1>2, <2>3, SameHolders DEF Expire, runOnly, stores, StoresOK, ReqOK, ReqShape
<1>3. CASE Restart
  <2>1. status' \in [Sources -> Status]
    BY <1>3 DEF Restart, StoresOK
  <2>2. ReqOK'
    BY <1>3 DEF Restart, ReqOK, ReqShape, ReqState, IdleReq
  <2>3. /\ IdleRun \in RunState /\ IdleRun.pc = "idle"
        /\ EndedRun \in RunState /\ EndedRun.pc = "ended"
    BY DEF EndedRun, IdleRun, RunState
  <2>4. RunOK' /\ Holders' = {}
    BY <1>3, <2>3 DEF Restart, RunOK, RunShape, Holders
  <2>5. SlotsAreHeld'
    BY <1>3, <2>4, FS_EmptySet DEF Restart, SlotsAreHeld, Holders
  <2>6. SemOK'
    BY <1>3, <2>5, IngestionAssumption DEF Restart, SemOK, IngestionAssumption
  <2> QED
    BY <1>3, <2>1, <2>2, <2>4, <2>6 DEF Restart, StoresOK
<1> QED
  BY <1>1, <1>2, <1>3

LEMMA ShapeInvariant == Spec => []Shape
<1>1. ASSUME Shape, [Next]_vars
      PROVE  Shape'
  <2>1. CASE UNCHANGED vars
    BY <1>1, <2>1, SameHolders
       DEF vars, Shape, StoresOK, RunOK, RunShape, ReqOK, ReqShape, Holders
  <2> QED
    BY <1>1, <2>1, HandlerShape, PipelineShape, AcquireShape, AnnounceShape, OtherShape
       DEF Next
<1> QED
  BY <1>1, InitShape, PTL DEF Spec

-----------------------------------------------------------------------------
\* Every variable keeps its type, for any number of sources, files, runs and
\* requests; the slot count stays within the semaphore.
THEOREM TypeCorrect == Spec => []TypeOK
<1>1. Shape => TypeOK
  BY DEF Shape, StoresOK, RunOK, ReqOK, SemOK, TypeOK
<1> QED
  BY <1>1, ShapeInvariant, PTL

\* The semaphore counts the runs in the pipeline, whatever fails and whenever
\* the process restarts (runIndexJob's acquire and deferred release).
THEOREM SlotAccounting == Spec => []SlotsAreHeld
<1>1. Shape => SlotsAreHeld
  BY DEF Shape, SemOK
<1> QED
  BY <1>1, ShapeInvariant, PTL

-----------------------------------------------------------------------------
(* The inductive invariant.  The status of a source tells who may hold it:  *)
(* nobody has a row to claim before its Create inserted it, the row reads   *)
(* indexing while the Create or a run holds it, and a claim finds it        *)
(* settled.  An id is drawn by one Create only.                             *)

Makes(q, s) == req[q].op = "create" /\ req[q].source = s

OneMaker ==
  \A s \in Sources, q1, q2 \in Requests : Makes(q1, s) /\ Makes(q2, s) => q1 = q2
MakerSeesRow ==
  \A s \in Sources, q \in Requests : Makes(q, s) =>
    /\ upload[s] # {}
    /\ req[q].at # "fileRows" => status[s] = "unborn"
    /\ req[q].at = "fileRows" => status[s] \in {"indexing", "deleted"}
DrawnBeforeBorn == \A s \in Sources : upload[s] = {} => status[s] = "unborn"
WorkedIsIndexing ==
  \A s \in Sources, r \in Runs : Works(r, s) => status[s] \in {"indexing", "deleted"}
OneWorker ==
  \A s \in Sources, r1, r2 \in Runs : Works(r1, s) /\ Works(r2, s) => r1 = r2
MakerXorWorker ==
  \A s \in Sources, q \in Requests, r \in Runs : ~ (Makes(q, s) /\ Works(r, s))
DeletedWasBorn ==
  \A q \in Requests :
    req[q].at \in {"vectors", "objects", "row"} => status[req[q].source] # "unborn"

Held == /\ OneMaker /\ MakerSeesRow /\ DrawnBeforeBorn
        /\ WorkedIsIndexing /\ OneWorker /\ MakerXorWorker /\ DeletedWasBorn

LEMMA InitHeld == Init => Held
<1> SUFFICES ASSUME Init PROVE Held
  OBVIOUS
<1>1. \A q \in Requests, s \in Sources : ~ Makes(q, s)
  BY DEF Init, IdleReq, Makes
<1>2. \A r \in Runs, s \in Sources : ~ Works(r, s)
  BY DEF Init, IdleRun, Works
<1>3. DrawnBeforeBorn /\ DeletedWasBorn
  BY DEF Init, IdleReq, DrawnBeforeBorn, DeletedWasBorn
<1> QED
  BY <1>1, <1>2, <1>3
     DEF Held, OneMaker, MakerSeesRow, WorkedIsIndexing, OneWorker, MakerXorWorker

-----------------------------------------------------------------------------
(* How a step changes the holder of a source, as the lifecycle sees it.     *)

Busy(s) == (\E r \in Runs : Works(r, s)) \/ (\E q \in Requests : Creates(q, s))

Step == Held' /\ [Lifecycle!Next]_(Lifecycle!vars)
Stutters == Held' /\ UNCHANGED <<status, worker>>
StepOf(s) ==
  /\ Held'
  /\ \/ UNCHANGED <<status, worker>>
     \/ Lifecycle!Insert(s) \/ Lifecycle!Claim(s) \/ Lifecycle!Settle(s)

\* The holders of a source read off the invariant.
LEMMA BusyMeans ==
  ASSUME Held, ReqOK, NEW s \in Sources, Busy(s)
  PROVE  status[s] \in {"indexing", "deleted"}
  BY DEF Held, ReqOK, ReqShape, Busy, MakerSeesRow, WorkedIsIndexing, Creates, Makes

LEMMA WorkerStays ==
  ASSUME \A s \in Sources : Busy(s)' <=> Busy(s)
  PROVE  UNCHANGED worker
  BY DEF worker, Busy

\* Only the source of the step may change its holder.
LEMMA WorkerChanges ==
  ASSUME NEW s \in Sources,
         \A x \in Sources \ {s} : Busy(x)' <=> Busy(x)
  PROVE  worker' = [worker EXCEPT ![s] = IF Busy(s)' THEN "busy" ELSE "free"]
  BY DEF worker, Busy

\* A step that leaves status, the makers and the workers alone stutters.
LEMMA StutterHeld ==
  ASSUME Held, UNCHANGED <<status, upload>>,
         \A r \in Runs, s \in Sources : Works(r, s)' <=> Works(r, s),
         \A q \in Requests : \/ req'[q] = req[q]
                             \/ req[q].op # "create" /\ req'[q].op # "create",
         ReqOK, ReqOK', DeletedWasBorn'
  PROVE  Stutters
<1>1. \A q \in Requests, s \in Sources :
        /\ Makes(q, s)' <=> Makes(q, s)
        /\ Makes(q, s) => req'[q].at = req[q].at
        /\ Creates(q, s)' <=> Creates(q, s)
  BY DEF Makes, Creates, ReqOK, ReqShape
<1>2. UNCHANGED <<status, worker>>
  BY <1>1, WorkerStays DEF Busy
<1>3. Held'
  BY <1>1 DEF Held, OneMaker, MakerSeesRow, DrawnBeforeBorn, WorkedIsIndexing, OneWorker,
     MakerXorWorker
<1> QED
  BY <1>2, <1>3 DEF Stutters

\* A call of a run that goes on, or goes to its error path, keeps it at work.
LEMMA ProceedWorks ==
  ASSUME RunOK, NEW r \in Runs, run[r].pc \in Live, NEW out, NEW next,
         next.pc \in Live, next.source = run[r].source, Proceed(r, out, next)
  PROVE  \A o \in Runs, s \in Sources : Works(o, s)' <=> Works(o, s)
<1> DEFINE failed == [run[r] EXCEPT !.pc = "fail"]
<1>1. failed.pc = "fail" /\ failed.source = run[r].source
  BY DEF RunOK, RunState
<1> QED
  BY <1>1 DEF Proceed, Works, RunOK

-----------------------------------------------------------------------------
(* The steps of a run.                                                      *)

LEMMA PipelineHeld ==
  ASSUME Shape, Shape', Held, NEW r \in Runs,
         RunStep(r), ~ SettleStatus(r), ~ Announce(r)
  PROVE  Stutters
<1>0. run[r] \in RunState
  BY DEF Shape, RunOK
<1>1. /\ UNCHANGED <<status, upload, req>>
      /\ run[r].pc \in PipelineSteps
      /\ \E out, next : /\ Proceed(r, out, next)
                        /\ next.pc \in Live /\ next.source = run[r].source
  <2>n. \A todo : NextFile(todo) \in Live
    BY DEF NextFile
  <2>1. CASE ResolveModels(r)
    <3> DEFINE next == [run[r] EXCEPT !.target = settings,
                          !.pc = IF run[r].fresh THEN "chunk" ELSE "clearChunks"]
    <3>1. next.pc \in Live /\ next.source = run[r].source
      BY <1>0 DEF RunState
    <3> QED
      BY <2>1, <3>1 DEF ResolveModels, runOnly, stores
  <2>2. CASE DeleteChunks(r)
    <3> DEFINE next == [run[r] EXCEPT !.pc = "clearVectors"]
    <3>1. next.pc \in Live /\ next.source = run[r].source
      BY <1>0 DEF RunState
    <3> QED
      BY <2>2, <3>1 DEF DeleteChunks
  <2>3. CASE ClearVectors(r)
    <3> DEFINE next == [run[r] EXCEPT !.pc = "list"]
    <3>1. next.pc \in Live /\ next.source = run[r].source
      BY <1>0 DEF RunState
    <3> QED
      BY <2>3, <3>1 DEF ClearVectors
  <2>4. CASE ListObjects(r)
    <3> DEFINE next == [run[r] EXCEPT !.pc = "download", !.todo = objects[run[r].source]]
    <3>1. next.pc \in Live /\ next.source = run[r].source
      BY <1>0 DEF RunState
    <3> QED
      BY <2>4, <3>1 DEF ListObjects, runOnly, stores
  <2>5. CASE DownloadToTemp(r)
    <3> DEFINE next == [run[r] EXCEPT !.pc = NextFile(run[r].todo)]
    <3>1. next.pc \in Live /\ next.source = run[r].source
      BY <1>0, <2>n DEF RunState
    <3> QED
      BY <2>5, <3>1 DEF DownloadToTemp, runOnly, stores
  <2>6. CASE ChunkFile(r)
    <3>1. PICK n, out :
            Proceed(r, out,
              IF FileChunks(r, n) = {}
              THEN [run[r] EXCEPT !.todo = run[r].todo \ {n},
                                  !.pc = NextFile(run[r].todo \ {n})]
              ELSE [run[r] EXCEPT !.todo = run[r].todo \ {n}, !.file = n, !.pc = "upsert"])
      BY <2>6 DEF ChunkFile
    <3> DEFINE next == IF FileChunks(r, n) = {}
              THEN [run[r] EXCEPT !.todo = run[r].todo \ {n},
                                  !.pc = NextFile(run[r].todo \ {n})]
              ELSE [run[r] EXCEPT !.todo = run[r].todo \ {n}, !.file = n, !.pc = "upsert"]
    <3>2. next.pc \in Live /\ next.source = run[r].source
      BY <1>0, <2>n DEF RunState
    <3> QED
      BY <2>6, <3>1, <3>2 DEF ChunkFile
  <2>7. CASE UpsertChunkVectors(r)
    <3> DEFINE next == [run[r] EXCEPT !.pc = "tag"]
    <3>1. next.pc \in Live /\ next.source = run[r].source
      BY <1>0 DEF RunState
    <3> QED
      BY <2>7, <3>1 DEF UpsertChunkVectors
  <2>8. CASE UpdateEmbeddingModel(r)
    <3> DEFINE next == [run[r] EXCEPT !.base = TotalAfter(r), !.file = None,
                                      !.pc = NextFile(run[r].todo)]
    <3>1. next.pc \in Live /\ next.source = run[r].source
      BY <1>0, <2>n DEF RunState
    <3> QED
      BY <2>8, <3>1 DEF UpdateEmbeddingModel
  <2> QED
    BY <2>1, <2>2, <2>3, <2>4, <2>5, <2>6, <2>7, <2>8 DEF RunStep
<1>2. \A o \in Runs, s \in Sources : Works(o, s)' <=> Works(o, s)
  BY <1>1, ProceedWorks DEF Shape
<1>3. DeletedWasBorn'
  BY <1>1 DEF Held, DeletedWasBorn
<1> QED
  BY <1>1, <1>2, <1>3, StutterHeld DEF Shape

\* Waiting for a slot, missing a deadline and returning change no holder.
LEMMA QuietRunHeld ==
  ASSUME Shape, Shape', Held, NEW r \in Runs,
         Acquire(r) \/ Expire(r) \/ Announce(r)
  PROVE  Stutters
<1>1. UNCHANGED <<status, upload, req>>
  BY DEF Acquire, Expire, Announce, stores, runOnly
<1>2. \A o \in Runs, s \in Sources : Works(o, s)' <=> Works(o, s)
  <2>1. CASE Acquire(r)
    BY <2>1 DEF Acquire, FirstStep, Works, Shape, RunOK, RunState
  <2>2. CASE Expire(r)
    BY <2>2 DEF Expire, Works, Shape, RunOK, RunState
  <2>3. CASE Announce(r)
    BY <2>3 DEF Announce, EndedRun, IdleRun, Works, Shape, RunOK
  <2> QED
    BY <2>1, <2>2, <2>3
<1>3. DeletedWasBorn'
  BY <1>1 DEF Held, DeletedWasBorn
<1> QED
  BY <1>1, <1>2, <1>3, StutterHeld DEF Shape

\* The status write: the run was the only holder, and lets go of the source.
LEMMA SettleHeld ==
  ASSUME Shape, Shape', Held, NEW r \in Runs, SettleStatus(r)
  PROVE  StepOf(run[r].source)
<1>0. PICK s \in Sources : s = run[r].source
  BY DEF Shape, RunOK, RunShape, SettleStatus
<1>1. s \in Sources /\ Works(r, s)
  BY <1>0 DEF SettleStatus, Works
<1>2. /\ \A o \in Runs \ {r}, x \in Sources : Works(o, x)' <=> Works(o, x)
      /\ \A x \in Sources : ~ Works(r, x)'
      /\ \A x \in Sources : Works(r, x) => x = s
  BY <1>0 DEF SettleStatus, Works, Shape, RunOK, RunState
<1>3. /\ \A o \in Runs : ~ Works(o, s)'
      /\ \A q \in Requests : ~ Makes(q, s)
  BY <1>1, <1>2 DEF Held, OneWorker, MakerXorWorker
<1>4. /\ status[s] \in {"indexing", "deleted"}
      /\ \/ status' = status
         \/ /\ status[s] = "indexing"
            /\ \E v \in {"indexed", "error"} : status' = [status EXCEPT ![s] = v]
  BY <1>0, <1>1 DEF Held, WorkedIsIndexing, SettleStatus, StatusWritten, HasRow
<1>5. UNCHANGED <<upload, req>>
  BY DEF SettleStatus
<1>6. /\ \A q \in Requests, x \in Sources : Makes(q, x)' <=> Makes(q, x)
      /\ \A q \in Requests, x \in Sources : Creates(q, x)' <=> Creates(q, x)
      /\ \A q \in Requests, x \in Sources : Creates(q, x) => Makes(q, x)
  BY <1>5 DEF Makes, Creates, Shape, ReqOK, ReqShape
<1>7. Held'
  <2>s. /\ status' \in [Sources -> Status] /\ status \in [Sources -> Status]
        /\ \A x \in Sources \ {s} : status'[x] = status[x]
        /\ status[s] # "unborn" /\ status'[s] # "unborn"
    BY <1>1, <1>4 DEF Shape, StoresOK
  <2>1. OneMaker' /\ OneWorker' /\ MakerXorWorker'
    BY <1>2, <1>6 DEF Held, OneMaker, OneWorker, MakerXorWorker
  <2>2. MakerSeesRow'
    BY <1>3, <1>5, <1>6, <2>s DEF Held, MakerSeesRow
  <2>3. WorkedIsIndexing'
    BY <1>2, <1>3, <2>s DEF Held, WorkedIsIndexing
  <2>4. DrawnBeforeBorn'
    BY <1>5, <2>s DEF Held, DrawnBeforeBorn
  <2>5. DeletedWasBorn'
    BY <1>5, <2>s DEF Held, DeletedWasBorn, Shape, ReqOK, ReqShape
  <2> QED
    BY <2>1, <2>2, <2>3, <2>4, <2>5 DEF Held
<1>8. Lifecycle!Settle(s)
  <2>1. Busy(s) /\ ~ Busy(s)'
    BY <1>1, <1>3, <1>6 DEF Busy
  <2>2. \A x \in Sources \ {s} : Busy(x)' <=> Busy(x)
    BY <1>2, <1>6 DEF Busy
  <2>3. worker[s] = "busy" /\ worker' = [worker EXCEPT ![s] = "free"]
    BY <1>1, <2>1, <2>2, WorkerChanges DEF worker, Busy
  <2> QED
    BY <1>4, <2>3 DEF Lifecycle!Settle
<1> QED
  BY <1>0, <1>7, <1>8 DEF StepOf

-----------------------------------------------------------------------------
(* The steps of a handler.                                                  *)

\* A handler other than Create, which changes neither status nor runs.
LEMMA OtherRequestHeld ==
  ASSUME Shape, Shape', Held, NEW q \in Requests,
         UNCHANGED <<status, upload, run>>,
         \A p \in Requests \ {q} : req'[p] = req[p],
         req[q].op # "create", req'[q].op # "create",
         req'[q].at \in {"vectors", "objects", "row"} =>
           status[req'[q].source] # "unborn"
  PROVE  Stutters
<1>1. \A o \in Runs, s \in Sources : Works(o, s)' <=> Works(o, s)
  BY DEF Works
<1>2. DeletedWasBorn'
  BY DEF Held, DeletedWasBorn
<1>3. \A p \in Requests : req'[p] = req[p] \/ (req[p].op # "create" /\ req'[p].op # "create")
  OBVIOUS
<1> QED
  BY <1>1, <1>2, <1>3, StutterHeld DEF Shape

LEMMA ReplyOthers ==
  ASSUME ReqOK, NEW q \in Requests, NEW out, NEW next, Reply(q, out, next)
  PROVE  /\ \A p \in Requests \ {q} : req'[p] = req[p]
         /\ req'[q] = IF out = "ok" THEN next ELSE IdleReq
  BY DEF Reply, ReqOK

LEMMA IngestHeld ==
  ASSUME Shape, Shape', Held, NEW q \in Requests,
         Ingest(q) \/ ReindexWorkspace(q) \/ LoadSource(q) \/ RefuseClaim(q)
  PROVE  Stutters
<1>0. req[q] \in ReqState /\ IdleReq.at = "start" /\ IdleReq.op = "idle"
  BY DEF Shape, ReqOK, IdleReq
<1>1. ASSUME NEW S, BeginIngest(q, S)
      PROVE  Stutters
  <2>1. /\ \A p \in Requests \ {q} : req'[p] = req[p]
        /\ req'[q].op = "ingest" /\ req'[q].at = "load" /\ req[q].op # "create"
    BY <1>1 DEF BeginIngest, IdleReq, Shape, ReqOK
  <2> QED
    BY <1>1, <2>1, OtherRequestHeld DEF BeginIngest, stores
<1>2. CASE Ingest(q) \/ ReindexWorkspace(q)
  BY <1>1, <1>2 DEF Ingest, ReindexWorkspace
<1>3. CASE LoadSource(q)
  <2>1. PICK s, out :
          Reply(q, out, [req[q] EXCEPT !.at = "claim", !.source = s, !.todo = req[q].todo \ {s}])
    BY <1>3 DEF LoadSource
  <2>2. /\ \A p \in Requests \ {q} : req'[p] = req[p]
        /\ req[q].op # "create" /\ req'[q].op # "create"
        /\ req'[q].at \in {"claim", "start"}
    <3> DEFINE next == [req[q] EXCEPT !.at = "claim", !.source = s, !.todo = req[q].todo \ {s}]
    <3>1. next.at = "claim" /\ next.op = req[q].op /\ req[q].op # "create"
      BY <1>0, <1>3 DEF LoadSource, Shape, ReqOK, ReqShape, ReqState
    <3>2. /\ \A p \in Requests \ {q} : req'[p] = req[p]
          /\ req'[q] = next \/ req'[q] = IdleReq
      BY <2>1, ReplyOthers DEF Shape
    <3> QED
      BY <1>0, <3>1, <3>2
  <2> QED
    BY <1>3, <2>2, OtherRequestHeld DEF LoadSource, stores
<1>4. CASE RefuseClaim(q)
  <2>1. /\ \A p \in Requests \ {q} : req'[p] = req[p]
        /\ req[q].op # "create" /\ req'[q].op # "create"
        /\ req'[q].at \in {"load", "start"}
    BY <1>0, <1>4 DEF RefuseClaim, NextSource, Shape, ReqOK, ReqShape, ReqState
  <2> QED
    BY <1>4, <2>1, OtherRequestHeld DEF RefuseClaim, stores
<1> QED
  BY <1>2, <1>3, <1>4

LEMMA DeleteHeld ==
  ASSUME Shape, Shape', Held, NEW q \in Requests,
         BeginDelete(q) \/ DeleteSourceVectors(q) \/ DeleteObject(q)
  PROVE  Stutters
<1>0. req[q] \in ReqState /\ IdleReq.at = "start" /\ IdleReq.op = "idle"
  BY DEF Shape, ReqOK, IdleReq
<1>1. CASE BeginDelete(q)
  <2>1. PICK s \in Sources :
          /\ HasRow(s)
          /\ req' = [req EXCEPT ![q] = [IdleReq EXCEPT !.op = "delete",
                       !.at = "vectors", !.source = s, !.target = settings]]
    BY <1>1 DEF BeginDelete
  <2>2. /\ \A p \in Requests \ {q} : req'[p] = req[p]
        /\ req[q].op # "create" /\ req'[q].op # "create" /\ req'[q].source = s
    BY <1>1, <2>1 DEF BeginDelete, IdleReq, Shape, ReqOK
  <2> QED
    BY <1>1, <2>1, <2>2, OtherRequestHeld DEF BeginDelete, stores, HasRow
<1>2. CASE DeleteSourceVectors(q)
  <2>1. PICK out :
          Reply(q, out, [req[q] EXCEPT !.keys = objects[req[q].source],
                           !.at = AfterVectors(req[q].source)])
    BY <1>2 DEF DeleteSourceVectors
  <2>2. /\ \A p \in Requests \ {q} : req'[p] = req[p]
        /\ req[q].op # "create" /\ req'[q].op # "create"
        /\ req'[q].at # "start" => req'[q].source = req[q].source
    <3> DEFINE next == [req[q] EXCEPT !.keys = objects[req[q].source],
                                      !.at = AfterVectors(req[q].source)]
    <3>1. next.source = req[q].source /\ next.op = req[q].op /\ req[q].op # "create"
      BY <1>0, <1>2 DEF DeleteSourceVectors, Shape, ReqOK, ReqShape, ReqState
    <3>2. /\ \A p \in Requests \ {q} : req'[p] = req[p]
          /\ req'[q] = next \/ req'[q] = IdleReq
      BY <2>1, ReplyOthers DEF Shape
    <3> QED
      BY <1>0, <3>1, <3>2
  <2>3. status[req[q].source] # "unborn"
    BY <1>2 DEF DeleteSourceVectors, Held, DeletedWasBorn
  <2> QED
    BY <1>2, <2>2, <2>3, OtherRequestHeld DEF DeleteSourceVectors
<1>3. CASE DeleteObject(q)
  <2>1. PICK k, out :
          Reply(q, out, [req[q] EXCEPT !.keys = req[q].keys \ {k},
                           !.at = IF req[q].keys \ {k} = {} THEN "row" ELSE "objects"])
    BY <1>3 DEF DeleteObject
  <2>2. /\ \A p \in Requests \ {q} : req'[p] = req[p]
        /\ req[q].op # "create" /\ req'[q].op # "create"
        /\ req'[q].at # "start" => req'[q].source = req[q].source
    <3> DEFINE next == [req[q] EXCEPT !.keys = req[q].keys \ {k},
                           !.at = IF req[q].keys \ {k} = {} THEN "row" ELSE "objects"]
    <3>1. next.source = req[q].source /\ next.op = req[q].op /\ req[q].op # "create"
      BY <1>0, <1>3 DEF DeleteObject, Shape, ReqOK, ReqShape, ReqState
    <3>2. /\ \A p \in Requests \ {q} : req'[p] = req[p]
          /\ req'[q] = next \/ req'[q] = IdleReq
      BY <2>1, ReplyOthers DEF Shape
    <3> QED
      BY <1>0, <3>1, <3>2
  <2>3. status[req[q].source] # "unborn"
    BY <1>3 DEF DeleteObject, Held, DeletedWasBorn
  <2> QED
    BY <1>3, <2>2, <2>3, OtherRequestHeld DEF DeleteObject
<1> QED
  BY <1>1, <1>2, <1>3

\* A launch makes an idle goroutine a worker of the source.
LEMMA LaunchWorks ==
  ASSUME RunOK, NEW s \in Sources, NEW fresh \in BOOLEAN, Launch(s, fresh)
  PROVE  \E r \in Runs : \A x \in Sources :
           /\ ~ Works(r, x)
           /\ Works(r, x)' <=> x = s
           /\ \A o \in Runs \ {r} : Works(o, x)' <=> Works(o, x)
<1>1. PICK r \in Runs : Launch(s, fresh)!(r)
  BY DEF Launch
<1> DEFINE new == [IdleRun EXCEPT !.pc = "queued", !.source = s, !.fresh = fresh,
                         !.todo = IF fresh THEN NamesOf(upload[s]) ELSE {}]
<1>2. new.pc = "queued" /\ new.source = s
  BY DEF IdleRun
<1>3. \A x \in Sources :
           /\ ~ Works(r, x)
           /\ Works(r, x)' <=> x = s
           /\ \A o \in Runs \ {r} : Works(o, x)' <=> Works(o, x)
  BY <1>1, <1>2 DEF Works, RunOK
<1> QED
  BY <1>3

\* The id is new: no row, no maker and no worker know it.
LEMMA BeginCreateHeld ==
  ASSUME Shape, Shape', Held, NEW q \in Requests, BeginCreate(q)
  PROVE  Stutters
<1>1. PICK s \in Sources, P \in (SUBSET Parts) \ {{}} :
           /\ upload[s] = {}
           /\ upload' = [upload EXCEPT ![s] = P]
           /\ req' = [req EXCEPT ![q] = [IdleReq EXCEPT !.op = "create",
                        !.at = "store", !.source = s, !.parts = P]]
  BY DEF BeginCreate
<1>2. /\ req[q].op = "idle" /\ UNCHANGED <<status, run>>
      /\ \A p \in Requests \ {q} : req'[p] = req[p]
      /\ req'[q].op = "create" /\ req'[q].at = "store" /\ req'[q].source = s
  BY <1>1 DEF BeginCreate, stores, IdleReq, Shape, ReqOK
<1>3. /\ status[s] = "unborn"
      /\ \A r \in Runs : ~ Works(r, s)
      /\ \A p \in Requests : ~ Makes(p, s)
  BY <1>1 DEF Held, DrawnBeforeBorn, WorkedIsIndexing, MakerSeesRow
<1>4. /\ \A r \in Runs, x \in Sources : Works(r, x)' <=> Works(r, x)
      /\ \A p \in Requests, x \in Sources : Creates(p, x)' <=> Creates(p, x)
      /\ \A p \in Requests, x \in Sources : Makes(p, x)' <=> Makes(p, x) \/ (p = q /\ x = s)
      /\ \A x \in Sources : ~ Makes(q, x)
  <2>1. \A r \in Runs, x \in Sources : Works(r, x)' <=> Works(r, x)
    BY <1>2 DEF Works
  <2>2. req[q].at = "start"
    BY <1>2 DEF Shape, ReqOK, ReqShape
  <2>3. \A p \in Requests, x \in Sources : Creates(p, x)' <=> Creates(p, x)
    BY <1>2, <2>2 DEF Creates
  <2>4. \A x \in Sources : ~ Makes(q, x) /\ (Makes(q, x)' <=> x = s)
    BY <1>2 DEF Makes
  <2>5. \A p \in Requests \ {q}, x \in Sources : Makes(p, x)' <=> Makes(p, x)
    BY <1>2 DEF Makes
  <2> QED
    BY <2>1, <2>3, <2>4, <2>5
<1>5. upload'[s] # {} /\ \A x \in Sources \ {s} : upload'[x] = upload[x]
  BY <1>1 DEF Shape, StoresOK
<1>6. Held'
  <2>1. OneMaker' /\ OneWorker' /\ MakerXorWorker'
    BY <1>3, <1>4 DEF Held, OneMaker, OneWorker, MakerXorWorker
  <2>2. MakerSeesRow'
    BY <1>2, <1>3, <1>4, <1>5 DEF Held, MakerSeesRow, Makes
  <2>3. DrawnBeforeBorn' /\ WorkedIsIndexing' /\ DeletedWasBorn'
    BY <1>2, <1>4, <1>5 DEF Held, DrawnBeforeBorn, WorkedIsIndexing, DeletedWasBorn
  <2> QED
    BY <2>1, <2>2, <2>3 DEF Held
<1>7. UNCHANGED <<status, worker>>
  BY <1>2, <1>4, WorkerStays DEF Busy
<1> QED
  BY <1>6, <1>7 DEF Stutters

\* Facts about a step of the Create that drew s: no other request and no run
\* is on the source.
LEMMA MakerAlone ==
  ASSUME Shape, Held, NEW q \in Requests, NEW s \in Sources, Makes(q, s)
  PROVE  /\ \A p \in Requests \ {q} : ~ Makes(p, s) /\ ~ Creates(p, s)
         /\ \A r \in Runs : ~ Works(r, s)
         /\ \A x \in Sources \ {s} : ~ Makes(q, x) /\ ~ Creates(q, x)
         /\ upload[s] # {}
  BY DEF Held, OneMaker, MakerXorWorker, MakerSeesRow, Makes, Creates, Shape, ReqOK, ReqShape

\* Until it inserts the row, nobody sees a Create.
LEMMA StoreFileHeld ==
  ASSUME Shape, Shape', Held, NEW q \in Requests, StoreFile(q)
  PROVE  Stutters
<1>0. PICK s \in Sources : s = req[q].source
  BY DEF StoreFile, Shape, ReqOK, ReqShape
<1>1. PICK p, out :
         Reply(q, out, [req[q] EXCEPT !.parts = req[q].parts \ {p},
                           !.at = IF req[q].parts \ {p} = {} THEN "insert" ELSE "store"])
  BY DEF StoreFile
<1> DEFINE next == [req[q] EXCEPT !.parts = req[q].parts \ {p},
                  !.at = IF req[q].parts \ {p} = {} THEN "insert" ELSE "store"]
<1>2. /\ req[q].op = "create" /\ req[q].at = "store"
      /\ next.op = "create" /\ next.at \in {"insert", "store"} /\ next.source = s
      /\ IdleReq.op = "idle" /\ IdleReq.at = "start"
  BY <1>0 DEF StoreFile, Shape, ReqOK, ReqShape, ReqState, IdleReq
<1>3. /\ \A o \in Requests \ {q} : req'[o] = req[o]
      /\ req'[q] = next \/ req'[q] = IdleReq
      /\ UNCHANGED <<status, upload, run>>
  BY <1>1, ReplyOthers DEF StoreFile, Shape
<1>q. /\ req'[q].at \in {"insert", "store", "start"}
      /\ req'[q].op = "create" => req'[q].source = s
  BY <1>2, <1>3
<1> HIDE DEF next
<1>4. /\ \A r \in Runs, x \in Sources : Works(r, x)' <=> Works(r, x)
      /\ \A o \in Requests, x \in Sources : Creates(o, x)' <=> Creates(o, x)
      /\ \A o \in Requests, x \in Sources : Makes(o, x)' => Makes(o, x)
      /\ \A o \in Requests : req'[o].op = "create" =>
           (req'[o].at = "fileRows" <=> req[o].at = "fileRows")
      /\ \A o \in Requests : req'[o].at \in {"vectors", "objects", "row"} => req'[o] = req[o]
  <2>1. \A r \in Runs, x \in Sources : Works(r, x)' <=> Works(r, x)
    BY <1>3 DEF Works
  <2>2. \A o \in Requests, x \in Sources : Creates(o, x)' <=> Creates(o, x)
    BY <1>2, <1>3, <1>q DEF Creates
  <2>3. \A o \in Requests, x \in Sources : Makes(o, x)' => Makes(o, x)
    BY <1>0, <1>2, <1>3, <1>q DEF Makes
  <2> QED
    BY <1>2, <1>3, <1>q, <2>1, <2>2, <2>3
<1>6. Held'
  <2>1. OneMaker' /\ OneWorker' /\ MakerXorWorker'
    BY <1>4 DEF Held, OneMaker, OneWorker, MakerXorWorker
  <2>2. MakerSeesRow'
    BY <1>3, <1>4 DEF Held, MakerSeesRow, Makes
  <2>3. DrawnBeforeBorn' /\ WorkedIsIndexing' /\ DeletedWasBorn'
    BY <1>3, <1>4 DEF Held, DrawnBeforeBorn, WorkedIsIndexing, DeletedWasBorn
  <2> QED
    BY <2>1, <2>2, <2>3 DEF Held
<1>7. UNCHANGED <<status, worker>>
  BY <1>3, <1>4, WorkerStays DEF Busy
<1> QED
  BY <1>6, <1>7 DEF Stutters

\* The row appears; its maker holds it unless the reply was lost.
LEMMA InsertSourceHeld ==
  ASSUME Shape, Shape', Held, NEW q \in Requests, InsertSource(q)
  PROVE  StepOf(req[q].source)
<1>0. PICK s \in Sources : s = req[q].source
  BY DEF InsertSource, Shape, ReqOK, ReqShape
<1>1. PICK out \in Outcomes("insert") :
         /\ status' = IF out # "failed" THEN [status EXCEPT ![s] = "indexing"] ELSE status
         /\ Reply(q, out, [req[q] EXCEPT !.at = "fileRows", !.parts = upload[s]])
  BY <1>0 DEF InsertSource
<1> DEFINE next == [req[q] EXCEPT !.at = "fileRows", !.parts = upload[s]]
<1>2. /\ req[q].op = "create" /\ req[q].at = "insert"
      /\ next.op = "create" /\ next.at = "fileRows" /\ next.source = s
      /\ IdleReq.op = "idle" /\ IdleReq.at = "start"
  BY <1>0 DEF InsertSource, Shape, ReqOK, ReqShape, ReqState, IdleReq
<1>3. /\ \A o \in Requests \ {q} : req'[o] = req[o]
      /\ req'[q] = IF out = "ok" THEN next ELSE IdleReq
      /\ UNCHANGED <<upload, run>>
  BY <1>1, ReplyOthers DEF InsertSource, Shape
<1>q. /\ out = "ok" => req'[q].op = "create" /\ req'[q].at = "fileRows" /\ req'[q].source = s
      /\ out # "ok" => req'[q].op = "idle" /\ req'[q].at = "start"
  BY <1>2, <1>3
<1> HIDE DEF next
<1>m. Makes(q, s)
  BY <1>0, <1>2 DEF Makes
<1>4. /\ \A r \in Runs, x \in Sources : Works(r, x)' <=> Works(r, x)
      /\ \A o \in Requests, x \in Sources : Makes(o, x)' => Makes(o, x)
      /\ \A o \in Requests \ {q}, x \in Sources : Creates(o, x)' <=> Creates(o, x)
      /\ \A x \in Sources \ {s} : ~ Creates(q, x) /\ ~ Creates(q, x)'
  <2>1. \A r \in Runs, x \in Sources : Works(r, x)' <=> Works(r, x)
    BY <1>3 DEF Works
  <2>2. \A o \in Requests, x \in Sources : Makes(o, x)' => Makes(o, x)
    BY <1>m, <1>3, <1>q DEF Makes
  <2>3. \A o \in Requests \ {q}, x \in Sources : Creates(o, x)' <=> Creates(o, x)
    BY <1>3 DEF Creates
  <2>4. \A x \in Sources \ {s} : ~ Creates(q, x) /\ ~ Creates(q, x)'
    BY <1>2, <1>q DEF Creates
  <2> QED
    BY <2>1, <2>2, <2>3, <2>4
<1>5. /\ status[s] = "unborn"
      /\ status'[s] = IF out # "failed" THEN "indexing" ELSE "unborn"
      /\ \A x \in Sources \ {s} : status'[x] = status[x]
  BY <1>1, <1>2, <1>m DEF Held, MakerSeesRow, Shape, StoresOK
<1>6. Held'
  <2>1. OneMaker' /\ OneWorker' /\ MakerXorWorker'
    BY <1>4 DEF Held, OneMaker, OneWorker, MakerXorWorker
  <2>2. MakerSeesRow'
    <3> SUFFICES ASSUME NEW x \in Sources, NEW o \in Requests, Makes(o, x)'
                 PROVE  /\ upload'[x] # {}
                        /\ req'[o].at # "fileRows" => status'[x] = "unborn"
                        /\ req'[o].at = "fileRows" => status'[x] \in {"indexing", "deleted"}
      BY DEF MakerSeesRow
    <3>1. Makes(o, x) /\ upload'[x] # {}
      BY <1>3, <1>4 DEF Held, MakerSeesRow
    <3>2. CASE o = q
      <4>1. x = s /\ out = "ok" /\ req'[q].at = "fileRows"
        BY <1>0, <1>q, <3>1, <3>2 DEF Makes
      <4> QED
        BY <1>5, <3>1, <3>2, <4>1
    <3>3. CASE o # q
      <4>1. x # s
        BY <1>m, <3>1, <3>3 DEF Held, OneMaker
      <4> QED
        BY <1>3, <1>5, <3>1, <3>3, <4>1 DEF Held, MakerSeesRow
    <3> QED
      BY <3>2, <3>3
  <2>3. DrawnBeforeBorn'
    BY <1>3, <1>5, <1>m, MakerAlone DEF Held, DrawnBeforeBorn
  <2>4. WorkedIsIndexing'
    BY <1>4, <1>5 DEF Held, WorkedIsIndexing
  <2>5. DeletedWasBorn'
    BY <1>3, <1>5, <1>q DEF Held, DeletedWasBorn, Shape, ReqOK, ReqShape
  <2> QED
    BY <2>1, <2>2, <2>3, <2>4, <2>5 DEF Held
<1>7. \A x \in Sources \ {s} : Busy(x)' <=> Busy(x)
  BY <1>4 DEF Busy
<1>8. CASE out # "failed"
  <2>1. worker' = [worker EXCEPT ![s] = IF Busy(s)' THEN "busy" ELSE "free"]
    BY <1>7, WorkerChanges
  <2>2. Lifecycle!Insert(s)
    BY <1>1, <1>5, <1>8, <2>1 DEF Lifecycle!Insert
  <2> QED
    BY <1>0, <1>6, <2>2 DEF StepOf
<1>9. CASE out = "failed"
  <2>1. ~ Creates(q, s) /\ ~ Creates(q, s)'
    BY <1>2, <1>9, <1>q DEF Creates
  <2>2. Busy(s)' <=> Busy(s)
    BY <1>4, <2>1 DEF Busy
  <2>3. UNCHANGED <<status, worker>>
    BY <1>1, <1>7, <1>9, <2>2, WorkerStays
  <2> QED
    BY <1>6, <2>3 DEF StepOf
<1> QED
  BY <1>8, <1>9

\* The maker hands the source to the run it launches, goes on, or lets go.
LEMMA InsertSourceFileHeld ==
  ASSUME Shape, Shape', Held, NEW q \in Requests, InsertSourceFile(q)
  PROVE  StepOf(req[q].source)
<1>0. PICK s \in Sources : s = req[q].source
  BY DEF InsertSourceFile, Shape, ReqOK, ReqShape
<1>1. PICK p \in req[q].parts, out \in {"ok", "failed", "lost"} :
         /\ Reply(q, out, IF req[q].parts \ {p} = {} THEN IdleReq
                          ELSE [req[q] EXCEPT !.parts = req[q].parts \ {p}])
         /\ IF out = "ok" /\ req[q].parts \ {p} = {} THEN Launch(s, TRUE)
            ELSE UNCHANGED run
  BY <1>0 DEF InsertSourceFile, Outcomes
<1> DEFINE last == req[q].parts \ {p} = {}
           more == [req[q] EXCEPT !.parts = req[q].parts \ {p}]
<1>2. /\ req[q].op = "create" /\ req[q].at = "fileRows"
      /\ more.op = "create" /\ more.at = "fileRows" /\ more.source = s
      /\ IdleReq.op = "idle" /\ IdleReq.at = "start"
  BY <1>0 DEF InsertSourceFile, Shape, ReqOK, ReqShape, ReqState, IdleReq
<1>3. /\ \A o \in Requests \ {q} : req'[o] = req[o]
      /\ req'[q] = IF out = "ok" /\ ~ last THEN more ELSE IdleReq
      /\ UNCHANGED <<status, upload>>
  BY <1>1, ReplyOthers DEF InsertSourceFile, Shape
<1>q. /\ out = "ok" /\ ~ last =>
           req'[q].op = "create" /\ req'[q].at = "fileRows" /\ req'[q].source = s
      /\ ~ (out = "ok" /\ ~ last) => req'[q].op = "idle" /\ req'[q].at = "start"
      /\ Makes(q, s) /\ Creates(q, s)
  BY <1>0, <1>2, <1>3 DEF Makes, Creates
<1> HIDE DEF more
<1>4. /\ \A o \in Requests, x \in Sources : Makes(o, x)' => Makes(o, x)
      /\ \A o \in Requests \ {q}, x \in Sources : Creates(o, x)' <=> Creates(o, x)
      /\ \A x \in Sources \ {s} : ~ Creates(q, x) /\ ~ Creates(q, x)'
      /\ \A o \in Requests : req'[o].op = "create" => req'[o].at = req[o].at
      /\ DeletedWasBorn'
  <2>1. \A o \in Requests, x \in Sources : Makes(o, x)' => Makes(o, x)
    BY <1>3, <1>q DEF Makes
  <2>2. \A o \in Requests \ {q}, x \in Sources : Creates(o, x)' <=> Creates(o, x)
    BY <1>3 DEF Creates
  <2>3. \A x \in Sources \ {s} : ~ Creates(q, x) /\ ~ Creates(q, x)'
    BY <1>0, <1>q DEF Creates
  <2>4. DeletedWasBorn'
    BY <1>3, <1>q DEF Held, DeletedWasBorn
  <2> QED
    BY <1>2, <1>3, <1>q, <2>1, <2>2, <2>3, <2>4
<1>5. OneMaker' /\ MakerSeesRow' /\ DrawnBeforeBorn'
  <2>1. MakerSeesRow'
    BY <1>3, <1>4 DEF Held, MakerSeesRow, Makes
  <2> QED
    BY <1>3, <1>4, <2>1 DEF Held, OneMaker, DrawnBeforeBorn
<1>6. CASE out = "ok" /\ last
  <2>1. PICK r \in Runs : \A x \in Sources :
           /\ ~ Works(r, x)
           /\ Works(r, x)' <=> x = s
           /\ \A o \in Runs \ {r} : Works(o, x)' <=> Works(o, x)
    BY <1>1, <1>6, LaunchWorks DEF Shape
  <2>2. /\ \A o \in Runs : ~ Works(o, s)
        /\ \A o \in Requests \ {q} : ~ Makes(o, s)
        /\ \A x \in Sources : ~ Makes(q, x)'
    BY <1>6, <1>q, MakerAlone DEF Makes
  <2>3. OneWorker' /\ MakerXorWorker'
    BY <1>4, <2>1, <2>2 DEF Held, OneWorker, MakerXorWorker
  <2>4. WorkedIsIndexing'
    BY <1>2, <1>3, <1>q, <2>1 DEF Held, WorkedIsIndexing, MakerSeesRow
  <2>5. \A x \in Sources : Busy(x)' <=> Busy(x)
    BY <1>4, <1>q, <2>1 DEF Busy
  <2>6. UNCHANGED worker
    BY <2>5, WorkerStays
  <2> QED
    BY <1>3, <1>4, <1>5, <2>3, <2>4, <2>6 DEF StepOf, Held
<1>7. ASSUME ~ (out = "ok" /\ last)
      PROVE  /\ \A o \in Runs, x \in Sources : Works(o, x)' <=> Works(o, x)
             /\ Held'
  <2>1. \A o \in Runs, x \in Sources : Works(o, x)' <=> Works(o, x)
    BY <1>1, <1>7 DEF Works
  <2>2. OneWorker' /\ MakerXorWorker' /\ WorkedIsIndexing'
    BY <1>3, <1>4, <2>1 DEF Held, OneWorker, MakerXorWorker, WorkedIsIndexing
  <2> QED
    BY <1>4, <1>5, <2>1, <2>2 DEF Held
<1>8. CASE out = "ok" /\ ~ last
  <2>1. Creates(q, s)'
    BY <1>8, <1>q DEF Creates
  <2>2. \A x \in Sources : Busy(x)' <=> Busy(x)
    BY <1>4, <1>7, <1>8, <1>q, <2>1 DEF Busy
  <2> QED
    BY <1>3, <1>7, <1>8, <2>2, WorkerStays DEF StepOf
<1>9. CASE out # "ok"
  <2>1. ~ Creates(q, s)'
    BY <1>9, <1>q DEF Creates
  <2>2. Busy(s) /\ ~ Busy(s)'
    BY <1>4, <1>7, <1>9, <1>q, <2>1, MakerAlone DEF Busy
  <2>3. \A x \in Sources \ {s} : Busy(x)' <=> Busy(x)
    BY <1>4, <1>7, <1>9 DEF Busy
  <2>4. worker[s] = "busy" /\ worker' = [worker EXCEPT ![s] = "free"]
    BY <2>2, <2>3, WorkerChanges DEF worker, Busy
  <2>5. Lifecycle!Settle(s)
    BY <1>3, <2>4 DEF Lifecycle!Settle
  <2> QED
    BY <1>0, <1>7, <1>9, <2>5 DEF StepOf
<1> QED
  BY <1>6, <1>8, <1>9

\* The claim finds the row settled, hence nobody on the source.
LEMMA ClaimHeld ==
  ASSUME Shape, Shape', Held, NEW q \in Requests, ClaimAndLaunch(q)
  PROVE  StepOf(req[q].source)
<1>0. PICK s \in Sources : s = req[q].source
  BY DEF ClaimAndLaunch, Shape, ReqOK, ReqShape
<1>1. PICK out \in Outcomes("claim") :
       /\ status' = IF out # "failed" THEN [status EXCEPT ![s] = "indexing"] ELSE status
       /\ Reply(q, out, NextSource(q))
       /\ IF out = "ok" THEN Launch(s, FALSE) ELSE UNCHANGED run
  BY <1>0 DEF ClaimAndLaunch
<1>2. /\ status[s] \in {"indexed", "error"}
      /\ ~ Busy(s) /\ \A r \in Runs : ~ Works(r, s)
      /\ \A o \in Requests : ~ Makes(o, s)
  <2>1. status[s] \in {"indexed", "error"}
    BY <1>0 DEF ClaimAndLaunch, Claimable, HasRow
  <2>2. ~ Busy(s)
    BY <2>1, BusyMeans DEF Shape
  <2>3. \A o \in Requests : ~ Makes(o, s)
    BY <2>1 DEF Held, MakerSeesRow
  <2> QED
    BY <2>1, <2>2, <2>3 DEF Busy
<1>3. /\ req[q].op # "create" /\ NextSource(q).op # "create" /\ IdleReq.op # "create"
      /\ NextSource(q).at \in {"start", "load"} /\ IdleReq.at = "start"
  BY DEF ClaimAndLaunch, NextSource, IdleReq, Shape, ReqOK, ReqShape, ReqState
<1>4. /\ \A o \in Requests \ {q} : req'[o] = req[o]
      /\ req'[q].op # "create" /\ req'[q].at \in {"start", "load"}
      /\ UNCHANGED upload
  BY <1>1, <1>3, ReplyOthers DEF ClaimAndLaunch, Shape
<1>5. /\ \A o \in Requests, x \in Sources : Makes(o, x)' <=> Makes(o, x)
      /\ \A o \in Requests, x \in Sources : Creates(o, x)' <=> Creates(o, x)
      /\ \A o \in Requests : req'[o].op = "create" => req'[o] = req[o]
  <2>1. req[q].at = "claim"
    BY DEF ClaimAndLaunch
  <2> QED
    BY <1>3, <1>4, <2>1 DEF Makes, Creates
<1>6. /\ \A x \in Sources \ {s} : status'[x] = status[x]
      /\ status'[s] = IF out # "failed" THEN "indexing" ELSE status[s]
  BY <1>1 DEF Shape, StoresOK
<1>7. OneMaker' /\ MakerSeesRow' /\ DrawnBeforeBorn' /\ DeletedWasBorn'
  <2>1. OneMaker' /\ MakerSeesRow'
    BY <1>2, <1>4, <1>5, <1>6 DEF Held, OneMaker, MakerSeesRow, Makes
  <2>2. DrawnBeforeBorn'
    BY <1>2, <1>4, <1>6 DEF Held, DrawnBeforeBorn
  <2>3. DeletedWasBorn'
    BY <1>2, <1>4, <1>6 DEF Held, DeletedWasBorn, Shape, ReqOK, ReqShape
  <2> QED
    BY <2>1, <2>2, <2>3
<1>8. CASE out = "ok"
  <2>1. PICK r \in Runs : \A x \in Sources :
           /\ ~ Works(r, x)
           /\ Works(r, x)' <=> x = s
           /\ \A o \in Runs \ {r} : Works(o, x)' <=> Works(o, x)
    BY <1>1, <1>8, LaunchWorks DEF Shape
  <2>2. OneWorker' /\ MakerXorWorker'
    BY <1>2, <1>5, <2>1 DEF Held, OneWorker, MakerXorWorker
  <2>3. WorkedIsIndexing'
    BY <1>2, <1>6, <1>8, <2>1 DEF Held, WorkedIsIndexing
  <2>4. \A x \in Sources \ {s} : Busy(x)' <=> Busy(x)
    BY <1>5, <2>1 DEF Busy
  <2>5. worker' = [worker EXCEPT ![s] = IF Busy(s)' THEN "busy" ELSE "free"]
    BY <2>4, WorkerChanges
  <2>6. Lifecycle!Claim(s)
    BY <1>1, <1>2, <1>8, <2>5 DEF Lifecycle!Claim, worker, Busy
  <2> QED
    BY <1>0, <1>7, <2>2, <2>3, <2>6 DEF Held, StepOf
<1>9. CASE out # "ok"
  <2>1. \A o \in Runs, x \in Sources : Works(o, x)' <=> Works(o, x)
    BY <1>1, <1>9 DEF Works
  <2>2. OneWorker' /\ MakerXorWorker' /\ WorkedIsIndexing'
    BY <1>2, <1>5, <1>6, <2>1 DEF Held, OneWorker, MakerXorWorker, WorkedIsIndexing
  <2>3. \A x \in Sources : Busy(x)' <=> Busy(x)
    BY <1>5, <2>1 DEF Busy
  <2>4. worker' = [worker EXCEPT ![s] = IF Busy(s)' THEN "busy" ELSE "free"] /\ UNCHANGED worker
    BY <2>3, WorkerChanges, WorkerStays
  <2>5. CASE out = "failed"
    BY <1>1, <1>7, <2>2, <2>4, <2>5 DEF Held, StepOf
  <2>6. CASE out # "failed"
    <3>1. Lifecycle!Claim(s)
      BY <1>1, <1>2, <2>4, <2>6 DEF Lifecycle!Claim, worker, Busy
    <3> QED
      BY <1>0, <1>7, <2>2, <3>1 DEF Held, StepOf
  <2> QED
    BY <2>5, <2>6
<1> QED
  BY <1>8, <1>9

\* The row goes, held or not; the holder stays until its status write.
LEMMA DeleteRowHeld ==
  ASSUME Shape, Shape', Held, NEW q \in Requests, DeleteRow(q)
  PROVE  Step
<1>0. PICK s \in Sources : s = req[q].source
  BY DEF DeleteRow, Shape, ReqOK, ReqShape
<1>1. /\ req' = [req EXCEPT ![q] = IdleReq] /\ req[q].at = "row"
      /\ UNCHANGED <<upload, run>>
      /\ status' = [status EXCEPT ![s] = "deleted"] \/ UNCHANGED status
  BY <1>0 DEF DeleteRow
<1>2. /\ req[q].op # "create" /\ IdleReq.op # "create" /\ IdleReq.at = "start"
      /\ status[s] # "unborn"
  BY <1>0, <1>1 DEF IdleReq, Shape, ReqOK, ReqShape, Held, DeletedWasBorn
<1>3. /\ \A o \in Requests \ {q} : req'[o] = req[o]
      /\ req'[q] = IdleReq
  BY <1>1 DEF Shape, ReqOK
<1>4. /\ \A o \in Requests, x \in Sources : Makes(o, x)' <=> Makes(o, x)
      /\ \A o \in Requests, x \in Sources : Creates(o, x)' <=> Creates(o, x)
      /\ \A o \in Requests : req'[o].op = "create" => req'[o] = req[o]
  BY <1>1, <1>2, <1>3 DEF Makes, Creates
<1>5. \A o \in Runs, x \in Sources : Works(o, x)' <=> Works(o, x)
  BY <1>1 DEF Works
<1>6. /\ \A x \in Sources \ {s} : status'[x] = status[x]
      /\ status'[s] \in {status[s], "deleted"}
  BY <1>1 DEF Shape, StoresOK
<1>7. Held'
  <2>1. OneMaker' /\ OneWorker' /\ MakerXorWorker'
    BY <1>4, <1>5 DEF Held, OneMaker, OneWorker, MakerXorWorker
  <2>2. MakerSeesRow'
    BY <1>1, <1>2, <1>4, <1>6 DEF Held, MakerSeesRow, Makes
  <2>3. DrawnBeforeBorn' /\ WorkedIsIndexing'
    <3>1. upload[s] # {}
      BY <1>2 DEF Held, DrawnBeforeBorn
    <3> QED
      BY <1>1, <1>5, <1>6, <3>1 DEF Held, DrawnBeforeBorn, WorkedIsIndexing
  <2>4. DeletedWasBorn'
    BY <1>2, <1>3, <1>6 DEF Held, DeletedWasBorn, Shape, ReqOK, ReqShape
  <2> QED
    BY <2>1, <2>2, <2>3, <2>4 DEF Held
<1>8. UNCHANGED worker
  BY <1>4, <1>5, WorkerStays DEF Busy
<1> QED
  BY <1>1, <1>2, <1>7, <1>8 DEF Step, Lifecycle!vars, Lifecycle!Next, Lifecycle!Remove

\* Nobody holds a source when the process starts.
LEMMA RestartHeld ==
  ASSUME Shape, Shape', Held, Restart
  PROVE  Step
<1>1. /\ \A o \in Runs, x \in Sources : ~ Works(o, x)'
      /\ \A o \in Requests, x \in Sources : ~ Makes(o, x)' /\ ~ Creates(o, x)'
      /\ \A o \in Requests : req'[o].at = "start"
      /\ UNCHANGED upload
  BY DEF Restart, EndedRun, IdleRun, IdleReq, Works, Makes, Creates
<1>2. \/ status' = [s \in Sources |-> IF status[s] = "indexing" THEN "error"
                                      ELSE status[s]]
      \/ UNCHANGED status
  BY DEF Restart
<1>3. Held'
  BY <1>1, <1>2 DEF Held, OneMaker, MakerSeesRow, DrawnBeforeBorn, WorkedIsIndexing,
     OneWorker, MakerXorWorker, DeletedWasBorn
<1>4. worker' = [s \in Sources |-> "free"]
  BY <1>1 DEF worker
<1> QED
  BY <1>2, <1>3, <1>4 DEF Step, Lifecycle!Next, Lifecycle!Restart

LEMMA SetEmbeddingHeld ==
  ASSUME Shape, Shape', Held, SetEmbedding
  PROVE  Stutters
<1>1. \A o \in Runs, x \in Sources : Works(o, x)' <=> Works(o, x)
  BY DEF SetEmbedding, Works
<1>2. UNCHANGED <<status, upload, req>> /\ DeletedWasBorn'
  BY DEF SetEmbedding, stores, Held, DeletedWasBorn
<1> QED
  BY <1>1, <1>2, StutterHeld DEF Shape

-----------------------------------------------------------------------------
(* The theorems.                                                            *)

LEMMA EveryStepHeld ==
  ASSUME Shape, Shape', Held, [Next]_vars
  PROVE  Step
<1>0. Stutters => Step
  BY DEF Stutters, Step, Lifecycle!vars
<1>s. \A s \in Sources : StepOf(s) => Step
  BY DEF StepOf, Step, Lifecycle!vars, Lifecycle!Next
<1>1. CASE UNCHANGED vars
  <2>1. \A o \in Runs, x \in Sources : Works(o, x)' <=> Works(o, x)
    BY <1>1 DEF vars, Works
  <2>2. UNCHANGED <<status, upload, req>> /\ DeletedWasBorn'
    BY <1>1 DEF vars, Held, DeletedWasBorn
  <2> QED
    BY <1>0, <2>1, <2>2, StutterHeld DEF Shape
<1>2. ASSUME NEW q \in Requests, Handler(q)
      PROVE  Step
  <2>1. CASE InsertSource(q) \/ InsertSourceFile(q) \/ ClaimAndLaunch(q)
    <3>1. req[q].source \in Sources
      BY <2>1 DEF InsertSource, InsertSourceFile, ClaimAndLaunch, Shape, ReqOK, ReqShape
    <3> QED
      BY <1>s, <2>1, <3>1, InsertSourceHeld, InsertSourceFileHeld, ClaimHeld
  <2> QED
    BY <1>0, <1>2, <2>1, BeginCreateHeld, StoreFileHeld, IngestHeld, DeleteHeld,
       DeleteRowHeld DEF Handler
<1>3. ASSUME NEW r \in Runs, Acquire(r) \/ Expire(r) \/ RunStep(r)
      PROVE  Step
  <2>1. SettleStatus(r) => run[r].source \in Sources
    BY DEF SettleStatus, Shape, RunOK, RunShape
  <2> QED
    BY <1>0, <1>s, <1>3, <2>1, PipelineHeld, QuietRunHeld, SettleHeld
<1> QED
  BY <1>0, <1>1, <1>2, <1>3, SetEmbeddingHeld, RestartHeld DEF Next

LEMMA HeldInvariant == Spec => []Held
<1>1. Shape /\ Shape' /\ Held /\ [Next]_vars => Held'
  BY EveryStepHeld DEF Step
<1> QED
  BY <1>1, InitHeld, ShapeInvariant, PTL DEF Spec

\* Two goroutines never work on one source, nor a run beside the Create that
\* will launch another, whatever fails, is lost or restarts: the compare-and-
\* swap of claimForIndexing is enough.
THEOREM NoRaceOnASource == Spec => []OneWorkerPerSource
<1>1. Shape /\ Held => OneWorkerPerSource
  BY DEF Shape, ReqOK, ReqShape, Held, OneWorker, MakerXorWorker, WorkedIsIndexing,
     OneWorkerPerSource, Makes, Creates
<1> QED
  BY <1>1, ShapeInvariant, HeldInvariant, PTL

\* Ingestion implements the lifecycle of a source: a row is claimed only when
\* nobody holds it, settled only by its holder, and never comes back.
THEOREM ImplementsLifecycle == Spec => LifecycleSpec
<1>1. Init => Lifecycle!Init
  BY DEF Init, Lifecycle!Init, worker, Works, Creates, IdleRun, IdleReq
<1>2. Shape /\ Shape' /\ Held /\ [Next]_vars => [Lifecycle!Next]_(Lifecycle!vars)
  BY EveryStepHeld DEF Step
<1> QED
  BY <1>1, <1>2, ShapeInvariant, HeldInvariant, PTL
     DEF Spec, LifecycleSpec, Lifecycle!Spec

-----------------------------------------------------------------------------
(* A status of indexing has somebody who will end it, as long as the calls  *)
(* that begin and end it do not fail in the ways IngestionDeadline shows.   *)

\* The status write, the startup reset and the inserts of the files take
\* effect, within the run's ten minutes; the calls that make a row read
\* indexing, and the last insert before the launch, tell their caller that they
\* did; and no two parts of an upload are cleaned to one path.
EndsAreWritten ==
  /\ Failing \cap {"deadline", "status", "reset", "fileRow"} = {}
  /\ Lossy \cap {"insert", "fileRow", "claim"} = {}
  /\ \A x, y \in Parts : NameOf[x] = NameOf[y] => x = y

OnTime == \A r \in Runs : ~ run[r].late

\* A Create finds free the names it has yet to insert.
NamesAreFree ==
  \A s \in Sources, q \in Requests : Makes(q, s) =>
    /\ req[q].at # "fileRows" => fileRows[s] = {}
    /\ req[q].at = "fileRows" => \A p \in req[q].parts : NameOf[p] \notin fileRows[s]
NoFileYet == \A s \in Sources : upload[s] = {} => fileRows[s] = {}

Ending == OnTime /\ NamesAreFree /\ NoFileYet /\ IndexingIsOwned

LEMMA InitEnding == Init => Ending
<1> SUFFICES ASSUME Init PROVE Ending
  OBVIOUS
<1>1. OnTime
  BY DEF Init, IdleRun, OnTime
<1>2. NamesAreFree /\ NoFileYet /\ IndexingIsOwned
  BY DEF Init, NamesAreFree, NoFileYet, IndexingIsOwned
<1> QED
  BY <1>1, <1>2 DEF Ending

\* No step makes a run late but Expire.
LEMMA StaysOnTime ==
  ASSUME EndsAreWritten, RunOK, OnTime, Next
  PROVE  OnTime'
<1>1. ASSUME NEW r \in Runs, NEW out, NEW next, Proceed(r, out, next), next.late = run[r].late
      PROVE  OnTime'
  <2>1. [run[r] EXCEPT !.pc = "fail"].late = run[r].late
    BY DEF RunOK, RunState
  <2> QED
    BY <1>1, <2>1 DEF Proceed, OnTime, RunOK
<1>2. ASSUME NEW s, NEW fresh, Launch(s, fresh)
      PROVE  OnTime'
  BY <1>2 DEF Launch, IdleRun, OnTime, RunOK
<1>3. CASE UNCHANGED run
  BY <1>3 DEF OnTime
<1>4. ASSUME NEW q \in Requests, Handler(q)
      PROVE  OnTime'
  <2>1. UNCHANGED run \/ \E s, fresh : Launch(s, fresh)
    <3>1. CASE InsertSourceFile(q)
      BY <3>1 DEF InsertSourceFile
    <3>2. CASE ClaimAndLaunch(q)
      BY <3>2 DEF ClaimAndLaunch
    <3> QED
      BY <1>4, <3>1, <3>2 DEF Handler, BeginCreate, StoreFile, InsertSource, Ingest,
         ReindexWorkspace, BeginIngest, LoadSource, RefuseClaim, BeginDelete,
         DeleteSourceVectors, DeleteObject, DeleteRow
  <2> QED
    BY <1>2, <1>3, <2>1
<1>5. ASSUME NEW r \in Runs, RunStep(r), ~ SettleStatus(r), ~ Announce(r)
      PROVE  \E out, next : Proceed(r, out, next) /\ next.late = run[r].late
  <2>0. run[r] \in RunState
    BY DEF RunOK
  <2>1. CASE ResolveModels(r)
    <3> DEFINE next == [run[r] EXCEPT !.target = settings,
                          !.pc = IF run[r].fresh THEN "chunk" ELSE "clearChunks"]
    <3>1. next.late = run[r].late
      BY <2>0 DEF RunState
    <3>2. \E out : Proceed(r, out, next)
      BY <2>1 DEF ResolveModels
    <3> HIDE DEF next
    <3> QED
      BY <3>1, <3>2
  <2>2. CASE DeleteChunks(r)
    <3> DEFINE next == [run[r] EXCEPT !.pc = "clearVectors"]
    <3>1. next.late = run[r].late
      BY <2>0 DEF RunState
    <3>2. \E out : Proceed(r, out, next)
      BY <2>2 DEF DeleteChunks
    <3> HIDE DEF next
    <3> QED
      BY <3>1, <3>2
  <2>3. CASE ClearVectors(r)
    <3> DEFINE next == [run[r] EXCEPT !.pc = "list"]
    <3>1. next.late = run[r].late
      BY <2>0 DEF RunState
    <3>2. \E out : Proceed(r, out, next)
      BY <2>3 DEF ClearVectors
    <3> HIDE DEF next
    <3> QED
      BY <3>1, <3>2
  <2>4. CASE UpsertChunkVectors(r)
    <3> DEFINE next == [run[r] EXCEPT !.pc = "tag"]
    <3>1. next.late = run[r].late
      BY <2>0 DEF RunState
    <3>2. \E out : Proceed(r, out, next)
      BY <2>4 DEF UpsertChunkVectors
    <3> HIDE DEF next
    <3> QED
      BY <3>1, <3>2
  <2>5. CASE ListObjects(r)
    <3> DEFINE next == [run[r] EXCEPT !.pc = "download", !.todo = objects[run[r].source]]
    <3>1. next.late = run[r].late
      BY <2>0 DEF RunState
    <3>2. \E out : Proceed(r, out, next)
      BY <2>5 DEF ListObjects
    <3> HIDE DEF next
    <3> QED
      BY <3>1, <3>2
  <2>6. CASE DownloadToTemp(r)
    <3> DEFINE next == [run[r] EXCEPT !.pc = NextFile(run[r].todo)]
    <3>1. next.late = run[r].late
      BY <2>0 DEF RunState
    <3>2. \E out : Proceed(r, out, next)
      BY <2>6 DEF DownloadToTemp
    <3> HIDE DEF next
    <3> QED
      BY <3>1, <3>2
  <2>7. CASE ChunkFile(r)
    <3>1. PICK n, out :
            Proceed(r, out,
              IF FileChunks(r, n) = {}
              THEN [run[r] EXCEPT !.todo = run[r].todo \ {n},
                                  !.pc = NextFile(run[r].todo \ {n})]
              ELSE [run[r] EXCEPT !.todo = run[r].todo \ {n}, !.file = n, !.pc = "upsert"])
      BY <2>7 DEF ChunkFile
    <3> DEFINE next == IF FileChunks(r, n) = {}
              THEN [run[r] EXCEPT !.todo = run[r].todo \ {n},
                                  !.pc = NextFile(run[r].todo \ {n})]
              ELSE [run[r] EXCEPT !.todo = run[r].todo \ {n}, !.file = n, !.pc = "upsert"]
    <3>2. next.late = run[r].late
      BY <2>0 DEF RunState
    <3>3. \E o : Proceed(r, o, next)
      BY <3>1
    <3> HIDE DEF next
    <3> QED
      BY <3>2, <3>3
  <2>8. CASE UpdateEmbeddingModel(r)
    <3> DEFINE next == [run[r] EXCEPT !.base = TotalAfter(r), !.file = None,
                                      !.pc = NextFile(run[r].todo)]
    <3>1. next.late = run[r].late
      BY <2>0 DEF RunState
    <3>2. \E out : Proceed(r, out, next)
      BY <2>8 DEF UpdateEmbeddingModel
    <3> HIDE DEF next
    <3> QED
      BY <3>1, <3>2
  <2> QED
    BY <1>5, <2>1, <2>2, <2>3, <2>4, <2>5, <2>6, <2>7, <2>8 DEF RunStep
<1>6. ASSUME NEW r \in Runs, Acquire(r) \/ SettleStatus(r) \/ Announce(r)
      PROVE  OnTime'
  <2>1. ASSUME NEW next, run' = [run EXCEPT ![r] = next], next.late = FALSE
        PROVE  OnTime'
    BY <2>1 DEF OnTime, RunOK
  <2>2. run[r].late = FALSE /\ run[r] \in RunState
    BY DEF OnTime, RunOK, RunState
  <2>3. CASE Acquire(r)
    <3> DEFINE next == [run[r] EXCEPT !.pc = FirstStep(r)]
    <3>1. run' = [run EXCEPT ![r] = next]
      BY <2>3 DEF Acquire
    <3>2. next.late = FALSE
      BY <2>2 DEF RunState
    <3> HIDE DEF next
    <3> QED
      BY <2>1, <3>1, <3>2
  <2>4. CASE SettleStatus(r)
    <3> DEFINE next == [run[r] EXCEPT !.pc = "announce",
                          !.event = IF run[r].pc = "succeed" THEN "done" ELSE "error"]
    <3>1. run' = [run EXCEPT ![r] = next]
      BY <2>4 DEF SettleStatus
    <3>2. next.late = FALSE
      BY <2>2 DEF RunState
    <3> HIDE DEF next
    <3> QED
      BY <2>1, <3>1, <3>2
  <2>5. CASE Announce(r)
    <3>1. EndedRun.late = FALSE
      BY DEF EndedRun, IdleRun
    <3> QED
      BY <2>1, <2>5, <3>1 DEF Announce
  <2> QED
    BY <1>6, <2>3, <2>4, <2>5
<1>7. ASSUME NEW r \in Runs, Expire(r)
      PROVE  FALSE
  BY <1>7 DEF Expire, EndsAreWritten
<1>8. CASE Restart
  BY <1>8 DEF Restart, OnTime, EndedRun, IdleRun
<1> QED
  BY <1>1, <1>3, <1>4, <1>5, <1>6, <1>7, <1>8 DEF Next, RunStep, SetEmbedding

LEMMA NamesStay ==
  ASSUME NamesAreFree, NoFileYet, UNCHANGED <<upload, fileRows>>,
         \A q \in Requests : req'[q] = req[q] \/ req'[q].op # "create"
  PROVE  NamesAreFree' /\ NoFileYet'
<1>1. \A q \in Requests, s \in Sources : Makes(q, s)' => Makes(q, s) /\ req'[q] = req[q]
  BY DEF Makes
<1> QED
  BY <1>1 DEF NamesAreFree, NoFileYet

\* A Create inserts each name once: no other inserts for its source.
LEMMA CreateNames ==
  ASSUME EndsAreWritten, Shape, Held, NamesAreFree, NoFileYet, NEW q \in Requests,
         StoreFile(q) \/ InsertSource(q) \/ InsertSourceFile(q)
  PROVE  NamesAreFree' /\ NoFileYet'
<1>0. PICK s \in Sources : s = req[q].source
  BY DEF StoreFile, InsertSource, InsertSourceFile, Shape, ReqOK, ReqShape
<1>m. Makes(q, s) /\ req[q] \in ReqState
  BY <1>0 DEF StoreFile, InsertSource, InsertSourceFile, Shape, ReqOK, ReqShape, Makes
<1>1. \A o \in Requests \ {q} : req'[o] = req[o] /\ ~ Makes(o, s)
  BY <1>m, MakerAlone, ReplyOthers DEF StoreFile, InsertSource, InsertSourceFile, Shape
<1>2. UNCHANGED upload
  BY DEF StoreFile, InsertSource, InsertSourceFile
<1>i. IdleReq.op = "idle"
  BY DEF IdleReq
<1>3. ASSUME \A x \in Sources \ {s} : fileRows'[x] = fileRows[x],
             req'[q].op = "create" =>
               /\ req'[q].source = s
               /\ req'[q].at # "fileRows" => fileRows'[s] = {}
               /\ req'[q].at = "fileRows" =>
                    \A p \in req'[q].parts : NameOf[p] \notin fileRows'[s]
      PROVE  NamesAreFree' /\ NoFileYet'
  <2>1. NoFileYet'
    BY <1>2, <1>3, <1>m, MakerAlone DEF NoFileYet
  <2>2. ASSUME NEW x \in Sources, NEW o \in Requests, Makes(o, x)'
        PROVE  /\ req'[o].at # "fileRows" => fileRows'[x] = {}
               /\ req'[o].at = "fileRows" =>
                    \A p \in req'[o].parts : NameOf[p] \notin fileRows'[x]
    <3>1. CASE o = q
      BY <1>3, <2>2, <3>1 DEF Makes
    <3>2. CASE o # q
      <4>1. req'[o] = req[o] /\ Makes(o, x) /\ x # s
        BY <1>1, <2>2, <3>2 DEF Makes
      <4> QED
        BY <1>3, <4>1 DEF NamesAreFree
    <3> QED
      BY <3>1, <3>2
  <2> QED
    BY <2>1, <2>2 DEF NamesAreFree
<1>4. CASE StoreFile(q)
  <2>1. PICK p, out :
          Reply(q, out, [req[q] EXCEPT !.parts = req[q].parts \ {p},
                           !.at = IF req[q].parts \ {p} = {} THEN "insert" ELSE "store"])
    BY <1>4 DEF StoreFile
  <2> DEFINE next == [req[q] EXCEPT !.parts = req[q].parts \ {p},
                           !.at = IF req[q].parts \ {p} = {} THEN "insert" ELSE "store"]
  <2>2. next.source = s /\ next.at # "fileRows"
    BY <1>0, <1>m DEF ReqState
  <2>3. req'[q] = next \/ req'[q] = IdleReq
    BY <2>1, ReplyOthers DEF Shape
  <2>4. fileRows' = fileRows /\ fileRows[s] = {}
    BY <1>4, <1>m DEF StoreFile, NamesAreFree
  <2> HIDE DEF next
  <2> QED
    BY <1>3, <1>i, <2>2, <2>3, <2>4
<1>5. CASE InsertSource(q)
  <2>1. PICK out : Reply(q, out, [req[q] EXCEPT !.at = "fileRows", !.parts = upload[s]])
    BY <1>0, <1>5 DEF InsertSource
  <2> DEFINE next == [req[q] EXCEPT !.at = "fileRows", !.parts = upload[s]]
  <2>2. next.source = s
    BY <1>0, <1>m DEF ReqState
  <2>3. req'[q] = next \/ req'[q] = IdleReq
    BY <2>1, ReplyOthers DEF Shape
  <2>4. fileRows' = fileRows /\ fileRows[s] = {}
    BY <1>5, <1>m DEF InsertSource, NamesAreFree
  <2> HIDE DEF next
  <2> QED
    BY <1>3, <1>i, <2>2, <2>3, <2>4
<1>6. CASE InsertSourceFile(q)
  <2>1. PICK p \in req[q].parts, out \in {"ok", "failed", "lost"} :
          /\ fileRows' = IF out # "failed"
                         THEN [fileRows EXCEPT ![s] = @ \cup {NameOf[p]}] ELSE fileRows
          /\ Reply(q, out, IF req[q].parts \ {p} = {} THEN IdleReq
                           ELSE [req[q] EXCEPT !.parts = req[q].parts \ {p}])
    BY <1>0, <1>6 DEF InsertSourceFile, Outcomes
  <2> DEFINE next == [req[q] EXCEPT !.parts = req[q].parts \ {p}]
  <2>2. next.source = s /\ next.at = "fileRows" /\ next.parts = req[q].parts \ {p}
    BY <1>0, <1>6, <1>m DEF InsertSourceFile, ReqState
  <2>3. req'[q] = next \/ req'[q] = IdleReq
    BY <2>1, ReplyOthers DEF Shape
  <2>4. /\ \A x \in Sources \ {s} : fileRows'[x] = fileRows[x]
        /\ fileRows'[s] \subseteq fileRows[s] \cup {NameOf[p]}
    BY <2>1 DEF Shape, StoresOK
  <2>5. \A y \in req[q].parts \ {p} : NameOf[y] # NameOf[p] /\ NameOf[y] \notin fileRows[s]
    <3>1. req[q].parts \subseteq Parts
      BY <1>m DEF ReqState
    <3> QED
      BY <1>6, <1>m, <3>1 DEF InsertSourceFile, EndsAreWritten, NamesAreFree
  <2> HIDE DEF next
  <2>6. req'[q].op = "create" =>
          /\ req'[q].source = s /\ req'[q].at = "fileRows"
          /\ \A y \in req'[q].parts : NameOf[y] \notin fileRows'[s]
    BY <1>i, <2>2, <2>3, <2>4, <2>5
  <2> QED
    BY <1>3, <2>4, <2>6
<1> QED
  BY <1>4, <1>5, <1>6

LEMMA NamesStayFree ==
  ASSUME EndsAreWritten, Shape, Held, NamesAreFree, NoFileYet, Next
  PROVE  NamesAreFree' /\ NoFileYet'
<1>i. IdleReq.op = "idle"
  BY DEF IdleReq
<1>1. ASSUME NEW q \in Requests, BeginCreate(q)
      PROVE  NamesAreFree' /\ NoFileYet'
  <2>1. PICK s \in Sources, P \in (SUBSET Parts) \ {{}} :
             /\ upload[s] = {}
             /\ upload' = [upload EXCEPT ![s] = P]
             /\ req' = [req EXCEPT ![q] = [IdleReq EXCEPT !.op = "create",
                          !.at = "store", !.source = s, !.parts = P]]
    BY <1>1 DEF BeginCreate
  <2>2. /\ \A o \in Requests \ {q} : req'[o] = req[o]
        /\ req'[q].at = "store" /\ req'[q].source = s
        /\ upload'[s] # {} /\ \A x \in Sources \ {s} : upload'[x] = upload[x]
        /\ fileRows[s] = {} /\ fileRows' = fileRows
    BY <1>1, <2>1 DEF BeginCreate, stores, IdleReq, Shape, ReqOK, StoresOK, NoFileYet
  <2>3. \A o \in Requests, x \in Sources : Makes(o, x)' =>
          (o = q /\ x = s) \/ (Makes(o, x) /\ req'[o] = req[o])
    BY <2>2 DEF Makes
  <2> QED
    BY <2>2, <2>3 DEF NamesAreFree, NoFileYet
<1>2. ASSUME NEW q \in Requests,
             \/ Ingest(q) \/ ReindexWorkspace(q) \/ LoadSource(q) \/ ClaimAndLaunch(q)
             \/ RefuseClaim(q) \/ BeginDelete(q) \/ DeleteSourceVectors(q) \/ DeleteObject(q)
      PROVE  NamesAreFree' /\ NoFileYet'
  <2>0. req[q] \in ReqState
    BY DEF Shape, ReqOK
  <2>1. req'[q].op # "create" /\ \A o \in Requests \ {q} : req'[o] = req[o]
    <3>1. ASSUME NEW out, NEW next, Reply(q, out, next), next.op # "create"
          PROVE  req'[q].op # "create" /\ \A o \in Requests \ {q} : req'[o] = req[o]
      BY <1>i, <3>1, ReplyOthers DEF Shape
    <3>2. CASE Ingest(q) \/ ReindexWorkspace(q) \/ BeginDelete(q)
      BY <3>2 DEF Ingest, ReindexWorkspace, BeginIngest, BeginDelete, IdleReq, Shape, ReqOK
    <3>3. CASE LoadSource(q)
      BY <2>0, <3>1, <3>3 DEF LoadSource, Shape, ReqOK, ReqShape, ReqState
    <3>4. CASE ClaimAndLaunch(q)
      <4>1. NextSource(q).op # "create"
        BY <1>i, <2>0, <3>4 DEF ClaimAndLaunch, NextSource, Shape, ReqOK, ReqShape, ReqState
      <4> QED
        BY <3>1, <3>4, <4>1 DEF ClaimAndLaunch
    <3>5. CASE RefuseClaim(q)
      BY <1>i, <2>0, <3>5 DEF RefuseClaim, NextSource, Shape, ReqOK, ReqShape, ReqState
    <3>6. CASE DeleteSourceVectors(q) \/ DeleteObject(q)
      <4>1. req[q].op # "create"
        BY <3>6 DEF DeleteSourceVectors, DeleteObject, Shape, ReqOK, ReqShape
      <4>2. \A k, at : [req[q] EXCEPT !.keys = k, !.at = at].op = req[q].op
        BY <2>0 DEF ReqState
      <4>3. \E out, k, at : Reply(q, out, [req[q] EXCEPT !.keys = k, !.at = at])
        BY <3>6 DEF DeleteSourceVectors, DeleteObject
      <4> QED
        BY <3>1, <4>1, <4>2, <4>3
    <3> QED
      BY <1>2, <3>2, <3>3, <3>4, <3>5, <3>6
  <2>2. UNCHANGED <<upload, fileRows>>
    BY <1>2 DEF Ingest, ReindexWorkspace, BeginIngest, LoadSource, ClaimAndLaunch,
       RefuseClaim, BeginDelete, DeleteSourceVectors, DeleteObject, stores
  <2> QED
    BY <2>1, <2>2, NamesStay
<1>3. ASSUME NEW q \in Requests, DeleteRow(q)
      PROVE  NamesAreFree' /\ NoFileYet'
  <2>1. /\ UNCHANGED upload
        /\ req'[q].op # "create" /\ \A o \in Requests \ {q} : req'[o] = req[o]
        /\ \A s \in Sources : fileRows'[s] \subseteq fileRows[s]
    BY <1>3, <1>i DEF DeleteRow, Shape, ReqOK, StoresOK
  <2>2. \A o \in Requests, s \in Sources : Makes(o, s)' => Makes(o, s) /\ req'[o] = req[o]
    BY <2>1 DEF Makes
  <2> QED
    BY <2>1, <2>2 DEF NamesAreFree, NoFileYet
<1>4. ASSUME NEW r \in Runs, Acquire(r) \/ Expire(r) \/ RunStep(r)
      PROVE  UNCHANGED <<upload, fileRows, req>>
  BY <1>4 DEF Acquire, Expire, RunStep, ResolveModels, DeleteChunks, ClearVectors,
     ListObjects, DownloadToTemp, ChunkFile, UpsertChunkVectors, UpdateEmbeddingModel,
     SettleStatus, Announce, runOnly, stores
<1>5. CASE SetEmbedding
  BY <1>5, NamesStay DEF SetEmbedding, stores
<1>6. CASE Restart
  BY <1>6, <1>i, NamesStay DEF Restart
<1> QED
  BY <1>1, <1>2, <1>3, <1>4, <1>5, <1>6, CreateNames, NamesStay DEF Next, Handler

LEMMA OwnedByWorker ==
  /\ IndexingIsOwned <=> \A s \in Sources : status[s] = "indexing" => worker[s] = "busy"
  /\ \A s \in Sources : worker[s] = "busy" <=> Busy(s)
<1>1. \A s \in Sources : worker[s] = "busy" <=> Busy(s)
  BY DEF worker, Busy
<1> QED
  BY <1>1 DEF IndexingIsOwned, Busy

LEMMA StutterOwned == IndexingIsOwned /\ Stutters => IndexingIsOwned'
<1>1. IndexingIsOwned' <=> \A s \in Sources : status'[s] = "indexing" => worker'[s] = "busy"
  <2>1. \A s \in Sources : worker'[s] = "busy" <=> Busy(s)'
    BY DEF worker, Busy
  <2> QED
    BY <2>1 DEF IndexingIsOwned, Busy
<1> QED
  BY <1>1, OwnedByWorker DEF Stutters

\* A step of one source leaves the others as they were.
LEMMA StepOfOwned ==
  ASSUME NEW s \in Sources, Shape, IndexingIsOwned, StepOf(s),
         status'[s] = "indexing" => Busy(s)'
  PROVE  IndexingIsOwned'
<1>1. \A x \in Sources : worker'[x] = "busy" <=> Busy(x)'
  BY DEF worker, Busy
<1>2. /\ worker = [x \in Sources |-> worker[x]] /\ worker' = [x \in Sources |-> worker'[x]]
      /\ status = [x \in Sources |-> status[x]]
  BY DEF worker, Shape, StoresOK
<1>3. \A x \in Sources \ {s} : worker'[x] = worker[x] /\ status'[x] = status[x]
  BY <1>2 DEF StepOf, Lifecycle!Insert, Lifecycle!Claim, Lifecycle!Settle
<1>4. \A x \in Sources : status'[x] = "indexing" => Busy(x)'
  BY <1>1, <1>3, OwnedByWorker
<1> QED
  BY <1>4 DEF IndexingIsOwned, Busy

\* The holder of a source hands it on, or its row no longer reads indexing.
LEMMA OwnedStays ==
  ASSUME EndsAreWritten, Shape, Shape', Held, Ending, Next
  PROVE  IndexingIsOwned'
<1> USE DEF Ending
<1>1. ASSUME NEW r \in Runs, SettleStatus(r)
      PROVE  IndexingIsOwned'
  <2>1. PICK s \in Sources : s = run[r].source
    BY <1>1 DEF SettleStatus, Shape, RunOK, RunShape
  <2>2. RunOutcomes(r, "status") \subseteq {"ok", "lost"}
    BY DEF RunOutcomes, Outcomes, EndsAreWritten, OnTime
  <2>3. \E v \in {"indexed", "error"} : status' = StatusWritten(s, v)
    BY <1>1, <2>1, <2>2 DEF SettleStatus
  <2>4. status'[s] # "indexing"
    BY <2>1, <2>3 DEF StatusWritten, HasRow, Shape, StoresOK
  <2> QED
    BY <1>1, <2>1, <2>4, SettleHeld, StepOfOwned
<1>2. ASSUME NEW q \in Requests, InsertSource(q)
      PROVE  IndexingIsOwned'
  <2>1. PICK s \in Sources : s = req[q].source
    BY <1>2 DEF InsertSource, Shape, ReqOK, ReqShape
  <2>2. PICK out \in Outcomes("insert") :
         /\ status' = IF out # "failed" THEN [status EXCEPT ![s] = "indexing"] ELSE status
         /\ Reply(q, out, [req[q] EXCEPT !.at = "fileRows", !.parts = upload[s]])
    BY <1>2, <2>1 DEF InsertSource
  <2>3. CASE out = "failed"
    <3>1. status[s] = "unborn" /\ status' = status
      BY <1>2, <2>1, <2>2, <2>3 DEF InsertSource, Makes, Held, MakerSeesRow, Shape, ReqOK,
         ReqShape
    <3> QED
      BY <1>2, <2>1, <3>1, InsertSourceHeld, StepOfOwned
  <2>4. CASE out # "failed"
    <3> DEFINE next == [req[q] EXCEPT !.at = "fileRows", !.parts = upload[s]]
    <3>1. out = "ok"
      BY <2>4 DEF Outcomes, EndsAreWritten
    <3>2. next.at = "fileRows" /\ next.source = s
      BY <2>1 DEF Shape, ReqOK, ReqState
    <3>3. req'[q] = next
      BY <2>2, <3>1, ReplyOthers DEF Shape
    <3> HIDE DEF next
    <3>4. Busy(s)'
      BY <3>2, <3>3 DEF Busy, Creates
    <3> QED
      BY <1>2, <2>1, <3>4, InsertSourceHeld, StepOfOwned
  <2> QED
    BY <2>3, <2>4
<1>3. ASSUME NEW q \in Requests, InsertSourceFile(q)
      PROVE  IndexingIsOwned'
  <2>1. PICK s \in Sources : s = req[q].source
    BY <1>3 DEF InsertSourceFile, Shape, ReqOK, ReqShape
  <2>2. PICK p \in req[q].parts, out \in {"ok", "failed", "lost"} :
         /\ out \in IF FileRowFits(s, p) THEN Outcomes("fileRow") ELSE {"failed"}
         /\ Reply(q, out, IF req[q].parts \ {p} = {} THEN IdleReq
                          ELSE [req[q] EXCEPT !.parts = req[q].parts \ {p}])
         /\ IF out = "ok" /\ req[q].parts \ {p} = {} THEN Launch(s, TRUE)
            ELSE UNCHANGED run
    BY <1>3, <2>1 DEF InsertSourceFile, Outcomes
  <2>3. CASE out = "ok"
    <3>1. CASE req[q].parts \ {p} = {}
      <4>1. \E r \in Runs : Works(r, s)'
        BY <2>2, <2>3, <3>1, LaunchWorks DEF Shape
      <4> QED
        BY <1>3, <2>1, <4>1, InsertSourceFileHeld, StepOfOwned DEF Busy
    <3>2. CASE req[q].parts \ {p} # {}
      <4> DEFINE next == [req[q] EXCEPT !.parts = req[q].parts \ {p}]
      <4>1. next.at = "fileRows" /\ next.source = s
        BY <1>3, <2>1 DEF InsertSourceFile, Shape, ReqOK, ReqState
      <4>2. req'[q] = next
        BY <2>2, <2>3, <3>2, ReplyOthers DEF Shape
      <4> HIDE DEF next
      <4>3. Busy(s)'
        BY <4>1, <4>2 DEF Busy, Creates
      <4> QED
        BY <1>3, <2>1, <4>3, InsertSourceFileHeld, StepOfOwned
    <3> QED
      BY <3>1, <3>2
  <2>4. CASE out # "ok"
    <3>1. ~ FileRowFits(s, p)
      BY <2>2, <2>4 DEF Outcomes, EndsAreWritten
    <3>2. NameOf[p] \notin fileRows[s]
      BY <1>3, <2>1 DEF InsertSourceFile, NamesAreFree, Makes, Shape, ReqOK, ReqShape
    <3>3. status[s] # "indexing" /\ status' = status
      BY <1>3, <3>1, <3>2 DEF InsertSourceFile, FileRowFits, HasRow
    <3> QED
      BY <1>3, <2>1, <3>3, InsertSourceFileHeld, StepOfOwned
  <2> QED
    BY <2>3, <2>4
<1>4. ASSUME NEW q \in Requests, ClaimAndLaunch(q)
      PROVE  IndexingIsOwned'
  <2>1. PICK s \in Sources : s = req[q].source
    BY <1>4 DEF ClaimAndLaunch, Shape, ReqOK, ReqShape
  <2>2. PICK out \in Outcomes("claim") :
         /\ status' = IF out # "failed" THEN [status EXCEPT ![s] = "indexing"] ELSE status
         /\ IF out = "ok" THEN Launch(s, FALSE) ELSE UNCHANGED run
    BY <1>4, <2>1 DEF ClaimAndLaunch
  <2>3. CASE out = "failed"
    <3>1. status'[s] # "indexing"
      BY <1>4, <2>1, <2>2, <2>3 DEF ClaimAndLaunch, Claimable
    <3> QED
      BY <1>4, <2>1, <3>1, ClaimHeld, StepOfOwned
  <2>4. CASE out # "failed"
    <3>1. out = "ok"
      BY <2>4 DEF Outcomes, EndsAreWritten
    <3>2. \E r \in Runs : Works(r, s)'
      BY <2>2, <3>1, LaunchWorks DEF Shape
    <3> QED
      BY <1>4, <2>1, <3>2, ClaimHeld, StepOfOwned DEF Busy
  <2> QED
    BY <2>3, <2>4
<1>5. ASSUME NEW q \in Requests, DeleteRow(q)
      PROVE  IndexingIsOwned'
  <2>1. PICK s \in Sources : s = req[q].source
    BY <1>5 DEF DeleteRow, Shape, ReqOK, ReqShape
  <2>2. \A x \in Sources : status'[x] = "indexing" => status[x] = "indexing"
    BY <1>5, <2>1 DEF DeleteRow, Shape, StoresOK
  <2>3. /\ \A r \in Runs, x \in Sources : Works(r, x)' <=> Works(r, x)
        /\ \A o \in Requests, x \in Sources : Creates(o, x) => Creates(o, x)'
    BY <1>5 DEF DeleteRow, Works, Creates, Shape, ReqOK
  <2> QED
    BY <2>2, <2>3 DEF IndexingIsOwned
<1>6. CASE Restart
  <2>1. \A s \in Sources : status'[s] # "indexing"
    BY <1>6 DEF Restart, Outcomes, EndsAreWritten
  <2> QED
    BY <2>1 DEF IndexingIsOwned
<1>7. ASSUME NEW q \in Requests, Handler(q)
      PROVE  IndexingIsOwned'
  BY <1>2, <1>3, <1>4, <1>5, <1>7, BeginCreateHeld, StoreFileHeld, IngestHeld, DeleteHeld,
     StutterOwned DEF Handler
<1>8. ASSUME NEW r \in Runs, Acquire(r) \/ Expire(r) \/ RunStep(r)
      PROVE  IndexingIsOwned'
  BY <1>1, <1>8, PipelineHeld, QuietRunHeld, StutterOwned
<1>9. CASE SetEmbedding
  BY <1>9, SetEmbeddingHeld, StutterOwned
<1> QED
  BY <1>6, <1>7, <1>8, <1>9 DEF Next

\* A source that reads indexing has a run, or a Create about to launch one, that
\* will end it: what is left indexing is "a leftover from a crashed or restarted
\* process" (service.go:818-821), which the startup reset clears.  It holds
\* where the calls that end a run's work are written; EndsAreWritten names them.
THEOREM IndexingHasItsOwner ==
  ASSUME EndsAreWritten
  PROVE  Spec => []IndexingIsOwned
<1>1. Shape /\ Shape' /\ Held /\ Ending /\ [Next]_vars => Ending'
  <2> SUFFICES ASSUME Shape, Shape', Held, Ending, [Next]_vars
               PROVE  Ending'
    OBVIOUS
  <2>1. CASE Next
    BY <2>1, StaysOnTime, NamesStayFree, OwnedStays DEF Ending, Shape
  <2>2. CASE UNCHANGED vars
    BY <2>2 DEF vars, Ending, OnTime, NamesAreFree, NoFileYet, IndexingIsOwned, Makes, Works,
       Creates
  <2> QED
    BY <2>1, <2>2
<1>2. Ending => IndexingIsOwned
  BY DEF Ending
<1> QED
  BY <1>1, <1>2, InitEnding, ShapeInvariant, HeldInvariant, PTL DEF Spec
=============================================================================
