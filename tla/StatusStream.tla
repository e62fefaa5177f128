---------------------------- MODULE StatusStream ----------------------------
(***************************************************************************)
(* The status stream of one source: ProgressBus, the runs that publish on  *)
(* it and the SSE handlers (StreamStatus) that subscribe to it.  A run     *)
(* writes the status and publishes its terminal event in two steps, a      *)
(* stream subscribes and re-reads the status in two steps, and the bus     *)
(* never waits for a subscriber: what can a client miss?                   *)
(***************************************************************************)
EXTENDS Naturals, Sequences

CONSTANTS
  Source,      \* the source
  Streams,     \* connections to GET /sources/{id}/status
  MaxRuns,     \* bound: runs of the source, the Create's one included
  Files,       \* files a run processes: an indexing event each
  SubBufSize,  \* capacity of a subscriber's channel
  WriteFails   \* whether a write to the rows may fail, or its reply be lost

ASSUME StatusStreamAssumption ==
  /\ MaxRuns \in Nat \ {0} /\ Files \in Nat
  /\ SubBufSize \in Nat \ {0} /\ WriteFails \in BOOLEAN

Runs == 1..MaxRuns

VARIABLES
  status,    \* the row
  run,       \* the goroutines, in the order they are launched
  subs,      \* ProgressBus.subs: the channels publish sends to
  chan,      \* a stream's channel: "none", "open" or "closed"
  buf,       \* what its channel holds
  stream,    \* where its handler is
  sent,      \* what its client got
  dropped,   \* history: streams for whom publish found the channel full
  stuck      \* history: nothing will end `indexing`, the write that should have
             \* failed or the run was never launched

vars == <<status, run, subs, chan, buf, stream, sent, dropped, stuck>>

\* An event names its run (0 for an answer made from the row) and its file.
Event == [type: {"indexing", "done", "error"}, run: 0..MaxRuns, file: 0..Files]
FromRow(type) == [type |-> type, run |-> 0, file |-> 0]
FileEvent(r, n) == [type |-> "indexing", run |-> r, file |-> n]
Terminal(e) == e.type \in {"done", "error"}

RunState == [pc: {"idle", "launch", "files", "settle", "announce", "ended"},
             file: 0..Files, verdict: {"none", "done", "error"}]

\* The Create has inserted the row, and nothing else.
Init ==
  /\ status = "indexing"
  /\ run = [r \in Runs |-> [pc |-> IF r = 1 THEN "launch" ELSE "idle",
                            file |-> 0, verdict |-> "none"]]
  /\ subs = {}
  /\ chan = [c \in Streams |-> "none"]
  /\ buf = [c \in Streams |-> <<>>]
  /\ stream = [c \in Streams |-> "new"]
  /\ sent = [c \in Streams |-> <<>>]
  /\ dropped = {}
  /\ stuck = FALSE

-----------------------------------------------------------------------------
Full == {c \in subs : Len(buf[c]) >= SubBufSize}

\* publish holds the bus's mutex over all its non-blocking sends.
Publish(e) ==
  /\ buf' = [c \in Streams |-> IF c \in subs \ Full THEN Append(buf[c], e)
                               ELSE buf[c]]
  /\ dropped' = dropped \cup Full

-----------------------------------------------------------------------------
(* Runs: the launch by a request, runPipeline's event per file, the status  *)
(* write, the terminal event.                                               *)

\* Mutant: claimForIndexing takes any row.
ClaimableAnyStatus == status # "deleted"
Claimable == status \in {"indexed", "error"}

\* Ingest's compare-and-swap takes the settled row for the next run.
Claim(r) ==
  /\ Claimable
  /\ run[r].pc = "idle" /\ \A o \in 1..(r - 1) : run[o].pc # "idle"
  /\ status' = "indexing"
  /\ run' = [run EXCEPT ![r].pc = "launch"]
  /\ UNCHANGED <<subs, chan, buf, stream, sent, dropped, stuck>>

\* The request that inserted or claimed the row launches the run, or returns an
\* error and leaves the row as it is: the reply of its write is lost, or the
\* Create fails to insert the file rows.
Launch(r) ==
  /\ run[r].pc = "launch"
  /\ \/ run' = [run EXCEPT ![r].pc = "files"] /\ UNCHANGED stuck
     \/ WriteFails /\ run' = [run EXCEPT ![r].pc = "ended"] /\ stuck' = TRUE
  /\ UNCHANGED <<status, subs, chan, buf, stream, sent, dropped>>

\* Mutant: the event tells the files done before this one.
FileNumberBefore(r) == run[r].file
FileNumber(r) == run[r].file + 1

ProcessFile(r) ==
  /\ run[r].pc = "files" /\ run[r].file < Files
  /\ Publish(FileEvent(r, FileNumber(r)))
  /\ run' = [run EXCEPT ![r].file = @ + 1]
  /\ UNCHANGED <<status, subs, chan, stream, sent, stuck>>

EndPipeline(r) ==
  /\ run[r].pc = "files"
  /\ \E v \in {"error"} \cup {d \in {"done"} : run[r].file = Files} :
       run' = [run EXCEPT ![r].pc = "settle", ![r].verdict = v]
  /\ UNCHANGED <<status, subs, chan, buf, stream, sent, dropped, stuck>>

\* updateStatus: its failure is logged only, and a row that is gone is none.
Settle(r) ==
  /\ run[r].pc = "settle"
  /\ run' = [run EXCEPT ![r].pc = "announce"]
  /\ \/ /\ status' = IF status = "deleted" THEN status
                     ELSE IF run[r].verdict = "done" THEN "indexed" ELSE "error"
        /\ UNCHANGED stuck
     \/ WriteFails /\ stuck' = (stuck \/ status = "indexing") /\ UNCHANGED status
  /\ UNCHANGED <<subs, chan, buf, stream, sent, dropped>>

\* Mutant: the error path returns without its event.
PublishDoneOnly(r) ==
  IF run[r].verdict = "done" THEN Publish([type |-> "done", run |-> r, file |-> 0])
  ELSE UNCHANGED <<buf, dropped>>
PublishEnd(r) == Publish([type |-> run[r].verdict, run |-> r, file |-> 0])

Announce(r) ==
  /\ run[r].pc = "announce"
  /\ PublishEnd(r)
  /\ run' = [run EXCEPT ![r].pc = "ended"]
  /\ UNCHANGED <<status, subs, chan, stream, sent, stuck>>

DeleteSource ==
  /\ status # "deleted"
  /\ status' = "deleted"
  /\ UNCHANGED <<run, subs, chan, buf, stream, sent, dropped, stuck>>

-----------------------------------------------------------------------------
(* StreamStatus.                                                            *)

\* Mutant: cancel closes the channel and leaves it in the bus.
SubsKept(c) == subs
SubsWithout(c) == subs \ {c}

\* The deferred cancel: out of the bus and closed, under the bus's mutex.
Return(c) ==
  /\ stream' = [stream EXCEPT ![c] = "closed"]
  /\ subs' = SubsWithout(c)
  /\ chan' = [chan EXCEPT ![c] = "closed"]
  /\ buf' = [buf EXCEPT ![c] = <<>>]

Send(c, e) == sent' = [sent EXCEPT ![c] = Append(@, e)]

\* The first read guards membership: without a row the answer is an HTTP error.
Connect(c) ==
  /\ stream[c] = "new"
  /\ status # "deleted"
  /\ stream' = [stream EXCEPT ![c] = "connected"]
  /\ UNCHANGED <<status, run, subs, chan, buf, sent, dropped, stuck>>

\* Mutant: the read made before subscribing is trusted.
AfterSubscribeWaits == "waiting"
AfterSubscribe == "subscribed"

Subscribe(c) ==
  /\ stream[c] = "connected"
  /\ stream' = [stream EXCEPT ![c] = AfterSubscribe]
  /\ subs' = subs \cup {c}
  /\ chan' = [chan EXCEPT ![c] = "open"]
  /\ UNCHANGED <<status, run, buf, sent, dropped, stuck>>

\* The row is read again: anything but indexing is answered and is the end,
\* as is a read that fails.
Reread(c) ==
  /\ stream[c] = "subscribed"
  /\ \/ /\ status = "indexing"
        /\ stream' = [stream EXCEPT ![c] = "waiting"]
        /\ UNCHANGED <<subs, chan, buf, sent>>
     \/ /\ \E type \in {"error"} \cup {d \in {"done"} : status = "indexed"} :
             Send(c, FromRow(type))
        /\ Return(c)
  /\ UNCHANGED <<status, run, dropped, stuck>>

Receive(c) ==
  /\ stream[c] = "waiting" /\ buf[c] # <<>>
  /\ Send(c, Head(buf[c]))
  /\ IF Terminal(Head(buf[c])) THEN Return(c)
     ELSE /\ buf' = [buf EXCEPT ![c] = Tail(@)]
          /\ UNCHANGED <<stream, subs, chan>>
  /\ UNCHANGED <<status, run, dropped, stuck>>

\* The 15-minute timer: "indexing timed out".
TimeOut(c) ==
  /\ stream[c] = "waiting"
  /\ Send(c, FromRow("error"))
  /\ Return(c)
  /\ UNCHANGED <<status, run, dropped, stuck>>

\* The client goes away: a handler waiting in its select returns.
Disconnect(c) ==
  /\ stream[c] = "waiting"
  /\ Return(c)
  /\ UNCHANGED <<status, run, sent, dropped, stuck>>

\* The process starts again: the connections break, ResetStuckIndexing runs,
\* and startup goes on when it fails.
Restart ==
  /\ \/ /\ status' = IF status = "indexing" THEN "error" ELSE status
        /\ stuck' = FALSE
     \/ WriteFails /\ stuck' = (status = "indexing") /\ UNCHANGED status
  /\ run' = [r \in Runs |-> IF run[r].pc = "idle" THEN run[r]
                            ELSE [run[r] EXCEPT !.pc = "ended"]]
  /\ subs' = {}
  /\ chan' = [c \in Streams |-> IF stream[c] = "new" THEN "none" ELSE "closed"]
  /\ buf' = [c \in Streams |-> <<>>]
  /\ stream' = [c \in Streams |-> IF stream[c] = "new" THEN "new" ELSE "closed"]
  /\ UNCHANGED <<sent, dropped>>

RunStep(r) == Launch(r) \/ ProcessFile(r) \/ EndPipeline(r) \/ Settle(r) \/ Announce(r)
StreamStep(c) == Connect(c) \/ Subscribe(c) \/ Reread(c) \/ Receive(c)

Next ==
  \/ \E r \in Runs : RunStep(r) \/ Claim(r)
  \/ \E c \in Streams : StreamStep(c) \/ TimeOut(c) \/ Disconnect(c)
  \/ DeleteSource
  \/ Restart

Spec == Init /\ [][Next]_vars

\* A request launches its run or fails, runs end (their context does it) and a handler with an event takes it.
\* Neither the timer nor the client is counted on.
FairSpec == Spec /\ \A r \in Runs : WF_vars(RunStep(r))
                 /\ \A c \in Streams : WF_vars(Reread(c)) /\ WF_vars(Receive(c))

-----------------------------------------------------------------------------
(* Properties.                                                             *)

TypeOK ==
  /\ status \in {"indexing", "indexed", "error", "deleted"}
  /\ run \in [Runs -> RunState]
  /\ subs \subseteq Streams
  /\ chan \in [Streams -> {"none", "open", "closed"}]
  /\ \A c \in Streams : /\ \A i \in DOMAIN buf[c] : buf[c][i] \in Event
                        /\ \A i \in DOMAIN sent[c] : sent[c][i] \in Event
                        /\ Len(buf[c]) <= SubBufSize
  /\ stream \in [Streams -> {"new", "connected", "subscribed", "waiting", "closed"}]
  /\ dropped \subseteq Streams /\ stuck \in BOOLEAN

\* The bus sends to the channels of live handlers and to no other: a send to a
\* closed channel would panic the process, one left behind would fill for
\* nobody (Subscribe and its cancel, bus.go:41-66).
BusMatchesStreams ==
  subs = {c \in Streams : chan[c] = "open"}
    /\ subs = {c \in Streams : stream[c] \in {"subscribed", "waiting"}}

\* A run that has not announced its end yet, its launch still to come included.
Publishing(r) == run[r].pc \in {"launch", "files", "settle", "announce"}

\* Subscribing before the re-read closes the race with a run that ends in
\* between (handler.go:480-481): a handler that decided to wait has its
\* terminal event before it, in its channel or in a run still to announce,
\* unless its full channel dropped it or the row is stuck: the status write of
\* the last run failed, or the reset of startup did, or the request that
\* inserted or claimed the row failed before it launched a run.
WaitingIsServed ==
  \A c \in Streams \ dropped : stream[c] = "waiting" /\ ~stuck =>
    \/ \E i \in DOMAIN buf[c] : Terminal(buf[c][i])
    \/ \E r \in Runs : Publishing(r)

\* What was told of a run goes on file by file, up to the last one if the run
\* then said done.
Unbroken(h) ==
  \A i, j \in DOMAIN h :
    LET Through(last) ==
          \A n \in h[i].file..last : \E k \in i..j : h[k] = FileEvent(h[i].run, n) IN
    i < j /\ h[i].type = "indexing" /\ h[j].run = h[i].run =>
      /\ h[j].type = "indexing" => h[i].file < h[j].file /\ Through(h[j].file)
      /\ h[j].type = "done" => Through(Files)

\* The file events a client got from one run have no hole and end, when the
\* run's done arrives, with its last file; a hole means the channel was full.
NoGaps == \A c \in Streams \ dropped : Unbroken(sent[c])

\* Every handler that waits returns without the help of its timer, unless its
\* channel was full or nothing will end `indexing` (StreamStatus "terminates with
\* done or error").
WaitingEnds ==
  \A c \in Streams :
    stream[c] = "waiting" ~> (stream[c] = "closed" \/ c \in dropped \/ stuck)

\* The timer speaks only for a source that is stuck: "Timeout guards against a
\* source stuck in indexing" (handler.go:506).
TimesOutOnlyWhenStuck ==
  [][\A c \in Streams : TimeOut(c) =>
       status = "indexing" \/ (\E r \in Runs : Publishing(r)) \/ buf[c] # <<>>]_vars

\* The runs here go through the lifecycle package sources promises.
worker == [s \in {Source} |->
  IF \E r \in Runs : run[r].pc \in {"launch", "files", "settle"} THEN "busy" ELSE "free"]
Lifecycle == INSTANCE SourceLifecycle
  WITH Sources <- {Source}, status <- [s \in {Source} |-> status]
LifecycleSteps == [][Lifecycle!Next]_Lifecycle!vars
=============================================================================
