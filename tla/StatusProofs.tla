---------------------------- MODULE StatusProofs ----------------------------
(***************************************************************************)
(* What is proved of StatusStream for any number of connections, runs and  *)
(* files, any capacity of a channel, and status writes that may fail.      *)
(***************************************************************************)
EXTENDS StatusStream, SequenceTheorems, TLAPS

USE StatusStreamAssumption DEF StatusStreamAssumption

-----------------------------------------------------------------------------
(* The bus.                                                                 *)

Subscribed == {"subscribed", "waiting"}
StreamPc == {"new", "connected", "subscribed", "waiting", "closed"}

\* A connection by itself: it is subscribed while its channel is open.
Wired ==
  /\ subs \subseteq Streams
  /\ stream \in [Streams -> StreamPc]
  /\ chan \in [Streams -> {"none", "open", "closed"}]
  /\ \A c \in Streams : /\ c \in subs <=> chan[c] = "open"
                        /\ c \in subs <=> stream[c] \in Subscribed

LEMMA InitWired == Init => Wired
BY DEF Init, Wired, StreamPc, Subscribed

LEMMA ReturnWired == ASSUME Wired, NEW c \in Streams, Return(c) PROVE Wired'
BY DEF Wired, Return, SubsWithout, StreamPc, Subscribed

LEMMA NextWired == Wired /\ [Next]_vars => Wired'
<1> SUFFICES ASSUME Wired, [Next]_vars PROVE Wired'
  OBVIOUS
<1>1. ASSUME NEW r \in Runs, RunStep(r) \/ Claim(r) PROVE Wired'
  BY <1>1 DEF RunStep, Launch, ProcessFile, EndPipeline, Settle, Announce, Claim, Wired
<1>2. ASSUME NEW c \in Streams, Connect(c) PROVE Wired'
  BY <1>2 DEF Connect, Wired, StreamPc, Subscribed
<1>3. ASSUME NEW c \in Streams, Subscribe(c) PROVE Wired'
  BY <1>3 DEF Subscribe, AfterSubscribe, Wired, StreamPc, Subscribed
<1>4. ASSUME NEW c \in Streams, Reread(c) PROVE Wired'
  <2>1. CASE Return(c)
    BY <2>1, ReturnWired
  <2>2. CASE /\ stream[c] = "subscribed"
             /\ stream' = [stream EXCEPT ![c] = "waiting"]
             /\ UNCHANGED <<subs, chan>>
    BY <2>2 DEF Wired, StreamPc, Subscribed
  <2> QED
    BY <1>4, <2>1, <2>2 DEF Reread
<1>5. ASSUME NEW c \in Streams, Receive(c) PROVE Wired'
  <2>1. CASE Return(c)
    BY <2>1, ReturnWired
  <2>2. CASE UNCHANGED <<stream, subs, chan>>
    BY <2>2 DEF Wired
  <2> QED
    BY <1>5, <2>1, <2>2 DEF Receive
<1>6. ASSUME NEW c \in Streams, TimeOut(c) \/ Disconnect(c) PROVE Wired'
  BY <1>6, ReturnWired DEF TimeOut, Disconnect
<1>7. CASE DeleteSource
  BY <1>7 DEF DeleteSource, Wired
<1>8. CASE Restart
  BY <1>8 DEF Restart, Wired, StreamPc, Subscribed
<1>9. CASE UNCHANGED vars
  BY <1>9 DEF vars, Wired
<1> QED
  BY <1>1, <1>2, <1>3, <1>4, <1>5, <1>6, <1>7, <1>8, <1>9 DEF Next, StreamStep

\* Subscribe, the deferred cancel and a restart keep the bus and the handlers in
\* step: publish never sends to a closed channel, and no channel is left behind.
THEOREM BusIsWired == Spec => []BusMatchesStreams
<1>1. Wired => BusMatchesStreams
  BY DEF Wired, BusMatchesStreams, Subscribed
<1> QED
  BY InitWired, NextWired, <1>1, PTL DEF Spec

-----------------------------------------------------------------------------
(* The runs and the row.                                                    *)

Working(r) == run[r].pc \in {"launch", "files", "settle"}

RunsOK ==
  /\ run \in [Runs -> RunState]
  /\ \A r \in Runs : run[r].pc \in {"settle", "announce"} => run[r].verdict # "none"

\* One run works on the source, and its row then reads indexing or is gone; a
\* row that reads indexing has such a run unless it is stuck.
Owned ==
  /\ status \in {"indexing", "indexed", "error", "deleted"}
  /\ stuck \in BOOLEAN
  /\ \A r, o \in Runs : Working(r) /\ Working(o) => r = o
  /\ (\E r \in Runs : Working(r)) => status \in {"indexing", "deleted"}
  /\ status = "indexing" /\ ~stuck => \E r \in Runs : Working(r)

LEMMA InitOwned == Init => RunsOK /\ Owned
<1> SUFFICES ASSUME Init PROVE RunsOK /\ Owned
  OBVIOUS
<1>1. 1 \in Runs
  BY DEF Runs
<1>2. RunsOK
  BY DEF Init, RunsOK, RunState
<1>3. Owned
  BY <1>1 DEF Init, Owned, Working
<1> QED
  BY <1>2, <1>3

LEMMA NextRuns == RunsOK /\ [Next]_vars => RunsOK'
<1> SUFFICES ASSUME RunsOK, [Next]_vars PROVE RunsOK'
  OBVIOUS
<1>1. ASSUME NEW r \in Runs, ProcessFile(r) PROVE RunsOK'
  <2>1. run[r].file + 1 \in 0..Files
    BY <1>1 DEF ProcessFile, RunsOK, RunState
  <2> QED
    BY <1>1, <2>1 DEF ProcessFile, RunsOK, RunState
<1>2. ASSUME NEW r \in Runs, EndPipeline(r) PROVE RunsOK'
  <2>1. PICK v \in {"done", "error"} :
          run' = [run EXCEPT ![r].pc = "settle", ![r].verdict = v]
    BY <1>2 DEF EndPipeline
  <2> QED
    BY <2>1 DEF RunsOK, RunState
<1>3. ASSUME NEW r \in Runs, Settle(r) PROVE RunsOK'
  BY <1>3 DEF Settle, RunsOK, RunState
<1>4. ASSUME NEW r \in Runs, Announce(r) PROVE RunsOK'
  BY <1>4 DEF Announce, RunsOK, RunState
<1>5. ASSUME NEW r \in Runs, Claim(r) PROVE RunsOK'
  BY <1>5 DEF Claim, RunsOK, RunState
<1>6. ASSUME NEW r \in Runs, Launch(r) PROVE RunsOK'
  BY <1>6 DEF Launch, RunsOK, RunState
<1>7. CASE Restart
  BY <1>7 DEF Restart, RunsOK, RunState
<1>8. CASE UNCHANGED run
  BY <1>8 DEF RunsOK
<1> QED
  BY <1>1, <1>2, <1>3, <1>4, <1>5, <1>6, <1>7, <1>8
  DEF Next, RunStep, StreamStep, Connect, Subscribe, Reread, Receive, TimeOut,
      Disconnect, DeleteSource, vars

LEMMA NextOwned == RunsOK /\ Owned /\ [Next]_vars => Owned'
<1> SUFFICES ASSUME RunsOK, Owned, [Next]_vars PROVE Owned'
  OBVIOUS
<1> USE DEF Working
<1>1. ASSUME NEW r \in Runs, ProcessFile(r) PROVE Owned'
  BY <1>1 DEF ProcessFile, Owned, RunsOK, RunState
<1>2. ASSUME NEW r \in Runs, EndPipeline(r) PROVE Owned'
  BY <1>2 DEF EndPipeline, Owned, RunsOK, RunState
<1>3. ASSUME NEW r \in Runs, Settle(r) PROVE Owned'
  <2>1. \A o \in Runs : ~Working(o)'
    BY <1>3 DEF Settle, Owned, RunsOK, RunState
  <2>2. status' \in {"indexed", "error", "deleted"} \/ (status' = status /\ stuck')
          \/ (status' = status /\ status # "indexing")
    BY <1>3 DEF Settle, Owned
  <2>3. stuck' \in BOOLEAN
    BY <1>3 DEF Settle, Owned
  <2> QED
    BY <2>1, <2>2, <2>3 DEF Owned
<1>4. ASSUME NEW r \in Runs, Announce(r) PROVE Owned'
  BY <1>4 DEF Announce, Owned, RunsOK, RunState
<1>5. ASSUME NEW r \in Runs, Claim(r) PROVE Owned'
  <2>1. \A o \in Runs : ~Working(o)
    BY <1>5 DEF Claim, Claimable, Owned
  <2>2. \A o \in Runs : Working(o)' <=> o = r
    BY <1>5, <2>1 DEF Claim, RunsOK, RunState
  <2> QED
    BY <1>5, <2>2 DEF Claim, Owned
<1>6. CASE Restart
  <2>1. \A o \in Runs : ~Working(o)'
    BY <1>6 DEF Restart, RunsOK, RunState
  <2>2. stuck' \in BOOLEAN /\ status' \in {"indexing", "indexed", "error", "deleted"}
        /\ (status' = "indexing" => stuck')
    BY <1>6 DEF Restart, Owned
  <2> QED
    BY <2>1, <2>2 DEF Owned
<1>7. CASE DeleteSource
  BY <1>7 DEF DeleteSource, Owned
<1>8. CASE UNCHANGED <<status, run, stuck>>
  BY <1>8 DEF Owned
<1>9. ASSUME NEW r \in Runs, Launch(r) PROVE Owned'
  <2>1. CASE run' = [run EXCEPT ![r].pc = "files"] /\ UNCHANGED stuck
    BY <1>9, <2>1 DEF Launch, Owned, RunsOK, RunState
  <2>2. CASE run' = [run EXCEPT ![r].pc = "ended"] /\ stuck' = TRUE
    <3>1. \A o \in Runs : ~Working(o)'
      BY <1>9, <2>2 DEF Launch, Owned, RunsOK, RunState
    <3> QED
      BY <1>9, <2>2, <3>1 DEF Launch, Owned
  <2> QED
    BY <1>9, <2>1, <2>2 DEF Launch
<1> QED
  BY <1>1, <1>2, <1>3, <1>4, <1>5, <1>6, <1>7, <1>8, <1>9
  DEF Next, RunStep, StreamStep, Connect, Subscribe, Reread, Receive, TimeOut,
      Disconnect, vars

-----------------------------------------------------------------------------
(* What a waiting handler has before it.                                    *)

HasEnd(c) == \E i \in DOMAIN buf[c] : Terminal(buf[c][i])

\* An event of a file names its run.
Told == {e \in Event : e.type = "indexing" => e.run \in Runs}

Buffered == buf \in [Streams -> Seq(Told)]

Served ==
  \A c \in Streams : stream[c] = "waiting" /\ c \notin dropped /\ ~stuck =>
    HasEnd(c) \/ \E r \in Runs : Publishing(r)

LEMMA PublishBuffered ==
  ASSUME Buffered, NEW e \in Told, Publish(e) PROVE Buffered'
BY DEF Buffered, Publish

\* What is in a channel stays there, and what is published gets into each
\* channel of the bus or marks its stream.
LEMMA PublishReaches ==
  ASSUME Buffered, NEW e \in Told, Publish(e), NEW c \in Streams
  PROVE  /\ c \notin dropped' => c \notin dropped
         /\ HasEnd(c) => HasEnd(c)'
         /\ c \in subs /\ c \notin dropped' /\ Terminal(e) => HasEnd(c)'
<1>1. c \notin dropped' => c \notin dropped /\ c \notin Full
  BY DEF Publish
<1>2. buf[c] \in Seq(Told)
  BY DEF Buffered
<1>3. buf'[c] = IF c \in subs \ Full THEN Append(buf[c], e) ELSE buf[c]
  BY DEF Publish
<1>4. CASE c \in subs \ Full
  <2>1. buf'[c] = Append(buf[c], e)
    BY <1>3, <1>4
  <2>2. Len(buf[c]) + 1 \in DOMAIN buf'[c] /\ buf'[c][Len(buf[c]) + 1] = e
    BY <1>2, <2>1
  <2>3. \A i \in DOMAIN buf[c] : i \in DOMAIN buf'[c] /\ buf'[c][i] = buf[c][i]
    BY <1>2, <2>1
  <2> QED
    BY <1>1, <2>2, <2>3 DEF HasEnd
<1>5. CASE c \notin subs \ Full
  BY <1>1, <1>3, <1>5 DEF HasEnd
<1> QED
  BY <1>4, <1>5

LEMMA NextBuffered == RunsOK /\ Buffered /\ [Next]_vars => Buffered'
<1> SUFFICES ASSUME RunsOK, Buffered, [Next]_vars PROVE Buffered'
  OBVIOUS
<1>1. ASSUME NEW r \in Runs, ProcessFile(r) PROVE Buffered'
  <2>1. FileEvent(r, FileNumber(r)) \in Told
    BY <1>1 DEF ProcessFile, FileNumber, FileEvent, Told, Event, RunsOK, RunState, Runs
  <2> QED
    BY <1>1, <2>1, PublishBuffered DEF ProcessFile
<1>2. ASSUME NEW r \in Runs, Announce(r) PROVE Buffered'
  <2>1. [type |-> run[r].verdict, run |-> r, file |-> 0] \in Told
    BY <1>2 DEF Announce, Told, Event, RunsOK, RunState, Runs
  <2> QED
    BY <1>2, <2>1, PublishBuffered DEF Announce, PublishEnd
<1>3. ASSUME NEW c \in Streams, Return(c) PROVE Buffered'
  BY <1>3 DEF Return, Buffered
<1>4. ASSUME NEW c \in Streams, Receive(c) PROVE Buffered'
  <2>1. CASE Return(c)
    BY <2>1, <1>3
  <2>2. CASE buf' = [buf EXCEPT ![c] = Tail(@)]
    <3>1. buf[c] \in Seq(Told) /\ buf[c] # <<>>
      BY <1>4 DEF Receive, Buffered
    <3> QED
      BY <2>2, <3>1 DEF Buffered
  <2> QED
    BY <1>4, <2>1, <2>2 DEF Receive
<1>5. CASE Restart
  BY <1>5 DEF Restart, Buffered
<1>6. CASE UNCHANGED buf
  BY <1>6 DEF Buffered
<1> QED
  BY <1>1, <1>2, <1>3, <1>4, <1>5, <1>6
  DEF Next, RunStep, Launch, EndPipeline, Settle, Claim, StreamStep, Connect, Subscribe, Reread,
      TimeOut, Disconnect, DeleteSource, vars

\* A step that leaves the streams and what they hold alone, and either keeps
\* somebody publishing or sticks the row.
LEMMA ServedKept ==
  ASSUME Served, UNCHANGED <<stream, buf, dropped>>, stuck \in BOOLEAN, ~stuck' => ~stuck,
         (\E r \in Runs : Publishing(r)) => (\E r \in Runs : Publishing(r)')
  PROVE  Served'
BY DEF Served, HasEnd

\* The handler of c returns: the others keep what they had.
LEMMA ServedReturn ==
  ASSUME Served, Wired, Buffered, NEW c \in Streams, Return(c), UNCHANGED <<run, dropped, stuck>>
  PROVE  Served'
<1> SUFFICES ASSUME NEW d \in Streams, stream'[d] = "waiting", d \notin dropped, ~stuck
             PROVE  HasEnd(d)' \/ \E r \in Runs : Publishing(r)'
  BY DEF Served
<1>1. d # c
  BY DEF Return, Wired
<1>2. stream[d] = "waiting" /\ buf'[d] = buf[d]
  BY <1>1 DEF Return, Wired, Buffered
<1> QED
  BY <1>2 DEF Served, HasEnd, Publishing

LEMMA NextServed ==
  RunsOK /\ Owned /\ Wired /\ Buffered /\ Served /\ [Next]_vars => Served'
<1> SUFFICES ASSUME RunsOK, Owned, Wired, Buffered, Served, [Next]_vars PROVE Served'
  OBVIOUS
<1>1. ASSUME NEW r \in Runs, ProcessFile(r) PROVE Served'
  <2>1. FileEvent(r, FileNumber(r)) \in Told
    BY <1>1 DEF ProcessFile, FileNumber, FileEvent, Told, Event, RunsOK, RunState, Runs
  <2>2. \A c \in Streams : (c \notin dropped' => c \notin dropped) /\ (HasEnd(c) => HasEnd(c)')
    BY <1>1, <2>1, PublishReaches DEF ProcessFile
  <2>3. Publishing(r)'
    BY <1>1 DEF ProcessFile, Publishing, RunsOK, RunState
  <2> QED
    BY <2>3 DEF Served
<1>2. ASSUME NEW r \in Runs, EndPipeline(r) PROVE Served'
  <2>1. Publishing(r)' /\ UNCHANGED <<stream, buf, dropped, stuck>>
    BY <1>2 DEF EndPipeline, Publishing, RunsOK, RunState
  <2> QED
    BY <2>1, ServedKept DEF Owned
<1>3. ASSUME NEW r \in Runs, Settle(r) PROVE Served'
  <2>1. Publishing(r)' /\ UNCHANGED <<stream, buf, dropped>>
    BY <1>3 DEF Settle, Publishing, RunsOK, RunState
  <2>2. ~stuck' => ~stuck
    BY <1>3 DEF Settle, Owned
  <2> QED
    BY <2>1, <2>2, ServedKept DEF Owned
<1>4. ASSUME NEW r \in Runs, Announce(r) PROVE Served'
  <2> DEFINE e == [type |-> run[r].verdict, run |-> r, file |-> 0]
  <2>1. e \in Told /\ Terminal(e)
    BY <1>4 DEF Announce, Told, Event, Terminal, RunsOK, RunState, Runs
  <2>2. Publish(e) /\ UNCHANGED <<stream, stuck>>
    BY <1>4 DEF Announce, PublishEnd
  <2> SUFFICES ASSUME NEW c \in Streams, stream'[c] = "waiting", c \notin dropped'
               PROVE  HasEnd(c)'
    BY DEF Served
  <2>3. c \in subs
    BY <2>2 DEF Wired, Subscribed
  <2> HIDE DEF e
  <2> QED
    BY <2>1, <2>2, <2>3, PublishReaches
<1>5. ASSUME NEW r \in Runs, Claim(r) PROVE Served'
  <2>1. Publishing(r)' /\ UNCHANGED <<stream, buf, dropped, stuck>>
    BY <1>5 DEF Claim, Publishing, RunsOK, RunState
  <2> QED
    BY <2>1, ServedKept DEF Owned
<1>6. ASSUME NEW c \in Streams, Connect(c) \/ Subscribe(c) PROVE Served'
  <2>1. /\ \A d \in Streams : stream'[d] = "waiting" => stream[d] = "waiting"
        /\ UNCHANGED <<run, buf, dropped, stuck>>
    BY <1>6 DEF Connect, Subscribe, AfterSubscribe, Wired
  <2> QED
    BY <2>1 DEF Served, HasEnd, Publishing
<1>7. ASSUME NEW c \in Streams, Reread(c) PROVE Served'
  <2>1. UNCHANGED <<run, dropped, stuck>>
    BY <1>7 DEF Reread
  <2>2. CASE Return(c)
    BY <2>1, <2>2, ServedReturn
  <2>3. CASE status = "indexing" /\ stream' = [stream EXCEPT ![c] = "waiting"] /\ UNCHANGED buf
    <3>1. ~stuck => \E r \in Runs : Publishing(r)'
      BY <2>1, <2>3 DEF Owned, Working, Publishing
    <3>2. \A d \in Streams \ {c} : stream'[d] = stream[d]
      BY <2>3 DEF Wired
    <3> QED
      BY <2>1, <2>3, <3>1, <3>2 DEF Served, HasEnd, Publishing
  <2> QED
    BY <1>7, <2>2, <2>3 DEF Reread
<1>8. ASSUME NEW c \in Streams, Receive(c) PROVE Served'
  <2>1. UNCHANGED <<run, dropped, stuck>>
    BY <1>8 DEF Receive
  <2>2. CASE Terminal(Head(buf[c]))
    BY <1>8, <2>1, <2>2, ServedReturn DEF Receive
  <2>3. CASE ~Terminal(Head(buf[c]))
    <3>1. buf' = [buf EXCEPT ![c] = Tail(@)] /\ UNCHANGED stream
      BY <1>8, <2>3 DEF Receive
    <3>2. buf[c] \in Seq(Told) /\ buf[c] # <<>>
      BY <1>8 DEF Receive, Buffered
    <3>3. \A d \in Streams \ {c} : buf'[d] = buf[d]
      BY <3>1 DEF Buffered
    <3>4. ASSUME HasEnd(c) PROVE HasEnd(c)'
      <4>1. PICK i \in DOMAIN buf[c] : Terminal(buf[c][i])
        BY <3>4 DEF HasEnd
      <4>2. i # 1
        BY <2>3, <3>2, <4>1
      <4>3. buf'[c] = Tail(buf[c])
        BY <3>1 DEF Buffered
      <4>4. i - 1 \in DOMAIN buf'[c] /\ buf'[c][i - 1] = buf[c][i]
        BY <3>2, <4>1, <4>2, <4>3
      <4> QED
        BY <4>1, <4>4 DEF HasEnd
    <3> QED
      BY <2>1, <3>1, <3>3, <3>4 DEF Served, HasEnd, Publishing
  <2> QED
    BY <2>2, <2>3
<1>9. ASSUME NEW c \in Streams, TimeOut(c) \/ Disconnect(c) PROVE Served'
  BY <1>9, ServedReturn DEF TimeOut, Disconnect
<1>10. CASE DeleteSource
  BY <1>10 DEF DeleteSource, Served, HasEnd, Publishing
<1>11. CASE Restart
  <2>1. \A c \in Streams : stream'[c] # "waiting"
    BY <1>11 DEF Restart
  <2> QED
    BY <2>1 DEF Served
<1>12. CASE UNCHANGED vars
  BY <1>12 DEF vars, Served, HasEnd, Publishing
<1>13. ASSUME NEW r \in Runs, Launch(r) PROVE Served'
  <2>1. CASE run' = [run EXCEPT ![r].pc = "files"] /\ UNCHANGED stuck
    <3>1. Publishing(r)' /\ UNCHANGED <<stream, buf, dropped, stuck>>
      BY <1>13, <2>1 DEF Launch, Publishing, RunsOK, RunState
    <3> QED
      BY <3>1, ServedKept DEF Owned
  <2>2. CASE stuck' = TRUE
    BY <2>2 DEF Served
  <2> QED
    BY <1>13, <2>1, <2>2 DEF Launch
<1> QED
  BY <1>1, <1>2, <1>3, <1>4, <1>5, <1>6, <1>7, <1>8, <1>9, <1>10, <1>11, <1>12, <1>13
  DEF Next, RunStep, StreamStep

\* Subscribing before the re-read leaves nobody waiting for an event that has
\* gone by: who waits has the terminal event in its channel or a run that has
\* yet to announce it, unless its channel was full or the row is stuck: a write
\* of the status failed, or the request that inserted or claimed the row failed
\* before it launched the run.
THEOREM WhoWaitsIsServed == Spec => []WaitingIsServed
<1> DEFINE IInv == RunsOK /\ Owned /\ Wired /\ Buffered /\ Served
<1>1. Init => IInv
  BY InitOwned, InitWired DEF Init, Buffered, Served
<1>2. IInv /\ [Next]_vars => IInv'
  BY NextRuns, NextOwned, NextWired, NextBuffered, NextServed
<1>3. IInv => WaitingIsServed
  BY DEF Served, WaitingIsServed, HasEnd
<1> QED
  BY <1>1, <1>2, <1>3, PTL DEF Spec

-----------------------------------------------------------------------------
(* The lifecycle.                                                           *)

Busy == \E r \in Runs : Working(r)

LEMMA WorkerIs ==
  /\ worker = [s \in {Source} |-> IF Busy THEN "busy" ELSE "free"]
  /\ worker' = [s \in {Source} |-> IF Busy' THEN "busy" ELSE "free"]
BY DEF worker, Busy, Working

LEMMA WorkerKept == UNCHANGED Busy => UNCHANGED worker
BY WorkerIs

LEMMA LifecycleStep ==
  RunsOK /\ Owned /\ [Next]_vars => [Lifecycle!Next]_Lifecycle!vars
<1> SUFFICES ASSUME RunsOK, Owned, [Next]_vars PROVE [Lifecycle!Next]_Lifecycle!vars
  OBVIOUS
<1> USE DEF Working
<1>1. UNCHANGED <<status, Busy>> => UNCHANGED Lifecycle!vars
  BY WorkerKept DEF Lifecycle!vars
<1>2. ASSUME NEW r \in Runs, ProcessFile(r) \/ EndPipeline(r) PROVE UNCHANGED <<status, Busy>>
  <2>1. Working(r) /\ Working(r)' /\ UNCHANGED status
    BY <1>2 DEF ProcessFile, EndPipeline, RunsOK, RunState
  <2> QED
    BY <2>1 DEF Busy
<1>3. ASSUME NEW r \in Runs, Announce(r) PROVE UNCHANGED <<status, Busy>>
  <2>1. UNCHANGED status /\ \A o \in Runs : Working(o)' <=> Working(o)
    BY <1>3 DEF Announce, RunsOK, RunState
  <2> QED
    BY <2>1 DEF Busy
<1>4. ASSUME NEW r \in Runs, Settle(r) PROVE Lifecycle!Settle(Source)
  <2>1. Busy /\ ~Busy'
    BY <1>3, <1>4 DEF Settle, Busy, Owned, RunsOK, RunState
  <2>2. status' = status \/ (status = "indexing" /\ status' \in {"indexed", "error"})
    BY <1>4, <2>1 DEF Settle, Owned, Busy
  <2> QED
    BY <2>1, <2>2, WorkerIs DEF Lifecycle!Settle
<1>5. ASSUME NEW r \in Runs, Claim(r) PROVE Lifecycle!Claim(Source)
  <2>1. ~Busy /\ status \in {"indexed", "error"} /\ status' = "indexing"
    BY <1>5 DEF Claim, Claimable, Owned, Busy
  <2>2. Busy'
    BY <1>5 DEF Claim, Busy, RunsOK, RunState
  <2> QED
    BY <2>1, <2>2, WorkerIs DEF Lifecycle!Claim
<1>6. CASE DeleteSource
  <2>1. status' = "deleted" /\ UNCHANGED Busy
    BY <1>6 DEF DeleteSource, Busy
  <2> QED
    BY <2>1, WorkerKept DEF Lifecycle!Next, Lifecycle!Remove, Owned
<1>7. CASE Restart
  <2>1. ~Busy'
    BY <1>7 DEF Restart, Busy, RunsOK, RunState
  <2>2. status' = status \/ status' = IF status = "indexing" THEN "error" ELSE status
    BY <1>7 DEF Restart
  <2> QED
    BY <2>1, <2>2, WorkerIs DEF Lifecycle!Next, Lifecycle!Restart
<1>8. CASE UNCHANGED <<status, run>>
  BY <1>1, <1>8 DEF Busy
<1>9. ASSUME NEW r \in Runs, Launch(r)
      PROVE  UNCHANGED <<status, Busy>> \/ Lifecycle!Settle(Source)
  <2>1. Busy /\ UNCHANGED status
    BY <1>9 DEF Launch, Busy
  <2>2. CASE Busy'
    BY <2>1, <2>2
  <2>3. CASE ~Busy'
    BY <2>1, <2>3, WorkerIs DEF Lifecycle!Settle
  <2> QED
    BY <2>2, <2>3
<1> QED
  BY <1>1, <1>2, <1>3, <1>4, <1>5, <1>6, <1>7, <1>8, <1>9
  DEF Next, RunStep, StreamStep, Connect, Subscribe, Reread, Receive, TimeOut,
      Disconnect, vars, Lifecycle!Next

\* The runs that publish go through the lifecycle package sources promises,
\* failed status writes and restarts included.
THEOREM RunsKeepLifecycle == Spec => LifecycleSteps
<1>1. Init => RunsOK /\ Owned
  BY InitOwned
<1>2. RunsOK /\ Owned /\ [Next]_vars => (RunsOK /\ Owned)'
  BY NextRuns, NextOwned
<1>3. RunsOK /\ Owned /\ [Next]_vars => [Lifecycle!Next]_Lifecycle!vars
  BY LifecycleStep
<1> QED
  BY <1>1, <1>2, <1>3, PTL DEF Spec, LifecycleSteps

-----------------------------------------------------------------------------
(* What a client hears, with what its channel still holds, goes on file by  *)
(* file: a channel in the bus has heard what a run told since it joined.    *)

Heard(c) == sent[c] \o buf[c]
Total(c) == Len(Heard(c))

\* The first n events of h.
UnbrokenTo(h, n) ==
  \A i, j \in 1..n :
    i < j /\ h[i].type = "indexing" /\ h[j].run = h[i].run =>
      /\ h[j].type = "indexing" =>
           /\ h[i].file < h[j].file
           /\ \A m \in h[i].file..h[j].file : \E k \in i..j : h[k] = FileEvent(h[i].run, m)
      /\ h[j].type = "done" =>
           \A m \in h[i].file..Files : \E k \in i..j : h[k] = FileEvent(h[i].run, m)

\* Whoever heard of a file of r heard of each one from there to the last.
UpToDate(h, n, r, last) ==
  \A i \in 1..n : h[i].type = "indexing" /\ h[i].run = r =>
    /\ h[i].file <= last
    /\ \A m \in h[i].file..last : \E k \in i..n : h[k] = FileEvent(r, m)

Verdicts ==
  \A r \in Runs : /\ run[r].pc \in {"idle", "launch", "files"} => run[r].verdict = "none"
                  /\ run[r].verdict = "done" => run[r].file = Files

Sent == sent \in [Streams -> Seq(Told)]

\* A connection hears nothing before it subscribes.
Silent ==
  \A c \in Streams : stream[c] \in {"new", "connected"} => sent[c] = <<>> /\ buf[c] = <<>>

Gapless ==
  \A c \in Streams \ dropped :
    /\ UnbrokenTo(Heard(c), Total(c))
    /\ c \in subs => \A r \in Runs : UpToDate(Heard(c), Total(c), r, run[r].file)

\* The beginning of an unbroken sequence is unbroken.
LEMMA UnbrokenPrefix ==
  ASSUME NEW h, NEW g, NEW n \in Nat, NEW m \in Nat, m <= n, UnbrokenTo(h, n),
         \A k \in 1..m : g[k] = h[k]
  PROVE  UnbrokenTo(g, m)
<1> SUFFICES ASSUME NEW i \in 1..m, NEW j \in 1..m, i < j, g[i].type = "indexing",
                    g[j].run = g[i].run
             PROVE  /\ g[j].type = "indexing" =>
                         /\ g[i].file < g[j].file
                         /\ \A x \in g[i].file..g[j].file :
                              \E k \in i..j : g[k] = FileEvent(g[i].run, x)
                    /\ g[j].type = "done" =>
                         \A x \in g[i].file..Files : \E k \in i..j : g[k] = FileEvent(g[i].run, x)
  BY DEF UnbrokenTo
<1>1. /\ i \in 1..n /\ j \in 1..n
      /\ \A k \in i..j : k \in 1..m
  OBVIOUS
<1>2. g[i] = h[i] /\ g[j] = h[j] /\ \A k \in i..j : g[k] = h[k]
  BY <1>1
<1>3. /\ h[j].type = "indexing" =>
           /\ h[i].file < h[j].file
           /\ \A x \in h[i].file..h[j].file : \E k \in i..j : h[k] = FileEvent(h[i].run, x)
      /\ h[j].type = "done" =>
           \A x \in h[i].file..Files : \E k \in i..j : h[k] = FileEvent(h[i].run, x)
  BY <1>1, <1>2 DEF UnbrokenTo
<1> QED
  BY <1>2, <1>3

\* One more event keeps it unbroken if it is an end without a claim, or who heard
\* of a file of its run heard of all up to it.
LEMMA UnbrokenAppend ==
  ASSUME NEW h, NEW g, NEW n \in Nat, UnbrokenTo(h, n),
         \A k \in 1..n : g[k] = h[k] /\ h[k] \in Told,
         NEW e \in Told, g[n + 1] = e,
         \A i \in 1..n : h[i].type = "indexing" /\ h[i].run = e.run =>
           /\ e.type = "indexing" =>
                /\ h[i].file < e.file
                /\ \A x \in h[i].file..(e.file - 1) :
                     \E k \in i..n : h[k] = FileEvent(e.run, x)
           /\ e.type = "done" =>
                \A x \in h[i].file..Files : \E k \in i..n : h[k] = FileEvent(e.run, x)
  PROVE  UnbrokenTo(g, n + 1)
<1> SUFFICES ASSUME NEW i \in 1..(n + 1), NEW j \in 1..(n + 1), i < j,
                    g[i].type = "indexing", g[j].run = g[i].run
             PROVE  /\ g[j].type = "indexing" =>
                         /\ g[i].file < g[j].file
                         /\ \A x \in g[i].file..g[j].file :
                              \E k \in i..j : g[k] = FileEvent(g[i].run, x)
                    /\ g[j].type = "done" =>
                         \A x \in g[i].file..Files : \E k \in i..j : g[k] = FileEvent(g[i].run, x)
  BY DEF UnbrokenTo
<1>1. i \in 1..n /\ g[i] = h[i]
  OBVIOUS
<1>2. CASE j \in 1..n
  <2>1. UnbrokenTo(g, n)
    BY UnbrokenPrefix
  <2> QED
    BY ONLY <1>1, <1>2, <2>1, i < j, g[i].type = "indexing", g[j].run = g[i].run
       DEF UnbrokenTo
<1>3. CASE j = n + 1
  <2>1. /\ g[j] = e /\ e.run = h[i].run
        /\ \A k \in i..n : k \in i..j /\ g[k] = h[k]
        /\ j \in i..j
    BY <1>1, <1>3
  <2>2. ASSUME e.type = "indexing"
        PROVE  /\ g[i].file < g[j].file
               /\ \A x \in g[i].file..g[j].file : \E k \in i..j : g[k] = FileEvent(g[i].run, x)
    <3>1. e = FileEvent(e.run, e.file) /\ e.file \in Nat
      BY <2>2 DEF Told, Event, FileEvent
    <3>2. h[i].file < e.file /\ h[i].file \in Nat
      BY <1>1, <2>1, <2>2 DEF Told, Event
    <3>3. ASSUME NEW x \in h[i].file..e.file
          PROVE  \E k \in i..j : g[k] = FileEvent(h[i].run, x)
      <4>1. CASE x = e.file
        BY <2>1, <3>1, <4>1
      <4>2. CASE x # e.file
        <5>1. x \in h[i].file..(e.file - 1)
          BY <3>1, <3>2, <3>3, <4>2
        <5>2. PICK k \in i..n : h[k] = FileEvent(e.run, x)
          BY <1>1, <2>1, <2>2, <5>1
        <5> QED
          BY <2>1, <5>2
      <4> QED
        BY <4>1, <4>2
    <3> QED
      BY <1>1, <2>1, <3>2, <3>3
  <2>3. ASSUME e.type = "done", NEW x \in h[i].file..Files
        PROVE  \E k \in i..j : g[k] = FileEvent(h[i].run, x)
    <3>1. PICK k \in i..n : h[k] = FileEvent(e.run, x)
      BY <1>1, <2>1, <2>3
    <3> QED
      BY <2>1, <3>1
  <2> QED
    BY <1>1, <2>1, <2>2, <2>3
<1> QED
  BY <1>2, <1>3

\* An event that is not the run's next file takes nothing from what was heard of it.
LEMMA UpToDateAppend ==
  ASSUME NEW h, NEW g, NEW n \in Nat, NEW r, NEW last, UpToDate(h, n, r, last),
         \A k \in 1..n : g[k] = h[k],
         g[n + 1].type = "indexing" => g[n + 1].run # r
  PROVE  UpToDate(g, n + 1, r, last)
<1> SUFFICES ASSUME NEW i \in 1..(n + 1), g[i].type = "indexing", g[i].run = r
             PROVE  /\ g[i].file <= last
                    /\ \A m \in g[i].file..last :
                         \E k \in i..(n + 1) : g[k] = FileEvent(r, m)
  BY DEF UpToDate
<1>1. i \in 1..n /\ g[i] = h[i]
  OBVIOUS
<1>2. \A k \in i..n : k \in i..(n + 1) /\ g[k] = h[k]
  BY <1>1
<1>3. /\ h[i].file <= last
      /\ \A m \in h[i].file..last : \E k \in i..n : h[k] = FileEvent(r, m)
  BY <1>1 DEF UpToDate
<1> QED
  BY <1>1, <1>2, <1>3

\* The next file of a run goes on with what was heard of it.
LEMMA NextFile ==
  ASSUME NEW h, NEW g, NEW n \in Nat, NEW r, NEW f \in Nat,
         UnbrokenTo(h, n), UpToDate(h, n, r, f),
         \A k \in 1..n : g[k] = h[k] /\ h[k] \in Told,
         FileEvent(r, f + 1) \in Told, g[n + 1] = FileEvent(r, f + 1)
  PROVE  UnbrokenTo(g, n + 1) /\ UpToDate(g, n + 1, r, f + 1)
<1> DEFINE e == FileEvent(r, f + 1)
<1>1. e \in Told /\ g[n + 1] = e /\ e.type = "indexing" /\ e.run = r /\ e.file = f + 1
  BY DEF FileEvent
<1>2. \A i \in 1..n : h[i].type = "indexing" /\ h[i].run = r =>
        /\ h[i].file \in Nat /\ h[i].file <= f
        /\ \A x \in h[i].file..f : \E k \in i..n : h[k] = FileEvent(r, x)
  BY DEF UpToDate, Told, Event
<1> HIDE DEF e
<1>3. \A i \in 1..n : h[i].type = "indexing" /\ h[i].run = e.run =>
        /\ e.type = "indexing" =>
             /\ h[i].file < e.file
             /\ \A x \in h[i].file..(e.file - 1) : \E k \in i..n : h[k] = FileEvent(e.run, x)
        /\ e.type = "done" =>
             \A x \in h[i].file..Files : \E k \in i..n : h[k] = FileEvent(e.run, x)
  <2>1. e.file - 1 = f /\ \A x \in Nat : x <= f => x < e.file
    BY ONLY <1>1, f \in Nat
  <2> QED
    BY ONLY <1>1, <1>2, <2>1
<1>4. UnbrokenTo(g, n + 1)
  BY <1>1, <1>3, UnbrokenAppend
<1>5. ASSUME NEW i \in 1..(n + 1), g[i].type = "indexing", g[i].run = r
      PROVE  /\ g[i].file <= f + 1
             /\ \A m \in g[i].file..(f + 1) : \E k \in i..(n + 1) : g[k] = FileEvent(r, m)
  <2>1. CASE i = n + 1
    <3>1. \A m \in (f + 1)..(f + 1) : m = f + 1
      OBVIOUS
    <3> QED
      BY <1>1, <2>1, <3>1 DEF e
  <2>2. CASE i \in 1..n
    <3>1. /\ g[i] = h[i] /\ n + 1 \in i..(n + 1)
          /\ \A k \in i..n : k \in i..(n + 1) /\ k \in 1..n
      BY <2>2
    <3>2. /\ h[i].file \in Nat /\ h[i].file <= f
          /\ \A x \in h[i].file..f : \E k \in i..n : h[k] = FileEvent(r, x)
      BY <1>2, <1>5, <2>2, <3>1
    <3>3. \A m \in h[i].file..(f + 1) : m = f + 1 \/ m \in h[i].file..f
      BY <3>2
    <3> QED
      BY <3>1, <3>2, <3>3
  <2> QED
    BY <2>1, <2>2
<1> QED
  BY <1>4, <1>5 DEF UpToDate

\* The end of a run, done after its last file only, breaks nothing.
LEMMA EndOfRun ==
  ASSUME NEW h, NEW g, NEW n \in Nat, NEW f, NEW e \in Told,
         UnbrokenTo(h, n), UpToDate(h, n, e.run, f),
         \A k \in 1..n : g[k] = h[k] /\ h[k] \in Told,
         g[n + 1] = e, e.type # "indexing", e.type = "done" => f = Files
  PROVE  UnbrokenTo(g, n + 1)
<1>1. \A i \in 1..n : h[i].type = "indexing" /\ h[i].run = e.run =>
        /\ e.type = "indexing" =>
             /\ h[i].file < e.file
             /\ \A x \in h[i].file..(e.file - 1) : \E k \in i..n : h[k] = FileEvent(e.run, x)
        /\ e.type = "done" =>
             \A x \in h[i].file..Files : \E k \in i..n : h[k] = FileEvent(e.run, x)
  BY DEF UpToDate
<1> QED
  BY <1>1, UnbrokenAppend

\* Three facts on sequences: one more at the end, the head moved over, a start.
LEMMA AppendRight ==
  ASSUME NEW S, NEW s \in Seq(S), NEW b \in Seq(S), NEW e \in S,
         NEW h, NEW g, h = s \o b, g = s \o Append(b, e)
  PROVE  /\ Len(g) = Len(h) + 1
         /\ \A k \in 1..Len(h) : g[k] = h[k]
         /\ g[Len(h) + 1] = e
<1> DEFINE a == Append(b, e)
<1>1. PICK m \in Nat, n \in Nat : m = Len(s) /\ n = Len(b)
  BY LenProperties
<1>2. /\ a \in Seq(S) /\ Len(a) = n + 1
      /\ \A k \in 1..n : a[k] = b[k]
      /\ a[n + 1] = e
  BY <1>1, AppendProperties
<1>3. /\ Len(h) = m + n
      /\ \A k \in 1..(m + n) : h[k] = IF k <= m THEN s[k] ELSE b[k - m]
  BY ONLY <1>1, s \in Seq(S), b \in Seq(S), h = s \o b, ConcatProperties
<1>g. g = s \o a
  OBVIOUS
<1> HIDE DEF a
<1>4. /\ Len(g) = Len(s) + Len(a)
      /\ \A k \in 1..Len(s) + Len(a) : g[k] = IF k <= Len(s) THEN s[k] ELSE a[k - Len(s)]
  <2>1. a \in Seq(S)
    BY <1>2
  <2> QED
    BY ONLY <1>g, <2>1, s \in Seq(S), ConcatProperties, Zenon
<1>7. /\ Len(h) = m + n /\ Len(g) = m + (n + 1)
      /\ \A k \in 1..(m + n) : h[k] = IF k <= m THEN s[k] ELSE b[k - m]
      /\ \A k \in 1..(m + (n + 1)) : g[k] = IF k <= m THEN s[k] ELSE a[k - m]
      /\ \A k \in 1..n : a[k] = b[k]
      /\ a[n + 1] = e
  BY ONLY <1>1, <1>2, <1>3, <1>4
<1>8. ASSUME NEW k \in 1..(m + n)
      PROVE  g[k] = h[k]
  <2>1. k \in 1..(m + (n + 1)) /\ (~ (k <= m) => k - m \in 1..n)
    BY ONLY m \in Nat, n \in Nat, k \in 1..(m + n)
  <2> QED
    BY ONLY <1>7, <1>8, <2>1
<1>9. g[m + n + 1] = e
  <2>1. m + n + 1 \in 1..(m + (n + 1)) /\ ~ (m + n + 1 <= m) /\ m + n + 1 - m = n + 1
    BY ONLY m \in Nat, n \in Nat
  <2> QED
    BY ONLY <1>7, <2>1
<1>10. Len(g) = Len(h) + 1 /\ (\A k \in 1..Len(h) : g[k] = h[k]) /\ g[Len(h) + 1] = e
  BY ONLY <1>7, <1>8, <1>9, m \in Nat, n \in Nat
<1> QED
  BY ONLY <1>10

LEMMA MoveHead ==
  ASSUME NEW S, NEW s \in Seq(S), NEW b \in Seq(S), b # <<>>
  PROVE  Append(s, Head(b)) \o Tail(b) = s \o b
<1>1. Head(b) \in S /\ Tail(b) \in Seq(S) /\ <<Head(b)>> \in Seq(S)
  BY HeadTailProperties
<1>2. Append(s, Head(b)) = s \o <<Head(b)>>
  BY <1>1, AppendIsConcat
<1>3. <<Head(b)>> \o Tail(b) = b
  BY <1>1, SubSeqRecursiveFirst, SubSeqFull, TailIsSubSeq, LenProperties, EmptySeq
<1> QED
  BY <1>1, <1>2, <1>3, ConcatAssociative

LEMMA StartOf ==
  ASSUME NEW S, NEW s \in Seq(S), NEW b \in Seq(S)
  PROVE  /\ Len(s) \in Nat /\ Len(s \o b) \in Nat /\ Len(s) <= Len(s \o b)
         /\ \A k \in 1..Len(s) : (s \o b)[k] = s[k]
<1>1. PICK m \in Nat, n \in Nat : m = Len(s) /\ n = Len(b)
  BY LenProperties
<1>2. /\ Len(s \o b) = m + n
      /\ \A k \in 1..(m + n) : (s \o b)[k] = IF k <= m THEN s[k] ELSE b[k - m]
  BY ONLY <1>1, s \in Seq(S), b \in Seq(S), ConcatProperties
<1> DEFINE h == s \o b
<1> HIDE DEF h
<1>3. Len(h) = m + n /\ \A k \in 1..(m + n) : h[k] = IF k <= m THEN s[k] ELSE b[k - m]
  BY <1>2 DEF h
<1>4. m <= Len(h) /\ Len(h) \in Nat /\ \A k \in 1..m : h[k] = s[k]
  BY ONLY <1>3, m \in Nat, n \in Nat
<1> QED
  BY ONLY <1>1, <1>4 DEF h

LEMMA HeardType ==
  ASSUME Buffered, Sent, NEW c \in Streams
  PROVE  /\ sent[c] \in Seq(Told) /\ buf[c] \in Seq(Told)
         /\ Heard(c) \in Seq(Told) /\ Total(c) \in Nat
         /\ \A k \in 1..Total(c) : Heard(c)[k] \in Told
<1>1. sent[c] \in Seq(Told) /\ buf[c] \in Seq(Told)
  BY DEF Buffered, Sent
<1>2. Heard(c) \in Seq(Told)
  BY <1>1, ConcatProperties DEF Heard
<1> QED
  BY <1>1, <1>2, LenProperties, ElementOfSeq DEF Total

\* What is published is heard by each channel of the bus, or marks its stream.
LEMMA PublishHeard ==
  ASSUME Buffered, Sent, NEW e \in Told, Publish(e), UNCHANGED sent, NEW c \in Streams
  PROVE  /\ c \notin dropped' => c \notin dropped
         /\ c \in subs /\ c \notin dropped' =>
              /\ Total(c)' = Total(c) + 1
              /\ \A k \in 1..Total(c) : Heard(c)'[k] = Heard(c)[k]
              /\ Heard(c)'[Total(c) + 1] = e
         /\ c \notin subs => Total(c)' = Total(c) /\ Heard(c)' = Heard(c)
<1>1. c \notin dropped' => c \notin dropped /\ c \notin Full
  BY DEF Publish
<1>2. buf'[c] = IF c \in subs \ Full THEN Append(buf[c], e) ELSE buf[c]
  BY DEF Publish
<1>3. sent[c] \in Seq(Told) /\ buf[c] \in Seq(Told)
  BY HeardType
<1>4. CASE c \in subs \ Full
  <2> DEFINE h == Heard(c)
             g == Heard(c)'
  <2>1. h = sent[c] \o buf[c] /\ g = sent[c] \o Append(buf[c], e)
    BY <1>2, <1>4 DEF Heard
  <2>2. /\ Len(g) = Len(h) + 1
        /\ \A k \in 1..Len(h) : g[k] = h[k]
        /\ g[Len(h) + 1] = e
    <3> HIDE DEF h, g
    <3>1. PICK s \in Seq(Told), b \in Seq(Told) :
            h = s \o b /\ g = s \o Append(b, e)
      BY ONLY <1>3, <2>1
    <3> QED
      BY ONLY <3>1, e \in Told, AppendRight
  <2> QED
    BY <1>1, <1>4, <2>2 DEF Total
<1>5. CASE c \notin subs \ Full
  <2>1. Total(c)' = Total(c) /\ Heard(c)' = Heard(c)
    BY <1>2, <1>5 DEF Total, Heard
  <2> QED
    BY <1>1, <1>5, <2>1 DEF Full
<1> QED
  BY <1>4, <1>5

\* A handler's step is about what its own client hears.
LEMMA GaplessOne ==
  ASSUME Gapless, UNCHANGED <<run, dropped>>, NEW c \in Streams,
         \A d \in Streams \ {c} : /\ sent'[d] = sent[d] /\ buf'[d] = buf[d]
                                  /\ d \in subs' => d \in subs,
         c \notin dropped =>
           /\ UnbrokenTo(Heard(c)', Total(c)')
           /\ c \in subs' => \A r \in Runs : UpToDate(Heard(c)', Total(c)', r, run[r].file)
  PROVE  Gapless'
<1> SUFFICES ASSUME NEW d \in Streams, d \notin dropped
             PROVE  /\ UnbrokenTo(Heard(d)', Total(d)')
                    /\ d \in subs' =>
                         \A r \in Runs : UpToDate(Heard(d)', Total(d)', r, run[r].file)
  BY DEF Gapless
<1>1. CASE d = c
  BY <1>1
<1>2. CASE d # c
  <2>1. Heard(d)' = Heard(d) /\ Total(d)' = Total(d) /\ (d \in subs' => d \in subs)
    BY <1>2 DEF Heard, Total
  <2> QED
    BY <2>1 DEF Gapless
<1> QED
  BY <1>1, <1>2

\* A handler that returns leaves its client a start of what it would have heard,
\* or that and an event made from the row.
LEMMA GaplessReturn ==
  ASSUME Buffered, Sent, Wired, Gapless, UNCHANGED <<run, dropped>>, NEW c \in Streams,
         Return(c), c \in subs,
         \/ UNCHANGED sent
         \/ \E type \in {"done", "error"} : Send(c, FromRow(type))
         \/ buf[c] # <<>> /\ Send(c, Head(buf[c]))
  PROVE  Gapless'
<1> DEFINE n == Len(sent[c])
<1>0. sent[c] \in Seq(Told) /\ buf[c] \in Seq(Told) /\ sent \in [Streams -> Seq(Told)]
  BY HeardType DEF Sent
<1>1. /\ c \notin subs' /\ buf'[c] = <<>>
      /\ \A d \in Streams \ {c} : buf'[d] = buf[d] /\ (d \in subs' => d \in subs)
  BY DEF Return, SubsWithout, Buffered
<1>2. \A d \in Streams \ {c} : sent'[d] = sent[d]
  BY <1>0 DEF Send
<1>3. n \in Nat /\ Total(c) \in Nat /\ n <= Total(c) /\ \A k \in 1..n : Heard(c)[k] = sent[c][k]
  BY <1>0, StartOf DEF Heard, Total
<1> SUFFICES ASSUME c \notin dropped
             PROVE  UnbrokenTo(Heard(c)', Total(c)')
  BY <1>1, <1>2, GaplessOne
<1>4. UnbrokenTo(Heard(c), Total(c))
  BY DEF Gapless
<1>5. UnbrokenTo(sent[c], n)
  BY ONLY <1>3, <1>4, UnbrokenPrefix
<1>6. sent'[c] \in Seq(Told) => Heard(c)' = sent'[c] /\ Total(c)' = Len(sent'[c])
  BY <1>1, ConcatEmptySeq DEF Heard, Total
<1>7. CASE UNCHANGED sent
  BY <1>0, <1>5, <1>6, <1>7
<1>8. ASSUME NEW type \in {"done", "error"}, Send(c, FromRow(type))
      PROVE  UnbrokenTo(Heard(c)', Total(c)')
  <2> DEFINE e == FromRow(type)
  <2>1. e \in Told /\ e.run = 0 /\ e.type # "indexing"
    BY <1>8 DEF FromRow, Told, Event
  <2>2. sent'[c] = Append(sent[c], e)
    BY <1>0, <1>8 DEF Send
  <2> HIDE DEF e
  <2>3. /\ sent'[c] \in Seq(Told) /\ Len(sent'[c]) = n + 1
        /\ \A k \in 1..n : sent'[c][k] = sent[c][k] /\ sent[c][k] \in Told
        /\ sent'[c][n + 1] = e
    BY ONLY <1>0, <2>1, <2>2, AppendProperties, ElementOfSeq
  <2>4. \A k \in 1..n : sent[c][k].type = "indexing" => sent[c][k].run # 0
    BY <2>3 DEF Told, Runs
  <2>5. PICK h, g : h = sent[c] /\ g = sent'[c]
    OBVIOUS
  <2>6. /\ UnbrokenTo(h, n)
        /\ \A k \in 1..n : g[k] = h[k] /\ h[k] \in Told
        /\ g[n + 1] = e
        /\ \A i \in 1..n : ~(h[i].type = "indexing" /\ h[i].run = e.run)
    BY ONLY <1>5, <2>1, <2>3, <2>4, <2>5
  <2>7. \A i \in 1..n : h[i].type = "indexing" /\ h[i].run = e.run =>
          /\ e.type = "indexing" =>
               /\ h[i].file < e.file
               /\ \A x \in h[i].file..(e.file - 1) : \E k \in i..n : h[k] = FileEvent(e.run, x)
          /\ e.type = "done" =>
               \A x \in h[i].file..Files : \E k \in i..n : h[k] = FileEvent(e.run, x)
    BY ONLY <2>6
  <2>8. UnbrokenTo(g, n + 1)
    BY ONLY <1>3, <2>1, <2>6, <2>7, UnbrokenAppend
  <2> QED
    BY ONLY <1>6, <2>3, <2>5, <2>8
<1>9. CASE buf[c] # <<>> /\ Send(c, Head(buf[c]))
  <2>1. sent'[c] = Append(sent[c], Head(buf[c])) /\ Head(buf[c]) \in Told
    BY <1>0, <1>9, HeadTailProperties DEF Send
  <2>2. Tail(buf[c]) \in Seq(Told) /\ sent'[c] \in Seq(Told)
    BY <1>0, <1>9, <2>1, HeadTailProperties, AppendProperties
  <2>3. Heard(c) = sent'[c] \o Tail(buf[c])
    BY <1>0, <1>9, <2>1, MoveHead DEF Heard
  <2>4. /\ Len(sent'[c]) \in Nat /\ Len(sent'[c]) <= Total(c)
        /\ \A k \in 1..Len(sent'[c]) : Heard(c)[k] = sent'[c][k]
    <3>1. PICK s \in Seq(Told), b \in Seq(Told) :
            s = sent'[c] /\ b = Tail(buf[c]) /\ Heard(c) = s \o b
      BY ONLY <2>2, <2>3
    <3>2. Len(s) \in Nat /\ Len(s) <= Len(s \o b) /\ \A k \in 1..Len(s) : (s \o b)[k] = s[k]
      BY ONLY s \in Seq(Told), b \in Seq(Told), StartOf
    <3> QED
      BY ONLY <3>1, <3>2 DEF Total
  <2> QED
    BY ONLY <1>3, <1>4, <1>6, <2>2, <2>4, UnbrokenPrefix
<1> QED
  BY <1>7, <1>8, <1>9

LEMMA NextVerdicts == RunsOK /\ Verdicts /\ [Next]_vars => Verdicts'
<1> SUFFICES ASSUME RunsOK, Verdicts, [Next]_vars PROVE Verdicts'
  OBVIOUS
<1>1. ASSUME NEW r \in Runs, ProcessFile(r) PROVE Verdicts'
  BY <1>1 DEF ProcessFile, Verdicts, RunsOK, RunState
<1>2. ASSUME NEW r \in Runs, EndPipeline(r) PROVE Verdicts'
  <2>1. PICK v \in {"error", "done"} :
          /\ v = "done" => run[r].file = Files
          /\ run' = [run EXCEPT ![r].pc = "settle", ![r].verdict = v]
    BY <1>2 DEF EndPipeline
  <2> QED
    BY <2>1 DEF Verdicts, RunsOK, RunState
<1>3. ASSUME NEW r \in Runs, Settle(r) \/ Announce(r) \/ Claim(r) \/ Launch(r) PROVE Verdicts'
  BY <1>3 DEF Settle, Announce, Claim, Launch, Verdicts, RunsOK, RunState
<1>4. CASE Restart
  BY <1>4 DEF Restart, Verdicts, RunsOK, RunState
<1>5. CASE UNCHANGED run
  BY <1>5 DEF Verdicts
<1> QED
  BY <1>1, <1>2, <1>3, <1>4, <1>5
  DEF Next, RunStep, StreamStep, Connect, Subscribe, Reread, Receive, TimeOut,
      Disconnect, DeleteSource, vars

LEMMA SendSent == ASSUME Sent, NEW c \in Streams, NEW e \in Told, Send(c, e) PROVE Sent'
BY AppendProperties DEF Sent, Send

LEMMA NextSent == Buffered /\ Sent /\ [Next]_vars => Sent'
<1> SUFFICES ASSUME Buffered, Sent, [Next]_vars PROVE Sent'
  OBVIOUS
<1>1. ASSUME NEW c \in Streams, NEW type \in {"done", "error"}, Send(c, FromRow(type))
      PROVE  Sent'
  <2>1. FromRow(type) \in Told
    BY DEF FromRow, Told, Event
  <2> QED
    BY <1>1, <2>1, SendSent
<1>2. ASSUME NEW c \in Streams, Receive(c) PROVE Sent'
  <2>1. Head(buf[c]) \in Told
    BY <1>2, HeadTailProperties DEF Receive, Buffered
  <2> QED
    BY <1>2, <2>1, SendSent DEF Receive
<1>3. CASE UNCHANGED sent
  BY <1>3 DEF Sent
<1> QED
  BY <1>1, <1>2, <1>3
  DEF Next, RunStep, Launch, ProcessFile, EndPipeline, Settle, Announce, Claim, StreamStep, Connect,
      Subscribe, Reread, TimeOut, Disconnect, DeleteSource, Restart, vars

LEMMA PublishSilent ==
  ASSUME Wired, Silent, NEW e, Publish(e), UNCHANGED <<stream, sent>> PROVE Silent'
BY DEF Wired, Silent, Publish, Subscribed

\* The step of a handler that has subscribed.
LEMMA SilentOne ==
  ASSUME Silent, NEW c \in Streams, stream'[c] \notin {"new", "connected"},
         \A d \in Streams \ {c} : /\ stream'[d] = stream[d]
                                  /\ sent'[d] = sent[d] /\ buf'[d] = buf[d]
  PROVE  Silent'
BY DEF Silent

LEMMA NextSilent == Wired /\ Buffered /\ Sent /\ Silent /\ [Next]_vars => Silent'
<1> SUFFICES ASSUME Wired, Buffered, Sent, Silent, [Next]_vars PROVE Silent'
  OBVIOUS
<1>1. ASSUME NEW r \in Runs, ProcessFile(r) \/ Announce(r) PROVE Silent'
  BY <1>1, PublishSilent DEF ProcessFile, Announce, PublishEnd
<1>2. ASSUME NEW c \in Streams, Connect(c) PROVE Silent'
  BY <1>2 DEF Connect, Wired, Silent
<1>3. ASSUME NEW c \in Streams, Subscribe(c) PROVE Silent'
  BY <1>3, SilentOne DEF Subscribe, AfterSubscribe, Wired
<1>4. ASSUME NEW c \in Streams, Return(c), UNCHANGED sent \/ \E e : Send(c, e) PROVE Silent'
  <2>1. stream'[c] = "closed" /\ \A d \in Streams \ {c} : stream'[d] = stream[d]
    BY <1>4 DEF Return, Wired
  <2>2. \A d \in Streams \ {c} : buf'[d] = buf[d]
    BY <1>4 DEF Return, Buffered
  <2>3. \A d \in Streams \ {c} : sent'[d] = sent[d]
    BY <1>4 DEF Send, Sent
  <2> QED
    BY <2>1, <2>2, <2>3, SilentOne
<1>5. ASSUME NEW c \in Streams, Reread(c) PROVE Silent'
  <2>1. CASE /\ stream' = [stream EXCEPT ![c] = "waiting"]
             /\ UNCHANGED <<subs, chan, buf, sent>>
    BY <2>1, SilentOne DEF Wired
  <2> QED
    BY <1>4, <1>5, <2>1 DEF Reread
<1>6. ASSUME NEW c \in Streams, Receive(c) PROVE Silent'
  <2>1. CASE Terminal(Head(buf[c]))
    BY <1>4, <1>6, <2>1 DEF Receive
  <2>2. CASE ~Terminal(Head(buf[c]))
    BY <1>6, <2>2, SilentOne DEF Receive, Send, Buffered, Sent
  <2> QED
    BY <2>1, <2>2
<1>7. ASSUME NEW c \in Streams, TimeOut(c) \/ Disconnect(c) PROVE Silent'
  BY <1>4, <1>7 DEF TimeOut, Disconnect
<1>8. CASE Restart
  BY <1>8 DEF Restart, Silent
<1>9. CASE UNCHANGED <<stream, sent, buf>>
  BY <1>9 DEF Silent
<1> QED
  BY <1>1, <1>2, <1>3, <1>5, <1>6, <1>7, <1>8, <1>9
  DEF Next, RunStep, Launch, EndPipeline, Settle, Claim, StreamStep, DeleteSource, vars

\* A step that neither publishes nor moves an event.
LEMMA GaplessStill ==
  ASSUME Gapless, UNCHANGED <<sent, buf, subs, dropped>>,
         \A r \in Runs : run'[r].file = run[r].file
  PROVE  Gapless'
<1> SUFFICES ASSUME NEW c \in Streams, c \notin dropped
             PROVE  /\ UnbrokenTo(Heard(c)', Total(c)')
                    /\ c \in subs =>
                         \A r \in Runs : UpToDate(Heard(c)', Total(c)', r, run'[r].file)
  BY DEF Gapless
<1>1. Heard(c)' = Heard(c) /\ Total(c)' = Total(c)
  BY DEF Heard, Total
<1> QED
  BY <1>1 DEF Gapless

LEMMA GaplessFile ==
  ASSUME RunsOK, Buffered, Sent, Gapless, NEW r \in Runs, ProcessFile(r) PROVE Gapless'
<1> DEFINE f == run[r].file
           e == FileEvent(r, f + 1)
<1>1. f \in Nat /\ e \in Told
  BY DEF ProcessFile, FileEvent, Told, Event, RunsOK, RunState, Runs
<1>2. Publish(e) /\ UNCHANGED <<sent, subs>>
  BY DEF ProcessFile, FileNumber
<1>3. run'[r].file = f + 1 /\ \A o \in Runs \ {r} : run'[o].file = run[o].file
  BY DEF ProcessFile, RunsOK, RunState
<1> HIDE DEF f
<1>e. e = FileEvent(r, f + 1) /\ e.type = "indexing" /\ e.run = r
  BY DEF FileEvent
<1> HIDE DEF e
<1> SUFFICES ASSUME NEW c \in Streams, c \notin dropped'
             PROVE  /\ UnbrokenTo(Heard(c)', Total(c)')
                    /\ c \in subs' =>
                         \A o \in Runs : UpToDate(Heard(c)', Total(c)', o, run'[o].file)
  BY DEF Gapless
<1>4. /\ c \notin dropped
      /\ c \in subs =>
           /\ Total(c)' = Total(c) + 1
           /\ \A k \in 1..Total(c) : Heard(c)'[k] = Heard(c)[k]
           /\ Heard(c)'[Total(c) + 1] = e
      /\ c \notin subs => Total(c)' = Total(c) /\ Heard(c)' = Heard(c)
  BY <1>1, <1>2, PublishHeard
<1>5. CASE c \notin subs
  BY <1>2, <1>4, <1>5 DEF Gapless
<1>6. CASE c \in subs
  <2>1. PICK n \in Nat : n = Total(c)
    BY HeardType
  <2>h. PICK h, g : h = Heard(c) /\ g = Heard(c)'
    OBVIOUS
  <2>2. UnbrokenTo(h, n) /\ \A o \in Runs : UpToDate(h, n, o, run[o].file)
    BY <1>4, <1>6, <2>1, <2>h DEF Gapless
  <2>3. /\ \A k \in 1..n : g[k] = h[k] /\ h[k] \in Told
        /\ g[n + 1] = e /\ Total(c)' = n + 1
    BY <1>4, <1>6, <2>1, <2>h, HeardType
  <2>4. UnbrokenTo(g, n + 1) /\ UpToDate(g, n + 1, r, f + 1)
    <3>1. UpToDate(h, n, r, f)
      BY <2>2 DEF f
    <3> QED
      BY ONLY <1>1, <1>e, <2>2, <2>3, <3>1, NextFile, n \in Nat
  <2>5. \A o \in Runs \ {r} : UpToDate(g, n + 1, o, run[o].file)
    BY ONLY <1>e, <2>2, <2>3, UpToDateAppend, n \in Nat
  <2> QED
    BY ONLY <1>3, <2>h, <2>3, <2>4, <2>5
<1> QED
  BY <1>5, <1>6

LEMMA GaplessEnd ==
  ASSUME RunsOK, Verdicts, Buffered, Sent, Gapless, NEW r \in Runs, Announce(r) PROVE Gapless'
<1> DEFINE e == [type |-> run[r].verdict, run |-> r, file |-> 0]
<1>1. e \in Told /\ e.type # "indexing" /\ e.run = r /\ (e.type = "done" => run[r].file = Files)
  BY DEF Announce, Told, Event, Verdicts, RunsOK, RunState, Runs
<1>2. Publish(e) /\ UNCHANGED <<sent, subs>>
  BY DEF Announce, PublishEnd
<1>3. \A o \in Runs : run'[o].file = run[o].file
  BY DEF Announce, RunsOK, RunState
<1> HIDE DEF e
<1> SUFFICES ASSUME NEW c \in Streams, c \notin dropped'
             PROVE  /\ UnbrokenTo(Heard(c)', Total(c)')
                    /\ c \in subs' =>
                         \A o \in Runs : UpToDate(Heard(c)', Total(c)', o, run'[o].file)
  BY DEF Gapless
<1>4. /\ c \notin dropped
      /\ c \in subs =>
           /\ Total(c)' = Total(c) + 1
           /\ \A k \in 1..Total(c) : Heard(c)'[k] = Heard(c)[k]
           /\ Heard(c)'[Total(c) + 1] = e
      /\ c \notin subs => Total(c)' = Total(c) /\ Heard(c)' = Heard(c)
  BY <1>1, <1>2, PublishHeard
<1>5. CASE c \notin subs
  BY <1>2, <1>4, <1>5 DEF Gapless
<1>6. CASE c \in subs
  <2>1. PICK n \in Nat : n = Total(c)
    BY HeardType
  <2>h. PICK h, g : h = Heard(c) /\ g = Heard(c)'
    OBVIOUS
  <2>2. UnbrokenTo(h, n) /\ \A o \in Runs : UpToDate(h, n, o, run[o].file)
    BY <1>4, <1>6, <2>1, <2>h DEF Gapless
  <2>3. /\ \A k \in 1..n : g[k] = h[k] /\ h[k] \in Told
        /\ g[n + 1] = e /\ Total(c)' = n + 1
    BY <1>4, <1>6, <2>1, <2>h, HeardType
  <2>4. UnbrokenTo(g, n + 1)
    BY ONLY <1>1, <2>2, <2>3, EndOfRun, n \in Nat, r \in Runs
  <2>5. \A o \in Runs : UpToDate(g, n + 1, o, run[o].file)
    BY ONLY <1>1, <2>2, <2>3, UpToDateAppend, n \in Nat
  <2> QED
    BY ONLY <1>3, <2>h, <2>3, <2>4, <2>5
<1> QED
  BY <1>5, <1>6

LEMMA GaplessReceive ==
  ASSUME Wired, Buffered, Sent, Gapless, NEW c \in Streams, Receive(c) PROVE Gapless'
<1>1. /\ c \in subs /\ UNCHANGED <<run, dropped>>
      /\ buf[c] # <<>> /\ Send(c, Head(buf[c]))
  BY DEF Receive, Wired, Subscribed
<1>2. CASE Terminal(Head(buf[c]))
  <2>1. Return(c)
    BY <1>2 DEF Receive
  <2> QED
    BY <1>1, <2>1, GaplessReturn
<1>3. CASE ~Terminal(Head(buf[c]))
  <2>1. buf' = [buf EXCEPT ![c] = Tail(@)] /\ UNCHANGED subs
    BY <1>3 DEF Receive
  <2>2. sent[c] \in Seq(Told) /\ buf[c] \in Seq(Told)
    BY HeardType
  <2>3. sent'[c] = Append(sent[c], Head(buf[c])) /\ buf'[c] = Tail(buf[c])
    BY <1>1, <2>1 DEF Send, Sent, Buffered
  <2>4. \A d \in Streams \ {c} : sent'[d] = sent[d] /\ buf'[d] = buf[d]
    BY <1>1, <2>1 DEF Send, Sent, Buffered
  <2>5. Heard(c)' = Heard(c) /\ Total(c)' = Total(c)
    BY <1>1, <2>2, <2>3, MoveHead DEF Heard, Total
  <2>6. c \notin dropped =>
          /\ UnbrokenTo(Heard(c)', Total(c)')
          /\ c \in subs' => \A r \in Runs : UpToDate(Heard(c)', Total(c)', r, run[r].file)
    BY <2>1, <2>5 DEF Gapless
  <2> QED
    BY <1>1, <2>1, <2>4, <2>6, GaplessOne
<1> QED
  BY <1>2, <1>3

\* What a client got is the start of what it would hear.
LEMMA SentIsStart ==
  ASSUME Buffered, Sent, Gapless, NEW c \in Streams, c \notin dropped
  PROVE  UnbrokenTo(sent[c], Len(sent[c]))
<1>1. sent[c] \in Seq(Told) /\ buf[c] \in Seq(Told)
  BY HeardType
<1>2. /\ Len(sent[c]) \in Nat /\ Total(c) \in Nat /\ Len(sent[c]) <= Total(c)
      /\ \A k \in 1..Len(sent[c]) : Heard(c)[k] = sent[c][k]
  BY <1>1, StartOf DEF Heard, Total
<1>3. UnbrokenTo(Heard(c), Total(c))
  BY DEF Gapless
<1> QED
  BY ONLY <1>2, <1>3, UnbrokenPrefix

LEMMA NextGapless ==
  RunsOK /\ Verdicts /\ Wired /\ Buffered /\ Sent /\ Silent /\ Gapless /\ [Next]_vars => Gapless'
<1> SUFFICES ASSUME RunsOK, Verdicts, Wired, Buffered, Sent, Silent, Gapless, [Next]_vars
             PROVE  Gapless'
  OBVIOUS
<1>1. ASSUME NEW r \in Runs, ProcessFile(r) \/ Announce(r) PROVE Gapless'
  BY <1>1, GaplessFile, GaplessEnd
<1>2. ASSUME NEW r \in Runs, EndPipeline(r) \/ Settle(r) \/ Claim(r) \/ Launch(r) PROVE Gapless'
  <2>1. /\ UNCHANGED <<sent, buf, subs, dropped>>
        /\ \A o \in Runs : run'[o].file = run[o].file
    BY <1>2 DEF EndPipeline, Settle, Claim, Launch, RunsOK, RunState
  <2> QED
    BY <2>1, GaplessStill
<1>3. ASSUME UNCHANGED <<run, sent, buf, subs, dropped>> PROVE Gapless'
  BY <1>3, GaplessStill
<1>4. ASSUME NEW c \in Streams, Subscribe(c) PROVE Gapless'
  <2>1. sent[c] = <<>> /\ buf[c] = <<>>
    BY <1>4 DEF Subscribe, Silent
  <2>2. Heard(c)' = <<>> /\ Total(c)' = 0
    BY <1>4, <2>1, ConcatEmptySeq, EmptySeq DEF Subscribe, Heard, Total
  <2>3. UnbrokenTo(Heard(c)', Total(c)')
    BY <2>2 DEF UnbrokenTo
  <2>4. \A r \in Runs : UpToDate(Heard(c)', Total(c)', r, run[r].file)
    BY <2>2 DEF UpToDate
  <2> QED
    BY <1>4, <2>3, <2>4, GaplessOne DEF Subscribe
<1>5. ASSUME NEW c \in Streams, Reread(c) PROVE Gapless'
  <2>1. UNCHANGED <<run, dropped>> /\ c \in subs
    BY <1>5 DEF Reread, Wired, Subscribed
  <2>2. CASE UNCHANGED <<subs, buf, sent>>
    BY <1>3, <2>1, <2>2
  <2>3. CASE Return(c) /\ \E type \in {"done", "error"} : Send(c, FromRow(type))
    BY <2>1, <2>3, GaplessReturn
  <2> QED
    BY <1>5, <2>2, <2>3 DEF Reread
<1>6. ASSUME NEW c \in Streams, Receive(c) PROVE Gapless'
  BY <1>6, GaplessReceive
<1>7. ASSUME NEW c \in Streams, TimeOut(c) \/ Disconnect(c) PROVE Gapless'
  <2>1. UNCHANGED <<run, dropped>> /\ c \in subs /\ Return(c)
    BY <1>7 DEF TimeOut, Disconnect, Wired, Subscribed
  <2>2. UNCHANGED sent \/ Send(c, FromRow("error"))
    BY <1>7 DEF TimeOut, Disconnect
  <2> QED
    BY <2>1, <2>2, GaplessReturn
<1>8. CASE Restart
  <2>1. subs' = {} /\ dropped' = dropped /\ \A c \in Streams : buf'[c] = <<>> /\ sent'[c] = sent[c]
    BY <1>8 DEF Restart
  <2>2. ASSUME NEW c \in Streams, c \notin dropped PROVE UnbrokenTo(Heard(c)', Total(c)')
    <3>1. sent[c] \in Seq(Told)
      BY HeardType
    <3>2. Heard(c)' = sent[c] /\ Total(c)' = Len(sent[c])
      BY <2>1, <3>1, ConcatEmptySeq DEF Heard, Total
    <3> QED
      BY <2>2, <3>2, SentIsStart
  <2> QED
    BY <2>1, <2>2 DEF Gapless
<1> QED
  BY <1>1, <1>2, <1>3, <1>4, <1>5, <1>6, <1>7, <1>8
  DEF Next, RunStep, StreamStep, Connect, DeleteSource, vars

\* A client whose channel was never full gets the events of a run's files one
\* after the other from the first it hears of, and up to the last one when it is
\* told done: publish, the channel and the handler lose and reorder nothing.
THEOREM FilesComeWithoutGaps == Spec => []NoGaps
<1> DEFINE IInv == RunsOK /\ Verdicts /\ Wired /\ Buffered /\ Sent /\ Silent /\ Gapless
<1>1. ASSUME Init PROVE IInv
  <2>1. RunsOK /\ Wired /\ Verdicts
    BY <1>1, InitOwned, InitWired DEF Init, Verdicts
  <2>2. Buffered /\ Sent /\ Silent /\ subs = {}
    BY <1>1 DEF Init, Buffered, Sent, Silent
  <2>3. \A c \in Streams : Heard(c) = <<>> /\ Total(c) = 0
    BY <1>1, ConcatEmptySeq, EmptySeq DEF Init, Heard, Total
  <2>4. Gapless
    BY <2>2, <2>3 DEF Gapless, UnbrokenTo
  <2> QED
    BY <2>1, <2>2, <2>4
<1>2. IInv /\ [Next]_vars => IInv'
  BY NextRuns, NextVerdicts, NextWired, NextBuffered, NextSent, NextSilent, NextGapless
<1>3. IInv => NoGaps
  <2> SUFFICES ASSUME IInv, NEW c \in Streams, c \notin dropped PROVE Unbroken(sent[c])
    BY DEF NoGaps
  <2>1. DOMAIN sent[c] = 1..Len(sent[c])
    BY HeardType, LenProperties
  <2>2. UnbrokenTo(sent[c], Len(sent[c]))
    BY SentIsStart
  <2> QED
    BY <2>1, <2>2 DEF Unbroken, UnbrokenTo
<1> QED
  BY <1>1, <1>2, <1>3, PTL DEF Spec
=============================================================================
