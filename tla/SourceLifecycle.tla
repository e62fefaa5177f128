-------------------------- MODULE SourceLifecycle --------------------------
(***************************************************************************)
(* What package sources promises about the status of a source, whatever    *)
(* its stores do: the row is born indexing, only a worker that holds the   *)
(* source settles it, a source is never claimed while a worker still holds *)
(* it, and a removed row never comes back.  Ingestion implements this.     *)
(***************************************************************************)
CONSTANT Sources

VARIABLES
  status,   \* the row's status, "unborn" before there is one, "deleted" after
  worker    \* "busy" while some goroutine will still settle the source

vars == <<status, worker>>

Init ==
  /\ status = [s \in Sources |-> "unborn"]
  /\ worker = [s \in Sources |-> "free"]

\* A Create inserts the row and goes on holding it, unless it never learns
\* that the row is there.
Insert(s) ==
  /\ status[s] = "unborn"
  /\ status' = [status EXCEPT ![s] = "indexing"]
  /\ \E w \in {"busy", "free"} : worker' = [worker EXCEPT ![s] = w]

\* A re-ingest takes a settled source that nobody holds.
Claim(s) ==
  /\ status[s] \in {"indexed", "error"}
  /\ worker[s] = "free"
  /\ status' = [status EXCEPT ![s] = "indexing"]
  /\ \E w \in {"busy", "free"} : worker' = [worker EXCEPT ![s] = w]

\* The holder ends with a verdict, or ends without one (its write failed, or
\* the row is gone).
Settle(s) ==
  /\ worker[s] = "busy"
  /\ worker' = [worker EXCEPT ![s] = "free"]
  /\ \/ /\ status[s] = "indexing"
        /\ \E v \in {"indexed", "error"} : status' = [status EXCEPT ![s] = v]
     \/ UNCHANGED status

Remove(s) ==
  /\ status[s] # "unborn"
  /\ status' = [status EXCEPT ![s] = "deleted"]
  /\ UNCHANGED worker

\* The process starts again: no worker survives, and what was left indexing
\* is failed, or stays as it is when that write fails.
Restart ==
  /\ worker' = [s \in Sources |-> "free"]
  /\ \/ status' = [s \in Sources |-> IF status[s] = "indexing" THEN "error"
                                     ELSE status[s]]
     \/ UNCHANGED status

Next ==
  \/ \E s \in Sources : Insert(s) \/ Claim(s) \/ Settle(s) \/ Remove(s)
  \/ Restart

Spec == Init /\ [][Next]_vars
=============================================================================
