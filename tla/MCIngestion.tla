---------------------------- MODULE MCIngestion ----------------------------
(***************************************************************************)
(* Small instances of Ingestion for TLC.                                   *)
(***************************************************************************)
EXTENDS Ingestion, TLC

CONSTANTS p1, p2, p3, a, b, c, t1, t2

\* Three parts under three names, of two chunks, one and none.
NameOfDistinct == p1 :> a @@ p2 :> b @@ p3 :> c
NameOfOne == p1 :> a

SpansTwoOneZero == a :> 2 @@ b :> 1 @@ c :> 0
SpansOne == a :> 1

\* Faults: of every call; of none; of a run's calls and the process, without
\* its status writes and with them.
AllCalls == Calls
NoCalls == {}
RunCalls == {"pipeline", "crash"}
RunFaults == RunCalls \cup {"status"}

Symmetry == Permutations(Runs) \cup Permutations(Sources)
              \cup Permutations(Requests)
=============================================================================
