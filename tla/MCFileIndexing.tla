-------------------------- MODULE MCFileIndexing ---------------------------
(* Bounds of the TLC run of FileIndexing: the sizes scaled so that two lines
   may fill a span and one may be over the cap. *)
EXTENDS FileIndexing

MCSizeOf == [heading |-> 2, fence |-> 3, row |-> 4, prose |-> 9, blank |-> 0]
MCRetryAfters == {-1, 0, 5}
=============================================================================
