--------------------------- MODULE MCEventStream ---------------------------
(* EventStream for TLC.  The threads are interchangeable.                  *)
EXTENDS EventStream, TLC

Symmetry == Permutations(Tids)
=============================================================================
