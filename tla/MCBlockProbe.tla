---------------------------- MODULE MCBlockProbe ----------------------------
(* BlockProbe for TLC.  The CPUs, and the threads, are interchangeable.    *)
EXTENDS BlockProbe, TLC

CONSTANTS k1, k2, u1

\* k1 hashes to a bucket of its own; k2 and u1 share one.
Colliding == k1 :> 1 @@ k2 :> 2 @@ u1 :> 2

\* Every stack has a bucket of its own.
Spread == k1 :> 1 @@ u1 :> 2

Symmetry == Permutations(Cpus) \cup Permutations(Tids)
=============================================================================
