-------------------------------- MODULE MCBlob -------------------------------
EXTENDS Blob, TLC

CONSTANTS a, b

Symmetry == Permutations(Procs) \cup Permutations(Files)

Sizes == (a :> 2) @@ (b :> 1)
=============================================================================
