----------------------- MODULE MCMeteringCheckpoint -----------------------
(* Two streams with locks of their own, three event ids, two callers.      *)
EXTENDS MeteringCheckpoint, TLC

CONSTANTS s1, s2

MCHash == s1 :> 1 @@ s2 :> 2

MCSymmetry == Permutations(Events) \cup Permutations(Callers)
=============================================================================
