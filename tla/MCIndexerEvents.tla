-------------------------- MODULE MCIndexerEvents --------------------------
(* Two event ids, one of them from before the migration, and two payloads. *)
EXTENDS IndexerEvents, TLC

MCSymmetry == Permutations(Fingerprints) \cup Permutations(Callers)
=============================================================================
