-------------------------- MODULE MCReconciliation --------------------------
(* Small instances of a reconciliation job.                                *)
EXTENDS Reconciliation, TLC
=============================================================================
