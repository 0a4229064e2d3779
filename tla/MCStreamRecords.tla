-------------------------- MODULE MCStreamRecords --------------------------
(* Small instances of the streams table.                                   *)
EXTENDS StreamRecords, TLC
=============================================================================
