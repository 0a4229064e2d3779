--------------------------- MODULE MCStreamExport ---------------------------
(* Small instances of the CSV export.                                      *)
EXTENDS StreamExport, TLC
=============================================================================
