--------------------------- MODULE MCLedgerCalls ---------------------------
(* Small instances of the calls to the ledger.                             *)
EXTENDS LedgerCalls, TLC
=============================================================================
