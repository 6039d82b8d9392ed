--------------------------- MODULE MCExitManager ---------------------------
(* Small instances of ExitManager: one market, its entries filled at price 3. *)
EXTENDS ExitManager, TLC

CONSTANTS m1

=============================================================================
