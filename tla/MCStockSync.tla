---------------------------- MODULE MCStockSync ----------------------------
(* StockSync for TLC; the bounds are the constants each .cfg gives.        *)
EXTENDS StockSyncProps
=============================================================================
