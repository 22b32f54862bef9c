--------------------------- MODULE StockSyncProps ---------------------------
(***************************************************************************)
(* What stock synchronisation promises about DSCO's quantities and the     *)
(* rows it keeps.                                                          *)
(***************************************************************************)
EXTENDS StockSync

\* A row of a writing run with status 1 ("success") has the quantity DSCO
\* accepted last: a failed batch of the page, before or after the item's own
\* batch, makes it status 2.
SuccessMeansAccepted ==
    [][\A k \in DOMAIN latest' :
          /\ latest' # latest /\ sync.write
          /\ k[1] \in sync.wh /\ k[2] \in DOMAIN sync.made
          /\ latest'[k].st = 1
          => acc[k] = latest'[k].num]_vars

\* Once goods stop moving DSCO shows LingXing's stock, whatever failed
\* before, whatever was sent by hand, and although DSCO's own quantities may
\* not be readable.
StockReachesDsco == []<>(dq = lxq)

\* "daily_pulled: by the day's latest row" (API design, 4.2): the quantity a
\* request sends for a key is the one of that key's last row.
DailySendsLatest ==
    sync.src = "daily" =>
        \A k \in DOMAIN sync.out : k \in DOMAIN latest /\ sync.out[k] = latest[k].num
=============================================================================
