--------------------------- MODULE MCMarketDemand ---------------------------
(* MarketDemand with the import, a page and the structure snapshots.       *)
EXTENDS MarketDemand
CONSTANTS adam, page, snapshots, visit
=============================================================================
