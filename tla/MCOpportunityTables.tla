------------------------- MODULE MCOpportunityTables -------------------------
(* Two sources and two types; an import replaces all that is on sale.  The *)
(* figures of a row are checked where TLC evaluates the assumptions.       *)
EXTENDS OpportunityTables, MCTradeRules

CONSTANTS jita, amarr, ore, ship

Full == {<<jita, ore>>, <<amarr, ore>>, <<amarr, ship>>}
Short == {<<jita, ship>>}
MCMarkets == {Full, Short}
MCBefore == {{}, Full}
=============================================================================
