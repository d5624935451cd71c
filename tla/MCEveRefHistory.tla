--------------------------- MODULE MCEveRefHistory ---------------------------
(* Two days and two types.                                                 *)
EXTENDS EveRefHistory

CONSTANTS ore, ship
=============================================================================
