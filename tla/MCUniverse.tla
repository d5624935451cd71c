------------------------------ MODULE MCUniverse ------------------------------
(* Two stations, and a structure that is in the catalog and that the       *)
(* character may dock at.                                                  *)
EXTENDS Universe

CONSTANTS jita, amarr, tower
=============================================================================
