---------------------------- MODULE MCOrderBooks ----------------------------
(* Two orders at the station and one in the structure, and the bounds.     *)
EXTENDS OrderBooks
=============================================================================
