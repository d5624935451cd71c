---------------------------- MODULE MCAdamImports ----------------------------
(* Two regions and two weeks of two days.                                  *)
EXTENDS AdamImports

CONSTANTS forge, domain
=============================================================================
