---------------------------- MODULE MCCharacterSync ----------------------------
(* The bounds of the runs over CharacterSync.                              *)
EXTENDS CharacterSync

\* Everything may happen, and what is undone by its repetition may happen twice.
Full == [h \in Happenings |-> IF h \in {"move", "expire", "patch"} THEN 2 ELSE 1]

\* Nothing happens but what the threads do.
Quiet == [h \in Happenings |-> 0]
=============================================================================
