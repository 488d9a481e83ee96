---------------------------- MODULE MCWhiteboard ----------------------------
(* Whiteboard for TLC: the participants that never were host are alike. *)
EXTENDS Whiteboard, TLC

Symmetry == Permutations(Peers \ {FirstHost})
=============================================================================
