---------------------------- MODULE MCEditors ----------------------------
(***************************************************************************)
(* Instances of the editors for TLC.                                       *)
(***************************************************************************)
EXTENDS Editors, TLC

CONSTANTS p1, p2

MCPages == {p1, p2}
Symmetry == Permutations(MCPages)
=============================================================================
