---------------------------- MODULE MCRestoreRun ----------------------------
(* Instances of RestoreRun for TLC. *)
EXTENDS RestoreRun, TLC

CONSTANTS r1, r2, c1, w1, w2

\* One compensation, c1, of r1; or none.
ReversesR1 == c1 :> r1
NoReverses == <<>>

Symmetry == Permutations(Workers)
RestoreSymmetry == Permutations(Workers) \union Permutations(Restores)
=============================================================================
