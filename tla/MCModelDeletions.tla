-------------------------- MODULE MCModelDeletions --------------------------
(* ModelDeletions on all trees of up to MaxNodes nodes. *)
EXTENDS ModelDeletions

TwoSizes == {1, 3}
=============================================================================
