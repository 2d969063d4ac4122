-------------------------- MODULE MCReviewSession --------------------------
(* Small instances of the Review page. *)
EXTENDS ReviewSession, TLC

\* Sound where no Product is a package, and for invariants only.
ProductSymmetry == Permutations(Products)
=============================================================================
