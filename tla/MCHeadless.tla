----------------------------- MODULE MCHeadless -----------------------------
(* Instances of Headless for TLC: documents are model values.              *)
EXTENDS Headless, TLC

Symmetry == Permutations(Doc)
=============================================================================
