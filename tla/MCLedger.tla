------------------------------ MODULE MCLedger ------------------------------
(* Instances of Ledger for TLC: processes are model values, files numbers. *)
EXTENDS Ledger, TLC

CONSTANTS s1, s2

TwoSchedules == {s1, s2}
OneAndTheOther == <<s1, s2, s1>>

Symmetry == Permutations(Proc)
=============================================================================
