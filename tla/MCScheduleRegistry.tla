------------------------- MODULE MCScheduleRegistry -------------------------
(* Small instances of ScheduleRegistry. *)
EXTENDS ScheduleStatus, TLC

CONSTANTS s1, s2, w1, w2, r1, r2

\* A long month and a short one.
MCMonthStart == (0 :> 0 @@ 1 :> 31 @@ 2 :> 59)

Symmetry == Permutations({w1, w2}) \cup Permutations({r1, r2}) \cup Permutations({s1, s2})
=============================================================================
