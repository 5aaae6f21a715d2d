-------------------------- MODULE MCScheduleImport --------------------------
(* Small instances of ScheduleImport. *)
EXTENDS ScheduleImport
CONSTANTS s1, s2, w1, h1, h2
=============================================================================
