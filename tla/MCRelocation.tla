---------------------------- MODULE MCRelocation ----------------------------
(* Small instances of Relocation. *)
EXTENDS Relocation
CONSTANTS s1, s2, r1, r2
=============================================================================
