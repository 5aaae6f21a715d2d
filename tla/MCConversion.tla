---------------------------- MODULE MCConversion ----------------------------
(* Conversions of one document, before and after a death of the application. *)
EXTENDS Conversion
=============================================================================
