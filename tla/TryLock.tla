------------------------------ MODULE TryLock ------------------------------
(***************************************************************************)
(* What a non-blocking guard promises to the code that uses it: at most    *)
(* one caller holds it, a caller that does not get it is told so at once   *)
(* (which changes nothing here), and a holder that ends, normally or not,  *)
(* gives it up.  Every module that uses a named guard of the program       *)
(* models it by one variable with these two transitions; RunGuard shows    *)
(* that the code of RunGuard.try_acquire implements them.                  *)
(***************************************************************************)

CONSTANTS Caller,   \* whoever may ask for the guard
          None      \* no caller

VARIABLE holder

TypeOK == holder \in Caller \cup {None}

Init == holder = None

\* try_acquire yields True
Acquire(c) == holder = None /\ holder' = c

\* the with statement is left, or the process of c ends
Release(c) == holder = c /\ holder' = None

Next == \E c \in Caller : Acquire(c) \/ Release(c)

Spec == Init /\ [][Next]_holder
=============================================================================
