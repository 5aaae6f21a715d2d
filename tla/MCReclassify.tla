---------------------------- MODULE MCReclassify ----------------------------
EXTENDS Reclassify
CONSTANTS d1, d2
MCEvidence == [d \in Doc |-> IF d = d1 THEN [levels |-> 4, office |-> "same", id |-> FALSE, matches |-> 0]
                             ELSE [levels |-> 3, office |-> "same", id |-> FALSE, matches |-> 1]]
=============================================================================
