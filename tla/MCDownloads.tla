---------------------------- MODULE MCDownloads ----------------------------
EXTENDS Downloads
CONSTANTS d1, d2, n1, n2
MCName == {n1, n2}
MCPath == [name : MCName, id : Doc \cup {None}, copy : 0..MaxCopy]
SameName == {[d \in Doc |-> n1], [d \in Doc |-> n2]}
AllPlans == SameName \cup {[d \in Doc |-> IF d = d1 THEN n2 ELSE None]}
=============================================================================
