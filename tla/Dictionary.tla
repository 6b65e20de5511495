------------------------------ MODULE Dictionary ------------------------------
(* What the string map promises: a value for each name that was put in and   *)
(* not erased since.                                                         *)
CONSTANTS
    Name, Datum,
    Missing        \* the answer when there is nothing

VARIABLES
    dict,          \* the data of the names that have one
    answer         \* what the last call gave out

vars == <<dict, answer>>

Found(n) == IF n \in DOMAIN dict THEN dict[n] ELSE Missing

Init == dict = [n \in {} |-> Missing] /\ answer = Missing

Look(n) == answer' = Found(n) /\ UNCHANGED dict

Set(n, d) ==
    /\ answer' = Found(n)
    /\ dict' = [m \in DOMAIN dict \cup {n} |-> IF m = n THEN d ELSE dict[m]]

Drop(n) ==
    /\ answer' = Found(n)
    /\ dict' = [m \in DOMAIN dict \ {n} |-> dict[m]]

Forget == dict' = [n \in {} |-> Missing] /\ UNCHANGED answer

Next ==
    \/ \E n \in Name : Look(n) \/ Drop(n) \/ \E d \in Datum : Set(n, d)
    \/ Forget

Spec == Init /\ [][Next]_vars
=============================================================================
