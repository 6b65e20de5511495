---------------------------- MODULE PriorityQueue ----------------------------
(* What the heap promises: whatever is put in comes out, the value that the  *)
(* comparator puts first before the others.                                  *)
EXTENDS Integers

CONSTANTS
    Value,    \* numbers, in the comparator's order
    Nothing   \* what comes out of an empty queue

VARIABLES
    queue,    \* how many of each value are held
    out       \* what came out last

vars == <<queue, out>>

Init == queue \in [Value -> Nat] /\ out = Nothing

IsFirst(v) == queue[v] > 0 /\ \A w \in Value : queue[w] > 0 => w <= v

Put(v) ==
    /\ queue' = [queue EXCEPT ![v] = @ + 1]
    /\ UNCHANGED out

Look ==
    /\ \/ \E v \in Value : IsFirst(v) /\ out' = v
       \/ (\A v \in Value : queue[v] = 0) /\ out' = Nothing
    /\ UNCHANGED queue

Take(v) ==
    /\ IsFirst(v)
    /\ out' = v
    /\ queue' = [queue EXCEPT ![v] = @ - 1]

Next == Look \/ \E v \in Value : Put(v) \/ Take(v)

Spec == Init /\ [][Next]_vars
=============================================================================
