------------------------------ MODULE StringMap -------------------------------
(***************************************************************************)
(* The string map of util/ss_strmap.c, over RedBlackTree.                  *)
(***************************************************************************)
EXTENDS RedBlackTree, Functions

CONSTANTS Datum, Missing

VARIABLES
    datum,       \* the value in each node
    answer       \* the value that the last call gave out

mapVars == <<treeVars, datum, answer>>

MapInit ==
    /\ TreeInit
    /\ datum = [n \in Name |-> Missing]
    /\ answer = Missing

(* What a call gives out: nothing if the name is not in the map.            *)
Given(n) == IF IsFound(n) THEN datum[n] ELSE Missing

Get(n) ==
    /\ doing = "none"
    /\ answer' = Given(n)
    /\ UNCHANGED <<treeVars, datum>>

Put(n, d) ==
    /\ doing = "none"
    /\ answer' = Given(n)
    /\ datum' = [datum EXCEPT ![n] = d]
    /\ IF IsFound(n) THEN UNCHANGED treeVars ELSE Link(n)

Erase(n) ==
    /\ doing = "none"
    /\ answer' = Given(n)
    /\ IF IsFound(n)
       THEN Unlink(n) /\ datum' = [datum EXCEPT ![n] = Missing]
       ELSE UNCHANGED <<treeVars, datum>>

(* ss_strmap_clear *)
Clear ==
    /\ doing = "none"
    /\ tree' = EmptyTree
    /\ datum' = [n \in Name |-> Missing]
    /\ UNCHANGED <<doing, at, answer>>

MapNext ==
    \/ \E n \in Name : Get(n) \/ Erase(n) \/ \E d \in Datum : Put(n, d)
    \/ Clear
    \/ Rebalance /\ UNCHANGED <<datum, answer>>

MapSpec == MapInit /\ [][MapNext]_mapVars

-----------------------------------------------------------------------------
(* What is visited by ss_strmap_foreach is what was put in and not erased    *)
(* since, also in the middle of rebalancing, and a name is found if it is    *)
(* there, though names share hashes.                                         *)
Contents == INSTANCE Dictionary
    WITH dict <- [n \in Range(Below(tree.root)) |-> datum[n]]

ImplementsDictionary == Contents!Spec
=============================================================================
