------------------------------ MODULE LinkedList ------------------------------
(***************************************************************************)
(* The doubly linked list of util/ss_linked_list.c, by its pointers, for   *)
(* callers that put a node into the list only when it is in none.          *)
(***************************************************************************)
EXTENDS Naturals, Sequences, FiniteSets, SequencesExt

CONSTANTS
    Node,        \* the blocks that malloc may give out for nodes
    head, tail,  \* the nodes at the ends, which have no data
    Nil

ASSUME ListAssumption ==
    /\ IsFiniteSet(Node)
    /\ head # tail /\ {head, tail} \cap Node = {}
    /\ Nil \notin Node \cup {head, tail}

VARIABLES
    next, prev,  \* the pointers of each node
    allocated    \* the nodes that are not free

listVars == <<next, prev, allocated>>

(* ss_linked_list_initialize *)
ListInit ==
    /\ next = [n \in Node \cup {head, tail} |-> IF n = head THEN tail ELSE Nil]
    /\ prev = [n \in Node \cup {head, tail} |-> IF n = tail THEN head ELSE Nil]
    /\ allocated = {}

(* The nodes on the way along the pointers from one end, as in              *)
(* ss_linked_list_length.                                                   *)
Walk(pointer, end) ==
    LET at[k \in 0..Cardinality(Node)] ==
          IF k = 0 THEN pointer[end]
          ELSE IF at[k - 1] \in Node THEN pointer[at[k - 1]] ELSE Nil
    IN  [k \in 1..Cardinality({j \in DOMAIN at : at[j] \in Node}) |-> at[k - 1]]

List == Walk(next, head)

InList(n) == n \in ToSet(List)

(* A node that linked_node_create made and that is in no list.              *)
IsLoose(n) == n \in allocated /\ next[n] = Nil /\ prev[n] = Nil

-----------------------------------------------------------------------------
(* Mutant: the node before is not told.                                     *)
HalfInserted(n, before) ==
    /\ next' = [next EXCEPT ![n] = before]
    /\ prev' = [prev EXCEPT ![n] = prev[before], ![before] = n]

(* linked_node_insert_before *)
Inserted(n, before) ==
    /\ next' = [m \in DOMAIN next |->
                  IF m = n THEN before ELSE IF m = prev[before] THEN n ELSE next[m]]
    /\ prev' = [prev EXCEPT ![n] = prev[before], ![before] = n]

(* Mutant: the node keeps its pointers.                                     *)
DetachedKeepingPointers(n) ==
    /\ next' = IF prev[n] = Nil THEN next ELSE [next EXCEPT ![prev[n]] = next[n]]
    /\ prev' = IF next[n] = Nil THEN prev ELSE [prev EXCEPT ![next[n]] = prev[n]]

(* linkde_node_detach *)
Detached(n) ==
    /\ next' = [m \in DOMAIN next |->
                  IF m = n THEN Nil ELSE IF m = prev[n] THEN next[n] ELSE next[m]]
    /\ prev' = [m \in DOMAIN prev |->
                  IF m = n THEN Nil ELSE IF m = next[n] THEN prev[n] ELSE prev[m]]

Create(n) == n \notin allocated /\ allocated' = allocated \cup {n}

AppendNew(n) == Create(n) /\ Inserted(n, tail)
PrependNew(n) == Create(n) /\ Inserted(n, next[head])
InsertNew(n, before) == Create(n) /\ InList(before) /\ Inserted(n, before)

AppendNode(n) == IsLoose(n) /\ Inserted(n, tail) /\ UNCHANGED allocated
InsertNode(n, before) ==
    IsLoose(n) /\ InList(before) /\ Inserted(n, before) /\ UNCHANGED allocated

(* ss_linked_list_prepend_node puts the node before the head itself.        *)
PrependNode(n) == IsLoose(n) /\ Inserted(n, head) /\ UNCHANGED allocated

(* ss_linked_list_pop_node_front: n is the first node. *)
PopNodeFront(n) ==
    /\ n = next[head]
    /\ n \notin {Nil, tail}
    /\ Detached(n)
    /\ UNCHANGED allocated

Detach(n) == n \in allocated /\ Detached(n) /\ UNCHANGED allocated

(* ss_linked_list_remove: the node may have been detached before, as it is  *)
(* in ss_dns_get_inner.                                                     *)
RemoveNode(n) ==
    /\ n \in allocated
    /\ Detached(n)
    /\ allocated' = allocated \ {n}

ListNext ==
    \E n \in Node :
        \/ AppendNew(n) \/ PrependNew(n) \/ AppendNode(n) \/ PrependNode(n)
        \/ PopNodeFront(n) \/ Detach(n) \/ RemoveNode(n)
        \/ \E before \in Node : InsertNew(n, before) \/ InsertNode(n, before)

ListSpec == ListInit /\ [][ListNext]_listVars

-----------------------------------------------------------------------------
(* The list is the same in both directions, and its nodes are not free:      *)
(* nothing that was removed can be reached.                                  *)
ListIsSound ==
    /\ Walk(prev, tail) = Reverse(List)
    /\ IsInjective(List)
    /\ ToSet(List) \subseteq allocated
    /\ \A n \in Node \ allocated : next[n] = Nil /\ prev[n] = Nil

(* A call puts its node where its name says and leaves the others in their   *)
(* order; a node that is in no list may be detached or removed again without *)
(* harm.                                                                     *)
OrderIsKept ==
    [][\A n \in Node :
         /\ AppendNew(n) \/ AppendNode(n) => List' = Append(List, n)
         /\ PrependNew(n) => List' = <<n>> \o List
         /\ \A before \in Node :
              InsertNew(n, before) \/ InsertNode(n, before) =>
                \E k \in DOMAIN List : List[k] = before /\ List' = InsertAt(List, k, n)
         /\ PopNodeFront(n) => List' = Tail(List)
         /\ Detach(n) \/ RemoveNode(n) =>
              \/ ~InList(n) /\ List' = List
              \/ \E k \in DOMAIN List : List[k] = n /\ List' = RemoveAt(List, k)]_listVars
=============================================================================
