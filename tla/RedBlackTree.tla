----------------------------- MODULE RedBlackTree -----------------------------
(***************************************************************************)
(* The red-black tree of util/ss_rbtree.c, as the string map uses it: a    *)
(* node is called by the name it is for, and names are numbers in the      *)
(* order of strcmp.  A turn of a loop that rebalances is one step.  The    *)
(* code has each turn twice, one the mirror image of the other; here the   *)
(* side is a parameter.                                                    *)
(***************************************************************************)
EXTENDS Naturals, Sequences, FiniteSets

CONSTANTS
    Name,
    Hash,        \* the key of each name's node, which several names may share
    Sentinel,    \* the node below the last ones
    Null

ASSUME TreeAssumption ==
    /\ Name \subseteq Nat /\ IsFiniteSet(Name)
    /\ Sentinel \notin Name /\ Null \notin Name \cup {Sentinel}
    /\ Hash \in [Name -> Nat]

VARIABLES
    tree,        \* root; child and parent, the pointers of the nodes; red, the nodes that are
    doing,       \* the call whose loop is running
    at           \* its local: node in ss_rbtree_insert, temp in ss_rbtree_delete

treeVars == <<tree, doing, at>>

Side == {"left", "right"}
Other(s) == IF s = "left" THEN "right" ELSE "left"

(* ss_rbtree_init: but for its colour the sentinel is left as it is.        *)
EmptyTree ==
    [root   |-> Sentinel,
     child  |-> [e \in Side \X (Name \cup {Sentinel}) |-> Null],
     parent |-> [n \in Name \cup {Sentinel} |-> Null],
     red    |-> {}]

TreeInit ==
    /\ tree = EmptyTree
    /\ doing = "none"
    /\ at = Null

(* node->left or node->right *)
Kid(t, s, n) == t.child[<<s, n>>]

-----------------------------------------------------------------------------
(* Mutant: names that share a hash are not told apart.                      *)
HashesOnly(m, n) == Hash[m] < Hash[n]

(* The comparison of insert and lookup, with ss_strmap_comparator for names *)
(* that share a hash.                                                       *)
Precedes(m, n) == Hash[m] < Hash[n] \/ (Hash[m] = Hash[n] /\ m < n)

SideFor(n, m) == IF Precedes(n, m) THEN "left" ELSE "right"

(* The way from the root to the node of a name, or to where it would be.    *)
Way(n) ==
    LET after(m) == IF m \in Name \ {n} THEN Kid(tree, SideFor(n, m), m) ELSE m
        step[d \in 0..Cardinality(Name)] ==
          IF d = 0 THEN tree.root ELSE after(step[d - 1])
    IN  {step[d] : d \in DOMAIN step}

(* ss_rbtree_lookup finds a node. *)
IsFound(n) == n \in Way(n)

(* ss_rbtree_min *)
Lowest(t, n) ==
    LET after(m) == IF Kid(t, "left", m) \in Name THEN Kid(t, "left", m) ELSE m
        step[d \in 0..Cardinality(Name)] == IF d = 0 THEN n ELSE after(step[d - 1])
    IN  step[Cardinality(Name)]

(* ss_rbtree_next: the first of the right subtree, or the first node above  *)
(* of which this is to the left.                                            *)
Successor(n) ==
    LET after(m) ==
          IF m # tree.root /\ m # Kid(tree, "left", tree.parent[m]) THEN tree.parent[m] ELSE m
        climb[d \in 0..Cardinality(Name)] == IF d = 0 THEN n ELSE after(climb[d - 1])
        top == climb[Cardinality(Name)]
    IN  IF Kid(tree, "right", n) # Sentinel THEN Lowest(tree, Kid(tree, "right", n))
        ELSE IF top = tree.root THEN Null ELSE tree.parent[top]

-----------------------------------------------------------------------------
Blackened(t, nodes) == [t EXCEPT !.red = @ \ nodes]
Reddened(t, nodes) == [t EXCEPT !.red = @ \cup nodes]

(* On which side of its parent a node is.                                   *)
SideOf(t, n) == IF Kid(t, "left", t.parent[n]) = n THEN "left" ELSE "right"

(* Mutant: the subtree that changes sides keeps its parent.                 *)
HalfRotated(t, s, n) ==
    LET up == Kid(t, Other(s), n)
    IN  [t EXCEPT
           !.root = IF n = @ THEN up ELSE @,
           !.child = [e \in DOMAIN @ |->
                        IF e = <<Other(s), n>> THEN Kid(t, s, up)
                        ELSE IF e = <<s, up>> THEN n
                        ELSE IF n # t.root /\ e = <<SideOf(t, n), t.parent[n]>> THEN up
                        ELSE @[e]],
           !.parent = [@ EXCEPT ![n] = up, ![up] = t.parent[n]]]

(* ss_rbtree_left_rotate and its mirror image: the child of n on the other  *)
(* side takes the place of n, which goes down to side s.                    *)
Rotated(t, s, n) ==
    LET up == Kid(t, Other(s), n)
        inner == Kid(t, s, up)
    IN  [t EXCEPT
           !.root = IF n = @ THEN up ELSE @,
           !.child = [e \in DOMAIN @ |->
                        IF e = <<Other(s), n>> THEN inner
                        ELSE IF e = <<s, up>> THEN n
                        ELSE IF n # t.root /\ e = <<SideOf(t, n), t.parent[n]>> THEN up
                        ELSE @[e]],
           !.parent = [m \in DOMAIN @ |->
                         IF m = n THEN up
                         ELSE IF m = up THEN t.parent[n]
                         ELSE IF m = inner /\ m # Sentinel THEN n
                         ELSE @[m]]]

(* ss_rbtree_insert up to its loop. *)
LinkFirst(n) ==
    /\ tree.root = Sentinel
    /\ tree' = [tree EXCEPT
                  !.root = n,
                  !.child[<<"left", n>>] = Sentinel, !.child[<<"right", n>>] = Sentinel,
                  !.parent[n] = Null,
                  !.red = @ \ {n}]
    /\ UNCHANGED <<doing, at>>

LinkBelow(n, m) ==
    /\ m \in Way(n) \cap Name
    /\ Kid(tree, SideFor(n, m), m) = Sentinel
    /\ tree' = [tree EXCEPT
                  !.child[<<SideFor(n, m), m>>] = n,
                  !.child[<<"left", n>>] = Sentinel, !.child[<<"right", n>>] = Sentinel,
                  !.parent[n] = m,
                  !.red = @ \cup {n}]
    /\ doing' = "insert"
    /\ at' = n

Link(n) == LinkFirst(n) \/ \E m \in Name : LinkBelow(n, m)

(* The loop of ss_rbtree_insert. *)
TwoReds == at # tree.root /\ tree.parent[at] \in tree.red

Grandparent == tree.parent[tree.parent[at]]

Uncle == Kid(tree, Other(SideOf(tree, tree.parent[at])), Grandparent)

InsertRecolours ==
    /\ doing = "insert" /\ TwoReds
    /\ Uncle \in tree.red
    /\ tree' = Reddened(Blackened(tree, {tree.parent[at], Uncle}), {Grandparent})
    /\ at' = Grandparent
    /\ UNCHANGED doing

InsertRotates ==
    /\ doing = "insert" /\ TwoReds
    /\ Uncle \notin tree.red
    /\ LET s == SideOf(tree, tree.parent[at])
           isInner == at = Kid(tree, Other(s), tree.parent[at])
           node == IF isInner THEN tree.parent[at] ELSE at
           outer == IF isInner THEN Rotated(tree, s, node) ELSE tree
           p == outer.parent[node]
           g == outer.parent[p]
       IN  /\ tree' = Rotated(Reddened(Blackened(outer, {p}), {g}), Other(s), g)
           /\ at' = node
    /\ UNCHANGED doing

InsertEnds ==
    /\ doing = "insert" /\ ~TwoReds
    /\ tree' = Blackened(tree, {tree.root})
    /\ doing' = "none"
    /\ at' = Null

-----------------------------------------------------------------------------
(* ss_rbtree_delete up to its loop: the node that is taken out of its place *)
(* is n itself or, if n has two children, the next one, which then gets the *)
(* place and the colour of n.                                               *)
Subst(n) ==
    IF Sentinel \in {Kid(tree, "left", n), Kid(tree, "right", n)}
    THEN n ELSE Lowest(tree, Kid(tree, "right", n))

(* The child that moves up into the place of Subst(n).                      *)
MovingUp(n) ==
    IF Kid(tree, "left", Subst(n)) = Sentinel
    THEN Kid(tree, "right", Subst(n)) ELSE Kid(tree, "left", Subst(n))

(* The pointers and the colour of a node that is freed.                     *)
Cleared(t, n) ==
    [t EXCEPT !.child[<<"left", n>>] = Null, !.child[<<"right", n>>] = Null,
              !.parent[n] = Null, !.red = @ \ {n}]

UnlinkRoot(n) ==
    /\ Subst(n) = tree.root
    /\ tree' = Cleared(Blackened([tree EXCEPT !.root = MovingUp(n)], {MovingUp(n)}), n)
    /\ UNCHANGED <<doing, at>>

(* Mutant: the parent of what moves up is set before the place is given     *)
(* away, also if that parent is n itself.                                   *)
ParentAtFirst(n) == tree.parent[Subst(n)]

NewParent(n) == IF tree.parent[Subst(n)] = n /\ Subst(n) # n THEN Subst(n) ELSE tree.parent[Subst(n)]

(* The tree without Subst(n) in its old place.                              *)
TakenOut(n) ==
    [tree EXCEPT
       !.child[<<SideOf(tree, Subst(n)), tree.parent[Subst(n)]>>] = MovingUp(n),
       !.parent[MovingUp(n)] = NewParent(n)]

(* Subst(n) in the place of n.                                              *)
Replacing(t, n) ==
    LET s == Subst(n)
    IN  [t EXCEPT
           !.root = IF @ = n THEN s ELSE @,
           !.child = [e \in DOMAIN @ |->
                        IF e[2] = s THEN Kid(t, e[1], n)
                        ELSE IF n # t.root /\ e = <<SideOf(t, n), t.parent[n]>> THEN s
                        ELSE @[e]],
           !.parent = [m \in DOMAIN @ |->
                         IF m = s THEN t.parent[n]
                         ELSE IF m # Sentinel /\ m \in {Kid(t, "left", n), Kid(t, "right", n)} THEN s
                         ELSE @[m]],
           !.red = IF n \in @ THEN @ \cup {s} ELSE @ \ {s}]

UnlinkInner(n) ==
    /\ Subst(n) # tree.root
    /\ tree' = Cleared(IF Subst(n) = n THEN TakenOut(n) ELSE Replacing(TakenOut(n), n), n)
    /\ IF Subst(n) \in tree.red
       THEN UNCHANGED <<doing, at>>
       ELSE doing' = "delete" /\ at' = MovingUp(n)

Unlink(n) == UnlinkRoot(n) \/ UnlinkInner(n)

(* The loop of ss_rbtree_delete. *)
OneBlackShort == at # tree.root /\ at \notin tree.red

(* With the sibling made black, if it was red, by a rotation.               *)
BlackSibling ==
    LET p == tree.parent[at]
        s == SideOf(tree, at)
        w == Kid(tree, Other(s), p)
    IN  IF w \in tree.red
        THEN Rotated(Reddened(Blackened(tree, {w}), {p}), s, p)
        ELSE tree

DeleteStep(t) ==
    LET p == t.parent[at]
        s == SideOf(t, at)
        w == Kid(t, Other(s), p)
    IN  IF {Kid(t, "left", w), Kid(t, "right", w)} \cap t.red = {}
        THEN /\ tree' = Reddened(t, {w})
             /\ at' = p
        ELSE LET far == Kid(t, Other(s), w)
                 u == IF far \in t.red THEN t
                      ELSE Rotated(Reddened(Blackened(t, {Kid(t, s, w)}), {w}), Other(s), w)
                 sib == Kid(u, Other(s), p)
                 coloured == IF p \in u.red THEN Reddened(u, {sib}) ELSE Blackened(u, {sib})
             IN  /\ tree' = Rotated(Blackened(coloured, {p, Kid(u, Other(s), sib)}), s, p)
                 /\ at' = tree'.root

DeleteBalances ==
    /\ doing = "delete" /\ OneBlackShort
    /\ DeleteStep(BlackSibling)
    /\ UNCHANGED doing

DeleteEnds ==
    /\ doing = "delete" /\ ~OneBlackShort
    /\ tree' = Blackened(tree, {at})
    /\ doing' = "none"
    /\ at' = Null

Rebalance ==
    InsertRecolours \/ InsertRotates \/ InsertEnds \/ DeleteBalances \/ DeleteEnds

-----------------------------------------------------------------------------
(* The nodes below one, in order.                                            *)
Below(n) ==
    LET around(lower, m) ==
          IF m \in Name
          THEN lower[Kid(tree, "left", m)] \o <<m>> \o lower[Kid(tree, "right", m)] ELSE <<>>
        walk[d \in 0..Cardinality(Name)] ==
          [m \in Name \cup {Sentinel, Null} |-> IF d = 0 THEN <<>> ELSE around(walk[d - 1], m)]
    IN  walk[Cardinality(Name)][n]

(* The numbers of black nodes on the ways down from the root, where the node *)
(* from which a deletion goes on counts for one more.                        *)
Blacks ==
    LET extra(s, m) ==
          IF doing = "delete" /\ Kid(tree, s, m) = at /\ tree.parent[at] = m THEN 1 ELSE 0
        own(m) == IF m \in tree.red THEN 0 ELSE 1
        through(lower, m) ==
          IF m \in Name
          THEN UNION {{b + extra(s, m) + own(m) : b \in lower[Kid(tree, s, m)]} : s \in Side} ELSE {0}
        below[d \in 0..Cardinality(Name)] ==
          [m \in Name \cup {Sentinel, Null} |-> IF d = 0 THEN {0} ELSE through(below[d - 1], m)]
    IN  below[Cardinality(Name)][tree.root]

(* Between calls the tree is balanced: the root is black, no red node has a  *)
(* red parent, and all ways down have the same number of black nodes.  While *)
(* a loop is running it has one exception to get rid of: two reds at node at *)
(* or a black missing there; rotations neither lose a node nor balance one   *)
(* side at the cost of another.                                              *)
Balanced ==
    /\ Cardinality(Blacks) = 1
    /\ tree.root \in tree.red => doing # "none"
    /\ \A e \in DOMAIN tree.child :
         e[2] \in tree.red /\ tree.child[e] \in tree.red =>
            \/ doing = "insert" /\ at = tree.child[e]
            \/ doing = "delete" /\ at \in {tree.child[e], e[2]}

(* The nodes are in the order of their names whatever has been rotated, and  *)
(* ss_rbtree_next goes from each to the one that ss_strmap_foreach visits    *)
(* after it, though the root may have a freed node for a parent.             *)
NextIsInOrder ==
    LET visited == Below(tree.root)
    IN  \A k \in DOMAIN visited :
           IF k = Len(visited) THEN Successor(visited[k]) = Null
           ELSE Precedes(visited[k], visited[k + 1]) /\ Successor(visited[k]) = visited[k + 1]
=============================================================================
