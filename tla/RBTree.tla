------------------------------- MODULE RBTree -------------------------------
(***************************************************************************)
(* The red-black tree of platform/src/uti_rbtree.c, with the search tree   *)
(* insertion that uti_timer.c builds from it.                              *)
(*                                                                         *)
(* An insertion or an erasure is one step that changes the tree, then one  *)
(* step for each iteration of the loop that repairs the colours.  The code *)
(* spells each case out twice, for left and right; here a case has a side  *)
(* s, "the other way round" for Flip(s).                                   *)
(***************************************************************************)
EXTENDS Integers, FiniteSets

CONSTANTS
  Node,
  NULL,
  Key,      \* the key of each node: its rank by uti_timer_cmp
  Expire    \* timeExpire of each node, which Key ranks first

ASSUME NodeAssumption ==
  /\ NULL \notin Node
  /\ IsFiniteSet(Node)
  /\ Key \in [Node -> Int]
  /\ Expire \in [Node -> Int]
  /\ \A m, n \in Node : Expire[m] < Expire[n] => Key[m] < Key[n]

VARIABLES
  tree,     \* the root, the fields of each node, and which nodes are red
  pc,       \* the loop that is running
  node,     \* its local variable node
  up        \* its local variable parent, in __rb_erase_color

vars == <<tree, pc, node, up>>

Side == {"left", "right"}
Flip(s) == IF s = "left" THEN "right" ELSE "left"

Link == Node \cup {NULL}

Tree == [root : Link, kid : [Node -> [Side -> Link]], parent : [Node -> Link],
         red : SUBSET Node]

NoKids == [s \in Side |-> NULL]

TypeOK ==
  /\ tree \in Tree
  /\ pc \in {"idle", "insert_color", "erase_color"}
  /\ node \in Link
  /\ up \in Link

-----------------------------------------------------------------------------
(* Operations on a tree t.                                                 *)

(* A NULL child is black.                                                  *)
IsRed(t, n) == n \in t.red

SideOf(t, p, n) == IF t.kid[p]["left"] = n THEN "left" ELSE "right"

SetParent(t, n, p) == IF n = NULL THEN t ELSE [t EXCEPT !.parent[n] = p]

(* The link to n, from its parent p or from the root, leads to m now.      *)
Relink(t, p, n, m) ==
  IF p = NULL THEN [t EXCEPT !.root = m]
              ELSE [t EXCEPT !.kid[p][SideOf(t, p, n)] = m]

MutRotate(t, n, s) ==
  LET c == t.kid[n][Flip(s)]
      p == t.parent[n]
      g == t.kid[c][s]
      u == [t EXCEPT !.kid[n][Flip(s)] = g,
                     !.kid[c][s] = n,
                     !.parent[c] = p]
  IN  [Relink(u, p, n, c) EXCEPT !.parent[n] = c]

(* __rb_rotate_left and __rb_rotate_right: n goes down on side s, and its  *)
(* child on the other side takes its place.                                *)
Rotate(t, n, s) ==
  LET c == t.kid[n][Flip(s)]
      p == t.parent[n]
      g == t.kid[c][s]
      u == [SetParent(t, g, n) EXCEPT !.kid[n][Flip(s)] = g,
                                      !.kid[c][s] = n,
                                      !.parent[c] = p]
  IN  [Relink(u, p, n, c) EXCEPT !.parent[n] = c]

(* From n down to the last node on side s.                                 *)
Extreme(t, n, s) ==
  LET go[m \in Node] == IF t.kid[m][s] = NULL THEN m ELSE go[t.kid[m][s]]
  IN  IF n = NULL THEN NULL ELSE go[n]

uti_rb_first(t) == Extreme(t, t.root, "left")
uti_rb_last(t)  == Extreme(t, t.root, "right")

MutNeighbour(t, n, s) ==
  IF t.kid[n][s] # NULL THEN Extreme(t, t.kid[n][s], Flip(s)) ELSE t.parent[n]

(* The neighbour of n on side s: the nearest node below it, or up past all *)
(* the ancestors that have n on that side.                                 *)
Neighbour(t, n, s) ==
  LET climb[m \in Node] ==
        LET p == t.parent[m] IN
        IF p # NULL /\ t.kid[p][s] = m THEN climb[p] ELSE p
  IN  IF t.parent[n] = n THEN NULL
      ELSE IF t.kid[n][s] # NULL THEN Extreme(t, t.kid[n][s], Flip(s))
      ELSE climb[n]

uti_rb_next(t, n) == Neighbour(t, n, "right")
uti_rb_prev(t, n) == Neighbour(t, n, "left")

(* uti_timer_rbtree_search: a node with this expiry, or NULL.              *)
uti_timer_rbtree_search(t, e) ==
  LET down[m \in Link] ==
        IF m = NULL \/ Expire[m] = e THEN m
        ELSE down[t.kid[m][IF e < Expire[m] THEN "left" ELSE "right"]]
  IN  down[t.root]

Toward(m, n) == IF Key[n] < Key[m] THEN "left" ELSE "right"

(* Where the search for the key of n ends: at a node with that key, or at  *)
(* the one that n becomes a child of.                                      *)
InsertPoint(t, n) ==
  LET down[m \in Node] ==
        LET c == t.kid[m][Toward(m, n)] IN
        IF Key[m] = Key[n] \/ c = NULL THEN m ELSE down[c]
  IN  IF t.root = NULL THEN NULL ELSE down[t.root]

MutLinkNode(t, n, p) ==
  LET u == [t EXCEPT !.kid[n] = NoKids, !.parent[n] = p, !.red = @ \cup {p}]
  IN  IF p = NULL THEN [u EXCEPT !.root = n]
                  ELSE [u EXCEPT !.kid[p][Toward(p, n)] = n]

(* uti_rb_link_node: n becomes a leaf, and red.                            *)
LinkNode(t, n, p) ==
  LET u == [t EXCEPT !.kid[n] = NoKids, !.parent[n] = p, !.red = @ \cup {n}]
  IN  IF p = NULL THEN [u EXCEPT !.root = n]
                  ELSE [u EXCEPT !.kid[p][Toward(p, n)] = n]

(* The fields of a node out of the tree are not kept: link_node and        *)
(* replace_node overwrite them.                                            *)
Forget(t, n) ==
  [t EXCEPT !.kid[n] = NoKids, !.parent[n] = NULL, !.red = @ \ {n}]

(* uti_rb_erase without __rb_erase_color, when n has at most one child...  *)
UnlinkTop(t, n) ==
  LET child == t.kid[n][IF t.kid[n]["left"] = NULL THEN "right" ELSE "left"]
      p == t.parent[n]
  IN  [tree  |-> Forget(Relink(SetParent(t, child, p), p, n, child), n),
       child |-> child, parent |-> p, red |-> IsRed(t, n)]

MutUnlinkInner(t, n) ==
  LET m == Extreme(t, t.kid[n]["right"], "left")
      child == t.kid[m]["right"]
      p == t.parent[m]
      t1 == SetParent(t, child, p)
      t2 == [t1 EXCEPT !.kid[p]["left"] = child]
      t3 == [t2 EXCEPT !.kid[m] = t2.kid[n],
                       !.parent[m] = t2.parent[n],
                       !.red = IF IsRed(t, n) THEN @ \cup {m} ELSE @ \ {m}]
      t4 == Relink(t3, t3.parent[n], n, m)
      t5 == SetParent(SetParent(t4, t4.kid[n]["left"], m),
                      t4.kid[n]["right"], m)
  IN  [tree  |-> Forget(t5, n), child |-> child,
       parent |-> IF p = n THEN m ELSE p, red |-> IsRed(t, m)]

(* ... and when it has two: its successor m takes its place and colour.    *)
UnlinkInner(t, n) ==
  LET m == Extreme(t, t.kid[n]["right"], "left")
      child == t.kid[m]["right"]
      p == t.parent[m]
      t1 == SetParent(t, child, p)
      t2 == IF p = n THEN [t1 EXCEPT !.kid[n]["right"] = child]
                     ELSE [t1 EXCEPT !.kid[p]["left"] = child]
      t3 == [t2 EXCEPT !.kid[m] = t2.kid[n],
                       !.parent[m] = t2.parent[n],
                       !.red = IF IsRed(t, n) THEN @ \cup {m} ELSE @ \ {m}]
      t4 == Relink(t3, t3.parent[n], n, m)
      t5 == SetParent(SetParent(t4, t4.kid[n]["left"], m),
                      t4.kid[n]["right"], m)
  IN  [tree  |-> Forget(t5, n), child |-> child,
       parent |-> IF p = n THEN m ELSE p, red |-> IsRed(t, m)]

Unlink(t, n) == IF NULL \in {t.kid[n][s] : s \in Side} THEN UnlinkTop(t, n)
                                                       ELSE UnlinkInner(t, n)

-----------------------------------------------------------------------------
(* The nodes reached from n in at most i links, and all of them: a         *)
(* definition that makes sense for links that form no tree.                *)
ReachIn(t, n) ==
  LET r[i \in Nat] ==
        ({n} \cup IF i = 0 THEN {}
                 ELSE {t.kid[m][s] : m \in r[i - 1], s \in Side}) \ {NULL}
  IN  r[Cardinality(Node)]

Members == ReachIn(tree, tree.root)

-----------------------------------------------------------------------------
Init ==
  /\ tree = [root |-> NULL, kid |-> [n \in Node |-> NoKids],
             parent |-> [n \in Node |-> NULL], red |-> {}]
  /\ pc = "idle"
  /\ node = NULL
  /\ up = NULL

(* uti_timer_rbtree_insert; a node whose key is taken is not linked.       *)
Insert(n) ==
  /\ pc = "idle"
  /\ n \notin Members
  /\ LET p == InsertPoint(tree, n) IN
       /\ p # NULL => Key[p] # Key[n]
       /\ tree' = LinkNode(tree, n, p)
  /\ pc' = "insert_color"
  /\ node' = n
  /\ UNCHANGED up

(* The loop condition of uti_rb_insert_color: a red parent.                *)
RedParent == tree.parent[node] # NULL /\ IsRed(tree, tree.parent[node])

MutInsertRecolour ==
  /\ pc = "insert_color"
  /\ RedParent
  /\ LET p == tree.parent[node]
         g == tree.parent[p]
         uncle == tree.kid[g][Flip(SideOf(tree, g, p))]
     IN  /\ IsRed(tree, uncle)
         /\ tree' = [tree EXCEPT !.red = (@ \ {p}) \cup {g}]
         /\ node' = g
  /\ UNCHANGED <<pc, up>>

InsertRecolour ==
  /\ pc = "insert_color"
  /\ RedParent
  /\ LET p == tree.parent[node]
         g == tree.parent[p]
         uncle == tree.kid[g][Flip(SideOf(tree, g, p))]
     IN  /\ IsRed(tree, uncle)
         /\ tree' = [tree EXCEPT !.red = (@ \ {p, uncle}) \cup {g}]
         /\ node' = g
  /\ UNCHANGED <<pc, up>>

(* A node on the inner side is first rotated to the outer side.            *)
InsertRotate ==
  /\ pc = "insert_color"
  /\ RedParent
  /\ LET p == tree.parent[node]
         g == tree.parent[p]
         s == SideOf(tree, g, p)
         inner == tree.kid[p][Flip(s)] = node
         t == IF inner THEN Rotate(tree, p, s) ELSE tree
         top == IF inner THEN node ELSE p
     IN  /\ ~IsRed(tree, tree.kid[g][Flip(s)])
         /\ tree' = Rotate([t EXCEPT !.red = (@ \ {top}) \cup {g}], g, Flip(s))
         /\ node' = IF inner THEN p ELSE node
  /\ UNCHANGED <<pc, up>>

MutInsertDone ==
  /\ pc = "insert_color"
  /\ ~RedParent
  /\ pc' = "idle"
  /\ node' = NULL
  /\ UNCHANGED <<tree, up>>

InsertDone ==
  /\ pc = "insert_color"
  /\ ~RedParent
  /\ tree' = [tree EXCEPT !.red = @ \ {tree.root}]
  /\ pc' = "idle"
  /\ node' = NULL
  /\ UNCHANGED up

-----------------------------------------------------------------------------
(* uti_rb_erase up to the test of the colour that has gone.                *)
Erase(n) ==
  /\ pc = "idle"
  /\ n \in Members
  /\ LET u == Unlink(tree, n) IN
       /\ tree' = u.tree
       /\ IF u.red THEN UNCHANGED <<pc, node, up>>
          ELSE pc' = "erase_color" /\ node' = u.child /\ up' = u.parent

(* The loop condition of __rb_erase_color.                                 *)
BlackNode == ~IsRed(tree, node) /\ node # tree.root

Sibling(t, s) == t.kid[up][Flip(s)]

(* A red sibling is rotated above parent first, so that it is black.       *)
BlackSibling(s) ==
  LET other == Sibling(tree, s) IN
  IF IsRed(tree, other)
    THEN Rotate([tree EXCEPT !.red = (@ \ {other}) \cup {up}], up, s)
    ELSE tree

Nephews(t, s) == {t.kid[Sibling(t, s)][r] : r \in Side}

MutEraseRecolour ==
  /\ pc = "erase_color"
  /\ BlackNode
  /\ LET s == SideOf(tree, up, node)
         t == BlackSibling(s)
     IN  /\ \A n \in Nephews(t, s) : ~IsRed(t, n)
         /\ tree' = t
  /\ UNCHANGED <<pc, node, up>>

EraseRecolour ==
  /\ pc = "erase_color"
  /\ BlackNode
  /\ LET s == SideOf(tree, up, node)
         t == BlackSibling(s)
     IN  /\ \A n \in Nephews(t, s) : ~IsRed(t, n)
         /\ tree' = [t EXCEPT !.red = @ \cup {Sibling(t, s)}]
         /\ node' = up
         /\ up' = t.parent[up]
  /\ UNCHANGED pc

(* If the far nephew is black, the near one is rotated above the sibling.  *)
FarRed(t, s) ==
  LET other == Sibling(t, s)
      near == t.kid[other][s]
  IN  IF IsRed(t, t.kid[other][Flip(s)]) THEN t
      ELSE Rotate([t EXCEPT !.red = (@ \ {near}) \cup {other}], other, Flip(s))

(* This leaves the loop; node is the root then, and is made black.         *)
EraseRotate ==
  /\ pc = "erase_color"
  /\ BlackNode
  /\ LET s == SideOf(tree, up, node)
         t == BlackSibling(s)
         f == FarRed(t, s)
         other == Sibling(f, s)
         black == f.red \ {up, f.kid[other][Flip(s)]}
         g == Rotate([f EXCEPT !.red = IF IsRed(f, up) THEN black \cup {other}
                                                       ELSE black \ {other}],
                     up, s)
     IN  /\ \E n \in Nephews(t, s) : IsRed(t, n)
         /\ tree' = [g EXCEPT !.red = @ \ {g.root}]
  /\ pc' = "idle"
  /\ node' = NULL
  /\ up' = NULL

EraseDone ==
  /\ pc = "erase_color"
  /\ ~BlackNode
  /\ tree' = [tree EXCEPT !.red = @ \ {node}]
  /\ pc' = "idle"
  /\ node' = NULL
  /\ up' = NULL

-----------------------------------------------------------------------------
(* uti_rb_replace_node, for a node of the same key.                        *)
Replace(victim, new) ==
  /\ pc = "idle"
  /\ victim \in Members
  /\ new \notin Members
  /\ Key[victim] = Key[new]
  /\ LET p == tree.parent[victim]
         k == tree.kid[victim]
         t == SetParent(SetParent(Relink(tree, p, victim, new), k["left"], new),
                        k["right"], new)
         u == [t EXCEPT !.kid[new] = k, !.parent[new] = p,
                        !.red = IF IsRed(t, victim) THEN @ \cup {new} ELSE @]
     IN  tree' = Forget(u, victim)
  /\ UNCHANGED <<pc, node, up>>

Rebalance ==
  \/ InsertRecolour
  \/ InsertRotate
  \/ InsertDone
  \/ EraseRecolour
  \/ EraseRotate
  \/ EraseDone

Next ==
  \/ \E n \in Node : Insert(n)
  \/ \E n \in Node : Erase(n)
  \/ \E v, n \in Node : Replace(v, n)
  \/ Rebalance

Spec == Init /\ [][Next]_vars

-----------------------------------------------------------------------------
(* Properties.                                                             *)

(* Parent and child pointers agree, and every node is between the nodes of *)
(* its two subtrees: through all the rotations, and whatever node an       *)
(* erasure pulls up (uti_rbtree.c:185-216).                                *)
SearchTree ==
  /\ tree.root # NULL => tree.parent[tree.root] = NULL
  /\ \A n \in Members :
       /\ \A s \in Side : LET c == tree.kid[n][s] IN
            c # NULL => tree.parent[c] = n
       /\ \A m \in ReachIn(tree, tree.kid[n]["left"]) : Key[m] < Key[n]
       /\ \A m \in ReachIn(tree, tree.kid[n]["right"]) : Key[m] > Key[n]

(* The nodes from n up to the root.                                        *)
Ancestors(n) ==
  LET a[i \in Nat] ==
        ({n} \cup IF i = 0 THEN {} ELSE {tree.parent[m] : m \in a[i - 1]}) \ {NULL}
  IN  a[Cardinality(Node)]

(* The NULL children of the tree.                                          *)
Leaves == {l \in Members \X Side : tree.kid[l[1]][l[2]] = NULL}

(* The leaves above which an erasure in progress has removed a black node. *)
Short(l) ==
  /\ pc = "erase_color"
  /\ IF node = NULL THEN l = <<up, SideOf(tree, up, NULL)>>
                    ELSE node \in Ancestors(l[1])

BlackHeight(l) ==
  Cardinality(Ancestors(l[1]) \ tree.red) + (IF Short(l) THEN 1 ELSE 0)

(* Between calls the root is black, no red node has a red parent, and      *)
(* every path down has as many black nodes.  While an insertion repairs    *)
(* this, node is the only red node that is the root or has a red parent.   *)
(* While an erasure does, no red node would have a red parent were node    *)
(* black, and the paths through node are the only ones that a black node   *)
(* is missing from (uti_rbtree.c:57-109, :116-175).                        *)
RedBlack ==
  /\ \A n \in Members \cap tree.red :
       (n = tree.root \/ IsRed(tree, tree.parent[n]))
         => \/ pc # "idle" /\ n = node
            \/ pc = "erase_color" /\ tree.parent[n] = node
  /\ Cardinality({BlackHeight(l) : l \in Leaves}) <= 1

(* The two loops read the colour and the children of a grandparent         *)
(* (uti_rbtree.c:60) and of a sibling (:119, :125) without testing them    *)
(* for NULL: they exist.                                                   *)
NoNullDeref ==
  /\ (pc = "insert_color" /\ RedParent)
       => tree.parent[tree.parent[node]] # NULL
  /\ (pc = "erase_color" /\ BlackNode)
       => /\ up # NULL
          /\ LET s == SideOf(tree, up, node) IN
               Sibling(tree, s) # NULL /\ Sibling(BlackSibling(s), s) # NULL

Lowest(S) == IF S = {} THEN NULL ELSE CHOOSE n \in S : \A m \in S : Key[n] <= Key[m]
Highest(S) == IF S = {} THEN NULL ELSE CHOOSE n \in S : \A m \in S : Key[n] >= Key[m]

(* first, last, next and prev give the order of the keys, which is all     *)
(* that timer_mgr_check_timer and timer_mgr_clear know of the tree         *)
(* (uti_timer.c:197-217, :301-326).                                        *)
TraversalCorrect ==
  /\ uti_rb_first(tree) = Lowest(Members)
  /\ uti_rb_last(tree) = Highest(Members)
  /\ \A n \in Members :
       /\ uti_rb_next(tree, n) = Lowest({m \in Members : Key[m] > Key[n]})
       /\ uti_rb_prev(tree, n) = Highest({m \in Members : Key[m] < Key[n]})

(* The local variable node moves up to a subtree that has the one it had   *)
(* before as a part.                                                       *)
Climbs ==
  /\ ReachIn(tree, node) \subseteq ReachIn(tree', node')
  /\ ReachIn(tree, node) # ReachIn(tree', node')

(* Neither loop runs for ever: each iteration after which it goes on       *)
(* climbs, through the rotation of a red sibling too, or is the rotation   *)
(* that leaves an insertion nothing to repair (uti_rbtree.c:57, :116).  So *)
(* there are no more iterations than nodes.                                *)
ClimbsOrEnds ==
  [][pc # "idle" /\ pc' = pc =>
       Climbs \/ (pc = "insert_color" /\ ~RedParent')]_vars

(* The tree is a set of nodes with distinct keys: an insertion adds its    *)
(* node and an erasure removes it, in one step, and the repairs lose none. *)
Set == INSTANCE OrderedSet WITH members <- Members
SetSpec == Set!Spec

(* uti_timer.c:70 says of uti_timer_rbtree_search: "find the timers with   *)
(* timeExpire, if found , will the first one timer", so it would return    *)
(* the first in key order of those with this expiry.                       *)
SearchFindsFirst ==
  pc = "idle" => \A e \in {Expire[n] : n \in Members} :
     uti_timer_rbtree_search(tree, e) = Lowest({n \in Members : Expire[n] = e})

=============================================================================
