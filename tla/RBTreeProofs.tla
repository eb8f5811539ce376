---------------------------- MODULE RBTreeProofs ----------------------------
(***************************************************************************)
(* Proofs about the red-black tree, for any finite set of nodes and any    *)
(* keys.                                                                   *)
(***************************************************************************)
EXTENDS RBTree, Recursion, TLAPS

-----------------------------------------------------------------------------
(* Sides and keys.                                                         *)

(* x is on side s of y.                                                    *)
On(s, x, y) == IF s = "left" THEN Key[x] < Key[y] ELSE Key[x] > Key[y]

LEMMA Sides ==
  ASSUME NEW s \in Side
  PROVE  /\ Flip(s) \in Side /\ Flip(s) # s /\ Flip(Flip(s)) = s
         /\ \A r \in Side : r = s \/ r = Flip(s)
BY DEF Side, Flip

LEMMA OnOrder ==
  ASSUME NEW s \in Side, NEW x \in Node, NEW y \in Node
  PROVE  /\ ~On(s, x, x)
         /\ On(s, x, y) <=> On(Flip(s), y, x)
         /\ ~(On(s, x, y) /\ On(Flip(s), x, y))
         /\ Key[x] # Key[y] <=> On(s, x, y) \/ On(Flip(s), x, y)
BY NodeAssumption DEF On, Side, Flip

LEMMA OnTransitive ==
  ASSUME NEW s \in Side, NEW x \in Node, NEW y \in Node, NEW z \in Node,
         On(s, x, y), On(s, y, z)
  PROVE  On(s, x, z)
BY NodeAssumption DEF On, Side, Flip

-----------------------------------------------------------------------------
(* The shape of a tree t, where sub labels each member with the members of *)
(* its subtree.                                                            *)

Sub(sub, n) == IF n = NULL THEN {} ELSE sub[n]

Mem(t, sub) == Sub(sub, t.root)

RootOK(t, sub) == t.root # NULL => t.root \in sub[t.root] /\ t.parent[t.root] = NULL

KidOK(t, sub, n, s) ==
  LET c == t.kid[n][s] IN
  /\ c # NULL => c \in Mem(t, sub) /\ t.parent[c] = n
  /\ sub[n] = {n} \cup Sub(sub, c) \cup Sub(sub, t.kid[n][Flip(s)])
  /\ \A x \in Sub(sub, c) : On(s, x, n)

OutOK(t, n) == t.kid[n] = NoKids /\ t.parent[n] = NULL /\ n \notin t.red

Shape(t, sub) ==
  /\ t \in Tree
  /\ sub \in [Node -> SUBSET Node]
  /\ RootOK(t, sub)
  /\ \A n \in Mem(t, sub), s \in Side : KidOK(t, sub, n, s)
  /\ \A n \in Node \ Mem(t, sub) : OutOK(t, n)

LEMMA TreeFields ==
  ASSUME NEW t \in Tree
  PROVE  /\ t.root \in Link
         /\ t.parent \in [Node -> Link]
         /\ t.kid \in [Node -> [Side -> Link]]
         /\ t.red \subseteq Node
         /\ \A n \in Node : t.parent[n] \in Link /\ t.kid[n] \in [Side -> Link]
         /\ \A n \in Node, s \in Side : t.kid[n][s] \in Link
         /\ t = [root |-> t.root, kid |-> t.kid, parent |-> t.parent, red |-> t.red]
<1>1. /\ t.root \in Link
      /\ t.parent \in [Node -> Link]
      /\ t.kid \in [Node -> [Side -> Link]]
      /\ t.red \subseteq Node
  BY DEF Tree
<1>2. t = [root |-> t.root, kid |-> t.kid, parent |-> t.parent, red |-> t.red]
  BY DEF Tree
<1>3. \A n \in Node : t.parent[n] \in Link /\ t.kid[n] \in [Side -> Link]
  BY <1>1
<1>4. \A n \in Node, s \in Side : t.kid[n][s] \in Link
  BY <1>3
<1> QED BY <1>1, <1>2, <1>3, <1>4

LEMMA LinkFacts ==
  /\ NULL \notin Node
  /\ \A n \in Link : n # NULL <=> n \in Node
BY NodeAssumption DEF Link

(* What a shape says of a member and its child on one side.                *)
LEMMA Members1 ==
  ASSUME NEW t, NEW sub, Shape(t, sub), NEW n \in Mem(t, sub)
  PROVE  /\ n \in Node
         /\ t.root \in Node /\ Mem(t, sub) = sub[t.root] /\ t.root \in Mem(t, sub)
         /\ n \in sub[n] /\ sub[n] \subseteq Node
         /\ t.parent[n] \in Link
<1>1. t.root \in Link /\ t.root # NULL
  BY TreeFields DEF Shape, Mem, Sub
<1>2. t.root \in Node
  BY <1>1, LinkFacts
<1>3. Mem(t, sub) = sub[t.root] /\ sub[t.root] \subseteq Node
  BY <1>1, <1>2 DEF Mem, Sub, Shape
<1>4. n \in sub[n]
  <2>1. KidOK(t, sub, n, "left")
    BY DEF Shape, Side
  <2> QED BY <2>1 DEF KidOK
<1> QED BY <1>1, <1>2, <1>3, <1>4, TreeFields DEF Shape, RootOK

LEMMA Kids ==
  ASSUME NEW t, NEW sub, Shape(t, sub), NEW n \in Mem(t, sub), NEW s \in Side
  PROVE  /\ t.kid[n][s] \in Link
         /\ t.kid[n][s] # NULL =>
              /\ t.kid[n][s] \in Mem(t, sub) /\ t.kid[n][s] \in Node
              /\ t.parent[t.kid[n][s]] = n
              /\ Sub(sub, t.kid[n][s]) = sub[t.kid[n][s]]
              /\ t.kid[n][s] \in sub[n]
              /\ On(s, t.kid[n][s], n)
         /\ Sub(sub, t.kid[n][s]) \subseteq sub[n]
         /\ n \notin Sub(sub, t.kid[n][s])
         /\ \A x \in Sub(sub, t.kid[n][s]) : On(s, x, n) /\ x \in Node
         /\ sub[n] = {n} \cup Sub(sub, t.kid[n][s]) \cup Sub(sub, t.kid[n][Flip(s)])
         /\ \A x \in Sub(sub, t.kid[n][Flip(s)]) : x \notin Sub(sub, t.kid[n][s])
<1> DEFINE c == t.kid[n][s]
           d == t.kid[n][Flip(s)]
<1>1. n \in Node /\ t \in Tree /\ sub[n] \subseteq Node
  BY Members1 DEF Shape
<1>2. c \in Link /\ KidOK(t, sub, n, s) /\ KidOK(t, sub, n, Flip(s))
  BY <1>1, TreeFields, Sides DEF Shape
<1>3. c # NULL => c \in Mem(t, sub) /\ t.parent[c] = n /\ c \in sub[c] /\ Sub(sub, c) = sub[c]
  BY <1>2, Members1 DEF KidOK, Sub
<1>4. /\ sub[n] = {n} \cup Sub(sub, c) \cup Sub(sub, d)
      /\ \A x \in Sub(sub, c) : On(s, x, n)
      /\ \A x \in Sub(sub, d) : On(Flip(s), x, n)
  BY <1>2 DEF KidOK
<1>5. \A x \in Sub(sub, c) : x \in Node
  BY <1>1, <1>4
<1>6. n \notin Sub(sub, c)
  BY <1>1, <1>4, OnOrder
<1>7. \A x \in Sub(sub, d) : x \notin Sub(sub, c)
  BY <1>1, <1>4, <1>5, OnOrder
<1> HIDE DEF c, d
<1> QED BY <1>2, <1>3, <1>4, <1>5, <1>6, <1>7 DEF c, d

(* Induction from the leaves up, and from the root down.                   *)
LEMMA UpInduct ==
  ASSUME NEW t, NEW sub, Shape(t, sub), NEW P,
         \A n \in Mem(t, sub) :
           (\A s \in Side : t.kid[n][s] # NULL => t.kid[n][s] \in P) => n \in P
  PROVE  Mem(t, sub) \subseteq P
<1> DEFINE Q == {n \in Mem(t, sub) : n \notin P}
           F == {sub[n] : n \in Q}
<1> SUFFICES ASSUME Q # {} PROVE FALSE
  OBVIOUS
<1>1. F \subseteq SUBSET Node /\ F # {}
  BY Members1
<1>2. IsFiniteSet(Node)
  BY NodeAssumption
<1>3. PICK A \in F : \A B \in F : B \subseteq A => B = A
  <2> HIDE DEF F
  <2> QED BY <1>1, <1>2, MinimalSet
<1>4. PICK n \in Q : A = sub[n]
  BY <1>3
<1>5. PICK s \in Side : t.kid[n][s] # NULL /\ t.kid[n][s] \notin P
  BY <1>4
<1> DEFINE c == t.kid[n][s]
<1>6. c \in Q /\ sub[c] \subseteq sub[n] /\ sub[c] # sub[n]
  BY <1>4, <1>5, Kids, Members1
<1> QED BY <1>3, <1>4, <1>6

LEMMA DownInduct ==
  ASSUME NEW t, NEW sub, Shape(t, sub), NEW P,
         t.root # NULL => t.root \in P,
         \A n \in Mem(t, sub), s \in Side :
           n \in P /\ t.kid[n][s] # NULL => t.kid[n][s] \in P
  PROVE  Mem(t, sub) \subseteq P
<1> DEFINE Q == {n \in Mem(t, sub) : n \in P => sub[n] \subseteq P}
<1>1. ASSUME NEW n \in Mem(t, sub),
             \A s \in Side : t.kid[n][s] # NULL => t.kid[n][s] \in Q
      PROVE  n \in Q
  <2> SUFFICES ASSUME n \in P, NEW x \in sub[n] PROVE x \in P
    OBVIOUS
  <2>1. CASE x = n
    BY <2>1
  <2>2. CASE x # n
    <3>1. PICK s \in Side : x \in Sub(sub, t.kid[n][s])
      BY <2>2, Kids, Sides DEF Side
    <3>2. t.kid[n][s] # NULL /\ x \in sub[t.kid[n][s]]
      BY <3>1 DEF Sub
    <3> QED BY <1>1, <3>2
  <2> QED BY <2>1, <2>2
<1>2. Mem(t, sub) \subseteq Q
  <2> HIDE DEF Q
  <2> QED BY <1>1, UpInduct
<1>3. ASSUME NEW n \in Mem(t, sub) PROVE n \in P
  <2>1. t.root \in Mem(t, sub) /\ t.root # NULL /\ n \in sub[t.root]
    BY Members1, LinkFacts
  <2> QED BY <1>2, <2>1
<1> QED BY <1>3

(* A descendant's subtree lies within the ancestor's.                      *)
LEMMA SubTransitive ==
  ASSUME NEW t, NEW sub, Shape(t, sub), NEW a \in Mem(t, sub), NEW m \in sub[a]
  PROVE  sub[m] \subseteq sub[a] /\ m \in Mem(t, sub)
<1> DEFINE P == {n \in Mem(t, sub) :
                   \A x \in sub[n] : sub[x] \subseteq sub[n] /\ x \in Mem(t, sub)}
<1>1. ASSUME NEW n \in Mem(t, sub),
             \A s \in Side : t.kid[n][s] # NULL => t.kid[n][s] \in P
      PROVE  n \in P
  <2> SUFFICES ASSUME NEW x \in sub[n]
               PROVE  sub[x] \subseteq sub[n] /\ x \in Mem(t, sub)
    OBVIOUS
  <2>1. CASE x = n
    BY <2>1
  <2>2. CASE x # n
    <3>1. PICK s \in Side : x \in Sub(sub, t.kid[n][s])
      BY <2>2, Kids, Sides DEF Side
    <3>2. t.kid[n][s] # NULL /\ x \in sub[t.kid[n][s]] /\ sub[t.kid[n][s]] \subseteq sub[n]
      BY <3>1, Kids DEF Sub
    <3> QED BY <1>1, <3>2
  <2> QED BY <2>1, <2>2
<1>2. Mem(t, sub) \subseteq P
  <2> HIDE DEF P
  <2> QED BY <1>1, UpInduct
<1> QED BY <1>2

(* The way from an ancestor down to a member goes through its parent.      *)
LEMMA ParentOf ==
  ASSUME NEW t, NEW sub, Shape(t, sub), NEW a \in Mem(t, sub), NEW m \in sub[a], m # a
  PROVE  /\ t.parent[m] \in sub[a]
         /\ t.parent[m] \in Mem(t, sub)
         /\ \E s \in Side : t.kid[t.parent[m]][s] = m
<1> DEFINE P == {n \in Mem(t, sub) : m \in sub[n] /\ m # n =>
                   \E b \in sub[n], s \in Side : b \in Mem(t, sub) /\ t.kid[b][s] = m}
<1>1. ASSUME NEW n \in Mem(t, sub),
             \A s \in Side : t.kid[n][s] # NULL => t.kid[n][s] \in P
      PROVE  n \in P
  <2> SUFFICES ASSUME m \in sub[n], m # n
               PROVE  \E b \in sub[n], s \in Side : b \in Mem(t, sub) /\ t.kid[b][s] = m
    OBVIOUS
  <2>1. PICK s \in Side : m \in Sub(sub, t.kid[n][s])
    BY Kids, Sides DEF Side
  <2>2. t.kid[n][s] # NULL /\ m \in sub[t.kid[n][s]] /\ sub[t.kid[n][s]] \subseteq sub[n]
    BY <2>1, Kids DEF Sub
  <2>3. CASE t.kid[n][s] = m
    BY <2>3, Members1
  <2>4. CASE t.kid[n][s] # m
    BY <1>1, <2>2, <2>4
  <2> QED BY <2>3, <2>4
<1>2. Mem(t, sub) \subseteq P
  <2> HIDE DEF P
  <2> QED BY <1>1, UpInduct
<1>3. PICK b \in sub[a], s \in Side : b \in Mem(t, sub) /\ t.kid[b][s] = m
  BY <1>2
<1>4. m # NULL
  BY Members1, LinkFacts
<1>5. t.parent[m] = b
  BY <1>3, <1>4, Kids
<1> QED BY <1>3, <1>5

LEMMA ParentOfMember ==
  ASSUME NEW t, NEW sub, Shape(t, sub), NEW m \in Mem(t, sub)
  PROVE  /\ m = t.root <=> t.parent[m] = NULL
         /\ m # t.root => /\ t.parent[m] \in Mem(t, sub)
                          /\ t.parent[m] \in Node
                          /\ \E s \in Side : t.kid[t.parent[m]][s] = m
         /\ \A p \in Node, s \in Side :
              t.kid[p][s] = m => p = t.parent[m] /\ p \in Mem(t, sub)
<1>1. t.root \in Mem(t, sub) /\ m \in sub[t.root] /\ m \in Node /\ m # NULL
  BY Members1, LinkFacts
<1>2. t.root # NULL /\ t.parent[t.root] = NULL
  BY <1>1, Members1, LinkFacts DEF Shape, RootOK
<1>3. m # t.root => /\ t.parent[m] \in Mem(t, sub)
                    /\ \E s \in Side : t.kid[t.parent[m]][s] = m
  BY <1>1, ParentOf
<1>4. \A p \in Mem(t, sub) : p \in Node /\ p # NULL
  BY Members1, LinkFacts
<1>5. ASSUME NEW p \in Node, NEW s \in Side, t.kid[p][s] = m
      PROVE  p = t.parent[m] /\ p \in Mem(t, sub)
  <2>1. p \in Mem(t, sub)
    BY <1>1, <1>5 DEF Shape, OutOK, NoKids
  <2> QED BY <1>1, <1>5, <2>1, Kids
<1> QED BY <1>2, <1>3, <1>4, <1>5

(* A member outside a subtree is on the same side of all its nodes.        *)
LEMMA Outside ==
  ASSUME NEW t, NEW sub, Shape(t, sub), NEW a \in Mem(t, sub),
         NEW x \in Mem(t, sub), x \notin sub[a]
  PROVE  \E r \in Side : \A w \in sub[a] : On(r, x, w)
<1> DEFINE P == {n \in Mem(t, sub) : x \in sub[n] /\ a \in sub[n] =>
                   \E r \in Side : \A w \in sub[a] : On(r, x, w)}
<1>1. ASSUME NEW n \in Mem(t, sub),
             \A r \in Side : t.kid[n][r] # NULL => t.kid[n][r] \in P
      PROVE  n \in P
  <2> SUFFICES ASSUME x \in sub[n], a \in sub[n]
               PROVE  \E r \in Side : \A w \in sub[a] : On(r, x, w)
    OBVIOUS
  <2>0. x \in Node /\ n \in Node /\ sub[a] \subseteq Node
    BY Members1
  <2>1. a # n
    OBVIOUS
  <2>2. PICK r \in Side : a \in Sub(sub, t.kid[n][r])
    BY <2>1, Kids, Sides DEF Side
  <2> DEFINE c == t.kid[n][r]
  <2>3. c # NULL /\ a \in sub[c] /\ c \in Mem(t, sub) /\ Sub(sub, c) = sub[c]
    BY <2>2, Kids DEF Sub
  <2>4. sub[a] \subseteq sub[c]
    BY <2>3, SubTransitive
  <2>5. \A w \in sub[a] : On(r, w, n)
    BY <2>3, <2>4, Kids
  <2>6. CASE x = n
    BY <2>0, <2>5, <2>6, OnOrder, Sides
  <2>7. CASE x \in sub[c]
    BY <1>1, <2>3, <2>7
  <2>8. CASE x \in Sub(sub, t.kid[n][Flip(r)])
    <3>1. On(Flip(r), x, n) /\ Flip(r) \in Side
      BY <2>8, Kids, Sides
    <3>2. \A w \in sub[a] : On(Flip(r), n, w)
      BY <2>0, <2>5, OnOrder
    <3>3. \A w \in sub[a] : On(Flip(r), x, w)
      BY <2>0, <3>1, <3>2, OnTransitive
    <3> QED BY <3>1, <3>3
  <2>9. x = n \/ x \in sub[c] \/ x \in Sub(sub, t.kid[n][Flip(r)])
    BY <2>3, Kids
  <2> QED BY <2>6, <2>7, <2>8, <2>9
<1>2. Mem(t, sub) \subseteq P
  <2> HIDE DEF P
  <2> QED BY <1>1, UpInduct
<1>3. t.root \in Mem(t, sub) /\ x \in sub[t.root] /\ a \in sub[t.root]
  BY Members1
<1> QED BY <1>2, <1>3

LEMMA Convex ==
  ASSUME NEW t, NEW sub, Shape(t, sub), NEW a \in Mem(t, sub),
         NEW x \in Mem(t, sub), x \notin sub[a],
         NEW s \in Side, NEW y \in sub[a], NEW z \in sub[a], On(s, x, y)
  PROVE  On(s, x, z)
<1>1. PICK r \in Side : \A w \in sub[a] : On(r, x, w)
  BY Outside
<1>2. x \in Node /\ y \in Node
  BY Members1
<1>3. r = s
  BY <1>1, <1>2, OnOrder, Sides
<1> QED BY <1>1, <1>3

LEMMA Distinct ==
  ASSUME NEW t, NEW sub, Shape(t, sub), NEW m \in Mem(t, sub), NEW n \in Mem(t, sub),
         Key[m] = Key[n]
  PROVE  m = n
<1> SUFFICES ASSUME m # n PROVE \E s \in Side : On(s, m, n)
  <2>1. m \in Node /\ n \in Node
    BY Members1
  <2> QED BY <2>1, OnOrder
<1>1. CASE m \notin sub[n]
  BY <1>1, Outside, Members1
<1>2. CASE m \in sub[n]
  BY <1>2, Kids, Sides DEF Side
<1> QED BY <1>1, <1>2

-----------------------------------------------------------------------------
(* The walks down and up the tree end.                                     *)

LEMMA DownFunction ==
  ASSUME NEW t, NEW sub, Shape(t, sub), NEW d \in [Node -> Side],
         NEW stop \in SUBSET Node,
         \A n \in Node : t.kid[n][d[n]] = NULL => n \in stop
  PROVE  \E f \in [Node -> Link] :
           f = [m \in Node |-> IF m \in stop THEN m ELSE f[t.kid[m][d[m]]]]
<1> DEFINE nx == [m \in Node |-> IF m \in stop THEN m ELSE t.kid[m][d[m]]]
           val == [m \in Node |-> m]
<1>1. nx \in [Node -> Node] /\ val \in [Node -> Link] /\ stop \in SUBSET Node
  <2>1. \A m \in Node : m \notin stop => t.kid[m][d[m]] \in Node
    BY TreeFields, LinkFacts DEF Shape
  <2>2. \A m \in Node : m \in Link
    BY DEF Link
  <2> QED BY <2>1, <2>2
<1>2. ASSUME NEW T \in SUBSET Node, T # {},
             \A x \in T : x \notin stop /\ nx[x] \in T
      PROVE  FALSE
  <2> DEFINE P == {n \in Mem(t, sub) : n \notin T}
  <2>1. \A x \in T : x \in Mem(t, sub)
    <3> SUFFICES ASSUME NEW x \in T, x \notin Mem(t, sub) PROVE FALSE
      OBVIOUS
    <3>1. t.kid[x] = NoKids /\ d[x] \in Side
      BY DEF Shape, OutOK
    <3>2. t.kid[x][d[x]] = NULL
      BY <3>1 DEF NoKids
    <3> QED BY <1>2, <3>2
  <2>2. ASSUME NEW n \in Mem(t, sub),
               \A s \in Side : t.kid[n][s] # NULL => t.kid[n][s] \in P
        PROVE  n \in P
    <3> SUFFICES ASSUME n \in T PROVE FALSE
      OBVIOUS
    <3>1. n \in Node /\ d[n] \in Side /\ n \notin stop
      BY <1>2
    <3>2. t.kid[n][d[n]] # NULL /\ t.kid[n][d[n]] \in T
      BY <1>2, <3>1
    <3> QED BY <2>2, <3>1, <3>2
  <2>3. Mem(t, sub) \subseteq P
    <3> HIDE DEF P
    <3> QED BY <2>2, UpInduct
  <2> QED BY <1>2, <2>1, <2>3
<1>3. \A T \in SUBSET Node : T # {} => \E x \in T : x \in stop \/ nx[x] \notin T
  <2> HIDE DEF nx
  <2> QED BY <1>2
<1>6. \A m \in Node : val[m] = m /\ (m \notin stop => nx[m] = t.kid[m][d[m]])
  OBVIOUS
<1> HIDE DEF nx, val
<1>7. PICK f \in [Node -> Link] :
         IsWalk(f, Node, stop, val, nx)
  BY <1>1, <1>3, WalkExists
<1>8. f = [m \in Node |-> IF m \in stop THEN m ELSE f[t.kid[m][d[m]]]]
  <2>1. \A m \in Node : f[m] = IF m \in stop THEN val[m] ELSE f[nx[m]]
    BY <1>7 DEF IsWalk
  <2>2. \A m \in Node : f[m] = IF m \in stop THEN m ELSE f[t.kid[m][d[m]]]
    BY <1>6, <2>1
  <2> QED BY <2>2
<1> QED BY <1>8

LEMMA UpFunction ==
  ASSUME NEW t, NEW sub, Shape(t, sub), NEW s \in Side
  PROVE  \E f \in [Node -> Link] :
           f = [m \in Node |-> LET p == t.parent[m] IN
                               IF p # NULL /\ t.kid[p][s] = m THEN f[p] ELSE p]
<1> DEFINE stop == {m \in Node : t.parent[m] = NULL \/ t.kid[t.parent[m]][s] # m}
           nx == [m \in Node |-> IF m \in stop THEN m ELSE t.parent[m]]
           val == [m \in Node |-> t.parent[m]]
<1>1. nx \in [Node -> Node] /\ val \in [Node -> Link] /\ stop \in SUBSET Node
  <2>1. \A m \in Node : t.parent[m] \in Link
    BY TreeFields DEF Shape
  <2> QED BY <2>1, LinkFacts
<1>2. ASSUME NEW T \in SUBSET Node, T # {},
             \A x \in T : x \notin stop /\ nx[x] \in T
      PROVE  FALSE
  <2> DEFINE P == {n \in Mem(t, sub) : n \notin T}
  <2>1. \A x \in T : x \in Mem(t, sub) /\ t.parent[x] # NULL /\ t.parent[x] \in T
    BY <1>2 DEF Shape, OutOK
  <2>2. t.root # NULL => t.root \in P
    <3>1. t.root # NULL => t.parent[t.root] = NULL /\ t.root \in Mem(t, sub)
      BY DEF Shape, RootOK, Mem, Sub
    <3> QED BY <2>1, <3>1
  <2>3. ASSUME NEW n \in Mem(t, sub), NEW r \in Side, n \in P, t.kid[n][r] # NULL
        PROVE  t.kid[n][r] \in P
    BY <2>1, <2>3, Kids
  <2>4. Mem(t, sub) \subseteq P
    <3> HIDE DEF P
    <3> QED BY <2>2, <2>3, DownInduct
  <2> QED BY <1>2, <2>1, <2>4
<1>3. \A T \in SUBSET Node : T # {} => \E x \in T : x \in stop \/ nx[x] \notin T
  <2> HIDE DEF nx, stop
  <2> QED BY <1>2
<1>6. \A m \in Node : /\ val[m] = t.parent[m]
                      /\ m \notin stop => nx[m] = t.parent[m]
                      /\ m \notin stop <=> t.parent[m] # NULL /\ t.kid[t.parent[m]][s] = m
  OBVIOUS
<1> HIDE DEF nx, val, stop
<1>4. PICK f \in [Node -> Link] :
         IsWalk(f, Node, stop, val, nx)
  BY <1>1, <1>3, WalkExists
<1>5. f = [m \in Node |-> LET p == t.parent[m] IN
                          IF p # NULL /\ t.kid[p][s] = m THEN f[p] ELSE p]
  <2>1. \A m \in Node : f[m] = LET p == t.parent[m] IN
                               IF p # NULL /\ t.kid[p][s] = m THEN f[p] ELSE p
    <3>2. \A m \in Node : f[m] = IF m \in stop THEN val[m] ELSE f[nx[m]]
      BY <1>4 DEF IsWalk
    <3> QED BY <1>6, <3>2
  <2> QED BY <2>1
<1> QED BY <1>5

-----------------------------------------------------------------------------
(* Where the walks end.                                                    *)

(* m is the last node of n's subtree on side s.                            *)
IsExtreme(t, sub, n, s, m) ==
  /\ m \in sub[n]
  /\ t.kid[m][s] = NULL
  /\ \A x \in sub[n] : x # m => On(Flip(s), x, m)

LEMMA ExtremeStep ==
  ASSUME NEW t, NEW sub, Shape(t, sub), NEW n \in Mem(t, sub), NEW s \in Side,
         NEW m,
         IF t.kid[n][s] = NULL THEN m = n ELSE IsExtreme(t, sub, t.kid[n][s], s, m)
  PROVE  IsExtreme(t, sub, n, s, m)
<1> DEFINE c == t.kid[n][s]
<1>1. n \in Node /\ n \in sub[n] /\ sub[n] \subseteq Node
  BY Members1
<1>2. CASE c = NULL
  <2>1. sub[n] = {n} \cup Sub(sub, t.kid[n][Flip(s)])
    BY <1>2, Kids DEF Sub
  <2>2. \A x \in sub[n] : x # n => On(Flip(s), x, n)
    BY <2>1, Kids, Sides
  <2> QED BY <1>1, <1>2, <2>2 DEF IsExtreme
<1>3. CASE c # NULL
  <2>1. IsExtreme(t, sub, c, s, m) /\ Sub(sub, c) = sub[c] /\ sub[c] \subseteq sub[n]
    BY <1>3, Kids
  <2>2. m \in sub[c] /\ On(s, m, n) /\ m \in Node
    BY <2>1, Kids, <1>1 DEF IsExtreme
  <2>3. On(Flip(s), n, m)
    BY <1>1, <2>2, OnOrder
  <2>4. ASSUME NEW x \in sub[n], x # m PROVE On(Flip(s), x, m)
    <3>1. x = n \/ x \in sub[c] \/ x \in Sub(sub, t.kid[n][Flip(s)])
      BY <2>1, Kids
    <3>2. x \in Sub(sub, t.kid[n][Flip(s)]) => On(Flip(s), x, n) /\ x \in Node
      BY Kids, Sides
    <3> QED BY <1>1, <2>1, <2>2, <2>3, <2>4, <3>1, <3>2, OnTransitive, Sides DEF IsExtreme
  <2> QED BY <2>1, <2>2, <2>4 DEF IsExtreme
<1> QED BY <1>2, <1>3

LEMMA ExtremeIs ==
  ASSUME NEW t, NEW sub, Shape(t, sub), NEW n \in Mem(t, sub), NEW s \in Side
  PROVE  IsExtreme(t, sub, n, s, Extreme(t, n, s))
<1> DEFINE d == [m \in Node |-> s]
           stop == {m \in Node : t.kid[m][s] = NULL}
           go == CHOOSE f : f = [m \in Node |-> IF t.kid[m][s] = NULL THEN m
                                                ELSE f[t.kid[m][s]]]
<1>1. n \in Node /\ n # NULL
  BY Members1, LinkFacts
<1>2. Extreme(t, n, s) = go[n]
  BY <1>1 DEF Extreme
<1>3. PICK f \in [Node -> Link] :
        f = [m \in Node |-> IF m \in stop THEN m ELSE f[t.kid[m][d[m]]]]
  <2>1. d \in [Node -> Side] /\ stop \in SUBSET Node
        /\ \A m \in Node : t.kid[m][d[m]] = NULL => m \in stop
    OBVIOUS
  <2> HIDE DEF d, stop
  <2> QED BY <2>1, DownFunction, SMTT(30)
<1>4. f = [m \in Node |-> IF t.kid[m][s] = NULL THEN m ELSE f[t.kid[m][s]]]
  BY <1>3
<1>5. go = [m \in Node |-> IF t.kid[m][s] = NULL THEN m ELSE go[t.kid[m][s]]]
  BY <1>4
<1> HIDE DEF go
<1> DEFINE P == {m \in Mem(t, sub) : IsExtreme(t, sub, m, s, go[m])}
<1>6. ASSUME NEW m \in Mem(t, sub),
             \A r \in Side : t.kid[m][r] # NULL => t.kid[m][r] \in P
      PROVE  m \in P
  <2>1. m \in Node
    BY Members1
  <2>2. go[m] = IF t.kid[m][s] = NULL THEN m ELSE go[t.kid[m][s]]
    BY <1>5, <2>1
  <2>3. t.kid[m][s] # NULL => IsExtreme(t, sub, t.kid[m][s], s, go[t.kid[m][s]])
    BY <1>6
  <2>4. IsExtreme(t, sub, m, s, go[m])
    BY <2>2, <2>3, ExtremeStep
  <2> QED BY <2>4
<1>7. Mem(t, sub) \subseteq P
  <2> HIDE DEF P
  <2> QED BY <1>6, UpInduct
<1> QED BY <1>2, <1>7

(* m is the nearest member outside n's subtree on side s of it, or NULL.   *)
IsOutside(t, sub, n, s, m) ==
  LET out == {x \in Mem(t, sub) : x \notin sub[n] /\ On(s, x, n)} IN
  IF m = NULL THEN out = {} ELSE m \in out /\ \A x \in out : x = m \/ On(s, x, m)

LEMMA OutsideStep ==
  ASSUME NEW t, NEW sub, Shape(t, sub), NEW n \in Mem(t, sub), NEW s \in Side,
         NEW r \in Side, t.kid[n][r] # NULL, NEW m, IsOutside(t, sub, n, s, m)
  PROVE  IsOutside(t, sub, t.kid[n][r], s, IF r = s THEN m ELSE n)
<1> DEFINE c == t.kid[n][r]
           d == t.kid[n][Flip(r)]
           out(a) == {x \in Mem(t, sub) : x \notin sub[a] /\ On(s, x, a)}
<1>1. /\ c \in Mem(t, sub) /\ c \in Node /\ n \in Node /\ On(r, c, n)
      /\ c \in sub[n] /\ n \in sub[n] /\ n \notin sub[c]
      /\ sub[n] = {n} \cup sub[c] \cup Sub(sub, d)
      /\ n # NULL /\ c \in sub[c]
  BY Kids, Members1, LinkFacts
<1>2. \A x \in Sub(sub, d) : On(Flip(r), x, n) /\ x \in Node
  BY Kids, Sides
<1>3. \A x \in Mem(t, sub) : x \notin sub[n] => x \notin sub[c] /\ (On(s, x, c) <=> On(s, x, n))
  BY <1>1, Convex
<1> HIDE DEF c, d
<1>4. CASE r = s
  <2>1. ~On(s, n, c)
    BY <1>1, <1>4, OnOrder
  <2>2. \A x \in Sub(sub, d) : ~On(s, x, c)
    <3> SUFFICES ASSUME NEW x \in Sub(sub, d), On(s, x, c) PROVE FALSE
      OBVIOUS
    <3>1. On(s, x, n)
      BY <1>1, <1>2, <1>4, OnTransitive
    <3> QED BY <1>1, <1>2, <1>4, <3>1, OnOrder
  <2>3. out(c) = out(n)
    BY <1>1, <1>3, <2>1, <2>2
  <2> QED BY <1>4, <2>3 DEF IsOutside, c
<1>5. CASE r # s
  <2>1. s = Flip(r) /\ Flip(s) = r
    BY <1>5, Sides
  <2>2. On(s, n, c)
    BY <1>1, <2>1, OnOrder
  <2>3. n \in out(c)
    BY <1>1, <2>2
  <2>4. ASSUME NEW x \in out(c), x # n PROVE On(s, x, n)
    <3>1. CASE x \in Sub(sub, d)
      BY <1>2, <2>1, <3>1
    <3>2. CASE x \notin sub[n]
      BY <1>3, <3>2
    <3> QED BY <1>1, <2>4, <3>1, <3>2
  <2> QED BY <1>1, <1>5, <2>3, <2>4 DEF IsOutside, c
<1> QED BY <1>4, <1>5

(* m is the nearest member on side s of n, or NULL.                        *)
IsNearest(t, sub, n, s, m) ==
  LET out == {x \in Mem(t, sub) : On(s, x, n)} IN
  IF m = NULL THEN out = {} ELSE m \in out /\ \A x \in out : x = m \/ On(s, x, m)

LEMMA NeighbourIs ==
  ASSUME NEW t, NEW sub, Shape(t, sub), NEW n \in Mem(t, sub), NEW s \in Side
  PROVE  IsNearest(t, sub, n, s, Neighbour(t, n, s))
<1> DEFINE climb == CHOOSE f : f = [m \in Node |-> LET p == t.parent[m] IN
                      IF p # NULL /\ t.kid[p][s] = m THEN f[p] ELSE p]
           c == t.kid[n][s]
<1>1. climb = [m \in Node |-> LET p == t.parent[m] IN
                  IF p # NULL /\ t.kid[p][s] = m THEN climb[p] ELSE p]
  <2>1. PICK f \in [Node -> Link] :
           f = [m \in Node |-> LET p == t.parent[m] IN
                               IF p # NULL /\ t.kid[p][s] = m THEN f[p] ELSE p]
    BY UpFunction
  <2> QED BY <2>1
<1>2. n \in Node /\ n \in sub[n] /\ n # NULL /\ t.parent[n] # n
  <2>1. t.parent[n] # n
    BY ParentOfMember, Kids, Members1, LinkFacts
  <2> QED BY <2>1, Members1, LinkFacts
<1>3. Neighbour(t, n, s) = IF c # NULL THEN Extreme(t, c, Flip(s)) ELSE climb[n]
  BY <1>2 DEF Neighbour
<1> HIDE DEF climb
<1> DEFINE P == {m \in Mem(t, sub) : IsOutside(t, sub, m, s, climb[m])}
<1>4. t.root # NULL => t.root \in P
  <2> SUFFICES ASSUME t.root # NULL PROVE t.root \in P
    OBVIOUS
  <2>1. /\ t.root \in Mem(t, sub) /\ t.root \in Node /\ t.parent[t.root] = NULL
        /\ Mem(t, sub) = sub[t.root]
    BY Members1 DEF Shape, RootOK, Mem, Sub
  <2>2. climb[t.root] = NULL
    BY <1>1, <2>1
  <2> QED BY <2>1, <2>2 DEF IsOutside
<1>5. ASSUME NEW m \in Mem(t, sub), NEW r \in Side, m \in P, t.kid[m][r] # NULL
      PROVE  t.kid[m][r] \in P
  <2> DEFINE k == t.kid[m][r]
  <2>1. k \in Mem(t, sub) /\ k \in Node /\ t.parent[k] = m /\ m # NULL /\ On(r, k, m)
        /\ m \in Node
    BY <1>5, Kids, Members1, LinkFacts
  <2>2. t.kid[m][s] = k <=> r = s
    <3>1. t.kid[m][s] = k => On(s, k, m)
      BY <1>5, Kids
    <3> QED BY <2>1, <3>1, OnOrder, Sides
  <2>3. climb[k] = IF r = s THEN climb[m] ELSE m
    BY <1>1, <2>1, <2>2
  <2>4. IsOutside(t, sub, k, s, climb[k])
    BY <1>5, <2>3, OutsideStep
  <2> QED BY <2>1, <2>4
<1>6. Mem(t, sub) \subseteq P
  <2> HIDE DEF P
  <2> QED BY <1>4, <1>5, DownInduct
<1> DEFINE out == {x \in Mem(t, sub) : On(s, x, n)}
<1>7. CASE c = NULL
  <2>1. IsOutside(t, sub, n, s, climb[n])
    BY <1>6
  <2>2. \A x \in sub[n] : ~On(s, x, n)
    <3> SUFFICES ASSUME NEW x \in sub[n], On(s, x, n) PROVE FALSE
      OBVIOUS
    <3>1. sub[n] = {n} \cup Sub(sub, t.kid[n][Flip(s)])
      BY <1>7, Kids DEF Sub
    <3>2. x # n
      BY <1>2, OnOrder
    <3>3. On(Flip(s), x, n) /\ x \in Node
      BY <3>1, <3>2, Kids, Sides
    <3> QED BY <1>2, <3>3, OnOrder
  <2>3. out = {x \in Mem(t, sub) : x \notin sub[n] /\ On(s, x, n)}
    BY <2>2
  <2> QED BY <1>3, <1>7, <2>1, <2>3 DEF IsOutside, IsNearest
<1>8. CASE c # NULL
  <2> DEFINE m == Extreme(t, c, Flip(s))
  <2>1. c \in Mem(t, sub) /\ Sub(sub, c) = sub[c] /\ sub[c] \subseteq sub[n]
    BY <1>8, Kids
  <2>2. IsExtreme(t, sub, c, Flip(s), m)
    BY <2>1, ExtremeIs, Sides
  <2> HIDE DEF m
  <2>3. m \in sub[c] /\ m \in sub[n] /\ m \in Mem(t, sub) /\ m # NULL /\ On(s, m, n)
    <3>1. m \in sub[c] /\ m \in sub[n]
      BY <2>1, <2>2 DEF IsExtreme
    <3>2. m \in Mem(t, sub)
      BY <3>1, SubTransitive
    <3> QED BY <2>1, <3>1, <3>2, Kids, Members1, LinkFacts
  <2>4. ASSUME NEW x \in out, x # m PROVE On(s, x, m)
    <3>1. CASE x \in sub[c]
      BY <2>2, <2>4, <3>1, Sides DEF IsExtreme
    <3>2. CASE x \notin sub[n]
      BY <1>2, <2>3, <3>2, Convex
    <3>3. x \notin Sub(sub, t.kid[n][Flip(s)])
      <4> SUFFICES ASSUME x \in Sub(sub, t.kid[n][Flip(s)]) PROVE FALSE
        OBVIOUS
      <4>1. On(Flip(s), x, n) /\ x \in Node
        BY Kids, Sides
      <4> QED BY <1>2, <4>1, OnOrder
    <3>4. x # n
      BY <1>2, OnOrder
    <3>5. sub[n] = {n} \cup sub[c] \cup Sub(sub, t.kid[n][Flip(s)])
      BY <2>1, Kids
    <3> QED BY <3>1, <3>2, <3>3, <3>4, <3>5
  <2>5. IsNearest(t, sub, n, s, m)
    BY <2>3, <2>4 DEF IsNearest
  <2> QED BY <1>3, <1>8, <2>5 DEF m
<1> QED BY <1>7, <1>8

(* The search for the key of n from m down ends at p.                      *)
Ends(t, sub, n, m, p) ==
  /\ p \in sub[m]
  /\ Key[p] # Key[n] => /\ t.kid[p][Toward(p, n)] = NULL
                        /\ \A x \in sub[m] : Key[x] # Key[n]
  /\ \A a \in sub[m], s \in Side : p \in Sub(sub, t.kid[a][s]) => On(s, n, a)

LEMMA TowardIs ==
  ASSUME NEW m \in Node, NEW n \in Node
  PROVE  /\ Toward(m, n) \in Side
         /\ Key[m] # Key[n] => On(Toward(m, n), n, m)
BY NodeAssumption DEF Toward, Side, On

LEMMA EndsStep ==
  ASSUME NEW t, NEW sub, Shape(t, sub), NEW m \in Mem(t, sub), NEW n \in Node, NEW p,
         IF Key[m] = Key[n] \/ t.kid[m][Toward(m, n)] = NULL THEN p = m
         ELSE Ends(t, sub, n, t.kid[m][Toward(m, n)], p)
  PROVE  Ends(t, sub, n, m, p)
<1> DEFINE s == Toward(m, n)
           c == t.kid[m][s]
           d == t.kid[m][Flip(s)]
<1>1. m \in Node /\ m \in sub[m] /\ s \in Side
  BY Members1, TowardIs
<1>2. sub[m] = {m} \cup Sub(sub, c) \cup Sub(sub, d) /\ d \in Link
  BY <1>1, Kids, Sides
<1>3. Key[m] # Key[n] => \A x \in Sub(sub, d) : Key[x] # Key[n]
  <2> SUFFICES ASSUME Key[m] # Key[n], NEW x \in Sub(sub, d), Key[x] = Key[n]
               PROVE  FALSE
    OBVIOUS
  <2>1. On(s, n, m)
    BY <1>1, TowardIs
  <2>2. On(Flip(s), x, m)
    BY <1>1, Kids, Sides
  <2>3. On(s, x, m)
    BY <2>1 DEF On
  <2> QED BY <1>1, <1>2, <2>2, <2>3, OnOrder, Kids, Sides
<1>4. ASSUME NEW a \in sub[m], NEW r \in Side, NEW k \in {c, d},
             a \in Sub(sub, k)
      PROVE  /\ Sub(sub, t.kid[a][r]) \subseteq Sub(sub, k)
             /\ m \notin Sub(sub, t.kid[a][r])
  <2>1. k # NULL /\ k \in Mem(t, sub) /\ Sub(sub, k) = sub[k] /\ m \notin sub[k]
    BY <1>1, <1>4, Kids, Sides DEF Sub
  <2>2. a \in Mem(t, sub) /\ sub[a] \subseteq sub[k]
    BY <1>4, <2>1, SubTransitive
  <2> QED BY <2>1, <2>2, Kids
<1> HIDE DEF s
<1>5. CASE Key[m] = Key[n] \/ c = NULL
  <2>1. p = m
    BY <1>5 DEF s
  <2>2. Key[m] # Key[n] => c = NULL /\ \A x \in sub[m] : Key[x] # Key[n]
    BY <1>2, <1>3, <1>5 DEF Sub
  <2>3. ASSUME NEW a \in sub[m], NEW r \in Side, m \in Sub(sub, t.kid[a][r])
        PROVE  FALSE
    <3>1. a # m
      BY <1>1, <2>3, Kids
    <3> QED BY <1>2, <1>4, <2>3, <3>1
  <2> QED BY <1>1, <2>1, <2>2, <2>3 DEF Ends, s
<1>6. CASE ~(Key[m] = Key[n] \/ c = NULL)
  <2>1. Ends(t, sub, n, c, p)
    BY <1>6 DEF s
  <2>2. c \in Mem(t, sub) /\ Sub(sub, c) = sub[c] /\ sub[c] \subseteq sub[m]
    BY <1>1, <1>6, Kids
  <2>3. p \in sub[c] /\ p \in sub[m] /\ p \notin Sub(sub, d)
    BY <1>1, <2>1, <2>2, Kids DEF Ends
  <2>4. ASSUME NEW a \in sub[m], NEW r \in Side, p \in Sub(sub, t.kid[a][r])
        PROVE  On(r, n, a)
    <3>1. CASE a = m
      <4>1. r = s
        BY <1>1, <2>3, <2>4, <3>1, Sides
      <4> QED BY <1>1, <1>6, <3>1, <4>1, TowardIs DEF s
    <3>2. CASE a \in sub[c]
      BY <2>1, <2>4, <3>2 DEF Ends
    <3>3. CASE a \in Sub(sub, d)
      BY <1>4, <2>3, <2>4, <3>3
    <3> QED BY <1>2, <2>2, <3>1, <3>2, <3>3
  <2>5. Key[p] # Key[n] => \A x \in sub[m] : Key[x] # Key[n]
    BY <1>2, <1>3, <1>6, <2>1, <2>2 DEF Ends
  <2>6. Key[p] # Key[n] => t.kid[p][Toward(p, n)] = NULL
    BY <2>1 DEF Ends
  <2> QED BY <2>3, <2>4, <2>5, <2>6 DEF Ends
<1> QED BY <1>5, <1>6

LEMMA InsertPointIs ==
  ASSUME NEW t, NEW sub, Shape(t, sub), NEW n \in Node, t.root # NULL
  PROVE  Ends(t, sub, n, t.root, InsertPoint(t, n))
<1> DEFINE d == [m \in Node |-> Toward(m, n)]
           stop == {m \in Node : Key[m] = Key[n] \/ t.kid[m][Toward(m, n)] = NULL}
           down == CHOOSE f : f = [m \in Node |->
                     LET c == t.kid[m][Toward(m, n)] IN
                     IF Key[m] = Key[n] \/ c = NULL THEN m ELSE f[c]]
<1>1. t.root \in Mem(t, sub)
  BY DEF Shape, RootOK, Mem, Sub
<1>2. InsertPoint(t, n) = down[t.root]
  BY DEF InsertPoint
<1>3. PICK f \in [Node -> Link] :
        f = [m \in Node |-> IF m \in stop THEN m ELSE f[t.kid[m][d[m]]]]
  <2>1. d \in [Node -> Side] /\ stop \in SUBSET Node
        /\ \A m \in Node : t.kid[m][d[m]] = NULL => m \in stop
    BY TowardIs
  <2> HIDE DEF d, stop
  <2> QED BY <2>1, DownFunction, SMTT(30)
<1>4. f = [m \in Node |-> LET c == t.kid[m][Toward(m, n)] IN
                          IF Key[m] = Key[n] \/ c = NULL THEN m ELSE f[c]]
  BY <1>3
<1>5. down = [m \in Node |-> LET c == t.kid[m][Toward(m, n)] IN
                             IF Key[m] = Key[n] \/ c = NULL THEN m ELSE down[c]]
  BY <1>4
<1> HIDE DEF down
<1> DEFINE P == {m \in Mem(t, sub) : Ends(t, sub, n, m, down[m])}
<1>6. ASSUME NEW m \in Mem(t, sub),
             \A r \in Side : t.kid[m][r] # NULL => t.kid[m][r] \in P
      PROVE  m \in P
  <2> DEFINE c == t.kid[m][Toward(m, n)]
  <2>1. m \in Node /\ Toward(m, n) \in Side
    BY Members1, TowardIs
  <2>2. down[m] = IF Key[m] = Key[n] \/ c = NULL THEN m ELSE down[c]
    BY <1>5, <2>1
  <2>3. c # NULL => Ends(t, sub, n, c, down[c])
    BY <1>6, <2>1
  <2>4. IF Key[m] = Key[n] \/ c = NULL THEN down[m] = m
        ELSE Ends(t, sub, n, c, down[m])
    BY <2>2, <2>3
  <2>5. Ends(t, sub, n, m, down[m])
    BY <2>4, EndsStep
  <2> QED BY <2>5
<1>7. Mem(t, sub) \subseteq P
  <2> HIDE DEF P
  <2> QED BY <1>6, UpInduct
<1> QED BY <1>1, <1>2, <1>7

-----------------------------------------------------------------------------
(* The nodes from m up to b.                                               *)

Chain(sub, b, m) == {c \in sub[b] : m \in sub[c]}

LEMMA ChainFinite ==
  ASSUME NEW t, NEW sub, Shape(t, sub), NEW b \in Mem(t, sub), NEW m \in sub[b]
  PROVE  /\ Chain(sub, b, m) \subseteq Mem(t, sub)
         /\ IsFiniteSet(Chain(sub, b, m))
         /\ Cardinality(Chain(sub, b, m)) \in Nat \ {0}
         /\ Cardinality(Chain(sub, b, m)) <= Cardinality(Node)
         /\ Cardinality(Node) \in Nat
<1>1. Chain(sub, b, m) \subseteq Mem(t, sub) /\ Chain(sub, b, m) \in SUBSET Node
  BY SubTransitive, Members1 DEF Chain
<1>2. m \in Chain(sub, b, m)
  BY SubTransitive, Members1 DEF Chain
<1>3. IsFiniteSet(Node) /\ Cardinality(Node) \in Nat
  BY NodeAssumption, FS_CardinalityType
<1>4. IsFiniteSet(Chain(sub, b, m)) /\ Cardinality(Chain(sub, b, m)) <= Cardinality(Node)
  BY <1>1, <1>3, FS_Subset
<1>5. Cardinality(Chain(sub, b, m)) \in Nat /\ Cardinality(Chain(sub, b, m)) # 0
  BY <1>2, <1>4, FS_CardinalityType, FS_EmptySet
<1> QED BY <1>1, <1>3, <1>4, <1>5

LEMMA Antisymmetric ==
  ASSUME NEW t, NEW sub, Shape(t, sub), NEW b \in Mem(t, sub), NEW m \in sub[b],
         b \in sub[m]
  PROVE  m = b
<1> SUFFICES ASSUME m # b PROVE FALSE
  OBVIOUS
<1>1. PICK s \in Side : m \in Sub(sub, t.kid[b][s])
  BY Kids, Sides DEF Side
<1>2. t.kid[b][s] # NULL /\ t.kid[b][s] \in Mem(t, sub) /\ m \in sub[t.kid[b][s]]
      /\ b \notin sub[t.kid[b][s]]
  BY <1>1, Kids DEF Sub
<1> QED BY <1>2, SubTransitive

LEMMA ChainTop ==
  ASSUME NEW t, NEW sub, Shape(t, sub), NEW n \in Mem(t, sub)
  PROVE  Chain(sub, n, n) = {n} /\ Cardinality(Chain(sub, n, n)) = 1
<1>1. Chain(sub, n, n) = {n}
  BY Antisymmetric, Members1 DEF Chain
<1> QED BY <1>1, FS_Singleton

LEMMA ChainUp ==
  ASSUME NEW t, NEW sub, Shape(t, sub), NEW b \in Mem(t, sub), NEW m \in sub[b], m # b
  PROVE  /\ t.parent[m] \in sub[b]
         /\ Chain(sub, b, m) = Chain(sub, b, t.parent[m]) \cup {m}
         /\ m \notin Chain(sub, b, t.parent[m])
         /\ Cardinality(Chain(sub, b, m)) = Cardinality(Chain(sub, b, t.parent[m])) + 1
<1> DEFINE p == t.parent[m]
<1>1. p \in sub[b] /\ p \in Mem(t, sub) /\ \E s \in Side : t.kid[p][s] = m
  BY ParentOf
<1>2. m \in Mem(t, sub) /\ m # NULL /\ m \in sub[m] /\ sub[m] \subseteq sub[b]
  BY SubTransitive, Members1, LinkFacts
<1>3. m \in sub[p] /\ p \notin sub[m]
  BY <1>1, <1>2, Kids
<1>4. ASSUME NEW c \in sub[b], m \in sub[c], c # m PROVE p \in sub[c]
  BY <1>4, ParentOf, SubTransitive
<1>5. ASSUME NEW c \in sub[b], p \in sub[c] PROVE m \in sub[c]
  BY <1>3, <1>5, SubTransitive
<1> HIDE DEF p
<1>6. Chain(sub, b, m) = Chain(sub, b, p) \cup {m} /\ m \notin Chain(sub, b, p)
  BY <1>2, <1>3, <1>4, <1>5 DEF Chain
<1>7. IsFiniteSet(Chain(sub, b, p))
  BY <1>1, ChainFinite
<1>8. Cardinality(Chain(sub, b, m)) = Cardinality(Chain(sub, b, p)) + 1
  BY <1>6, <1>7, FS_AddElement
<1> QED BY <1>1, <1>6, <1>8 DEF p

LEMMA ChainDown ==
  ASSUME NEW t, NEW sub, Shape(t, sub), NEW b \in Mem(t, sub), NEW s \in Side,
         NEW m \in Sub(sub, t.kid[b][s])
  PROVE  /\ Chain(sub, b, m) = Chain(sub, t.kid[b][s], m) \cup {b}
         /\ Cardinality(Chain(sub, b, m)) = Cardinality(Chain(sub, t.kid[b][s], m)) + 1
<1> DEFINE k == t.kid[b][s]
           o == t.kid[b][Flip(s)]
<1>1. k # NULL /\ k \in Mem(t, sub) /\ m \in sub[k] /\ b \notin sub[k]
      /\ sub[b] = {b} \cup sub[k] \cup Sub(sub, o)
      /\ m \in sub[b]
  BY Kids DEF Sub
<1>2. ASSUME NEW c \in Sub(sub, o) PROVE m \notin sub[c]
  <2>1. o # NULL /\ o \in Mem(t, sub) /\ c \in sub[o] /\ Sub(sub, o) = sub[o]
    BY <1>2, Kids, Sides DEF Sub
  <2>2. sub[c] \subseteq Sub(sub, o)
    BY <2>1, SubTransitive
  <2> QED BY <2>2, Kids
<1> HIDE DEF k, o
<1>3. Chain(sub, b, m) = Chain(sub, k, m) \cup {b} /\ b \notin Chain(sub, k, m)
  BY <1>1, <1>2 DEF Chain
<1>4. IsFiniteSet(Chain(sub, k, m))
  BY <1>1, ChainFinite
<1>5. Cardinality(Chain(sub, b, m)) = Cardinality(Chain(sub, k, m)) + 1
  BY <1>3, <1>4, FS_AddElement
<1> QED BY <1>3, <1>5 DEF k

-----------------------------------------------------------------------------
(* What the definitions by links compute.                                  *)

(* In i links from n one reaches the nodes of its subtree at depth i.      *)
LEMMA ReachIs ==
  ASSUME NEW t, NEW sub, Shape(t, sub), NEW n \in Mem(t, sub)
  PROVE  ReachIn(t, n) = sub[n]
<1> DEFINE next(S) == {t.kid[m][s] : m \in S, s \in Side}
           r == CHOOSE f : f = [i \in Nat |->
                  ({n} \cup IF i = 0 THEN {} ELSE next(f[i - 1])) \ {NULL}]
           Depth(m) == Cardinality(Chain(sub, n, m))
           e == [i \in Nat |-> {m \in sub[n] : Depth(m) <= i + 1}]
<1>0. n # NULL /\ n \in sub[n] /\ n \in Node
  BY Members1, LinkFacts
<1>1. ASSUME NEW m \in sub[n]
      PROVE  m # NULL /\ m \in Mem(t, sub) /\ Depth(m) \in Nat \ {0}
  BY SubTransitive, ChainFinite, Members1, LinkFacts
<1>2. ASSUME NEW m \in sub[n], m # n
      PROVE  /\ t.parent[m] \in sub[n]
             /\ Depth(m) = Depth(t.parent[m]) + 1
             /\ \E s \in Side : t.kid[t.parent[m]][s] = m
  BY <1>2, ChainUp, ParentOf
<1>3. ASSUME NEW m \in sub[n], NEW s \in Side, t.kid[m][s] # NULL
      PROVE  /\ t.kid[m][s] \in sub[n]
             /\ Depth(t.kid[m][s]) = Depth(m) + 1
  <2> DEFINE k == t.kid[m][s]
  <2>1. k \in sub[m] /\ k \in Mem(t, sub) /\ t.parent[k] = m /\ sub[m] \subseteq sub[n]
    BY <1>1, <1>3, Kids, SubTransitive
  <2>2. k # n
    BY <1>1, <1>3, <2>1, Antisymmetric, Kids
  <2> QED BY <1>2, <2>1, <2>2
<1>4. Depth(n) = 1
  BY ChainTop
<1> HIDE DEF Depth
<1>5. ASSUME NEW i \in Nat
      PROVE  e[i] = ({n} \cup IF i = 0 THEN {} ELSE next(e[i - 1])) \ {NULL}
  <2>1. CASE i = 0
    <3>1. ASSUME NEW m \in sub[n], Depth(m) <= 1 PROVE m = n
      BY <1>1, <1>2, <3>1
    <3> QED BY <1>0, <1>4, <2>1, <3>1
  <2>2. CASE i # 0
    <3>0. i - 1 \in Nat /\ (i - 1) + 1 = i
      BY <2>2
    <3>1. e[i - 1] = {m \in sub[n] : Depth(m) <= i}
      BY <3>0
    <3>2. e[i] = {m \in sub[n] : Depth(m) <= i + 1}
      OBVIOUS
    <3> HIDE DEF e
    <3>3. ASSUME NEW m \in e[i], m # n PROVE m \in next(e[i - 1])
      <4>1. t.parent[m] \in e[i - 1]
        BY <1>1, <1>2, <3>1, <3>2, <3>3
      <4> QED BY <1>2, <3>2, <3>3, <4>1
    <3>4. ASSUME NEW m \in next(e[i - 1]), m # NULL PROVE m \in e[i]
      <4>1. PICK k \in e[i - 1], s \in Side : m = t.kid[k][s]
        OBVIOUS
      <4> QED BY <1>1, <1>3, <3>1, <3>2, <3>4, <4>1
    <3>5. n \in e[i] /\ NULL \notin e[i]
      BY <1>0, <1>1, <1>4, <3>2
    <3> QED BY <1>0, <2>2, <3>3, <3>4, <3>5
  <2> HIDE DEF e, next
  <2> QED BY <2>1, <2>2
<1>6. r = [i \in Nat |-> ({n} \cup IF i = 0 THEN {} ELSE next(r[i - 1])) \ {NULL}]
  <2>1. \E f : f = [i \in Nat |-> ({n} \cup IF i = 0 THEN {} ELSE next(f[i - 1])) \ {NULL}]
    <3>1. e = [i \in Nat |-> e[i]]
      OBVIOUS
    <3> HIDE DEF e, next
    <3>2. e = [i \in Nat |-> ({n} \cup IF i = 0 THEN {} ELSE next(e[i - 1])) \ {NULL}]
      BY <1>5, <3>1
    <3> QED BY <3>2
  <2> HIDE DEF next
  <2> QED BY <2>1
<1>7. ReachIn(t, n) = r[Cardinality(Node)]
  BY DEF ReachIn
<1> DEFINE Agree == {i \in Nat : r[i] = e[i]}
<1>8. Nat \subseteq Agree
  <2> HIDE DEF r, e, next
  <2>1. \A i \in Nat : r[i] = ({n} \cup IF i = 0 THEN {} ELSE next(r[i - 1])) \ {NULL}
    BY <1>6
  <2>2. 0 \in Agree
    BY <1>5, <2>1
  <2>3. ASSUME NEW i \in Nat, i \in Agree PROVE i + 1 \in Agree
    <3>1. i + 1 \in Nat /\ i + 1 # 0 /\ (i + 1) - 1 = i /\ r[i] = e[i]
      BY <2>3
    <3> QED BY <1>5, <2>1, <3>1
  <2> HIDE DEF Agree
  <2> QED BY <2>2, <2>3, NatInduct
<1>9. Cardinality(Node) \in Nat /\ \A m \in sub[n] : Depth(m) <= Cardinality(Node)
  BY <1>0, ChainFinite DEF Depth
<1>10. e[Cardinality(Node)] = sub[n]
  BY <1>1, <1>9
<1> HIDE DEF r, e
<1> QED BY <1>7, <1>8, <1>9, <1>10

LEMMA ReachNothing ==
  ASSUME NEW t
  PROVE  ReachIn(t, NULL) = {}
<1> DEFINE next(S) == {t.kid[m][s] : m \in S, s \in Side}
           r == CHOOSE f : f = [i \in Nat |->
                  ({NULL} \cup IF i = 0 THEN {} ELSE next(f[i - 1])) \ {NULL}]
           e == [i \in Nat |-> {}]
<1>1. next({}) = {}
  OBVIOUS
<1> HIDE DEF next
<1>2. \A i \in Nat : e[i] = ({NULL} \cup IF i = 0 THEN {} ELSE next(e[i - 1])) \ {NULL}
  BY <1>1
<1>3. r = [i \in Nat |-> ({NULL} \cup IF i = 0 THEN {} ELSE next(r[i - 1])) \ {NULL}]
  <2>1. \E f : f = [i \in Nat |-> ({NULL} \cup IF i = 0 THEN {} ELSE next(f[i - 1])) \ {NULL}]
    <3>1. e = [i \in Nat |-> e[i]]
      OBVIOUS
    <3> HIDE DEF e
    <3>2. e = [i \in Nat |-> ({NULL} \cup IF i = 0 THEN {} ELSE next(e[i - 1])) \ {NULL}]
      BY <1>2, <3>1
    <3> QED BY <3>2
  <2> QED BY <2>1
<1>4. ReachIn(t, NULL) = r[Cardinality(Node)]
  BY DEF ReachIn, next
<1> DEFINE Agree == {i \in Nat : r[i] = {}}
<1>5. Nat \subseteq Agree
  <2> HIDE DEF r
  <2>1. \A i \in Nat : r[i] = ({NULL} \cup IF i = 0 THEN {} ELSE next(r[i - 1])) \ {NULL}
    BY <1>3
  <2>2. 0 \in Agree
    BY <2>1
  <2>3. ASSUME NEW i \in Nat, i \in Agree PROVE i + 1 \in Agree
    <3>1. i + 1 \in Nat /\ i + 1 # 0 /\ (i + 1) - 1 = i /\ r[i] = {}
      BY <2>3
    <3> QED BY <1>1, <2>1, <3>1
  <2> HIDE DEF Agree
  <2> QED BY <2>2, <2>3, NatInduct
<1>6. Cardinality(Node) \in Nat
  BY NodeAssumption, FS_CardinalityType
<1> HIDE DEF r
<1> QED BY <1>4, <1>5, <1>6

LEMMA ReachSub ==
  ASSUME NEW t, NEW sub, Shape(t, sub), NEW n \in Mem(t, sub) \cup {NULL}
  PROVE  ReachIn(t, n) = Sub(sub, n)
BY ReachIs, ReachNothing DEF Sub

LEMMA MembersAre ==
  ASSUME NEW t, NEW sub, Shape(t, sub)
  PROVE  ReachIn(t, t.root) = Mem(t, sub)
<1>1. t.root \in Mem(t, sub) \cup {NULL}
  BY DEF Shape, RootOK, Mem, Sub
<1> QED BY <1>1, ReachSub DEF Mem

(* The nodes that i links lead up to from n.                               *)
LEMMA AncestorsAre ==
  ASSUME NEW sub, Shape(tree, sub), NEW n \in Mem(tree, sub)
  PROVE  Ancestors(n) = {b \in Mem(tree, sub) : n \in sub[b]}
<1> DEFINE A == {b \in Mem(tree, sub) : n \in sub[b]}
           next(S) == {tree.parent[m] : m \in S}
           r == CHOOSE f : f = [i \in Nat |->
                  ({n} \cup IF i = 0 THEN {} ELSE next(f[i - 1])) \ {NULL}]
           Depth(b) == Cardinality(Chain(sub, b, n))
           e == [i \in Nat |-> {b \in A : Depth(b) <= i + 1}]
<1>0. n # NULL /\ n \in A
  BY Members1, LinkFacts
<1>1. ASSUME NEW b \in A
      PROVE  b # NULL /\ Depth(b) \in Nat \ {0}
  BY ChainFinite, Members1, LinkFacts
<1>2. ASSUME NEW b \in A, b # n
      PROVE  \E m \in A : tree.parent[m] = b /\ Depth(b) = Depth(m) + 1
  <2>1. PICK s \in Side : n \in Sub(sub, tree.kid[b][s])
    BY <1>2, Kids, Sides DEF Side
  <2> DEFINE k == tree.kid[b][s]
  <2>2. k # NULL /\ k \in A /\ tree.parent[k] = b
    BY <2>1, Kids DEF Sub
  <2>3. Depth(b) = Depth(k) + 1
    BY <2>1, ChainDown
  <2> QED BY <2>2, <2>3
<1>3. ASSUME NEW m \in A, tree.parent[m] # NULL
      PROVE  /\ tree.parent[m] \in A
             /\ Depth(tree.parent[m]) = Depth(m) + 1
  <2> DEFINE p == tree.parent[m]
  <2>1. p \in Mem(tree, sub) /\ m # NULL
    BY <1>1, <1>3, ParentOfMember
  <2>2. PICK s \in Side : tree.kid[p][s] = m
    BY <1>3, ParentOfMember
  <2>3. n \in Sub(sub, tree.kid[p][s])
    BY <2>1, <2>2 DEF Sub
  <2>4. n \in sub[p]
    BY <2>1, <2>3, Kids
  <2> QED BY <2>1, <2>2, <2>3, <2>4, ChainDown
<1>4. Depth(n) = 1
  BY ChainTop
<1> HIDE DEF Depth, A
<1>5. ASSUME NEW i \in Nat
      PROVE  e[i] = ({n} \cup IF i = 0 THEN {} ELSE next(e[i - 1])) \ {NULL}
  <2>1. CASE i = 0
    <3>1. ASSUME NEW b \in A, Depth(b) <= 1 PROVE b = n
      BY <1>1, <1>2, <3>1
    <3> QED BY <1>0, <1>4, <2>1, <3>1
  <2>2. CASE i # 0
    <3>0. i - 1 \in Nat /\ (i - 1) + 1 = i
      BY <2>2
    <3>1. e[i - 1] = {m \in A : Depth(m) <= i}
      BY <3>0
    <3>2. e[i] = {m \in A : Depth(m) <= i + 1}
      OBVIOUS
    <3> HIDE DEF e
    <3>3. ASSUME NEW b \in e[i], b # n PROVE b \in next(e[i - 1])
      <4>1. PICK m \in A : tree.parent[m] = b /\ Depth(b) = Depth(m) + 1
        BY <1>2, <3>2, <3>3
      <4>2. m \in e[i - 1]
        BY <1>1, <3>1, <3>2, <4>1
      <4> QED BY <4>1, <4>2
    <3>4. ASSUME NEW b \in next(e[i - 1]), b # NULL PROVE b \in e[i]
      <4>1. PICK m \in e[i - 1] : b = tree.parent[m]
        OBVIOUS
      <4> QED BY <1>1, <1>3, <3>1, <3>2, <3>4, <4>1
    <3>5. n \in e[i] /\ NULL \notin e[i]
      BY <1>0, <1>1, <1>4, <3>2
    <3> QED BY <1>0, <2>2, <3>3, <3>4, <3>5
  <2> QED BY <2>1, <2>2
<1>6. r = [i \in Nat |-> ({n} \cup IF i = 0 THEN {} ELSE next(r[i - 1])) \ {NULL}]
  <2>1. \E f : f = [i \in Nat |-> ({n} \cup IF i = 0 THEN {} ELSE next(f[i - 1])) \ {NULL}]
    <3>1. e = [i \in Nat |-> e[i]]
      OBVIOUS
    <3> HIDE DEF e, next
    <3>2. e = [i \in Nat |-> ({n} \cup IF i = 0 THEN {} ELSE next(e[i - 1])) \ {NULL}]
      BY <1>5, <3>1
    <3> QED BY <3>2
  <2> HIDE DEF next
  <2> QED BY <2>1
<1>7. Ancestors(n) = r[Cardinality(Node)]
  BY DEF Ancestors
<1> DEFINE Agree == {i \in Nat : r[i] = e[i]}
<1>8. Nat \subseteq Agree
  <2> HIDE DEF r, e, next
  <2>1. \A i \in Nat : r[i] = ({n} \cup IF i = 0 THEN {} ELSE next(r[i - 1])) \ {NULL}
    BY <1>6
  <2>2. 0 \in Agree
    BY <1>5, <2>1
  <2>3. ASSUME NEW i \in Nat, i \in Agree PROVE i + 1 \in Agree
    <3>1. i + 1 \in Nat /\ i + 1 # 0 /\ (i + 1) - 1 = i /\ r[i] = e[i]
      BY <2>3
    <3> QED BY <1>5, <2>1, <3>1
  <2> HIDE DEF Agree
  <2> QED BY <2>2, <2>3, NatInduct
<1>9. Cardinality(Node) \in Nat /\ \A b \in A : Depth(b) <= Cardinality(Node)
  <2>1. Cardinality(Node) \in Nat
    BY NodeAssumption, FS_CardinalityType
  <2>2. ASSUME NEW b \in A PROVE Depth(b) <= Cardinality(Node)
    <3>1. b \in Mem(tree, sub) /\ n \in sub[b]
      BY DEF A
    <3> QED BY <3>1, ChainFinite DEF Depth
  <2> QED BY <2>1, <2>2
<1>10. e[Cardinality(Node)] = A
  BY <1>1, <1>9
<1> HIDE DEF r, e
<1> QED BY <1>7, <1>8, <1>9, <1>10 DEF A

-----------------------------------------------------------------------------
(* The inductive invariant.                                                *)

(* h[n] counts the black nodes on every path from n down, and one more     *)
(* for a path through the link of gap, where a black node is missing.      *)
Height(h, n) == IF n = NULL THEN 0 ELSE h[n]
Black(X, n) == IF n \in X THEN 0 ELSE 1
Missing(gap, n, s) == IF <<n, s>> \in gap THEN 1 ELSE 0

LevelOK(t, X, h, gap, n, s) ==
  h[n] = Height(h, t.kid[n][s]) + Missing(gap, n, s) + Black(X, n)

Balanced(t, sub, h, gap) ==
  /\ h \in [Node -> Nat]
  /\ \A n \in Mem(t, sub), s \in Side : LevelOK(t, t.red, h, gap, n, s)

Gap(t, p, x, u) ==
  IF p = "erase_color" /\ u # NULL THEN {<<u, SideOf(t, u, x)>>} ELSE {}

(* A red node is not the root and its parent is black, but for those of X. *)
Colours(t, sub, X) ==
  \A n \in Mem(t, sub) :
    n \in t.red => n \in X \/ (n # t.root /\ t.parent[n] \notin t.red)

Exempt(t, p, x) ==
  {n \in Node : \/ p # "idle" /\ n = x
                \/ p = "erase_color" /\ n # t.root /\ t.parent[n] = x}

(* The local variables x, which is node, and u, which is parent.           *)
LoopOK(t, sub, p, x, u) ==
  /\ p \in {"idle", "insert_color", "erase_color"} /\ x \in Link /\ u \in Link
  /\ p = "insert_color" => x \in Mem(t, sub) /\ x \in t.red
  /\ p = "erase_color" =>
       /\ x # NULL => x \in Mem(t, sub)
       /\ u = NULL => x = t.root
       /\ u # NULL => u \in Mem(t, sub) /\ t.kid[u][SideOf(t, u, x)] = x

StateOK(t, p, x, u, sub, h) ==
  /\ Shape(t, sub)
  /\ Balanced(t, sub, h, Gap(t, p, x, u))
  /\ Colours(t, sub, Exempt(t, p, x))
  /\ LoopOK(t, sub, p, x, u)

RBInv == \E sub, h : StateOK(tree, pc, node, up, sub, h)

-----------------------------------------------------------------------------
(* What the invariant says of the properties.                              *)

LEMMA InvTypeOK ==
  ASSUME NEW sub, NEW h, StateOK(tree, pc, node, up, sub, h)
  PROVE  TypeOK
BY DEF StateOK, Shape, LoopOK, TypeOK

LEMMA InvSearchTree ==
  ASSUME NEW sub, Shape(tree, sub)
  PROVE  SearchTree
<1>1. Members = Mem(tree, sub)
  BY MembersAre DEF Members
<1>2. tree.root # NULL => tree.parent[tree.root] = NULL
  BY DEF Shape, RootOK
<1>3. ASSUME NEW n \in Mem(tree, sub), NEW s \in Side
      PROVE  /\ tree.kid[n][s] # NULL => tree.parent[tree.kid[n][s]] = n
             /\ \A m \in ReachIn(tree, tree.kid[n][s]) : On(s, m, n)
  <2>1. tree.kid[n][s] \in Mem(tree, sub) \cup {NULL}
    BY Kids
  <2>2. ReachIn(tree, tree.kid[n][s]) = Sub(sub, tree.kid[n][s])
    BY <2>1, ReachSub
  <2> QED BY <2>2, Kids
<1>4. ASSUME NEW n \in Mem(tree, sub)
      PROVE  /\ \A m \in ReachIn(tree, tree.kid[n]["left"]) : Key[m] < Key[n]
             /\ \A m \in ReachIn(tree, tree.kid[n]["right"]) : Key[m] > Key[n]
  BY <1>3 DEF Side, On
<1> QED BY <1>1, <1>2, <1>3, <1>4 DEF SearchTree

LEMMA LowestIs ==
  ASSUME NEW S \in SUBSET Node, NEW m \in S, \A x \in S : x = m \/ On("right", x, m)
  PROVE  Lowest(S) = m
<1>1. \A x, y \in S : Key[x] \in Int /\ Key[y] \in Int
  BY NodeAssumption
<1>2. \A x \in S : x = m \/ Key[x] > Key[m]
  BY DEF On
<1>3. S # {} /\ \A x \in S : Key[m] <= Key[x]
  BY <1>1, <1>2
<1>4. ASSUME NEW n \in S, \A x \in S : Key[n] <= Key[x] PROVE n = m
  BY <1>1, <1>2, <1>4
<1> QED BY <1>3, <1>4 DEF Lowest

LEMMA HighestIs ==
  ASSUME NEW S \in SUBSET Node, NEW m \in S, \A x \in S : x = m \/ On("left", x, m)
  PROVE  Highest(S) = m
<1>1. \A x, y \in S : Key[x] \in Int /\ Key[y] \in Int
  BY NodeAssumption
<1>2. \A x \in S : x = m \/ Key[x] < Key[m]
  BY DEF On
<1>3. S # {} /\ \A x \in S : Key[m] >= Key[x]
  BY <1>1, <1>2
<1>4. ASSUME NEW n \in S, \A x \in S : Key[n] >= Key[x] PROVE n = m
  BY <1>1, <1>2, <1>4
<1> QED BY <1>3, <1>4 DEF Highest

LEMMA InvTraversalCorrect ==
  ASSUME NEW sub, Shape(tree, sub)
  PROVE  TraversalCorrect
<1> DEFINE M == Mem(tree, sub)
<1>1. Members = M
  BY MembersAre DEF Members
<1>2. M \in SUBSET Node /\ Side = {"left", "right"}
      /\ Flip("left") = "right" /\ Flip("right") = "left"
  BY Members1 DEF Side, Flip
<1>3. uti_rb_first(tree) = Lowest(M) /\ uti_rb_last(tree) = Highest(M)
  <2>1. CASE tree.root = NULL
    <3>1. M = {}
      BY <2>1 DEF Mem, Sub
    <3>2. uti_rb_first(tree) = NULL /\ uti_rb_last(tree) = NULL
      BY <2>1 DEF uti_rb_first, uti_rb_last, Extreme
    <3> QED BY <3>1, <3>2 DEF Lowest, Highest
  <2>2. CASE tree.root # NULL
    <3>1. tree.root \in M /\ M = sub[tree.root]
      BY <2>2 DEF Shape, RootOK, Mem, Sub
    <3>2. IsExtreme(tree, sub, tree.root, "left", uti_rb_first(tree))
      BY <1>2, <3>1, ExtremeIs DEF uti_rb_first
    <3>3. IsExtreme(tree, sub, tree.root, "right", uti_rb_last(tree))
      BY <1>2, <3>1, ExtremeIs DEF uti_rb_last
    <3> HIDE DEF M
    <3>4. Lowest(M) = uti_rb_first(tree)
      BY <1>2, <3>1, <3>2, LowestIs DEF IsExtreme
    <3>5. Highest(M) = uti_rb_last(tree)
      BY <1>2, <3>1, <3>3, HighestIs DEF IsExtreme
    <3> QED BY <3>4, <3>5
  <2> QED BY <2>1, <2>2
<1>4. ASSUME NEW n \in M
      PROVE  uti_rb_next(tree, n) = Lowest({m \in M : Key[m] > Key[n]})
  <2> DEFINE S == {m \in M : Key[m] > Key[n]}
             x == uti_rb_next(tree, n)
  <2>1. IsNearest(tree, sub, n, "right", x)
    BY <1>2, NeighbourIs DEF uti_rb_next
  <2> HIDE DEF x
  <2>2. S = {m \in M : On("right", m, n)}
    BY DEF On
  <2>3. S \in SUBSET Node
    BY <1>2
  <2>4. CASE x = NULL
    <3>1. S = {}
      BY <2>1, <2>2, <2>4 DEF IsNearest
    <3>2. Lowest({}) = NULL
      BY DEF Lowest
    <3> QED BY <2>4, <3>1, <3>2 DEF x
  <2>5. CASE x # NULL
    <3>1. x \in S /\ \A y \in S : y = x \/ On("right", y, x)
      BY <2>1, <2>2, <2>5 DEF IsNearest
    <3> HIDE DEF S
    <3>2. Lowest(S) = x
      BY <2>3, <3>1, LowestIs
    <3> QED BY <3>2 DEF x, S
  <2> QED BY <2>4, <2>5
<1>5. ASSUME NEW n \in M
      PROVE  uti_rb_prev(tree, n) = Highest({m \in M : Key[m] < Key[n]})
  <2> DEFINE S == {m \in M : Key[m] < Key[n]}
             x == uti_rb_prev(tree, n)
  <2>1. IsNearest(tree, sub, n, "left", x)
    BY <1>2, NeighbourIs DEF uti_rb_prev
  <2> HIDE DEF x
  <2>2. S = {m \in M : On("left", m, n)}
    BY DEF On
  <2>3. S \in SUBSET Node
    BY <1>2
  <2>4. CASE x = NULL
    <3>1. S = {}
      BY <2>1, <2>2, <2>4 DEF IsNearest
    <3>2. Highest({}) = NULL
      BY DEF Highest
    <3> QED BY <2>4, <3>1, <3>2 DEF x
  <2>5. CASE x # NULL
    <3>1. x \in S /\ \A y \in S : y = x \/ On("left", y, x)
      BY <2>1, <2>2, <2>5 DEF IsNearest
    <3> HIDE DEF S
    <3>2. Highest(S) = x
      BY <2>3, <3>1, HighestIs
    <3> QED BY <3>2 DEF x, S
  <2> QED BY <2>4, <2>5
<1> QED BY <1>1, <1>3, <1>4, <1>5 DEF TraversalCorrect

(* The black nodes from n up, with the one missing there, and those below  *)
(* n make the same sum everywhere.                                         *)
Above(t, sub, gap, n) ==
  IF \E a \in Mem(t, sub), s \in Side : <<a, s>> \in gap /\ n \in Sub(sub, t.kid[a][s])
    THEN 1 ELSE 0

LEMMA LevelSum ==
  ASSUME NEW sub, NEW h, NEW gap, Shape(tree, sub), Balanced(tree, sub, h, gap),
         \A x, y \in gap : x = y, NEW n \in Mem(tree, sub)
  PROVE  /\ Cardinality(Ancestors(n) \ tree.red) \in Nat
         /\ Cardinality(Ancestors(n) \ tree.red) + Above(tree, sub, gap, n)
              + h[n] = h[tree.root] + Black(tree.red, n)
<1> DEFINE M == Mem(tree, sub)
           C(m) == Cardinality(Ancestors(m) \ tree.red)
           P == {m \in M : /\ C(m) \in Nat
                           /\ C(m) + Above(tree, sub, gap, m) + h[m]
                                = h[tree.root] + Black(tree.red, m)}
<1>1. ASSUME NEW m \in M
      PROVE  /\ Ancestors(m) = {b \in M : m \in sub[b]}
             /\ IsFiniteSet(Ancestors(m) \ tree.red)
             /\ m \in Node /\ m # NULL /\ h[m] \in Nat
  <2>1. Ancestors(m) = {b \in M : m \in sub[b]}
    BY AncestorsAre
  <2>2. (Ancestors(m) \ tree.red) \in SUBSET Node
    BY <2>1, Members1
  <2>3. IsFiniteSet(Ancestors(m) \ tree.red)
    BY <2>2, NodeAssumption, FS_Subset
  <2> QED BY <2>1, <2>3, Members1, LinkFacts DEF Balanced
<1>2. tree.root # NULL => tree.root \in P
  <2> SUFFICES ASSUME tree.root # NULL PROVE tree.root \in P
    OBVIOUS
  <2>1. tree.root \in M
    BY DEF Shape, RootOK, Mem, Sub
  <2>2. Ancestors(tree.root) = {tree.root}
    <3>1. M = sub[tree.root]
      BY <2>1, Members1
    <3>2. ASSUME NEW b \in M, tree.root \in sub[b] PROVE b = tree.root
      BY <2>1, <3>1, <3>2, Antisymmetric
    <3>3. Ancestors(tree.root) = {b \in M : tree.root \in sub[b]}
      BY <1>1, <2>1
    <3> QED BY <2>1, <3>1, <3>2, <3>3
  <2>3. C(tree.root) = Black(tree.red, tree.root)
    <3>1. CASE tree.root \in tree.red
      <4>1. Ancestors(tree.root) \ tree.red = {}
        BY <2>2, <3>1
      <4> QED BY <3>1, <4>1, FS_EmptySet DEF Black
    <3>2. CASE tree.root \notin tree.red
      <4>1. Ancestors(tree.root) \ tree.red = {tree.root}
        BY <2>2, <3>2
      <4> QED BY <3>2, <4>1, FS_Singleton DEF Black
    <3> QED BY <3>1, <3>2
  <2>4. Above(tree, sub, gap, tree.root) = 0
    <3>1. ASSUME NEW a \in M, NEW s \in Side, tree.root \in Sub(sub, tree.kid[a][s])
          PROVE  FALSE
      <4>1. a \in sub[tree.root] /\ tree.root \in sub[a]
        BY <2>1, <3>1, Members1, Kids
      <4>2. a = tree.root
        BY <2>1, <4>1, Antisymmetric
      <4> QED BY <3>1, <4>2, Kids
    <3> QED BY <3>1 DEF Above
  <2>5. h[tree.root] \in Nat /\ Black(tree.red, tree.root) \in Nat
    BY <1>1, <2>1 DEF Black
  <2> HIDE DEF C
  <2> QED BY <2>1, <2>3, <2>4, <2>5
<1>3. ASSUME NEW m \in M, NEW s \in Side, m \in P, tree.kid[m][s] # NULL
      PROVE  tree.kid[m][s] \in P
  <2> DEFINE k == tree.kid[m][s]
  <2>1. k \in M /\ k \in Node /\ m \in Node /\ tree.parent[k] = m /\ k \in sub[m]
        /\ m \notin sub[k] /\ Sub(sub, k) = sub[k] /\ k \in sub[k]
    BY <1>3, Kids, Members1
  <2>2. h[m] = h[k] + Missing(gap, m, s) + Black(tree.red, m)
    BY <1>3 DEF Balanced, LevelOK, Height
  <2>3. \A b \in M : k \in sub[b] <=> b = k \/ m \in sub[b]
    <3>1. \A b \in M : k \in sub[b] /\ b # k => m \in sub[b]
      BY <2>1, ParentOf
    <3>2. \A b \in M : m \in sub[b] => k \in sub[b]
      BY <2>1, SubTransitive
    <3> QED BY <2>1, <3>1, <3>2
  <2> HIDE DEF k
  <2>4. Ancestors(k) = Ancestors(m) \cup {k} /\ k \notin Ancestors(m)
    BY <1>1, <2>1, <2>3
  <2>5. C(k) = C(m) + Black(tree.red, k)
    <3>1. CASE k \in tree.red
      <4>1. Ancestors(k) \ tree.red = Ancestors(m) \ tree.red
        BY <2>4, <3>1
      <4>2. C(m) \in Nat
        BY <1>3
      <4> QED BY <3>1, <4>1, <4>2 DEF Black
    <3>2. CASE k \notin tree.red
      <4>1. /\ Ancestors(k) \ tree.red = (Ancestors(m) \ tree.red) \cup {k}
            /\ k \notin Ancestors(m) \ tree.red
        BY <2>4, <3>2
      <4>2. IsFiniteSet(Ancestors(m) \ tree.red)
        BY <1>1
      <4>3. Cardinality(Ancestors(k) \ tree.red) = Cardinality(Ancestors(m) \ tree.red) + 1
        BY <4>1, <4>2, FS_AddElement
      <4> QED BY <3>2, <4>3 DEF Black
    <3> QED BY <3>1, <3>2
  <2>6. ASSUME NEW a \in M, NEW r \in Side
        PROVE  k \in Sub(sub, tree.kid[a][r])
                 <=> (a = m /\ r = s) \/ m \in Sub(sub, tree.kid[a][r])
    <3> DEFINE o == tree.kid[a][r]
    <3>1. CASE o = NULL
      <4>1. ~(a = m /\ r = s)
        BY <1>3, <3>1
      <4> QED BY <3>1, <4>1 DEF Sub
    <3>2. CASE o # NULL
      <4>1. o \in M /\ Sub(sub, o) = sub[o] /\ tree.parent[o] = a
        BY <3>2, Kids
      <4>2. o = k <=> a = m /\ r = s
        <5>1. o = k => a = m
          BY <2>1, <4>1
        <5>2. o = k /\ a = m => r = s
          <6> SUFFICES ASSUME o = k, a = m, r # s PROVE FALSE
            OBVIOUS
          <6>1. r = Flip(s)
            BY Sides
          <6>2. k \in Sub(sub, tree.kid[m][Flip(s)]) /\ k \in Sub(sub, tree.kid[m][s])
            BY <2>1, <6>1 DEF k
          <6> QED BY <6>2, Kids
        <5> QED BY <5>1, <5>2 DEF k
      <4> QED BY <2>3, <4>1, <4>2
    <3> QED BY <3>1, <3>2
  <2>7. Above(tree, sub, gap, k) = Above(tree, sub, gap, m) + Missing(gap, m, s)
    <3>1. CASE <<m, s>> \in gap
      <4>1. m \notin Sub(sub, tree.kid[m][s])
        BY Kids
      <4>2. \A a \in M, r \in Side : <<a, r>> \in gap => a = m /\ r = s
        BY <3>1
      <4>3. Above(tree, sub, gap, m) = 0
        BY <4>1, <4>2 DEF Above
      <4>4. Above(tree, sub, gap, k) = 1
        BY <2>6, <3>1 DEF Above
      <4> QED BY <3>1, <4>3, <4>4 DEF Missing
    <3>2. CASE <<m, s>> \notin gap
      <4>1. \A a \in M, r \in Side : <<a, r>> \in gap =>
              (k \in Sub(sub, tree.kid[a][r]) <=> m \in Sub(sub, tree.kid[a][r]))
        BY <2>6, <3>2
      <4>2. Above(tree, sub, gap, k) = Above(tree, sub, gap, m)
        BY <4>1 DEF Above
      <4>3. Above(tree, sub, gap, m) \in Nat
        BY DEF Above
      <4> QED BY <3>2, <4>2, <4>3 DEF Missing
    <3> QED BY <3>1, <3>2
  <2>8. C(m) \in Nat /\ C(m) + Above(tree, sub, gap, m) + h[m] = h[tree.root] + Black(tree.red, m)
    BY <1>3
  <2>9. /\ Above(tree, sub, gap, m) \in Nat /\ Missing(gap, m, s) \in Nat
        /\ Black(tree.red, m) \in Nat /\ Black(tree.red, k) \in Nat /\ h[k] \in Nat /\ h[m] \in Nat
        /\ h[tree.root] \in Nat
    BY <1>1, <2>1, Members1 DEF Above, Missing, Black
  <2> HIDE DEF C
  <2>10. C(k) \in Nat /\ C(k) + Above(tree, sub, gap, k) + h[k] = h[tree.root] + Black(tree.red, k)
    BY <2>2, <2>5, <2>7, <2>8, <2>9
  <2> QED BY <2>1, <2>10 DEF k
<1>4. M \subseteq P
  <2> HIDE DEF P
  <2> QED BY <1>2, <1>3, DownInduct
<1> QED BY <1>4

LEMMA InvRedBlack ==
  ASSUME NEW sub, NEW h, StateOK(tree, pc, node, up, sub, h)
  PROVE  RedBlack
<1> DEFINE M == Mem(tree, sub)
           gap == Gap(tree, pc, node, up)
<1>0. /\ Shape(tree, sub) /\ Balanced(tree, sub, h, gap)
      /\ Colours(tree, sub, Exempt(tree, pc, node)) /\ LoopOK(tree, sub, pc, node, up)
  BY DEF StateOK
<1>1. Members = M
  BY <1>0, MembersAre DEF Members
<1>2. \A n \in M \cap tree.red :
        (n = tree.root \/ IsRed(tree, tree.parent[n]))
          => \/ pc # "idle" /\ n = node
             \/ pc = "erase_color" /\ tree.parent[n] = node
  <2>1. \A n \in Exempt(tree, pc, node) :
          \/ pc # "idle" /\ n = node
          \/ pc = "erase_color" /\ tree.parent[n] = node
    BY DEF Exempt
  <2> QED BY <1>0, <2>1 DEF Colours, IsRed
<1> DEFINE c == h[tree.root] + (IF pc = "erase_color" /\ up = NULL THEN 1 ELSE 0)
<1>3. ASSUME NEW l \in Leaves
      PROVE  BlackHeight(l) = c
  <2>1. PICK n \in M, s \in Side : l = <<n, s>> /\ tree.kid[n][s] = NULL
    BY <1>1 DEF Leaves
  <2>2. l[1] = n /\ l[2] = s
    BY <2>1
  <2>3. h[n] = Missing(gap, n, s) + Black(tree.red, n)
    <3>1. Missing(gap, n, s) \in Nat /\ Black(tree.red, n) \in Nat
      BY DEF Missing, Black
    <3>2. h[n] = 0 + Missing(gap, n, s) + Black(tree.red, n)
      BY <1>0, <2>1 DEF Balanced, LevelOK, Height
    <3> HIDE DEF gap
    <3> QED BY <3>1, <3>2
  <2> DEFINE k == Cardinality(Ancestors(n) \ tree.red)
  <2>4. k \in Nat /\ k + Above(tree, sub, gap, n) + h[n] = h[tree.root] + Black(tree.red, n)
    <3>1. \A x, y \in gap : x = y
      BY DEF Gap
    <3> HIDE DEF gap
    <3> QED BY <1>0, <3>1, LevelSum
  <2>5. BlackHeight(l) = k + (IF Short(l) THEN 1 ELSE 0)
    BY <2>2 DEF BlackHeight
  <2>6. /\ Missing(gap, n, s) \in Nat /\ Black(tree.red, n) \in Nat /\ h[tree.root] \in Nat
        /\ Above(tree, sub, gap, n) \in Nat
    BY <1>0, Members1 DEF Missing, Black, Above, Balanced
  <2>7. k + Above(tree, sub, gap, n) + Missing(gap, n, s) = h[tree.root]
    <3> DEFINE a == Above(tree, sub, gap, n)
               m == Missing(gap, n, s)
               b == Black(tree.red, n)
               r == h[tree.root]
               x == h[n]
    <3>1. k \in Nat /\ k + a + x = r + b /\ x = m + b
      BY <2>3, <2>4
    <3>2. m \in Nat /\ b \in Nat /\ r \in Nat /\ a \in Nat
      BY <2>6
    <3> HIDE DEF k, gap, a, m, b, r, x
    <3>3. k + a + m = r
      BY <3>1, <3>2
    <3> QED BY <3>3 DEF a, m, r
  <2>8. CASE pc # "erase_color"
    <3>1. gap = {} /\ ~Short(l)
      BY <2>8 DEF Gap, Short
    <3>2. Above(tree, sub, gap, n) = 0 /\ Missing(gap, n, s) = 0
      BY <3>1 DEF Above, Missing
    <3> HIDE DEF k, gap
    <3> QED BY <2>4, <2>5, <2>6, <2>7, <2>8, <3>1, <3>2
  <2>9. CASE pc = "erase_color" /\ up = NULL
    <3>1. gap = {} /\ node = tree.root
      BY <1>0, <2>9 DEF Gap, LoopOK
    <3>2. node # NULL /\ node \in M /\ n \in sub[node]
      BY <1>0, <3>1, Members1, LinkFacts
    <3>3. Ancestors(n) = {b \in M : n \in sub[b]}
      BY <1>0, AncestorsAre
    <3>4. Short(l)
      BY <2>2, <2>9, <3>2, <3>3 DEF Short
    <3>5. Above(tree, sub, gap, n) = 0 /\ Missing(gap, n, s) = 0
      BY <3>1 DEF Above, Missing
    <3> HIDE DEF k, gap
    <3> QED BY <2>4, <2>5, <2>6, <2>7, <2>9, <3>4, <3>5
  <2>10. CASE pc = "erase_color" /\ up # NULL
    <3> DEFINE r == SideOf(tree, up, node)
    <3>1. gap = {<<up, r>>} /\ up \in M /\ tree.kid[up][r] = node /\ r \in Side
      BY <1>0, <2>10 DEF Gap, LoopOK, SideOf, Side
    <3> HIDE DEF r
    <3>2. Above(tree, sub, gap, n) = IF n \in Sub(sub, node) THEN 1 ELSE 0
      BY <3>1 DEF Above
    <3>3. Missing(gap, n, s) = IF n = up /\ s = r THEN 1 ELSE 0
      BY <3>1 DEF Missing
    <3>4. Ancestors(n) = {b \in M : n \in sub[b]}
      BY <1>0, AncestorsAre
    <3>5. CASE node = NULL
      <4>1. Short(l) <=> n = up /\ s = r
        BY <2>1, <2>10, <3>5 DEF Short, r
      <4>2. Above(tree, sub, gap, n) = 0
        BY <3>2, <3>5 DEF Sub
      <4> HIDE DEF k, gap
      <4> QED BY <2>4, <2>5, <2>6, <2>7, <2>10, <3>3, <4>1, <4>2
    <3>6. CASE node # NULL
      <4>1. node \in M /\ Sub(sub, node) = sub[node]
        BY <1>0, <2>10, <3>6 DEF LoopOK, Sub
      <4>2. Short(l) <=> n \in Sub(sub, node)
        BY <2>2, <2>10, <3>4, <3>6, <4>1 DEF Short
      <4>3. ~(n = up /\ s = r)
        BY <2>1, <3>1, <3>6
      <4> HIDE DEF k, gap
      <4> QED BY <2>4, <2>5, <2>6, <2>7, <2>10, <3>2, <3>3, <4>2, <4>3
    <3> QED BY <3>5, <3>6
  <2> QED BY <2>8, <2>9, <2>10
<1>4. Cardinality({BlackHeight(l) : l \in Leaves}) <= 1
  <2> DEFINE S == {BlackHeight(l) : l \in Leaves}
  <2>1. S = {} \/ S = {c}
    <3> HIDE DEF c
    <3> QED BY <1>3
  <2> HIDE DEF S, c
  <2>2. Cardinality(S) = 0 \/ Cardinality(S) = 1
    BY <2>1, FS_EmptySet, FS_Singleton
  <2> QED BY <2>2 DEF S
<1> QED BY <1>1, <1>2, <1>4 DEF RedBlack

-----------------------------------------------------------------------------
(* The fields of the trees that the operations make.                       *)

LEMMA SetParentFields ==
  ASSUME NEW t \in Tree, NEW n \in Link, NEW p \in Link
  PROVE  /\ SetParent(t, n, p) \in Tree
         /\ SetParent(t, n, p).root = t.root
         /\ SetParent(t, n, p).kid = t.kid
         /\ SetParent(t, n, p).red = t.red
         /\ \A x \in Node : SetParent(t, n, p).parent[x] = IF x = n THEN p ELSE t.parent[x]
<1>1. CASE n = NULL
  BY <1>1, LinkFacts DEF SetParent
<1>2. CASE n # NULL
  <2>1. n \in Node
    BY <1>2, LinkFacts
  <2>2. t.parent \in [Node -> Link]
    BY TreeFields
  <2>3. SetParent(t, n, p) = [t EXCEPT !.parent = [t.parent EXCEPT ![n] = p]]
    BY <1>2 DEF SetParent
  <2>4. [t.parent EXCEPT ![n] = p] \in [Node -> Link]
    BY <2>1, <2>2
  <2>5. \A x \in Node : [t.parent EXCEPT ![n] = p][x] = IF x = n THEN p ELSE t.parent[x]
    BY <2>1, <2>2
  <2> QED BY <2>3, <2>4, <2>5 DEF Tree
<1> QED BY <1>1, <1>2

LEMMA SideOfIs ==
  ASSUME NEW t, NEW p, NEW n
  PROVE  SideOf(t, p, n) \in Side
BY DEF SideOf, Side

LEMMA RelinkFields ==
  ASSUME NEW t \in Tree, NEW p \in Link, NEW n, NEW m \in Link
  PROVE  /\ Relink(t, p, n, m) \in Tree
         /\ Relink(t, p, n, m).root = IF p = NULL THEN m ELSE t.root
         /\ Relink(t, p, n, m).parent = t.parent
         /\ Relink(t, p, n, m).red = t.red
         /\ \A x \in Node, r \in Side : Relink(t, p, n, m).kid[x][r] =
              IF x = p /\ r = SideOf(t, p, n) THEN m ELSE t.kid[x][r]
<1>1. CASE p = NULL
  <2>1. Relink(t, p, n, m) = [t EXCEPT !.root = m]
    BY <1>1 DEF Relink
  <2> QED BY <1>1, <2>1, LinkFacts DEF Tree
<1>2. CASE p # NULL
  <2> DEFINE q == SideOf(t, p, n)
             k == [t.kid EXCEPT ![p][q] = m]
  <2>1. p \in Node /\ q \in Side
    BY <1>2, LinkFacts, SideOfIs
  <2>2. t.kid \in [Node -> [Side -> Link]]
    BY TreeFields
  <2> HIDE DEF q
  <2>3. Relink(t, p, n, m) = [t EXCEPT !.kid = k]
    BY <1>2 DEF Relink, q
  <2>4. k \in [Node -> [Side -> Link]]
    BY <2>1, <2>2
  <2>5. \A x \in Node, r \in Side : k[x][r] = IF x = p /\ r = q THEN m ELSE t.kid[x][r]
    BY <2>1, <2>2
  <2> HIDE DEF k
  <2>6. /\ [t EXCEPT !.kid = k] \in Tree
        /\ [t EXCEPT !.kid = k].root = t.root
        /\ [t EXCEPT !.kid = k].parent = t.parent
        /\ [t EXCEPT !.kid = k].red = t.red
        /\ [t EXCEPT !.kid = k].kid = k
    BY <2>4 DEF Tree
  <2> QED BY <1>2, <2>3, <2>5, <2>6 DEF q
<1> QED BY <1>1, <1>2

(* Other colours for some of the members.                                  *)
LEMMA Recolour ==
  ASSUME NEW t, NEW sub, Shape(t, sub), NEW X, X \subseteq Mem(t, sub)
  PROVE  /\ Shape([t EXCEPT !.red = X], sub)
         /\ Mem([t EXCEPT !.red = X], sub) = Mem(t, sub)
         /\ [t EXCEPT !.red = X].root = t.root
         /\ [t EXCEPT !.red = X].kid = t.kid
         /\ [t EXCEPT !.red = X].parent = t.parent
         /\ [t EXCEPT !.red = X].red = X
<1> DEFINE u == [t EXCEPT !.red = X]
<1>0. X \subseteq Node
  BY Members1
<1>1. u \in Tree /\ u.root = t.root /\ u.kid = t.kid /\ u.parent = t.parent /\ u.red = X
  BY <1>0 DEF Shape, Tree
<1> HIDE DEF u
<1>2. Mem(u, sub) = Mem(t, sub)
  BY <1>1 DEF Mem
<1>3. Shape(u, sub)
  BY <1>1, <1>2 DEF Shape, RootOK, KidOK, OutOK
<1> QED BY <1>1, <1>2, <1>3 DEF u

(* u is t with n rotated down on side s, and X the red nodes.              *)
Rotated(t, u, n, s, X) ==
  LET c == t.kid[n][Flip(s)]
      g == t.kid[c][s]
  IN  /\ u \in Tree
      /\ u.red = X
      /\ u.root = IF n = t.root THEN c ELSE t.root
      /\ u.kid[n][s] = t.kid[n][s]
      /\ u.kid[n][Flip(s)] = g
      /\ u.kid[c][s] = n
      /\ u.kid[c][Flip(s)] = t.kid[c][Flip(s)]
      /\ \A x \in Node \ {n, c}, r \in Side :
           u.kid[x][r] = IF t.kid[x][r] = n THEN c ELSE t.kid[x][r]
      /\ \A x \in Node : u.parent[x] = IF x = n THEN c
                                       ELSE IF x = c THEN t.parent[n]
                                       ELSE IF x = g THEN n
                                       ELSE t.parent[x]

LEMMA RotateFields ==
  ASSUME NEW t, NEW sub, Shape(t, sub), NEW n \in Mem(t, sub), NEW s \in Side,
         t.kid[n][Flip(s)] # NULL
  PROVE  Rotated(t, Rotate(t, n, s), n, s, t.red)
<1> DEFINE c == t.kid[n][Flip(s)]
           p == t.parent[n]
           g == t.kid[c][s]
           f == Flip(s)
           t1 == SetParent(t, g, n)
           K == [[t1.kid EXCEPT ![n][f] = g] EXCEPT ![c][s] = n]
           P == [t1.parent EXCEPT ![c] = p]
           t2 == [t1 EXCEPT !.kid[n][Flip(s)] = g, !.kid[c][s] = n, !.parent[c] = p]
           t3 == Relink(t2, p, n, c)
           t4 == [t3 EXCEPT !.parent[n] = c]
<1>1. Rotate(t, n, s) = t4
  BY DEF Rotate
<1>2. /\ n \in Node /\ c \in Node /\ f \in Side /\ f # s /\ t \in Tree
      /\ c # n /\ c \in Mem(t, sub) /\ t.parent[c] = n
      /\ g \in Link /\ p \in Link /\ g # n /\ g # c /\ n \in Link /\ c \in Link
      /\ t.kid[c] \in [Side -> Link] /\ t.kid \in [Node -> [Side -> Link]]
      /\ \A r \in Side : r = s \/ r = f
  <2>1. n \in Node /\ f \in Side /\ t \in Tree /\ f # s /\ \A r \in Side : r = s \/ r = f
    BY Members1, Sides DEF Shape
  <2>2. c \in Mem(t, sub) /\ c \in Node /\ c # n /\ t.parent[c] = n
    BY <2>1, Kids
  <2>3. g \in Link /\ g # c
    BY <2>2, Kids, LinkFacts
  <2>4. g # n
    <3>1. g = n => n \in sub[c] /\ c \in sub[n]
      BY <2>1, <2>2, Kids, LinkFacts
    <3> QED BY <2>1, <2>2, <3>1, Antisymmetric
  <2> QED BY <2>1, <2>2, <2>3, <2>4, TreeFields DEF Link
<1>3. /\ p = NULL <=> n = t.root
      /\ p # NULL => p \in Node /\ p # n /\ p # c /\ \E r \in Side : t.kid[p][r] = n
      /\ \A x \in Node, r \in Side : t.kid[x][r] = n => x = p
      /\ \A r \in Side : p # NULL /\ t.kid[p][r] = n => r = SideOf(t, p, n)
  <2>1. /\ p = NULL <=> n = t.root
        /\ p # NULL => p \in Node /\ \E r \in Side : t.kid[p][r] = n
        /\ \A x \in Node, r \in Side : t.kid[x][r] = n => x = p
    BY ParentOfMember
  <2>2. p # NULL => p \in Mem(t, sub)
    BY <2>1, ParentOfMember
  <2>3. p # NULL => p # n /\ p # c
    <3>1. p # NULL => p # n
      BY <1>2, <2>1, <2>2, Kids, LinkFacts
    <3>2. p # c
      <4> SUFFICES ASSUME p = c PROVE FALSE
        OBVIOUS
      <4>1. PICK r \in Side : t.kid[c][r] = n
        BY <1>2, <2>1, LinkFacts
      <4>2. n \in sub[c] /\ c \in sub[n]
        BY <1>2, <4>1, Kids, LinkFacts
      <4> QED BY <1>2, <4>2, Antisymmetric
    <3> QED BY <3>1, <3>2
  <2>4. ASSUME NEW r \in Side, p # NULL, t.kid[p][r] = n PROVE r = SideOf(t, p, n)
    <3>1. ASSUME NEW q \in Side, t.kid[p][q] = n PROVE q = r
      <4>1. n # NULL /\ n \in sub[n] /\ Sub(sub, n) = sub[n]
        BY <1>2, LinkFacts, Members1 DEF Sub
      <4>2. q = Flip(r) => n \notin Sub(sub, n)
        <5>1. p \in Mem(t, sub)
          BY <2>2, <2>4
        <5>2. \A x \in Sub(sub, t.kid[p][Flip(r)]) : x \notin Sub(sub, t.kid[p][r])
          <6> HIDE DEF p
          <6> QED BY <5>1, Kids
        <5> QED BY <2>4, <3>1, <4>1, <5>2
      <4> QED BY <4>1, <4>2, Sides
    <3> QED BY <2>4, <3>1 DEF SideOf, Side
  <2> QED BY <2>1, <2>3, <2>4
<1> HIDE DEF c, p, g, f
<1>4. /\ t1 \in Tree /\ t1.root = t.root /\ t1.kid = t.kid /\ t1.red = t.red
      /\ \A x \in Node : t1.parent[x] = IF x = g THEN n ELSE t.parent[x]
  BY <1>2, SetParentFields
<1>16. \E kid \in [Node -> [Side -> Link]], parent \in [Node -> Link] :
         t1 = [root |-> t.root, kid |-> kid, parent |-> parent, red |-> t.red]
  BY <1>4, TreeFields
<1> HIDE DEF t1
<1>5. /\ K \in [Node -> [Side -> Link]]
      /\ K[n][f] = g /\ K[c][s] = n /\ K[n][s] = t.kid[n][s] /\ K[c][f] = t.kid[c][f]
      /\ \A x \in Node \ {n, c} : K[x] = t.kid[x]
  BY <1>2, <1>4
<1>6. P \in [Node -> Link] /\ \A x \in Node : P[x] = IF x = c THEN p ELSE t1.parent[x]
  <2>1. t1.parent \in [Node -> Link]
    BY <1>4, TreeFields
  <2> QED BY <1>2, <2>1
<1>7. t2 = [t1 EXCEPT !.kid = K, !.parent = P]
  <2>1. [t1 EXCEPT !.kid[n][f] = g, !.kid[c][s] = n] = [t1 EXCEPT !.kid = K]
    BY <1>16
  <2> QED BY <1>16 DEF f
<1> HIDE DEF K, P, t2
<1>8. /\ t2 \in Tree /\ t2.root = t.root /\ t2.kid = K /\ t2.parent = P /\ t2.red = t.red
  BY <1>4, <1>5, <1>6, <1>7 DEF Tree
<1>9. p # NULL => SideOf(t2, p, n) = SideOf(t, p, n)
  BY <1>3, <1>5, <1>8 DEF SideOf
<1>10. /\ t3 \in Tree /\ t3.root = IF p = NULL THEN c ELSE t.root
       /\ t3.parent = P /\ t3.red = t.red
       /\ \A x \in Node, r \in Side : t3.kid[x][r] =
            IF x = p /\ r = SideOf(t2, p, n) THEN c ELSE K[x][r]
  BY <1>2, <1>8, RelinkFields
<1> HIDE DEF t3
<1>11. /\ t4 \in Tree /\ t4.root = t3.root /\ t4.kid = t3.kid /\ t4.red = t3.red
       /\ \A x \in Node : t4.parent[x] = IF x = n THEN c ELSE P[x]
  <2> DEFINE Q == [t3.parent EXCEPT ![n] = c]
  <2>1. Q \in [Node -> Link] /\ \A x \in Node : Q[x] = IF x = n THEN c ELSE P[x]
    BY <1>2, <1>6, <1>10
  <2>2. t4 = [t3 EXCEPT !.parent = Q]
    OBVIOUS
  <2> HIDE DEF Q, t4
  <2> QED BY <1>10, <2>1, <2>2 DEF Tree
<1> HIDE DEF t4
<1>12. /\ t4.kid[n][s] = t.kid[n][s] /\ t4.kid[n][f] = g
       /\ t4.kid[c][s] = n /\ t4.kid[c][f] = t.kid[c][f]
  BY <1>2, <1>3, <1>5, <1>10, <1>11, LinkFacts
<1>13. ASSUME NEW x \in Node \ {n, c}, NEW r \in Side
       PROVE  t4.kid[x][r] = IF t.kid[x][r] = n THEN c ELSE t.kid[x][r]
  <2>1. t4.kid[x][r] = IF x = p /\ r = SideOf(t2, p, n) THEN c ELSE t.kid[x][r]
    BY <1>5, <1>10, <1>11
  <2>2. x # NULL /\ (t.kid[x][r] = n <=> x = p /\ r = SideOf(t2, p, n))
    <3>1. x # NULL
      BY LinkFacts
    <3>2. t.kid[x][r] = n => x = p /\ r = SideOf(t2, p, n)
      BY <1>3, <1>9, <3>1
    <3>3. x = p /\ r = SideOf(t2, p, n) => t.kid[x][r] = n
      BY <1>3, <1>9, <3>1
    <3> QED BY <3>1, <3>2, <3>3
  <2> QED BY <2>1, <2>2
<1>14. ASSUME NEW x \in Node
       PROVE  t4.parent[x] = IF x = n THEN c ELSE IF x = c THEN p
                             ELSE IF x = g THEN n ELSE t.parent[x]
  BY <1>4, <1>6, <1>11
<1>15. t4.root = IF n = t.root THEN c ELSE t.root
  BY <1>3, <1>10, <1>11
<1> QED BY <1>1, <1>10, <1>11, <1>12, <1>13, <1>14, <1>15 DEF Rotated, c, g, f, p

(* The labels after the rotation: only those of n and its child change.    *)
RotatedSub(t, sub, n, s) ==
  LET c == t.kid[n][Flip(s)] IN
  [x \in Node |-> IF x = c THEN sub[n]
                  ELSE IF x = n THEN {n} \cup Sub(sub, t.kid[n][s]) \cup Sub(sub, t.kid[c][s])
                  ELSE sub[x]]

LEMMA RotateShape ==
  ASSUME NEW t, NEW sub, Shape(t, sub), NEW n \in Mem(t, sub), NEW s \in Side,
         t.kid[n][Flip(s)] # NULL, NEW u, NEW X, Rotated(t, u, n, s, X), X \subseteq Mem(t, sub)
  PROVE  /\ Shape(u, RotatedSub(t, sub, n, s))
         /\ Mem(u, RotatedSub(t, sub, n, s)) = Mem(t, sub)
<1> DEFINE f == Flip(s)
           c == t.kid[n][Flip(s)]
           a == t.kid[n][s]
           g == t.kid[c][s]
           b == t.kid[c][f]
           v == RotatedSub(t, sub, n, s)
           M == Mem(t, sub)
<1>1. /\ n \in Node /\ c \in Node /\ c \in M /\ f \in Side /\ f # s /\ Flip(f) = s
      /\ \A r \in Side : r = s \/ r = f
      /\ n # NULL /\ c # NULL /\ c # n /\ Sub(sub, c) = sub[c]
      /\ a \in Link /\ g \in Link /\ b \in Link
      /\ M \subseteq Node
  BY Members1, Sides, Kids, LinkFacts
<1>2. /\ sub[n] = {n} \cup Sub(sub, a) \cup sub[c]
      /\ sub[c] = {c} \cup Sub(sub, g) \cup Sub(sub, b)
      /\ n \notin sub[c] /\ n \notin Sub(sub, a) /\ c \notin Sub(sub, a)
      /\ c \notin Sub(sub, g) /\ c \notin Sub(sub, b)
      /\ On(f, c, n) /\ On(s, n, c)
  <2>1. /\ sub[n] = {n} \cup Sub(sub, a) \cup sub[c]
        /\ sub[c] = {c} \cup Sub(sub, g) \cup Sub(sub, b)
    BY <1>1, Kids
  <2>2. n \notin sub[c] /\ n \notin Sub(sub, a)
        /\ c \notin Sub(sub, g) /\ c \notin Sub(sub, b) /\ On(f, c, n)
    BY <1>1, Kids
  <2>3. c \notin Sub(sub, a)
    <3>1. c \in Sub(sub, a) => On(s, c, n)
      BY Kids
    <3> QED BY <1>1, <2>2, <3>1, OnOrder
  <2> QED BY <1>1, <2>1, <2>2, <2>3, OnOrder
<1>3. /\ a # NULL => a \in M /\ t.parent[a] = n /\ a # n /\ a # c
      /\ g # NULL => g \in M /\ t.parent[g] = c /\ g # n /\ g # c
      /\ b # NULL => b \in M /\ t.parent[b] = c /\ b # n /\ b # c
      /\ a # NULL => a # g /\ a # b
      /\ g # NULL => g # b
  <2>1. /\ a # NULL => a \in M /\ t.parent[a] = n /\ a \in Sub(sub, a)
        /\ g # NULL => g \in M /\ t.parent[g] = c /\ g \in Sub(sub, g)
        /\ b # NULL => b \in M /\ t.parent[b] = c /\ b \in Sub(sub, b)
    BY <1>1, Kids, Members1
  <2>2. \A x \in Sub(sub, b) : x \notin Sub(sub, g)
    BY <1>1, Kids
  <2> QED BY <1>1, <1>2, <2>1, <2>2
<1>4. /\ \A x \in Sub(sub, a) : On(s, x, n) /\ x \in Node
      /\ \A x \in sub[c] : On(f, x, n) /\ x \in Node
      /\ \A x \in Sub(sub, g) : On(s, x, c)
      /\ \A x \in Sub(sub, b) : On(f, x, c)
  <2>1. \A x \in Sub(sub, a) : On(s, x, n) /\ x \in Node
    BY Kids
  <2>2. \A x \in sub[c] : On(f, x, n) /\ x \in Node
    BY <1>1, Kids
  <2>3. \A x \in Sub(sub, g) : On(s, x, c)
    BY <1>1, Kids
  <2>4. \A x \in Sub(sub, b) : On(f, x, c)
    BY <1>1, Kids
  <2> QED BY <2>1, <2>2, <2>3, <2>4
<1>5. /\ v \in [Node -> SUBSET Node]
      /\ v[c] = sub[n]
      /\ v[n] = {n} \cup Sub(sub, a) \cup Sub(sub, g)
      /\ \A x \in Node : x # n /\ x # c => v[x] = sub[x]
  <2>1. \A x \in Node : sub[x] \in SUBSET Node
    BY DEF Shape
  <2>2. Sub(sub, g) \subseteq Node
    BY <1>2, <1>4
  <2> QED BY <1>1, <1>4, <2>1, <2>2 DEF RotatedSub
<1>6. \A x \in Link : x # n /\ x # c => Sub(v, x) = Sub(sub, x)
  BY <1>5, LinkFacts DEF Sub
<1>7. Sub(v, n) = v[n] /\ Sub(v, c) = sub[n]
  BY <1>1, <1>5 DEF Sub
<1> HIDE DEF a, g, b, c, f, v
<1>8. /\ u \in Tree /\ u.red = X
      /\ u.root = IF n = t.root THEN c ELSE t.root
      /\ u.kid[n][s] = a /\ u.kid[n][f] = g /\ u.kid[c][s] = n /\ u.kid[c][f] = b
      /\ \A x \in Node \ {n, c}, r \in Side :
           u.kid[x][r] = IF t.kid[x][r] = n THEN c ELSE t.kid[x][r]
      /\ \A x \in Node : u.parent[x] = IF x = n THEN c
                                       ELSE IF x = c THEN t.parent[n]
                                       ELSE IF x = g THEN n
                                       ELSE t.parent[x]
  BY DEF Rotated, a, g, b, c, f
<1>9. Mem(u, v) = M /\ RootOK(u, v)
  <2>1. t.root \in M /\ t.root \in sub[t.root] /\ t.parent[t.root] = NULL /\ M = sub[t.root]
        /\ t.root \in Node /\ t.root # NULL
    BY Members1, LinkFacts DEF Shape, RootOK
  <2>2. t.root # c
    <3>1. t.parent[c] = n
      BY Kids, Sides DEF c, f
    <3> QED BY <1>1, <2>1, <3>1
  <2>3. g # NULL => t.root # g
    BY <1>1, <1>3, <2>1
  <2>4. CASE n = t.root
    <3>1. u.root = c /\ u.parent[c] = NULL
      BY <1>1, <1>8, <2>1, <2>4
    <3> QED BY <1>1, <1>2, <1>5, <1>7, <2>1, <2>4, <3>1 DEF Mem, RootOK
  <2>5. CASE n # t.root
    <3>1. u.root = t.root /\ u.parent[u.root] = NULL
      BY <1>8, <2>1, <2>2, <2>3, <2>5
    <3>2. Sub(v, t.root) = sub[t.root] /\ v[t.root] = sub[t.root]
      BY <1>5, <2>1, <2>2, <2>5 DEF Sub
    <3> QED BY <2>1, <3>1, <3>2 DEF Mem, RootOK
  <2> QED BY <2>4, <2>5
<1>10. ASSUME NEW x \in M, NEW r \in Side PROVE KidOK(u, v, x, r)
  <2> DEFINE k == u.kid[x][r]
             o == u.kid[x][Flip(r)]
  <2> SUFFICES /\ k # NULL => k \in M /\ u.parent[k] = x
               /\ v[x] = {x} \cup Sub(v, k) \cup Sub(v, o)
               /\ \A y \in Sub(v, k) : On(r, y, x)
    BY <1>9 DEF KidOK
  <2>0. (r = s /\ Flip(r) = f) \/ (r = f /\ Flip(r) = s)
    BY <1>1 DEF f
  <2>1. CASE x = n
    <3>1. Sub(v, a) = Sub(sub, a) /\ Sub(v, g) = Sub(sub, g)
      BY <1>1, <1>3, <1>6
    <3>2. a # NULL => a \in M /\ u.parent[a] = n
      BY <1>1, <1>3, <1>8
    <3>3. g # NULL => g \in M /\ u.parent[g] = n
      BY <1>1, <1>3, <1>8
    <3>4. CASE r = s
      <4>1. k = a /\ o = g
        BY <1>8, <2>0, <2>1, <3>4, <1>1
      <4> QED BY <1>4, <1>5, <2>1, <3>1, <3>2, <3>4, <4>1
    <3>5. CASE r = f
      <4>1. k = g /\ o = a
        BY <1>8, <2>0, <2>1, <3>5, <1>1
      <4>2. \A y \in Sub(sub, g) : On(f, y, n)
        BY <1>2, <1>4
      <4> QED BY <1>5, <2>1, <3>1, <3>3, <3>5, <4>1, <4>2
    <3> QED BY <2>0, <3>4, <3>5
  <2>2. CASE x = c
    <3>1. Sub(v, b) = Sub(sub, b)
      BY <1>1, <1>3, <1>6
    <3>2. b # NULL => b \in M /\ u.parent[b] = c
      BY <1>1, <1>3, <1>8
    <3>3. u.parent[n] = c
      BY <1>1, <1>8
    <3>4. v[c] = {c} \cup v[n] \cup Sub(sub, b)
      BY <1>2, <1>5
    <3>5. CASE r = s
      <4>1. k = n /\ o = b
        BY <1>8, <2>0, <2>2, <3>5, <1>1
      <4>2. ASSUME NEW y \in v[n] PROVE On(s, y, c)
        <5>1. y \in Sub(sub, a) => On(s, y, c)
          BY <1>1, <1>2, <1>4, OnTransitive
        <5> QED BY <1>2, <1>4, <1>5, <5>1
      <4> QED BY <1>7, <2>2, <3>1, <3>3, <3>4, <3>5, <4>1, <4>2
    <3>6. CASE r = f
      <4>1. k = b /\ o = n
        BY <1>8, <2>0, <2>2, <3>6, <1>1
      <4> QED BY <1>4, <1>7, <2>2, <3>1, <3>2, <3>4, <3>6, <4>1
    <3> QED BY <2>0, <3>5, <3>6
  <2>3. CASE x # n /\ x # c
    <3> DEFINE l == t.kid[x][r]
               m == t.kid[x][Flip(r)]
    <3>1. Flip(r) \in Side /\ x \in Node /\ v[x] = sub[x]
      BY <1>1, <1>5, <2>3, Sides
    <3>2. /\ l \in Link /\ m \in Link
          /\ l # NULL => l \in M /\ l \in Node /\ t.parent[l] = x
          /\ m # NULL => t.parent[m] = x
          /\ sub[x] = {x} \cup Sub(sub, l) \cup Sub(sub, m)
          /\ \A y \in Sub(sub, l) : On(r, y, x)
      BY <3>1, Kids
    <3>3. t.parent[c] = n /\ (g # NULL => t.parent[g] = c)
      <4>1. t.parent[c] = n
        BY Kids, Sides DEF c, f
      <4> QED BY <1>3, <4>1
    <3>4. l # c /\ m # c /\ (g # NULL => l # g)
      BY <1>1, <2>3, <3>2, <3>3
    <3>5. k = (IF l = n THEN c ELSE l) /\ o = (IF m = n THEN c ELSE m)
      BY <1>8, <2>3, <3>1
    <3> HIDE DEF k, o, l, m
    <3>6. Sub(v, k) = Sub(sub, l) /\ Sub(v, o) = Sub(sub, m)
      <4>1. Sub(sub, n) = sub[n]
        BY <1>1 DEF Sub
      <4> QED BY <1>6, <1>7, <3>2, <3>4, <3>5, <4>1
    <3>7. k # NULL => k \in M /\ u.parent[k] = x
      <4>1. CASE l = n
        BY <1>1, <1>8, <3>2, <3>5, <4>1
      <4>2. CASE l # n
        BY <1>8, <3>2, <3>4, <3>5, <4>2
      <4> QED BY <4>1, <4>2
    <3> QED BY <3>1, <3>2, <3>6, <3>7
  <2> QED BY <2>1, <2>2, <2>3
<1>11. ASSUME NEW x \in Node \ M PROVE OutOK(u, x)
  <2>1. t.kid[x] = NoKids /\ t.parent[x] = NULL /\ x \notin t.red
    BY DEF Shape, OutOK
  <2>2. x # n /\ x # c /\ x # g
    BY <1>1, <1>3, LinkFacts
  <2>3. u.parent[x] = NULL /\ x \notin u.red
    BY <1>8, <2>1, <2>2
  <2>4. \A r \in Side : u.kid[x][r] = NULL
    BY <1>1, <1>8, <2>1, <2>2 DEF NoKids
  <2>5. u.kid[x] \in [Side -> Link]
    BY <1>8, TreeFields
  <2>6. u.kid[x] = NoKids
    BY <2>4, <2>5 DEF NoKids
  <2> QED BY <2>3, <2>6 DEF OutOK
<1>12. Shape(u, v) /\ Mem(u, v) = M
  BY <1>5, <1>8, <1>9, <1>10, <1>11 DEF Shape
<1> QED BY <1>12 DEF v

(* The same with c and g named.                                            *)
Swapped(t, u, n, s, X, c, g) ==
  /\ u \in Tree /\ u.red = X
  /\ u.root = IF n = t.root THEN c ELSE t.root
  /\ u.kid[n][s] = t.kid[n][s] /\ u.kid[n][Flip(s)] = g
  /\ u.kid[c][s] = n /\ u.kid[c][Flip(s)] = t.kid[c][Flip(s)]
  /\ \A x \in Node \ {n, c}, r \in Side :
       u.kid[x][r] = IF t.kid[x][r] = n THEN c ELSE t.kid[x][r]
  /\ \A x \in Node : u.parent[x] = IF x = n THEN c
                                   ELSE IF x = c THEN t.parent[n]
                                   ELSE IF x = g THEN n
                                   ELSE t.parent[x]

LEMMA RotatedIs ==
  ASSUME NEW t, NEW u, NEW n, NEW s, NEW X, Rotated(t, u, n, s, X),
         NEW c, c = t.kid[n][Flip(s)], NEW g, g = t.kid[c][s]
  PROVE  Swapped(t, u, n, s, X, c, g)
BY DEF Rotated, Swapped

(* What a rotation at n asks of the levels, n ending on level.             *)
Fits(t, X, h, gap, n, s, level) ==
  LET c == t.kid[n][Flip(s)] IN
  /\ level \in Nat
  /\ level = Height(h, t.kid[n][s]) + Missing(gap, n, s) + Black(X, n)
  /\ level = Height(h, t.kid[c][s]) + Missing(gap, n, Flip(s)) + Black(X, n)
  /\ h[n] = level + Missing(gap, c, s) + Black(X, c)
  /\ h[n] = Height(h, t.kid[c][Flip(s)]) + Missing(gap, c, Flip(s)) + Black(X, c)

Turned(t, u, X, sub, h, gap, n, s, level) ==
  \E v, k : /\ Rotated(t, u, n, s, X)
            /\ Shape(u, v) /\ Mem(u, v) = Mem(t, sub)
            /\ Balanced(u, v, k, gap)
            /\ k = [h EXCEPT ![t.kid[n][Flip(s)]] = h[n], ![n] = level]

(* A rotation with new colours keeps the levels, if they fit at the two    *)
(* nodes that trade places.                                                *)
LEMMA Turn ==
  ASSUME NEW t, NEW sub, Shape(t, sub), NEW n \in Mem(t, sub), NEW s \in Side,
         t.kid[n][Flip(s)] # NULL, NEW X, X \subseteq Mem(t, sub),
         NEW h \in [Node -> Nat], NEW gap, NEW level,
         \A x \in Mem(t, sub) \ {n, t.kid[n][Flip(s)]}, r \in Side :
           LevelOK(t, X, h, gap, x, r),
         Fits(t, X, h, gap, n, s, level),
         NEW u, u = Rotate([t EXCEPT !.red = X], n, s)
  PROVE  Turned(t, u, X, sub, h, gap, n, s, level)
<1> DEFINE t2 == [t EXCEPT !.red = X]
           f == Flip(s)
           c == t.kid[n][f]
           v == RotatedSub(t, sub, n, s)
           k == [h EXCEPT ![c] = h[n], ![n] = level]
           M == Mem(t, sub)
<1>1. /\ Shape(t2, sub) /\ Mem(t2, sub) = M
      /\ t2.root = t.root /\ t2.kid = t.kid /\ t2.parent = t.parent /\ t2.red = X
  BY Recolour
<1>0. u = Rotate(t2, n, s)
  OBVIOUS
<1> HIDE DEF t2
<1>2. Rotated(t2, u, n, s, X)
  BY <1>0, <1>1, RotateFields
<1>3. Rotated(t, u, n, s, X)
  BY <1>1, <1>2 DEF Rotated
<1>4. Shape(u, v) /\ Mem(u, v) = M
  BY <1>3, RotateShape
<1> HIDE DEF v
<1>5. /\ n \in Node /\ c \in Node /\ c \in M /\ f \in Side /\ f # s /\ c # n
      /\ n # NULL /\ c # NULL /\ t.parent[c] = n
      /\ \A r \in Side : r = s \/ r = f
  BY Members1, Sides, Kids, LinkFacts
<1>6. /\ k \in [Node -> Nat] /\ k[c] = h[n] /\ k[n] = level
      /\ \A x \in Node : x # n /\ x # c => k[x] = h[x]
  BY <1>5 DEF Fits
<1>7. \A x \in Link : x # n /\ x # c => Height(k, x) = Height(h, x)
  BY <1>6, LinkFacts DEF Height
<1> DEFINE a == t.kid[n][s]
           g == t.kid[c][s]
           b == t.kid[c][f]
<1>8. /\ a \in Link /\ g \in Link /\ b \in Link
      /\ a # n /\ a # c /\ g # n /\ g # c /\ b # n /\ b # c
  <2>1. a \in Link /\ g \in Link /\ b \in Link
    BY <1>5, Kids
  <2>2. a # n /\ g # c /\ b # c
    BY <1>5, Kids, LinkFacts
  <2>3. a # c
    <3>1. a = c => On(s, c, n) /\ On(f, c, n)
      BY <1>5, Kids
    <3> QED BY <1>5, <3>1, OnOrder
  <2>4. g # n /\ b # n
    <3>1. g = n \/ b = n => n \in sub[c] /\ c \in sub[n]
      BY <1>5, Kids
    <3> QED BY <1>5, <3>1, Antisymmetric
  <2> QED BY <2>1, <2>2, <2>3, <2>4
<1>9. /\ level = Height(h, a) + Missing(gap, n, s) + Black(X, n)
      /\ level = Height(h, g) + Missing(gap, n, f) + Black(X, n)
      /\ h[n] = level + Missing(gap, c, s) + Black(X, c)
      /\ h[n] = Height(h, b) + Missing(gap, c, f) + Black(X, c)
      /\ level \in Nat
  BY DEF Fits
<1>10. \A x \in M \ {n, c}, r \in Side :
         h[x] = Height(h, t.kid[x][r]) + Missing(gap, x, r) + Black(X, x)
  BY DEF LevelOK
<1> HIDE DEF c, f, k, a, g, b
<1>11. /\ u.red = X
       /\ u.kid[n][s] = a /\ u.kid[n][f] = g /\ u.kid[c][s] = n /\ u.kid[c][f] = b
       /\ \A x \in Node \ {n, c}, r \in Side :
            u.kid[x][r] = IF t.kid[x][r] = n THEN c ELSE t.kid[x][r]
  BY <1>3 DEF Rotated, a, g, b, c, f
<1>12. ASSUME NEW x \in M, NEW r \in Side
       PROVE  k[x] = Height(k, u.kid[x][r]) + Missing(gap, x, r) + Black(X, x)
  <2>1. CASE x = n
    BY <1>5, <1>6, <1>7, <1>8, <1>9, <1>11, <2>1
  <2>2. CASE x = c
    <3>1. Height(k, n) = level
      BY <1>5, <1>6 DEF Height
    <3> QED BY <1>5, <1>6, <1>7, <1>8, <1>9, <1>11, <2>2, <3>1
  <2>3. CASE x # n /\ x # c
    <3> DEFINE l == t.kid[x][r]
    <3>1. l \in Link /\ l # c /\ x \in Node
      BY <1>5, <2>3, Kids, Members1
    <3>2. k[x] = h[x] /\ u.kid[x][r] = IF l = n THEN c ELSE l
      BY <1>6, <1>11, <2>3, <3>1
    <3>3. Height(k, u.kid[x][r]) = Height(h, l)
      <4> HIDE DEF l
      <4> QED BY <1>5, <1>6, <1>7, <3>1, <3>2 DEF Height
    <3> QED BY <1>10, <2>3, <3>2, <3>3
  <2> QED BY <2>1, <2>2, <2>3
<1>13. Balanced(u, v, k, gap)
  BY <1>4, <1>6, <1>11, <1>12 DEF Balanced, LevelOK
<1> QED BY <1>3, <1>4, <1>13 DEF Turned, k, c, f

LEMMA SideOfChild ==
  ASSUME NEW t, NEW sub, Shape(t, sub), NEW m \in Mem(t, sub), t.parent[m] # NULL
  PROVE  /\ t.parent[m] \in Mem(t, sub) /\ t.parent[m] \in Node
         /\ m # t.root
         /\ SideOf(t, t.parent[m], m) \in Side
         /\ t.kid[t.parent[m]][SideOf(t, t.parent[m], m)] = m
BY ParentOfMember, SideOfIs DEF SideOf, Side

(* A child is on one side of its parent only.                              *)
LEMMA OneSide ==
  ASSUME NEW t, NEW sub, Shape(t, sub), NEW n \in Mem(t, sub), NEW s \in Side,
         t.kid[n][s] # NULL
  PROVE  t.kid[n][Flip(s)] # t.kid[n][s]
<1>1. t.kid[n][s] \in Sub(sub, t.kid[n][s])
  BY Kids, Members1
<1> QED BY <1>1, Kids

-----------------------------------------------------------------------------
(* The repair of an insertion.                                             *)

(* The invariant holds of these values, and the members are those of M.    *)
Becomes(M, t, p, x, u) == \E sub, h : StateOK(t, p, x, u, sub, h) /\ Mem(t, sub) = M

Repaired(sub) == Becomes(Mem(tree, sub), tree', pc', node', up')

LEMMA InsertLoop ==
  ASSUME NEW sub, NEW h, StateOK(tree, pc, node, up, sub, h), pc = "insert_color"
  PROVE  /\ Shape(tree, sub) /\ Balanced(tree, sub, h, {}) /\ h \in [Node -> Nat]
         /\ node \in Mem(tree, sub) /\ node \in tree.red /\ tree.red \subseteq Mem(tree, sub)
         /\ up \in Link
         /\ \A n \in Mem(tree, sub) : n \in tree.red /\ n # node =>
              n # tree.root /\ tree.parent[n] \notin tree.red
<1>1. tree.red \subseteq Mem(tree, sub)
  BY TreeFields DEF StateOK, Shape, OutOK
<1>2. \A n \in Exempt(tree, pc, node) : n = node
  BY DEF Exempt
<1> QED BY <1>1, <1>2 DEF StateOK, Balanced, LoopOK, Colours, Gap

LEMMA Grandparent ==
  ASSUME NEW sub, NEW h, StateOK(tree, pc, node, up, sub, h), pc = "insert_color",
         RedParent, NEW p, p = tree.parent[node], NEW g, g = tree.parent[p],
         NEW s, s = SideOf(tree, g, p)
  PROVE  /\ p \in Mem(tree, sub) /\ p \in Node /\ p \in tree.red
         /\ g \in Mem(tree, sub) /\ g \in Node /\ g # NULL /\ g \notin tree.red
         /\ s \in Side /\ tree.kid[g][s] = p
         /\ node # tree.root /\ p # tree.root /\ p # node /\ g # p
         /\ tree.kid[p][s] = node \/ tree.kid[p][Flip(s)] = node
<1>1. /\ Shape(tree, sub) /\ node \in Mem(tree, sub) /\ node \in tree.red
      /\ \A n \in Mem(tree, sub) : n \in tree.red /\ n # node =>
           n # tree.root /\ tree.parent[n] \notin tree.red
  BY InsertLoop
<1>2. /\ p \in Mem(tree, sub) /\ p \in Node /\ p \in tree.red /\ node # tree.root
      /\ \E r \in Side : tree.kid[p][r] = node
  BY <1>1, SideOfChild DEF RedParent, IsRed
<1>3. p # node
  BY <1>1, <1>2, Kids, Members1, LinkFacts
<1>4. p # tree.root /\ g \notin tree.red
  BY <1>1, <1>2, <1>3
<1>5. g # NULL
  BY <1>1, <1>2, <1>4, ParentOfMember, LinkFacts
<1>6. g \in Mem(tree, sub) /\ g \in Node /\ s \in Side /\ tree.kid[g][s] = p
  BY <1>1, <1>2, <1>5, SideOfChild
<1>7. tree.kid[p][s] = node \/ tree.kid[p][Flip(s)] = node
  BY <1>2, <1>6, Sides
<1> QED BY <1>2, <1>3, <1>4, <1>5, <1>6, <1>7

LEMMA InsertRecolourStep ==
  ASSUME NEW sub, NEW h, StateOK(tree, pc, node, up, sub, h), InsertRecolour
  PROVE  Repaired(sub)
<1> DEFINE p == tree.parent[node]
           g == tree.parent[p]
           s == SideOf(tree, g, p)
           o == tree.kid[g][Flip(s)]
           X == (tree.red \ {p, o}) \cup {g}
           u == [tree EXCEPT !.red = X]
           k == [h EXCEPT ![p] = h[p] + 1, ![o] = h[o] + 1]
           M == Mem(tree, sub)
<1>0. pc = "insert_color" /\ RedParent
  BY DEF InsertRecolour
<1>1. /\ Shape(tree, sub) /\ Balanced(tree, sub, h, {}) /\ h \in [Node -> Nat]
      /\ node \in M /\ node \in tree.red /\ tree.red \subseteq M /\ up \in Link
      /\ \A n \in M : n \in tree.red /\ n # node =>
           n # tree.root /\ tree.parent[n] \notin tree.red
  BY <1>0, InsertLoop
<1>2. /\ p \in M /\ p \in Node /\ p \in tree.red
      /\ g \in M /\ g \in Node /\ g # NULL /\ g \notin tree.red
      /\ s \in Side /\ tree.kid[g][s] = p
      /\ node # tree.root /\ p # tree.root /\ p # node /\ g # p
  <2> HIDE DEF p, g, s
  <2> QED BY <1>0, Grandparent DEF p, g, s
<1>3. IsRed(tree, o) /\ tree' = u /\ node' = g /\ pc' = pc /\ up' = up
  BY DEF InsertRecolour
<1> HIDE DEF p, g, s
<1>4. /\ o \in M /\ o \in Node /\ o # p /\ o # g /\ tree.parent[o] = g /\ o \in tree.red
      /\ tree.parent[p] = g
  <2>1. o \in tree.red /\ o \in Node /\ o # NULL
    BY <1>1, <1>3, TreeFields, LinkFacts DEF IsRed, Shape
  <2>2. o \in M /\ tree.parent[o] = g /\ o # g
    BY <1>1, <1>2, <2>1, Kids, Sides
  <2>3. o # p
    BY <1>1, <1>2, <2>1, OneSide, LinkFacts
  <2> QED BY <2>1, <2>2, <2>3 DEF g
<1> HIDE DEF o
<1>5. X \subseteq M
  BY <1>1, <1>2
<1> HIDE DEF X
<1>6. /\ Shape(u, sub) /\ Mem(u, sub) = M
      /\ u.root = tree.root /\ u.kid = tree.kid /\ u.parent = tree.parent /\ u.red = X
  BY <1>1, <1>5, Recolour
<1> HIDE DEF u
<1>7. /\ k \in [Node -> Nat] /\ k[p] = h[p] + 1 /\ k[o] = h[o] + 1
      /\ \A x \in Node : x # p /\ x # o => k[x] = h[x]
  BY <1>1, <1>2, <1>4
<1> HIDE DEF k
<1>8. ASSUME NEW x \in M, NEW r \in Side
      PROVE  k[x] = Height(k, tree.kid[x][r]) + Missing({}, x, r) + Black(X, x)
  <2> DEFINE l == tree.kid[x][r]
  <2>1. h[x] = Height(h, l) + Black(tree.red, x)
    <3>1. h[x] = Height(h, l) + 0 + Black(tree.red, x) /\ Height(h, l) \in Nat
          /\ Black(tree.red, x) \in Nat
      BY <1>1, Kids DEF Balanced, LevelOK, Missing, Height, Black
    <3> HIDE DEF l
    <3> QED BY <3>1
  <2>2. x \in Node /\ l \in Link /\ (l # NULL => l \in Node /\ tree.parent[l] = x)
    BY <1>1, Kids, Members1
  <2>3. Missing({}, x, r) = 0
    BY DEF Missing
  <2>4. Height(h, l) \in Nat /\ h[x] \in Nat /\ k[x] \in Nat
    BY <1>1, <1>7, <2>2 DEF Height
  <2>5. CASE x # g
    <3>1. l # p /\ l # o
      BY <1>2, <1>4, <2>2, <2>5, LinkFacts
    <3>2. Height(k, l) = Height(h, l)
      BY <1>7, <2>2, <3>1, LinkFacts DEF Height
    <3>3. k[x] = h[x] + Black(X, x) - Black(tree.red, x)
      <4>1. h[x] \in Nat
        BY <1>1, <2>2
      <4>2. x = p \/ x = o => k[x] = h[x] + 1 /\ Black(X, x) = 1 /\ Black(tree.red, x) = 0
        BY <1>2, <1>4, <1>7 DEF Black, X
      <4>3. x # p /\ x # o => k[x] = h[x] /\ Black(X, x) = Black(tree.red, x)
        BY <1>7, <2>2, <2>5 DEF Black, X
      <4>4. Black(X, x) \in Nat /\ Black(tree.red, x) \in Nat
        BY DEF Black
      <4> QED BY <4>1, <4>2, <4>3, <4>4
    <3>4. Black(X, x) \in Nat /\ Black(tree.red, x) \in Nat
      BY DEF Black
    <3> DEFINE hl == Height(h, l)
               b0 == Black(tree.red, x)
               b1 == Black(X, x)
    <3>5. k[x] = hl + 0 + b1
      <4>1. hl \in Nat /\ b0 \in Nat /\ b1 \in Nat /\ h[x] = hl + b0 /\ k[x] = h[x] + b1 - b0
        BY <2>1, <2>4, <3>3, <3>4
      <4> HIDE DEF hl, b0, b1, l
      <4> QED BY <2>4, <4>1
    <3> QED BY <2>3, <3>2, <3>5
  <2>6. CASE x = g
    <3>1. l = p \/ l = o
      BY <1>2, <2>6, Sides DEF o
    <3>2. Height(k, l) = Height(h, l) + 1
      BY <1>2, <1>4, <1>7, <3>1, LinkFacts DEF Height
    <3>3. k[x] = h[x] /\ Black(X, x) = 0 /\ Black(tree.red, x) = 1
      BY <1>2, <1>4, <1>7, <2>6 DEF Black, X
    <3> DEFINE hl == Height(h, l)
    <3>4. k[x] = (hl + 1) + 0 + 0
      <4>1. hl \in Nat /\ k[x] = hl + 1
        BY <2>1, <2>4, <3>3
      <4> HIDE DEF hl, l
      <4> QED BY <4>1
    <3> QED BY <2>3, <3>2, <3>3, <3>4
  <2> QED BY <2>5, <2>6
<1>9. Balanced(u, sub, k, {})
  BY <1>6, <1>7, <1>8 DEF Balanced, LevelOK
<1>10. Colours(u, sub, Exempt(u, pc', node'))
  <2> SUFFICES ASSUME NEW n \in M, n \in X, n # g
               PROVE  n # tree.root /\ tree.parent[n] \notin X
    <3>1. g \in Exempt(u, pc', node')
      BY <1>0, <1>2, <1>3 DEF Exempt
    <3> QED BY <1>6, <3>1 DEF Colours
  <2>1. n \in tree.red /\ n # p /\ n # o
    BY DEF X
  <2>2. CASE n = node
    BY <1>2, <2>2 DEF X, p
  <2>3. CASE n # node
    <3>1. n # tree.root /\ tree.parent[n] \notin tree.red
      BY <1>1, <2>1, <2>3
    <3>2. tree.parent[n] # g
      <4> SUFFICES ASSUME tree.parent[n] = g PROVE FALSE
        OBVIOUS
      <4>1. PICK r \in Side : tree.kid[g][r] = n
        BY <1>1, <3>1, ParentOfMember
      <4> QED BY <1>2, <2>1, <4>1, Sides DEF o
    <3> QED BY <3>1, <3>2 DEF X
  <2> QED BY <2>2, <2>3
<1>11. LoopOK(u, sub, pc', node', up')
  BY <1>0, <1>1, <1>2, <1>3, <1>6 DEF LoopOK, X, Link
<1>12. Gap(u, pc', node', up') = {}
  BY <1>0, <1>3 DEF Gap
<1>13. StateOK(u, pc', node', up', sub, k)
  BY <1>6, <1>9, <1>10, <1>11, <1>12 DEF StateOK
<1> QED BY <1>3, <1>6, <1>13 DEF Repaired, Becomes

(* A level, written out.                                                   *)
LEMMA Level ==
  ASSUME NEW t, NEW sub, NEW h, NEW gap, Shape(t, sub), Balanced(t, sub, h, gap),
         NEW n \in Mem(t, sub), NEW s \in Side, NEW a, a = Height(h, t.kid[n][s]),
         NEW m, m = Missing(gap, n, s), NEW b, b = Black(t.red, n)
  PROVE  /\ h[n] \in Nat /\ a \in Nat /\ m \in {0, 1} /\ b \in {0, 1}
         /\ h[n] = a + m + b
BY Kids, Members1 DEF Balanced, LevelOK, Height, Missing, Black

(* Before the last rotation of an insertion: x and its parent top are both *)
(* red, on the same side of g, and there is nothing else to repair.        *)
Zig(t, sub, h, g, s, top, x) ==
  /\ Shape(t, sub) /\ Balanced(t, sub, h, {})
  /\ g \in Mem(t, sub) /\ g \notin t.red
  /\ t.kid[g][s] = top /\ top \in t.red
  /\ t.kid[top][s] = x /\ x \in t.red
  /\ t.kid[g][Flip(s)] \notin t.red
  /\ \A n \in Mem(t, sub) : n \in t.red /\ n # x =>
       n # t.root /\ t.parent[n] \notin t.red

(* The same, of some labels of u, which has the members of t.              *)
IsZig(t, sub, u, g, s, top, x) ==
  \E v, k : Zig(u, v, k, g, s, top, x) /\ Mem(u, v) = Mem(t, sub)

(* u has the members of t and is red-black, x included.                    *)
Whole(t, sub, u, x) ==
  \E v, k : /\ Shape(u, v) /\ Balanced(u, v, k, {}) /\ Mem(u, v) = Mem(t, sub)
            /\ x \in Mem(u, v) /\ x \in u.red
            /\ \A n \in Mem(u, v) : n \in u.red =>
                 n # u.root /\ u.parent[n] \notin u.red

LEMMA RedAreMembers ==
  ASSUME NEW t, NEW sub, Shape(t, sub)
  PROVE  t.red \subseteq Mem(t, sub) /\ t.red \subseteq Node /\ NULL \notin t.red
BY TreeFields, LinkFacts DEF Shape, OutOK

LEMMA LevelNoGap ==
  ASSUME NEW t, NEW sub, NEW h, Shape(t, sub), Balanced(t, sub, h, {}),
         NEW n \in Mem(t, sub), NEW s \in Side, NEW a, a = Height(h, t.kid[n][s])
  PROVE  /\ h[n] \in Nat /\ a \in Nat
         /\ n \in t.red => h[n] = a
         /\ n \notin t.red => h[n] = a + 1
<1> DEFINE m == Missing({}, n, s)
           b == Black(t.red, n)
<1>1. /\ h[n] \in Nat /\ a \in Nat /\ h[n] = a + m + b
  <2>1. m = Missing({}, n, s) /\ b = Black(t.red, n)
    OBVIOUS
  <2> HIDE DEF m, b
  <2> QED BY <2>1, Level
<1>2. m = 0 /\ (n \in t.red => b = 0) /\ (n \notin t.red => b = 1)
  BY DEF Missing, Black
<1> HIDE DEF b, m
<1> QED BY <1>1, <1>2

LEMMA InnerTurn ==
  ASSUME NEW sub, NEW h, StateOK(tree, pc, node, up, sub, h), pc = "insert_color",
         RedParent, NEW p, p = tree.parent[node], NEW g, g = tree.parent[p],
         NEW s, s = SideOf(tree, g, p), tree.kid[p][Flip(s)] = node,
         tree.kid[g][Flip(s)] \notin tree.red, NEW u, u = Rotate(tree, p, s)
  PROVE  IsZig(tree, sub, u, g, s, node, p)
<1> DEFINE M == Mem(tree, sub)
           f == Flip(s)
           i == tree.kid[node][s]
<1>1. /\ Shape(tree, sub) /\ Balanced(tree, sub, h, {}) /\ h \in [Node -> Nat]
      /\ node \in M /\ node \in tree.red /\ tree.red \subseteq M
      /\ \A n \in M : n \in tree.red /\ n # node =>
           n # tree.root /\ tree.parent[n] \notin tree.red
  BY InsertLoop
<1>2. /\ p \in M /\ p \in Node /\ p \in tree.red
      /\ g \in M /\ g \in Node /\ g # NULL /\ g \notin tree.red
      /\ s \in Side /\ tree.kid[g][s] = p
      /\ node # tree.root /\ p # tree.root /\ p # node /\ g # p
  BY Grandparent
<1>3. /\ node \in Node /\ node # NULL /\ f \in Side /\ f # s /\ \A r \in Side : r = s \/ r = f
      /\ g # node
  BY <1>1, <1>2, Members1, LinkFacts, Sides
<1>4. [tree EXCEPT !.red = tree.red] = tree
  BY <1>1, TreeFields DEF Shape
<1>5. \A x \in M \ {p, node}, r \in Side : LevelOK(tree, tree.red, h, {}, x, r)
  BY <1>1 DEF Balanced
<1> DEFINE level == h[p]
<1>6. /\ h[p] \in Nat
      /\ h[p] = Height(h, tree.kid[p][s]) + Missing({}, p, s) + Black(tree.red, p)
      /\ h[p] = Height(h, i) + Missing({}, p, f) + Black(tree.red, p)
      /\ h[p] = h[p] + Missing({}, node, s) + Black(tree.red, node)
      /\ h[p] = Height(h, tree.kid[node][f]) + Missing({}, node, f) + Black(tree.red, node)
  <2> DEFINE a == Height(h, tree.kid[p][s])
             b == Height(h, i)
             c == Height(h, tree.kid[node][f])
             d == Height(h, tree.kid[p][f])
             x == h[p]
             y == h[node]
  <2>1. /\ x \in Nat /\ a \in Nat /\ b \in Nat /\ c \in Nat /\ y \in Nat
        /\ x = a + 0 + 0 /\ x = y + 0 + 0 /\ y = b + 0 + 0 /\ y = c + 0 + 0
    <3>1. d = y
      BY <1>3 DEF Height
    <3>2. x \in Nat /\ a \in Nat /\ x = a
      BY <1>1, <1>2, LevelNoGap
    <3>3. x = d
      BY <1>1, <1>2, <1>3, LevelNoGap
    <3>4. y \in Nat /\ b \in Nat /\ y = b
      BY <1>1, <1>2, LevelNoGap
    <3>5. c \in Nat /\ y = c
      BY <1>1, <1>3, LevelNoGap
    <3> HIDE DEF a, b, c, d, x, y
    <3> QED BY <3>1, <3>2, <3>3, <3>4, <3>5
  <2>2. Missing({}, p, s) = 0 /\ Missing({}, p, f) = 0 /\ Missing({}, node, s) = 0
        /\ Missing({}, node, f) = 0 /\ Black(tree.red, p) = 0 /\ Black(tree.red, node) = 0
    BY <1>1, <1>2 DEF Missing, Black
  <2>3. x = b + 0 + 0 /\ x = x + 0 + 0 /\ x = c + 0 + 0
    <3> HIDE DEF a, b, c, d, x, y
    <3> QED BY <2>1
  <2> QED BY <2>1, <2>2, <2>3
<1>61. tree.kid[p][f] = node
  OBVIOUS
<1>62. Fits(tree, tree.red, h, {}, p, s, level)
  BY <1>6, <1>61 DEF Fits
<1> HIDE DEF level
<1>63. u = Rotate([tree EXCEPT !.red = tree.red], p, s)
  BY <1>4
<1>64. Turned(tree, u, tree.red, sub, h, {}, p, s, level)
  BY <1>1, <1>2, <1>3, <1>5, <1>61, <1>62, <1>63, Turn
<1>7. PICK v, k : /\ Rotated(tree, u, p, s, tree.red) /\ Shape(u, v) /\ Mem(u, v) = M
                  /\ Balanced(u, v, k, {})
  BY <1>64 DEF Turned
<1> HIDE DEF i
<1>8. /\ u.red = tree.red /\ u.root = tree.root
      /\ u.kid[node][s] = p
      /\ \A x \in Node \ {p, node}, r \in Side :
           u.kid[x][r] = IF tree.kid[x][r] = p THEN node ELSE tree.kid[x][r]
      /\ \A x \in Node : u.parent[x] = IF x = p THEN node
                                       ELSE IF x = node THEN g
                                       ELSE IF x = i THEN p
                                       ELSE tree.parent[x]
  <2>1. Rotated(tree, u, p, s, tree.red) /\ node = tree.kid[p][Flip(s)] /\ i = tree.kid[node][s]
    BY <1>7 DEF i
  <2>3. Swapped(tree, u, p, s, tree.red, node, i)
    <3> HIDE DEF i
    <3> QED BY <2>1, RotatedIs
  <2>2. /\ u.red = tree.red
        /\ u.root = IF p = tree.root THEN node ELSE tree.root
        /\ u.kid[node][s] = p
        /\ \A x \in Node \ {p, node}, r \in Side :
             u.kid[x][r] = IF tree.kid[x][r] = p THEN node ELSE tree.kid[x][r]
        /\ \A x \in Node : u.parent[x] = IF x = p THEN node
                                         ELSE IF x = node THEN tree.parent[p]
                                         ELSE IF x = i THEN p
                                         ELSE tree.parent[x]
    BY <2>3 DEF Swapped
  <2> QED BY <1>2, <2>2
<1>9. u.kid[g][s] = node /\ u.kid[g][f] \notin tree.red
  <2>1. tree.kid[g][f] # p
    BY <1>1, <1>2, OneSide, LinkFacts
  <2>2. tree.kid[g][f] \notin tree.red
    OBVIOUS
  <2> HIDE DEF f
  <2>3. g \in Node \ {p, node}
    BY <1>2, <1>3
  <2>4. \A r \in Side : u.kid[g][r] = IF tree.kid[g][r] = p THEN node ELSE tree.kid[g][r]
    BY <1>8, <2>3
  <2> QED BY <1>2, <1>3, <2>1, <2>2, <2>4
<1>10. ASSUME NEW n \in M, n \in tree.red, n # p
       PROVE  n # u.root /\ u.parent[n] \notin tree.red
  <2>0. n \in Node
    BY <1>1, Members1
  <2>1. CASE n = node
    BY <1>2, <1>8, <2>0, <2>1
  <2>2. CASE n # node
    <3>1. n # tree.root /\ tree.parent[n] \notin tree.red
      BY <1>1, <1>10, <2>2
    <3>2. n # i
      <4> SUFFICES ASSUME n = i PROVE FALSE
        OBVIOUS
      <4>1. tree.parent[n] = node
        BY <1>1, <1>2, <2>0, Kids, LinkFacts DEF i
      <4> QED BY <1>1, <3>1, <4>1
    <3> QED BY <1>8, <1>10, <2>0, <2>2, <3>1, <3>2
  <2> QED BY <2>1, <2>2
<1>11. Zig(u, v, k, g, s, node, p)
  <2>1. u.kid[g][Flip(s)] \notin u.red
    BY <1>8, <1>9
  <2>2. \A n \in Mem(u, v) : n \in u.red /\ n # p => n # u.root /\ u.parent[n] \notin u.red
    BY <1>7, <1>8, <1>10
  <2>3. /\ g \in Mem(u, v) /\ g \notin u.red /\ node \in u.red /\ p \in u.red
        /\ u.kid[g][s] = node /\ u.kid[node][s] = p
    BY <1>1, <1>2, <1>7, <1>8, <1>9
  <2> QED BY <1>7, <2>1, <2>2, <2>3 DEF Zig
<1> QED BY <1>7, <1>11 DEF IsZig

LEMMA OuterTurn ==
  ASSUME NEW t, NEW sub, NEW h, NEW g, NEW s \in Side, NEW top, NEW x,
         Zig(t, sub, h, g, s, top, x),
         NEW X, X = (t.red \ {top}) \cup {g},
         NEW u, u = Rotate([t EXCEPT !.red = X], g, Flip(s))
  PROVE  Whole(t, sub, u, x)
<1> DEFINE M == Mem(t, sub)
           f == Flip(s)
           o == t.kid[g][f]
           i == t.kid[top][f]
<1>1. /\ Shape(t, sub) /\ Balanced(t, sub, h, {}) /\ h \in [Node -> Nat]
      /\ g \in M /\ g \notin t.red /\ t.kid[g][s] = top /\ top \in t.red
      /\ t.kid[top][s] = x /\ x \in t.red /\ o \notin t.red
      /\ \A n \in M : n \in t.red /\ n # x => n # t.root /\ t.parent[n] \notin t.red
  BY DEF Zig, Balanced
<1>2. /\ f \in Side /\ f # s /\ Flip(f) = s /\ \A r \in Side : r = s \/ r = f
  BY Sides
<1>3. /\ top \in M /\ top \in Node /\ top # NULL /\ t.parent[top] = g
      /\ x \in M /\ x \in Node /\ x # NULL /\ t.parent[x] = top
      /\ g \in Node /\ g # NULL /\ g # top /\ x # top /\ x # g
  <2>1. t.red \subseteq M /\ t.red \subseteq Node /\ NULL \notin t.red
    BY <1>1, RedAreMembers
  <2>2. /\ top \in M /\ top \in Node /\ top # NULL /\ t.parent[top] = g
    BY <1>1, <2>1, Kids
  <2>3. /\ x \in M /\ x \in Node /\ x # NULL /\ t.parent[x] = top
    BY <1>1, <2>1, <2>2, Kids
  <2>4. x # top
    BY <1>1, <2>2, <2>3, Kids
  <2> QED BY <1>1, <2>2, <2>3, <2>4, Members1, LinkFacts
<1>4. X \subseteq M
  BY <1>1, RedAreMembers
<1>5. \A y \in M \ {g, top}, r \in Side : LevelOK(t, X, h, {}, y, r)
  BY <1>1 DEF Balanced, LevelOK, Black
<1>6. /\ h[g] - 1 \in Nat
      /\ h[g] - 1 = Height(h, t.kid[g][f]) + Missing({}, g, f) + Black(X, g)
      /\ h[g] - 1 = Height(h, t.kid[top][f]) + Missing({}, g, s) + Black(X, g)
      /\ h[g] = (h[g] - 1) + Missing({}, top, f) + Black(X, top)
      /\ h[g] = Height(h, t.kid[top][s]) + Missing({}, top, s) + Black(X, top)
  <2> DEFINE a == Height(h, t.kid[g][f])
             b == Height(h, t.kid[top][f])
             c == Height(h, t.kid[top][s])
             y == h[top]
             z == h[g]
  <2>1. /\ a \in Nat /\ b \in Nat /\ c \in Nat /\ y \in Nat /\ z \in Nat
        /\ z = a + 0 + 1 /\ z = y + 0 + 1 /\ y = b + 0 + 0 /\ y = c + 0 + 0
    <3>1. Height(h, top) = y
      BY <1>3 DEF Height
    <3>2. z \in Nat /\ a \in Nat /\ z = a + 1
      BY <1>1, <1>2, LevelNoGap
    <3>3. Height(h, top) \in Nat /\ z = Height(h, top) + 1
      BY <1>1, LevelNoGap
    <3>4. b \in Nat /\ y = b
      BY <1>1, <1>2, <1>3, LevelNoGap
    <3>5. c \in Nat /\ y = c
      BY <1>1, <1>3, LevelNoGap
    <3> HIDE DEF a, b, c, y, z
    <3> QED BY <3>1, <3>2, <3>3, <3>4, <3>5
  <2>2. Missing({}, g, f) = 0 /\ Missing({}, g, s) = 0 /\ Missing({}, top, s) = 0
        /\ Missing({}, top, f) = 0 /\ Black(X, g) = 0 /\ Black(X, top) = 1
    BY <1>3 DEF Missing, Black
  <2>3. /\ z - 1 \in Nat /\ z - 1 = a + 0 + 0 /\ z - 1 = b + 0 + 0
        /\ z = (z - 1) + 0 + 1 /\ z = c + 0 + 1
    <3> HIDE DEF a, b, c, y, z
    <3> QED BY <2>1
  <2> QED BY <2>2, <2>3
<1> DEFINE level == h[g] - 1
<1>7. PICK v, k : /\ Rotated(t, u, g, f, X) /\ Shape(u, v) /\ Mem(u, v) = M
                  /\ Balanced(u, v, k, {})
  <2> HIDE DEF f
  <2>1. t.kid[g][Flip(f)] = top /\ Flip(f) = s
    BY <1>1, <1>2
  <2>2. Fits(t, X, h, {}, g, f, level)
    BY <1>6, <2>1 DEF Fits
  <2> HIDE DEF level
  <2>3. u = Rotate([t EXCEPT !.red = X], g, f)
    BY DEF f
  <2>4. Turned(t, u, X, sub, h, {}, g, f, level)
    BY <1>1, <1>2, <1>3, <1>4, <1>5, <2>1, <2>2, <2>3, Turn
  <2> QED BY <2>4 DEF Turned
<1>8. /\ u.red = X /\ u.root = IF g = t.root THEN top ELSE t.root
      /\ \A y \in Node : u.parent[y] = IF y = g THEN top
                                       ELSE IF y = top THEN t.parent[g]
                                       ELSE IF y = i THEN g
                                       ELSE t.parent[y]
  <2>1. Rotated(t, u, g, f, X) /\ top = t.kid[g][Flip(f)] /\ i = t.kid[top][f]
    BY <1>1, <1>2, <1>7
  <2> HIDE DEF i, f
  <2>4. Swapped(t, u, g, f, X, top, i)
    BY <2>1, RotatedIs
  <2>2. /\ u.red = X
        /\ u.root = IF g = t.root THEN top ELSE t.root
    BY <2>4 DEF Swapped
  <2>3. \A y \in Node : u.parent[y] = IF y = g THEN top
                                       ELSE IF y = top THEN t.parent[g]
                                       ELSE IF y = i THEN g
                                       ELSE t.parent[y]
    BY <2>4 DEF Swapped
  <2> QED BY <2>2, <2>3
<1>9. x \in X
  BY <1>1, <1>3
<1>10. x # i /\ (i # NULL => t.parent[i] = top) /\ i \notin t.red
  <2>1. i # x
    BY <1>1, <1>3, OneSide
  <2>2. i # NULL => i \in M /\ t.parent[i] = top
    BY <1>1, <1>2, <1>3, Kids
  <2>3. i \notin t.red
    BY <1>1, <2>1, <2>2, RedAreMembers
  <2> QED BY <2>1, <2>2, <2>3
<1>11. ASSUME NEW n \in M, n \in X
       PROVE  n # u.root /\ u.parent[n] \notin X
  <2>0. n \in Node /\ n # NULL /\ t.root \in M
    BY <1>1, Members1, LinkFacts
  <2>1. CASE n = g
    BY <1>3, <1>8, <2>0, <2>1
  <2>2. CASE n = x
    <3>1. t.parent[x] # NULL /\ x # t.root
      BY <1>1, <1>3, ParentOfMember
    <3> QED BY <1>3, <1>8, <1>10, <2>2, <3>1
  <2>3. CASE n # g /\ n # x
    <3>1. n \in t.red /\ n # top
      BY <1>11, <2>3
    <3>2. n # t.root /\ t.parent[n] \notin t.red /\ n # i
      BY <1>1, <1>10, <2>3, <3>1
    <3>3. u.parent[n] = t.parent[n]
      BY <1>8, <2>0, <2>3, <3>1, <3>2
    <3>4. t.parent[n] # g
      <4> SUFFICES ASSUME t.parent[n] = g PROVE FALSE
        OBVIOUS
      <4>1. PICK r \in Side : t.kid[g][r] = n
        BY <1>1, <3>2, ParentOfMember
      <4> QED BY <1>1, <1>2, <3>1, <4>1
    <3> QED BY <1>8, <3>1, <3>2, <3>3, <3>4
  <2> QED BY <2>1, <2>2, <2>3
<1>12. x \in Mem(u, v) /\ x \in u.red
  BY <1>3, <1>7, <1>8, <1>9
<1>13. \A n \in Mem(u, v) : n \in u.red => n # u.root /\ u.parent[n] \notin u.red
  BY <1>7, <1>8, <1>11
<1> QED BY <1>7, <1>12, <1>13 DEF Whole

LEMMA InsertRotateStep ==
  ASSUME NEW sub, NEW h, StateOK(tree, pc, node, up, sub, h), InsertRotate
  PROVE  Repaired(sub) /\ ~RedParent'
<1> DEFINE p == tree.parent[node]
           g == tree.parent[p]
           s == SideOf(tree, g, p)
           inner == tree.kid[p][Flip(s)] = node
           t == IF inner THEN Rotate(tree, p, s) ELSE tree
           top == IF inner THEN node ELSE p
           x == IF inner THEN p ELSE node
           X == (t.red \ {top}) \cup {g}
           u == Rotate([t EXCEPT !.red = X], g, Flip(s))
<1>0. pc = "insert_color" /\ RedParent /\ tree.kid[g][Flip(s)] \notin tree.red
  BY DEF InsertRotate, IsRed
<1>1. tree' = u /\ node' = x /\ pc' = pc /\ up' = up
  <2>1. u = Rotate([t EXCEPT !.red = (@ \ {top}) \cup {g}], g, Flip(s))
    OBVIOUS
  <2> QED BY <2>1 DEF InsertRotate
<1>2. /\ p \in Mem(tree, sub) /\ p \in Node /\ p \in tree.red
      /\ g \in Mem(tree, sub) /\ g \in Node /\ g # NULL /\ g \notin tree.red
      /\ s \in Side /\ tree.kid[g][s] = p
      /\ node # tree.root /\ p # tree.root /\ p # node /\ g # p
      /\ tree.kid[p][s] = node \/ tree.kid[p][Flip(s)] = node
  <2> HIDE DEF p, g, s
  <2> QED BY <1>0, Grandparent DEF p, g, s
<1>3. /\ Shape(tree, sub) /\ Balanced(tree, sub, h, {})
      /\ node \in Mem(tree, sub) /\ node \in tree.red /\ up \in Link
      /\ \A n \in Mem(tree, sub) : n \in tree.red /\ n # node =>
           n # tree.root /\ tree.parent[n] \notin tree.red
  BY <1>0, InsertLoop
<1>4. IsZig(tree, sub, t, g, s, top, x)
  <2>1. CASE inner
    <3> HIDE DEF p, g, s
    <3>1. p = tree.parent[node] /\ g = tree.parent[p] /\ s = SideOf(tree, g, p)
      BY DEF p, g, s
    <3>2. IsZig(tree, sub, t, g, s, node, p)
      BY <1>0, <2>1, <3>1, InnerTurn
    <3> QED BY <2>1, <3>2
  <2>2. CASE ~inner
    <3> HIDE DEF p, g, s
    <3>1. Zig(tree, sub, h, g, s, p, node)
      BY <1>0, <1>2, <1>3, <2>2 DEF Zig
    <3> QED BY <2>2, <3>1 DEF IsZig
  <2> QED BY <2>1, <2>2
<1> HIDE DEF p, g, s, inner, t, top, x
<1>5. PICK v1, k1 : Zig(t, v1, k1, g, s, top, x) /\ Mem(t, v1) = Mem(tree, sub)
  BY <1>4 DEF IsZig
<1> HIDE DEF X, u
<1>6. PICK v, k : /\ Shape(u, v) /\ Balanced(u, v, k, {}) /\ Mem(u, v) = Mem(t, v1)
                  /\ x \in Mem(u, v) /\ x \in u.red
                  /\ \A n \in Mem(u, v) : n \in u.red =>
                        n # u.root /\ u.parent[n] \notin u.red
  <2>1. X = (t.red \ {top}) \cup {g} /\ u = Rotate([t EXCEPT !.red = X], g, Flip(s))
    BY DEF X, u
  <2>2. Whole(t, v1, u, x)
    BY <1>2, <1>5, <2>1, OuterTurn
  <2> QED BY <2>2 DEF Whole
<1>7. Colours(u, v, Exempt(u, pc', node'))
  BY <1>6 DEF Colours
<1>8. x \in Link
  BY <1>6, Members1 DEF Link
<1>9. LoopOK(u, v, pc', node', up')
  BY <1>0, <1>1, <1>3, <1>6, <1>8 DEF LoopOK
<1>10. Gap(u, pc', node', up') = {}
  BY <1>0, <1>1 DEF Gap
<1>11. StateOK(u, pc', node', up', v, k)
  BY <1>6, <1>7, <1>9, <1>10 DEF StateOK
<1>12. ~RedParent'
  BY <1>1, <1>6 DEF RedParent, IsRed
<1> QED BY <1>1, <1>5, <1>6, <1>11, <1>12 DEF Repaired, Becomes

LEMMA InsertDoneStep ==
  ASSUME NEW sub, NEW h, StateOK(tree, pc, node, up, sub, h), InsertDone
  PROVE  Repaired(sub)
<1> DEFINE r == tree.root
           X == tree.red \ {r}
           u == [tree EXCEPT !.red = X]
           k == IF r \in tree.red THEN [h EXCEPT ![r] = h[r] + 1] ELSE h
           M == Mem(tree, sub)
<1>0. /\ pc = "insert_color" /\ ~RedParent
      /\ tree' = u /\ pc' = "idle" /\ node' = NULL /\ up' = up
  BY DEF InsertDone
<1>1. /\ Shape(tree, sub) /\ Balanced(tree, sub, h, {}) /\ h \in [Node -> Nat]
      /\ node \in M /\ node \in tree.red /\ tree.red \subseteq M /\ up \in Link
      /\ \A n \in M : n \in tree.red /\ n # node =>
           n # tree.root /\ tree.parent[n] \notin tree.red
  BY <1>0, InsertLoop
<1>2. r \in M /\ r \in Node /\ tree.parent[r] = NULL /\ r # NULL
  BY <1>1, Members1, LinkFacts DEF Shape, RootOK
<1>3. X \subseteq M
  BY <1>1
<1> HIDE DEF X
<1>4. /\ Shape(u, sub) /\ Mem(u, sub) = M
      /\ u.root = tree.root /\ u.kid = tree.kid /\ u.parent = tree.parent /\ u.red = X
  BY <1>1, <1>3, Recolour
<1> HIDE DEF u
<1>5. /\ k \in [Node -> Nat]
      /\ \A x \in Node : x # r => k[x] = h[x]
      /\ k[r] = IF r \in tree.red THEN h[r] + 1 ELSE h[r]
  BY <1>1, <1>2
<1> HIDE DEF k, r
<1>6. ASSUME NEW x \in M, NEW s \in Side
      PROVE  k[x] = Height(k, tree.kid[x][s]) + Missing({}, x, s) + Black(X, x)
  <2> DEFINE l == tree.kid[x][s]
             m == Missing({}, x, s)
  <2>1. x \in Node /\ l \in Link /\ (l # NULL => tree.parent[l] = x /\ l \in Node)
    BY <1>1, Kids, Members1
  <2>2. l # r
    BY <1>2, <2>1, LinkFacts
  <2>3. Height(k, l) = Height(h, l)
    BY <1>5, <2>1, <2>2 DEF Height
  <2>4. /\ h[x] \in Nat /\ Height(h, l) \in Nat /\ m \in Nat
        /\ h[x] = Height(h, l) + m + Black(tree.red, x)
    <3> DEFINE hl == Height(h, l)
               b == Black(tree.red, x)
    <3>1. hl = Height(h, l) /\ m = Missing({}, x, s) /\ b = Black(tree.red, x)
      OBVIOUS
    <3> HIDE DEF k, r, hl, b, m
    <3>2. h[x] \in Nat /\ hl \in Nat /\ m \in {0, 1} /\ h[x] = hl + m + b
      BY <1>1, <3>1, Level
    <3> QED BY <3>2 DEF hl, b
  <2>5. /\ x # r => k[x] = h[x] /\ Black(X, x) = Black(tree.red, x)
        /\ x = r /\ r \in tree.red => /\ k[x] = h[x] + 1 /\ Black(X, x) = 1
                                      /\ Black(tree.red, x) = 0
        /\ x = r /\ r \notin tree.red => k[x] = h[x] /\ Black(X, x) = Black(tree.red, x)
    BY <1>5, <2>1 DEF Black, X
  <2> DEFINE hl == Height(h, l)
  <2> HIDE DEF l, m, hl
  <2>6. h[x] = hl + m + Black(tree.red, x) /\ hl \in Nat
    BY <2>4 DEF hl
  <2>7. k[x] = hl + m + Black(X, x)
    BY <2>4, <2>5, <2>6
  <2> QED BY <2>3, <2>7 DEF l, m, hl
<1>7. Balanced(u, sub, k, {})
  BY <1>4, <1>5, <1>6 DEF Balanced, LevelOK
<1>8. ASSUME NEW n \in M, n \in X PROVE n # tree.root /\ tree.parent[n] \notin X
  <2>1. n \in tree.red /\ n # tree.root
    BY <1>8 DEF X, r
  <2>2. n = node => tree.parent[n] \notin tree.red
    <3>1. n = node => tree.parent[n] # NULL
      BY <1>1, <2>1, ParentOfMember
    <3> QED BY <1>0, <3>1 DEF RedParent, IsRed
  <2> QED BY <1>1, <2>1, <2>2 DEF X
<1>9. Colours(u, sub, Exempt(u, pc', node'))
  BY <1>4, <1>8 DEF Colours
<1>10. LoopOK(u, sub, pc', node', up') /\ Gap(u, pc', node', up') = {}
  BY <1>0, <1>1 DEF LoopOK, Gap, Link
<1>11. StateOK(u, pc', node', up', sub, k)
  BY <1>4, <1>7, <1>9, <1>10 DEF StateOK
<1> QED BY <1>0, <1>4, <1>11 DEF Repaired, Becomes

-----------------------------------------------------------------------------
(* The repair of an erasure.                                               *)

(* While the loop runs: a black node is missing from the paths through x,  *)
(* on side s of u, and there is nothing else to repair.                    *)
Hollow(t, sub, h, u, x, s) ==
  /\ Shape(t, sub) /\ Balanced(t, sub, h, {<<u, s>>})
  /\ u \in Mem(t, sub) /\ t.kid[u][s] = x /\ x \notin t.red
  /\ \A n \in Mem(t, sub) : n \in t.red => n # t.root /\ t.parent[n] \notin t.red

LEMMA EraseLoop ==
  ASSUME NEW sub, NEW h, StateOK(tree, pc, node, up, sub, h), pc = "erase_color",
         BlackNode, NEW s, s = SideOf(tree, up, node)
  PROVE  Hollow(tree, sub, h, up, node, s) /\ s \in Side /\ up # NULL
<1>1. up # NULL
  BY DEF StateOK, LoopOK, BlackNode
<1>2. up \in Mem(tree, sub) /\ tree.kid[up][s] = node
  BY <1>1 DEF StateOK, LoopOK
<1>3. Gap(tree, pc, node, up) = {<<up, s>>}
  BY <1>1 DEF Gap
<1>4. node \notin tree.red
  BY DEF BlackNode, IsRed
<1>5. \A n \in Mem(tree, sub) : n \in tree.red =>
        n # tree.root /\ tree.parent[n] \notin tree.red
  <2>1. \A n \in Exempt(tree, pc, node) : n = node \/ (n # tree.root /\ tree.parent[n] = node)
    BY DEF Exempt
  <2> QED BY <1>4, <2>1 DEF StateOK, Colours
<1>6. s \in Side
  BY SideOfIs
<1> QED BY <1>1, <1>2, <1>3, <1>4, <1>5, <1>6 DEF StateOK, Hollow

LEMMA LevelAt ==
  ASSUME NEW t, NEW sub, NEW h, NEW gap, Shape(t, sub), Balanced(t, sub, h, gap),
         NEW n \in Mem(t, sub), NEW s \in Side, Missing(gap, n, s) = 0,
         NEW a, a = Height(h, t.kid[n][s])
  PROVE  /\ h[n] \in Nat /\ a \in Nat
         /\ n \in t.red => h[n] = a
         /\ n \notin t.red => h[n] = a + 1
<1> DEFINE m == Missing(gap, n, s)
           b == Black(t.red, n)
<1>1. /\ h[n] \in Nat /\ a \in Nat /\ h[n] = a + m + b
  <2>1. m = Missing(gap, n, s) /\ b = Black(t.red, n)
    OBVIOUS
  <2> HIDE DEF m, b
  <2> QED BY <2>1, Level
<1>2. m = 0 /\ (n \in t.red => b = 0) /\ (n \notin t.red => b = 1)
  BY DEF Black
<1> HIDE DEF b, m
<1> QED BY <1>1, <1>2

LEMMA HollowFacts ==
  ASSUME NEW t, NEW sub, NEW h, NEW u, NEW x, NEW s \in Side, Hollow(t, sub, h, u, x, s),
         NEW f, f = Flip(s), NEW o, o = t.kid[u][f]
  PROVE  /\ f \in Side /\ f # s /\ Flip(f) = s /\ \A r \in Side : r = s \/ r = f
         /\ u \in Node /\ u # NULL /\ x \in Link /\ (x # NULL => t.parent[x] = u)
         /\ o \in Mem(t, sub) /\ o \in Node /\ o # NULL /\ t.parent[o] = u
         /\ o # u /\ o # x /\ o # t.root /\ x # u
         /\ h \in [Node -> Nat]
<1>1. f \in Side /\ f # s /\ Flip(f) = s /\ \A r \in Side : r = s \/ r = f
  BY Sides
<1>2. Shape(t, sub) /\ Balanced(t, sub, h, {<<u, s>>}) /\ u \in Mem(t, sub) /\ t.kid[u][s] = x
      /\ h \in [Node -> Nat]
  BY DEF Hollow, Balanced
<1>3. o # NULL
  <2> DEFINE a == Height(h, x)
             b == Height(h, o)
             c == Black(t.red, u)
             m == Missing({<<u, s>>}, u, s)
             l == Missing({<<u, s>>}, u, f)
  <2>1. /\ h[u] \in Nat /\ a \in Nat /\ c \in {0, 1} /\ h[u] = a + m + c
    <3>1. a = Height(h, t.kid[u][s]) /\ m = Missing({<<u, s>>}, u, s) /\ c = Black(t.red, u)
      BY <1>2
    <3> HIDE DEF a, b, c, m, l
    <3> QED BY <1>2, <3>1, Level
  <2>2. b \in Nat /\ h[u] = b + l + c
    <3>1. b = Height(h, t.kid[u][f]) /\ l = Missing({<<u, s>>}, u, f) /\ c = Black(t.red, u)
      OBVIOUS
    <3> HIDE DEF a, b, c, m, l
    <3> QED BY <1>1, <1>2, <3>1, Level
  <2>3. m = 1 /\ l = 0
    BY <1>1 DEF Missing
  <2>4. o = NULL => b = 0
    BY DEF Height
  <2> HIDE DEF a, b, c, m, l
  <2> QED BY <2>1, <2>2, <2>3, <2>4
<1>4. o \in Mem(t, sub) /\ o \in Node /\ t.parent[o] = u
  BY <1>1, <1>2, <1>3, Kids
<1>5. u \in Node /\ u # NULL /\ o # u /\ x # u /\ x \in Link /\ (x # NULL => t.parent[x] = u)
  <2>1. u \in Node /\ u # NULL
    BY <1>2, Members1, LinkFacts
  <2>2. x \in Link /\ (x # NULL => t.parent[x] = u)
    BY <1>2, Kids
  <2>3. o # u /\ x # u
    <3>1. \A r \in Side : t.kid[u][r] # NULL => On(r, t.kid[u][r], u)
      BY <1>2, Kids
    <3> QED BY <1>1, <1>2, <2>1, <3>1, OnOrder
  <2> QED BY <2>1, <2>2, <2>3
<1>6. o # x
  <2>1. t.kid[u][Flip(f)] # t.kid[u][f]
    BY <1>1, <1>2, <1>3, OneSide
  <2> QED BY <1>1, <1>2, <2>1
<1>7. o # t.root
  <2>1. RootOK(t, sub)
    BY <1>2 DEF Shape
  <2> QED BY <1>3, <1>4, <1>5, <2>1 DEF RootOK
<1> QED BY <1>1, <1>2, <1>3, <1>4, <1>5, <1>6, <1>7

(* The levels at u and at its other child o.                               *)
LEMMA HollowLevels ==
  ASSUME NEW t, NEW sub, NEW h, NEW u, NEW x, NEW s \in Side, Hollow(t, sub, h, u, x, s),
         NEW f, f = Flip(s), NEW o, o = t.kid[u][f], NEW a, a = Height(h, x)
  PROVE  /\ a \in Nat /\ h[u] \in Nat /\ h[o] = a + 1
         /\ u \in t.red => h[u] = a + 1
         /\ u \notin t.red => h[u] = a + 2
<1>1. Shape(t, sub) /\ Balanced(t, sub, h, {<<u, s>>}) /\ u \in Mem(t, sub) /\ t.kid[u][s] = x
  BY DEF Hollow
<1>2. f \in Side /\ f # s /\ o # NULL
  BY HollowFacts
<1> DEFINE c == Black(t.red, u)
           m == Missing({<<u, s>>}, u, s)
<1>3. a \in Nat /\ c \in {0, 1} /\ h[u] = a + m + c /\ h[u] \in Nat
  <2>1. a = Height(h, t.kid[u][s]) /\ m = Missing({<<u, s>>}, u, s) /\ c = Black(t.red, u)
    BY <1>1
  <2> HIDE DEF c, m
  <2> QED BY <1>1, <2>1, Level
<1>4. m = 1 /\ (u \in t.red => c = 0) /\ (u \notin t.red => c = 1)
  BY DEF Missing, Black
<1> DEFINE b == Height(h, o)
<1>5. b \in Nat /\ (u \in t.red => h[u] = b) /\ (u \notin t.red => h[u] = b + 1)
  <2>1. Missing({<<u, s>>}, u, f) = 0 /\ b = Height(h, t.kid[u][f])
    BY <1>2 DEF Missing
  <2> HIDE DEF b
  <2> QED BY <1>1, <1>2, <2>1, LevelAt
<1>6. b = h[o]
  BY <1>2 DEF Height
<1> HIDE DEF b, c, m
<1> QED BY <1>3, <1>4, <1>5, <1>6

(* The levels at a child o of u, or at any other node.                     *)
LEMMA OtherLevels ==
  ASSUME NEW t, NEW sub, NEW h, NEW u, NEW x, NEW s \in Side, Hollow(t, sub, h, u, x, s),
         NEW n \in Mem(t, sub), n # u, NEW r \in Side, NEW a, a = Height(h, t.kid[n][r])
  PROVE  /\ a \in Nat /\ h[n] \in Nat
         /\ n \in t.red => h[n] = a
         /\ n \notin t.red => h[n] = a + 1
<1>1. Shape(t, sub) /\ Balanced(t, sub, h, {<<u, s>>}) /\ Missing({<<u, s>>}, n, r) = 0
  BY DEF Hollow, Missing
<1> QED BY <1>1, LevelAt

(* u has the members of t, and still wants a black node above x.           *)
Same(t, sub, w, u, x, s) ==
  \E v, k : Hollow(w, v, k, u, x, s) /\ Mem(w, v) = Mem(t, sub)

(* The rotation that makes the sibling black.                              *)
LEMMA RedSiblingTurn ==
  ASSUME NEW t, NEW sub, NEW h, NEW u, NEW x, NEW s \in Side, Hollow(t, sub, h, u, x, s),
         NEW o, o = t.kid[u][Flip(s)], o \in t.red,
         NEW X, X = (t.red \ {o}) \cup {u},
         NEW w, w = Rotate([t EXCEPT !.red = X], u, s)
  PROVE  Same(t, sub, w, u, x, s) /\ w.kid[u][Flip(s)] \notin w.red
<1> DEFINE M == Mem(t, sub)
           f == Flip(s)
           g == t.kid[o][s]
           b == t.kid[o][f]
           gap == {<<u, s>>}
           level == h[u] - 1
<1>1. /\ Shape(t, sub) /\ Balanced(t, sub, h, gap) /\ u \in M /\ t.kid[u][s] = x
      /\ x \notin t.red
      /\ \A n \in M : n \in t.red => n # t.root /\ t.parent[n] \notin t.red
  BY DEF Hollow
<1>2. /\ f \in Side /\ f # s /\ Flip(f) = s /\ \A r \in Side : r = s \/ r = f
      /\ u \in Node /\ u # NULL /\ x \in Link /\ (x # NULL => t.parent[x] = u)
      /\ o \in M /\ o \in Node /\ o # NULL /\ t.parent[o] = u
      /\ o # u /\ o # x /\ o # t.root /\ x # u
      /\ h \in [Node -> Nat]
  BY HollowFacts
<1>3. u \notin t.red
  BY <1>1, <1>2
<1>4. X \subseteq M
  BY <1>1, RedAreMembers
<1>5. \A y \in M \ {u, o}, r \in Side : LevelOK(t, X, h, gap, y, r)
  BY <1>1 DEF Balanced, LevelOK, Black
<1>6. Fits(t, X, h, gap, u, s, level)
  <2> DEFINE hx == Height(h, x)
             hg == Height(h, g)
             hb == Height(h, b)
             hu == h[u]
             ho == h[o]
  <2>1. hx \in Nat /\ hu \in Nat /\ ho = hx + 1 /\ hu = hx + 2
    BY <1>3, HollowLevels
  <2>2. hg \in Nat /\ ho = hg
    <3> HIDE DEF f, b, hx, hu
    <3> QED BY <1>2, OtherLevels
  <2>3. hb \in Nat /\ ho = hb
    <3> HIDE DEF f, g, hx, hu
    <3> QED BY <1>2, OtherLevels
  <2>4. /\ Missing(gap, u, s) = 1 /\ Missing(gap, u, f) = 0
        /\ Missing(gap, o, s) = 0 /\ Missing(gap, o, f) = 0
        /\ Black(X, u) = 0 /\ Black(X, o) = 1
    BY <1>2 DEF Missing, Black
  <2>5. /\ hu - 1 \in Nat /\ hu - 1 = hx + 1 + 0 /\ hu - 1 = hg + 0 + 0
        /\ hu = (hu - 1) + 0 + 1 /\ hu = hb + 0 + 1
    <3> HIDE DEF hx, hg, hb, hu, ho
    <3> QED BY <2>1, <2>2, <2>3
  <2>6. /\ level \in Nat
        /\ level = hx + Missing(gap, u, s) + Black(X, u)
        /\ level = hg + Missing(gap, u, f) + Black(X, u)
        /\ hu = level + Missing(gap, o, s) + Black(X, o)
        /\ hu = hb + Missing(gap, o, f) + Black(X, o)
    BY <2>4, <2>5
  <2>7. t.kid[u][s] = x /\ t.kid[u][f] = o
    BY <1>1
  <2> HIDE DEF gap, level
  <2> QED BY <2>6, <2>7 DEF Fits
<1> HIDE DEF level, gap
<1>7. PICK v, k : /\ Rotated(t, w, u, s, X) /\ Shape(w, v) /\ Mem(w, v) = M
                  /\ Balanced(w, v, k, gap)
  <2>1. Turned(t, w, X, sub, h, gap, u, s, level)
    BY <1>1, <1>2, <1>4, <1>5, <1>6, Turn
  <2> QED BY <2>1 DEF Turned
<1>8. /\ w.red = X /\ w.root = IF u = t.root THEN o ELSE t.root
      /\ w.kid[u][s] = x /\ w.kid[u][f] = g
      /\ \A y \in Node : w.parent[y] = IF y = u THEN o
                                       ELSE IF y = o THEN t.parent[u]
                                       ELSE IF y = g THEN u
                                       ELSE t.parent[y]
  <2>1. Rotated(t, w, u, s, X) /\ o = t.kid[u][Flip(s)] /\ g = t.kid[o][s]
    BY <1>7
  <2> HIDE DEF g
  <2>4. Swapped(t, w, u, s, X, o, g)
    BY <2>1, RotatedIs
  <2>2. /\ w.red = X /\ w.root = IF u = t.root THEN o ELSE t.root
        /\ w.kid[u][s] = t.kid[u][s] /\ w.kid[u][Flip(s)] = g
    BY <2>4 DEF Swapped
  <2>3. \A y \in Node : w.parent[y] = IF y = u THEN o
                                       ELSE IF y = o THEN t.parent[u]
                                       ELSE IF y = g THEN u
                                       ELSE t.parent[y]
    BY <2>4 DEF Swapped
  <2> QED BY <1>1, <2>2, <2>3
<1>9. g \notin t.red /\ g # u
  <2>1. g # NULL => g \in M /\ t.parent[g] = o
    BY <1>1, <1>2, Kids
  <2>2. g \notin t.red
    BY <1>1, <2>1, RedAreMembers
  <2>3. g # u
    <3>1. g = u => u \in sub[o] /\ o \in sub[u]
      BY <1>1, <1>2, Kids
    <3> QED BY <1>1, <1>2, <3>1, Antisymmetric
  <2> QED BY <2>2, <2>3
<1> HIDE DEF g, b
<1>10. ASSUME NEW n \in M, n \in X PROVE n # w.root /\ w.parent[n] \notin X
  <2>0. n \in Node /\ n # o
    BY <1>1, <1>2, <1>10, Members1
  <2>1. CASE n = u
    BY <1>2, <1>8, <2>0, <2>1
  <2>2. CASE n # u
    <3>1. n \in t.red /\ n # t.root /\ t.parent[n] \notin t.red /\ n # g
      BY <1>1, <1>9, <1>10, <2>2
    <3>2. w.parent[n] = t.parent[n] /\ n # w.root
      BY <1>8, <2>0, <2>2, <3>1
    <3>3. t.parent[n] # u
      <4> SUFFICES ASSUME t.parent[n] = u PROVE FALSE
        OBVIOUS
      <4>1. PICK r \in Side : t.kid[u][r] = n
        BY <1>1, <3>1, ParentOfMember
      <4> QED BY <1>1, <1>2, <2>0, <3>1, <4>1
    <3> QED BY <3>1, <3>2, <3>3
  <2> QED BY <2>1, <2>2
<1>11. u \in Mem(w, v) /\ w.kid[u][s] = x /\ x \notin w.red
  BY <1>1, <1>2, <1>7, <1>8
<1>12. \A n \in Mem(w, v) : n \in w.red => n # w.root /\ w.parent[n] \notin w.red
  BY <1>7, <1>8, <1>10
<1>13. Hollow(w, v, k, u, x, s)
  BY <1>7, <1>11, <1>12 DEF Hollow, gap
<1>14. w.kid[u][Flip(s)] \notin w.red
  BY <1>8, <1>9
<1> QED BY <1>7, <1>13, <1>14 DEF Same

LEMMA NoCycle ==
  ASSUME NEW t, NEW sub, Shape(t, sub), NEW n \in Mem(t, sub), NEW s \in Side,
         NEW c, c = t.kid[n][s], c # NULL, NEW r \in Side, NEW d, d = t.kid[c][r]
  PROVE  d # n
<1>1. c \in Mem(t, sub) /\ c \in sub[n] /\ c # n /\ n \in Node
  BY Kids, Members1
<1>2. d # NULL => d \in sub[c]
  BY <1>1, Kids
<1>3. d = n => n \in sub[c]
  BY <1>1, <1>2, LinkFacts
<1> QED BY <1>1, <1>3, Antisymmetric

(* The rotation that makes the far nephew red, when only the near one is.  *)
LEMMA NearNephewTurn ==
  ASSUME NEW t, NEW sub, NEW h, NEW u, NEW x, NEW s \in Side, Hollow(t, sub, h, u, x, s),
         NEW o, o = t.kid[u][Flip(s)], o \notin t.red,
         NEW c, t.kid[o][s] = c, c \in t.red, t.kid[o][Flip(s)] \notin t.red,
         NEW X, X = (t.red \ {c}) \cup {o},
         NEW w, w = Rotate([t EXCEPT !.red = X], o, Flip(s))
  PROVE  /\ Same(t, sub, w, u, x, s)
         /\ w.kid[u][Flip(s)] = c /\ c \notin w.red
         /\ w.kid[c][Flip(s)] = o /\ o \in w.red
<1> DEFINE M == Mem(t, sub)
           f == Flip(s)
           g == t.kid[c][f]
           b == t.kid[c][s]
           far == t.kid[o][f]
           gap == {<<u, s>>}
           level == h[c]
<1>1. /\ Shape(t, sub) /\ Balanced(t, sub, h, gap) /\ u \in M /\ t.kid[u][s] = x
      /\ x \notin t.red
      /\ \A n \in M : n \in t.red => n # t.root /\ t.parent[n] \notin t.red
  BY DEF Hollow
<1>2. /\ f \in Side /\ f # s /\ Flip(f) = s /\ \A r \in Side : r = s \/ r = f
      /\ u \in Node /\ u # NULL /\ x \in Link /\ (x # NULL => t.parent[x] = u)
      /\ o \in M /\ o \in Node /\ o # NULL /\ t.parent[o] = u
      /\ o # u /\ o # x /\ o # t.root /\ x # u
      /\ h \in [Node -> Nat]
  BY HollowFacts
<1>3. /\ c \in M /\ c \in Node /\ c # NULL /\ t.parent[c] = o /\ c # o /\ c # u
      /\ t.kid[o][Flip(f)] = c
  <2>1. c \in Node /\ c # NULL
    BY <1>1, RedAreMembers, LinkFacts
  <2>2. c \in M /\ t.parent[c] = o /\ c # o
    BY <1>1, <1>2, <2>1, Kids
  <2>3. c # u
    BY <1>1, <1>2, NoCycle
  <2> QED BY <1>2, <2>1, <2>2, <2>3
<1>4. X \subseteq M
  BY <1>1, <1>2, RedAreMembers
<1>5. \A y \in M \ {o, c}, r \in Side : LevelOK(t, X, h, gap, y, r)
  BY <1>1 DEF Balanced, LevelOK, Black
<1>6. Fits(t, X, h, gap, o, f, level)
  <2> DEFINE hd == Height(h, far)
             hg == Height(h, g)
             hb == Height(h, b)
             hc == Height(h, c)
             ho == h[o]
  <2>1. hd \in Nat /\ ho \in Nat /\ ho = hd + 1
    <3> HIDE DEF hd
    <3>1. hd = Height(h, t.kid[o][f])
      BY DEF hd
    <3> HIDE DEF f, far
    <3> QED BY <1>2, <3>1, OtherLevels
  <2>2. hc \in Nat /\ ho = hc + 1
    <3> HIDE DEF hc
    <3>1. hc = Height(h, t.kid[o][s])
      BY DEF hc
    <3> QED BY <1>2, <3>1, OtherLevels
  <2>3. hg \in Nat /\ h[c] = hg
    <3> HIDE DEF hg
    <3>1. hg = Height(h, t.kid[c][f])
      BY DEF hg
    <3> HIDE DEF f, g
    <3> QED BY <1>2, <1>3, <3>1, OtherLevels
  <2>4. hb \in Nat /\ h[c] = hb
    <3> HIDE DEF hb
    <3>1. hb = Height(h, t.kid[c][s])
      BY DEF hb
    <3> QED BY <1>2, <1>3, <3>1, OtherLevels
  <2>5. hc = h[c]
    BY <1>3 DEF Height
  <2>6. /\ Missing(gap, o, s) = 0 /\ Missing(gap, o, f) = 0
        /\ Missing(gap, c, s) = 0 /\ Missing(gap, c, f) = 0
        /\ Black(X, o) = 0 /\ Black(X, c) = 1
    BY <1>2, <1>3 DEF Missing, Black
  <2>7. /\ h[c] \in Nat /\ h[c] = hd + 0 + 0 /\ h[c] = hg + 0 + 0
        /\ ho = h[c] + 0 + 1 /\ ho = hb + 0 + 1
    <3> HIDE DEF hd, hg, hb, hc, ho
    <3> QED BY <2>1, <2>2, <2>3, <2>4, <2>5
  <2>8. /\ level \in Nat
        /\ level = hd + Missing(gap, o, f) + Black(X, o)
        /\ level = hg + Missing(gap, o, s) + Black(X, o)
        /\ ho = level + Missing(gap, c, f) + Black(X, c)
        /\ ho = hb + Missing(gap, c, s) + Black(X, c)
    BY <2>6, <2>7
  <2> HIDE DEF gap, level
  <2> QED BY <1>2, <1>3, <2>8 DEF Fits
<1> HIDE DEF level, gap
<1>7. PICK v, k : /\ Rotated(t, w, o, f, X) /\ Shape(w, v) /\ Mem(w, v) = M
                  /\ Balanced(w, v, k, gap)
  <2>1. w = Rotate([t EXCEPT !.red = X], o, f)
    OBVIOUS
  <2> HIDE DEF f
  <2>2. Turned(t, w, X, sub, h, gap, o, f, level)
    BY <1>1, <1>2, <1>3, <1>4, <1>5, <1>6, <2>1, Turn
  <2> QED BY <2>2 DEF Turned
<1>8. /\ w.red = X /\ w.root = t.root
      /\ w.kid[c][f] = o
      /\ \A y \in Node \ {o, c}, r \in Side :
           w.kid[y][r] = IF t.kid[y][r] = o THEN c ELSE t.kid[y][r]
      /\ \A y \in Node : w.parent[y] = IF y = o THEN c
                                       ELSE IF y = c THEN u
                                       ELSE IF y = g THEN o
                                       ELSE t.parent[y]
  <2>1. Rotated(t, w, o, f, X) /\ c = t.kid[o][Flip(f)] /\ g = t.kid[c][f]
    BY <1>3, <1>7
  <2> HIDE DEF g, f
  <2>4. Swapped(t, w, o, f, X, c, g)
    BY <2>1, RotatedIs
  <2>2. /\ w.red = X /\ w.root = IF o = t.root THEN c ELSE t.root
        /\ w.kid[c][f] = o
        /\ \A y \in Node \ {o, c}, r \in Side :
             w.kid[y][r] = IF t.kid[y][r] = o THEN c ELSE t.kid[y][r]
    BY <2>4 DEF Swapped
  <2>3. \A y \in Node : w.parent[y] = IF y = o THEN c
                                       ELSE IF y = c THEN t.parent[o]
                                       ELSE IF y = g THEN o
                                       ELSE t.parent[y]
    BY <2>4 DEF Swapped
  <2> QED BY <1>2, <2>2, <2>3
<1>9. g \notin t.red
  <2>1. g # NULL => g \in M /\ t.parent[g] = c
    BY <1>1, <1>2, <1>3, Kids
  <2> QED BY <1>1, <2>1, RedAreMembers
<1>10. w.kid[u][s] = x /\ w.kid[u][f] = c
  <2>1. u \in Node \ {o, c}
    BY <1>2, <1>3
  <2>2. \A r \in Side : w.kid[u][r] = IF t.kid[u][r] = o THEN c ELSE t.kid[u][r]
    BY <1>8, <2>1
  <2> QED BY <1>1, <1>2, <2>2
<1> HIDE DEF g, b
<1>11. ASSUME NEW n \in M, n \in X PROVE n # w.root /\ w.parent[n] \notin X
  <2>0. n \in Node /\ n # c
    BY <1>1, <1>3, <1>11, Members1
  <2>1. CASE n = o
    BY <1>2, <1>3, <1>8, <2>0, <2>1
  <2>2. CASE n # o
    <3>1. n \in t.red /\ n # t.root /\ t.parent[n] \notin t.red /\ n # g
      BY <1>1, <1>9, <1>11, <2>2
    <3>2. w.parent[n] = t.parent[n] /\ n # w.root
      BY <1>8, <2>0, <2>2, <3>1
    <3>3. t.parent[n] # o
      <4> SUFFICES ASSUME t.parent[n] = o PROVE FALSE
        OBVIOUS
      <4>1. PICK r \in Side : t.kid[o][r] = n
        BY <1>1, <3>1, ParentOfMember
      <4>2. r = s \/ r = f
        BY <1>2
      <4> QED BY <2>0, <3>1, <4>1, <4>2
    <3> QED BY <3>1, <3>2, <3>3
  <2> QED BY <2>1, <2>2
<1>12. u \in Mem(w, v) /\ w.kid[u][s] = x /\ x \notin w.red
  BY <1>1, <1>2, <1>7, <1>8, <1>10
<1>13. \A n \in Mem(w, v) : n \in w.red => n # w.root /\ w.parent[n] \notin w.red
  BY <1>7, <1>8, <1>11
<1>14. Hollow(w, v, k, u, x, s)
  BY <1>7, <1>12, <1>13 DEF Hollow, gap
<1>15. c \notin w.red /\ o \in w.red
  BY <1>3, <1>8
<1> QED BY <1>7, <1>8, <1>10, <1>14, <1>15 DEF Same

(* u has the members of t and is red-black.                                *)
Mended(t, sub, w) ==
  \E v, k : /\ Shape(w, v) /\ Balanced(w, v, k, {}) /\ Mem(w, v) = Mem(t, sub)
            /\ \A n \in Mem(w, v) : n \in w.red => n # w.root /\ w.parent[n] \notin w.red

(* The last rotation of an erasure.                                        *)
LEMMA FarNephewTurn ==
  ASSUME NEW t, NEW sub, NEW h, NEW u, NEW x, NEW s \in Side, Hollow(t, sub, h, u, x, s),
         NEW o, o = t.kid[u][Flip(s)], o \notin t.red,
         NEW far, t.kid[o][Flip(s)] = far, far \in t.red,
         NEW X, X \subseteq t.red \cup {o}, t.red \ {u, far} \subseteq X,
         u \notin X, far \notin X, o \in X <=> u \in t.red,
         NEW w, w = Rotate([t EXCEPT !.red = X], u, s)
  PROVE  Mended(t, sub, w)
<1> DEFINE M == Mem(t, sub)
           f == Flip(s)
           g == t.kid[o][s]
           gap == {<<u, s>>}
           level == Height(h, x) + 1
           h1 == [h EXCEPT ![far] = h[far] + 1]
<1>1. /\ Shape(t, sub) /\ Balanced(t, sub, h, gap) /\ u \in M /\ t.kid[u][s] = x
      /\ x \notin t.red
      /\ \A n \in M : n \in t.red => n # t.root /\ t.parent[n] \notin t.red
  BY DEF Hollow
<1>2. /\ f \in Side /\ f # s /\ Flip(f) = s /\ \A r \in Side : r = s \/ r = f
      /\ u \in Node /\ u # NULL /\ x \in Link /\ (x # NULL => t.parent[x] = u)
      /\ o \in M /\ o \in Node /\ o # NULL /\ t.parent[o] = u
      /\ o # u /\ o # x /\ o # t.root /\ x # u
      /\ h \in [Node -> Nat]
  BY HollowFacts
<1>3. /\ far \in M /\ far \in Node /\ far # NULL /\ t.parent[far] = o /\ far # o /\ far # u
      /\ far # x /\ far # g
  <2>1. far \in Node /\ far # NULL
    BY <1>1, RedAreMembers, LinkFacts
  <2>2. far \in M /\ t.parent[far] = o /\ far # o
    BY <1>1, <1>2, <2>1, Kids
  <2>3. far # u
    BY <1>1, <1>2, NoCycle
  <2>4. far # g
    <3>1. t.kid[o][Flip(f)] # t.kid[o][f]
      BY <1>1, <1>2, <2>1, OneSide
    <3> QED BY <1>2, <3>1
  <2> QED BY <1>1, <2>1, <2>2, <2>3, <2>4
<1>4. X \subseteq M /\ u \notin X /\ far \notin X /\ X \subseteq t.red \cup {o}
      /\ (o \in X <=> u \in t.red)
  BY <1>1, <1>2, <1>3, RedAreMembers
<1>5. /\ h1 \in [Node -> Nat] /\ h1[far] = h[far] + 1
      /\ \A y \in Node : y # far => h1[y] = h[y]
      /\ \A y \in Link : y # far => Height(h1, y) = Height(h, y)
  <2>1. h[far] \in Nat
    BY <1>2, <1>3
  <2>2. /\ h1 \in [Node -> Nat] /\ h1[far] = h[far] + 1
        /\ \A y \in Node : y # far => h1[y] = h[y]
    BY <1>2, <1>3, <2>1
  <2> HIDE DEF h1
  <2> QED BY <2>2, LinkFacts DEF Height
<1> HIDE DEF h1, gap
<1>6. ASSUME NEW y \in M \ {u, o}, NEW r \in Side
      PROVE  LevelOK(t, X, h1, {}, y, r)
  <2> DEFINE l == t.kid[y][r]
             a == Height(h, l)
  <2>1. y \in Node /\ y # u /\ y # o /\ y \in M
    BY <1>1, Members1
  <2>2. a \in Nat /\ h[y] \in Nat /\ (y \in t.red => h[y] = a) /\ (y \notin t.red => h[y] = a + 1)
    <3>1. a = Height(h, t.kid[y][r])
      OBVIOUS
    <3> HIDE DEF a, l
    <3> QED BY <2>1, <3>1, OtherLevels
  <2>3. l \in Link /\ l # far
    <3>1. l \in Link /\ (l # NULL => t.parent[l] = y)
      BY <1>1, <2>1, Kids
    <3> QED BY <1>3, <2>1, <3>1
  <2>4. Height(h1, l) = a
    <3> HIDE DEF l
    <3> QED BY <1>5, <2>3
  <2>5. y # far => (y \in X <=> y \in t.red)
    BY <2>1
  <2>6. /\ y = far => h1[y] = h[y] + 1 /\ Black(X, y) = 1 /\ h[y] = a
        /\ y # far /\ y \in t.red => h1[y] = h[y] /\ Black(X, y) = 0 /\ h[y] = a
        /\ y # far /\ y \notin t.red => h1[y] = h[y] /\ Black(X, y) = 1 /\ h[y] = a + 1
    BY <1>4, <1>5, <2>1, <2>2, <2>5 DEF Black
  <2>7. Missing({}, y, r) = 0
    BY DEF Missing
  <2>8. h1[y] = a + 0 + Black(X, y)
    <3> HIDE DEF a
    <3> QED BY <2>2, <2>6
  <2> QED BY <2>4, <2>7, <2>8 DEF LevelOK
<1>7. Fits(t, X, h1, {}, u, s, level)
  <2> DEFINE hx == Height(h, x)
             hg == Height(h, g)
             ho == h[o]
             hu == h[u]
             hf == Height(h, far)
  <2>1. /\ hx \in Nat /\ hu \in Nat /\ ho = hx + 1
        /\ u \in t.red => hu = hx + 1
        /\ u \notin t.red => hu = hx + 2
    BY HollowLevels
  <2>2. hg \in Nat /\ ho = hg + 1
    <3>1. hg = Height(h, t.kid[o][s])
      OBVIOUS
    <3> HIDE DEF f, g, hg, hx, hu, hf
    <3> QED BY <1>2, <3>1, OtherLevels
  <2>3. hf \in Nat /\ ho = hf + 1
    <3>1. hf = Height(h, t.kid[o][f])
      OBVIOUS
    <3> HIDE DEF f, g, hg, hx, hu, hf
    <3> QED BY <1>2, <3>1, OtherLevels
  <2>4. hf = h[far]
    BY <1>3 DEF Height
  <2>5. /\ Height(h1, x) = hx /\ Height(h1, g) = hg /\ Height(h1, far) = hf + 1 /\ h1[u] = hu
    <3>1. g \in Link
      BY <1>1, <1>2, Kids
    <3>2. Height(h1, far) = h[far] + 1
      BY <1>3, <1>5 DEF Height
    <3> QED BY <1>2, <1>3, <1>5, <2>4, <3>1, <3>2
  <2>6. /\ Missing({}, u, s) = 0 /\ Missing({}, u, f) = 0
        /\ Missing({}, o, s) = 0 /\ Missing({}, o, f) = 0
        /\ Black(X, u) = 1
    BY <1>4 DEF Missing, Black
  <2> DEFINE c == Black(X, o)
  <2>7. (u \in t.red => c = 0) /\ (u \notin t.red => c = 1)
    BY <1>4 DEF Black
  <2>8. /\ hx + 1 \in Nat /\ hx + 1 = hx + 0 + 1 /\ hx + 1 = hg + 0 + 1
        /\ hu = (hx + 1) + 0 + c /\ hu = (hf + 1) + 0 + c
    <3> HIDE DEF hx, hg, ho, hu, hf, c
    <3> QED BY <2>1, <2>2, <2>3, <2>7
  <2>9. /\ level \in Nat
        /\ level = Height(h1, x) + Missing({}, u, s) + Black(X, u)
        /\ level = Height(h1, g) + Missing({}, u, f) + Black(X, u)
        /\ h1[u] = level + Missing({}, o, s) + c
        /\ h1[u] = Height(h1, far) + Missing({}, o, f) + c
    BY <2>5, <2>6, <2>8
  <2>10. t.kid[u][s] = x /\ t.kid[u][f] = o /\ t.kid[o][f] = far
    BY <1>1
  <2> HIDE DEF level
  <2> QED BY <2>9, <2>10 DEF Fits
<1> HIDE DEF level
<1>8. PICK v, k : /\ Rotated(t, w, u, s, X) /\ Shape(w, v) /\ Mem(w, v) = M
                  /\ Balanced(w, v, k, {})
  <2>1. Turned(t, w, X, sub, h1, {}, u, s, level)
    BY <1>1, <1>2, <1>4, <1>5, <1>6, <1>7, Turn
  <2> QED BY <2>1 DEF Turned
<1>9. /\ w.red = X /\ w.root = IF u = t.root THEN o ELSE t.root
      /\ \A y \in Node : w.parent[y] = IF y = u THEN o
                                       ELSE IF y = o THEN t.parent[u]
                                       ELSE IF y = g THEN u
                                       ELSE t.parent[y]
  <2>1. Rotated(t, w, u, s, X) /\ o = t.kid[u][Flip(s)] /\ g = t.kid[o][s]
    BY <1>8
  <2> HIDE DEF g
  <2>4. Swapped(t, w, u, s, X, o, g)
    BY <2>1, RotatedIs
  <2>2. /\ w.red = X /\ w.root = IF u = t.root THEN o ELSE t.root
    BY <2>4 DEF Swapped
  <2>3. \A y \in Node : w.parent[y] = IF y = u THEN o
                                       ELSE IF y = o THEN t.parent[u]
                                       ELSE IF y = g THEN u
                                       ELSE t.parent[y]
    BY <2>4 DEF Swapped
  <2> QED BY <2>2, <2>3
<1>10. ASSUME NEW n \in M, n \in X PROVE n # w.root /\ w.parent[n] \notin X
  <2>0. n \in Node /\ n # far /\ n # u
    BY <1>1, <1>4, <1>10, Members1
  <2>1. CASE n = o
    <3>1. u \in t.red /\ u # t.root /\ t.parent[u] \notin t.red
      BY <1>1, <1>4, <1>10, <2>1
    <3>2. t.parent[u] # o
      <4> SUFFICES ASSUME t.parent[u] = o PROVE FALSE
        OBVIOUS
      <4>1. PICK r \in Side : t.kid[o][r] = u
        BY <1>1, <3>1, ParentOfMember
      <4>2. u \in sub[o] /\ o \in sub[u]
        BY <1>1, <1>2, <4>1, Kids
      <4> QED BY <1>1, <1>2, <4>2, Antisymmetric
    <3>3. w.parent[n] = t.parent[u] /\ w.root = t.root
      BY <1>2, <1>9, <2>0, <2>1, <3>1
    <3> QED BY <1>2, <1>4, <2>1, <3>1, <3>2, <3>3
  <2>2. CASE n # o
    <3>1. n \in t.red /\ n # t.root /\ t.parent[n] \notin t.red
      BY <1>1, <1>4, <1>10, <2>2
    <3>2. n # w.root
      BY <1>9, <2>2, <3>1
    <3>3. CASE n = g
      BY <1>4, <1>9, <2>0, <2>2, <3>2, <3>3
    <3>4. CASE n # g
      <4>1. w.parent[n] = t.parent[n]
        BY <1>9, <2>0, <2>2, <3>4
      <4>2. t.parent[n] # o
        <5> SUFFICES ASSUME t.parent[n] = o PROVE FALSE
          OBVIOUS
        <5>1. PICK r \in Side : t.kid[o][r] = n
          BY <1>1, <3>1, ParentOfMember
        <5>2. r = s \/ r = f
          BY <1>2
        <5> QED BY <2>0, <3>4, <5>1, <5>2
      <4> QED BY <1>4, <3>1, <3>2, <4>1, <4>2
    <3> QED BY <3>3, <3>4
  <2> QED BY <2>1, <2>2
<1>11. \A n \in Mem(w, v) : n \in w.red => n # w.root /\ w.parent[n] \notin w.red
  BY <1>8, <1>9, <1>10
<1> QED BY <1>8, <1>11 DEF Mended

LEMMA BlackSiblingIs ==
  ASSUME NEW sub, NEW h, StateOK(tree, pc, node, up, sub, h), pc = "erase_color",
         BlackNode, NEW s, s = SideOf(tree, up, node), NEW t, t = BlackSibling(s)
  PROVE  Same(tree, sub, t, up, node, s) /\ t.kid[up][Flip(s)] \notin t.red
<1> DEFINE o == tree.kid[up][Flip(s)]
           X == (tree.red \ {o}) \cup {up}
<1>1. Hollow(tree, sub, h, up, node, s) /\ s \in Side
  BY EraseLoop
<1>2. CASE o \in tree.red
  <2>1. t = Rotate([tree EXCEPT !.red = X], up, s)
    BY <1>2 DEF BlackSibling, Sibling, IsRed
  <2>2. o = tree.kid[up][Flip(s)] /\ X = (tree.red \ {o}) \cup {up}
    OBVIOUS
  <2> HIDE DEF X, o
  <2> QED BY <1>1, <1>2, <2>1, <2>2, RedSiblingTurn
<1>3. CASE o \notin tree.red
  <2>1. t = tree
    BY <1>3 DEF BlackSibling, Sibling, IsRed
  <2> QED BY <1>1, <1>3, <2>1 DEF Same
<1> QED BY <1>2, <1>3

LEMMA InvNoNullDeref ==
  ASSUME NEW sub, NEW h, StateOK(tree, pc, node, up, sub, h)
  PROVE  NoNullDeref
<1>1. ASSUME pc = "insert_color", RedParent
      PROVE  tree.parent[tree.parent[node]] # NULL
  <2> DEFINE p == tree.parent[node]
             g == tree.parent[p]
             s == SideOf(tree, g, p)
  <2>1. p = tree.parent[node] /\ g = tree.parent[p] /\ s = SideOf(tree, g, p)
    OBVIOUS
  <2> HIDE DEF p, g, s
  <2>2. g # NULL
    BY <1>1, <2>1, Grandparent
  <2> QED BY <2>2 DEF g, p
<1>2. ASSUME pc = "erase_color", BlackNode
      PROVE  /\ up # NULL
             /\ LET s == SideOf(tree, up, node) IN
                  Sibling(tree, s) # NULL /\ Sibling(BlackSibling(s), s) # NULL
  <2> DEFINE s == SideOf(tree, up, node)
             t == BlackSibling(s)
  <2>1. s = SideOf(tree, up, node) /\ t = BlackSibling(s)
    OBVIOUS
  <2> HIDE DEF s, t
  <2>2. Hollow(tree, sub, h, up, node, s) /\ s \in Side /\ up # NULL
    BY <1>2, <2>1, EraseLoop
  <2>3. Same(tree, sub, t, up, node, s)
    BY <1>2, <2>1, BlackSiblingIs
  <2>4. PICK v, k : Hollow(t, v, k, up, node, s)
    BY <2>3 DEF Same
  <2>5. tree.kid[up][Flip(s)] # NULL
    BY <2>2, HollowFacts
  <2>6. t.kid[up][Flip(s)] # NULL
    BY <2>2, <2>4, HollowFacts
  <2> QED BY <2>2, <2>5, <2>6 DEF Sibling, s, t
<1> QED BY <1>1, <1>2 DEF NoNullDeref

(* A child other than x belongs to one parent, on one side.                *)
LEMMA OneLink ==
  ASSUME NEW t, NEW sub, Shape(t, sub), NEW n \in Mem(t, sub), NEW s \in Side,
         NEW m \in Mem(t, sub), NEW r \in Side, t.kid[n][s] # NULL, t.kid[n][s] = t.kid[m][r]
  PROVE  n = m /\ s = r
<1>1. n = m
  BY Kids
<1>2. r = s \/ r = Flip(s)
  BY Sides
<1>3. t.kid[n][Flip(s)] # t.kid[n][s]
  BY OneSide
<1> QED BY <1>1, <1>2, <1>3

(* The black sibling becomes red, and u wants a black node in its turn.    *)
LEMMA Raise ==
  ASSUME NEW t, NEW sub, NEW h, NEW u, NEW x, NEW s \in Side, Hollow(t, sub, h, u, x, s),
         NEW o, t.kid[u][Flip(s)] = o, o \notin t.red,
         \A r \in Side : t.kid[o][r] \notin t.red,
         NEW w, w = [t EXCEPT !.red = t.red \cup {o}]
  PROVE  Becomes(Mem(t, sub), w, "erase_color", u, t.parent[u])
<1> DEFINE M == Mem(t, sub)
           f == Flip(s)
           gap == {<<u, s>>}
           X == t.red \cup {o}
           p == t.parent[u]
           k == [h EXCEPT ![u] = h[u] - 1, ![o] = h[o] - 1]
           gap2 == Gap(w, "erase_color", u, p)
<1>1. /\ Shape(t, sub) /\ Balanced(t, sub, h, gap) /\ u \in M /\ t.kid[u][s] = x
      /\ x \notin t.red
      /\ \A n \in M : n \in t.red => n # t.root /\ t.parent[n] \notin t.red
  BY DEF Hollow
<1>2. /\ f \in Side /\ f # s /\ Flip(f) = s /\ \A r \in Side : r = s \/ r = f
      /\ u \in Node /\ u # NULL /\ x \in Link /\ (x # NULL => t.parent[x] = u)
      /\ o \in M /\ o \in Node /\ o # NULL /\ t.parent[o] = u
      /\ o # u /\ o # x /\ o # t.root /\ x # u
      /\ h \in [Node -> Nat]
  BY HollowFacts
<1>3. X \subseteq M
  BY <1>1, <1>2, RedAreMembers
<1> HIDE DEF X
<1>4. /\ Shape(w, sub) /\ Mem(w, sub) = M
      /\ w.root = t.root /\ w.kid = t.kid /\ w.parent = t.parent /\ w.red = X
  <2> DEFINE y == [t EXCEPT !.red = X]
  <2>1. w = y
    BY DEF X
  <2>2. /\ Shape(y, sub) /\ Mem(y, sub) = M
        /\ y.root = t.root /\ y.kid = t.kid /\ y.parent = t.parent /\ y.red = X
    BY <1>1, <1>3, Recolour
  <2> HIDE DEF y
  <2> QED BY <2>1, <2>2
<1> DEFINE a == Height(h, x)
<1>5. /\ a \in Nat /\ h[u] \in Nat /\ h[o] = a + 1
      /\ u \in t.red => h[u] = a + 1
      /\ u \notin t.red => h[u] = a + 2
  <2> HIDE DEF a
  <2>1. a = Height(h, x)
    BY DEF a
  <2> QED BY <1>2, <2>1, HollowLevels
<1>6. /\ k \in [Node -> Nat] /\ k[u] = h[u] - 1 /\ k[o] = h[o] - 1
      /\ \A y \in Node : y # u /\ y # o => k[y] = h[y]
  <2>1. h[u] - 1 \in Nat /\ h[o] - 1 \in Nat
    <3> HIDE DEF a
    <3> QED BY <1>5
  <2> QED BY <1>2, <2>1
<1> HIDE DEF k
<1>7. \A y \in Link : y # u /\ y # o => Height(k, y) = Height(h, y)
  BY <1>6, LinkFacts DEF Height
<1>8. /\ p # NULL => /\ p \in M /\ p # u /\ p # o /\ u # t.root
                     /\ SideOf(t, p, u) \in Side /\ t.kid[p][SideOf(t, p, u)] = u
      /\ p = NULL => u = t.root
      /\ p \in Link
  <2>1. p = NULL => u = t.root
    BY <1>1, ParentOfMember
  <2>2. ASSUME p # NULL
        PROVE  /\ p \in M /\ u # t.root
               /\ SideOf(t, p, u) \in Side /\ t.kid[p][SideOf(t, p, u)] = u
    BY <1>1, <2>2, SideOfChild
  <2>3. ASSUME p # NULL PROVE p # u /\ p # o
    <3> DEFINE r == SideOf(t, p, u)
    <3>1. p \in M /\ r \in Side /\ t.kid[p][r] = u
      BY <2>2, <2>3
    <3> HIDE DEF r
    <3>2. p # u
      BY <1>1, <1>2, <3>1, Kids
    <3>3. t.kid[u][f] = o
      OBVIOUS
    <3>4. t.kid[o][r] # u
      BY <1>1, <1>2, <3>1, <3>3, NoCycle
    <3> QED BY <3>1, <3>2, <3>4
  <2>4. p \in Link
    BY <1>1, Members1
  <2> QED BY <2>1, <2>2, <2>3, <2>4
<1> HIDE DEF p
<1>9. /\ SideOf(w, p, u) = SideOf(t, p, u)
      /\ gap2 = IF p = NULL THEN {} ELSE {<<p, SideOf(t, p, u)>>}
  BY <1>4 DEF SideOf, Gap
<1> HIDE DEF gap2
(* The link to u is the one where a black node is missing now.             *)
<1>10. ASSUME NEW y \in M, NEW r \in Side
       PROVE  Missing(gap2, y, r) = IF t.kid[y][r] = u THEN 1 ELSE 0
  <2>1. CASE t.kid[y][r] = u
    <3>1. t.parent[u] = y /\ y # NULL
      BY <1>1, <1>2, <2>1, Kids, Members1, LinkFacts
    <3>2. p = y
      BY <3>1 DEF p
    <3> DEFINE q == SideOf(t, p, u)
    <3>3. q \in Side /\ t.kid[p][q] = u /\ gap2 = {<<p, q>>}
      BY <1>8, <1>9, <3>1, <3>2
    <3> HIDE DEF q
    <3>4. q = r
      BY <1>1, <1>2, <2>1, <3>2, <3>3, OneLink
    <3> QED BY <2>1, <3>2, <3>3, <3>4 DEF Missing
  <2>2. CASE t.kid[y][r] # u
    <3>1. <<y, r>> \notin gap2
      BY <1>8, <1>9, <2>2
    <3> QED BY <2>2, <3>1 DEF Missing
  <2> QED BY <2>1, <2>2
<1>11. ASSUME NEW y \in M, NEW r \in Side
       PROVE  k[y] = Height(k, t.kid[y][r]) + Missing(gap2, y, r) + Black(X, y)
  <2> DEFINE l == t.kid[y][r]
             b == Height(h, l)
  <2>0. l \in Link /\ y \in Node /\ (l # NULL => t.parent[l] = y)
    BY <1>1, Kids, Members1
  <2>1. CASE y = u
    <3>1. l # u
      BY <1>1, <1>2, <2>0, <2>1, Kids
    <3>2. Missing(gap2, y, r) = 0
      BY <1>10, <3>1
    <3>3. Height(k, l) = a
      <4>1. CASE r = s
        <5>1. l = x
          BY <1>1, <2>1, <4>1
        <5> QED BY <1>2, <1>7, <5>1
      <4>2. CASE r = f
        <5>1. l = o
          BY <2>1, <4>2
        <5>2. Height(k, o) = k[o] /\ k[o] = h[o] - 1
          BY <1>2, <1>6 DEF Height
        <5>3. h[o] - 1 = a
          <6> HIDE DEF a
          <6> QED BY <1>5
        <5> QED BY <5>1, <5>2, <5>3
      <4> QED BY <1>2, <4>1, <4>2
    <3> DEFINE c == Black(X, u)
    <3>4. /\ u \in t.red => c = 0
          /\ u \notin t.red => c = 1
      BY <1>2 DEF Black, X
    <3>5. h[u] - 1 = a + 0 + c
      <4> HIDE DEF a, c
      <4> QED BY <1>5, <3>4
    <3> QED BY <1>6, <2>1, <3>2, <3>3, <3>5
  <2>2. CASE y = o
    <3>1. /\ b \in Nat /\ h[o] \in Nat /\ h[o] = b + 1
      <4>1. b = Height(h, t.kid[y][r])
        OBVIOUS
      <4> HIDE DEF b, l, a
      <4> QED BY <1>2, <2>2, <4>1, OtherLevels
    <3>2. l # u /\ l # o
      <4>1. l # o
        BY <1>1, <1>2, <2>0, <2>2, Kids
      <4>2. t.kid[u][f] = o
        OBVIOUS
      <4>3. t.kid[o][r] # u
        BY <1>1, <1>2, <4>2, NoCycle
      <4> QED BY <2>2, <4>1, <4>3
    <3>3. Height(k, l) = b
      <4> HIDE DEF l
      <4> QED BY <1>7, <2>0, <3>2
    <3>4. Missing(gap2, y, r) = 0
      BY <1>10, <3>2
    <3>5. Black(X, y) = 0
      BY <2>2 DEF Black, X
    <3>6. h[o] - 1 = b + 0 + 0
      <4> HIDE DEF b
      <4> QED BY <3>1
    <3> QED BY <1>6, <2>2, <3>3, <3>4, <3>5, <3>6
  <2>3. CASE y # u /\ y # o
    <3>1. /\ b \in Nat /\ h[y] \in Nat
          /\ y \in t.red => h[y] = b
          /\ y \notin t.red => h[y] = b + 1
      <4>1. b = Height(h, t.kid[y][r])
        OBVIOUS
      <4> HIDE DEF b, l, a
      <4> QED BY <2>3, <4>1, OtherLevels
    <3>2. l # o
      BY <1>2, <2>0, <2>3
    <3> DEFINE c == Black(X, y)
    <3>3. /\ y \in t.red => c = 0
          /\ y \notin t.red => c = 1
      BY <2>3 DEF Black, X
    <3>4. CASE l = u
      <4>1. Missing(gap2, y, r) = 1
        BY <1>10, <3>4
      <4>2. Height(k, l) = h[u] - 1 /\ b = h[u]
        BY <1>2, <1>6, <3>4 DEF Height
      <4>3. h[y] = (h[u] - 1) + 1 + c
        <5>1. h[u] \in Nat
          BY <1>5
        <5> HIDE DEF b, c
        <5> QED BY <3>1, <3>3, <4>2, <5>1
      <4> QED BY <1>6, <2>0, <2>3, <4>1, <4>2, <4>3
    <3>5. CASE l # u
      <4>1. Missing(gap2, y, r) = 0
        BY <1>10, <3>5
      <4>2. Height(k, l) = b
        <5> HIDE DEF l
        <5> QED BY <1>7, <2>0, <3>2, <3>5
      <4>3. h[y] = b + 0 + c
        <5> HIDE DEF b, c
        <5> QED BY <3>1, <3>3
      <4> QED BY <1>6, <2>0, <2>3, <4>1, <4>2, <4>3
    <3> QED BY <3>4, <3>5
  <2> QED BY <2>1, <2>2, <2>3
<1>12. Balanced(w, sub, k, gap2)
  BY <1>4, <1>6, <1>11 DEF Balanced, LevelOK
<1>13. Colours(w, sub, Exempt(w, "erase_color", u))
  <2> SUFFICES ASSUME NEW n \in M, n \in X
               PROVE  n \in Exempt(w, "erase_color", u)
                        \/ (n # t.root /\ t.parent[n] \notin X)
    BY <1>4 DEF Colours
  <2>1. CASE n = o
    BY <1>2, <1>4, <2>1 DEF Exempt
  <2>2. CASE n # o
    <3>1. n \in t.red /\ n # t.root /\ t.parent[n] \notin t.red
      BY <1>1, <2>2 DEF X
    <3>2. t.parent[n] # o
      <4> SUFFICES ASSUME t.parent[n] = o PROVE FALSE
        OBVIOUS
      <4>1. PICK r \in Side : t.kid[o][r] = n
        BY <1>1, <3>1, ParentOfMember
      <4> QED BY <3>1, <4>1
    <3> QED BY <3>1, <3>2 DEF X
  <2> QED BY <2>1, <2>2
<1>14. LoopOK(w, sub, "erase_color", u, p)
  BY <1>1, <1>2, <1>4, <1>8, <1>9 DEF LoopOK, Link
<1>15. StateOK(w, "erase_color", u, p, sub, k)
  BY <1>4, <1>12, <1>13, <1>14 DEF StateOK, gap2
<1> QED BY <1>4, <1>15 DEF Becomes, p

LEMMA EraseRecolourStep ==
  ASSUME NEW sub, NEW h, StateOK(tree, pc, node, up, sub, h), EraseRecolour
  PROVE  Repaired(sub)
<1> DEFINE s == SideOf(tree, up, node)
           t == BlackSibling(s)
           o == t.kid[up][Flip(s)]
           w == [t EXCEPT !.red = t.red \cup {o}]
<1>1. /\ pc = "erase_color" /\ BlackNode
      /\ \A n \in Nephews(t, s) : n \notin t.red
      /\ tree' = w /\ node' = up /\ up' = t.parent[up] /\ pc' = "erase_color"
  BY DEF EraseRecolour, IsRed, Sibling
<1>2. s = SideOf(tree, up, node) /\ t = BlackSibling(s) /\ t.kid[up][Flip(s)] = o
      /\ w = [t EXCEPT !.red = t.red \cup {o}]
  OBVIOUS
<1>3. \A r \in Side : t.kid[o][r] \notin t.red
  BY <1>1 DEF Nephews, Sibling
<1> HIDE DEF s, t, o, w
<1>4. s \in Side /\ Same(tree, sub, t, up, node, s) /\ o \notin t.red
  BY <1>1, <1>2, EraseLoop, BlackSiblingIs
<1>5. PICK v, k : Hollow(t, v, k, up, node, s) /\ Mem(t, v) = Mem(tree, sub)
  BY <1>4 DEF Same
<1>6. Becomes(Mem(t, v), w, "erase_color", up, t.parent[up])
  BY <1>2, <1>3, <1>4, <1>5, Raise
<1> QED BY <1>1, <1>5, <1>6 DEF Repaired

(* Between calls there is nothing to repair.                               *)
LEMMA Idle ==
  ASSUME NEW t, NEW sub, NEW h, Shape(t, sub), Balanced(t, sub, h, {}),
         \A n \in Mem(t, sub) : n \in t.red => n # t.root /\ t.parent[n] \notin t.red,
         NEW u \in Link, NEW x \in Link
  PROVE  StateOK(t, "idle", x, u, sub, h)
BY DEF StateOK, Colours, LoopOK, Gap

LEMMA FarRedIs ==
  ASSUME NEW t, NEW sub, NEW h, NEW s \in Side, Hollow(t, sub, h, up, node, s),
         t.kid[up][Flip(s)] \notin t.red,
         \E n \in Nephews(t, s) : n \in t.red,
         NEW f, f = FarRed(t, s)
  PROVE  /\ Same(t, sub, f, up, node, s)
         /\ f.kid[up][Flip(s)] \notin f.red
         /\ f.kid[f.kid[up][Flip(s)]][Flip(s)] \in f.red
<1> DEFINE o == t.kid[up][Flip(s)]
           c == t.kid[o][s]
           X == (t.red \ {c}) \cup {o}
<1>1. CASE t.kid[o][Flip(s)] \in t.red
  <2>1. f = t
    BY <1>1 DEF FarRed, Sibling, IsRed
  <2> QED BY <1>1, <2>1 DEF Same
<1>2. CASE t.kid[o][Flip(s)] \notin t.red
  <2>1. f = Rotate([t EXCEPT !.red = X], o, Flip(s))
    BY <1>2 DEF FarRed, Sibling, IsRed
  <2>2. c \in t.red
    BY <1>2, Sides DEF Nephews, Sibling
  <2>3. o = t.kid[up][Flip(s)] /\ t.kid[o][s] = c /\ X = (t.red \ {c}) \cup {o}
    OBVIOUS
  <2>4. o \notin t.red
    OBVIOUS
  <2> HIDE DEF o, c, X
  <2>5. /\ Same(t, sub, f, up, node, s)
        /\ f.kid[up][Flip(s)] = c /\ c \notin f.red
        /\ f.kid[c][Flip(s)] = o /\ o \in f.red
    BY <1>2, <2>1, <2>2, <2>3, <2>4, NearNephewTurn
  <2> QED BY <2>5
<1> QED BY <1>1, <1>2

LEMMA EraseRotateStep ==
  ASSUME NEW sub, NEW h, StateOK(tree, pc, node, up, sub, h), EraseRotate
  PROVE  Repaired(sub)
<1> DEFINE s == SideOf(tree, up, node)
           t == BlackSibling(s)
           f == FarRed(t, s)
           o == f.kid[up][Flip(s)]
           far == f.kid[o][Flip(s)]
           black == f.red \ {up, far}
           X == IF up \in f.red THEN black \cup {o} ELSE black \ {o}
           w == Rotate([f EXCEPT !.red = X], up, s)
           w2 == [w EXCEPT !.red = w.red \ {w.root}]
<1>1. /\ pc = "erase_color" /\ BlackNode
      /\ \E n \in Nephews(t, s) : n \in t.red
      /\ pc' = "idle" /\ node' = NULL /\ up' = NULL
  BY DEF EraseRotate, IsRed
<1>2. tree' = w2
  BY DEF EraseRotate, IsRed, Sibling
<1>3. s = SideOf(tree, up, node) /\ t = BlackSibling(s) /\ f = FarRed(t, s)
      /\ o = f.kid[up][Flip(s)] /\ f.kid[o][Flip(s)] = far
      /\ w = Rotate([f EXCEPT !.red = X], up, s)
      /\ w2 = [w EXCEPT !.red = w.red \ {w.root}]
      /\ X = IF up \in f.red THEN (f.red \ {up, far}) \cup {o} ELSE (f.red \ {up, far}) \ {o}
  OBVIOUS
<1> HIDE DEF s, t, f, o, far, black, X, w, w2
<1>4. s \in Side /\ Same(tree, sub, t, up, node, s) /\ t.kid[up][Flip(s)] \notin t.red
  BY <1>1, <1>3, EraseLoop, BlackSiblingIs
<1>5. PICK v1, k1 : Hollow(t, v1, k1, up, node, s) /\ Mem(t, v1) = Mem(tree, sub)
  BY <1>4 DEF Same
<1>6. Same(t, v1, f, up, node, s) /\ o \notin f.red /\ far \in f.red
  <2>1. /\ Same(t, v1, f, up, node, s)
        /\ f.kid[up][Flip(s)] \notin f.red
        /\ f.kid[f.kid[up][Flip(s)]][Flip(s)] \in f.red
    BY <1>1, <1>3, <1>4, <1>5, FarRedIs
  <2> QED BY <1>3, <2>1
<1>7. PICK v2, k2 : Hollow(f, v2, k2, up, node, s) /\ Mem(f, v2) = Mem(tree, sub)
  BY <1>5, <1>6 DEF Same
<1>8. up # o /\ up # far /\ far # o
  <2>1. /\ up # o /\ o # NULL /\ o \in Mem(f, v2) /\ up \in Mem(f, v2) /\ Flip(s) \in Side
        /\ Shape(f, v2)
    <3>1. /\ Flip(s) \in Side /\ o \in Mem(f, v2) /\ o # NULL /\ o # up
      BY <1>3, <1>4, <1>7, HollowFacts
    <3> QED BY <1>7, <3>1 DEF Hollow
  <2>2. far # NULL
    BY <1>6, <2>1, RedAreMembers
  <2>3. far # up
    BY <1>3, <2>1, NoCycle
  <2>4. far # o
    BY <1>3, <2>1, <2>2, Kids
  <2> QED BY <2>1, <2>3, <2>4
<1>9. /\ X \subseteq f.red \cup {o} /\ f.red \ {up, far} \subseteq X
      /\ up \notin X /\ far \notin X /\ (o \in X <=> up \in f.red)
  BY <1>3, <1>6, <1>8
<1>10. Mended(f, v2, w)
  BY <1>3, <1>4, <1>6, <1>7, <1>9, FarNephewTurn
<1>11. PICK v, k : /\ Shape(w, v) /\ Balanced(w, v, k, {}) /\ Mem(w, v) = Mem(tree, sub)
                   /\ \A n \in Mem(w, v) : n \in w.red => n # w.root /\ w.parent[n] \notin w.red
  BY <1>7, <1>10 DEF Mended
<1>12. w2 = w
  <2>1. w.root \notin w.red
    BY <1>11, RedAreMembers
  <2>2. w.red \ {w.root} = w.red
    BY <2>1
  <2>3. w \in Tree
    BY <1>11 DEF Shape
  <2>4. [w EXCEPT !.red = w.red] = w
    BY <2>3 DEF Tree
  <2> QED BY <1>3, <2>2, <2>4
<1>13. StateOK(w, "idle", NULL, NULL, v, k)
  BY <1>11, Idle DEF Link
<1> QED BY <1>1, <1>2, <1>11, <1>12, <1>13 DEF Repaired, Becomes

LEMMA EraseDoneStep ==
  ASSUME NEW sub, NEW h, StateOK(tree, pc, node, up, sub, h), EraseDone
  PROVE  Repaired(sub)
<1> DEFINE M == Mem(tree, sub)
           X == tree.red \ {node}
           w == [tree EXCEPT !.red = X]
           gap == Gap(tree, "erase_color", node, up)
           s == SideOf(tree, up, node)
<1>0. /\ pc = "erase_color" /\ ~BlackNode
      /\ tree' = w /\ pc' = "idle" /\ node' = NULL /\ up' = NULL
  BY DEF EraseDone
<1>1. /\ Shape(tree, sub) /\ Balanced(tree, sub, h, gap) /\ h \in [Node -> Nat]
      /\ Colours(tree, sub, Exempt(tree, "erase_color", node))
      /\ LoopOK(tree, sub, "erase_color", node, up)
  BY <1>0 DEF StateOK, Balanced
<1>2. X \subseteq M
  BY <1>1, RedAreMembers
<1> HIDE DEF X
<1>3. /\ Shape(w, sub) /\ Mem(w, sub) = M
      /\ w.root = tree.root /\ w.kid = tree.kid /\ w.parent = tree.parent /\ w.red = X
  BY <1>1, <1>2, Recolour
<1> HIDE DEF w
<1>4. ASSUME NEW n \in M, n \in X PROVE n # tree.root /\ tree.parent[n] \notin X
  <2>1. n \in tree.red /\ n # node
    BY <1>4 DEF X
  <2>2. CASE n \in Exempt(tree, "erase_color", node)
    <3>1. n # tree.root /\ tree.parent[n] = node
      BY <2>1, <2>2 DEF Exempt
    <3> QED BY <3>1 DEF X
  <2>3. CASE n \notin Exempt(tree, "erase_color", node)
    BY <1>1, <2>1, <2>3 DEF Colours, X
  <2> QED BY <2>2, <2>3
<1>5. \E k : Balanced(w, sub, k, {})
  <2>1. CASE node \in tree.red
    <3> DEFINE k == [h EXCEPT ![node] = h[node] + 1]
    <3>1. /\ node \in M /\ node \in Node /\ node # NULL
          /\ up # NULL => /\ up \in M /\ tree.kid[up][s] = node /\ s \in Side
                          /\ gap = {<<up, s>>}
          /\ up = NULL => node = tree.root /\ gap = {}
      BY <1>1, <2>1, RedAreMembers, SideOfIs DEF LoopOK, Gap
    <3>2. /\ k \in [Node -> Nat] /\ k[node] = h[node] + 1
          /\ \A y \in Node : y # node => k[y] = h[y]
      BY <1>1, <3>1
    <3> HIDE DEF k, gap, s
    <3>3. ASSUME NEW y \in M, NEW r \in Side
          PROVE  Missing(gap, y, r) = IF tree.kid[y][r] = node THEN 1 ELSE 0
      <4>1. CASE tree.kid[y][r] = node
        <5>1. tree.parent[node] = y
          BY <1>1, <3>1, <4>1, Kids
        <5>2. up # NULL
          BY <1>1, <3>1, <5>1, Members1, LinkFacts DEF Shape, RootOK
        <5>3. up = y /\ s = r
          BY <1>1, <3>1, <4>1, <5>2, OneLink
        <5> QED BY <3>1, <4>1, <5>2, <5>3 DEF Missing
      <4>2. CASE tree.kid[y][r] # node
        <5>1. <<y, r>> \notin gap
          BY <3>1, <4>2
        <5> QED BY <4>2, <5>1 DEF Missing
      <4> QED BY <4>1, <4>2
    <3>4. ASSUME NEW y \in M, NEW r \in Side
          PROVE  k[y] = Height(k, tree.kid[y][r]) + Missing({}, y, r) + Black(X, y)
      <4> DEFINE l == tree.kid[y][r]
                 a == Height(h, l)
                 m == Missing(gap, y, r)
                 b == Black(tree.red, y)
                 c == Black(X, y)
                 d == Height(k, l)
      <4>1. /\ h[y] \in Nat /\ a \in Nat /\ m \in {0, 1} /\ h[y] = a + m + b
        <5>1. a = Height(h, tree.kid[y][r]) /\ m = Missing(gap, y, r) /\ b = Black(tree.red, y)
          OBVIOUS
        <5> HIDE DEF l, a, m, b, c, d
        <5> QED BY <1>1, <5>1, Level
      <4>2. l \in Link /\ y \in Node
        BY <1>1, Kids, Members1
      <4>3. d = a + m
        <5>1. CASE l = node
          <6>1. m = 1
            BY <3>3, <5>1
          <6>2. a = h[node] /\ d = h[node] + 1
            BY <3>1, <3>2, <5>1 DEF Height
          <6> QED BY <6>1, <6>2
        <5>2. CASE l # node
          <6>1. m = 0
            BY <3>3, <5>2
          <6>2. d = a
            <7> HIDE DEF l
            <7> QED BY <3>2, <4>2, <5>2, LinkFacts DEF Height, a, d
          <6> HIDE DEF a, m, d
          <6> QED BY <4>1, <6>1, <6>2
        <5> QED BY <5>1, <5>2
      <4>4. /\ y = node => k[y] = h[y] + 1 /\ b = 0 /\ c = 1
            /\ y # node => k[y] = h[y] /\ b = c /\ b \in {0, 1}
        BY <2>1, <3>2, <4>2 DEF Black, X
      <4>5. Missing({}, y, r) = 0
        BY DEF Missing
      <4>6. k[y] = d + 0 + c
        <5> HIDE DEF a, m, b, c, d
        <5> QED BY <4>1, <4>3, <4>4
      <4> QED BY <4>5, <4>6
    <3>5. Balanced(w, sub, k, {})
      BY <1>3, <3>2, <3>4 DEF Balanced, LevelOK
    <3> QED BY <3>5
  <2>2. CASE node \notin tree.red
    <3>1. node = tree.root /\ X = tree.red
      BY <1>0, <2>2 DEF BlackNode, IsRed, X
    <3>2. up = NULL
      <4> SUFFICES ASSUME up # NULL PROVE FALSE
        OBVIOUS
      <4>1. up \in M /\ tree.kid[up][s] = node /\ s \in Side
        BY <1>1, SideOfIs DEF LoopOK
      <4> HIDE DEF s
      <4>2. tree.root \in Node /\ tree.parent[tree.root] = NULL /\ tree.root # NULL
        BY <1>1, <4>1, Members1, LinkFacts DEF Shape, RootOK
      <4> QED BY <1>1, <3>1, <4>1, <4>2, Kids
    <3>3. gap = {}
      BY <3>2 DEF Gap
    <3>4. Balanced(w, sub, h, {})
      <4> HIDE DEF gap
      <4>1. Balanced(tree, sub, h, {}) /\ w.red = tree.red
        BY <1>1, <1>3, <3>1, <3>3
      <4> QED BY <1>3, <4>1 DEF Balanced, LevelOK
    <3> QED BY <3>4
  <2> QED BY <2>1, <2>2
<1>6. PICK k : Balanced(w, sub, k, {})
  BY <1>5
<1>7. \A n \in Mem(w, sub) : n \in w.red => n # w.root /\ w.parent[n] \notin w.red
  BY <1>3, <1>4
<1>8. StateOK(w, "idle", NULL, NULL, sub, k)
  BY <1>3, <1>6, <1>7, Idle DEF Link
<1> QED BY <1>0, <1>3, <1>8 DEF Repaired, Becomes

-----------------------------------------------------------------------------
(* An insertion.                                                           *)

(* w is t with n linked as a red child of p.                               *)
Linked(t, w, n, p) ==
  /\ w \in Tree
  /\ w.root = IF p = NULL THEN n ELSE t.root
  /\ w.red = t.red \cup {n}
  /\ w.kid[n] = NoKids
  /\ \A x \in Node, r \in Side : x # n =>
       w.kid[x][r] = IF x = p /\ r = Toward(p, n) THEN n ELSE t.kid[x][r]
  /\ \A x \in Node : x # n /\ x # p => w.kid[x] = t.kid[x]
  /\ \A x \in Node : w.parent[x] = IF x = n THEN p ELSE t.parent[x]

LEMMA LinkNodeFields ==
  ASSUME NEW t \in Tree, NEW n \in Node, NEW p \in Link, p # n
  PROVE  Linked(t, LinkNode(t, n, p), n, p)
<1> DEFINE K == [t.kid EXCEPT ![n] = NoKids]
           P == [t.parent EXCEPT ![n] = p]
           X == t.red \cup {n}
           q == Toward(p, n)
           L == [K EXCEPT ![p][q] = n]
           u == [t EXCEPT !.kid[n] = NoKids, !.parent[n] = p, !.red = @ \cup {n}]
           w == LinkNode(t, n, p)
<1>1. /\ t.root \in Link /\ n \in Link /\ t.kid \in [Node -> [Side -> Link]]
      /\ t.parent \in [Node -> Link] /\ t.red \subseteq Node
      /\ t = [root |-> t.root, kid |-> t.kid, parent |-> t.parent, red |-> t.red]
      /\ NoKids \in [Side -> Link]
  BY TreeFields DEF Link, NoKids
<1>2. /\ K \in [Node -> [Side -> Link]] /\ K[n] = NoKids
      /\ \A x \in Node : x # n => K[x] = t.kid[x]
  BY <1>1
<1>3. P \in [Node -> Link] /\ \A x \in Node : P[x] = IF x = n THEN p ELSE t.parent[x]
  BY <1>1
<1>4. X \subseteq Node
  BY <1>1
<1>5. u = [t EXCEPT !.kid = K, !.parent = P, !.red = X]
  BY <1>1
<1> HIDE DEF K, P, X, u
<1>6. /\ u \in Tree /\ u.root = t.root /\ u.kid = K /\ u.parent = P /\ u.red = X
  BY <1>1, <1>2, <1>3, <1>4, <1>5 DEF Tree
<1>7. CASE p = NULL
  <2>1. w = [u EXCEPT !.root = n]
    BY <1>7 DEF LinkNode, u
  <2> HIDE DEF w
  <2>2. /\ w \in Tree /\ w.root = n /\ w.kid = K /\ w.parent = P /\ w.red = X
    BY <1>1, <1>6, <2>1 DEF Tree
  <2>3. \A x \in Node : x # p
    BY <1>7, LinkFacts
  <2>4. Linked(t, w, n, p)
    BY <1>2, <1>3, <1>7, <2>2, <2>3 DEF Linked, X
  <2> QED BY <2>4 DEF w
<1>8. CASE p # NULL
  <2>1. p \in Node /\ q \in Side
    BY <1>8, LinkFacts, TowardIs
  <2>2. w = [u EXCEPT !.kid[p][q] = n]
    BY <1>8 DEF LinkNode, u
  <2> HIDE DEF w, q
  <2>3. /\ L \in [Node -> [Side -> Link]]
        /\ \A x \in Node, r \in Side : L[x][r] = IF x = p /\ r = q THEN n ELSE K[x][r]
        /\ \A x \in Node : x # p => L[x] = K[x]
    BY <1>1, <1>2, <2>1
  <2>4. w = [u EXCEPT !.kid = L]
    BY <1>6, <2>2
  <2> HIDE DEF L
  <2>5. /\ w \in Tree /\ w.root = t.root /\ w.kid = L /\ w.parent = P /\ w.red = X
    BY <1>6, <2>3, <2>4 DEF Tree
  <2>6. Linked(t, w, n, p)
    <3>1. w.kid[n] = NoKids
      BY <1>2, <2>3, <2>5
    <3>2. \A x \in Node, r \in Side : x # n =>
            w.kid[x][r] = IF x = p /\ r = Toward(p, n) THEN n ELSE t.kid[x][r]
      BY <1>2, <2>3, <2>5 DEF q
    <3>3. \A x \in Node : x # n /\ x # p => w.kid[x] = t.kid[x]
      BY <1>2, <2>3, <2>5
    <3>4. \A x \in Node : w.parent[x] = IF x = n THEN p ELSE t.parent[x]
      BY <1>3, <2>5
    <3> QED BY <1>8, <2>5, <3>1, <3>2, <3>3, <3>4 DEF Linked, X
  <2> QED BY <2>6 DEF w
<1> QED BY <1>7, <1>8

LEMMA IdleState ==
  ASSUME NEW sub, NEW h, StateOK(tree, pc, node, up, sub, h), pc = "idle"
  PROVE  /\ Shape(tree, sub) /\ Balanced(tree, sub, h, {}) /\ h \in [Node -> Nat]
         /\ \A n \in Mem(tree, sub) : n \in tree.red =>
              n # tree.root /\ tree.parent[n] \notin tree.red
         /\ node \in Link /\ up \in Link
<1>1. Exempt(tree, pc, node) = {}
  BY DEF Exempt
<1> QED BY <1>1 DEF StateOK, Colours, LoopOK, Gap, Balanced

(* n becomes the child of p, on a side that suits its key.                 *)
GrownSub(t, sub, n, p) ==
  [x \in Node |-> IF x = n THEN {n}
                  ELSE IF x \in Mem(t, sub) /\ p \in sub[x] THEN sub[x] \cup {n}
                  ELSE sub[x]]

LEMMA LinkShape ==
  ASSUME NEW t, NEW sub, Shape(t, sub), NEW n \in Node, n \notin Mem(t, sub), NEW p \in Link,
         p = NULL => t.root = NULL,
         p # NULL => /\ p \in Mem(t, sub) /\ Ends(t, sub, n, t.root, p)
                     /\ Key[p] # Key[n],
         NEW w, Linked(t, w, n, p)
  PROVE  /\ Shape(w, GrownSub(t, sub, n, p))
         /\ Mem(w, GrownSub(t, sub, n, p)) = Mem(t, sub) \cup {n}
<1> DEFINE M == Mem(t, sub)
           v == GrownSub(t, sub, n, p)
           q == Toward(p, n)
<1>1. n # NULL /\ t \in Tree /\ sub \in [Node -> SUBSET Node]
  BY LinkFacts DEF Shape
<1>2. /\ v \in [Node -> SUBSET Node] /\ v[n] = {n}
      /\ \A x \in M : v[x] = IF p \in sub[x] THEN sub[x] \cup {n} ELSE sub[x]
  <2>1. M \subseteq Node
    BY Members1
  <2> QED BY <1>1, <2>1 DEF GrownSub
<1> HIDE DEF v
<1>3. \A c \in M \cup {NULL} :
        Sub(v, c) = IF p # NULL /\ p \in Sub(sub, c) THEN Sub(sub, c) \cup {n} ELSE Sub(sub, c)
  <2>1. NULL \notin M /\ \A c \in M : sub[c] \subseteq Node
    BY Members1, LinkFacts
  <2>2. \A c \in M : p \in sub[c] => p # NULL
    BY <2>1, LinkFacts
  <2> QED BY <1>2, <2>1, <2>2 DEF Sub
<1>4. /\ w \in Tree /\ w.root = (IF p = NULL THEN n ELSE t.root) /\ w.red = t.red \cup {n}
      /\ w.kid[n] = NoKids
      /\ \A x \in Node, r \in Side : x # n =>
           w.kid[x][r] = IF x = p /\ r = q THEN n ELSE t.kid[x][r]
      /\ \A x \in Node : x # n /\ x # p => w.kid[x] = t.kid[x]
      /\ \A x \in Node : w.parent[x] = IF x = n THEN p ELSE t.parent[x]
  BY DEF Linked
<1>5. p # NULL => /\ p \in M /\ p \in Node /\ t.root # NULL /\ t.root \in M /\ t.root \in Node
                  /\ M = sub[t.root]
                  /\ q \in Side /\ On(q, n, p) /\ t.kid[p][q] = NULL
                  /\ \A a \in M, s \in Side : p \in Sub(sub, t.kid[a][s]) => On(s, n, a)
  <2> SUFFICES ASSUME p # NULL
               PROVE  /\ p \in M /\ p \in Node /\ t.root # NULL /\ t.root \in M /\ t.root \in Node
                      /\ M = sub[t.root]
                      /\ q \in Side /\ On(q, n, p) /\ t.kid[p][q] = NULL
                      /\ \A a \in M, s \in Side : p \in Sub(sub, t.kid[a][s]) => On(s, n, a)
    OBVIOUS
  <2>1. p \in M /\ p \in Node /\ t.root # NULL /\ t.root \in M /\ t.root \in Node /\ M = sub[t.root]
    BY Members1, LinkFacts
  <2>2. q \in Side /\ On(q, n, p)
    BY <2>1, TowardIs
  <2>3. Ends(t, sub, n, t.root, p) /\ Key[p] # Key[n]
    OBVIOUS
  <2> HIDE DEF M
  <2> QED BY <2>1, <2>2, <2>3 DEF Ends
<1>6. p = NULL => M = {}
  BY DEF Mem, Sub
<1>7. Mem(w, v) = M \cup {n}
  <2>1. CASE p = NULL
    BY <1>1, <1>2, <1>4, <1>6, <2>1 DEF Mem, Sub
  <2>2. CASE p # NULL
    <3>1. v[t.root] = M \cup {n}
      BY <1>2, <1>5, <2>2
    <3> QED BY <1>4, <1>5, <2>2, <3>1 DEF Mem, Sub
  <2> QED BY <2>1, <2>2
<1>8. RootOK(w, v)
  <2>1. CASE p = NULL
    BY <1>2, <1>4, <2>1 DEF RootOK
  <2>2. CASE p # NULL
    <3>1. t.parent[t.root] = NULL /\ t.root # n
      BY <1>5, <2>2 DEF Shape, RootOK
    <3>2. t.root \in v[t.root]
      BY <1>2, <1>5, <2>2
    <3> QED BY <1>4, <1>5, <2>2, <3>1, <3>2 DEF RootOK
  <2> QED BY <2>1, <2>2
<1>9. ASSUME NEW x \in M, NEW r \in Side PROVE KidOK(w, v, x, r)
  <2> DEFINE c == t.kid[x][r]
             d == t.kid[x][Flip(r)]
             C == Sub(sub, c)
             D == Sub(sub, d)
  <2>1. /\ x \in Node /\ x # n /\ Flip(r) \in Side /\ Flip(r) # r
        /\ c \in M \cup {NULL} /\ d \in M \cup {NULL}
        /\ sub[x] = {x} \cup C \cup D /\ x \notin C /\ x \notin D
        /\ \A y \in C : y \notin D
        /\ c # NULL => t.parent[c] = x
        /\ \A y \in C : On(r, y, x)
    <3>1. x \in Node /\ x # n /\ Flip(r) \in Side /\ Flip(r) # r
      BY Members1, Sides
    <3>2. /\ c \in M \cup {NULL} /\ sub[x] = {x} \cup C \cup D /\ x \notin C
          /\ \A y \in D : y \notin C
          /\ c # NULL => t.parent[c] = x
          /\ \A y \in C : On(r, y, x)
      BY Kids
    <3>3. d \in M \cup {NULL} /\ x \notin D
      BY <3>1, Kids
    <3> QED BY <3>1, <3>2, <3>3
  <2>2. p # NULL
    BY <1>6
  <2>3. p \in C => On(r, n, x)
    BY <1>5, <2>2
  <2> HIDE DEF M, q
  <2>4. /\ w.kid[x][r] = IF x = p /\ r = q THEN n ELSE c
        /\ w.kid[x][Flip(r)] = IF x = p /\ Flip(r) = q THEN n ELSE d
    BY <1>4, <2>1
  <2> HIDE DEF c, d, C, D
  <2>5. /\ Sub(v, c) = IF p \in C THEN C \cup {n} ELSE C
        /\ Sub(v, d) = IF p \in D THEN D \cup {n} ELSE D
    BY <1>3, <2>1, <2>2 DEF C, D
  <2>6. v[x] = IF p \in sub[x] THEN sub[x] \cup {n} ELSE sub[x]
    BY <1>2
  <2>7. Sub(v, n) = {n} /\ n \in M \cup {n}
    BY <1>1, <1>2 DEF Sub
  <2>8. CASE x = p /\ r = q
    <3>1. c = NULL /\ C = {} /\ On(r, n, x) /\ w.parent[n] = x
      BY <1>4, <1>5, <2>2, <2>8 DEF c, C, Sub
    <3>2. w.kid[x][r] = n /\ w.kid[x][Flip(r)] = d
      BY <2>1, <2>4, <2>8
    <3>3. v[x] = {x} \cup {n} \cup Sub(v, d)
      BY <2>1, <2>5, <2>6, <2>8, <3>1
    <3> QED BY <1>7, <2>7, <3>1, <3>2, <3>3 DEF KidOK
  <2>9. CASE x = p /\ Flip(r) = q
    <3>1. d = NULL /\ D = {}
      BY <1>5, <2>2, <2>9 DEF d, D, Sub
    <3>2. w.kid[x][r] = c /\ w.kid[x][Flip(r)] = n
      BY <2>1, <2>4, <2>9
    <3>3. v[x] = {x} \cup Sub(v, c) \cup {n} /\ Sub(v, c) = C
      BY <2>1, <2>5, <2>6, <2>9, <3>1
    <3>4. c # NULL => c \in M \cup {n} /\ w.parent[c] = x
      <4>1. c # NULL => c \in M /\ c # n /\ c \in Node
        BY <2>1, Members1 DEF M
      <4> QED BY <1>4, <2>1, <4>1
    <3> QED BY <1>7, <2>1, <2>7, <3>2, <3>3, <3>4 DEF KidOK
  <2>10. CASE x # p
    <3>1. w.kid[x][r] = c /\ w.kid[x][Flip(r)] = d
      BY <2>4, <2>10
    <3>2. v[x] = {x} \cup Sub(v, c) \cup Sub(v, d)
      BY <2>1, <2>5, <2>6, <2>10
    <3>3. c # NULL => c \in M \cup {n} /\ w.parent[c] = x
      <4>1. c # NULL => c \in M /\ c # n /\ c \in Node
        BY <2>1, Members1 DEF M
      <4> QED BY <1>4, <2>1, <4>1
    <3>4. \A y \in Sub(v, c) : On(r, y, x)
      BY <2>1, <2>3, <2>5
    <3> QED BY <1>7, <3>1, <3>2, <3>3, <3>4 DEF KidOK
  <2>11. x = p => r = q \/ Flip(r) = q
    BY <1>5, <2>2, Sides
  <2> QED BY <2>8, <2>9, <2>10, <2>11
<1>10. ASSUME NEW r \in Side PROVE KidOK(w, v, n, r)
  <2>1. w.kid[n][r] = NULL /\ w.kid[n][Flip(r)] = NULL
    BY <1>4, Sides DEF NoKids
  <2> QED BY <1>2, <2>1 DEF KidOK, Sub
<1>11. ASSUME NEW x \in Node \ (M \cup {n}) PROVE OutOK(w, x)
  <2>1. OutOK(t, x)
    BY <1>11 DEF Shape
  <2>2. x # n /\ x # p
    BY <1>5, <1>11, LinkFacts
  <2> QED BY <1>4, <2>1, <2>2 DEF OutOK
<1>12. Shape(w, v)
  <2> HIDE DEF M
  <2> QED BY <1>2, <1>4, <1>7, <1>8, <1>9, <1>10, <1>11 DEF Shape
<1> QED BY <1>7, <1>12 DEF v

LEMMA InsertStep ==
  ASSUME NEW sub, NEW h, StateOK(tree, pc, node, up, sub, h), NEW n \in Node, Insert(n)
  PROVE  /\ Becomes(Mem(tree, sub) \cup {n}, tree', pc', node', up')
         /\ \A m \in Mem(tree, sub) : Key[m] # Key[n]
<1> DEFINE M == Mem(tree, sub)
           p == InsertPoint(tree, n)
           w == LinkNode(tree, n, p)
           v == GrownSub(tree, sub, n, p)
           k == [h EXCEPT ![n] = 0]
<1>0. /\ pc = "idle" /\ n \notin M /\ (p # NULL => Key[p] # Key[n])
      /\ tree' = w /\ pc' = "insert_color" /\ node' = n /\ up' = up
  <2>1. pc = "idle" /\ Shape(tree, sub)
    BY DEF Insert, StateOK
  <2>2. Members = M
    BY <2>1, MembersAre DEF Members
  <2> QED BY <2>1, <2>2 DEF Insert
<1>1. /\ Shape(tree, sub) /\ Balanced(tree, sub, h, {}) /\ h \in [Node -> Nat]
      /\ \A x \in M : x \in tree.red => x # tree.root /\ tree.parent[x] \notin tree.red
      /\ up \in Link
  BY <1>0, IdleState
<1>2. /\ p \in Link /\ p # n
      /\ p = NULL => tree.root = NULL
      /\ p # NULL => p \in M /\ Ends(tree, sub, n, tree.root, p)
  <2>1. CASE tree.root = NULL
    <3>1. p = NULL
      BY <2>1 DEF InsertPoint
    <3> QED BY <2>1, <3>1, LinkFacts DEF Link
  <2>2. CASE tree.root # NULL
    <3>1. Ends(tree, sub, n, tree.root, p)
      BY <1>1, <2>2, InsertPointIs
    <3>2. M = sub[tree.root]
      BY <2>2 DEF Mem, Sub
    <3> HIDE DEF p
    <3>3. p \in M
      BY <3>1, <3>2 DEF Ends
    <3>4. p \in Node
      BY <1>1, <3>3, Members1
    <3> QED BY <1>0, <3>1, <3>3, <3>4, LinkFacts DEF Link
  <2> QED BY <2>1, <2>2
<1>3. \A m \in M : Key[m] # Key[n]
  <2>1. CASE p = NULL
    <3>1. M = {}
      BY <1>2, <2>1 DEF Mem, Sub
    <3> QED BY <3>1
  <2>2. CASE p # NULL
    <3>1. Ends(tree, sub, n, tree.root, p) /\ Key[p] # Key[n] /\ p \in M
      BY <1>0, <1>2, <2>2
    <3>2. M = sub[tree.root]
      BY <1>1, <3>1, Members1
    <3> HIDE DEF p, M
    <3> QED BY <3>1, <3>2 DEF Ends
  <2> QED BY <2>1, <2>2
<1>4. Linked(tree, w, n, p)
  BY <1>1, <1>2, LinkNodeFields DEF Shape
<1> HIDE DEF w, p
<1>5. Shape(w, v) /\ Mem(w, v) = M \cup {n}
  BY <1>0, <1>1, <1>2, <1>4, LinkShape
<1> HIDE DEF v
<1>6. /\ k \in [Node -> Nat] /\ k[n] = 0
      /\ \A x \in Node : x # n => k[x] = h[x]
  BY <1>1
<1> HIDE DEF k
<1>7. /\ w.root = (IF p = NULL THEN n ELSE tree.root) /\ w.red = tree.red \cup {n}
      /\ w.kid[n] = NoKids
      /\ \A x \in Node, r \in Side : x # n =>
           w.kid[x][r] = IF x = p /\ r = Toward(p, n) THEN n ELSE tree.kid[x][r]
      /\ \A x \in Node : w.parent[x] = IF x = n THEN p ELSE tree.parent[x]
  BY <1>4 DEF Linked
<1>8. n # NULL /\ tree.red \subseteq M
  BY <1>1, LinkFacts, RedAreMembers
<1>9. ASSUME NEW x \in M \cup {n}, NEW r \in Side
      PROVE  k[x] = Height(k, w.kid[x][r]) + Missing({}, x, r) + Black(w.red, x)
  <2>0. Missing({}, x, r) = 0
    BY DEF Missing
  <2>1. CASE x = n
    <3>1. w.kid[n][r] = NULL
      BY <1>7 DEF NoKids
    <3>2. Height(k, NULL) = 0 /\ Black(w.red, n) = 0
      BY <1>7 DEF Height, Black
    <3> QED BY <1>6, <2>0, <2>1, <3>1, <3>2
  <2>2. CASE x # n
    <3> DEFINE l == tree.kid[x][r]
               a == Height(h, l)
               c == Black(w.red, x)
    <3>1. x \in M /\ x \in Node /\ l \in Link /\ (l # NULL => l \in M)
      BY <1>1, <2>2, Kids, Members1
    <3>2. /\ a \in Nat /\ h[x] \in Nat
          /\ x \in tree.red => h[x] = a
          /\ x \notin tree.red => h[x] = a + 1
      <4>1. a = Height(h, tree.kid[x][r])
        OBVIOUS
      <4> HIDE DEF a, l, c
      <4> QED BY <1>1, <3>1, <4>1, LevelNoGap
    <3>3. Height(k, w.kid[x][r]) = a
      <4>1. CASE x = p /\ r = Toward(p, n)
        <5>1. p # NULL
          BY <3>1, <4>1, LinkFacts
        <5>2. Ends(tree, sub, n, tree.root, p) /\ Key[p] # Key[n]
          BY <1>0, <1>2, <5>1 DEF p
        <5>3. l = NULL
          BY <4>1, <5>2 DEF Ends
        <5>4. w.kid[x][r] = n
          BY <1>7, <2>2, <3>1, <4>1
        <5> QED BY <1>6, <1>8, <5>3, <5>4 DEF Height
      <4>2. CASE ~(x = p /\ r = Toward(p, n))
        <5>1. w.kid[x][r] = l
          BY <1>7, <2>2, <3>1, <4>2
        <5>2. l # n
          BY <1>0, <1>8, <3>1
        <5> QED BY <1>6, <3>1, <5>1, <5>2, LinkFacts DEF Height
      <4> QED BY <4>1, <4>2
    <3>4. /\ x \in tree.red => c = 0
          /\ x \notin tree.red => c = 1
      BY <1>7, <2>2 DEF Black
    <3>5. h[x] = a + 0 + c
      <4> HIDE DEF a, c
      <4> QED BY <3>2, <3>4
    <3> QED BY <1>6, <2>0, <2>2, <3>1, <3>3, <3>5
  <2> QED BY <2>1, <2>2
<1>10. Balanced(w, v, k, {})
  BY <1>5, <1>6, <1>9 DEF Balanced, LevelOK
<1>11. Colours(w, v, Exempt(w, "insert_color", n))
  <2> SUFFICES ASSUME NEW x \in M, x \in tree.red, x # n
               PROVE  x # w.root /\ w.parent[x] \notin w.red
    <3>1. n \in Exempt(w, "insert_color", n)
      BY DEF Exempt
    <3> QED BY <1>5, <1>7, <1>8, <3>1 DEF Colours
  <2>1. x # tree.root /\ tree.parent[x] \notin tree.red /\ x \in Node
    BY <1>1, Members1
  <2>2. tree.parent[x] \in M
    BY <1>1, <2>1, ParentOfMember
  <2> QED BY <1>0, <1>7, <2>1, <2>2
<1>12. LoopOK(w, v, "insert_color", n, up) /\ Gap(w, "insert_color", n, up) = {}
  BY <1>1, <1>5, <1>7 DEF LoopOK, Gap, Link
<1>13. StateOK(w, "insert_color", n, up, v, k)
  BY <1>5, <1>10, <1>11, <1>12 DEF StateOK
<1> QED BY <1>0, <1>3, <1>5, <1>13 DEF Becomes

-----------------------------------------------------------------------------
(* The fields of the trees that an erasure and a replacement make.         *)

(* w is t without n, whose child c has taken its place.                    *)
Spliced(t, w, n, c) ==
  /\ w \in Tree
  /\ w.root = IF n = t.root THEN c ELSE t.root
  /\ w.red = t.red \ {n}
  /\ w.kid[n] = NoKids /\ w.parent[n] = NULL
  /\ \A x \in Node, r \in Side : x # n =>
       w.kid[x][r] = IF t.kid[x][r] = n THEN c ELSE t.kid[x][r]
  /\ \A x \in Node : x # n => w.parent[x] = IF x = c THEN t.parent[n] ELSE t.parent[x]

(* w is t with m, which was out of it, in the place of n.                  *)
Renamed(n, m, x) == IF x = n THEN m ELSE x

Substituted(t, w, n, m) ==
  /\ w \in Tree
  /\ w.root = Renamed(n, m, t.root)
  /\ w.red = {Renamed(n, m, x) : x \in t.red}
  /\ w.kid[n] = NoKids /\ w.parent[n] = NULL
  /\ w.parent[m] = t.parent[n]
  /\ \A r \in Side : w.kid[m][r] = t.kid[n][r]
  /\ \A x \in Node, r \in Side : x # n /\ x # m =>
       w.kid[x][r] = Renamed(n, m, t.kid[x][r])
  /\ \A x \in Node : x # n /\ x # m => w.parent[x] = Renamed(n, m, t.parent[x])

LEMMA ForgetFields ==
  ASSUME NEW t \in Tree, NEW n \in Node
  PROVE  /\ Forget(t, n) \in Tree
         /\ Forget(t, n).root = t.root
         /\ Forget(t, n).red = t.red \ {n}
         /\ Forget(t, n).kid[n] = NoKids
         /\ Forget(t, n).parent[n] = NULL
         /\ \A x \in Node : x # n => Forget(t, n).kid[x] = t.kid[x]
         /\ \A x \in Node : x # n => Forget(t, n).parent[x] = t.parent[x]
<1> DEFINE K == [t.kid EXCEPT ![n] = NoKids]
           P == [t.parent EXCEPT ![n] = NULL]
           X == t.red \ {n}
           w == Forget(t, n)
<1>1. /\ t.root \in Link /\ t.kid \in [Node -> [Side -> Link]]
      /\ t.parent \in [Node -> Link] /\ t.red \subseteq Node
      /\ t = [root |-> t.root, kid |-> t.kid, parent |-> t.parent, red |-> t.red]
      /\ NoKids \in [Side -> Link] /\ NULL \in Link
  BY TreeFields DEF Link, NoKids
<1>2. /\ K \in [Node -> [Side -> Link]] /\ K[n] = NoKids
      /\ \A x \in Node : x # n => K[x] = t.kid[x]
  BY <1>1
<1>3. /\ P \in [Node -> Link] /\ P[n] = NULL /\ \A x \in Node : x # n => P[x] = t.parent[x]
  BY <1>1
<1>4. X \subseteq Node
  BY <1>1
<1>5. w = [t EXCEPT !.kid = K, !.parent = P, !.red = X]
  BY <1>1 DEF Forget
<1> HIDE DEF K, P, X, w
<1>6. /\ w \in Tree /\ w.root = t.root /\ w.kid = K /\ w.parent = P /\ w.red = X
  BY <1>1, <1>2, <1>3, <1>4, <1>5 DEF Tree
<1> QED BY <1>2, <1>3, <1>6 DEF X, w

LEMMA SetKidFields ==
  ASSUME NEW t \in Tree, NEW p \in Node, NEW q \in Side, NEW m \in Link
  PROVE  /\ [t EXCEPT !.kid[p][q] = m] \in Tree
         /\ [t EXCEPT !.kid[p][q] = m].root = t.root
         /\ [t EXCEPT !.kid[p][q] = m].parent = t.parent
         /\ [t EXCEPT !.kid[p][q] = m].red = t.red
         /\ \A x \in Node, r \in Side : [t EXCEPT !.kid[p][q] = m].kid[x][r] =
              IF x = p /\ r = q THEN m ELSE t.kid[x][r]
<1> DEFINE k == [t.kid EXCEPT ![p][q] = m]
           w == [t EXCEPT !.kid[p][q] = m]
<1>1. t.kid \in [Node -> [Side -> Link]]
  BY TreeFields
<1>2. k \in [Node -> [Side -> Link]]
  BY <1>1
<1>3. \A x \in Node, r \in Side : k[x][r] = IF x = p /\ r = q THEN m ELSE t.kid[x][r]
  BY <1>1
<1>4. w = [t EXCEPT !.kid = k]
  OBVIOUS
<1> HIDE DEF k, w
<1>5. w \in Tree /\ w.root = t.root /\ w.parent = t.parent /\ w.red = t.red /\ w.kid = k
  BY <1>2, <1>4 DEF Tree
<1> QED BY <1>3, <1>5 DEF w

(* The link that leads to n.                                               *)
LEMMA LinkTo ==
  ASSUME NEW t, NEW sub, Shape(t, sub), NEW n \in Mem(t, sub), NEW p, p = t.parent[n]
  PROVE  /\ p \in Link /\ p # n
         /\ p = NULL <=> n = t.root
         /\ p # NULL => p \in Mem(t, sub) /\ p \in Node /\ SideOf(t, p, n) \in Side
         /\ \A x \in Node, r \in Side :
              t.kid[x][r] = n <=> p # NULL /\ x = p /\ r = SideOf(t, p, n)
<1>1. n \in Node /\ n # NULL /\ p \in Link /\ (p = NULL <=> n = t.root)
  BY Members1, ParentOfMember, LinkFacts
<1>2. \A x \in Node, r \in Side : t.kid[x][r] = n => x = p /\ x \in Mem(t, sub)
  BY ParentOfMember
<1>3. p # NULL => /\ p \in Mem(t, sub) /\ p \in Node
                  /\ SideOf(t, p, n) \in Side /\ t.kid[p][SideOf(t, p, n)] = n
  BY SideOfChild
<1>4. ASSUME NEW x \in Node, NEW r \in Side, t.kid[x][r] = n
      PROVE  p # NULL /\ x = p /\ r = SideOf(t, p, n)
  <2> DEFINE q == SideOf(t, p, n)
  <2>1. x = p /\ p # NULL /\ p \in Mem(t, sub)
    BY <1>2, <1>4, LinkFacts
  <2>2. t.kid[p][q] = n /\ q \in Side
    BY <1>3, <2>1
  <2> HIDE DEF q
  <2>3. r = q
    BY <1>1, <1>4, <2>1, <2>2, OneLink
  <2> QED BY <2>1, <2>3 DEF q
<1>5. p # n
  <2>1. p # NULL => \E r \in Side : t.kid[p][r] = n /\ p \in Mem(t, sub)
    BY <1>3
  <2> QED BY <1>1, <2>1, Kids
<1> QED BY <1>1, <1>3, <1>4, <1>5

LEMMA UnlinkTopFields ==
  ASSUME NEW t, NEW sub, Shape(t, sub), NEW n \in Mem(t, sub), NEW s \in Side,
         t.kid[n][s] = NULL, NEW c, c = t.kid[n][Flip(s)], NEW p, p = t.parent[n],
         NEW w, w = Forget(Relink(SetParent(t, c, p), p, n, c), n)
  PROVE  Spliced(t, w, n, c)
<1> DEFINE t1 == SetParent(t, c, p)
           t2 == Relink(t1, p, n, c)
           q == SideOf(t, p, n)
<1>1. n \in Node /\ n # NULL /\ t \in Tree /\ c \in Link /\ c # n
  BY Members1, Sides, Kids, LinkFacts DEF Shape
<1>2. /\ p \in Link /\ p # n
      /\ p = NULL <=> n = t.root
      /\ \A x \in Node, r \in Side : t.kid[x][r] = n <=> p # NULL /\ x = p /\ r = q
  BY LinkTo
<1>3. /\ t1 \in Tree /\ t1.root = t.root /\ t1.kid = t.kid /\ t1.red = t.red
      /\ \A x \in Node : t1.parent[x] = IF x = c THEN p ELSE t.parent[x]
  BY <1>1, <1>2, SetParentFields
<1>4. SideOf(t1, p, n) = q
  BY <1>3 DEF SideOf
<1>5. w = Forget(t2, n)
  OBVIOUS
<1> HIDE DEF t1
<1>6. /\ t2 \in Tree /\ t2.root = (IF p = NULL THEN c ELSE t1.root)
      /\ t2.parent = t1.parent /\ t2.red = t1.red
      /\ \A x \in Node, r \in Side : t2.kid[x][r] =
           IF x = p /\ r = SideOf(t1, p, n) THEN c ELSE t1.kid[x][r]
  BY <1>1, <1>2, <1>3, RelinkFields
<1> HIDE DEF t2, q
<1>7. /\ w \in Tree /\ w.root = t2.root /\ w.red = t2.red \ {n}
      /\ w.kid[n] = NoKids /\ w.parent[n] = NULL
      /\ \A x \in Node : x # n => w.kid[x] = t2.kid[x]
      /\ \A x \in Node : x # n => w.parent[x] = t2.parent[x]
  BY <1>1, <1>5, <1>6, ForgetFields
<1>8. ASSUME NEW x \in Node, NEW r \in Side, x # n
      PROVE  w.kid[x][r] = IF t.kid[x][r] = n THEN c ELSE t.kid[x][r]
  BY <1>2, <1>3, <1>4, <1>6, <1>7, <1>8, LinkFacts
<1>9. \A x \in Node : x # n => w.parent[x] = IF x = c THEN t.parent[n] ELSE t.parent[x]
  BY <1>3, <1>6, <1>7
<1> QED BY <1>2, <1>3, <1>6, <1>7, <1>8, <1>9 DEF Spliced

-----------------------------------------------------------------------------
(* A node with at most one child is taken out.                             *)

WithoutSub(sub, n) == [x \in Node |-> sub[x] \ {n}]

LEMMA SpliceShape ==
  ASSUME NEW t, NEW sub, Shape(t, sub), NEW n \in Mem(t, sub), NEW s \in Side,
         t.kid[n][s] = NULL, NEW c, t.kid[n][Flip(s)] = c, NEW w, Spliced(t, w, n, c)
  PROVE  Shape(w, WithoutSub(sub, n)) /\ Mem(w, WithoutSub(sub, n)) = Mem(t, sub) \ {n}
<1> DEFINE M == Mem(t, sub)
           v == WithoutSub(sub, n)
<1>1. /\ n \in Node /\ n # NULL /\ sub \in [Node -> SUBSET Node] /\ t \in Tree
      /\ n \in sub[n] /\ Flip(s) \in Side /\ M \subseteq Node /\ NULL \notin M
  BY Members1, LinkFacts, Sides DEF Shape
<1>2. /\ c \in M \cup {NULL} /\ c # n /\ (c # NULL => t.parent[c] = n)
      /\ n \notin Sub(sub, c) /\ sub[n] = {n} \cup Sub(sub, c)
  <2>1. /\ c \in Link /\ (c # NULL => c \in M /\ t.parent[c] = n) /\ n \notin Sub(sub, c)
    BY <1>1, Kids
  <2>2. sub[n] = {n} \cup Sub(sub, t.kid[n][s]) \cup Sub(sub, c)
    BY Kids
  <2>3. sub[n] = {n} \cup Sub(sub, c)
    BY <2>2 DEF Sub
  <2>4. c # n
    BY <1>1, <2>1, Kids
  <2> QED BY <2>1, <2>3, <2>4
<1>3. /\ v \in [Node -> SUBSET Node]
      /\ \A x \in Node : v[x] = sub[x] \ {n}
  BY <1>1 DEF WithoutSub
<1> HIDE DEF v
<1>4. \A d \in M \cup {NULL} : Sub(v, d) = Sub(sub, d) \ {n}
  BY <1>1, <1>3 DEF Sub
<1> HIDE DEF M
<1>5. \A d \in M \cup {NULL} :
        /\ (IF d = n THEN c ELSE d) \in (M \ {n}) \cup {NULL}
        /\ Sub(v, IF d = n THEN c ELSE d) = Sub(sub, d) \ {n}
  <2>1. Sub(v, c) = Sub(sub, n) \ {n}
    BY <1>1, <1>2, <1>4 DEF Sub
  <2> QED BY <1>2, <1>4, <2>1
<1>6. /\ w \in Tree /\ w.root = (IF n = t.root THEN c ELSE t.root) /\ w.red = t.red \ {n}
      /\ w.kid[n] = NoKids /\ w.parent[n] = NULL
      /\ \A x \in Node, r \in Side : x # n =>
           w.kid[x][r] = IF t.kid[x][r] = n THEN c ELSE t.kid[x][r]
      /\ \A x \in Node : x # n => w.parent[x] = IF x = c THEN t.parent[n] ELSE t.parent[x]
  BY DEF Spliced
<1>7. t.root \in M /\ t.root \in Node /\ t.root # NULL /\ t.parent[t.root] = NULL
      /\ M = Sub(sub, t.root)
  BY <1>1, Members1 DEF M, Shape, RootOK, Mem
<1>8. Mem(w, v) = M \ {n}
  <2>1. w.root = IF t.root = n THEN c ELSE t.root
    BY <1>6
  <2>2. Sub(v, w.root) = Sub(sub, t.root) \ {n}
    BY <1>5, <1>7, <2>1
  <2> QED BY <1>7, <2>2 DEF Mem
<1>9. RootOK(w, v)
  <2> SUFFICES ASSUME w.root # NULL
               PROVE  w.root \in v[w.root] /\ w.parent[w.root] = NULL
    BY DEF RootOK
  <2>1. w.root \in M /\ w.root \in Node /\ w.root # n
    BY <1>1, <1>2, <1>6, <1>7
  <2>2. w.root \in v[w.root]
    BY <1>3, <2>1, Members1 DEF M
  <2>3. w.parent[w.root] = NULL
    <3>1. n = t.root => w.root = c /\ t.parent[n] = NULL
      BY <1>6, <1>7
    <3>2. n # t.root => w.root = t.root /\ w.root # c
      BY <1>1, <1>2, <1>6, <1>7
    <3> QED BY <1>6, <1>7, <2>1, <3>1, <3>2
  <2> QED BY <2>2, <2>3
<1>10. ASSUME NEW x \in M \ {n}, NEW r \in Side PROVE KidOK(w, v, x, r)
  <2> DEFINE f == Flip(r)
             d == t.kid[x][r]
             o == t.kid[x][f]
             e == IF d = n THEN c ELSE d
             i == IF o = n THEN c ELSE o
  <2>1. /\ x \in Node /\ x # n /\ x \in M /\ f \in Side
        /\ d \in M \cup {NULL} /\ (d # NULL => t.parent[d] = x)
        /\ sub[x] = {x} \cup Sub(sub, d) \cup Sub(sub, o)
        /\ \A y \in Sub(sub, d) : On(r, y, x)
    <3>1. x \in Node /\ x # n /\ x \in M /\ f \in Side
      BY <1>1, Sides
    <3>2. /\ d \in M \cup {NULL} /\ (d # NULL => t.parent[d] = x)
          /\ sub[x] = {x} \cup Sub(sub, d) \cup Sub(sub, o)
          /\ \A y \in Sub(sub, d) : On(r, y, x)
      BY <3>1, Kids DEF M
    <3> QED BY <3>1, <3>2
  <2>2. o \in M \cup {NULL}
    BY <2>1, Kids DEF M
  <2>3. w.kid[x][r] = e /\ w.kid[x][f] = i
    BY <1>6, <2>1
  <2>4. /\ Sub(v, e) = Sub(sub, d) \ {n} /\ Sub(v, i) = Sub(sub, o) \ {n}
        /\ e \in (M \ {n}) \cup {NULL}
    BY <1>5, <2>1, <2>2
  <2>5. e # NULL => w.parent[e] = x
    <3>1. CASE d = n
      <4>1. t.parent[n] = x
        BY <1>1, <2>1, <3>1
      <4> QED BY <1>1, <1>2, <1>6, <3>1, <4>1
    <3>2. CASE d # n
      <4>1. d # NULL => d # c
        BY <1>2, <2>1
      <4> QED BY <1>1, <1>6, <2>1, <3>2, <4>1
    <3> QED BY <3>1, <3>2
  <2>6. v[x] = sub[x] \ {n}
    BY <1>3, <2>1
  <2> HIDE DEF d, o, e, i
  <2>7. v[x] = {x} \cup Sub(v, e) \cup Sub(v, i)
    BY <2>1, <2>4, <2>6
  <2>8. \A y \in Sub(v, e) : On(r, y, x)
    BY <2>1, <2>4
  <2> QED BY <1>8, <2>3, <2>4, <2>5, <2>7, <2>8 DEF KidOK, f
<1>11. ASSUME NEW x \in Node, x \notin M \ {n} PROVE OutOK(w, x)
  <2>1. CASE x = n
    BY <1>6, <2>1 DEF OutOK
  <2>2. CASE x # n
    <3>1. t.kid[x] = NoKids /\ t.parent[x] = NULL /\ x \notin t.red
      BY <1>11, <2>2 DEF M, Shape, OutOK
    <3>2. x # c
      BY <1>2, <1>11, <2>2, LinkFacts
    <3>3. w.kid[x] \in [Side -> Link]
      BY <1>6, TreeFields
    <3>4. \A r \in Side : w.kid[x][r] = NULL
      BY <1>1, <1>6, <2>2, <3>1 DEF NoKids
    <3>5. w.kid[x] = NoKids
      BY <3>3, <3>4 DEF NoKids
    <3> QED BY <1>6, <2>2, <3>1, <3>2, <3>5 DEF OutOK
  <2> QED BY <2>1, <2>2
<1>12. Shape(w, v)
  BY <1>3, <1>6, <1>8, <1>9, <1>10, <1>11 DEF Shape
<1> QED BY <1>8, <1>12 DEF v, M

(* The levels: where n was, a black node is missing if n was black.        *)
LEMMA SpliceLevels ==
  ASSUME NEW t, NEW sub, Shape(t, sub), NEW n \in Mem(t, sub), NEW s \in Side,
         t.kid[n][s] = NULL, NEW c, t.kid[n][Flip(s)] = c, NEW w, Spliced(t, w, n, c),
         NEW h, Balanced(t, sub, h, {}), NEW gap,
         \A x \in Mem(t, sub), r \in Side :
           Missing(gap, x, r) = IF t.kid[x][r] = n /\ n \notin t.red THEN 1 ELSE 0
  PROVE  Balanced(w, WithoutSub(sub, n), h, gap)
<1> DEFINE M == Mem(t, sub)
           v == WithoutSub(sub, n)
<1>1. Mem(w, v) = M \ {n}
  BY SpliceShape
<1>2. h \in [Node -> Nat] /\ n \in Node /\ n # NULL /\ Flip(s) \in Side
  BY Members1, LinkFacts, Sides DEF Balanced
<1> DEFINE hc == Height(h, c)
<1>3. /\ hc \in Nat /\ h[n] \in Nat
      /\ n \in t.red => h[n] = hc
      /\ n \notin t.red => h[n] = hc + 1
  <2>1. hc = Height(h, t.kid[n][Flip(s)])
    OBVIOUS
  <2> HIDE DEF hc
  <2> QED BY <1>2, <2>1, LevelNoGap
<1>4. /\ w.red = t.red \ {n}
      /\ \A x \in Node, r \in Side : x # n =>
           w.kid[x][r] = IF t.kid[x][r] = n THEN c ELSE t.kid[x][r]
  BY DEF Spliced
<1>5. ASSUME NEW x \in M \ {n}, NEW r \in Side
      PROVE  h[x] = Height(h, w.kid[x][r]) + Missing(gap, x, r) + Black(w.red, x)
  <2> DEFINE l == t.kid[x][r]
             a == Height(h, l)
             b == Black(w.red, x)
             d == Height(h, w.kid[x][r])
  <2>1. x \in Node /\ x # n /\ x \in M
    BY Members1
  <2>2. /\ a \in Nat /\ h[x] \in Nat
        /\ x \in t.red => h[x] = a
        /\ x \notin t.red => h[x] = a + 1
    <3>1. a = Height(h, t.kid[x][r])
      OBVIOUS
    <3> HIDE DEF a, b, d, l
    <3> QED BY <2>1, <3>1, LevelNoGap
  <2>3. (x \in t.red => b = 0) /\ (x \notin t.red => b = 1)
    BY <1>4, <2>1 DEF Black
  <2>4. CASE l = n
    <3>1. d = hc /\ a = h[n]
      BY <1>2, <1>4, <2>1, <2>4 DEF Height
    <3> DEFINE m == Missing(gap, x, r)
    <3>2. (n \in t.red => m = 0) /\ (n \notin t.red => m = 1)
      BY <2>4
    <3>3. h[x] = d + m + b
      <4> HIDE DEF a, b, d, m, hc
      <4> QED BY <1>3, <2>2, <2>3, <3>1, <3>2
    <3> QED BY <3>3
  <2>5. CASE l # n
    <3>1. d = a /\ Missing(gap, x, r) = 0
      BY <1>4, <2>1, <2>5
    <3>2. h[x] = a + 0 + b
      <4> HIDE DEF a, b
      <4> QED BY <2>2, <2>3
    <3> QED BY <3>1, <3>2
  <2> QED BY <2>4, <2>5
<1> HIDE DEF v, M
<1>6. Balanced(w, v, h, gap)
  BY <1>1, <1>2, <1>5 DEF Balanced, LevelOK
<1> QED BY <1>6 DEF v

(* Who has a red parent afterwards.                                        *)
LEMMA SpliceColours ==
  ASSUME NEW t, NEW sub, Shape(t, sub), NEW n \in Mem(t, sub), NEW s \in Side,
         t.kid[n][s] = NULL, NEW c, t.kid[n][Flip(s)] = c, NEW w, Spliced(t, w, n, c),
         \A x \in Mem(t, sub) : x \in t.red => x # t.root /\ t.parent[x] \notin t.red,
         NEW x \in Mem(t, sub) \ {n}, x \in w.red, x # c \/ n \in t.red
  PROVE  x # w.root /\ w.parent[x] \notin w.red
<1>1. /\ w.red = t.red \ {n} /\ w.root = (IF n = t.root THEN c ELSE t.root)
      /\ \A y \in Node : y # n => w.parent[y] = IF y = c THEN t.parent[n] ELSE t.parent[y]
  BY DEF Spliced
<1>2. x \in Node /\ x # n /\ x \in t.red /\ x # NULL
  BY <1>1, Members1, LinkFacts
<1>3. c # NULL => t.parent[c] = n
  BY Sides, Kids
<1>4. x # t.root /\ t.parent[x] \notin t.red
  BY <1>2
<1>5. x # c
  <2> SUFFICES ASSUME x = c PROVE FALSE
    OBVIOUS
  <2>1. n \in t.red /\ t.parent[c] = n
    BY <1>2, <1>3
  <2> QED BY <1>4, <2>1
<1> QED BY <1>1, <1>2, <1>4, <1>5

(* A red node leaves nothing to repair.                                    *)
LEMMA SpliceRed ==
  ASSUME NEW t, NEW sub, Shape(t, sub), NEW n \in Mem(t, sub), NEW s \in Side,
         t.kid[n][s] = NULL, NEW c, t.kid[n][Flip(s)] = c, NEW w, Spliced(t, w, n, c),
         NEW h, Balanced(t, sub, h, {}),
         \A x \in Mem(t, sub) : x \in t.red => x # t.root /\ t.parent[x] \notin t.red,
         n \in t.red, NEW u \in Link, NEW y \in Link
  PROVE  StateOK(w, "idle", y, u, WithoutSub(sub, n), h)
<1> DEFINE v == WithoutSub(sub, n)
<1>1. Shape(w, v) /\ Mem(w, v) = Mem(t, sub) \ {n}
  BY SpliceShape
<1>2. \A x \in Mem(t, sub), r \in Side :
        Missing({}, x, r) = IF t.kid[x][r] = n /\ n \notin t.red THEN 1 ELSE 0
  BY DEF Missing
<1>3. Balanced(w, v, h, {})
  BY <1>2, SpliceLevels
<1>4. \A x \in Mem(t, sub) \ {n} : x \in w.red => x # w.root /\ w.parent[x] \notin w.red
  BY SpliceColours
<1> HIDE DEF v
<1>5. StateOK(w, "idle", y, u, v, h)
  BY <1>1, <1>3, <1>4, Idle
<1> QED BY <1>5 DEF v

(* The link from which n has gone leads to its child, even if that is      *)
(* NULL: the other link of a black node's parent is not NULL.              *)
LEMMA SpliceSide ==
  ASSUME NEW t, NEW sub, Shape(t, sub), NEW n \in Mem(t, sub), NEW s \in Side,
         NEW c, t.kid[n][Flip(s)] = c, NEW w, Spliced(t, w, n, c),
         NEW h, Balanced(t, sub, h, {}), n \notin t.red, t.parent[n] # NULL
  PROVE  /\ SideOf(w, t.parent[n], c) = SideOf(t, t.parent[n], n)
         /\ w.kid[t.parent[n]][SideOf(t, t.parent[n], n)] = c
<1> DEFINE p == t.parent[n]
           q == SideOf(t, p, n)
           l == t.kid[p]["left"]
<1>1. /\ p \in Mem(t, sub) /\ p \in Node /\ p # n /\ q \in Side
      /\ \A x \in Node, r \in Side : t.kid[x][r] = n <=> x = p /\ r = q
  BY LinkTo
<1>2. \A x \in Node, r \in Side : x # n =>
        w.kid[x][r] = IF t.kid[x][r] = n THEN c ELSE t.kid[x][r]
  BY DEF Spliced
<1>3. w.kid[p][q] = c
  BY <1>1, <1>2
<1>4. CASE q = "left"
  <2>1. SideOf(w, p, c) = "left"
    BY <1>3, <1>4 DEF SideOf
  <2> QED BY <1>3, <1>4, <2>1
<1>5. CASE q = "right"
  <2>1. "left" \in Side /\ "right" \in Side
    BY DEF Side
  <2>2. w.kid[p]["left"] = l
    BY <1>1, <1>2, <1>5, <2>1
  <2>3. l # c
    <3>1. CASE c # NULL
      <4>1. t.parent[c] = n
        BY <3>1, Sides, Kids
      <4>2. l # NULL => t.parent[l] = p
        BY <1>1, <2>1, Kids
      <4> QED BY <1>1, <3>1, <4>1, <4>2
    <3>2. CASE c = NULL
      <4> DEFINE a == Height(h, l)
                 b == Height(h, n)
                 d == Height(h, t.kid[n][s])
      <4>1. a = Height(h, t.kid[p]["left"]) /\ b = Height(h, t.kid[p]["right"])
            /\ d = Height(h, t.kid[n][s])
        BY <1>1, <1>5
      <4>2. b = h[n]
        <5>1. n # NULL
          BY Members1, LinkFacts
        <5> QED BY <5>1 DEF Height
      <4>3. l = NULL => a = 0
        BY DEF Height
      <4> HIDE DEF a, b, d, p, q, l
      <4>4. /\ a \in Nat /\ h[p] \in Nat
            /\ p \in t.red => h[p] = a
            /\ p \notin t.red => h[p] = a + 1
        BY <1>1, <2>1, <4>1, LevelNoGap
      <4>5. /\ b \in Nat
            /\ p \in t.red => h[p] = b
            /\ p \notin t.red => h[p] = b + 1
        BY <1>1, <2>1, <4>1, LevelNoGap
      <4>6. d \in Nat /\ h[n] = d + 1
        BY <4>1, LevelNoGap
      <4>7. a # 0
        BY <4>2, <4>4, <4>5, <4>6
      <4>8. l # NULL
        BY <4>3, <4>7
      <4> QED BY <3>2, <4>8
    <3> QED BY <3>1, <3>2
  <2>4. SideOf(w, p, c) = "right"
    BY <2>2, <2>3 DEF SideOf
  <2> QED BY <1>3, <1>5, <2>4
<1> QED BY <1>1, <1>4, <1>5 DEF Side

(* A black one leaves its child, and the link to it, to __rb_erase_color.  *)
LEMMA SpliceBlack ==
  ASSUME NEW t, NEW sub, Shape(t, sub), NEW n \in Mem(t, sub), NEW s \in Side,
         t.kid[n][s] = NULL, NEW c, t.kid[n][Flip(s)] = c, NEW w, Spliced(t, w, n, c),
         NEW h, Balanced(t, sub, h, {}),
         \A x \in Mem(t, sub) : x \in t.red => x # t.root /\ t.parent[x] \notin t.red,
         n \notin t.red, NEW p, t.parent[n] = p
  PROVE  StateOK(w, "erase_color", c, p, WithoutSub(sub, n), h)
<1> DEFINE v == WithoutSub(sub, n)
           q == SideOf(t, p, n)
           gap == Gap(w, "erase_color", c, p)
           M == Mem(t, sub)
<1>1. Shape(w, v) /\ Mem(w, v) = M \ {n}
  BY SpliceShape
<1>2. /\ p \in Link /\ p # n
      /\ p = NULL <=> n = t.root
      /\ p # NULL => p \in M /\ p \in Node /\ q \in Side
      /\ \A x \in Node, r \in Side : t.kid[x][r] = n <=> p # NULL /\ x = p /\ r = q
  BY LinkTo
<1>3. p # NULL => SideOf(w, p, c) = q /\ w.kid[p][q] = c
  BY SpliceSide
<1>4. c \in Link /\ (c # NULL => c \in M \ {n})
  <2>1. Flip(s) \in Side
    BY Sides
  <2>2. n \notin Sub(sub, c) /\ (c # NULL => Sub(sub, c) = sub[c] /\ c \in M) /\ c \in Link
    BY <2>1, Kids
  <2>3. c # NULL => c \in sub[c]
    BY <2>2, Members1
  <2> QED BY <2>2, <2>3
<1>5. gap = IF p = NULL THEN {} ELSE {<<p, q>>}
  BY <1>3 DEF Gap
<1> HIDE DEF v, q, M, gap
<1>6. ASSUME NEW x \in Mem(t, sub), NEW r \in Side
      PROVE  Missing(gap, x, r) = IF t.kid[x][r] = n /\ n \notin t.red THEN 1 ELSE 0
  <2>1. x \in Node
    BY Members1
  <2>2. <<x, r>> \in gap <=> p # NULL /\ x = p /\ r = q
    BY <1>5
  <2> QED BY <1>2, <2>1, <2>2 DEF Missing
<1>7. Balanced(w, v, h, gap)
  BY <1>6, SpliceLevels DEF v
<1>8. Colours(w, v, Exempt(w, "erase_color", c))
  <2> SUFFICES ASSUME NEW x \in M \ {n}, x \in w.red, x # c
               PROVE  x # w.root /\ w.parent[x] \notin w.red
    <3>1. c \in Node => c \in Exempt(w, "erase_color", c)
      BY DEF Exempt
    <3>2. \A x \in M \ {n} : x \in Node
      BY Members1 DEF M
    <3> QED BY <1>1, <3>1, <3>2 DEF Colours
  <2> QED BY SpliceColours DEF M
<1>9. LoopOK(w, v, "erase_color", c, p)
  <2>1. p = NULL => c = w.root
    BY <1>2 DEF Spliced
  <2>2. p # NULL => p \in M \ {n}
    BY <1>2
  <2> QED BY <1>1, <1>2, <1>3, <1>4, <2>1, <2>2 DEF LoopOK
<1>10. StateOK(w, "erase_color", c, p, v, h)
  BY <1>1, <1>7, <1>8, <1>9 DEF StateOK, gap
<1> QED BY <1>10 DEF v

-----------------------------------------------------------------------------
(* A node takes the place of another, between the same keys.               *)

RenamesWell(M, n, m) ==
  /\ Renamed(n, m, NULL) = NULL
  /\ \A z \in M : Renamed(n, m, z) \in Node /\ Renamed(n, m, z) # NULL /\ Renamed(n, m, z) # n
  /\ \A z \in Link : Renamed(n, m, z) \in Link
  /\ \A a, b \in M \cup {NULL} : Renamed(n, m, a) = Renamed(n, m, b) => a = b
  /\ {Renamed(n, m, z) : z \in M} = (M \ {n}) \cup {m}
  /\ \A z \in M : z # n => Renamed(n, m, z) = z
  /\ Renamed(n, m, n) = m

LEMMA RenamedFacts ==
  ASSUME NEW M, M \subseteq Node, NEW n \in M, NEW m \in Node, m \notin M
  PROVE  RenamesWell(M, n, m)
<1>1. NULL \notin Node
  BY LinkFacts
<1>2. ASSUME NEW z PROVE z \in {Renamed(n, m, a) : a \in M} <=> z \in (M \ {n}) \cup {m}
  BY DEF Renamed
<1>3. {Renamed(n, m, z) : z \in M} = (M \ {n}) \cup {m}
  BY <1>2
<1> QED BY <1>1, <1>3 DEF RenamesWell, Renamed, Link

RenamedSub(sub, n, m) ==
  [z \in Node |-> {Renamed(n, m, a) : a \in IF z = m THEN sub[n] ELSE sub[z]}]

(* The new fields are the old ones, renamed.                               *)
Carried(t, w, sub, v, n, m) ==
  /\ w \in Tree
  /\ w.root = Renamed(n, m, t.root)
  /\ v \in [Node -> SUBSET Node]
  /\ \A z \in Mem(t, sub) : v[Renamed(n, m, z)] = {Renamed(n, m, a) : a \in sub[z]}
  /\ \A z \in Mem(t, sub) \cup {NULL} :
       Sub(v, Renamed(n, m, z)) = {Renamed(n, m, a) : a \in Sub(sub, z)}
  /\ \A z \in Mem(t, sub), r \in Side :
       w.kid[Renamed(n, m, z)][r] = Renamed(n, m, t.kid[z][r])
  /\ \A z \in Mem(t, sub) : w.parent[Renamed(n, m, z)] = Renamed(n, m, t.parent[z])
  /\ \A z \in Mem(t, sub) \cup {NULL} : Renamed(n, m, z) \in w.red <=> z \in t.red
  /\ Mem(w, v) = {Renamed(n, m, z) : z \in Mem(t, sub)}

LEMMA CarriedIs ==
  ASSUME NEW t, NEW sub, Shape(t, sub), NEW n \in Mem(t, sub),
         NEW m \in Node, m \notin Mem(t, sub), NEW w, Substituted(t, w, n, m)
  PROVE  Carried(t, w, sub, RenamedSub(sub, n, m), n, m)
<1> DEFINE M == Mem(t, sub)
           v == RenamedSub(sub, n, m)
           R(z) == Renamed(n, m, z)
<1>1. /\ M \subseteq Node /\ n \in M /\ t \in Tree /\ sub \in [Node -> SUBSET Node]
      /\ \A z \in M : sub[z] \subseteq M
  <2>1. \A z \in M : sub[z] \subseteq M
    BY SubTransitive
  <2> QED BY <2>1, Members1 DEF Shape
<1>2. /\ R(NULL) = NULL
      /\ \A z \in M : R(z) \in Node /\ R(z) # NULL /\ R(z) # n
      /\ \A z \in Link : R(z) \in Link
      /\ \A a, b \in M \cup {NULL} : R(a) = R(b) => a = b
      /\ \A z \in M : z # n => R(z) = z
      /\ R(n) = m
  <2>1. n \in M /\ m \notin M
    BY DEF M
  <2>2. RenamesWell(M, n, m)
    <3> HIDE DEF M
    <3> QED BY <1>1, <2>1, RenamedFacts
  <2> HIDE DEF M
  <2> QED BY <2>2, Zenon DEF RenamesWell
<1>3. /\ w \in Tree
      /\ w.root = R(t.root)
      /\ w.red = {R(z) : z \in t.red}
      /\ w.parent[m] = t.parent[n]
      /\ \A r \in Side : w.kid[m][r] = t.kid[n][r]
      /\ \A x \in Node, r \in Side : x # n /\ x # m => w.kid[x][r] = R(t.kid[x][r])
      /\ \A x \in Node : x # n /\ x # m => w.parent[x] = R(t.parent[x])
  BY DEF Substituted
<1>4. t.red \subseteq M /\ NULL \notin M /\ m \notin M
  BY RedAreMembers, Members1, LinkFacts
<1>5. t.parent[n] # n /\ \A r \in Side : t.kid[n][r] # n
  <2>1. \A r \in Side : t.kid[n][r] # n
    BY <1>4, Kids
  <2>2. t.parent[n] # n
    BY LinkTo
  <2> QED BY <2>1, <2>2
<1>6. R(t.parent[n]) = t.parent[n] /\ \A r \in Side : R(t.kid[n][r]) = t.kid[n][r]
  BY <1>5 DEF Renamed
<1>7. v \in [Node -> SUBSET Node]
  <2>1. ASSUME NEW z \in Node
        PROVE  {R(a) : a \in IF z = m THEN sub[n] ELSE sub[z]} \subseteq Node
    BY <1>1 DEF Renamed
  <2> QED BY <2>1 DEF RenamedSub
<1>8. ASSUME NEW z \in M PROVE v[R(z)] = {R(a) : a \in sub[z]}
  <2>1. v[R(z)] = {R(a) : a \in IF R(z) = m THEN sub[n] ELSE sub[R(z)]}
    BY <1>2 DEF RenamedSub
  <2>2. CASE z = n
    BY <1>2, <2>1, <2>2
  <2>3. CASE z # n
    <3>1. R(z) = z /\ z # m
      BY <1>2, <1>4, <2>3
    <3> QED BY <2>1, <3>1
  <2> QED BY <2>2, <2>3
<1> HIDE DEF v
<1>9. ASSUME NEW z \in M \cup {NULL} PROVE Sub(v, R(z)) = {R(a) : a \in Sub(sub, z)}
  <2>1. CASE z = NULL
    BY <1>2, <2>1 DEF Sub
  <2>2. CASE z # NULL
    <3>1. z \in M /\ R(z) # NULL
      BY <1>2, <2>2
    <3> HIDE DEF M, R
    <3> QED BY <1>8, <2>2, <3>1 DEF Sub
  <2> QED BY <2>1, <2>2
<1>10. ASSUME NEW z \in M, NEW r \in Side PROVE w.kid[R(z)][r] = R(t.kid[z][r])
  BY <1>1, <1>2, <1>3, <1>4, <1>6
<1>11. ASSUME NEW z \in M PROVE w.parent[R(z)] = R(t.parent[z])
  BY <1>1, <1>2, <1>3, <1>4, <1>6
<1>12. ASSUME NEW z \in M \cup {NULL} PROVE R(z) \in w.red <=> z \in t.red
  BY <1>2, <1>3, <1>4
<1>13. Mem(w, v) = {R(z) : z \in M}
  <2>1. t.root \in M \cup {NULL}
    BY Members1
  <2>2. Mem(w, v) = Sub(v, R(t.root)) /\ M = Sub(sub, t.root)
    BY <1>3 DEF Mem
  <2> QED BY <1>9, <2>1, <2>2
<1>14. Carried(t, w, sub, v, n, m)
  <2> HIDE DEF M
  <2> QED BY <1>3, <1>7, <1>8, <1>9, <1>10, <1>11, <1>12, <1>13 DEF Carried, M
<1> QED BY <1>14 DEF v

LEMMA SubstituteShape ==
  ASSUME NEW t, NEW sub, Shape(t, sub), NEW n \in Mem(t, sub),
         NEW m \in Node, m \notin Mem(t, sub),
         \A z \in Mem(t, sub) \ {n}, s \in Side : On(s, z, n) => On(s, z, m),
         NEW w, Substituted(t, w, n, m)
  PROVE  /\ Shape(w, RenamedSub(sub, n, m))
         /\ Mem(w, RenamedSub(sub, n, m)) = (Mem(t, sub) \ {n}) \cup {m}
<1> DEFINE M == Mem(t, sub)
           v == RenamedSub(sub, n, m)
           R(z) == Renamed(n, m, z)
<1>1. M \subseteq Node /\ NULL \notin M
  BY Members1, LinkFacts
<1>2. /\ R(NULL) = NULL
      /\ \A z \in M : R(z) \in Node /\ R(z) # NULL /\ R(z) # n
      /\ \A a, b \in M \cup {NULL} : R(a) = R(b) => a = b
      /\ {R(z) : z \in M} = (M \ {n}) \cup {m}
      /\ \A z \in M : z # n => R(z) = z
      /\ R(n) = m
  <2>1. n \in M /\ m \notin M
    BY DEF M
  <2>2. RenamesWell(M, n, m)
    <3> HIDE DEF M
    <3> QED BY <1>1, <2>1, RenamedFacts
  <2> HIDE DEF M
  <2> QED BY <2>2, Zenon DEF RenamesWell
<1>3. Carried(t, w, sub, v, n, m)
  BY CarriedIs
<1> HIDE DEF v
<1>4. /\ w \in Tree /\ w.root = R(t.root) /\ v \in [Node -> SUBSET Node]
      /\ Mem(w, v) = {R(z) : z \in M}
      /\ \A z \in M : v[R(z)] = {R(a) : a \in sub[z]}
      /\ \A z \in M \cup {NULL} : Sub(v, R(z)) = {R(a) : a \in Sub(sub, z)}
      /\ \A z \in M, r \in Side : w.kid[R(z)][r] = R(t.kid[z][r])
      /\ \A z \in M : w.parent[R(z)] = R(t.parent[z])
  BY <1>3 DEF Carried
<1>5. RootOK(w, v)
  <2> SUFFICES ASSUME w.root # NULL
               PROVE  w.root \in v[w.root] /\ w.parent[w.root] = NULL
    BY DEF RootOK
  <2>1. t.root \in M /\ t.root \in sub[t.root] /\ t.parent[t.root] = NULL
    <3>1. t.root # NULL /\ t.root \in M
      BY Members1, LinkFacts
    <3> QED BY <3>1 DEF Shape, RootOK
  <2> HIDE DEF M, R
  <2>2. R(t.root) \in v[R(t.root)]
    BY <1>4, <2>1
  <2> QED BY <1>2, <1>4, <2>1, <2>2
<1>6. ASSUME NEW z \in M, NEW s \in Side PROVE KidOK(w, v, R(z), s)
  <2> DEFINE c == t.kid[z][s]
             d == t.kid[z][Flip(s)]
  <2>1. /\ Flip(s) \in Side /\ z \in Node
        /\ c \in M \cup {NULL} /\ d \in M \cup {NULL}
        /\ c # NULL => t.parent[c] = z
        /\ sub[z] = {z} \cup Sub(sub, c) \cup Sub(sub, d)
        /\ \A a \in Sub(sub, c) : On(s, a, z) /\ a \in M /\ a # z
    <3>1. Flip(s) \in Side /\ z \in Node
      BY Sides, Members1
    <3>2. d \in M \cup {NULL}
      BY <3>1, Kids
    <3>3. /\ c \in M \cup {NULL}
          /\ c # NULL => t.parent[c] = z
          /\ sub[z] = {z} \cup Sub(sub, c) \cup Sub(sub, d)
          /\ \A a \in Sub(sub, c) : On(s, a, z) /\ a \in sub[z] /\ a # z
      BY Kids
    <3>4. \A a \in sub[z] : a \in M
      BY SubTransitive
    <3> QED BY <3>1, <3>2, <3>3, <3>4
  <2> HIDE DEF c, d, M, R
  <2>2. w.kid[R(z)][s] = R(c) /\ w.kid[R(z)][Flip(s)] = R(d)
    BY <1>4, <2>1 DEF c, d
  <2>3. R(c) # NULL => R(c) \in Mem(w, v) /\ w.parent[R(c)] = R(z)
    BY <1>2, <1>4, <2>1
  <2>4. v[R(z)] = {R(z)} \cup Sub(v, R(c)) \cup Sub(v, R(d))
    <3>1. /\ v[R(z)] = {R(a) : a \in sub[z]}
          /\ Sub(v, R(c)) = {R(a) : a \in Sub(sub, c)}
          /\ Sub(v, R(d)) = {R(a) : a \in Sub(sub, d)}
      BY <1>4, <2>1
    <3> QED BY <2>1, <3>1
  <2>5. \A x \in Sub(v, R(c)) : On(s, x, R(z))
    <3> SUFFICES ASSUME NEW a \in Sub(sub, c) PROVE On(s, R(a), R(z))
      BY <1>4, <2>1
    <3>1. On(s, a, z) /\ a \in M /\ a # z
      BY <2>1
    <3>2. CASE a = n
      <4>1. On(Flip(s), z, n)
        BY <1>1, <2>1, <3>1, <3>2, OnOrder
      <4>2. On(Flip(s), z, m)
        BY <2>1, <3>1, <3>2, <4>1 DEF M
      <4>3. On(s, m, z)
        BY <2>1, <4>2, OnOrder
      <4> QED BY <1>2, <3>1, <3>2, <4>3
    <3>3. CASE z = n
      <4>1. On(s, a, m)
        BY <3>1, <3>3 DEF M
      <4> QED BY <1>2, <3>1, <3>3, <4>1
    <3>4. CASE a # n /\ z # n
      BY <1>2, <3>1, <3>4
    <3> QED BY <3>2, <3>3, <3>4
  <2> QED BY <2>2, <2>3, <2>4, <2>5 DEF KidOK
<1>7. ASSUME NEW x \in Node, x \notin Mem(w, v) PROVE OutOK(w, x)
  <2>1. x \notin M \ {n} /\ x # m
    BY <1>2, <1>4, <1>7
  <2>2. n # m /\ t.red \subseteq M
    BY RedAreMembers
  <2>3. x \notin w.red
    <3>1. w.red = {R(z) : z \in t.red}
      BY DEF Substituted
    <3> QED BY <2>1, <2>2, <3>1 DEF Renamed
  <2>4. CASE x = n
    <3>1. w.kid[n] = NoKids /\ w.parent[n] = NULL
      BY DEF Substituted
    <3> QED BY <2>3, <2>4, <3>1 DEF OutOK
  <2>5. CASE x # n
    <3>1. t.kid[x] = NoKids /\ t.parent[x] = NULL
      BY <2>1, <2>5 DEF Shape, OutOK
    <3>2. w.parent[x] = R(t.parent[x]) /\ \A r \in Side : w.kid[x][r] = R(t.kid[x][r])
      BY <2>1, <2>5 DEF Substituted
    <3>3. w.kid[x] \in [Side -> Link]
      BY <1>4, TreeFields
    <3>4. \A r \in Side : w.kid[x][r] = NULL
      BY <1>2, <3>1, <3>2 DEF NoKids
    <3>5. w.kid[x] = NoKids
      BY <3>3, <3>4 DEF NoKids
    <3> QED BY <1>2, <2>3, <3>1, <3>2, <3>5 DEF OutOK
  <2> QED BY <2>4, <2>5
<1>8. \A x \in Mem(w, v), s \in Side : KidOK(w, v, x, s)
  BY <1>4, <1>6
<1>9. Shape(w, v)
  BY <1>4, <1>5, <1>7, <1>8 DEF Shape
<1> QED BY <1>2, <1>4, <1>9 DEF v

LEMMA SubstituteState ==
  ASSUME NEW t, NEW p \in {"idle", "erase_color"}, NEW x, NEW y, NEW sub, NEW h,
         StateOK(t, p, x, y, sub, h), NEW n \in Mem(t, sub),
         NEW m \in Node, m \notin Mem(t, sub),
         \A z \in Mem(t, sub) \ {n}, s \in Side : On(s, z, n) => On(s, z, m),
         NEW w, Substituted(t, w, n, m)
  PROVE  Becomes((Mem(t, sub) \ {n}) \cup {m}, w, p, Renamed(n, m, x), Renamed(n, m, y))
<1> DEFINE M == Mem(t, sub)
           v == RenamedSub(sub, n, m)
           R(z) == Renamed(n, m, z)
           k == [h EXCEPT ![m] = h[n]]
           gap == Gap(t, p, x, y)
           new == Gap(w, p, R(x), R(y))
<1>0. /\ Shape(t, sub) /\ Balanced(t, sub, h, gap)
      /\ Colours(t, sub, Exempt(t, p, x)) /\ LoopOK(t, sub, p, x, y)
  BY DEF StateOK
<1>1. M \subseteq Node /\ NULL \notin M /\ h \in [Node -> Nat]
  BY <1>0, Members1, LinkFacts DEF Balanced
<1>2. /\ R(NULL) = NULL
      /\ \A z \in M : R(z) \in Node /\ R(z) # NULL /\ R(z) # n
      /\ \A z \in Link : R(z) \in Link
      /\ \A a, b \in M \cup {NULL} : R(a) = R(b) => a = b
      /\ {R(z) : z \in M} = (M \ {n}) \cup {m}
      /\ \A z \in M : z # n => R(z) = z
      /\ R(n) = m
  <2>1. n \in M /\ m \notin M
    BY DEF M
  <2>2. RenamesWell(M, n, m)
    <3> HIDE DEF M
    <3> QED BY <1>1, <2>1, RenamedFacts
  <2> HIDE DEF M
  <2> QED BY <2>2, Zenon DEF RenamesWell
<1>3. Shape(w, v) /\ Mem(w, v) = (M \ {n}) \cup {m}
  BY <1>0, SubstituteShape
<1>4. Carried(t, w, sub, v, n, m)
  BY <1>0, CarriedIs
<1> HIDE DEF v, gap, new
<1>5. /\ w.root = R(t.root)
      /\ Mem(w, v) = {R(z) : z \in M}
      /\ \A z \in M, r \in Side : w.kid[R(z)][r] = R(t.kid[z][r])
      /\ \A z \in M : w.parent[R(z)] = R(t.parent[z])
      /\ \A z \in M \cup {NULL} : R(z) \in w.red <=> z \in t.red
  BY <1>4 DEF Carried
<1>6. k \in [Node -> Nat] /\ \A z \in M : k[R(z)] = h[z]
  <2>1. k[m] = h[n] /\ \A z \in M : z # m
    BY <1>1
  <2> QED BY <1>1, <1>2, <2>1
<1> HIDE DEF k
<1>7. /\ x \in Link /\ y \in Link
      /\ p = "erase_color" => /\ x # NULL => x \in M
                              /\ y = NULL => x = t.root
                              /\ y # NULL => /\ y \in M /\ t.kid[y][SideOf(t, y, x)] = x
                                             /\ SideOf(t, y, x) \in Side
  BY <1>0, SideOfIs DEF LoopOK
<1>8. t.root \in M /\ \A z \in M : z # t.root => t.parent[z] \in M
  BY <1>0, Members1, ParentOfMember
<1>9. \A z \in M, r \in Side : t.kid[z][r] \in M \cup {NULL}
  BY <1>0, Kids
<1> HIDE DEF M, R
<1>10. p = "erase_color" /\ y # NULL => SideOf(w, R(y), R(x)) = SideOf(t, y, x)
  <2> SUFFICES ASSUME p = "erase_color", y # NULL
               PROVE  w.kid[R(y)]["left"] = R(x) <=> t.kid[y]["left"] = x
    BY DEF SideOf
  <2>1. "left" \in Side
    BY DEF Side
  <2> QED BY <1>2, <1>5, <1>7, <1>9, <2>1
<1>11. ASSUME NEW z \in M, NEW r \in Side PROVE Missing(new, R(z), r) = Missing(gap, z, r)
  <2>1. <<R(z), r>> \in new <=> <<z, r>> \in gap
    <3>1. CASE p = "erase_color" /\ y # NULL
      <4>1. R(y) # NULL
        BY <1>2, <1>7, <3>1
      <4>2. new = {<<R(y), SideOf(t, y, x)>>} /\ gap = {<<y, SideOf(t, y, x)>>}
        BY <1>10, <3>1, <4>1 DEF new, gap, Gap
      <4> QED BY <1>2, <1>7, <3>1, <4>2
    <3>2. CASE ~(p = "erase_color" /\ y # NULL)
      <4>1. new = {} /\ gap = {}
        BY <1>2, <3>2 DEF new, gap, Gap
      <4> QED BY <4>1
    <3> QED BY <3>1, <3>2
  <2> QED BY <2>1 DEF Missing
<1>12. Balanced(w, v, k, new)
  <2> SUFFICES ASSUME NEW z \in M, NEW r \in Side
               PROVE  LevelOK(w, w.red, k, new, R(z), r)
    BY <1>5, <1>6 DEF Balanced
  <2>1. Height(k, w.kid[R(z)][r]) = Height(h, t.kid[z][r])
    BY <1>2, <1>5, <1>6, <1>9 DEF Height
  <2>2. Black(w.red, R(z)) = Black(t.red, z)
    BY <1>5 DEF Black
  <2>3. h[z] = Height(h, t.kid[z][r]) + Missing(gap, z, r) + Black(t.red, z)
    BY <1>0 DEF Balanced, LevelOK, M
  <2> QED BY <1>6, <1>11, <2>1, <2>2, <2>3 DEF LevelOK
<1>13. Colours(w, v, Exempt(w, p, R(x)))
  <2> SUFFICES ASSUME NEW z \in M, R(z) \in w.red, R(z) \notin Exempt(w, p, R(x))
               PROVE  R(z) # w.root /\ w.parent[R(z)] \notin w.red
    BY <1>5 DEF Colours
  <2>1. z \in t.red /\ z \in Node /\ R(z) \in Node
    BY <1>1, <1>2, <1>5
  <2>2. z # t.root => R(z) # w.root
    BY <1>2, <1>5, <1>8
  <2>3. z \notin Exempt(t, p, x)
    <3>1. ~(p # "idle" /\ z = x)
      BY <2>1 DEF Exempt
    <3>2. ~(p = "erase_color" /\ z # t.root /\ t.parent[z] = x)
      <4> SUFFICES ASSUME p = "erase_color", z # t.root, t.parent[z] = x PROVE FALSE
        OBVIOUS
      <4>1. R(z) # w.root /\ w.parent[R(z)] = R(x)
        BY <1>5, <2>2
      <4> QED BY <2>1, <4>1 DEF Exempt
    <3> QED BY <3>1, <3>2 DEF Exempt
  <2>4. z # t.root /\ t.parent[z] \notin t.red
    BY <1>0, <2>1, <2>3 DEF Colours, M
  <2> QED BY <1>5, <1>8, <2>2, <2>4
<1>14. LoopOK(w, v, p, R(x), R(y))
  <2>1. R(x) \in Link /\ R(y) \in Link
    BY <1>2, <1>7
  <2>2. p = "erase_color" => (R(x) # NULL => R(x) \in Mem(w, v))
    BY <1>2, <1>5, <1>7
  <2>3. p = "erase_color" => (R(y) = NULL => R(x) = w.root)
    BY <1>2, <1>5, <1>7
  <2>4. p = "erase_color" /\ R(y) # NULL
        => R(y) \in Mem(w, v) /\ w.kid[R(y)][SideOf(w, R(y), R(x))] = R(x)
    BY <1>2, <1>5, <1>7, <1>10
  <2> QED BY <2>1, <2>2, <2>3, <2>4 DEF LoopOK
<1>15. StateOK(w, p, R(x), R(y), v, k)
  BY <1>3, <1>12, <1>13, <1>14 DEF StateOK, new
<1> QED BY <1>3, <1>15 DEF Becomes, M, R

-----------------------------------------------------------------------------
(* The node that takes the place of an erased one with two children.       *)

LEMMA SuccessorIs ==
  ASSUME NEW t, NEW sub, Shape(t, sub), NEW n \in Mem(t, sub),
         t.kid[n]["left"] # NULL, t.kid[n]["right"] # NULL,
         NEW m, m = Extreme(t, t.kid[n]["right"], "left"), NEW p, p = t.parent[m]
  PROVE  /\ m \in Mem(t, sub) /\ m \in sub[n] /\ m # n /\ t.kid[m]["left"] = NULL
         /\ p \in sub[n] /\ p # NULL
         /\ SideOf(t, p, m) = IF p = n THEN "right" ELSE "left"
         /\ \A z \in Mem(t, sub) \ {m, n}, s \in Side : On(s, z, n) => On(s, z, m)
<1> DEFINE c == t.kid[n]["right"]
           b == t.kid[n]["left"]
<1>1. "left" \in Side /\ "right" \in Side /\ Flip("left") = "right" /\ Flip("right") = "left"
  BY DEF Side, Flip
<1>2. /\ c \in Mem(t, sub) /\ c # NULL /\ Sub(sub, c) = sub[c] /\ t.parent[c] = n
      /\ sub[n] = {n} \cup sub[c] \cup Sub(sub, b) /\ n \notin sub[c]
      /\ \A z \in sub[c] : On("right", z, n)
  BY <1>1, Kids
<1>3. \A z \in Sub(sub, b) : On("left", z, n)
  BY <1>1, Kids
<1>4. IsExtreme(t, sub, c, "left", m)
  BY <1>1, <1>2, ExtremeIs
<1>5. m \in sub[c] /\ t.kid[m]["left"] = NULL /\ \A z \in sub[c] : z # m => On("right", z, m)
  BY <1>1, <1>4 DEF IsExtreme
<1>6. m \in Mem(t, sub) /\ m \in sub[n] /\ m # n
  BY <1>2, <1>5, SubTransitive
<1>7. m \in Node /\ n \in Node /\ sub[n] \subseteq Node
  BY <1>6, Members1
<1>8. p \in sub[n] /\ p # NULL
  <2>1. p \in sub[n]
    BY <1>6, ParentOf
  <2> QED BY <1>7, <2>1, LinkFacts
<1>9. SideOf(t, p, m) = IF p = n THEN "right" ELSE "left"
  <2>1. CASE p = n
    <3>1. \E s \in Side : t.kid[n][s] = m
      <4>1. \E s \in Side : t.kid[t.parent[m]][s] = m
        BY <1>6, ParentOf
      <4> QED BY <2>1, <4>1
    <3>2. b # m
      <4>1. b # NULL => b \in Sub(sub, b)
        BY <1>1, Kids, Members1 DEF Sub
      <4>2. m \notin Sub(sub, b)
        BY <1>3, <1>1, <1>2, <1>5, <1>7, OnOrder
      <4> QED BY <4>1, <4>2
    <3> QED BY <2>1, <3>2 DEF SideOf
  <2>2. CASE p # n
    <3>1. m # c
      BY <1>2, <2>2
    <3>2. /\ p \in sub[c] /\ p \in Mem(t, sub)
          /\ \E s \in Side : t.kid[p][s] = m
      BY <1>2, <1>5, <3>1, ParentOf
    <3>3. p # m /\ p \in Node
      <4>1. \A s \in Side : t.kid[m][s] # m
        BY <1>6, <1>7, Kids, LinkFacts
      <4> QED BY <3>2, <4>1, Members1
    <3>4. On("right", p, m)
      BY <1>5, <3>2, <3>3
    <3>5. t.kid[p]["right"] # m
      <4> SUFFICES ASSUME t.kid[p]["right"] = m PROVE FALSE
        OBVIOUS
      <4>1. On("right", m, p)
        BY <1>1, <1>7, <3>2, Kids, LinkFacts
      <4> QED BY <1>1, <1>7, <3>3, <3>4, <4>1, OnOrder
    <3>6. t.kid[p]["left"] = m
      BY <3>2, <3>5 DEF Side
    <3> QED BY <2>2, <3>6 DEF SideOf
  <2> QED BY <2>1, <2>2
<1>10. ASSUME NEW z \in Mem(t, sub) \ {m, n}, NEW s \in Side, On(s, z, n)
       PROVE  On(s, z, m)
  <2>0. z \in Node
    BY Members1
  <2>1. CASE z \notin sub[n]
    <3>1. n \in sub[n]
      BY Members1
    <3> QED BY <1>6, <1>10, <2>1, <3>1, Convex
  <2>2. CASE z \in sub[c]
    <3>1. s = "right"
      BY <1>1, <1>2, <1>7, <1>10, <2>0, <2>2, OnOrder DEF Side
    <3> QED BY <1>5, <2>2, <3>1
  <2>3. CASE z \in Sub(sub, b)
    <3>1. s = "left"
      BY <1>1, <1>3, <1>7, <1>10, <2>0, <2>3, OnOrder DEF Side
    <3>2. On("left", n, m)
      BY <1>1, <1>2, <1>5, <1>7, OnOrder
    <3> QED BY <1>1, <1>7, <1>10, <2>0, <3>1, <3>2, OnTransitive
  <2> QED BY <1>2, <2>1, <2>2, <2>3
<1> QED BY <1>5, <1>6, <1>8, <1>9, <1>10

(* Around a node n with two children, its successor m and their links.     *)
Around(t, n, m, c, p, g) ==
  /\ n \in Node /\ m \in Node /\ c \in Link /\ p \in Node /\ g \in Link
  /\ m # n /\ c # n /\ c # m /\ p # m
  /\ g # n /\ g # m /\ g # p
  /\ g = NULL <=> n = t.root
  /\ m # t.root
  /\ \A x \in Node, r \in Side : t.kid[x][r] = n <=> g # NULL /\ x = g /\ r = SideOf(t, g, n)
  /\ \A x \in Node, r \in Side :
       t.kid[x][r] = m <=> x = p /\ r = IF p = n THEN "right" ELSE "left"
  /\ c # NULL => t.parent[c] = m
  /\ \A s \in Side : t.kid[n][s] # NULL /\ t.parent[t.kid[n][s]] = n
  /\ \A x \in Node : t.parent[x] = n => \E s \in Side : t.kid[n][s] = x

LEMMA AroundIs ==
  ASSUME NEW t, NEW sub, Shape(t, sub), NEW n \in Mem(t, sub),
         t.kid[n]["left"] # NULL, t.kid[n]["right"] # NULL,
         NEW m, m = Extreme(t, t.kid[n]["right"], "left"),
         NEW c, c = t.kid[m]["right"], NEW p, p = t.parent[m], NEW g, g = t.parent[n]
  PROVE  Around(t, n, m, c, p, g)
<1>1. /\ m \in Mem(t, sub) /\ m \in sub[n] /\ m # n /\ t.kid[m]["left"] = NULL
      /\ p \in sub[n] /\ p # NULL
      /\ SideOf(t, p, m) = IF p = n THEN "right" ELSE "left"
  BY SuccessorIs
<1>2. "left" \in Side /\ "right" \in Side /\ \A s \in Side : s = "left" \/ s = "right"
  BY DEF Side
<1>3. n \in Node /\ m \in Node /\ sub[n] \subseteq Node /\ NULL \notin Node
  BY <1>1, Members1, LinkFacts
<1>4. c \in Link /\ (c # NULL => t.parent[c] = m /\ c \in sub[m]) /\ c # m
  BY <1>1, <1>2, <1>3, Kids
<1>5. c # n
  <2> SUFFICES ASSUME c = n PROVE FALSE
    OBVIOUS
  <2>1. n \in sub[m]
    BY <1>3, <1>4
  <2> QED BY <1>1, <2>1, Antisymmetric
<1>6. /\ g \in Link /\ g # n
      /\ g = NULL <=> n = t.root
      /\ g # NULL => g \in Mem(t, sub) /\ g \in Node
      /\ \A x \in Node, r \in Side : t.kid[x][r] = n <=> g # NULL /\ x = g /\ r = SideOf(t, g, n)
  BY LinkTo
<1>7. /\ p # m /\ m # t.root
      /\ \A x \in Node, r \in Side : t.kid[x][r] = m <=> p # NULL /\ x = p /\ r = SideOf(t, p, m)
  BY <1>1, LinkTo
<1>8. g \notin sub[n]
  <2> SUFFICES ASSUME g \in sub[n] PROVE FALSE
    OBVIOUS
  <2>1. g # NULL /\ g \in Node /\ g \in Mem(t, sub)
    BY <1>3, <1>6
  <2>2. \E r \in Side : t.kid[g][r] = n
    BY <1>6, <2>1, SideOfIs
  <2>3. n \in sub[g]
    BY <1>3, <2>1, <2>2, Kids
  <2> QED BY <1>6, <2>3, Antisymmetric
<1>9. \A s \in Side : t.kid[n][s] # NULL /\ t.parent[t.kid[n][s]] = n
  BY <1>2, Kids
<1>10. ASSUME NEW x \in Node, t.parent[x] = n PROVE \E s \in Side : t.kid[n][s] = x
  <2>1. x \in Mem(t, sub)
    BY <1>3, <1>10 DEF Shape, OutOK
  <2> QED BY <1>3, <1>10, <2>1, ParentOfMember
<1> QED BY <1>1, <1>3, <1>4, <1>5, <1>6, <1>7, <1>8, <1>9, <1>10 DEF Around

(* The link of x on side r, once m is taken out.                           *)
Bypass(t, m, c, x, r) == IF t.kid[x][r] = m THEN c ELSE t.kid[x][r]

InnerFields(t, f, n, m, c, p, g) ==
  /\ f \in Tree
  /\ f.root = IF g = NULL THEN m ELSE t.root
  /\ f.red = (IF n \in t.red THEN t.red \cup {m} ELSE t.red \ {m}) \ {n}
  /\ f.kid[n] = NoKids /\ f.parent[n] = NULL
  /\ \A r \in Side : f.kid[m][r] = Bypass(t, m, c, n, r)
  /\ \A x \in Node, r \in Side : x # n /\ x # m =>
       f.kid[x][r] = IF g # NULL /\ x = g /\ r = SideOf(t, g, n) THEN m
                     ELSE Bypass(t, m, c, x, r)
  /\ \A x \in Node : x # n =>
       f.parent[x] = IF \E r \in Side : x = Bypass(t, m, c, n, r) THEN m
                     ELSE IF x = m THEN g ELSE IF x = c THEN p ELSE t.parent[x]

LEMMA UnlinkInnerFields ==
  ASSUME NEW t \in Tree, NEW n, NEW m, Extreme(t, t.kid[n]["right"], "left") = m,
         NEW c, t.kid[m]["right"] = c, NEW p, t.parent[m] = p, NEW g, t.parent[n] = g,
         Around(t, n, m, c, p, g)
  PROVE  /\ InnerFields(t, UnlinkInner(t, n).tree, n, m, c, p, g)
         /\ UnlinkInner(t, n).child = c
         /\ UnlinkInner(t, n).parent = Renamed(n, m, p)
         /\ UnlinkInner(t, n).red = IsRed(t, m)
<1> DEFINE s == IF p = n THEN "right" ELSE "left"
           t1 == SetParent(t, c, p)
           t2 == [t1 EXCEPT !.kid[p][s] = c]
           K == [t2.kid EXCEPT ![m] = t2.kid[n]]
           P == [t2.parent EXCEPT ![m] = t2.parent[n]]
           X == IF n \in t.red THEN t.red \cup {m} ELSE t.red \ {m}
           t3 == [t2 EXCEPT !.kid = K, !.parent = P, !.red = X]
           t4 == Relink(t3, g, n, m)
           l == t4.kid[n]["left"]
           r == t4.kid[n]["right"]
           t5 == SetParent(t4, l, m)
           t6 == SetParent(t5, r, m)
           f == Forget(t6, n)
           q == SideOf(t, g, n)
           B(x, d) == Bypass(t, m, c, x, d)
<1>1. /\ n \in Node /\ m \in Node /\ c \in Link /\ p \in Node /\ g \in Link /\ m \in Link /\ p \in Link
      /\ m # n /\ c # n /\ c # m /\ p # m /\ g # n /\ g # m /\ g # p
      /\ g = NULL <=> n = t.root
      /\ \A x \in Node, d \in Side : t.kid[x][d] = n <=> g # NULL /\ x = g /\ d = q
      /\ \A x \in Node, d \in Side : t.kid[x][d] = m <=> x = p /\ d = s
      /\ NULL \notin Node
  BY LinkFacts DEF Around, Link
<1>2. "left" \in Side /\ "right" \in Side /\ s \in Side /\ \A d \in Side : d = "left" \/ d = "right"
  BY DEF Side
<1>3. /\ t1 \in Tree /\ t1.root = t.root /\ t1.kid = t.kid /\ t1.red = t.red
      /\ \A x \in Node : t1.parent[x] = IF x = c THEN p ELSE t.parent[x]
  BY <1>1, SetParentFields
<1>4. /\ t2 \in Tree /\ t2.root = t.root /\ t2.red = t.red /\ t2.parent = t1.parent
      /\ \A x \in Node, d \in Side : t2.kid[x][d] = B(x, d)
  <2> HIDE DEF t1, s
  <2>1. /\ t2 \in Tree /\ t2.root = t1.root /\ t2.red = t1.red /\ t2.parent = t1.parent
        /\ \A x \in Node, d \in Side : t2.kid[x][d] = IF x = p /\ d = s THEN c ELSE t1.kid[x][d]
    BY <1>1, <1>2, <1>3, SetKidFields
  <2> HIDE DEF t2
  <2>2. \A x \in Node, d \in Side : t2.kid[x][d] = B(x, d)
    BY <1>1, <1>3, <2>1 DEF Bypass
  <2> QED BY <1>3, <2>1, <2>2
<1>5. UnlinkInner(t, n) = [tree |-> f, child |-> c,
                           parent |-> IF p = n THEN m ELSE p, red |-> IsRed(t, m)]
  <2> DEFINE e1 == IF p = n THEN [t1 EXCEPT !.kid[n]["right"] = c]
                            ELSE [t1 EXCEPT !.kid[p]["left"] = c]
             e3 == [t2 EXCEPT !.kid[m] = t2.kid[n], !.parent[m] = t2.parent[n],
                              !.red = IF IsRed(t, n) THEN @ \cup {m} ELSE @ \ {m}]
  <2>1. e1 = t2
    OBVIOUS
  <2>2. e3 = t3
    <3> HIDE DEF t2
    <3>1. e3 = [t2 EXCEPT !.kid = K, !.parent = P,
                          !.red = IF IsRed(t, n) THEN t2.red \cup {m} ELSE t2.red \ {m}]
      BY <1>4 DEF Tree
    <3>2. X = IF IsRed(t, n) THEN t2.red \cup {m} ELSE t2.red \ {m}
      BY <1>4 DEF IsRed
    <3> QED BY <3>1, <3>2
  <2>3. t3.parent[n] = g
    <3>1. P[n] = t.parent[n]
      <4> HIDE DEF t2
      <4> QED BY <1>1, <1>3, <1>4, TreeFields
    <3> HIDE DEF P, K, X, t2
    <3>2. t3.parent = P
      BY <1>4 DEF Tree
    <3> QED BY <3>1, <3>2
  <2> HIDE DEF t1, t2, t3, e1, e3
  <2>4. UnlinkInner(t, n) =
          LET v2 == e1
              v3 == [v2 EXCEPT !.kid[m] = v2.kid[n], !.parent[m] = v2.parent[n],
                               !.red = IF IsRed(t, n) THEN @ \cup {m} ELSE @ \ {m}]
              v4 == Relink(v3, v3.parent[n], n, m)
              v5 == SetParent(SetParent(v4, v4.kid[n]["left"], m), v4.kid[n]["right"], m)
          IN  [tree |-> Forget(v5, n), child |-> c,
               parent |-> IF p = n THEN m ELSE p, red |-> IsRed(t, m)]
    BY DEF UnlinkInner, t1, e1
  <2> QED BY <2>1, <2>2, <2>3, <2>4 DEF e3
<1> HIDE DEF t1, t2
<1>6. t2.kid \in [Node -> [Side -> Link]] /\ t2.parent \in [Node -> Link] /\ t.red \subseteq Node
  BY <1>4, TreeFields
<1>7. /\ K \in [Node -> [Side -> Link]] /\ K[m] = t2.kid[n]
      /\ \A x \in Node : x # m => K[x] = t2.kid[x]
  BY <1>1, <1>6
<1>8. /\ P \in [Node -> Link]
      /\ \A x \in Node : P[x] = IF x = m THEN g ELSE IF x = c THEN p ELSE t.parent[x]
  BY <1>1, <1>3, <1>4, <1>6
<1>9. X \subseteq Node
  BY <1>1, <1>6
<1> HIDE DEF K, P, X
<1>10. t3 \in Tree /\ t3.root = t.root /\ t3.kid = K /\ t3.parent = P /\ t3.red = X
  BY <1>4, <1>7, <1>8, <1>9 DEF Tree
<1> HIDE DEF t3
<1>11. /\ \A d \in Side : K[m][d] = B(n, d)
       /\ \A x \in Node, d \in Side : x # m => K[x][d] = B(x, d)
  BY <1>1, <1>4, <1>7
<1>12. g # NULL => SideOf(t3, g, n) = q
  <2> SUFFICES ASSUME g # NULL PROVE t3.kid[g]["left"] = n <=> t.kid[g]["left"] = n
    BY DEF SideOf
  <2>1. g \in Node
    BY <1>1, LinkFacts
  <2>2. t.kid[g]["left"] # m
    BY <1>1, <1>2, <2>1
  <2>3. t3.kid[g]["left"] = t.kid[g]["left"]
    BY <1>1, <1>2, <1>10, <1>11, <2>1, <2>2 DEF Bypass
  <2> QED BY <2>3
<1> HIDE DEF q
<1>13. /\ t4 \in Tree /\ t4.root = (IF g = NULL THEN m ELSE t.root)
       /\ t4.parent = P /\ t4.red = X
       /\ \A x \in Node, d \in Side : t4.kid[x][d] =
            IF g # NULL /\ x = g /\ d = q THEN m ELSE K[x][d]
  <2>1. /\ t4 \in Tree /\ t4.root = (IF g = NULL THEN m ELSE t3.root)
        /\ t4.parent = t3.parent /\ t4.red = t3.red
        /\ \A x \in Node, d \in Side : t4.kid[x][d] =
             IF x = g /\ d = SideOf(t3, g, n) THEN m ELSE t3.kid[x][d]
    BY <1>1, <1>10, RelinkFields
  <2> HIDE DEF t4
  <2> QED BY <1>1, <1>10, <1>12, <2>1
<1>14. l = B(n, "left") /\ r = B(n, "right") /\ l \in Link /\ r \in Link
  <2> HIDE DEF t4
  <2>1. l = B(n, "left") /\ r = B(n, "right")
    BY <1>1, <1>2, <1>11, <1>13
  <2>2. l \in Link /\ r \in Link
    BY <1>1, <1>2, <1>13, TreeFields
  <2> QED BY <2>1, <2>2
<1> HIDE DEF t4, l, r
<1>15. /\ t5 \in Tree /\ t5.root = t4.root /\ t5.kid = t4.kid /\ t5.red = t4.red
       /\ \A x \in Node : t5.parent[x] = IF x = l THEN m ELSE t4.parent[x]
  <2>1. t4 \in Tree /\ l \in Link /\ m \in Link
    BY <1>1, <1>13, <1>14
  <2> QED BY <2>1, SetParentFields
<1> HIDE DEF t5
<1>16. /\ t6 \in Tree /\ t6.root = t5.root /\ t6.kid = t5.kid /\ t6.red = t5.red
       /\ \A x \in Node : t6.parent[x] = IF x = r THEN m ELSE t5.parent[x]
  <2>1. t5 \in Tree /\ r \in Link /\ m \in Link
    BY <1>1, <1>14, <1>15
  <2> QED BY <2>1, SetParentFields
<1> HIDE DEF t6
<1>17. /\ f \in Tree /\ f.root = t6.root /\ f.red = t6.red \ {n}
       /\ f.kid[n] = NoKids /\ f.parent[n] = NULL
       /\ \A x \in Node : x # n => f.kid[x] = t6.kid[x]
       /\ \A x \in Node : x # n => f.parent[x] = t6.parent[x]
  <2>1. t6 \in Tree /\ n \in Node
    BY <1>1, <1>16
  <2> QED BY <2>1, ForgetFields
<1> HIDE DEF f, s
<1>18. \A d \in Side : f.kid[m][d] = B(n, d)
  BY <1>1, <1>11, <1>13, <1>15, <1>16, <1>17
<1>19. \A x \in Node, d \in Side : x # n /\ x # m =>
         f.kid[x][d] = IF g # NULL /\ x = g /\ d = q THEN m ELSE B(x, d)
  BY <1>1, <1>11, <1>13, <1>15, <1>16, <1>17
<1>20. \A x \in Node : x # n =>
         f.parent[x] = IF \E d \in Side : x = B(n, d) THEN m
                       ELSE IF x = m THEN g ELSE IF x = c THEN p ELSE t.parent[x]
  <2> SUFFICES ASSUME NEW x \in Node, x # n
               PROVE  f.parent[x] = IF \E d \in Side : x = B(n, d) THEN m
                                    ELSE IF x = m THEN g ELSE IF x = c THEN p ELSE t.parent[x]
    OBVIOUS
  <2>1. f.parent[x] = IF x = r \/ x = l THEN m ELSE P[x]
    BY <1>13, <1>15, <1>16, <1>17
  <2>2. (\E d \in Side : x = B(n, d)) <=> x = r \/ x = l
    BY <1>2, <1>14
  <2> QED BY <1>8, <2>1, <2>2
<1>21. InnerFields(t, f, n, m, c, p, g)
  <2>1. f.root = (IF g = NULL THEN m ELSE t.root) /\ f.red = X \ {n}
    BY <1>13, <1>15, <1>16, <1>17
  <2> QED BY <1>17, <1>18, <1>19, <1>20, <2>1 DEF InnerFields, X, q
<1> QED BY <1>5, <1>21 DEF Renamed

(* To erase n and pull up m: first m is taken out, then it replaces n.     *)
LEMMA InnerIsBoth ==
  ASSUME NEW t \in Tree, NEW n, NEW m, NEW c, NEW p, t.parent[m] = p,
         NEW g, t.parent[n] = g, Around(t, n, m, c, p, g),
         NEW u, Spliced(t, u, m, c), NEW f, InnerFields(t, f, n, m, c, p, g)
  PROVE  Substituted(u, f, n, m)
<1> DEFINE B(x, d) == Bypass(t, m, c, x, d)
           q == SideOf(t, g, n)
           R(x) == Renamed(n, m, x)
<1>1. /\ n \in Node /\ m \in Node /\ c \in Link /\ p \in Node /\ g \in Link
      /\ m # n /\ c # n /\ c # m /\ p # m /\ g # n /\ g # m /\ g # p
      /\ g = NULL <=> n = t.root
      /\ m # t.root
      /\ \A x \in Node, d \in Side : t.kid[x][d] = n <=> g # NULL /\ x = g /\ d = q
      /\ \A x \in Node, d \in Side :
           t.kid[x][d] = m <=> x = p /\ d = IF p = n THEN "right" ELSE "left"
      /\ NULL \notin Node
  BY LinkFacts DEF Around
<1>2. /\ u.root = t.root /\ u.red = t.red \ {m}
      /\ \A x \in Node, d \in Side : x # m => u.kid[x][d] = B(x, d)
      /\ \A x \in Node : x # m => u.parent[x] = IF x = c THEN p ELSE t.parent[x]
  BY <1>1 DEF Spliced, Bypass
<1>3. /\ f \in Tree /\ f.kid[n] = NoKids /\ f.parent[n] = NULL
      /\ f.root = IF g = NULL THEN m ELSE t.root
      /\ f.red = (IF n \in t.red THEN t.red \cup {m} ELSE t.red \ {m}) \ {n}
      /\ \A d \in Side : f.kid[m][d] = B(n, d)
      /\ \A x \in Node, d \in Side : x # n /\ x # m =>
           f.kid[x][d] = IF g # NULL /\ x = g /\ d = q THEN m ELSE B(x, d)
      /\ \A x \in Node : x # n =>
           f.parent[x] = IF \E d \in Side : x = B(n, d) THEN m
                         ELSE IF x = m THEN g ELSE IF x = c THEN p ELSE t.parent[x]
  BY DEF InnerFields
<1> HIDE DEF q
<1>4. f.root = R(u.root)
  BY <1>1, <1>2, <1>3 DEF Renamed
<1>5. f.red = {R(x) : x \in u.red}
  <2>1. ASSUME NEW x PROVE x \in f.red <=> x \in {R(y) : y \in u.red}
    BY <1>1, <1>2, <1>3 DEF Renamed
  <2> QED BY <2>1
<1>6. \A d \in Side : f.kid[m][d] = u.kid[n][d]
  BY <1>1, <1>2, <1>3
<1>7. ASSUME NEW x \in Node, NEW d \in Side, x # n, x # m
      PROVE  f.kid[x][d] = R(u.kid[x][d])
  <2>1. u.kid[x][d] = n <=> g # NULL /\ x = g /\ d = q
    <3>1. B(x, d) = n <=> t.kid[x][d] = n
      BY <1>1 DEF Bypass
    <3> QED BY <1>1, <1>2, <1>7, <3>1
  <2> QED BY <1>2, <1>3, <1>7, <2>1 DEF Renamed
<1>8. f.parent[m] = u.parent[n]
  <2>1. \A d \in Side : m # B(n, d)
    BY <1>1 DEF Bypass
  <2> QED BY <1>1, <1>2, <1>3, <2>1
<1>9. ASSUME NEW x \in Node, x # n, x # m PROVE f.parent[x] = R(u.parent[x])
  <2>1. u.parent[x] = n <=> \E d \in Side : x = B(n, d)
    <3>1. ASSUME u.parent[x] = n PROVE \E d \in Side : x = B(n, d)
      <4>1. CASE x = c
        <5>1. p = n
          BY <1>2, <1>9, <3>1, <4>1
        <5>2. "right" \in Side /\ t.kid[n]["right"] = m
          BY <1>1, <5>1 DEF Side
        <5> QED BY <4>1, <5>2 DEF Bypass
      <4>2. CASE x # c
        <5>1. t.parent[x] = n
          BY <1>2, <1>9, <3>1, <4>2
        <5>2. PICK d \in Side : t.kid[n][d] = x
          BY <1>9, <5>1 DEF Around
        <5> QED BY <1>9, <5>2 DEF Bypass
      <4> QED BY <4>1, <4>2
    <3>2. ASSUME NEW d \in Side, x = B(n, d) PROVE u.parent[x] = n
      <4>1. CASE t.kid[n][d] = m
        <5>1. x = c /\ n = p
          BY <1>1, <3>2, <4>1 DEF Bypass
        <5> QED BY <1>2, <1>9, <5>1
      <4>2. CASE t.kid[n][d] # m
        <5>1. x = t.kid[n][d]
          BY <3>2, <4>2 DEF Bypass
        <5>2. t.parent[x] = n
          BY <5>1 DEF Around
        <5>3. x # c
          <6>1. c # NULL => t.parent[c] = m
            BY DEF Around
          <6> QED BY <1>1, <1>9, <5>2, <6>1
        <5> QED BY <1>2, <1>9, <5>2, <5>3
      <4> QED BY <4>1, <4>2
    <3> QED BY <3>1, <3>2
  <2>2. CASE u.parent[x] = n
    BY <1>3, <1>9, <2>1, <2>2 DEF Renamed
  <2>3. CASE u.parent[x] # n
    <3>1. f.parent[x] = IF x = c THEN p ELSE t.parent[x]
      BY <1>3, <1>9, <2>1, <2>3
    <3> QED BY <1>2, <1>9, <2>3, <3>1 DEF Renamed
  <2> QED BY <2>2, <2>3
<1> QED BY <1>3, <1>4, <1>5, <1>6, <1>7, <1>8, <1>9 DEF Substituted

(* Between operations the two locals of the loops do not matter.           *)
LEMMA IdleAny ==
  ASSUME NEW M, NEW t, NEW x, NEW y, Becomes(M, t, "idle", x, y), NEW a \in Link, NEW b \in Link
  PROVE  Becomes(M, t, "idle", a, b)
<1>1. PICK sub, h : StateOK(t, "idle", x, y, sub, h) /\ Mem(t, sub) = M
  BY DEF Becomes
<1>2. Exempt(t, "idle", x) = {} /\ Exempt(t, "idle", a) = {}
  BY DEF Exempt
<1>3. StateOK(t, "idle", a, b, sub, h)
  BY <1>1, <1>2 DEF StateOK, Colours, LoopOK, Gap
<1> QED BY <1>1, <1>3 DEF Becomes

(* r is the result of taking a node out; x and y are the local variables   *)
(* before.                                                                 *)
Erased(M, r, x, y) ==
  IF r.red THEN Becomes(M, r.tree, "idle", x, y)
           ELSE Becomes(M, r.tree, "erase_color", r.child, r.parent)

LEMMA UnlinkTopStep ==
  ASSUME NEW t, NEW sub, Shape(t, sub), NEW n \in Mem(t, sub),
         NEW h, Balanced(t, sub, h, {}),
         \A x \in Mem(t, sub) : x \in t.red => x # t.root /\ t.parent[x] \notin t.red,
         NULL \in {t.kid[n][s] : s \in Side}, NEW x \in Link, NEW y \in Link
  PROVE  Erased(Mem(t, sub) \ {n}, UnlinkTop(t, n), x, y)
<1> DEFINE s == IF t.kid[n]["left"] = NULL THEN "left" ELSE "right"
           c == t.kid[n][Flip(s)]
           p == t.parent[n]
           w == Forget(Relink(SetParent(t, c, p), p, n, c), n)
           r == UnlinkTop(t, n)
<1>1. s \in Side /\ t.kid[n][s] = NULL
  BY DEF Side
<1>2. Flip(s) = IF t.kid[n]["left"] = NULL THEN "right" ELSE "left"
  BY DEF Flip
<1>3. /\ r = [tree |-> w, child |-> c, parent |-> p, red |-> IsRed(t, n)]
      /\ r.tree = w /\ r.child = c /\ r.parent = p /\ r.red = IsRed(t, n)
  <2>1. r = [tree |-> w, child |-> c, parent |-> p, red |-> IsRed(t, n)]
    BY <1>2 DEF UnlinkTop
  <2> HIDE DEF s, c, p, w, r
  <2> QED BY <2>1
<1>4. t.kid[n][Flip(s)] = c /\ t.parent[n] = p
      /\ Forget(Relink(SetParent(t, c, p), p, n, c), n) = w
  OBVIOUS
<1> HIDE DEF s, c, p, w, r
<1>5. Spliced(t, w, n, c)
  BY <1>1, <1>4, UnlinkTopFields
<1>6. Mem(w, WithoutSub(sub, n)) = Mem(t, sub) \ {n}
  BY <1>1, <1>4, <1>5, SpliceShape
<1>7. CASE n \in t.red
  <2>1. StateOK(w, "idle", x, y, WithoutSub(sub, n), h)
    BY <1>1, <1>4, <1>5, <1>7, SpliceRed
  <2>2. Becomes(Mem(t, sub) \ {n}, w, "idle", x, y)
    BY <1>6, <2>1 DEF Becomes
  <2> QED BY <1>3, <1>7, <2>2 DEF Erased, IsRed, r
<1>8. CASE n \notin t.red
  <2>1. StateOK(w, "erase_color", c, p, WithoutSub(sub, n), h)
    BY <1>1, <1>4, <1>5, <1>8, SpliceBlack
  <2>2. Becomes(Mem(t, sub) \ {n}, w, "erase_color", c, p)
    BY <1>6, <2>1 DEF Becomes
  <2> QED BY <1>3, <1>8, <2>2 DEF Erased, IsRed, r
<1> QED BY <1>7, <1>8

LEMMA UnlinkInnerStep ==
  ASSUME NEW t, NEW sub, Shape(t, sub), NEW n \in Mem(t, sub),
         NEW h, Balanced(t, sub, h, {}),
         \A x \in Mem(t, sub) : x \in t.red => x # t.root /\ t.parent[x] \notin t.red,
         NULL \notin {t.kid[n][s] : s \in Side}, NEW x \in Link, NEW y \in Link
  PROVE  Erased(Mem(t, sub) \ {n}, UnlinkInner(t, n), x, y)
<1> DEFINE M == Mem(t, sub)
           m == Extreme(t, t.kid[n]["right"], "left")
           c == t.kid[m]["right"]
           p == t.parent[m]
           g == t.parent[n]
           u == Forget(Relink(SetParent(t, c, p), p, m, c), m)
           v == WithoutSub(sub, m)
           r == UnlinkInner(t, n)
           f == r.tree
<1>0. t \in Tree /\ n \in Node /\ "left" \in Side /\ Flip("left") = "right"
  BY Members1 DEF Shape, Side, Flip
<1>1. t.kid[n]["left"] # NULL /\ t.kid[n]["right"] # NULL
  BY DEF Side
<1>2. /\ Extreme(t, t.kid[n]["right"], "left") = m /\ t.kid[m]["right"] = c
      /\ t.parent[m] = p /\ t.parent[n] = g
      /\ Forget(Relink(SetParent(t, c, p), p, m, c), m) = u
  OBVIOUS
<1> HIDE DEF m, c, p, g, u
<1>3. /\ m \in M /\ m # n /\ t.kid[m]["left"] = NULL
      /\ \A z \in M \ {m, n}, s \in Side : On(s, z, n) => On(s, z, m)
  BY <1>1, <1>2, SuccessorIs
<1>4. Around(t, n, m, c, p, g)
  BY <1>1, <1>2, AroundIs
<1>5. c # n /\ c \in Link /\ p \in Link /\ m \in Node
  BY <1>4, LinkFacts DEF Around, Link
<1>6. /\ InnerFields(t, f, n, m, c, p, g)
      /\ r.child = c /\ r.parent = Renamed(n, m, p) /\ r.red = IsRed(t, m)
  BY <1>0, <1>2, <1>4, UnlinkInnerFields
<1> HIDE DEF r
<1>7. Spliced(t, u, m, c)
  <2>1. t.kid[m][Flip("left")] = c
    BY <1>0, <1>2
  <2> QED BY <1>0, <1>2, <1>3, <2>1, UnlinkTopFields
<1>8. Shape(u, v) /\ Mem(u, v) = M \ {m}
  <2>1. t.kid[m][Flip("left")] = c
    BY <1>0, <1>2
  <2> QED BY <1>0, <1>3, <1>7, <2>1, SpliceShape
<1>9. Substituted(u, f, n, m)
  BY <1>0, <1>2, <1>4, <1>6, <1>7, InnerIsBoth
<1> HIDE DEF f, v
<1>10. n \in Mem(u, v) /\ m \notin Mem(u, v) /\ m \in Node
       /\ \A z \in Mem(u, v) \ {n}, s \in Side : On(s, z, n) => On(s, z, m)
  BY <1>3, <1>5, <1>8
<1>11. (Mem(u, v) \ {n}) \cup {m} = M \ {n}
  BY <1>3, <1>8
<1>12. t.kid[m][Flip("left")] = c
  BY <1>0, <1>2
<1>13. CASE m \in t.red
  <2>1. StateOK(u, "idle", x, y, v, h)
    BY <1>0, <1>3, <1>7, <1>12, <1>13, SpliceRed DEF v
  <2>2. Becomes((Mem(u, v) \ {n}) \cup {m}, f, "idle", Renamed(n, m, x), Renamed(n, m, y))
    BY <1>9, <1>10, <2>1, SubstituteState
  <2>3. Becomes(M \ {n}, f, "idle", Renamed(n, m, x), Renamed(n, m, y))
    BY <1>11, <2>2
  <2>4. Becomes(M \ {n}, f, "idle", x, y)
    <3> HIDE DEF M
    <3> QED BY <2>3, IdleAny
  <2> QED BY <1>6, <1>13, <2>4 DEF Erased, IsRed, f, r
<1>14. CASE m \notin t.red
  <2>1. StateOK(u, "erase_color", c, p, v, h)
    BY <1>0, <1>2, <1>3, <1>7, <1>12, <1>14, SpliceBlack DEF v
  <2>2. Becomes((Mem(u, v) \ {n}) \cup {m}, f, "erase_color", Renamed(n, m, c), Renamed(n, m, p))
    BY <1>9, <1>10, <2>1, SubstituteState
  <2>3. Renamed(n, m, c) = c
    BY <1>5 DEF Renamed
  <2>4. Becomes(M \ {n}, f, "erase_color", c, Renamed(n, m, p))
    BY <1>11, <2>2, <2>3
  <2> QED BY <1>6, <1>14, <2>4 DEF Erased, IsRed, f, r
<1> QED BY <1>13, <1>14

(* An erasure: the node that goes leaves the set, and its colour says      *)
(* whether the loop runs.                                                  *)
LEMMA EraseStep ==
  ASSUME NEW sub, NEW h, StateOK(tree, pc, node, up, sub, h), NEW n \in Node, Erase(n)
  PROVE  n \in Mem(tree, sub) /\ Becomes(Mem(tree, sub) \ {n}, tree', pc', node', up')
<1> DEFINE r == Unlink(tree, n)
<1>1. /\ pc = "idle" /\ n \in Members /\ tree' = r.tree
      /\ IF r.red THEN pc' = pc /\ node' = node /\ up' = up
                  ELSE pc' = "erase_color" /\ node' = r.child /\ up' = r.parent
  BY DEF Erase
<1>2. /\ Shape(tree, sub) /\ Balanced(tree, sub, h, {})
      /\ \A x \in Mem(tree, sub) :
           x \in tree.red => x # tree.root /\ tree.parent[x] \notin tree.red
      /\ node \in Link /\ up \in Link
  BY <1>1, IdleState
<1>3. n \in Mem(tree, sub)
  BY <1>1, <1>2, MembersAre DEF Members
<1>4. Erased(Mem(tree, sub) \ {n}, r, node, up)
  <2>1. CASE NULL \in {tree.kid[n][s] : s \in Side}
    <3>1. r = UnlinkTop(tree, n)
      BY <2>1 DEF Unlink
    <3>2. Erased(Mem(tree, sub) \ {n}, UnlinkTop(tree, n), node, up)
      BY <1>2, <1>3, <2>1, UnlinkTopStep
    <3> QED BY <3>1, <3>2
  <2>2. CASE NULL \notin {tree.kid[n][s] : s \in Side}
    <3>1. r = UnlinkInner(tree, n)
      BY <2>2 DEF Unlink
    <3>2. Erased(Mem(tree, sub) \ {n}, UnlinkInner(tree, n), node, up)
      BY <1>2, <1>3, <2>2, UnlinkInnerStep
    <3> QED BY <3>1, <3>2
  <2> QED BY <2>1, <2>2
<1> HIDE DEF r
<1>5. Becomes(Mem(tree, sub) \ {n}, tree', pc', node', up')
  BY <1>1, <1>4 DEF Erased
<1> QED BY <1>3, <1>5

-----------------------------------------------------------------------------
(* A replacement.                                                          *)

ReplacedTree(t, n, m) ==
  LET p == t.parent[n]
      k == t.kid[n]
      t3 == SetParent(SetParent(Relink(t, p, n, m), k["left"], m), k["right"], m)
  IN  Forget([t3 EXCEPT !.kid[m] = k, !.parent[m] = p,
                        !.red = IF IsRed(t3, n) THEN @ \cup {m} ELSE @], n)

LEMMA ReplaceFields ==
  ASSUME NEW t, NEW sub, Shape(t, sub), NEW n \in Mem(t, sub),
         NEW m \in Node, m \notin Mem(t, sub)
  PROVE  Substituted(t, ReplacedTree(t, n, m), n, m)
<1> DEFINE p == t.parent[n]
           l == t.kid[n]["left"]
           r == t.kid[n]["right"]
           q == SideOf(t, p, n)
           t1 == Relink(t, p, n, m)
           t2 == SetParent(t1, l, m)
           t3 == SetParent(t2, r, m)
           K == [t3.kid EXCEPT ![m] = t.kid[n]]
           P == [t3.parent EXCEPT ![m] = p]
           X == IF n \in t3.red THEN t3.red \cup {m} ELSE t3.red
           u == [t3 EXCEPT !.kid = K, !.parent = P, !.red = X]
           w == Forget(u, n)
           R(x) == Renamed(n, m, x)
<1>1. /\ t \in Tree /\ n \in Node /\ n # NULL /\ n # m /\ m \in Link /\ m # NULL
      /\ l \in Link /\ r \in Link
      /\ "left" \in Side /\ "right" \in Side /\ \A d \in Side : d = "left" \/ d = "right"
  BY Members1, LinkFacts, TreeFields DEF Shape, Side, Link
<1>2. /\ p \in Link /\ p # n
      /\ p = NULL <=> n = t.root
      /\ \A x \in Node, d \in Side : t.kid[x][d] = n <=> p # NULL /\ x = p /\ d = q
  BY LinkTo
<1>3. \A x \in Node : t.parent[x] = n <=> x = l \/ x = r
  <2>1. ASSUME NEW x \in Node, t.parent[x] = n PROVE x = l \/ x = r
    <3>1. x \in Mem(t, sub)
      BY <1>1, <2>1 DEF Shape, OutOK
    <3>2. x # t.root /\ \E d \in Side : t.kid[n][d] = x
      BY <1>1, <2>1, <3>1, ParentOfMember
    <3> QED BY <1>1, <3>2
  <2>2. ASSUME NEW x \in Node, x = l \/ x = r PROVE t.parent[x] = n
    <3>1. x # NULL
      BY LinkFacts
    <3> QED BY <1>1, <2>2, <3>1, Kids
  <2> QED BY <2>1, <2>2
<1>4. l # m /\ r # m /\ n \notin {l, r}
  <2>1. n \notin {l, r}
    BY <1>1, Kids
  <2>2. l # m /\ r # m
    BY <1>1, Kids
  <2> QED BY <2>1, <2>2
<1>5. m \notin t.red /\ t.red \subseteq Node /\ t.kid \in [Node -> [Side -> Link]]
  BY <1>1, RedAreMembers, TreeFields
<1>6. ReplacedTree(t, n, m) = w
  <2>1. t3 \in Tree
    <3> HIDE DEF p, l, r
    <3>1. t1 \in Tree
      BY <1>1, <1>2, RelinkFields
    <3>2. t2 \in Tree
      <4> HIDE DEF t1
      <4> QED BY <1>1, <3>1, SetParentFields
    <3> HIDE DEF t2
    <3> QED BY <1>1, <3>2, SetParentFields
  <2>2. ReplacedTree(t, n, m) =
          Forget([t3 EXCEPT !.kid[m] = t.kid[n], !.parent[m] = p,
                            !.red = IF IsRed(t3, n) THEN @ \cup {m} ELSE @], n)
    BY DEF ReplacedTree
  <2> HIDE DEF t3, p
  <2>3. [t3 EXCEPT !.kid[m] = t.kid[n], !.parent[m] = p,
                   !.red = IF IsRed(t3, n) THEN @ \cup {m} ELSE @] = u
    BY <2>1 DEF Tree, IsRed
  <2> QED BY <2>2, <2>3
<1> HIDE DEF p, l, r, q
<1>7. /\ t1 \in Tree /\ t1.root = (IF p = NULL THEN m ELSE t.root)
      /\ t1.parent = t.parent /\ t1.red = t.red
      /\ \A x \in Node, d \in Side : t1.kid[x][d] = IF x = p /\ d = q THEN m ELSE t.kid[x][d]
  BY <1>1, <1>2, RelinkFields DEF q
<1> HIDE DEF t1
<1>8. /\ t2 \in Tree /\ t2.root = t1.root /\ t2.kid = t1.kid /\ t2.red = t1.red
      /\ \A x \in Node : t2.parent[x] = IF x = l THEN m ELSE t1.parent[x]
  <2>1. t1 \in Tree /\ l \in Link /\ m \in Link
    BY <1>1, <1>7
  <2> QED BY <2>1, SetParentFields
<1> HIDE DEF t2
<1>9. /\ t3 \in Tree /\ t3.root = t2.root /\ t3.kid = t2.kid /\ t3.red = t2.red
      /\ \A x \in Node : t3.parent[x] = IF x = r THEN m ELSE t2.parent[x]
  <2>1. t2 \in Tree /\ r \in Link /\ m \in Link
    BY <1>1, <1>8
  <2> QED BY <2>1, SetParentFields
<1> HIDE DEF t3
<1>10. /\ t3.kid \in [Node -> [Side -> Link]] /\ t3.parent \in [Node -> Link]
  BY <1>9, TreeFields
<1>11. /\ K \in [Node -> [Side -> Link]] /\ K[m] = t.kid[n]
       /\ \A x \in Node : x # m => K[x] = t3.kid[x]
  BY <1>1, <1>5, <1>10
<1>12. /\ P \in [Node -> Link] /\ P[m] = p
       /\ \A x \in Node : x # m => P[x] = t3.parent[x]
  BY <1>2, <1>10
<1>13. X = (IF n \in t.red THEN t.red \cup {m} ELSE t.red) /\ X \subseteq Node
  BY <1>5, <1>7, <1>8, <1>9
<1> HIDE DEF K, P, X
<1>14. u \in Tree /\ u.root = t3.root /\ u.kid = K /\ u.parent = P /\ u.red = X
  BY <1>9, <1>11, <1>12, <1>13 DEF Tree
<1> HIDE DEF u
<1>15. /\ w \in Tree /\ w.root = u.root /\ w.red = u.red \ {n}
       /\ w.kid[n] = NoKids /\ w.parent[n] = NULL
       /\ \A x \in Node : x # n => w.kid[x] = u.kid[x]
       /\ \A x \in Node : x # n => w.parent[x] = u.parent[x]
  BY <1>1, <1>14, ForgetFields
<1> HIDE DEF w
<1>16. w.root = R(t.root)
  BY <1>2, <1>7, <1>8, <1>9, <1>14, <1>15 DEF Renamed
<1>17. w.red = {R(x) : x \in t.red}
  <2>1. w.red = (IF n \in t.red THEN t.red \cup {m} ELSE t.red) \ {n}
    BY <1>13, <1>14, <1>15
  <2>2. ASSUME NEW x PROVE x \in w.red <=> x \in {R(y) : y \in t.red}
    BY <1>1, <1>5, <2>1 DEF Renamed
  <2> QED BY <2>2
<1>18. w.parent[m] = t.parent[n] /\ \A d \in Side : w.kid[m][d] = t.kid[n][d]
  BY <1>1, <1>11, <1>12, <1>14, <1>15 DEF p
<1>19. \A x \in Node, d \in Side : x # n /\ x # m => w.kid[x][d] = R(t.kid[x][d])
  <2>1. \A x \in Node, d \in Side : x # n /\ x # m =>
          w.kid[x][d] = IF x = p /\ d = q THEN m ELSE t.kid[x][d]
    BY <1>7, <1>8, <1>9, <1>11, <1>14, <1>15
  <2>2. \A x \in Node : x = p => p # NULL
    BY LinkFacts
  <2> QED BY <1>2, <2>1, <2>2 DEF Renamed
<1>20. \A x \in Node : x # n /\ x # m => w.parent[x] = R(t.parent[x])
  <2>1. \A x \in Node : x # n /\ x # m =>
          w.parent[x] = IF x = l \/ x = r THEN m ELSE t.parent[x]
    BY <1>7, <1>8, <1>9, <1>12, <1>14, <1>15
  <2> QED BY <1>3, <2>1 DEF Renamed
<1>21. Substituted(t, w, n, m)
  BY <1>15, <1>16, <1>17, <1>18, <1>19, <1>20 DEF Substituted
<1> QED BY <1>6, <1>21

LEMMA ReplaceStep ==
  ASSUME NEW sub, NEW h, StateOK(tree, pc, node, up, sub, h),
         NEW v \in Node, NEW n \in Node, Replace(v, n)
  PROVE  /\ v \in Mem(tree, sub) /\ n \notin Mem(tree, sub) /\ Key[v] = Key[n]
         /\ Becomes((Mem(tree, sub) \ {v}) \cup {n}, tree', pc', node', up')
<1> DEFINE w == ReplacedTree(tree, v, n)
<1>1. /\ pc = "idle" /\ v \in Members /\ n \notin Members /\ Key[v] = Key[n]
      /\ pc' = pc /\ node' = node /\ up' = up
  BY DEF Replace
<1>2. tree' = w
  BY DEF Replace, ReplacedTree
<1>3. Shape(tree, sub) /\ node \in Link /\ up \in Link
  BY <1>1, IdleState
<1>4. v \in Mem(tree, sub) /\ n \notin Mem(tree, sub)
  BY <1>1, <1>3, MembersAre DEF Members
<1>5. Substituted(tree, w, v, n)
  BY <1>3, <1>4, ReplaceFields
<1>6. \A z \in Mem(tree, sub) \ {v}, s \in Side : On(s, z, v) => On(s, z, n)
  BY <1>1 DEF On
<1> HIDE DEF w
<1>7. StateOK(tree, "idle", node, up, sub, h)
  BY <1>1
<1>8. Becomes((Mem(tree, sub) \ {v}) \cup {n}, w, "idle", Renamed(v, n, node), Renamed(v, n, up))
  BY <1>4, <1>5, <1>6, <1>7, SubstituteState
<1>9. Becomes((Mem(tree, sub) \ {v}) \cup {n}, w, "idle", node, up)
  BY <1>3, <1>8, IdleAny
<1> QED BY <1>1, <1>2, <1>4, <1>9

-----------------------------------------------------------------------------
(* Every step keeps the invariant, and the set of members changes as       *)
(* OrderedSet says.                                                        *)

LEMMA InitOK ==
  ASSUME Init
  PROVE  Becomes({}, tree, pc, node, up)
<1> DEFINE sub == [n \in Node |-> {}]
           h == [n \in Node |-> 0]
           gap == Gap(tree, pc, node, up)
<1>1. /\ tree = [root |-> NULL, kid |-> [n \in Node |-> NoKids],
                 parent |-> [n \in Node |-> NULL], red |-> {}]
      /\ pc = "idle" /\ node = NULL /\ up = NULL
  BY DEF Init
<1>2. NULL \in Link /\ NoKids \in [Side -> Link]
  BY DEF Link, NoKids
<1>3. tree \in Tree
  BY <1>1, <1>2 DEF Tree
<1>4. sub \in [Node -> SUBSET Node] /\ h \in [Node -> Nat]
  OBVIOUS
<1> HIDE DEF sub, h
<1>5. Mem(tree, sub) = {} /\ tree.root = NULL
  BY <1>1 DEF Mem, Sub
<1>6. \A n \in Node : OutOK(tree, n)
  BY <1>1 DEF OutOK
<1>7. Shape(tree, sub)
  BY <1>3, <1>4, <1>5, <1>6 DEF Shape, RootOK
<1>8. Balanced(tree, sub, h, {})
  BY <1>4, <1>5 DEF Balanced
<1>9. StateOK(tree, "idle", NULL, NULL, sub, h)
  BY <1>2, <1>5, <1>7, <1>8, Idle
<1> QED BY <1>1, <1>5, <1>9 DEF Becomes

LEMMA BecomesMembers ==
  ASSUME NEW M, NEW t, NEW p, NEW x, NEW u, Becomes(M, t, p, x, u)
  PROVE  ReachIn(t, t.root) = M
<1>1. PICK sub, h : StateOK(t, p, x, u, sub, h) /\ Mem(t, sub) = M
  BY DEF Becomes
<1> QED BY <1>1, MembersAre DEF StateOK

RBState(M) == Becomes(M, tree, pc, node, up)

LEMMA RebalanceStep ==
  ASSUME NEW sub, NEW h, StateOK(tree, pc, node, up, sub, h), Rebalance
  PROVE  Repaired(sub)
BY InsertRecolourStep, InsertRotateStep, InsertDoneStep,
   EraseRecolourStep, EraseRotateStep, EraseDoneStep DEF Rebalance

(* The set of members is M before a step and N after it.                   *)
SetStep(M, N) ==
  \/ \E n \in Node : (\A m \in M : Key[m] # Key[n]) /\ N = M \cup {n}
  \/ \E n \in Node : n \in M /\ N = M \ {n}
  \/ \E v, n \in Node : v \in M /\ n \notin M /\ Key[v] = Key[n] /\ N = (M \ {v}) \cup {n}
  \/ N = M

LEMMA StepOK ==
  ASSUME NEW M, RBState(M), [Next]_vars
  PROVE  \E N : Becomes(N, tree', pc', node', up') /\ SetStep(M, N)
<1>1. PICK sub, h : StateOK(tree, pc, node, up, sub, h) /\ Mem(tree, sub) = M
  BY DEF RBState, Becomes
<1>2. ASSUME NEW n \in Node, Insert(n)
      PROVE  \E N : Becomes(N, tree', pc', node', up') /\ SetStep(M, N)
  <2>1. /\ Becomes(Mem(tree, sub) \cup {n}, tree', pc', node', up')
        /\ \A m \in Mem(tree, sub) : Key[m] # Key[n]
    BY <1>1, <1>2, InsertStep
  <2>2. SetStep(M, M \cup {n})
    BY <1>1, <2>1 DEF SetStep
  <2> QED BY <1>1, <2>1, <2>2
<1>3. ASSUME NEW n \in Node, Erase(n)
      PROVE  \E N : Becomes(N, tree', pc', node', up') /\ SetStep(M, N)
  <2>1. n \in Mem(tree, sub) /\ Becomes(Mem(tree, sub) \ {n}, tree', pc', node', up')
    BY <1>1, <1>3, EraseStep
  <2>2. SetStep(M, M \ {n})
    BY <1>1, <2>1 DEF SetStep
  <2> QED BY <1>1, <2>1, <2>2
<1>4. ASSUME NEW v \in Node, NEW n \in Node, Replace(v, n)
      PROVE  \E N : Becomes(N, tree', pc', node', up') /\ SetStep(M, N)
  <2>1. /\ v \in Mem(tree, sub) /\ n \notin Mem(tree, sub) /\ Key[v] = Key[n]
        /\ Becomes((Mem(tree, sub) \ {v}) \cup {n}, tree', pc', node', up')
    BY <1>1, <1>4, ReplaceStep
  <2>2. SetStep(M, (M \ {v}) \cup {n})
    BY <1>1, <2>1 DEF SetStep
  <2> QED BY <1>1, <2>1, <2>2
<1>5. ASSUME Rebalance
      PROVE  \E N : Becomes(N, tree', pc', node', up') /\ SetStep(M, N)
  <2>1. Becomes(Mem(tree, sub), tree', pc', node', up')
    BY <1>1, <1>5, RebalanceStep DEF Repaired
  <2>2. SetStep(M, M)
    BY DEF SetStep
  <2> QED BY <1>1, <2>1, <2>2
<1>6. ASSUME UNCHANGED vars
      PROVE  \E N : Becomes(N, tree', pc', node', up') /\ SetStep(M, N)
  <2>1. tree' = tree /\ pc' = pc /\ node' = node /\ up' = up
    BY <1>6 DEF vars
  <2>2. Becomes(M, tree', pc', node', up')
    BY <2>1 DEF RBState
  <2>3. SetStep(M, M)
    BY DEF SetStep
  <2> QED BY <2>2, <2>3
<1> QED BY <1>2, <1>3, <1>4, <1>5, <1>6 DEF Next

-----------------------------------------------------------------------------
(* The loops climb.                                                        *)

LEMMA InsertRecolourClimbs ==
  ASSUME NEW sub, NEW h, StateOK(tree, pc, node, up, sub, h), InsertRecolour
  PROVE  Climbs
<1> DEFINE p == tree.parent[node]
           g == tree.parent[p]
           s == SideOf(tree, g, p)
           M == Mem(tree, sub)
<1>1. pc = "insert_color" /\ RedParent /\ node' = g /\ tree'.kid = tree.kid
  BY InsertLoop, TreeFields DEF InsertRecolour, Shape
<1>2. Shape(tree, sub) /\ node \in M /\ tree.parent[node] = p
  BY <1>1, InsertLoop
<1>3. p \in M /\ g \in M /\ s \in Side /\ tree.kid[g][s] = p /\ node # tree.root
  <2> HIDE DEF p, g, s
  <2> QED BY <1>1, Grandparent DEF p, g, s
<1> HIDE DEF p, g, s
<1>4. sub[node] \subseteq sub[p]
  <2>1. p # NULL
    BY <1>2, <1>3, Members1, LinkFacts
  <2>2. PICK r \in Side : tree.kid[p][r] = node
    BY <1>2, <1>3, <2>1, SideOfChild
  <2>3. node # NULL
    BY <1>2, Members1, LinkFacts
  <2> QED BY <1>2, <1>3, <2>2, <2>3, Kids
<1>5. sub[p] \subseteq sub[g] /\ g \notin sub[p] /\ g \in sub[g]
  <2>1. p # NULL
    BY <1>2, <1>3, Members1, LinkFacts
  <2> QED BY <1>2, <1>3, <2>1, Kids, Members1
<1>6. ReachIn(tree, node) = sub[node] /\ ReachIn(tree, g) = sub[g]
  BY <1>2, <1>3, ReachIs
<1>7. ReachIn(tree', g) = ReachIn(tree, g)
  BY <1>1 DEF ReachIn
<1> QED BY <1>1, <1>4, <1>5, <1>6, <1>7 DEF Climbs

(* Rotating a red sibling of x above their parent leaves x's subtree alone. *)
LEMMA SiblingLeavesBelow ==
  ASSUME NEW sub, NEW h, StateOK(tree, pc, node, up, sub, h), pc = "erase_color",
         BlackNode, NEW s, s = SideOf(tree, up, node), NEW t, t = BlackSibling(s)
  PROVE  ReachIn(t, node) = ReachIn(tree, node)
<1> DEFINE o == tree.kid[up][Flip(s)]
           X == (tree.red \ {o}) \cup {up}
           w == [tree EXCEPT !.red = X]
           v == RotatedSub(w, sub, up, s)
           M == Mem(tree, sub)
<1>1. Hollow(tree, sub, h, up, node, s) /\ s \in Side
  BY EraseLoop
<1>2. /\ Shape(tree, sub) /\ up \in M /\ tree.kid[up][s] = node
      /\ up \in Node /\ o # NULL /\ o # node /\ node # up /\ node \in Link
  <2>1. Shape(tree, sub) /\ up \in M /\ tree.kid[up][s] = node
    BY <1>1 DEF Hollow
  <2>2. o = tree.kid[up][Flip(s)]
    OBVIOUS
  <2> HIDE DEF o
  <2>3. up \in Node /\ o # NULL /\ o # node /\ node # up /\ node \in Link
    BY <1>1, <2>2, HollowFacts
  <2> QED BY <2>1, <2>3
<1>3. node \in M \cup {NULL}
  BY <1>1, <1>2, Kids
<1>4. CASE o \in tree.red
  <2>1. t = Rotate(w, up, s)
    BY <1>4 DEF BlackSibling, Sibling, IsRed
  <2>2. X \subseteq M
    BY <1>2, RedAreMembers
  <2> HIDE DEF X
  <2>3. Shape(w, sub) /\ Mem(w, sub) = M /\ w.kid = tree.kid /\ w.red = X
    BY <1>2, <2>2, Recolour
  <2> HIDE DEF w
  <2>4. Rotated(w, t, up, s, X)
    BY <1>1, <1>2, <2>1, <2>3, RotateFields
  <2>5. Shape(t, v) /\ Mem(t, v) = M
    BY <1>1, <1>2, <2>2, <2>3, <2>4, RotateShape
  <2>6. node \in Node => v[node] = sub[node]
    BY <1>2, <2>3 DEF RotatedSub
  <2> HIDE DEF v, o
  <2>7. Sub(v, node) = Sub(sub, node)
    BY <1>2, <2>6, LinkFacts DEF Sub
  <2> QED BY <1>2, <1>3, <2>5, <2>7, ReachSub
<1>5. CASE o \notin tree.red
  BY <1>5 DEF BlackSibling, Sibling, IsRed
<1> QED BY <1>4, <1>5

LEMMA EraseRecolourClimbs ==
  ASSUME NEW sub, NEW h, StateOK(tree, pc, node, up, sub, h), EraseRecolour
  PROVE  Climbs
<1> DEFINE s == SideOf(tree, up, node)
           t == BlackSibling(s)
<1>1. /\ pc = "erase_color" /\ BlackNode /\ node' = up
      /\ tree' = [t EXCEPT !.red = @ \cup {Sibling(t, s)}]
  BY DEF EraseRecolour
<1>2. s = SideOf(tree, up, node) /\ t = BlackSibling(s)
  OBVIOUS
<1> HIDE DEF s, t
<1>3. /\ s \in Side /\ Same(tree, sub, t, up, node, s)
      /\ ReachIn(t, node) = ReachIn(tree, node)
  BY <1>1, <1>2, EraseLoop, BlackSiblingIs, SiblingLeavesBelow
<1>4. PICK v, k : Hollow(t, v, k, up, node, s)
  BY <1>3 DEF Same
<1>5. Shape(t, v) /\ up \in Mem(t, v) /\ t.kid[up][s] = node
  BY <1>4 DEF Hollow
<1>6. /\ node \in Mem(t, v) \cup {NULL} /\ Sub(v, node) \subseteq v[up]
      /\ up \notin Sub(v, node) /\ up \in v[up]
  BY <1>3, <1>5, Kids, Members1
<1>7. ReachIn(t, node) = Sub(v, node) /\ ReachIn(t, up) = v[up]
  BY <1>5, <1>6, ReachSub, ReachIs
<1>8. tree'.kid = t.kid
  BY <1>1, <1>5, TreeFields DEF Shape, Tree
<1>9. ReachIn(tree', up) = ReachIn(t, up)
  BY <1>8 DEF ReachIn
<1> QED BY <1>1, <1>3, <1>6, <1>7, <1>9 DEF Climbs

-----------------------------------------------------------------------------
(* Some labels of the nodes, their subtrees and their levels, make the     *)
(* invariant hold of the tree and of the loops' locals in every state.     *)
THEOREM TreeInductive == Spec => []RBInv
<1>1. Init => RBInv
  BY InitOK DEF Becomes, RBInv
<1>2. RBInv /\ [Next]_vars => RBInv'
  <2> SUFFICES ASSUME RBInv, [Next]_vars PROVE RBInv'
    OBVIOUS
  <2>1. PICK sub, h : StateOK(tree, pc, node, up, sub, h)
    BY DEF RBInv
  <2>2. RBState(Mem(tree, sub))
    BY <2>1 DEF RBState, Becomes
  <2>3. PICK N : Becomes(N, tree', pc', node', up')
    BY <2>2, StepOK
  <2> QED BY <2>3 DEF Becomes, RBInv
<1> QED BY <1>1, <1>2, PTL DEF Spec

(* The types of the variables, for any set of nodes and any keys.          *)
THEOREM TreeTypes == Spec => []TypeOK
<1>1. RBInv => TypeOK
  BY InvTypeOK DEF RBInv
<1> QED BY <1>1, TreeInductive, PTL

(* Links and parent pointers agree and every node is between its subtrees, *)
(* after every rotation and every replacement of an erased node.           *)
THEOREM AlwaysSearchTree == Spec => []SearchTree
<1>1. RBInv => SearchTree
  BY InvSearchTree DEF RBInv, StateOK
<1> QED BY <1>1, TreeInductive, PTL

(* The red-black rules between calls, and what is missing from them in the *)
(* loops.                                                                  *)
THEOREM AlwaysRedBlack == Spec => []RedBlack
<1>1. RBInv => RedBlack
  BY InvRedBlack DEF RBInv
<1> QED BY <1>1, TreeInductive, PTL

(* The loops find the grandparent and the sibling that they dereference.   *)
THEOREM NeverNullDeref == Spec => []NoNullDeref
<1>1. RBInv => NoNullDeref
  BY InvNoNullDeref DEF RBInv
<1> QED BY <1>1, TreeInductive, PTL

(* first, last, next and prev visit the members in the order of the keys.  *)
THEOREM TraversesInOrder == Spec => []TraversalCorrect
<1>1. RBInv => TraversalCorrect
  BY InvTraversalCorrect DEF RBInv, StateOK
<1> QED BY <1>1, TreeInductive, PTL

(* However large the tree, each iteration of a loop that goes on climbs to *)
(* a larger subtree, or it was the last rotation of an insertion.          *)
THEOREM RepairsClimb == Spec => ClimbsOrEnds
<1>1. RBInv /\ [Next]_vars =>
        [pc # "idle" /\ pc' = pc =>
           Climbs \/ (pc = "insert_color" /\ ~RedParent')]_vars
  <2> SUFFICES ASSUME RBInv, Next, pc # "idle", pc' = pc
               PROVE  Climbs \/ (pc = "insert_color" /\ ~RedParent')
    OBVIOUS
  <2>1. PICK sub, h : StateOK(tree, pc, node, up, sub, h)
    BY DEF RBInv
  <2>2. InsertRecolour \/ InsertRotate \/ EraseRecolour
    BY DEF Next, Insert, Erase, Replace, Rebalance, InsertDone, EraseRotate, EraseDone
  <2>3. CASE InsertRotate
    BY <2>1, <2>3, InsertRotateStep DEF InsertRotate
  <2> QED BY <2>1, <2>2, <2>3, InsertRecolourClimbs, EraseRecolourClimbs
<1> QED BY <1>1, TreeInductive, PTL DEF Spec, ClimbsOrEnds

(* Whatever the rotations do, the tree is a set of nodes with distinct     *)
(* keys, and only an insertion, an erasure or a replacement changes it.    *)
THEOREM TreeImplementsSet == Spec => SetSpec
<1>1. Init => Set!Init
  <2>1. Init => Becomes({}, tree, pc, node, up)
    BY InitOK
  <2>2. Init => Members = {}
    BY <2>1, BecomesMembers DEF Members
  <2> QED BY <2>2 DEF Set!Init
<1>2. RBInv /\ [Next]_vars => [Set!Next]_Members
  <2> SUFFICES ASSUME RBInv, [Next]_vars PROVE [Set!Next]_Members
    OBVIOUS
  <2>1. PICK sub, h : StateOK(tree, pc, node, up, sub, h)
    BY DEF RBInv
  <2> DEFINE M == Mem(tree, sub)
  <2>2. Becomes(M, tree, pc, node, up)
    BY <2>1 DEF Becomes
  <2>3. PICK N : Becomes(N, tree', pc', node', up') /\ SetStep(M, N)
    BY <2>2, StepOK DEF RBState
  <2>4. Members = M
    <3> HIDE DEF M
    <3> QED BY <2>2, BecomesMembers DEF Members
  <2>5. Members' = N
    BY <2>3, BecomesMembers DEF Members
  <2> HIDE DEF M
  <2> QED BY <2>3, <2>4, <2>5 DEF SetStep, Set!Next, Set!Insert, Set!Erase, Set!Replace
<1> QED BY <1>1, <1>2, TreeInductive, PTL DEF Spec, SetSpec, Set!Spec

=============================================================================
