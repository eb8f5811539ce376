------------------------------ MODULE Recursion ------------------------------
(***************************************************************************)
(* Induction over the natural numbers and over a finite order, and the     *)
(* functions that recursive definitions choose, as facts about sets, and   *)
(* the folds that join and add up sequences: no lemma here takes an        *)
(* operator as its parameter.                                              *)
(***************************************************************************)
EXTENDS Integers, SequencesExt, FiniteSetTheorems, SequenceTheorems, TLAPS

(* A nonempty family of subsets of a finite set has a minimal one.         *)
LEMMA MinimalSet ==
  ASSUME NEW S, IsFiniteSet(S), NEW F, F \subseteq SUBSET S, F # {}
  PROVE  \E A \in F : \A B \in F : B \subseteq A => B = A
<1>1. IsWellFoundedOn(StrictSubsetOrdering(S), FiniteSubsetsOf(S))
  BY FS_StrictSubsetOrderingWellFounded
<1>2. FiniteSubsetsOf(S) = SUBSET S
  BY FS_FiniteSubsetsOfFinite
<1>3. PICK A \in F : \A B \in F : <<B, A>> \notin StrictSubsetOrdering(S)
  BY <1>1, <1>2, WFMin
<1>4. ASSUME NEW B \in F, B \subseteq A, B # A PROVE FALSE
  <2>1. <<B, A>> \in StrictSubsetOrdering(S)
    BY <1>4 DEF StrictSubsetOrdering
  <2> QED BY <1>3, <2>1
<1> QED BY <1>4

LEMMA NatInduct ==
  ASSUME NEW S, 0 \in S, \A i \in Nat : i \in S => i + 1 \in S
  PROVE  Nat \subseteq S
<1> SUFFICES ASSUME NEW k \in Nat, k \notin S PROVE FALSE
  OBVIOUS
<1> DEFINE U == 0..k
           F == {0..i : i \in {j \in U : j \notin S}}
<1>1. IsFiniteSet(U)
  BY FS_Interval
<1>2. F \subseteq SUBSET U /\ F # {}
  <2>1. k \in U
    OBVIOUS
  <2> QED BY <2>1
<1>3. PICK A \in F : \A B \in F : B \subseteq A => B = A
  <2> HIDE DEF F, U
  <2> QED BY <1>1, <1>2, MinimalSet
<1>4. PICK i \in U : i \notin S /\ A = 0..i
  BY <1>3
<1>5. i # 0 /\ i - 1 \in U /\ i - 1 \in Nat /\ i = (i - 1) + 1
  BY <1>4
<1>6. i - 1 \notin S
  BY <1>4, <1>5
<1>7. 0..(i - 1) \in F
  BY <1>5, <1>6
<1>8. 0..(i - 1) \subseteq A /\ 0..(i - 1) # A
  <2>1. i \in 0..i /\ i \notin 0..(i - 1)
    BY <1>5
  <2> QED BY <1>4, <2>1
<1> QED BY <1>3, <1>7, <1>8

(* f[x] is computed along the walk by nx from x to the place where it      *)
(* stops, each place on the way doing its op.                              *)
IsFold(f, X, stop, val, nx, op) ==
  f = [x \in X |-> IF x \in stop THEN val[x] ELSE op[x][f[nx[x]]]]

(* The walks end: every nonempty set of places has one where a walk leaves *)
(* it.                                                                     *)
WalksEnd(X, stop, nx) ==
  \A T \in SUBSET X : T # {} => \E x \in T : x \in stop \/ nx[x] \notin T

LEMMA FoldExists ==
  ASSUME NEW X, NEW Y, NEW stop \in SUBSET X, NEW val \in [X -> Y],
         NEW nx \in [X -> X], NEW op \in [X -> [Y -> Y]], WalksEnd(X, stop, nx)
  PROVE  \E f \in [X -> Y] : IsFold(f, X, stop, val, nx, op)
<1> DEFINE Closed(R) == \A x \in X :
             /\ x \in stop => <<x, val[x]>> \in R
             /\ x \notin stop => \A y \in Y : <<nx[x], y>> \in R => <<x, op[x][y]>> \in R
           W == {q \in X \X Y : \A R \in SUBSET (X \X Y) : Closed(R) => q \in R}
<1>1. Closed(W)
  <2>1. ASSUME NEW x \in X, x \in stop PROVE <<x, val[x]>> \in W
    <3>1. val[x] \in Y
      OBVIOUS
    <3> QED BY <2>1, <3>1
  <2>2. ASSUME NEW x \in X, x \notin stop, NEW y \in Y, <<nx[x], y>> \in W
        PROVE  <<x, op[x][y]>> \in W
    <3>0. op[x][y] \in Y
      OBVIOUS
    <3>1. ASSUME NEW R \in SUBSET (X \X Y), Closed(R) PROVE <<x, op[x][y]>> \in R
      <4>1. <<nx[x], y>> \in R
        BY <2>2, <3>1
      <4> QED BY <2>2, <3>1, <4>1
    <3> HIDE DEF Closed
    <3> QED BY <3>0, <3>1
  <2> HIDE DEF W
  <2> QED BY <2>1, <2>2
<1>2. ASSUME NEW q \in W,
             \A x \in X : /\ x \in stop => q # <<x, val[x]>>
                          /\ x \notin stop => \A y \in Y : <<nx[x], y>> \in W \ {q} => q # <<x, op[x][y]>>
      PROVE  FALSE
  <2> DEFINE R == W \ {q}
  <2>1. R \in SUBSET (X \X Y)
    OBVIOUS
  <2>2. Closed(R)
    <3> HIDE DEF W
    <3> QED BY <1>1, <1>2
  <2> HIDE DEF Closed, R
  <2>3. q \in R
    BY <2>1, <2>2
  <2> QED BY <2>3 DEF R
<1> DEFINE One(x) == \E y \in Y : \A z \in Y : <<x, z>> \in W <=> z = y
           T == {x \in X : ~One(x)}
<1>3. T = {}
  <2> SUFFICES ASSUME T # {} PROVE FALSE
    OBVIOUS
  <2>1. PICK x \in T : x \in stop \/ nx[x] \notin T
    <3>1. T \in SUBSET X
      OBVIOUS
    <3> HIDE DEF T
    <3> QED BY <3>1 DEF WalksEnd
  <2>2. CASE x \in stop
    <3>1. ASSUME NEW z \in Y, <<x, z>> \in W, z # val[x] PROVE FALSE
      <4> DEFINE q == <<x, z>>
      <4>1. \A v \in X : v \in stop => q # <<v, val[v]>>
        BY <3>1
      <4>2. \A v \in X : v \notin stop => \A y \in Y : <<nx[v], y>> \in W \ {q} => q # <<v, op[v][y]>>
        BY <2>2
      <4> HIDE DEF q, W
      <4> QED BY <1>2, <3>1, <4>1, <4>2 DEF q
    <3>2. <<x, val[x]>> \in W /\ val[x] \in Y
      <4> HIDE DEF W
      <4> QED BY <1>1, <2>1, <2>2 DEF T
    <3> HIDE DEF W
    <3>3. One(x)
      BY <3>1, <3>2
    <3> QED BY <2>1, <3>3
  <2>3. CASE x \notin stop
    <3>1. nx[x] \notin T /\ nx[x] \in X /\ x \in X
      BY <2>1, <2>3
    <3>2. PICK y \in Y : \A z \in Y : <<nx[x], z>> \in W <=> z = y
      BY <3>1
    <3>3. <<x, op[x][y]>> \in W /\ op[x][y] \in Y
      <4>1. <<nx[x], y>> \in W /\ op[x] \in [Y -> Y]
        <5> HIDE DEF W
        <5> QED BY <3>1, <3>2
      <4> HIDE DEF W
      <4> QED BY <1>1, <2>3, <3>1, <3>2, <4>1
    <3>4. ASSUME NEW z \in Y, <<x, z>> \in W, z # op[x][y] PROVE FALSE
      <4> DEFINE q == <<x, z>>
      <4>1. \A w \in Y : <<nx[x], w>> \in W => op[x][w] # z
        <5> HIDE DEF W
        <5> QED BY <3>2, <3>4
      <4>2. \A v \in X : v \in stop => q # <<v, val[v]>>
        BY <2>3
      <4>3. \A v \in X : v \notin stop => \A w \in Y : <<nx[v], w>> \in W \ {q} => q # <<v, op[v][w]>>
        <5> HIDE DEF W
        <5> QED BY <4>1
      <4> HIDE DEF q, W
      <4> QED BY <1>2, <3>4, <4>2, <4>3 DEF q
    <3> HIDE DEF W
    <3>5. One(x)
      BY <3>3, <3>4
    <3> QED BY <2>1, <3>5
  <2> QED BY <2>2, <2>3
<1> DEFINE f == [x \in X |-> CHOOSE y \in Y : <<x, y>> \in W]
<1>4. ASSUME NEW x \in X PROVE f[x] \in Y /\ \A z \in Y : <<x, z>> \in W <=> z = f[x]
  <2>1. One(x)
    <3> HIDE DEF One
    <3> QED BY <1>3
  <2> HIDE DEF W
  <2> QED BY <2>1
<1>5. f \in [X -> Y]
  <2> HIDE DEF W
  <2>1. \A x \in X : f[x] \in Y
    BY <1>4
  <2> QED BY <2>1
<1>6. ASSUME NEW x \in X
      PROVE  f[x] = IF x \in stop THEN val[x] ELSE op[x][f[nx[x]]]
  <2> HIDE DEF W, f
  <2>1. CASE x \in stop
    <3>1. <<x, val[x]>> \in W /\ val[x] \in Y
      BY <1>1, <2>1
    <3> QED BY <1>4, <2>1, <3>1
  <2>2. CASE x \notin stop
    <3>1. nx[x] \in X
      OBVIOUS
    <3>2. f[nx[x]] \in Y /\ <<nx[x], f[nx[x]]>> \in W
      BY <1>4, <3>1
    <3>3. <<x, op[x][f[nx[x]]]>> \in W /\ op[x][f[nx[x]]] \in Y
      BY <1>1, <2>2, <3>2
    <3> QED BY <1>4, <2>2, <3>2, <3>3
  <2> QED BY <2>1, <2>2
<1>7. f = [x \in X |-> IF x \in stop THEN val[x] ELSE op[x][f[nx[x]]]]
  <2> HIDE DEF W
  <2> DEFINE e == [x \in X |-> IF x \in stop THEN val[x] ELSE op[x][f[nx[x]]]]
  <2>1. \A x \in X : f[x] = e[x]
    <3> HIDE DEF f
    <3> QED BY <1>6
  <2>2. f = [x \in X |-> f[x]]
    <3> HIDE DEF f
    <3> QED BY <1>5
  <2>3. e = [x \in X |-> e[x]]
    <3> HIDE DEF f
    <3> QED OBVIOUS
  <2> HIDE DEF f, e
  <2>4. f = e
    BY <2>1, <2>2, <2>3
  <2> QED BY <2>4 DEF e
<1> HIDE DEF f
<1> QED BY <1>5, <1>7 DEF IsFold

(* It has values of the right type, and is the only one.                   *)
LEMMA FoldUnique ==
  ASSUME NEW X, NEW Y, NEW stop \in SUBSET X, NEW val \in [X -> Y],
         NEW nx \in [X -> X], NEW op \in [X -> [Y -> Y]], WalksEnd(X, stop, nx),
         NEW f, IsFold(f, X, stop, val, nx, op),
         NEW g, IsFold(g, X, stop, val, nx, op)
  PROVE  f \in [X -> Y] /\ f = g
<1>1. /\ f = [x \in X |-> f[x]] /\ g = [x \in X |-> g[x]]
      /\ \A x \in X : f[x] = IF x \in stop THEN val[x] ELSE op[x][f[nx[x]]]
      /\ \A x \in X : g[x] = IF x \in stop THEN val[x] ELSE op[x][g[nx[x]]]
  BY DEF IsFold
<1> DEFINE T == {x \in X : f[x] \notin Y \/ f[x] # g[x]}
<1>2. T = {}
  <2> SUFFICES ASSUME T # {} PROVE FALSE
    OBVIOUS
  <2>1. PICK x \in T : x \in stop \/ nx[x] \notin T
    <3>1. T \in SUBSET X
      OBVIOUS
    <3> HIDE DEF T
    <3> QED BY <3>1 DEF WalksEnd
  <2>2. x \in X /\ nx[x] \in X
    OBVIOUS
  <2>3. x \notin stop => f[nx[x]] \in Y /\ f[nx[x]] = g[nx[x]]
    BY <2>1, <2>2
  <2>4. f[x] \in Y /\ f[x] = g[x]
    <3>1. CASE x \in stop
      BY <1>1, <2>2, <3>1
    <3>2. CASE x \notin stop
      <4>1. f[x] = op[x][f[nx[x]]] /\ g[x] = op[x][g[nx[x]]] /\ op[x] \in [Y -> Y]
        BY <1>1, <2>2, <3>2
      <4>2. f[nx[x]] \in Y /\ f[nx[x]] = g[nx[x]]
        BY <2>3, <3>2
      <4> HIDE DEF T
      <4> QED BY <4>1, <4>2
    <3> QED BY <3>1, <3>2
  <2> QED BY <2>4
<1> QED BY <1>1, <1>2

(* f[x] is the value of the place where the walk along nx from x stops.    *)
IsWalk(f, X, stop, val, nx) ==
  f = [x \in X |-> IF x \in stop THEN val[x] ELSE f[nx[x]]]

LEMMA WalkExists ==
  ASSUME NEW X, NEW Y, NEW stop \in SUBSET X, NEW val \in [X -> Y],
         NEW nx \in [X -> X],
         \A T \in SUBSET X : T # {} => \E x \in T : x \in stop \/ nx[x] \notin T
  PROVE  \E f \in [X -> Y] : IsWalk(f, X, stop, val, nx)
<1> DEFINE op == [x \in X |-> [y \in Y |-> y]]
<1>1. op \in [X -> [Y -> Y]] /\ \A x \in X, y \in Y : op[x][y] = y
  OBVIOUS
<1>2. WalksEnd(X, stop, nx)
  BY DEF WalksEnd
<1> HIDE DEF op
<1>3. PICK f \in [X -> Y] : IsFold(f, X, stop, val, nx, op)
  BY <1>1, <1>2, FoldExists
<1>4. f = [x \in X |-> IF x \in stop THEN val[x] ELSE op[x][f[nx[x]]]]
  BY <1>3 DEF IsFold
<1>5. \A x \in X : f[x] = IF x \in stop THEN val[x] ELSE f[nx[x]]
  BY <1>1, <1>4
<1>6. IsWalk(f, X, stop, val, nx)
  BY <1>5 DEF IsWalk
<1> QED BY <1>6

(* Going up to a place that stops ends.                                    *)
LEMMA UpEnds ==
  ASSUME NEW k \in Nat, NEW stop, NEW nx \in [1..k -> 1..k],
         \A i \in 1..k : i \notin stop => nx[i] > i
  PROVE  WalksEnd(1..k, stop, nx)
<1> SUFFICES ASSUME NEW T \in SUBSET (1..k), T # {},
                    \A x \in T : x \notin stop /\ nx[x] \in T
             PROVE  FALSE
  BY DEF WalksEnd
<1> DEFINE S == {i \in Nat : \A j \in T : j + i <= k}
<1>1. 0 \in S
  OBVIOUS
<1>2. ASSUME NEW i \in Nat, i \in S PROVE i + 1 \in S
  <2>1. ASSUME NEW j \in T, ~(j + (i + 1) <= k) PROVE FALSE
    <3>1. j \in 1..k /\ nx[j] > j /\ nx[j] \in T /\ nx[j] \in 1..k
      OBVIOUS
    <3>2. nx[j] + i <= k
      BY <1>2, <3>1
    <3> QED BY <2>1, <3>1, <3>2
  <2> QED BY <2>1
<1>3. Nat \subseteq S
  <2> HIDE DEF S
  <2> QED BY <1>1, <1>2, NatInduct
<1>4. PICK j : j \in T
  OBVIOUS
<1>5. k \in S
  <2> HIDE DEF S
  <2> QED BY <1>3
<1> QED BY <1>4, <1>5

(* A nonempty set of numbers has a least one.                              *)
LEMMA LeastIs ==
  ASSUME NEW T \in SUBSET Nat, T # {}
  PROVE  \E x \in T : \A y \in T : x <= y
<1> SUFFICES ASSUME \A x \in T : \E y \in T : y < x
             PROVE  FALSE
  OBVIOUS
<1> DEFINE S == {i \in Nat : \A j \in T : j >= i}
<1>1. 0 \in S
  OBVIOUS
<1>2. ASSUME NEW i \in Nat, i \in S PROVE i + 1 \in S
  <2>1. ASSUME NEW j \in T PROVE j >= i + 1
    <3>1. PICK y \in T : y < j
      OBVIOUS
    <3>2. y >= i /\ y \in Nat /\ j \in Nat
      BY <1>2
    <3> QED BY <3>1, <3>2
  <2> QED BY <2>1
<1>3. Nat \subseteq S
  <2> HIDE DEF S
  <2> QED BY <1>1, <1>2, NatInduct
<1>4. PICK x : x \in T
  OBVIOUS
<1>5. x \in Nat /\ x + 1 \in S
  <2>1. x \in Nat
    BY <1>4
  <2>2. x + 1 \in Nat
    BY <2>1
  <2> HIDE DEF S
  <2> QED BY <1>3, <2>1, <2>2
<1> QED BY <1>4, <1>5

-----------------------------------------------------------------------------
(* Sequences that are joined.                                              *)

(* Going down the numbers to 1 ends.                                       *)
LEMMA DownEnds ==
  ASSUME NEW k \in Nat, NEW nx \in [1..k -> 1..k], \A i \in 1..k : i # 1 => nx[i] = i - 1
  PROVE  WalksEnd(1..k, {1} \cap (1..k), nx)
<1> SUFFICES ASSUME NEW T \in SUBSET (1..k), T # {},
                    \A x \in T : x # 1 /\ nx[x] \in T
             PROVE  FALSE
  BY DEF WalksEnd
<1> DEFINE S == {i \in Nat : \A j \in T : j > i}
<1>1. 0 \in S
  OBVIOUS
<1>2. ASSUME NEW i \in Nat, i \in S PROVE i + 1 \in S
  <2>1. ASSUME NEW j \in T, ~(j > i + 1) PROVE FALSE
    <3>1. j \in 1..k /\ j > i /\ j - 1 \in T
      BY <1>2
    <3>2. j - 1 > i
      BY <1>2, <3>1
    <3> QED BY <2>1, <3>1, <3>2
  <2> QED BY <2>1
<1>3. Nat \subseteq S
  <2> HIDE DEF S
  <2> QED BY <1>1, <1>2, NatInduct
<1>4. PICK j : j \in T
  OBVIOUS
<1>5. j \in Nat /\ j \in S
  <2>1. j \in Nat
    BY <1>4
  <2> HIDE DEF S
  <2> QED BY <1>3, <2>1
<1> QED BY <1>4, <1>5

(* The joined sequence, one after another.                                 *)
Joins(f, fs, S) ==
  /\ f \in [1..Len(fs) -> Seq(S)]
  /\ \A i \in 1..Len(fs) : f[i] = IF i = 1 THEN fs[i] ELSE f[i - 1] \o fs[i]

LEMMA FlattenIs ==
  ASSUME NEW S, NEW fs \in Seq(Seq(S)), Len(fs) # 0
  PROVE  \E f : Joins(f, fs, S) /\ FlattenSeq(fs) = f[Len(fs)]
<1> DEFINE k == Len(fs)
           X == 1..k
           Y == Seq(S)
           stop == {1} \cap X
           val == [i \in X |-> fs[i]]
           nx == [i \in X |-> IF i = 1 THEN 1 ELSE i - 1]
           op == [i \in X |-> [y \in Y |-> y \o fs[i]]]
           flatten[i \in X] == IF i = 1 THEN fs[i] ELSE flatten[i - 1] \o fs[i]
<1>1. FlattenSeq(fs) = flatten[k]
  BY DEF FlattenSeq
<1>2. k \in Nat /\ k \in X
  OBVIOUS
<1>3. val \in [X -> Y] /\ nx \in [X -> X] /\ stop \in SUBSET X
  BY <1>2
<1>4. op \in [X -> [Y -> Y]]
  OBVIOUS
<1>5. WalksEnd(X, stop, nx)
  BY <1>2, <1>3, DownEnds
<1>6. PICK f \in [X -> Y] : IsFold(f, X, stop, val, nx, op)
  <2> HIDE DEF X, Y, stop, val, nx, op
  <2> QED BY <1>3, <1>4, <1>5, FoldExists
<1>7. f = [i \in X |-> IF i = 1 THEN fs[i] ELSE f[i - 1] \o fs[i]]
  <2>1. f = [i \in X |-> IF i \in stop THEN val[i] ELSE op[i][f[nx[i]]]]
    BY <1>6 DEF IsFold
  <2>2. ASSUME NEW i \in X
        PROVE  (IF i \in stop THEN val[i] ELSE op[i][f[nx[i]]])
                 = IF i = 1 THEN fs[i] ELSE f[i - 1] \o fs[i]
    <3>1. i # 1 => i - 1 \in X
      BY <1>2
    <3> HIDE DEF X, Y
    <3>2. i # 1 => f[i - 1] \in Y
      BY <1>6, <3>1
    <3> QED BY <3>1, <3>2
  <2> HIDE DEF X, Y, stop, val, nx, op
  <2> QED BY <2>1, <2>2
<1>8. flatten = [i \in X |-> IF i = 1 THEN fs[i] ELSE flatten[i - 1] \o fs[i]]
  <2>1. \E g : g = [i \in X |-> IF i = 1 THEN fs[i] ELSE g[i - 1] \o fs[i]]
    <3> HIDE DEF X
    <3> QED BY <1>7
  <2> HIDE DEF X
  <2> QED BY <2>1
<1>9. \A i \in X : flatten[i] = IF i = 1 THEN fs[i] ELSE flatten[i - 1] \o fs[i]
  <2> HIDE DEF X, flatten
  <2> QED BY <1>8
<1> HIDE DEF flatten
<1> DEFINE A == {i \in Nat : i \in X => flatten[i] = f[i]}
<1>10. Nat \subseteq A
  <2>1. 0 \in A
    OBVIOUS
  <2>2. ASSUME NEW i \in Nat, i \in A PROVE i + 1 \in A
    <3>1. SUFFICES ASSUME i + 1 \in X PROVE flatten[i + 1] = f[i + 1]
      OBVIOUS
    <3>2. i # 0 => i \in X
      BY <3>1, <1>2
    <3>3. f[i + 1] = IF i + 1 = 1 THEN fs[i + 1] ELSE f[i] \o fs[i + 1]
      <4>1. \A j \in X : f[j] = IF j = 1 THEN fs[j] ELSE f[j - 1] \o fs[j]
        <5> HIDE DEF X
        <5> QED BY <1>7
      <4>2. (i + 1) - 1 = i
        OBVIOUS
      <4> HIDE DEF X, A
      <4> QED BY <3>1, <4>1, <4>2
    <3>4. flatten[i + 1] = IF i + 1 = 1 THEN fs[i + 1] ELSE flatten[i] \o fs[i + 1]
      BY <1>9, <3>1
    <3> QED BY <2>2, <3>2, <3>3, <3>4
  <2> HIDE DEF A
  <2> QED BY <2>1, <2>2, NatInduct
<1>11. flatten[k] = f[k]
  BY <1>2, <1>10
<1>12. Joins(f, fs, S)
  BY <1>6, <1>7 DEF Joins
<1> QED BY <1>1, <1>11, <1>12

(* A sequence more at the end.                                             *)
LEMMA FlattenAppend ==
  ASSUME NEW S, NEW fs \in Seq(Seq(S)), NEW s \in Seq(S)
  PROVE  FlattenSeq(fs) \in Seq(S) /\ FlattenSeq(Append(fs, s)) = FlattenSeq(fs) \o s
<1> DEFINE gs == Append(fs, s)
           k == Len(fs)
<1>1. /\ k \in Nat /\ gs \in Seq(Seq(S)) /\ Len(gs) = k + 1 /\ gs[k + 1] = s
      /\ \A i \in 1..k : gs[i] = fs[i]
  OBVIOUS
<1>2. PICK g : Joins(g, gs, S) /\ FlattenSeq(gs) = g[k + 1]
  <2>1. Len(gs) # 0
    BY <1>1
  <2> HIDE DEF gs
  <2> QED BY <1>1, <2>1, FlattenIs
<1> HIDE DEF gs
<1>3. /\ g \in [1..k + 1 -> Seq(S)]
      /\ \A i \in 1..k + 1 : g[i] = IF i = 1 THEN gs[i] ELSE g[i - 1] \o gs[i]
  BY <1>1, <1>2 DEF Joins
<1>4. CASE k = 0
  <2>1. fs = <<>> /\ FlattenSeq(fs) = fs
    BY <1>4 DEF FlattenSeq
  <2>2. g[1] = s
    BY <1>1, <1>3, <1>4
  <2>3. FlattenSeq(gs) = s
    BY <1>2, <1>4, <2>2
  <2>4. <<>> \o s = s /\ <<>> \in Seq(S)
    BY ConcatEmptySeq, EmptySeq
  <2> QED BY <2>1, <2>3, <2>4 DEF gs
<1>5. CASE k # 0
  <2>1. PICK f : Joins(f, fs, S) /\ FlattenSeq(fs) = f[k]
    BY <1>5, FlattenIs
  <2>2. /\ f \in [1..k -> Seq(S)]
        /\ \A i \in 1..k : f[i] = IF i = 1 THEN fs[i] ELSE f[i - 1] \o fs[i]
    BY <2>1 DEF Joins
  <2> DEFINE A == {i \in Nat : i \in 1..k => g[i] = f[i]}
  <2>3. Nat \subseteq A
    <3>1. 0 \in A
      OBVIOUS
    <3>2. ASSUME NEW i \in Nat, i \in A PROVE i + 1 \in A
      <4>1. SUFFICES ASSUME i + 1 \in 1..k PROVE g[i + 1] = f[i + 1]
        OBVIOUS
      <4>2. i # 0 => g[i] = f[i]
        BY <1>1, <3>2, <4>1
      <4>3. (i + 1) - 1 = i /\ i + 1 \in 1..k + 1 /\ gs[i + 1] = fs[i + 1]
        BY <1>1, <4>1
      <4>4. f[i + 1] = IF i + 1 = 1 THEN fs[i + 1] ELSE f[i] \o fs[i + 1]
        BY <2>2, <4>1, <4>3
      <4>5. g[i + 1] = IF i + 1 = 1 THEN gs[i + 1] ELSE g[i] \o gs[i + 1]
        BY <1>3, <4>3
      <4> QED BY <4>2, <4>3, <4>4, <4>5
    <3> HIDE DEF A
    <3> QED BY <3>1, <3>2, NatInduct
  <2>4. k \in 1..k /\ k + 1 \in 1..k + 1 /\ (k + 1) - 1 = k /\ k + 1 # 1
    BY <1>1, <1>5
  <2>5. g[k] = f[k]
    BY <1>1, <2>3, <2>4
  <2>6. g[k + 1] = g[k] \o gs[k + 1]
    <3> HIDE DEF k
    <3> QED BY <1>3, <2>4
  <2> QED BY <1>1, <1>2, <2>1, <2>2, <2>4, <2>5, <2>6 DEF gs
<1> QED BY <1>4, <1>5

(* An element more at the end of the last one.                             *)
LEMMA FlattenMore ==
  ASSUME NEW S, NEW fs \in Seq(Seq(S)), Len(fs) # 0, NEW x \in S,
         NEW gs, gs = [fs EXCEPT ![Len(fs)] = Append(@, x)]
  PROVE  FlattenSeq(gs) = Append(FlattenSeq(fs), x)
<1> DEFINE k == Len(fs)
           h == SubSeq(fs, 1, k - 1)
           last == fs[k]
<1>1. k \in Nat /\ k # 0 /\ k - 1 \in Nat /\ last \in Seq(S)
  OBVIOUS
<1>2. h \in Seq(Seq(S)) /\ Len(h) = k - 1 /\ \A i \in 1..k - 1 : h[i] = fs[i]
  <2>1. \A i \in 1..k - 1 : fs[i] \in Seq(S)
    BY <1>1
  <2>2. /\ h \in Seq(Seq(S)) /\ Len(h) = IF 1 <= k - 1 THEN (k - 1) - 1 + 1 ELSE 0
        /\ \A i \in 1..(k - 1) - 1 + 1 : h[i] = fs[1 + i - 1]
    <3>1. 1 \in Int /\ k - 1 \in Int
      BY <1>1
    <3> HIDE DEF k
    <3> QED BY <2>1, <3>1, SubSeqProperties
  <2>3. \A i \in Int : 1 + i - 1 = i
    OBVIOUS
  <2>4. (k - 1) - 1 + 1 = k - 1 /\ (1 <= k - 1 \/ k - 1 = 0)
    <3> HIDE DEF k
    <3> QED BY <1>1
  <2> HIDE DEF h, k
  <2> QED BY <1>1, <2>2, <2>3, <2>4
<1>3. fs = Append(h, last)
  <2>1. /\ Append(h, last) \in Seq(Seq(S)) /\ Len(Append(h, last)) = k
        /\ \A i \in 1..k - 1 : Append(h, last)[i] = h[i]
        /\ Append(h, last)[k] = last
    <3>1. Len(h) + 1 = k /\ Append(h, last)[Len(h) + 1] = last
      <4> HIDE DEF h, last, k
      <4> QED BY <1>1, <1>2, AppendProperties
    <3> HIDE DEF h, last, k
    <3> QED BY <1>1, <1>2, <3>1, AppendProperties
  <2>2. \A i \in 1..k : fs[i] = Append(h, last)[i]
    <3>1. \A i \in 1..k : i \in 1..k - 1 \/ i = k
      BY <1>1
    <3> HIDE DEF h, k
    <3> QED BY <1>2, <2>1, <3>1
  <2> HIDE DEF h, last
  <2> QED BY <2>1, <2>2, SeqEqual
<1>4. gs = Append(h, Append(last, x))
  <2> DEFINE more == Append(last, x)
  <2>0. more \in Seq(S)
    BY <1>1
  <2>1. gs \in Seq(Seq(S)) /\ Len(gs) = k /\ gs[k] = more
        /\ \A i \in 1..k - 1 : gs[i] = fs[i]
    <3>1. gs = [fs EXCEPT ![k] = more] /\ k \in 1..Len(fs)
      BY <1>1
    <3> HIDE DEF more
    <3> QED BY <1>1, <2>0, <3>1, ExceptSeq
  <2> HIDE DEF more
  <2>2. /\ Append(h, more) \in Seq(Seq(S)) /\ Len(Append(h, more)) = k
        /\ \A i \in 1..k - 1 : Append(h, more)[i] = h[i]
        /\ Append(h, more)[k] = more
    <3>1. Len(h) + 1 = k /\ Append(h, more)[Len(h) + 1] = more
      <4> HIDE DEF h, last, k
      <4> QED BY <1>1, <1>2, <2>0, AppendProperties
    <3> HIDE DEF h, last, k
    <3> QED BY <1>1, <1>2, <2>0, <3>1, AppendProperties
  <2>3. \A i \in 1..k : gs[i] = Append(h, more)[i]
    <3>1. \A i \in 1..k : i \in 1..k - 1 \/ i = k
      BY <1>1
    <3> HIDE DEF h, k
    <3> QED BY <1>2, <2>1, <2>2, <3>1
  <2>4. gs = Append(h, more)
    <3>1. Len(gs) = Len(Append(h, more)) /\ \A i \in 1..Len(gs) : gs[i] = Append(h, more)[i]
      <4> HIDE DEF h, last, k
      <4> QED BY <2>1, <2>2, <2>3
    <3>2. gs \in Seq(Seq(S)) /\ Append(h, more) \in Seq(Seq(S))
      BY <2>1, <2>2
    <3> HIDE DEF h, last, k
    <3> QED BY ONLY <3>1, <3>2, SeqEqual
  <2> QED BY <2>4 DEF more
<1>5. Append(last, x) \in Seq(S)
  BY <1>1
<1>6. FlattenSeq(h) \in Seq(S) /\ FlattenSeq(fs) = FlattenSeq(h) \o last
  <2> HIDE DEF h, last
  <2> QED BY <1>1, <1>2, <1>3, FlattenAppend
<1>7. FlattenSeq(gs) = FlattenSeq(h) \o Append(last, x)
  <2> HIDE DEF h, last
  <2> QED BY <1>2, <1>4, <1>5, FlattenAppend
<1> DEFINE front == FlattenSeq(h)
<1>8. /\ Append(last, x) = last \o <<x>>
      /\ Append(front \o last, x) = (front \o last) \o <<x>>
      /\ (front \o last) \o <<x>> = front \o (last \o <<x>>)
  <2>1. front \in Seq(S) /\ last \in Seq(S) /\ <<x>> \in Seq(S)
    BY <1>1, <1>6
  <2>2. front \o last \in Seq(S)
    <3> HIDE DEF front, last
    <3> QED BY <2>1, ConcatProperties
  <2> HIDE DEF front, last
  <2>3. Append(last, x) = last \o <<x>>
    BY <2>1, AppendIsConcat
  <2>4. Append(front \o last, x) = (front \o last) \o <<x>>
    BY <2>2, AppendIsConcat
  <2>5. (front \o last) \o <<x>> = front \o (last \o <<x>>)
    BY <2>1, ConcatAssociative
  <2> QED BY <2>3, <2>4, <2>5
<1> HIDE DEF h, last
<1> QED BY <1>6, <1>7, <1>8 DEF front

(* The first m elements of a sequence.                                     *)
LEMMA FirstOf ==
  ASSUME NEW S, NEW t \in Seq(S), NEW m \in 0..Len(t)
  PROVE  /\ SubSeq(t, 1, m) \in Seq(S) /\ Len(SubSeq(t, 1, m)) = m
         /\ \A i \in 1..m : SubSeq(t, 1, m)[i] = t[i]
<1> DEFINE a == SubSeq(t, 1, m)
<1>1. \A i \in 1..m : t[i] \in S
  OBVIOUS
<1>2. /\ a \in Seq(S) /\ Len(a) = IF 1 <= m THEN m - 1 + 1 ELSE 0
      /\ \A i \in 1..m - 1 + 1 : a[i] = t[1 + i - 1]
  <2>1. 1 \in Int /\ m \in Int
    OBVIOUS
  <2> QED BY <1>1, <2>1, SubSeqProperties
<1>3. m - 1 + 1 = m /\ (1 <= m \/ m = 0) /\ \A i \in 1..m : 1 + i - 1 = i
  OBVIOUS
<1> HIDE DEF a
<1>4. a \in Seq(S) /\ Len(a) = m /\ \A i \in 1..m : a[i] = t[i]
  BY <1>2, <1>3
<1> QED BY <1>4 DEF a

(* The first m of the sequences fs, joined.                                *)
Joined(fs, m) == FlattenSeq(SubSeq(fs, 1, m))

LEMMA JoinedNone ==
  ASSUME NEW S, NEW fs \in Seq(Seq(S))
  PROVE  Joined(fs, 0) = <<>>
<1> DEFINE a == SubSeq(fs, 1, 0)
<1>1. a \in Seq(Seq(S)) /\ Len(a) = 0
  <2>1. 0 \in 0..Len(fs)
    OBVIOUS
  <2> QED BY <2>1, FirstOf
<1>2. a = <<>>
  <2> HIDE DEF a
  <2> QED BY <1>1, EmptySeq
<1>3. FlattenSeq(<<>>) = <<>>
  BY DEF FlattenSeq
<1> QED BY <1>2, <1>3 DEF Joined

LEMMA JoinedAll ==
  ASSUME NEW S, NEW fs \in Seq(Seq(S))
  PROVE  Joined(fs, Len(fs)) = FlattenSeq(fs)
<1> DEFINE a == SubSeq(fs, 1, Len(fs))
<1>1. /\ a \in Seq(Seq(S)) /\ Len(a) = Len(fs)
      /\ \A i \in 1..Len(fs) : a[i] = fs[i]
  <2>1. Len(fs) \in 0..Len(fs)
    OBVIOUS
  <2> QED BY <2>1, FirstOf
<1>2. a = fs
  <2> HIDE DEF a
  <2> QED BY <1>1, SeqEqual
<1> QED BY <1>2 DEF Joined

LEMMA JoinedMore ==
  ASSUME NEW S, NEW fs \in Seq(Seq(S)), NEW m \in Nat, m < Len(fs)
  PROVE  /\ Joined(fs, m) \in Seq(S)
         /\ fs[m + 1] \in Seq(S)
         /\ Joined(fs, m + 1) = Joined(fs, m) \o fs[m + 1]
<1> DEFINE a == SubSeq(fs, 1, m)
           b == SubSeq(fs, 1, m + 1)
           e == fs[m + 1]
<1>1. e \in Seq(S)
  OBVIOUS
<1>2. /\ a \in Seq(Seq(S)) /\ Len(a) = m
      /\ \A i \in 1..m : a[i] = fs[i]
  <2>1. m \in 0..Len(fs)
    OBVIOUS
  <2> QED BY <2>1, FirstOf
<1>3. /\ b \in Seq(Seq(S)) /\ Len(b) = m + 1
      /\ \A i \in 1..m + 1 : b[i] = fs[i]
  <2>1. m + 1 \in 0..Len(fs)
    OBVIOUS
  <2> QED BY <2>1, FirstOf
<1> HIDE DEF a, b
<1>4. /\ \A i \in 1..m : b[i] = a[i]
      /\ b[m + 1] = e
  <2>1. m + 1 \in 1..m + 1 /\ \A i \in 1..m : i \in 1..m + 1
    OBVIOUS
  <2> QED BY <1>2, <1>3, <2>1
<1> HIDE DEF e
<1>5. /\ Append(a, e) \in Seq(Seq(S)) /\ Len(Append(a, e)) = m + 1
      /\ \A i \in 1..m : Append(a, e)[i] = a[i]
      /\ Append(a, e)[m + 1] = e
  BY <1>1, <1>2, AppendProperties
<1>6. \A i \in 1..Len(b) : b[i] = Append(a, e)[i]
  <2>1. \A i \in 1..m + 1 : i \in 1..m \/ i = m + 1
    OBVIOUS
  <2> QED BY <1>3, <1>4, <1>5, <2>1
<1>7. b = Append(a, e)
  BY <1>3, <1>5, <1>6, SeqEqual
<1>8. FlattenSeq(a) \in Seq(S) /\ FlattenSeq(Append(a, e)) = FlattenSeq(a) \o e
  BY <1>1, <1>2, FlattenAppend
<1> QED BY <1>1, <1>7, <1>8 DEF Joined, a, b, e

LEMMA JoinedType ==
  ASSUME NEW S, NEW fs \in Seq(Seq(S)), NEW m \in 0..Len(fs)
  PROVE  Joined(fs, m) \in Seq(S) /\ Len(Joined(fs, m)) \in Nat
<1>1. SubSeq(fs, 1, m) \in Seq(Seq(S)) /\ <<>> \in Seq(S)
  BY FirstOf, EmptySeq
<1>2. Joined(fs, m) \in Seq(S)
  BY <1>1, FlattenAppend DEF Joined
<1> QED BY <1>2

(* Where sequence m + 1 is.                                                *)
LEMMA JoinedAt ==
  ASSUME NEW S, NEW fs \in Seq(Seq(S)), NEW m \in Nat, m < Len(fs),
         NEW e, e = fs[m + 1]
  PROVE  /\ e \in Seq(S)
         /\ Len(Joined(fs, m)) \in Nat
         /\ Len(Joined(fs, m + 1)) = Len(Joined(fs, m)) + Len(e)
         /\ Len(Joined(fs, m + 1)) <= Len(FlattenSeq(fs))
         /\ \A j \in 1..Len(e) : FlattenSeq(fs)[Len(Joined(fs, m)) + j] = e[j]
<1> DEFINE q == Joined(fs, m + 1)
           p == Len(Joined(fs, m))
           t == FlattenSeq(fs)
<1>1. /\ Joined(fs, m) \in Seq(S) /\ e \in Seq(S) /\ q = Joined(fs, m) \o e
      /\ p \in Nat /\ Len(e) \in Nat
  <2>1. /\ Joined(fs, m) \in Seq(S) /\ e \in Seq(S)
        /\ Joined(fs, m + 1) = Joined(fs, m) \o e
    BY JoinedMore, Zenon
  <2> QED BY <2>1
<1>2. /\ q \in Seq(S) /\ Len(q) = p + Len(e)
      /\ \A i \in 1..p + Len(e) : q[i] = IF i <= p THEN Joined(fs, m)[i] ELSE e[i - p]
  <2> HIDE DEF q
  <2> QED BY <1>1, ConcatProperties
<1>3. \A j \in 1..Len(e) : q[p + j] = e[j]
  <2> TAKE j \in 1..Len(e)
  <2>1. p + j \in 1..p + Len(e) /\ ~(p + j <= p) /\ (p + j) - p = j /\ p \in Nat /\ j \in Nat
    <3> HIDE DEF p
    <3> QED BY <1>1
  <2> HIDE DEF q, p
  <2> QED BY <1>2, <2>1
<1> HIDE DEF q, p, t
<1>4. Len(fs) \in Nat
  OBVIOUS
<1> DEFINE A == {k \in Nat : m + 1 + k <= Len(fs) =>
                   /\ Len(q) <= Len(Joined(fs, m + 1 + k))
                   /\ \A i \in 1..Len(q) : Joined(fs, m + 1 + k)[i] = q[i]}
<1>5. 0 \in A
  <2>1. m + 1 + 0 = m + 1 /\ Len(q) \in Nat
    BY <1>2
  <2> QED BY <2>1 DEF q
<1>6. ASSUME NEW k \in Nat, k \in A PROVE k + 1 \in A
  <2>0. k + 1 \in Nat
    OBVIOUS
  <2> SUFFICES ASSUME m + 1 + (k + 1) <= Len(fs)
               PROVE  /\ Len(q) <= Len(Joined(fs, m + 1 + (k + 1)))
                      /\ \A i \in 1..Len(q) : Joined(fs, m + 1 + (k + 1))[i] = q[i]
    BY <2>0, Zenon
  <2> DEFINE n0 == m + 1 + k
             a == Joined(fs, n0)
             b == fs[n0 + 1]
  <2>1. n0 \in Nat /\ n0 < Len(fs) /\ m + 1 + (k + 1) = n0 + 1
    BY <1>4
  <2> HIDE DEF n0
  <2>2. a \in Seq(S) /\ b \in Seq(S) /\ Joined(fs, n0 + 1) = a \o b
    BY <2>1, JoinedMore
  <2>3. Len(q) <= Len(a) /\ \A i \in 1..Len(q) : a[i] = q[i]
    BY <1>6, <2>1 DEF n0
  <2> HIDE DEF a, b
  <2>4. /\ Len(a \o b) = Len(a) + Len(b) /\ Len(a) \in Nat /\ Len(b) \in Nat
        /\ \A i \in 1..Len(a) + Len(b) : (a \o b)[i] = IF i <= Len(a) THEN a[i] ELSE b[i - Len(a)]
    BY <2>2, ConcatProperties
  <2>5. \A i \in 1..Len(q) : (a \o b)[i] = q[i]
    <3> TAKE i \in 1..Len(q)
    <3>1. i \in 1..Len(a) + Len(b) /\ i <= Len(a)
      BY <1>2, <2>3, <2>4
    <3> QED BY <2>3, <2>4, <3>1
  <2>6. Len(q) <= Len(a \o b)
    BY <1>2, <2>3, <2>4
  <2> QED BY <2>1, <2>2, <2>5, <2>6
<1>7. Nat \subseteq A
  <2> HIDE DEF A
  <2> QED BY <1>5, <1>6, NatInduct
<1>8. Len(q) <= Len(t) /\ \A i \in 1..Len(q) : t[i] = q[i]
  <2> DEFINE k == Len(fs) - (m + 1)
  <2>1. k \in Nat /\ m + 1 + k = Len(fs)
    BY <1>4
  <2>2. Joined(fs, Len(fs)) = t
    BY JoinedAll DEF t
  <2> HIDE DEF k
  <2>3. k \in A
    <3> HIDE DEF A
    <3> QED BY <1>7, <2>1
  <2>4. m + 1 + k <= Len(fs)
    BY <1>4, <2>1
  <2>5. /\ Len(q) <= Len(Joined(fs, m + 1 + k))
        /\ \A i \in 1..Len(q) : Joined(fs, m + 1 + k)[i] = q[i]
    BY <2>3, <2>4, Zenon
  <2> QED BY <2>1, <2>2, <2>5
<1>9. \A j \in 1..Len(e) : t[p + j] = e[j]
  <2> TAKE j \in 1..Len(e)
  <2>1. p + j \in 1..Len(q)
    BY <1>1, <1>2 DEF p
  <2> QED BY <1>3, <1>8, <2>1
<1> QED BY <1>1, <1>2, <1>8, <1>9 DEF q, p, t

=============================================================================
