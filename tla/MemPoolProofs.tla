---------------------------- MODULE MemPoolProofs ----------------------------
(***************************************************************************)
(* Proofs about the memory pool of uti_mem_mgr.c, for any sizes, requests, *)
(* chunks and files, and a chain of any length.                            *)
(***************************************************************************)
EXTENDS MemPool, FiniteSetTheorems, SequenceTheorems, TLAPS

PoolType ==
  [blocks  : Seq([last : Nat, failed : Nat]),
   current : Nat,
   large   : Seq([at : Address, alloc : Chunk \cup {NULL}]),
   cleanup : Seq([at : Address, data : Address \cup Chunk \cup {NULL},
                  handler : {"none", "close", "delete", "user"},
                  fd : File \cup {NULL}]),
   heap    : SUBSET (Block \cup Chunk),
   held    : SUBSET Address,
   twice   : BOOLEAN]

(* A block from current on has failed each time a block was added behind   *)
(* one that was behind it.                                                 *)
Search(p) ==
  /\ Len(p.blocks) \in Block
  /\ p.current \in 1..Len(p.blocks)
  /\ Len(p.blocks) - p.current <= 6
  /\ \A b \in 1..p.current - 1 : p.blocks[b].failed >= 6
  /\ \A b \in p.current..Len(p.blocks) :
       p.blocks[b].failed = IF b = Len(p.blocks) THEN 0 ELSE Len(p.blocks) - 1 - b

Header(b) == IF b = 1 THEN PoolHeader ELSE DataHeader

AlignedSize == Size % Alignment = 0

(* What is given out of a block is between its header and last.            *)
Layout(p) ==
  AlignedSize =>
    /\ p.twice = FALSE
    /\ \A b \in Blocks(p) : Header(b) <= p.blocks[b].last /\ p.blocks[b].last <= Size
    /\ \A u \in p.held :
         u[1] \in Blocks(p) /\ Header(u[1]) <= u[2] /\ u[2] < p.blocks[u[1]].last

Shape(p) == p \in PoolType /\ Search(p) /\ Layout(p)

-----------------------------------------------------------------------------
(* Arithmetic.                                                             *)

LEMMA Constants ==
  /\ Size \in Nat /\ Alignment \in Nat /\ PoolHeader \in Nat /\ DataHeader \in Nat
  /\ LargeNode \in Nat /\ CleanupNode \in Nat /\ PageMax \in Nat /\ SizeMod \in Nat
  /\ MaxBlocks \in Nat /\ MaxBlocks > 0 /\ Alignment > 0 /\ SizeMod > 0
BY PoolAssumption

LEMMA Division ==
  ASSUME NEW n \in Nat, NEW a \in Nat, a > 0
  PROVE  n \div a \in Nat /\ n = (n \div a) * a + (n % a) /\ n % a \in 0..a - 1
OBVIOUS

LEMMA Aligned ==
  ASSUME NEW n \in Nat
  PROVE  /\ Align(n) \in Nat
         /\ n <= Align(n)
         /\ n % Alignment = 0 => Align(n) = n
         /\ n <= Size /\ Size % Alignment = 0 => Align(n) <= Size
<1> DEFINE k == (n + Alignment - 1) \div Alignment
           r == (n + Alignment - 1) % Alignment
<1>1. /\ k \in Nat /\ r \in 0..Alignment - 1
      /\ n + Alignment - 1 = k * Alignment + r
  BY Constants, Division
<1>2. Align(n) = k * Alignment
  BY DEF Align
<1> HIDE DEF k, r
<1>3. k * Alignment \in Nat
  BY <1>1, Constants
<1>4. n <= k * Alignment
  BY <1>1, <1>3, Constants
<1>5. ASSUME NEW m \in Nat, m % Alignment = 0, n <= m PROVE k * Alignment <= m
  <2>1. PICK j \in Nat : m = j * Alignment
    <3>1. m \div Alignment \in Nat /\ m = (m \div Alignment) * Alignment + (m % Alignment)
      BY Constants, Division, Zenon
    <3>2. m = (m \div Alignment) * Alignment
      BY <1>5, <3>1, Constants
    <3> QED BY <3>1, <3>2
  <2>2. k * Alignment < j * Alignment + Alignment
    BY <1>1, <1>3, <1>5, <2>1, Constants
  <2>3. k <= j
    <3>1. SUFFICES ASSUME k >= j + 1 PROVE FALSE
      BY <1>1
    <3>2. k * Alignment >= (j + 1) * Alignment
      BY <1>1, <3>1, Constants
    <3>3. (j + 1) * Alignment = j * Alignment + Alignment
      BY Constants
    <3> QED BY <2>1, <2>2, <3>2, <3>3, <1>3, Constants
  <2> QED BY <1>1, <2>1, <2>3, Constants
<1> QED BY <1>2, <1>3, <1>4, <1>5, Constants

LEMMA Least ==
  ASSUME NEW n \in Nat, NEW S \in SUBSET (1..n), S # {}
  PROVE  Min(S) \in S /\ \A y \in S : Min(S) <= y
<1> DEFINE Below(x) == {y \in S : y < x}
           T == {Below(x) : x \in S}
<1>1. IsFiniteSet(S)
  <2>1. S \in SUBSET Nat /\ \A x \in S : x <= n
    OBVIOUS
  <2> QED BY <2>1, FS_BoundedSetOfNaturals
<1>2. IsWellFoundedOn(StrictSubsetOrdering(S), FiniteSubsetsOf(S))
  BY <1>1, FS_StrictSubsetOrderingWellFounded
<1>3. FiniteSubsetsOf(S) = SUBSET S
  BY <1>1, FS_FiniteSubsetsOfFinite
<1>4. T \subseteq SUBSET S /\ T # {}
  OBVIOUS
<1>5. PICK low \in T : \A y \in T : <<y, low>> \notin StrictSubsetOrdering(S)
  <2> HIDE DEF T
  <2> QED BY <1>2, <1>3, <1>4, WFMin
<1>6. PICK x \in S : low = Below(x)
  BY <1>5
<1>7. \A y \in S : x <= y
  <2>0. \A y \in S : y \in Int
    OBVIOUS
  <2> SUFFICES ASSUME NEW y \in S, y < x PROVE FALSE
    BY <2>0
  <2>1. Below(y) \subseteq Below(x) /\ y \in Below(x) /\ y \notin Below(y)
    <3>1. x \in Int /\ y \in Int /\ ~(y < y)
      BY <2>0
    <3>2. \A z \in S : z < y => z < x
      BY <2>0, <3>1
    <3> QED BY <3>1, <3>2
  <2>2. <<Below(y), Below(x)>> \in StrictSubsetOrdering(S)
    BY <2>1 DEF StrictSubsetOrdering
  <2>3. Below(y) \in T
    OBVIOUS
  <2>4. <<Below(y), Below(x)>> \notin StrictSubsetOrdering(S)
    <3> HIDE DEF T, Below
    <3> QED BY <1>5, <1>6, <2>3
  <2> QED BY <2>2, <2>4
<1> QED BY <1>7 DEF Min

LEMMA MinOfTwo ==
  ASSUME NEW a \in Int, NEW b \in Int
  PROVE  Min({a, b}) \in {a, b} /\ Min({a, b}) <= a /\ Min({a, b}) <= b
<1>1. \E x \in {a, b} : \A y \in {a, b} : x <= y
  OBVIOUS
<1> QED BY <1>1 DEF Min

-----------------------------------------------------------------------------
(* Allocation from the blocks.                                             *)

LEMMA IsSequence ==
  ASSUME NEW S, NEW m \in Nat, NEW f \in [1..m -> S]
  PROVE  f \in Seq(S) /\ Len(f) = m
<1>1. f \in Seq(S)
  BY SeqDef
<1> QED BY <1>1, LenProperties

(* The outcome o of giving out size units of block b from offset from.     *)
IsCut(p, b, from, size, o) ==
  /\ o.mem = <<b, from>> /\ o.mem \in Address
  /\ o.pool \in PoolType
  /\ Len(o.pool.blocks) = Len(p.blocks)
  /\ \A c \in Blocks(p) :
       /\ o.pool.blocks[c].failed = p.blocks[c].failed
       /\ o.pool.blocks[c].last = IF c = b THEN from + size ELSE p.blocks[c].last
  /\ o.pool.current = p.current /\ o.pool.large = p.large
  /\ o.pool.cleanup = p.cleanup /\ o.pool.heap = p.heap
  /\ o.pool.held = p.held \cup Units(b, from, size)
  /\ p.twice = FALSE /\ Units(b, from, size) \cap p.held = {} => o.pool.twice = FALSE

LEMMA CutFields ==
  ASSUME NEW p \in PoolType, NEW b \in Blocks(p), b \in Block,
         NEW from \in Nat, NEW size \in Nat
  PROVE  IsCut(p, b, from, size, Cut(p, b, from, size))
<1> DEFINE o == Cut(p, b, from, size)
           q == o.pool
           units == Units(b, from, size)
           record == [p.blocks[b] EXCEPT !.last = from + size]
           more == [p.blocks EXCEPT ![b] = record]
           twice == (p.twice \/ units \cap p.held # {})
<1>1. q = [p EXCEPT !.blocks = more, !.held = p.held \cup units, !.twice = twice]
  BY DEF Cut
<1>2. o.mem = <<b, from>>
  BY DEF Cut
<1>3. p.blocks \in Seq([last : Nat, failed : Nat]) /\ p.held \subseteq Address
  BY DEF PoolType
<1>4. b \in 1..Len(p.blocks) /\ p.blocks[b] \in [last : Nat, failed : Nat]
  <2>1. b \in 1..Len(p.blocks)
    BY DEF Blocks
  <2> QED BY <1>3, <2>1, ElementOfSeq
<1>5. /\ record \in [last : Nat, failed : Nat]
      /\ record.last = from + size /\ record.failed = p.blocks[b].failed
  BY <1>4
<1>6. /\ more \in Seq([last : Nat, failed : Nat])
      /\ Len(more) = Len(p.blocks)
      /\ \A c \in 1..Len(p.blocks) : more[c] = IF c = b THEN record ELSE p.blocks[c]
  <2> HIDE DEF record
  <2> QED BY <1>3, <1>4, <1>5, ExceptSeq
<1>7. units \subseteq Address
  BY DEF Units, Address
<1>8. twice \in BOOLEAN
  OBVIOUS
<1> HIDE DEF more, units, twice
<1>9. /\ q \in PoolType /\ q.blocks = more /\ q.held = p.held \cup units /\ q.twice = twice
      /\ q.current = p.current /\ q.large = p.large /\ q.cleanup = p.cleanup
      /\ q.heap = p.heap
  BY <1>1, <1>3, <1>6, <1>7, <1>8 DEF PoolType
<1>10. o.mem \in Address
  BY <1>2 DEF Address
<1> HIDE DEF record
<1>11. \A c \in Blocks(p) :
         /\ q.blocks[c].failed = p.blocks[c].failed
         /\ q.blocks[c].last = IF c = b THEN from + size ELSE p.blocks[c].last
  BY <1>5, <1>6, <1>9 DEF Blocks
<1>12. p.twice = FALSE /\ units \cap p.held = {} => q.twice = FALSE
  <2>1. p.twice = FALSE /\ units \cap p.held = {} => twice = FALSE
    BY Zenon DEF twice
  <2> QED BY <1>9, <2>1, Zenon
<1>13. o = Cut(p, b, from, size) /\ q = Cut(p, b, from, size).pool /\ units = Units(b, from, size)
  BY Zenon DEF units
<1>14. Len(q.blocks) = Len(p.blocks)
  BY <1>6, <1>9
<1> HIDE DEF q, o
<1> QED BY <1>2, <1>9, <1>10, <1>11, <1>12, <1>13, <1>14, Zenon DEF IsCut

(* The units from offset from of block b are free and inside the block.    *)
Room(p, b, from, size) ==
  AlignedSize =>
    /\ p.twice = FALSE
    /\ \A c \in Blocks(p) \ {b} : Header(c) <= p.blocks[c].last /\ p.blocks[c].last <= Size
    /\ \A u \in p.held :
         u[1] \in Blocks(p) /\ Header(u[1]) <= u[2] /\ u[2] < p.blocks[u[1]].last
    /\ p.blocks[b].last <= from /\ Header(b) <= from /\ from + size <= Size

LEMMA BlocksAreNumbers ==
  ASSUME NEW p, Search(p)
  PROVE  /\ Len(p.blocks) \in Nat /\ Len(p.blocks) <= MaxBlocks
         /\ p.current \in Nat /\ 1 <= p.current /\ p.current <= Len(p.blocks)
         /\ Blocks(p) \subseteq Block
<1>1. Len(p.blocks) \in 1..MaxBlocks /\ p.current \in 1..Len(p.blocks)
  BY DEF Search, Block
<1> QED BY <1>1, Constants DEF Blocks, Block

LEMMA BlockFields ==
  ASSUME NEW p \in PoolType, NEW b \in Blocks(p)
  PROVE  p.blocks[b].last \in Nat /\ p.blocks[b].failed \in Nat /\ Header(b) \in Nat
<1>1. p.blocks[b] \in [last : Nat, failed : Nat]
  BY ElementOfSeq DEF PoolType, Blocks
<1> QED BY <1>1, Constants DEF Header

LEMMA CutShape ==
  ASSUME NEW p \in PoolType, Search(p), NEW b \in Blocks(p), NEW from \in Nat, NEW size \in Nat,
         Room(p, b, from, size)
  PROVE  Shape(Cut(p, b, from, size).pool)
<1> DEFINE o == Cut(p, b, from, size)
           q == o.pool
           units == Units(b, from, size)
<1>1. b \in Block
  BY BlocksAreNumbers
<1>a. IsCut(p, b, from, size, o)
  BY <1>1, CutFields
<1> HIDE DEF o, units
<1>2. /\ q \in PoolType
      /\ Len(q.blocks) = Len(p.blocks)
      /\ \A c \in Blocks(p) :
           /\ q.blocks[c].failed = p.blocks[c].failed
           /\ q.blocks[c].last = IF c = b THEN from + size ELSE p.blocks[c].last
      /\ q.current = p.current
      /\ q.held = p.held \cup units
  BY <1>a DEF IsCut, units
<1>q. p.twice = FALSE /\ units \cap p.held = {} => q.twice = FALSE
  BY <1>a, Zenon DEF IsCut, units
<1> HIDE DEF q
<1>b. Blocks(q) = Blocks(p)
  BY <1>2 DEF Blocks
<1>3. Search(q)
  <2>1. \A c \in 1..Len(p.blocks) : q.blocks[c].failed = p.blocks[c].failed
    BY <1>2 DEF Blocks
  <2>2. 1..p.current - 1 \subseteq 1..Len(p.blocks) /\ p.current..Len(p.blocks) \subseteq 1..Len(p.blocks)
    BY BlocksAreNumbers
  <2>3. \A c \in 1..p.current - 1 : q.blocks[c].failed >= 6
    BY <2>1, <2>2 DEF Search
  <2>4. \A c \in p.current..Len(p.blocks) :
          q.blocks[c].failed = IF c = Len(p.blocks) THEN 0 ELSE Len(p.blocks) - 1 - c
    BY <2>1, <2>2 DEF Search
  <2> QED BY <1>2, <2>3, <2>4 DEF Search
<1>4. ASSUME AlignedSize
      PROVE  /\ q.twice = FALSE
             /\ \A c \in Blocks(q) : Header(c) <= q.blocks[c].last /\ q.blocks[c].last <= Size
             /\ \A u \in q.held :
                  u[1] \in Blocks(q) /\ Header(u[1]) <= u[2] /\ u[2] < q.blocks[u[1]].last
  <2>1. \A c \in Blocks(p) : p.blocks[c].last \in Nat /\ Header(c) \in Nat
    BY BlockFields
  <2>2. \A u \in units : u[1] = b /\ u[2] \in Nat /\ from <= u[2] /\ u[2] < from + size
    BY DEF units, Units
  <2>3. \A u \in p.held : u[2] \in Nat
    BY DEF PoolType, Address
  <2>r. /\ p.twice = FALSE
        /\ \A c \in Blocks(p) \ {b} : Header(c) <= p.blocks[c].last /\ p.blocks[c].last <= Size
        /\ \A u \in p.held :
             u[1] \in Blocks(p) /\ Header(u[1]) <= u[2] /\ u[2] < p.blocks[u[1]].last
        /\ p.blocks[b].last <= from /\ Header(b) <= from /\ from + size <= Size
    BY <1>4 DEF Room
  <2>4. units \cap p.held = {}
    BY <2>1, <2>2, <2>3, <2>r
  <2>5. q.twice = FALSE
    BY <1>q, <2>r, <2>4, Zenon
  <2>6. ASSUME NEW c \in Blocks(p)
        PROVE  Header(c) <= q.blocks[c].last /\ q.blocks[c].last <= Size
    <3>1. CASE c = b
      BY <1>2, <2>1, <2>r, <3>1
    <3>2. CASE c # b
      BY <1>2, <2>r, <3>2
    <3> QED BY <3>1, <3>2
  <2>7. ASSUME NEW u \in q.held
        PROVE  u[1] \in Blocks(p) /\ Header(u[1]) <= u[2] /\ u[2] < q.blocks[u[1]].last
    <3>1. CASE u \in units
      <4>1. u[1] = b /\ u[2] \in Nat /\ from <= u[2] /\ u[2] < from + size
        BY <2>2, <3>1
      <4>2. q.blocks[u[1]].last = from + size
        BY <1>2, <4>1
      <4>3. Header(u[1]) <= from /\ Header(u[1]) \in Nat
        BY <2>1, <2>r, <4>1
      <4> QED BY <4>1, <4>2, <4>3
    <3>2. CASE u \in p.held
      <4>1. u[1] \in Blocks(p) /\ Header(u[1]) <= u[2] /\ u[2] < p.blocks[u[1]].last /\ u[2] \in Nat
        BY <2>3, <2>r, <3>2
      <4>2. CASE u[1] = b
        BY <1>2, <2>1, <2>r, <4>1, <4>2
      <4>3. CASE u[1] # b
        BY <1>2, <4>1, <4>3
      <4> QED BY <4>1, <4>2, <4>3
    <3> QED BY <1>2, <2>7, <3>1, <3>2
  <2> QED BY <1>b, <2>5, <2>6, <2>7
<1> QED BY <1>2, <1>3, <1>4 DEF Shape, Layout, q, o

(* What an allocation from the blocks leaves as it was.                    *)
Served(p, o) ==
  /\ Shape(o.pool)
  /\ o.pool.large = p.large
  /\ o.pool.cleanup = p.cleanup
  /\ Blocks(p) \subseteq Blocks(o.pool)
  /\ o.pool.heap = p.heap \cup (Blocks(o.pool) \ Blocks(p))
  /\ o.mem \in Address
  /\ o.mem[1] \in Blocks(o.pool)

LEMMA MaxOfTwo ==
  ASSUME NEW a \in Int PROVE Max({a}) = a /\ Max({a, a + 1}) = a + 1
<1>1. Max({a}) = a
  BY DEF Max
<1>2. \E x \in {a, a + 1} : \A y \in {a, a + 1} : x >= y
  OBVIOUS
<1>3. Max({a, a + 1}) \in {a, a + 1} /\ Max({a, a + 1}) >= a + 1
  BY <1>2 DEF Max
<1> QED BY <1>1, <1>3

(* At most the first block that the search looks at is passed over.        *)
LEMMA NextCurrent ==
  ASSUME NEW p \in PoolType, Search(p)
  PROVE  Max({p.current} \cup {b + 1 : b \in PassedOver(p)})
           = IF Len(p.blocks) - p.current = 6 THEN p.current + 1 ELSE p.current
<1> DEFINE L == Len(p.blocks)
           c == p.current
<1>1. L \in Nat /\ c \in 1..L /\ L - c <= 6
  BY Constants DEF Search, Block
<1>2. \A b \in c..L - 1 : p.blocks[b].failed = L - 1 - b
  BY <1>1 DEF Search
<1>3. CASE L - c = 6
  <2>1. PassedOver(p) = {c}
    BY <1>1, <1>2, <1>3 DEF PassedOver
  <2>2. {c} \cup {b + 1 : b \in PassedOver(p)} = {c, c + 1}
    BY <2>1
  <2>3. Max({c, c + 1}) = c + 1
    <3>1. c \in Int
      BY <1>1
    <3> QED BY <3>1, MaxOfTwo, Zenon
  <2> QED BY <1>3, <2>2, <2>3, Zenon
<1>4. CASE L - c # 6
  <2>1. PassedOver(p) = {}
    BY <1>1, <1>2, <1>4 DEF PassedOver
  <2>2. {c} \cup {b + 1 : b \in PassedOver(p)} = {c}
    BY <2>1
  <2>3. Max({c}) = c
    <3>1. c \in Int
      BY <1>1
    <3> QED BY <3>1, MaxOfTwo, Zenon
  <2> QED BY <1>4, <2>2, <2>3, Zenon
<1> QED BY <1>3, <1>4

LEMMA SmallFits ==
  ASSUME NEW size \in Nat, size <= PoolMax
  PROVE  PoolHeader + size <= Size /\ DataHeader + size <= Size
<1>1. /\ Size - PoolHeader \in Int /\ PageMax \in Int
      /\ DataHeader <= PoolHeader
  BY Constants, PoolAssumption
<1>2. PoolMax <= Size - PoolHeader /\ PoolMax \in Int
  BY <1>1, MinOfTwo DEF PoolMax
<1> QED BY <1>1, <1>2, Constants

LEMMA NewBlock ==
  ASSUME NEW p, Shape(p), NEW size \in Nat, size <= PoolMax,
         NEW o \in uti_palloc_block(p, size), o # Failure(p)
  PROVE  Served(p, o)
<1> DEFINE L == Len(p.blocks)
           n == L + 1
           counted == [b \in Blocks(p) |->
                         IF b \in p.current..n - 2
                           THEN [p.blocks[b] EXCEPT !.failed = @ + 1]
                           ELSE p.blocks[b]]
           more == Append(counted, [last |-> 0, failed |-> 0])
           current == Max({p.current} \cup {b + 1 : b \in PassedOver(p)})
           q == [p EXCEPT !.blocks = more, !.current = current, !.heap = p.heap \cup {n}]
           start == Align(DataHeader)
<1>1. p \in PoolType /\ Search(p) /\ Layout(p)
  BY DEF Shape
<1>2. L \in Nat /\ p.current \in 1..L /\ L - p.current <= 6
  BY <1>1, Constants DEF Search, Block
<1>3. n \in Block /\ o = Cut(q, n, start, size)
  BY DEF uti_palloc_block
<1>4. \A b \in 1..L : p.blocks[b] \in [last : Nat, failed : Nat]
  BY <1>1, ElementOfSeq DEF PoolType
<1>5. /\ counted \in Seq([last : Nat, failed : Nat]) /\ Len(counted) = L
      /\ \A b \in 1..L :
           /\ counted[b].last = p.blocks[b].last
           /\ counted[b].failed = IF b \in p.current..L - 1 THEN p.blocks[b].failed + 1
                                                            ELSE p.blocks[b].failed
  <2>1. \A b \in 1..L : counted[b] \in [last : Nat, failed : Nat]
    BY <1>2, <1>4 DEF Blocks
  <2>2. counted \in Seq([last : Nat, failed : Nat]) /\ Len(counted) = L
    <3>1. counted \in [1..L -> [last : Nat, failed : Nat]]
      BY <2>1 DEF Blocks
    <3> QED BY <1>2, <3>1, IsSequence
  <2> QED BY <1>2, <1>4, <2>2 DEF Blocks
<1> HIDE DEF counted
<1>6. /\ more \in Seq([last : Nat, failed : Nat]) /\ Len(more) = n
      /\ \A b \in 1..L : more[b] = counted[b]
      /\ more[n] = [last |-> 0, failed |-> 0]
  BY <1>5, AppendProperties
<1>7. current = IF L - p.current = 6 THEN p.current + 1 ELSE p.current
  BY <1>1, NextCurrent
<1> HIDE DEF more, current
<1>8. /\ q \in PoolType /\ q.blocks = more /\ q.current = current
      /\ q.heap = p.heap \cup {n} /\ q.held = p.held /\ q.twice = p.twice
      /\ q.large = p.large /\ q.cleanup = p.cleanup
  <2>1. current \in Nat /\ {n} \subseteq Block \cup Chunk
    BY <1>2, <1>3, <1>7
  <2> HIDE DEF n, L
  <2> QED BY <1>1, <1>6, <2>1 DEF PoolType
<1> HIDE DEF q
<1>9. Len(q.blocks) = n /\ Blocks(q) = 1..n /\ Blocks(q) \ Blocks(p) = {n} /\ Blocks(p) = 1..L
  BY <1>2, <1>6, <1>8 DEF Blocks
<1>10. Search(q)
  <2>1. q.current \in 1..n /\ n - q.current <= 6
    BY <1>2, <1>7, <1>8
  <2>2. \A b \in 1..L :
          q.blocks[b].failed = IF b \in p.current..L - 1 THEN p.blocks[b].failed + 1
                                                         ELSE p.blocks[b].failed
    BY <1>5, <1>6, <1>8
  <2>3. q.blocks[n].failed = 0
    BY <1>6, <1>8
  <2>4. \A b \in p.current..L :
          p.blocks[b].failed = IF b = L THEN 0 ELSE L - 1 - b
    BY <1>1 DEF Search
  <2>5. \A b \in p.current..L : q.blocks[b].failed = n - 1 - b
    BY <1>2, <2>2, <2>4
  <2>6. ASSUME NEW b \in 1..q.current - 1 PROVE q.blocks[b].failed >= 6
    <3>1. CASE b < p.current
      <4>1. p.blocks[b].failed >= 6
        BY <1>1, <1>2, <2>6, <3>1 DEF Search
      <4> QED BY <1>2, <2>2, <2>6, <3>1, <4>1
    <3>2. CASE b >= p.current
      <4>1. L - p.current = 6 /\ b = p.current
        BY <1>2, <1>7, <1>8, <2>6, <3>2
      <4> QED BY <1>2, <2>5, <4>1
    <3> QED BY <1>2, <2>6, <3>1, <3>2
  <2>7. ASSUME NEW b \in q.current..n
        PROVE  q.blocks[b].failed = IF b = n THEN 0 ELSE n - 1 - b
    <3>1. b = n \/ b \in p.current..L
      BY <1>2, <1>7, <1>8, <2>1, <2>7
    <3> QED BY <1>2, <2>3, <2>5, <3>1
  <2> QED BY <1>3, <1>9, <2>1, <2>6, <2>7 DEF Search
<1>11. start \in Nat /\ start = DataHeader
  BY Aligned, Constants, PoolAssumption
<1>12. Shape(Cut(q, n, start, size).pool)
  <2>1. n \in Blocks(q)
    BY <1>2, <1>9
  <2>2. ASSUME AlignedSize
        PROVE  /\ q.twice = FALSE
               /\ \A c \in Blocks(q) \ {n} : Header(c) <= q.blocks[c].last /\ q.blocks[c].last <= Size
               /\ \A u \in q.held :
                    u[1] \in Blocks(q) /\ Header(u[1]) <= u[2] /\ u[2] < q.blocks[u[1]].last
               /\ q.blocks[n].last <= start /\ Header(n) <= start /\ start + size <= Size
    <3>1. \A c \in Blocks(p) : q.blocks[c].last = p.blocks[c].last
      BY <1>5, <1>6, <1>8, <1>9
    <3>2. q.blocks[n].last = 0 /\ Header(n) = DataHeader
      BY <1>2, <1>6, <1>8 DEF Header
    <3>3. Blocks(q) \ {n} = Blocks(p) /\ Blocks(p) \subseteq Blocks(q)
      BY <1>2, <1>9
    <3>4. start + size <= Size
      BY <1>11, SmallFits
    <3> QED BY <1>1, <1>8, <1>11, <2>2, <3>1, <3>2, <3>3, <3>4, Constants DEF Layout
  <2> QED BY <1>8, <1>10, <1>11, <2>1, <2>2, CutShape DEF Room
<1>13. /\ o.mem = <<n, start>> /\ o.mem \in Address
       /\ Len(o.pool.blocks) = n
       /\ o.pool.large = p.large /\ o.pool.cleanup = p.cleanup
       /\ o.pool.heap = p.heap \cup {n}
  <2>1. n \in Blocks(q)
    BY <1>2, <1>9
  <2>2. IsCut(q, n, start, size, o)
    BY <1>3, <1>8, <1>11, <2>1, CutFields
  <2> QED BY <1>8, <1>9, <2>2 DEF IsCut
<1>14. Blocks(o.pool) = Blocks(q) /\ o.mem[1] = n /\ n \in Blocks(q) /\ Blocks(p) \subseteq Blocks(q)
  BY <1>2, <1>9, <1>13 DEF Blocks
<1> QED BY <1>3, <1>9, <1>12, <1>13, <1>14 DEF Served

LEMMA Remainder ==
  ASSUME NEW x \in Nat, NEW m \in Nat, x < m
  PROVE  x % m = x
<1> DEFINE k == x \div m
           r == x % m
<1>1. k \in Nat /\ r \in 0..m - 1 /\ x = k * m + r
  BY Division
<1> HIDE DEF k, r
<1>2. k = 0
  <2>1. SUFFICES ASSUME k >= 1 PROVE FALSE
    BY <1>1
  <2>2. k * m >= m
    BY <1>1, <2>1
  <2> QED BY <1>1, <2>2
<1>3. x = r
  BY <1>1, <1>2
<1> QED BY <1>3 DEF r

LEMMA SmallServed ==
  ASSUME NEW p, Shape(p), NEW size \in Nat, size <= PoolMax, NEW aligned \in BOOLEAN,
         NEW o \in Small(p, size, aligned)
  PROVE  o = Failure(p) \/ Served(p, o)
<1> DEFINE fit == {b \in p.current..Len(p.blocks) : HasRoom(p, b, size, aligned)}
           b == Min(fit)
           from == Start(p, b, aligned)
<1>1. CASE fit = {}
  <2>1. o \in uti_palloc_block(p, size)
    BY <1>1 DEF Small
  <2> QED BY <2>1, NewBlock
<1>2. CASE fit # {}
  <2>1. o = Cut(p, b, from, size)
    BY <1>2 DEF Small
  <2>2. p \in PoolType /\ Search(p) /\ Layout(p)
    BY DEF Shape
  <2>3. Len(p.blocks) \in Nat /\ fit \in SUBSET (1..Len(p.blocks))
    BY <2>2, BlocksAreNumbers
  <2>4. b \in fit
    BY <1>2, <2>3, Least
  <2>5. b \in Blocks(p) /\ HasRoom(p, b, size, aligned) /\ b \in Block
    BY <2>2, <2>3, <2>4, BlocksAreNumbers DEF Blocks
  <2> HIDE DEF b
  <2>6. p.blocks[b].last \in Nat /\ Header(b) \in Nat
    BY <2>2, <2>5, BlockFields
  <2>7. from \in Nat /\ p.blocks[b].last <= from
    BY <2>6, Aligned DEF Start
  <2>8. ASSUME AlignedSize PROVE Header(b) <= from /\ from + size <= Size
    <3>1. Header(b) <= p.blocks[b].last /\ p.blocks[b].last <= Size
      BY <2>2, <2>5, <2>8 DEF Layout
    <3>2. from <= Size
      BY <2>6, <2>8, <3>1, Aligned DEF Start, AlignedSize
    <3>3. (Size - from) % SizeMod >= size
      BY <2>5 DEF HasRoom
    <3> HIDE DEF from
    <3>4. Size - from \in Nat /\ Size - from < SizeMod
      BY <2>7, <3>2, Constants, PoolAssumption
    <3>5. (Size - from) % SizeMod = Size - from
      BY <3>4, Constants, Remainder
    <3> QED BY <2>6, <2>7, <3>1, <3>3, <3>5, Constants
  <2> HIDE DEF from
  <2>9. Room(p, b, from, size)
    BY <2>2, <2>5, <2>7, <2>8 DEF Room, Layout
  <2>10. Shape(o.pool)
    BY <2>1, <2>2, <2>5, <2>7, <2>9, CutShape
  <2>11. IsCut(p, b, from, size, o)
    BY <2>1, <2>2, <2>5, <2>7, CutFields
  <2>12. Blocks(o.pool) = Blocks(p) /\ o.mem[1] = b
    BY <2>11 DEF IsCut, Blocks
  <2> QED BY <2>5, <2>10, <2>11, <2>12 DEF IsCut, Served
<1> QED BY <1>1, <1>2

-----------------------------------------------------------------------------
(* The list of large chunks.                                               *)

LEMMA Prepended ==
  ASSUME NEW S, NEW x \in S, NEW q \in Seq(S)
  PROVE  /\ <<x>> \o q \in Seq(S)
         /\ Len(<<x>> \o q) = Len(q) + 1
         /\ (<<x>> \o q)[1] = x
         /\ \A i \in 1..Len(q) : (<<x>> \o q)[i + 1] = q[i]
         /\ \A j \in 2..Len(q) + 1 : (<<x>> \o q)[j] = q[j - 1]
<1>1. <<x>> \in Seq(S) /\ Len(<<x>>) = 1 /\ <<x>>[1] = x
  OBVIOUS
<1>2. Len(q) \in Nat
  BY LenProperties
<1>3. /\ <<x>> \o q \in Seq(S)
      /\ Len(<<x>> \o q) = 1 + Len(q)
      /\ \A i \in 1..1 + Len(q) : (<<x>> \o q)[i] = IF i <= 1 THEN <<x>>[i] ELSE q[i - 1]
  BY <1>1, ConcatProperties
<1> QED BY <1>1, <1>2, <1>3

(* Each chunk is in one node of the list.                                  *)
Owned(p) ==
  /\ p.heap \ Chunk = Blocks(p)
  /\ p.heap \cap Chunk = {p.large[i].alloc : i \in Entries(p.large)} \ {NULL}
  /\ \A i, j \in Entries(p.large) :
       p.large[i].alloc = p.large[j].alloc /\ i # j => p.large[i].alloc = NULL

Live(p, m) == IF m \in Chunk THEN m \in p.heap ELSE m # NULL => m[1] \in Blocks(p)

ListsLive(p) ==
  /\ \A i \in Entries(p.large) : p.large[i].at[1] \in Blocks(p)
  /\ \A i \in Entries(p.cleanup) : Live(p, p.cleanup[i].at) /\ Live(p, p.cleanup[i].data)

Fine(p) == Shape(p) /\ Owned(p) /\ ListsLive(p)

(* What any allocation leaves as it was, and what it gives.                *)
Given(p, o) ==
  /\ Fine(o.pool)
  /\ o.pool.cleanup = p.cleanup
  /\ p.heap \subseteq o.pool.heap
  /\ o.mem \in Address \cup Chunk
  /\ Live(o.pool, o.mem)

LEMMA Distinct ==
  /\ \A c \in Chunk : c \notin Nat /\ c \notin Address /\ c # NULL
  /\ \A b \in Block : b \notin Chunk /\ b # NULL
  /\ \A a \in Address : a \notin Chunk /\ a # NULL
  /\ NULL \notin Chunk /\ NULL \notin File
<1>1. Block \subseteq Nat
  BY Constants DEF Block
<1> QED BY <1>1, PoolAssumption

LEMMA LiveStays ==
  ASSUME NEW p, NEW q, p.heap \subseteq q.heap, Blocks(p) \subseteq Blocks(q), NEW m, Live(p, m)
  PROVE  Live(q, m)
BY DEF Live

LEMMA ListsStayLive ==
  ASSUME NEW p, NEW q, ListsLive(p), p.heap \subseteq q.heap, Blocks(p) \subseteq Blocks(q),
         q.cleanup = p.cleanup
  PROVE  \A i \in Entries(q.cleanup) : Live(q, q.cleanup[i].at) /\ Live(q, q.cleanup[i].data)
BY LiveStays DEF ListsLive

LEMMA ServedGiven ==
  ASSUME NEW p, Fine(p), NEW o, Served(p, o)
  PROVE  Given(p, o) /\ p.heap \cap Chunk = o.pool.heap \cap Chunk
<1>1. /\ Shape(o.pool) /\ o.pool.large = p.large /\ o.pool.cleanup = p.cleanup
      /\ Blocks(p) \subseteq Blocks(o.pool)
      /\ o.pool.heap = p.heap \cup (Blocks(o.pool) \ Blocks(p))
      /\ o.mem \in Address /\ o.mem[1] \in Blocks(o.pool)
  BY DEF Served
<1>2. Blocks(o.pool) \subseteq Block
  BY <1>1, BlocksAreNumbers DEF Shape
<1>3. Blocks(o.pool) \cap Chunk = {}
  BY <1>2, Distinct
<1>4. p.heap \cap Chunk = o.pool.heap \cap Chunk
  BY <1>1, <1>3
<1>5. o.pool.heap \ Chunk = Blocks(o.pool)
  BY <1>1, <1>3 DEF Fine, Owned
<1>6. Owned(o.pool)
  BY <1>1, <1>4, <1>5 DEF Fine, Owned
<1>7. p.heap \subseteq o.pool.heap
  BY <1>1
<1>8. ListsLive(o.pool)
  <2>1. \A i \in Entries(o.pool.cleanup) :
          Live(o.pool, o.pool.cleanup[i].at) /\ Live(o.pool, o.pool.cleanup[i].data)
    BY <1>1, <1>7, ListsStayLive DEF Fine
  <2>2. \A i \in Entries(o.pool.large) : o.pool.large[i].at[1] \in Blocks(o.pool)
    BY <1>1 DEF Fine, ListsLive
  <2> QED BY <2>1, <2>2 DEF ListsLive
<1>9. Live(o.pool, o.mem)
  BY <1>1, Distinct DEF Live
<1> QED BY <1>1, <1>4, <1>6, <1>7, <1>8, <1>9 DEF Given, Fine

LEMMA SameShape ==
  ASSUME NEW p, Shape(p), NEW q \in PoolType, q.blocks = p.blocks, q.current = p.current,
         q.held = p.held, q.twice = p.twice
  PROVE  Shape(q) /\ Blocks(q) = Blocks(p)
<1>1. Blocks(q) = Blocks(p)
  BY DEF Blocks
<1>2. Search(q)
  BY DEF Shape, Search
<1>3. Layout(q)
  BY <1>1 DEF Shape, Layout
<1> QED BY <1>1, <1>2, <1>3 DEF Shape

(* The types of the list of large chunks.                                  *)
Large == [at : Address, alloc : Chunk \cup {NULL}]

LEMMA NodeAdded ==
  ASSUME NEW p, Fine(p), NEW c \in Chunk, c \notin p.heap,
         NEW at \in Address, at[1] \in Blocks(p)
  PROVE  Given(p, [pool |-> [p EXCEPT !.heap = @ \cup {c},
                                      !.large = <<[at |-> at, alloc |-> c]>> \o @],
                   mem  |-> c])
<1> DEFINE node == [at |-> at, alloc |-> c]
           list == <<node>> \o p.large
           q == [p EXCEPT !.heap = p.heap \cup {c}, !.large = list]
<1>1. p \in PoolType /\ Shape(p) /\ Owned(p) /\ ListsLive(p)
  BY DEF Fine, Shape
<1>2. node \in Large /\ node.at = at /\ node.alloc = c /\ p.large \in Seq(Large)
  BY <1>1 DEF PoolType, Large
<1> HIDE DEF node
<1>3. /\ list \in Seq(Large) /\ Len(list) = Len(p.large) + 1 /\ list[1] = node
      /\ \A i \in 1..Len(p.large) : list[i + 1] = p.large[i]
      /\ \A j \in 2..Len(p.large) + 1 : list[j] = p.large[j - 1]
  BY <1>2, Prepended
<1>4. Len(p.large) \in Nat
  BY <1>2, LenProperties
<1> HIDE DEF list
<1>5. /\ q \in PoolType /\ q.large = list /\ q.heap = p.heap \cup {c}
      /\ q.blocks = p.blocks /\ q.current = p.current /\ q.held = p.held
      /\ q.twice = p.twice /\ q.cleanup = p.cleanup
  BY <1>1, <1>3 DEF PoolType, Large
<1> HIDE DEF q
<1>6. Shape(q) /\ Blocks(q) = Blocks(p)
  BY <1>1, <1>5, SameShape
<1>7. c # NULL /\ \A i \in Entries(p.large) : p.large[i].alloc # c
  BY <1>1, Distinct DEF Owned
<1>8. \A j \in Entries(q.large) :
        \/ j = 1 /\ q.large[j] = node
        \/ j - 1 \in Entries(p.large) /\ q.large[j] = p.large[j - 1]
  BY <1>3, <1>4, <1>5 DEF Entries
<1>9. {q.large[j].alloc : j \in Entries(q.large)} = {p.large[i].alloc : i \in Entries(p.large)} \cup {c}
  <2>1. ASSUME NEW j \in Entries(q.large)
        PROVE  q.large[j].alloc \in {p.large[i].alloc : i \in Entries(p.large)} \cup {c}
    BY <1>2, <1>8
  <2>2. c \in {q.large[j].alloc : j \in Entries(q.large)}
    <3>1. 1 \in Entries(q.large) /\ q.large[1].alloc = c
      BY <1>2, <1>3, <1>4, <1>5 DEF Entries
    <3> QED BY <3>1
  <2>3. ASSUME NEW i \in Entries(p.large)
        PROVE  p.large[i].alloc \in {q.large[j].alloc : j \in Entries(q.large)}
    <3>1. i + 1 \in Entries(q.large) /\ q.large[i + 1].alloc = p.large[i].alloc
      BY <1>3, <1>4, <1>5 DEF Entries
    <3> QED BY <3>1
  <2> QED BY <2>1, <2>2, <2>3
<1>10. Owned(q)
  <2>1. q.heap \ Chunk = Blocks(q)
    BY <1>1, <1>5, <1>6 DEF Owned
  <2>2. q.heap \cap Chunk = {q.large[i].alloc : i \in Entries(q.large)} \ {NULL}
    BY <1>1, <1>5, <1>7, <1>9 DEF Owned
  <2>3. ASSUME NEW i \in Entries(q.large), NEW j \in Entries(q.large),
               q.large[i].alloc = q.large[j].alloc, i # j
        PROVE  q.large[i].alloc = NULL
    <3>1. i \in Int /\ j \in Int
      BY DEF Entries
    <3>2. CASE i = 1
      <4>1. j # 1 /\ q.large[i].alloc = c
        BY <1>2, <1>3, <1>5, <2>3, <3>2
      <4>2. j - 1 \in Entries(p.large) /\ q.large[j] = p.large[j - 1]
        BY <1>8, <4>1
      <4> QED BY <1>7, <2>3, <4>1, <4>2
    <3>3. CASE j = 1
      <4>1. i # 1 /\ q.large[j].alloc = c
        BY <1>2, <1>3, <1>5, <2>3, <3>3
      <4>2. i - 1 \in Entries(p.large) /\ q.large[i] = p.large[i - 1]
        BY <1>8, <4>1
      <4> QED BY <1>7, <2>3, <4>1, <4>2
    <3>4. CASE i # 1 /\ j # 1
      <4>1. /\ i - 1 \in Entries(p.large) /\ q.large[i] = p.large[i - 1]
            /\ j - 1 \in Entries(p.large) /\ q.large[j] = p.large[j - 1]
            /\ i - 1 # j - 1
        BY <1>8, <2>3, <3>1, <3>4
      <4> QED BY <1>1, <2>3, <4>1 DEF Owned
    <3> QED BY <3>2, <3>3, <3>4
  <2> QED BY <2>1, <2>2, <2>3 DEF Owned
<1>11. p.heap \subseteq q.heap /\ Live(q, c)
  BY <1>5 DEF Live
<1>12. ListsLive(q)
  <2>1. \A i \in Entries(q.cleanup) : Live(q, q.cleanup[i].at) /\ Live(q, q.cleanup[i].data)
    BY <1>1, <1>5, <1>6, <1>11, ListsStayLive
  <2>2. \A i \in Entries(q.large) : q.large[i].at[1] \in Blocks(q)
    BY <1>1, <1>2, <1>6, <1>8 DEF ListsLive
  <2> QED BY <2>1, <2>2 DEF ListsLive
<1>13. Given(p, [pool |-> q, mem |-> c])
  BY <1>5, <1>6, <1>10, <1>11, <1>12 DEF Given, Fine
<1> QED BY <1>13 DEF q, list, node

LEMMA NodeReused ==
  ASSUME NEW p, Fine(p), NEW c \in Chunk, c \notin p.heap,
         NEW k \in Entries(p.large), p.large[k].alloc = NULL
  PROVE  Given(p, [pool |-> [p EXCEPT !.heap = @ \cup {c}, !.large[k].alloc = c],
                   mem  |-> c])
<1> DEFINE node == [p.large[k] EXCEPT !.alloc = c]
           list == [p.large EXCEPT ![k] = node]
           q == [p EXCEPT !.heap = p.heap \cup {c}, !.large = list]
<1>1. p \in PoolType /\ Shape(p) /\ Owned(p) /\ ListsLive(p)
  BY DEF Fine, Shape
<1>2. p.large \in Seq(Large) /\ k \in 1..Len(p.large)
  BY <1>1 DEF PoolType, Large, Entries
<1>3. p.large[k] \in Large
  BY <1>2, ElementOfSeq
<1>4. node \in Large /\ node.at = p.large[k].at /\ node.alloc = c
  BY <1>3 DEF Large
<1> HIDE DEF node
<1>5. /\ list \in Seq(Large) /\ Len(list) = Len(p.large)
      /\ \A i \in 1..Len(p.large) : list[i] = IF i = k THEN node ELSE p.large[i]
  BY <1>2, <1>4, ExceptSeq
<1> HIDE DEF list
<1>6. /\ q \in PoolType /\ q.large = list /\ q.heap = p.heap \cup {c}
      /\ q.blocks = p.blocks /\ q.current = p.current /\ q.held = p.held
      /\ q.twice = p.twice /\ q.cleanup = p.cleanup
  BY <1>1, <1>5 DEF PoolType, Large
<1> HIDE DEF q
<1>7. Shape(q) /\ Blocks(q) = Blocks(p)
  BY <1>1, <1>6, SameShape
<1>8. c # NULL /\ \A i \in Entries(p.large) : p.large[i].alloc # c
  BY <1>1, Distinct DEF Owned
<1>9. /\ Entries(q.large) = Entries(p.large)
      /\ \A i \in Entries(p.large) :
           /\ q.large[i].alloc = IF i = k THEN c ELSE p.large[i].alloc
           /\ q.large[i].at = p.large[i].at
  BY <1>4, <1>5, <1>6 DEF Entries
<1>10. {q.large[i].alloc : i \in Entries(q.large)} \ {NULL}
         = ({p.large[i].alloc : i \in Entries(p.large)} \ {NULL}) \cup {c}
  <2>1. ASSUME NEW i \in Entries(p.large), p.large[i].alloc # NULL
        PROVE  q.large[i].alloc = p.large[i].alloc
    BY <1>9, <2>1
  <2> QED BY <1>8, <1>9, <2>1
<1>11. Owned(q)
  <2>1. q.heap \ Chunk = Blocks(q)
    BY <1>1, <1>6, <1>7 DEF Owned
  <2>2. q.heap \cap Chunk = {q.large[i].alloc : i \in Entries(q.large)} \ {NULL}
    BY <1>1, <1>6, <1>10 DEF Owned
  <2>3. ASSUME NEW i \in Entries(q.large), NEW j \in Entries(q.large),
               q.large[i].alloc = q.large[j].alloc, i # j
        PROVE  q.large[i].alloc = NULL
    BY <1>1, <1>8, <1>9, <2>3 DEF Owned
  <2> QED BY <2>1, <2>2, <2>3 DEF Owned
<1>12. p.heap \subseteq q.heap /\ Live(q, c)
  BY <1>6 DEF Live
<1>13. ListsLive(q)
  <2>1. \A i \in Entries(q.cleanup) : Live(q, q.cleanup[i].at) /\ Live(q, q.cleanup[i].data)
    BY <1>1, <1>6, <1>7, <1>12, ListsStayLive
  <2>2. \A i \in Entries(q.large) : q.large[i].at[1] \in Blocks(q)
    BY <1>1, <1>7, <1>9 DEF ListsLive
  <2> QED BY <2>1, <2>2 DEF ListsLive
<1>14. Given(p, [pool |-> q, mem |-> c])
  BY <1>6, <1>7, <1>11, <1>12, <1>13 DEF Given, Fine
<1> QED BY <1>14 DEF q, list, node

-----------------------------------------------------------------------------
(* The allocators.                                                         *)

LEMMA Sizes == LargeNode <= PoolMax /\ CleanupNode <= PoolMax /\ PoolMax \in Int
<1>1. /\ Size - PoolHeader \in Int /\ PageMax \in Int
      /\ LargeNode <= Size - PoolHeader /\ LargeNode <= PageMax
      /\ CleanupNode <= Size - PoolHeader /\ CleanupNode <= PageMax
  <2>1. /\ Size >= PoolHeader + 2 * LargeNode /\ PageMax >= 2 * LargeNode
        /\ CleanupNode <= 2 * LargeNode
    BY PoolAssumption
  <2> QED BY <2>1, Constants
<1>2. PoolMax \in {Size - PoolHeader, PageMax}
  BY <1>1, MinOfTwo DEF PoolMax
<1> QED BY <1>1, <1>2

LEMMA FailureIsNot ==
  ASSUME NEW p, NEW o, o.mem \in Address \cup Chunk
  PROVE  o.mem # NULL /\ o # Failure(p)
BY Distinct DEF Failure

LEMMA ListLargeGives ==
  ASSUME NEW p, Fine(p), NEW c \in Chunk, c \notin p.heap, NEW o \in ListLarge(p, c)
  PROVE  o = Failure(p) \/ Given(p, o)
<1>1. PICK n \in Small(p, LargeNode, TRUE) :
        o = IF n.mem = NULL THEN Failure(p)
            ELSE [pool |-> [n.pool EXCEPT !.heap = @ \cup {c},
                                          !.large = <<[at |-> n.mem, alloc |-> c]>> \o @],
                  mem  |-> c]
  BY DEF ListLarge
<1>2. n = Failure(p) \/ Served(p, n)
  BY Sizes, Constants, SmallServed DEF Fine
<1>3. CASE n = Failure(p)
  BY <1>1, <1>3 DEF Failure
<1>4. CASE Served(p, n)
  <2>1. n.mem \in Address /\ n.mem # NULL /\ n.mem[1] \in Blocks(n.pool)
    BY <1>4, Distinct DEF Served
  <2>2. Given(p, n) /\ c \notin n.pool.heap
    BY <1>4, ServedGiven
  <2>3. o = [pool |-> [n.pool EXCEPT !.heap = @ \cup {c},
                                     !.large = <<[at |-> n.mem, alloc |-> c]>> \o @],
             mem  |-> c]
    BY <1>1, <2>1
  <2>4. Given(n.pool, o)
    BY <2>1, <2>2, <2>3, NodeAdded DEF Given
  <2> QED BY <2>2, <2>4 DEF Given
<1> QED BY <1>2, <1>3, <1>4

LEMMA LargeGives ==
  ASSUME NEW p, Fine(p), NEW c \in Chunk, c \notin p.heap, NEW o \in uti_palloc_large(p, c)
  PROVE  o = Failure(p) \/ Given(p, o)
<1>1. CASE Vacant(p) = {}
  BY <1>1, ListLargeGives DEF uti_palloc_large
<1>2. CASE Vacant(p) # {}
  <2> DEFINE k == Min(Vacant(p))
  <2>1. Len(p.large) \in Nat
    <3>1. p.large \in Seq(Large)
      BY DEF Fine, Shape, PoolType, Large
    <3> QED BY <3>1, LenProperties
  <2>2. Min({5, Len(p.large)}) <= Len(p.large) /\ Min({5, Len(p.large)}) \in Int
    <3>1. 5 \in Int /\ Len(p.large) \in Int
      BY <2>1
    <3>2. Min({5, Len(p.large)}) \in {5, Len(p.large)} /\ Min({5, Len(p.large)}) <= Len(p.large)
      BY <3>1, MinOfTwo, Zenon
    <3> QED BY <3>1, <3>2, Zenon
  <2>3. Vacant(p) \in SUBSET (1..Len(p.large))
    BY <2>1, <2>2 DEF Vacant
  <2>4. k \in Vacant(p)
    BY <1>2, <2>1, <2>3, Least
  <2>5. k \in Entries(p.large) /\ p.large[k].alloc = NULL
    BY <2>3, <2>4 DEF Vacant, Entries
  <2>6. o = [pool |-> [p EXCEPT !.heap = @ \cup {c}, !.large[k].alloc = c], mem  |-> c]
    BY <1>2 DEF uti_palloc_large
  <2> HIDE DEF k
  <2> QED BY <2>5, <2>6, NodeReused
<1> QED BY <1>1, <1>2

LEMMA AllocateGives ==
  ASSUME NEW p, Fine(p), NEW size \in Nat, NEW aligned \in BOOLEAN,
         NEW o \in Allocate(p, size, aligned)
  PROVE  o = Failure(p) \/ Given(p, o)
<1>1. CASE size <= PoolMax
  <2>1. o \in Small(p, size, aligned)
    BY <1>1 DEF Allocate
  <2> QED BY <1>1, <2>1, SmallServed, ServedGiven DEF Fine
<1>2. CASE ~(size <= PoolMax)
  <2>1. o = Failure(p) \/ \E c \in Chunk \ p.heap : o \in uti_palloc_large(p, c)
    BY <1>2 DEF Allocate
  <2> QED BY <2>1, LargeGives
<1> QED BY <1>1, <1>2

LEMMA MemalignGives ==
  ASSUME NEW p, Fine(p), NEW o \in uti_pmemalign(p)
  PROVE  o = Failure(p) \/ Given(p, o)
<1>1. o = Failure(p) \/ \E c \in Chunk \ p.heap : o \in ListLarge(p, c)
  BY DEF uti_pmemalign
<1> QED BY <1>1, ListLargeGives

(* The entries of the list of cleanup handlers.                            *)
Cleanup == [at : Address, data : Address \cup Chunk \cup {NULL},
            handler : {"none", "close", "delete", "user"}, fd : File \cup {NULL}]

LEMMA EntryAdded ==
  ASSUME NEW p, Fine(p), NEW e \in Cleanup, Live(p, e.at), Live(p, e.data)
  PROVE  Fine([p EXCEPT !.cleanup = <<e>> \o @])
<1> DEFINE list == <<e>> \o p.cleanup
           q == [p EXCEPT !.cleanup = list]
<1>1. p \in PoolType /\ Shape(p) /\ Owned(p) /\ ListsLive(p)
  BY DEF Fine, Shape
<1>2. p.cleanup \in Seq(Cleanup)
  BY <1>1 DEF PoolType, Cleanup
<1>3. /\ list \in Seq(Cleanup) /\ Len(list) = Len(p.cleanup) + 1 /\ list[1] = e
      /\ \A j \in 2..Len(p.cleanup) + 1 : list[j] = p.cleanup[j - 1]
  BY <1>2, Prepended
<1>4. Len(p.cleanup) \in Nat
  BY <1>2, LenProperties
<1> HIDE DEF list
<1>5. /\ q \in PoolType /\ q.cleanup = list /\ q.heap = p.heap /\ q.large = p.large
      /\ q.blocks = p.blocks /\ q.current = p.current /\ q.held = p.held
      /\ q.twice = p.twice
  BY <1>1, <1>3 DEF PoolType, Cleanup
<1> HIDE DEF q
<1>6. Shape(q) /\ Blocks(q) = Blocks(p)
  BY <1>1, <1>5, SameShape
<1>7. Owned(q)
  BY <1>1, <1>5, <1>6 DEF Owned
<1>8. \A m : Live(p, m) => Live(q, m)
  BY <1>5, <1>6 DEF Live
<1>9. \A j \in Entries(q.cleanup) :
        q.cleanup[j] = e \/ \E i \in Entries(p.cleanup) : q.cleanup[j] = p.cleanup[i]
  <2>1. ASSUME NEW j \in Entries(q.cleanup), j # 1
        PROVE  j - 1 \in Entries(p.cleanup) /\ q.cleanup[j] = p.cleanup[j - 1]
    BY <1>3, <1>4, <1>5, <2>1 DEF Entries
  <2>2. q.cleanup[1] = e
    BY <1>3, <1>5
  <2> QED BY <2>1, <2>2
<1>10. ListsLive(q)
  BY <1>1, <1>5, <1>6, <1>8, <1>9 DEF ListsLive
<1> QED BY <1>6, <1>7, <1>10 DEF Fine, q, list

(* What registering a cleanup handler does.                                *)
Registered(p, o, handler, fd) ==
  /\ Fine(o.pool)
  /\ \/ o.mem = NULL /\ o.pool.cleanup = p.cleanup
     \/ /\ o.mem # NULL
        /\ \E e \in Cleanup :
             e.handler = handler /\ e.fd = fd /\ o.pool.cleanup = <<e>> \o p.cleanup

LEMMA CleanupGives ==
  ASSUME NEW p, Fine(p), NEW size \in Nat, NEW handler \in {"close", "delete", "user"},
         NEW fd \in File \cup {NULL}, NEW r \in uti_pool_cleanup_add(p, size, handler, fd)
  PROVE  Registered(p, r, handler, fd)
<1> DEFINE Data(o) == IF size > 0 THEN uti_palloc(o.pool, size) ELSE {Failure(o.pool)}
           Entry(o, d) == [at |-> o.mem, data |-> d.mem, handler |-> handler, fd |-> fd]
           With(o, d) == [pool |-> [d.pool EXCEPT !.cleanup = <<Entry(o, d)>> \o @], mem |-> o.mem]
<1>1. PICK o \in uti_palloc(p, CleanupNode) :
        \/ o.mem = NULL /\ r = o
        \/ /\ o.mem # NULL
           /\ \E d \in Data(o) : r = IF size > 0 /\ d.mem = NULL THEN d ELSE With(o, d)
  BY DEF uti_pool_cleanup_add
<1>2. o = Failure(p) \/ Served(p, o)
  <2>1. o \in Small(p, CleanupNode, TRUE)
    BY Sizes DEF uti_palloc, Allocate
  <2> QED BY <2>1, Sizes, Constants, SmallServed DEF Fine
<1>3. CASE o = Failure(p)
  BY <1>1, <1>3 DEF Failure, Registered
<1>4. CASE Served(p, o)
  <2>1. Given(p, o) /\ o.mem \in Address /\ o.mem # NULL
    BY <1>4, ServedGiven, Distinct DEF Served
  <2>2. PICK d \in Data(o) : r = IF size > 0 /\ d.mem = NULL THEN d ELSE With(o, d)
    BY <1>1, <2>1
  <2>3. d = Failure(o.pool) \/ Given(o.pool, d)
    <3>1. CASE size > 0
      <4>1. d \in Allocate(o.pool, size, TRUE)
        BY <2>2, <3>1 DEF uti_palloc
      <4> QED BY <2>1, <4>1, AllocateGives DEF Given
    <3>2. CASE ~(size > 0)
      BY <2>2, <3>2
    <3> QED BY <3>1, <3>2
  <2>4. /\ Fine(d.pool) /\ d.pool.cleanup = p.cleanup
        /\ d.mem \in Address \cup Chunk \cup {NULL}
        /\ Live(d.pool, d.mem) /\ Live(d.pool, o.mem)
    <3>1. CASE d = Failure(o.pool)
      BY <2>1, <3>1, Distinct DEF Failure, Given, Live
    <3>2. CASE Given(o.pool, d)
      <4>1. Live(o.pool, o.mem) /\ o.pool.heap \subseteq d.pool.heap
        BY <2>1, <3>2 DEF Given
      <4>2. o.pool.heap \ Chunk = Blocks(o.pool) /\ d.pool.heap \ Chunk = Blocks(d.pool)
        BY <2>1, <3>2 DEF Given, Fine, Owned
      <4>3. Blocks(o.pool) \subseteq Blocks(d.pool)
        BY <4>1, <4>2
      <4>4. Live(d.pool, o.mem)
        BY <4>1, <4>3, LiveStays
      <4> QED BY <2>1, <3>2, <4>4 DEF Given
    <3> QED BY <2>3, <3>1, <3>2
  <2>5. CASE size > 0 /\ d.mem = NULL
    BY <2>2, <2>4, <2>5 DEF Registered
  <2>6. CASE ~(size > 0 /\ d.mem = NULL)
    <3>1. r = With(o, d)
      BY <2>2, <2>6
    <3>2. /\ Entry(o, d) \in Cleanup /\ Entry(o, d).at = o.mem /\ Entry(o, d).data = d.mem
          /\ Entry(o, d).handler = handler /\ Entry(o, d).fd = fd
      BY <2>1, <2>4 DEF Cleanup
    <3> HIDE DEF Entry
    <3>3. Fine([d.pool EXCEPT !.cleanup = <<Entry(o, d)>> \o @])
      BY <2>4, <3>2, EntryAdded
    <3>4. r.pool.cleanup = <<Entry(o, d)>> \o p.cleanup
      BY <2>4, <3>1 DEF Fine, Shape, PoolType
    <3> QED BY <2>1, <3>1, <3>2, <3>3, <3>4 DEF Registered
  <2> QED BY <2>5, <2>6
<1> QED BY <1>2, <1>3, <1>4

-----------------------------------------------------------------------------
(* The calls that allocate nothing.                                        *)

LEMMA CreateFine ==
  Fine([NoPool EXCEPT !.blocks = <<[last |-> PoolHeader, failed |-> 0]>>, !.heap = @ \cup {1}])
<1> DEFINE first == [last |-> PoolHeader, failed |-> 0]
           list == <<first>>
           q == [NoPool EXCEPT !.blocks = list, !.heap = {1}]
<1>1. first \in [last : Nat, failed : Nat] /\ first.last = PoolHeader /\ first.failed = 0
  BY Constants
<1> HIDE DEF first
<1>2. list \in Seq([last : Nat, failed : Nat]) /\ Len(list) = 1 /\ list[1] = first
  BY <1>1
<1> HIDE DEF list
<1>3. 1 \in Block
  BY Constants DEF Block
<1>4. /\ q \in PoolType /\ q.blocks = list /\ q.current = 1 /\ q.heap = {1}
      /\ q.held = {} /\ q.twice = FALSE /\ q.large = <<>> /\ q.cleanup = <<>>
  BY <1>2, <1>3, EmptySeq DEF NoPool, PoolType
<1> HIDE DEF q
<1>5. Blocks(q) = {1} /\ Len(q.blocks) = 1 /\ q.blocks[1].failed = 0
  <2>1. Len(q.blocks) = 1
    BY <1>2, <1>4
  <2>2. 1..1 = {1}
    OBVIOUS
  <2> QED BY <1>1, <1>2, <1>4, <2>1, <2>2 DEF Blocks
<1>6. Search(q)
  <2>1. 1..1 - 1 = {} /\ 1..1 = {1}
    OBVIOUS
  <2>2. q.current = 1
    BY <1>4
  <2> QED BY <1>3, <1>5, <2>1, <2>2 DEF Search
<1>7. PoolHeader <= Size
  BY PoolAssumption, Constants
<1>8. Layout(q)
  BY <1>1, <1>2, <1>4, <1>5, <1>7, Constants DEF Layout, Header
<1>9. Owned(q) /\ ListsLive(q)
  BY <1>3, <1>4, <1>5, EmptySeq, Distinct DEF Owned, ListsLive, Entries
<1>10. Fine(q)
  BY <1>4, <1>6, <1>8, <1>9 DEF Fine, Shape
<1>11. q = [NoPool EXCEPT !.blocks = <<[last |-> PoolHeader, failed |-> 0]>>, !.heap = @ \cup {1}]
  BY DEF q, list, first, NoPool
<1> QED BY <1>10, <1>11

LEMMA PfreeFine ==
  ASSUME NEW p, Fine(p), NEW c \in Chunk, NEW k \in Entries(p.large), p.large[k].alloc = c,
         \A i \in Entries(p.cleanup) : p.cleanup[i].data # c
  PROVE  /\ Fine([p EXCEPT !.heap = @ \ {c}, !.large[k].alloc = NULL])
         /\ [p EXCEPT !.heap = @ \ {c}, !.large[k].alloc = NULL].cleanup = p.cleanup
<1> DEFINE node == [p.large[k] EXCEPT !.alloc = NULL]
           list == [p.large EXCEPT ![k] = node]
           q == [p EXCEPT !.heap = p.heap \ {c}, !.large = list]
<1>1. p \in PoolType /\ Shape(p) /\ Owned(p) /\ ListsLive(p)
  BY DEF Fine, Shape
<1>2. p.large \in Seq(Large) /\ k \in 1..Len(p.large) /\ p.cleanup \in Seq(Cleanup)
  BY <1>1 DEF PoolType, Large, Cleanup, Entries
<1>3. p.large[k] \in Large
  BY <1>2, ElementOfSeq
<1>4. node \in Large /\ node.at = p.large[k].at /\ node.alloc = NULL
  BY <1>3 DEF Large
<1> HIDE DEF node
<1>5. /\ list \in Seq(Large) /\ Len(list) = Len(p.large)
      /\ \A i \in 1..Len(p.large) : list[i] = IF i = k THEN node ELSE p.large[i]
  BY <1>2, <1>4, ExceptSeq
<1> HIDE DEF list
<1>6. /\ q \in PoolType /\ q.large = list /\ q.heap = p.heap \ {c}
      /\ q.blocks = p.blocks /\ q.current = p.current /\ q.held = p.held
      /\ q.twice = p.twice /\ q.cleanup = p.cleanup
  BY <1>1, <1>5 DEF PoolType, Large
<1> HIDE DEF q
<1>7. Shape(q) /\ Blocks(q) = Blocks(p)
  BY <1>1, <1>6, SameShape
<1>8. c # NULL /\ \A i \in Entries(p.large) : i # k => p.large[i].alloc # c
  BY <1>1, Distinct DEF Owned
<1>9. /\ Entries(q.large) = Entries(p.large)
      /\ \A i \in Entries(p.large) :
           /\ q.large[i].alloc = IF i = k THEN NULL ELSE p.large[i].alloc
           /\ q.large[i].at = p.large[i].at
  BY <1>4, <1>5, <1>6 DEF Entries
<1>10. {q.large[i].alloc : i \in Entries(q.large)} \ {NULL}
         = ({p.large[i].alloc : i \in Entries(p.large)} \ {NULL}) \ {c}
  BY <1>8, <1>9
<1>11. Owned(q)
  <2>1. q.heap \ Chunk = Blocks(q)
    BY <1>1, <1>6, <1>7 DEF Owned
  <2>2. q.heap \cap Chunk = {q.large[i].alloc : i \in Entries(q.large)} \ {NULL}
    BY <1>1, <1>6, <1>10 DEF Owned
  <2>3. ASSUME NEW i \in Entries(q.large), NEW j \in Entries(q.large),
               q.large[i].alloc = q.large[j].alloc, i # j
        PROVE  q.large[i].alloc = NULL
    BY <1>1, <1>9, <2>3 DEF Owned
  <2> QED BY <2>1, <2>2, <2>3 DEF Owned
<1>12. \A m : Live(p, m) /\ m # c => Live(q, m)
  BY <1>6, <1>7 DEF Live
<1>13. ListsLive(q)
  <2>1. \A i \in Entries(p.cleanup) : p.cleanup[i].at # c
    <3>1. \A i \in Entries(p.cleanup) : p.cleanup[i] \in Cleanup
      BY <1>2, ElementOfSeq DEF Entries
    <3>2. \A i \in Entries(p.cleanup) : p.cleanup[i].at \in Address
      BY <3>1 DEF Cleanup
    <3> QED BY <3>2, Distinct
  <2>2. \A i \in Entries(q.cleanup) : Live(q, q.cleanup[i].at) /\ Live(q, q.cleanup[i].data)
    BY <1>1, <1>6, <1>12, <2>1 DEF ListsLive
  <2>3. \A i \in Entries(q.large) : q.large[i].at[1] \in Blocks(q)
    BY <1>1, <1>7, <1>9 DEF ListsLive
  <2> QED BY <2>2, <2>3 DEF ListsLive
<1> QED BY <1>6, <1>7, <1>11, <1>13 DEF Fine, q, list, node

LEMMA ResetFine ==
  ASSUME NEW p, Fine(p), p.cleanup = <<>>
  PROVE  LET q == [p EXCEPT !.blocks = [b \in DOMAIN @ |-> [@[b] EXCEPT !.last = PoolHeader]],
                            !.heap = Blocks(p), !.large = <<>>, !.held = {}]
         IN  Fine(q) /\ q.cleanup = p.cleanup
<1> DEFINE list == [b \in DOMAIN p.blocks |-> [p.blocks[b] EXCEPT !.last = PoolHeader]]
           q == [p EXCEPT !.blocks = list, !.heap = Blocks(p), !.large = <<>>, !.held = {}]
<1>1. p \in PoolType /\ Search(p) /\ Layout(p)
  BY DEF Fine, Shape
<1>2. p.blocks \in Seq([last : Nat, failed : Nat]) /\ Len(p.blocks) \in Nat
  BY <1>1, BlocksAreNumbers DEF PoolType
<1>3. \A b \in 1..Len(p.blocks) : p.blocks[b] \in [last : Nat, failed : Nat]
  BY <1>2, ElementOfSeq
<1>4. /\ list \in [1..Len(p.blocks) -> [last : Nat, failed : Nat]]
      /\ \A b \in 1..Len(p.blocks) :
           list[b].last = PoolHeader /\ list[b].failed = p.blocks[b].failed
  <2>1. DOMAIN p.blocks = 1..Len(p.blocks)
    BY <1>2, LenProperties
  <2> QED BY <1>3, <2>1, Constants
<1> HIDE DEF list
<1>5. list \in Seq([last : Nat, failed : Nat]) /\ Len(list) = Len(p.blocks)
  BY <1>2, <1>4, IsSequence
<1>6. Blocks(p) \subseteq Block
  BY <1>1, BlocksAreNumbers
<1>7. /\ q \in PoolType /\ q.blocks = list /\ q.heap = Blocks(p) /\ q.large = <<>>
      /\ q.held = {} /\ q.twice = p.twice /\ q.cleanup = p.cleanup /\ q.current = p.current
  BY <1>1, <1>5, <1>6, EmptySeq DEF PoolType
<1> HIDE DEF q
<1>8. Blocks(q) = Blocks(p) /\ Len(q.blocks) = Len(p.blocks)
  BY <1>5, <1>7 DEF Blocks
<1>9. Search(q)
  <2>1. \A b \in 1..Len(p.blocks) : q.blocks[b].failed = p.blocks[b].failed
    BY <1>4, <1>7
  <2>2. /\ 1..p.current - 1 \subseteq 1..Len(p.blocks)
        /\ p.current..Len(p.blocks) \subseteq 1..Len(p.blocks)
    BY <1>1, BlocksAreNumbers
  <2>3. \A b \in 1..p.current - 1 : q.blocks[b].failed >= 6
    BY <1>1, <2>1, <2>2 DEF Search
  <2>4. \A b \in p.current..Len(p.blocks) :
          q.blocks[b].failed = IF b = Len(p.blocks) THEN 0 ELSE Len(p.blocks) - 1 - b
    BY <1>1, <2>1, <2>2 DEF Search
  <2> QED BY <1>1, <1>7, <1>8, <2>3, <2>4 DEF Search
<1>10. Layout(q)
  <2>1. \A b \in Blocks(q) : q.blocks[b].last = PoolHeader
    BY <1>4, <1>7, <1>8 DEF Blocks
  <2>2. PoolHeader <= Size /\ DataHeader <= PoolHeader
    BY PoolAssumption, Constants
  <2> QED BY <1>1, <1>7, <2>1, <2>2, Constants DEF Layout, Header
<1>11. Owned(q) /\ ListsLive(q)
  <2>1. Blocks(q) \cap Chunk = {}
    BY <1>6, <1>8, Distinct
  <2>2. Entries(q.large) = {} /\ Entries(q.cleanup) = {}
    BY <1>7, EmptySeq DEF Entries
  <2> QED BY <1>7, <1>8, <2>1, <2>2 DEF Owned, ListsLive
<1> QED BY <1>7, <1>9, <1>10, <1>11 DEF Fine, Shape, q, list

LEMMA HandlerCleared ==
  ASSUME NEW p, Fine(p), NEW k \in Entries(p.cleanup)
  PROVE  LET q == [p EXCEPT !.cleanup[k].handler = "none"] IN
         /\ Fine(q)
         /\ Entries(q.cleanup) = Entries(p.cleanup)
         /\ \A i \in Entries(p.cleanup) :
              /\ q.cleanup[i].fd = p.cleanup[i].fd
              /\ q.cleanup[i].handler = IF i = k THEN "none" ELSE p.cleanup[i].handler
<1> DEFINE entry == [p.cleanup[k] EXCEPT !.handler = "none"]
           list == [p.cleanup EXCEPT ![k] = entry]
           q == [p EXCEPT !.cleanup = list]
<1>1. p \in PoolType /\ Shape(p) /\ Owned(p) /\ ListsLive(p)
  BY DEF Fine, Shape
<1>2. p.cleanup \in Seq(Cleanup) /\ k \in 1..Len(p.cleanup)
  BY <1>1 DEF PoolType, Cleanup, Entries
<1>3. p.cleanup[k] \in Cleanup
  BY <1>2, ElementOfSeq
<1>4. /\ entry \in Cleanup /\ entry.handler = "none" /\ entry.fd = p.cleanup[k].fd
      /\ entry.at = p.cleanup[k].at /\ entry.data = p.cleanup[k].data
  BY <1>3 DEF Cleanup
<1> HIDE DEF entry
<1>5. /\ list \in Seq(Cleanup) /\ Len(list) = Len(p.cleanup)
      /\ \A i \in 1..Len(p.cleanup) : list[i] = IF i = k THEN entry ELSE p.cleanup[i]
  BY <1>2, <1>4, ExceptSeq
<1> HIDE DEF list
<1>6. /\ q \in PoolType /\ q.cleanup = list /\ q.heap = p.heap /\ q.large = p.large
      /\ q.blocks = p.blocks /\ q.current = p.current /\ q.held = p.held
      /\ q.twice = p.twice
  BY <1>1, <1>5 DEF PoolType, Cleanup
<1> HIDE DEF q
<1>7. Shape(q) /\ Blocks(q) = Blocks(p)
  BY <1>1, <1>6, SameShape
<1>8. Owned(q)
  BY <1>1, <1>6, <1>7 DEF Owned
<1>9. Entries(q.cleanup) = Entries(p.cleanup)
  BY <1>5, <1>6 DEF Entries
<1>10. \A i \in Entries(p.cleanup) :
         /\ q.cleanup[i].fd = p.cleanup[i].fd
         /\ q.cleanup[i].handler = IF i = k THEN "none" ELSE p.cleanup[i].handler
         /\ q.cleanup[i].at = p.cleanup[i].at
         /\ q.cleanup[i].data = p.cleanup[i].data
  BY <1>4, <1>5, <1>6 DEF Entries
<1>11. \A m : Live(p, m) => Live(q, m)
  BY <1>6, <1>7 DEF Live
<1>12. ListsLive(q)
  BY <1>1, <1>6, <1>7, <1>9, <1>10, <1>11 DEF ListsLive
<1> QED BY <1>7, <1>8, <1>9, <1>10, <1>12 DEF Fine, q, list, entry

-----------------------------------------------------------------------------
(* The inductive invariant.                                                *)

(* uti_destroy_pool is about to free the chunk of node k of the large list.*)
FreesLarge(p, k) ==
  /\ Shape(p)
  /\ p.heap \ Chunk = Blocks(p)
  /\ p.heap \cap Chunk = {p.large[i].alloc : i \in {j \in Entries(p.large) : j >= k}} \ {NULL}
  /\ \A i, j \in Entries(p.large) :
       p.large[i].alloc = p.large[j].alloc /\ i # j => p.large[i].alloc = NULL
  /\ \A i \in Entries(p.large) : p.large[i].at[1] \in Blocks(p)

(* It is about to free block k.                                            *)
FreesBlocks(p, k) ==
  /\ Shape(p)
  /\ p.heap = k..Len(p.blocks)
  /\ k <= Len(p.blocks)

PoolInv ==
  /\ pc \in {"none", "live", "cleanup", "handler", "large", "blocks"}
  /\ it \in Nat /\ it >= 1
  /\ pc = "none" => pool = NoPool
  /\ pc \in {"live", "cleanup", "handler"} => Fine(pool)
  /\ pc = "handler" => it \in Entries(pool.cleanup) /\ pool.cleanup[it].handler = "user"
  /\ pc = "large" => FreesLarge(pool, it)
  /\ pc = "blocks" => FreesBlocks(pool, it)

Closes(e) == e.handler \in {"close", "delete"}

(* uti_destroy_pool has not come to entry i of the cleanup list yet.       *)
Ahead(i) == pc \notin {"large", "blocks"} /\ (pc \in {"cleanup", "handler"} => i >= it)

FilesInv ==
  /\ file \in [File -> {"closed", "client", "pool"}]
  /\ \A i, j \in Entries(pool.cleanup) :
       /\ Closes(pool.cleanup[i])
       /\ Closes(pool.cleanup[j])
       /\ pool.cleanup[i].fd = pool.cleanup[j].fd
       => i = j
  /\ \A i \in Entries(pool.cleanup) :
       Closes(pool.cleanup[i]) => pool.cleanup[i].fd \in File
  /\ \A f \in File :
       file[f] = "pool" <=>
         \E i \in Entries(pool.cleanup) :
           Closes(pool.cleanup[i]) /\ pool.cleanup[i].fd = f /\ Ahead(i)

Inv == PoolInv /\ FilesInv

(* A step that leaves the files and the cleanup list alone.                *)
LEMMA FilesSame ==
  ASSUME FilesInv, pool'.cleanup = pool.cleanup, UNCHANGED <<file, pc, it>>
  PROVE  FilesInv'
BY DEF FilesInv, Ahead, Closes, Entries

(* A step of the client that gives a pool in order.                        *)
LEMMA ClientStep ==
  ASSUME PoolInv, InUse, Fine(pool'), UNCHANGED <<pc, it>>,
         pc = "handler" => it \in Entries(pool'.cleanup) /\ pool'.cleanup[it].handler = "user"
  PROVE  PoolInv'
BY DEF PoolInv, InUse

LEMMA ClientAllocates ==
  ASSUME Inv, InUse, NEW o, o = Failure(pool) \/ Given(pool, o), pool' = o.pool,
         UNCHANGED <<file, pc, it>>
  PROVE  Inv'
<1>1. Fine(pool)
  BY DEF Inv, PoolInv, InUse
<1>2. Fine(o.pool) /\ o.pool.cleanup = pool.cleanup
  BY <1>1 DEF Given, Failure
<1>3. pc = "handler" => it \in Entries(pool.cleanup) /\ pool.cleanup[it].handler = "user"
  BY DEF Inv, PoolInv
<1> QED BY <1>2, <1>3, ClientStep, FilesSame DEF Inv, Entries

LEMMA InitInv == Init => Inv
BY EmptySeq DEF Init, Inv, PoolInv, FilesInv, NoPool, Entries

LEMMA CreatePoolStep == Inv /\ CreatePool => Inv'
<1> SUFFICES ASSUME Inv, CreatePool PROVE Inv'
  OBVIOUS
<1> USE DEF Inv, CreatePool
<1>1. pool = NoPool
  BY DEF PoolInv
<1>2. Fine(pool') /\ pool'.cleanup = <<>> /\ pool.cleanup = <<>>
  BY <1>1, CreateFine DEF NoPool
<1>3. PoolInv'
  BY <1>2 DEF PoolInv
<1>4. FilesInv'
  BY <1>2, EmptySeq DEF FilesInv, Entries
<1> QED BY <1>3, <1>4

LEMMA PallocStep == Inv /\ Palloc => Inv'
<1> SUFFICES ASSUME Inv, Palloc PROVE Inv'
  OBVIOUS
<1>1. InUse /\ UNCHANGED <<file, pc, it>>
  BY DEF Palloc
<1>2. PICK size \in Request, aligned \in BOOLEAN :
        \E o \in Allocate(pool, size, aligned) : pool' = o.pool
  BY DEF Palloc
<1>3. PICK o \in Allocate(pool, size, aligned) : pool' = o.pool
  BY <1>2
<1>4. Fine(pool) /\ size \in Nat
  BY <1>1, PoolAssumption DEF Inv, PoolInv, InUse
<1>5. o = Failure(pool) \/ Given(pool, o)
  BY <1>4, AllocateGives
<1> QED BY <1>1, <1>3, <1>5, ClientAllocates

LEMMA PmemalignStep == Inv /\ Pmemalign => Inv'
<1> SUFFICES ASSUME Inv, Pmemalign PROVE Inv'
  OBVIOUS
<1>1. InUse /\ UNCHANGED <<file, pc, it>>
  BY DEF Pmemalign
<1>2. PICK o \in uti_pmemalign(pool) : pool' = o.pool
  BY DEF Pmemalign
<1>3. Fine(pool)
  BY <1>1 DEF Inv, PoolInv, InUse
<1> QED BY <1>1, <1>2, <1>3, MemalignGives, ClientAllocates

LEMMA PfreeStep == ASSUME NEW c \in Chunk PROVE Inv /\ uti_pfree(c) => Inv'
<1> SUFFICES ASSUME Inv, uti_pfree(c) PROVE Inv'
  OBVIOUS
<1> DEFINE k == Min(NodeOf(c))
<1>1. InUse /\ UNCHANGED <<file, pc, it>> /\ NodeOf(c) # {}
  BY DEF uti_pfree
<1>2. Fine(pool)
  BY <1>1 DEF Inv, PoolInv, InUse
<1>3. k \in Entries(pool.large) /\ pool.large[k].alloc = c
  <2>1. Len(pool.large) \in Nat
    BY <1>2, LenProperties DEF Fine, Shape, PoolType
  <2>2. NodeOf(c) \in SUBSET (1..Len(pool.large))
    BY DEF NodeOf
  <2>3. k \in NodeOf(c)
    BY <1>1, <2>1, <2>2, Least
  <2> QED BY <2>3 DEF NodeOf, Entries
<1>4. pool' = [pool EXCEPT !.heap = @ \ {c}, !.large[k].alloc = NULL]
  BY DEF uti_pfree
<1>5. \A i \in Entries(pool.cleanup) : pool.cleanup[i].data # c
  BY DEF uti_pfree, Entries
<1> HIDE DEF k
<1>6. Fine(pool') /\ pool'.cleanup = pool.cleanup
  BY <1>2, <1>3, <1>4, <1>5, PfreeFine
<1>7. PoolInv'
  BY <1>1, <1>6, ClientStep DEF Inv, PoolInv
<1> QED BY <1>1, <1>6, <1>7, FilesSame DEF Inv

LEMMA ResetStep == Inv /\ uti_reset_pool => Inv'
<1> SUFFICES ASSUME Inv, uti_reset_pool PROVE Inv'
  OBVIOUS
<1>1. pc = "live" /\ pool.cleanup = <<>> /\ UNCHANGED <<file, pc, it>>
  BY DEF uti_reset_pool
<1>2. Fine(pool) /\ InUse
  BY <1>1 DEF Inv, PoolInv, InUse
<1>3. Fine(pool') /\ pool'.cleanup = pool.cleanup
  BY <1>1, <1>2, ResetFine DEF uti_reset_pool
<1>4. PoolInv'
  BY <1>1, <1>2, <1>3, ClientStep DEF Inv
<1> QED BY <1>1, <1>3, <1>4, FilesSame DEF Inv

LEMMA OpenFileStep == ASSUME NEW f \in File PROVE Inv /\ OpenFile(f) => Inv'
<1> SUFFICES ASSUME Inv, OpenFile(f) PROVE Inv'
  OBVIOUS
<1>1. PoolInv'
  BY DEF OpenFile, Inv, PoolInv
<1>2. FilesInv'
  <2>1. /\ file' \in [File -> {"closed", "client", "pool"}]
        /\ \A g \in File : file'[g] = "pool" <=> file[g] = "pool"
    BY DEF OpenFile, Inv, FilesInv
  <2>2. pool' = pool /\ pc' = pc /\ it' = it
    BY DEF OpenFile
  <2> QED BY <2>1, <2>2 DEF Inv, FilesInv, Ahead
<1> QED BY <1>1, <1>2 DEF Inv

LEMMA CloseFileStep == ASSUME NEW f \in File PROVE Inv /\ CloseFile(f) => Inv'
<1> SUFFICES ASSUME Inv, CloseFile(f) PROVE Inv'
  OBVIOUS
<1>1. PoolInv'
  BY DEF CloseFile, Inv, PoolInv
<1>2. FilesInv'
  <2>1. /\ file' \in [File -> {"closed", "client", "pool"}]
        /\ \A g \in File : file'[g] = "pool" <=> file[g] = "pool"
    BY DEF CloseFile, Inv, FilesInv
  <2>2. pool' = pool /\ pc' = pc /\ it' = it
    BY DEF CloseFile
  <2> QED BY <2>1, <2>2 DEF Inv, FilesInv, Ahead
<1> QED BY <1>1, <1>2 DEF Inv

(* An entry put in front moves the others by one.                          *)
Shifted(list, e, new) ==
  /\ 1 \in Entries(new) /\ new[1] = e
  /\ \A i \in Entries(list) : i + 1 \in Entries(new) /\ new[i + 1] = list[i]
  /\ \A j \in Entries(new) : j = 1 \/ (j - 1 \in Entries(list) /\ new[j] = list[j - 1])

LEMMA InFront ==
  ASSUME NEW list \in Seq(Cleanup), NEW e \in Cleanup
  PROVE  Shifted(list, e, <<e>> \o list)
<1> DEFINE new == <<e>> \o list
<1>1. /\ Len(new) = Len(list) + 1 /\ new[1] = e
      /\ \A j \in 2..Len(list) + 1 : new[j] = list[j - 1]
  BY Prepended
<1>2. Len(list) \in Nat
  BY LenProperties
<1> HIDE DEF new
<1>3. Shifted(list, e, new)
  BY <1>1, <1>2 DEF Entries, Shifted
<1> QED BY <1>3 DEF new

LEMMA RegisterFileStep ==
  ASSUME NEW f \in File, NEW handler \in {"close", "delete"}, NEW size \in DataSize
  PROVE  Inv /\ RegisterFile(f, handler, size) => Inv'
<1> SUFFICES ASSUME Inv, RegisterFile(f, handler, size) PROVE Inv'
  OBVIOUS
<1>1. pc = "live" /\ file[f] = "client" /\ UNCHANGED <<pc, it>>
  BY DEF RegisterFile
<1>2. PICK o \in uti_pool_cleanup_add(pool, size, handler, f) :
        /\ pool' = o.pool
        /\ file' = IF o.mem = NULL THEN file ELSE [file EXCEPT ![f] = "pool"]
  BY DEF RegisterFile
<1>3. Fine(pool) /\ InUse
  BY <1>1 DEF Inv, PoolInv, InUse
<1>4. Registered(pool, o, handler, f)
  BY <1>2, <1>3, CleanupGives, PoolAssumption
<1>5. PoolInv'
  BY <1>1, <1>2, <1>3, <1>4, ClientStep DEF Inv, Registered
<1>6. CASE o.mem = NULL
  BY <1>1, <1>2, <1>4, <1>5, <1>6, FilesSame DEF Inv, Registered
<1>7. CASE o.mem # NULL
  <2>1. PICK e \in Cleanup : e.handler = handler /\ e.fd = f
                             /\ pool'.cleanup = <<e>> \o pool.cleanup
    BY <1>2, <1>4, <1>7 DEF Registered
  <2>2. pool.cleanup \in Seq(Cleanup)
    BY <1>3 DEF Fine, Shape, PoolType, Cleanup
  <2> DEFINE old == pool.cleanup
  <2>0. PICK new : new = pool'.cleanup
    OBVIOUS
  <2>3. /\ 1 \in Entries(new) /\ new[1] = e
        /\ \A i \in Entries(old) : i + 1 \in Entries(new) /\ new[i + 1] = old[i]
        /\ \A j \in Entries(new) : j = 1 \/ (j - 1 \in Entries(old) /\ new[j] = old[j - 1])
    <3>1. Shifted(pool.cleanup, e, <<e>> \o pool.cleanup)
      BY <2>2, InFront
    <3>2. Shifted(old, e, new)
      BY <2>0, <2>1, <3>1
    <3> QED BY <3>2 DEF Shifted
  <2>4. Closes(e) /\ e.fd = f
    BY <2>1 DEF Closes
  <2>5. /\ file' \in [File -> {"closed", "client", "pool"}] /\ file'[f] = "pool"
        /\ \A g \in File : g # f => file'[g] = file[g]
    BY <1>2, <1>7 DEF Inv, FilesInv
  <2>6. \A i \in Entries(old) : Closes(old[i]) => old[i].fd # f
    BY <1>1 DEF Inv, FilesInv, Ahead
  <2>7. \A i, j \in Entries(old) : Closes(old[i]) /\ Closes(old[j]) /\ old[i].fd = old[j].fd
                                     => i = j
    BY DEF Inv, FilesInv
  <2>8. \A i \in Entries(old) : Closes(old[i]) => old[i].fd \in File
    BY DEF Inv, FilesInv
  <2>9. \A g \in File : file[g] = "pool" <=> \E i \in Entries(old) : Closes(old[i]) /\ old[i].fd = g
    BY <1>1 DEF Inv, FilesInv, Ahead
  <2>10. \A j \in Entries(new) : j \in Nat
    BY DEF Entries
  <2> HIDE DEF old
  <2>11. \A i, j \in Entries(new) : Closes(new[i]) /\ Closes(new[j]) /\ new[i].fd = new[j].fd
                                     => i = j
    <3> SUFFICES ASSUME NEW i \in Entries(new), NEW j \in Entries(new), Closes(new[i]),
                        Closes(new[j]), new[i].fd = new[j].fd
                 PROVE  i = j
      OBVIOUS
    <3>1. i # 1 => i - 1 \in Entries(old) /\ new[i] = old[i - 1]
      BY <2>3
    <3>2. j # 1 => j - 1 \in Entries(old) /\ new[j] = old[j - 1]
      BY <2>3
    <3>3. (i # 1 /\ j # 1) => i - 1 = j - 1
      BY <2>7, <3>1, <3>2
    <3>4. i = 1 <=> j = 1
      BY <2>3, <2>4, <2>6, <3>1, <3>2
    <3> QED BY <2>10, <3>3, <3>4
  <2>12. \A i \in Entries(new) : Closes(new[i]) => new[i].fd \in File
    BY <2>3, <2>4, <2>8
  <2>13. \A g \in File : file'[g] = "pool" <=> \E i \in Entries(new) : Closes(new[i]) /\ new[i].fd = g
    BY <2>3, <2>4, <2>5, <2>9
  <2>14. pc' = "live" /\ pool'.cleanup = new
    BY <1>1, <2>0
  <2>15. FilesInv'
    BY <2>5, <2>11, <2>12, <2>13, <2>14 DEF FilesInv, Ahead
  <2> QED BY <1>5, <2>15 DEF Inv
<1> QED BY <1>6, <1>7

LEMMA RegisterHandlerStep ==
  ASSUME NEW size \in DataSize PROVE Inv /\ RegisterHandler(size) => Inv'
<1> SUFFICES ASSUME Inv, RegisterHandler(size) PROVE Inv'
  OBVIOUS
<1>1. pc = "live" /\ UNCHANGED <<file, pc, it>>
  BY DEF RegisterHandler
<1>2. PICK o \in uti_pool_cleanup_add(pool, size, "user", NULL) : pool' = o.pool
  BY DEF RegisterHandler
<1>3. Fine(pool) /\ InUse
  BY <1>1 DEF Inv, PoolInv, InUse
<1>4. Registered(pool, o, "user", NULL)
  BY <1>2, <1>3, CleanupGives, PoolAssumption
<1>5. PoolInv'
  BY <1>1, <1>2, <1>3, <1>4, ClientStep DEF Inv, Registered
<1>6. CASE pool'.cleanup = pool.cleanup
  BY <1>1, <1>5, <1>6, FilesSame DEF Inv
<1>7. CASE pool'.cleanup # pool.cleanup
  <2>1. PICK e \in Cleanup : e.handler = "user" /\ pool'.cleanup = <<e>> \o pool.cleanup
    BY <1>2, <1>4, <1>7 DEF Registered
  <2>2. pool.cleanup \in Seq(Cleanup)
    BY <1>3 DEF Fine, Shape, PoolType, Cleanup
  <2> DEFINE old == pool.cleanup
  <2>0. PICK new : new = pool'.cleanup
    OBVIOUS
  <2>3. /\ 1 \in Entries(new) /\ new[1] = e
        /\ \A i \in Entries(old) : i + 1 \in Entries(new) /\ new[i + 1] = old[i]
        /\ \A j \in Entries(new) : j = 1 \/ (j - 1 \in Entries(old) /\ new[j] = old[j - 1])
    <3>1. Shifted(pool.cleanup, e, <<e>> \o pool.cleanup)
      BY <2>2, InFront
    <3>2. Shifted(old, e, new)
      BY <2>0, <2>1, <3>1
    <3> QED BY <3>2 DEF Shifted
  <2>4. ~Closes(e)
    BY <2>1 DEF Closes
  <2>5. /\ file' = file /\ pc' = pc /\ it' = it /\ pc = "live"
        /\ file \in [File -> {"closed", "client", "pool"}]
        /\ \A i, j \in Entries(old) :
             Closes(old[i]) /\ Closes(old[j]) /\ old[i].fd = old[j].fd => i = j
        /\ \A i \in Entries(old) : Closes(old[i]) => old[i].fd \in File
        /\ \A g \in File :
             file[g] = "pool" <=> \E i \in Entries(old) : Closes(old[i]) /\ old[i].fd = g
    BY <1>1 DEF Inv, FilesInv, Ahead
  <2>6. \A j \in Entries(new) : j \in Nat
    BY DEF Entries
  <2> HIDE DEF old
  <2>7. \A i, j \in Entries(new) : Closes(new[i]) /\ Closes(new[j]) /\ new[i].fd = new[j].fd
                                     => i = j
    <3> SUFFICES ASSUME NEW i \in Entries(new), NEW j \in Entries(new), Closes(new[i]),
                        Closes(new[j]), new[i].fd = new[j].fd
                 PROVE  i = j
      OBVIOUS
    <3>1. i - 1 \in Entries(old) /\ new[i] = old[i - 1]
      BY <2>3, <2>4
    <3>2. j - 1 \in Entries(old) /\ new[j] = old[j - 1]
      BY <2>3, <2>4
    <3>3. i - 1 = j - 1
      BY <2>5, <3>1, <3>2
    <3> QED BY <2>6, <3>3
  <2>8. \A i \in Entries(new) : Closes(new[i]) => new[i].fd \in File
    BY <2>3, <2>4, <2>5
  <2>9. \A g \in File : file[g] = "pool" <=> \E i \in Entries(new) : Closes(new[i]) /\ new[i].fd = g
    BY <2>3, <2>4, <2>5
  <2>10. pool'.cleanup = new
    BY <2>0
  <2>11. FilesInv'
    BY <2>5, <2>7, <2>8, <2>9, <2>10 DEF FilesInv, Ahead
  <2> QED BY <1>5, <2>11 DEF Inv
<1> QED BY <1>6, <1>7

LEMMA RunCleanupFileStep ==
  ASSUME NEW f \in File PROVE Inv /\ uti_pool_run_cleanup_file(f) => Inv'
<1> SUFFICES ASSUME Inv, uti_pool_run_cleanup_file(f) PROVE Inv'
  OBVIOUS
<1> DEFINE k == Min(CleanupOf(f))
<1>1. InUse /\ file[f] = "pool" /\ CleanupOf(f) # {} /\ UNCHANGED <<pc, it>>
      /\ file' = [file EXCEPT ![f] = "closed"]
      /\ pool' = [pool EXCEPT !.cleanup[k].handler = "none"]
  BY DEF uti_pool_run_cleanup_file
<1>2. Fine(pool)
  BY <1>1 DEF Inv, PoolInv, InUse
<1>3. k \in Entries(pool.cleanup) /\ pool.cleanup[k].handler = "close" /\ pool.cleanup[k].fd = f
  <2>1. Len(pool.cleanup) \in Nat
    BY <1>2, LenProperties DEF Fine, Shape, PoolType
  <2>2. CleanupOf(f) \in SUBSET (1..Len(pool.cleanup))
    BY DEF CleanupOf
  <2>3. k \in CleanupOf(f)
    BY <1>1, <2>1, <2>2, Least
  <2> QED BY <2>3 DEF CleanupOf, Entries
<1> HIDE DEF k
<1>4. /\ Fine(pool')
      /\ Entries(pool'.cleanup) = Entries(pool.cleanup)
      /\ \A i \in Entries(pool.cleanup) :
           /\ pool'.cleanup[i].fd = pool.cleanup[i].fd
           /\ pool'.cleanup[i].handler = IF i = k THEN "none" ELSE pool.cleanup[i].handler
  BY <1>1, <1>2, <1>3, HandlerCleared
<1>5. PoolInv'
  BY <1>1, <1>3, <1>4, ClientStep DEF Inv, PoolInv
<1>6. \A i \in Entries(pool.cleanup) :
        Closes(pool'.cleanup[i]) <=> Closes(pool.cleanup[i]) /\ i # k
  BY <1>4 DEF Closes
<1>7. \A i \in Entries(pool.cleanup) :
        Closes(pool.cleanup[i]) /\ pool.cleanup[i].fd = f <=> i = k
  BY <1>3 DEF Closes, Inv, FilesInv
<1>8. /\ file' \in [File -> {"closed", "client", "pool"}] /\ file'[f] # "pool"
      /\ \A g \in File : g # f => file'[g] = file[g]
  BY <1>1 DEF Inv, FilesInv
<1>9. FilesInv'
  <2>1. \A g \in File :
          file'[g] = "pool" <=>
            \E i \in Entries(pool.cleanup) :
              Closes(pool'.cleanup[i]) /\ pool'.cleanup[i].fd = g /\ Ahead(i)
    <3>1. ~(\E i \in Entries(pool.cleanup) :
              Closes(pool'.cleanup[i]) /\ pool'.cleanup[i].fd = f)
      BY <1>4, <1>6, <1>7
    <3>2. ASSUME NEW g \in File, g # f
          PROVE  \A i \in Entries(pool.cleanup) :
                   Closes(pool'.cleanup[i]) /\ pool'.cleanup[i].fd = g
                     <=> Closes(pool.cleanup[i]) /\ pool.cleanup[i].fd = g
      BY <1>3, <1>4, <1>6, <3>2
    <3>3. ASSUME NEW g \in File, g # f
          PROVE  file'[g] = "pool" <=>
                   \E i \in Entries(pool.cleanup) :
                     Closes(pool'.cleanup[i]) /\ pool'.cleanup[i].fd = g /\ Ahead(i)
      BY <1>8, <3>2, <3>3 DEF Inv, FilesInv
    <3> QED BY <1>8, <3>1, <3>3
  <2>2. \A i, j \in Entries(pool.cleanup) :
          Closes(pool'.cleanup[i]) /\ Closes(pool'.cleanup[j])
          /\ pool'.cleanup[i].fd = pool'.cleanup[j].fd => i = j
    BY <1>4, <1>6 DEF Inv, FilesInv
  <2>3. \A i \in Entries(pool.cleanup) : Closes(pool'.cleanup[i]) => pool'.cleanup[i].fd \in File
    BY <1>4, <1>6 DEF Inv, FilesInv
  <2>4. pc' = pc /\ it' = it
    BY <1>1
  <2> QED BY <1>4, <1>8, <2>1, <2>2, <2>3, <2>4 DEF FilesInv, Ahead
<1> QED BY <1>5, <1>9 DEF Inv

LEMMA DestroyStep == Inv /\ uti_destroy_pool => Inv'
<1> SUFFICES ASSUME Inv, uti_destroy_pool PROVE Inv'
  OBVIOUS
<1>1. pc = "live" /\ pc' = "cleanup" /\ it' = 1 /\ pool' = pool /\ file' = file
  BY DEF uti_destroy_pool, Loops
<1>2. PoolInv'
  BY <1>1 DEF Inv, PoolInv
<1>3. FilesInv'
  <2>1. \A i \in Entries(pool.cleanup) : Ahead(i) /\ Ahead(i)'
    BY <1>1 DEF Ahead, Entries
  <2> QED BY <1>1, <2>1 DEF Inv, FilesInv
<1> QED BY <1>2, <1>3 DEF Inv

LEMMA RunHandlerStep == Inv /\ RunHandler => Inv'
<1> SUFFICES ASSUME Inv, RunHandler PROVE Inv'
  OBVIOUS
<1> DEFINE c == pool.cleanup[it]
<1>1. /\ pc = "cleanup" /\ pool' = pool /\ it \in Nat /\ it >= 1 /\ it <= Len(pool.cleanup)
      /\ Fine(pool)
  BY DEF RunHandler, Inv, PoolInv
<1>2. it \in Entries(pool.cleanup) /\ c \in Cleanup
  <2>1. pool.cleanup \in Seq(Cleanup) /\ Len(pool.cleanup) \in Nat
    BY <1>1, LenProperties DEF Fine, Shape, PoolType, Cleanup
  <2>2. it \in 1..Len(pool.cleanup)
    BY <1>1, <2>1
  <2> QED BY <2>1, <2>2, ElementOfSeq DEF Entries
<1>3. CASE c.handler = "user"
  <2>1. pc' = "handler" /\ file' = file /\ it' = it
    BY <1>3 DEF RunHandler
  <2>2. PoolInv'
    BY <1>1, <1>2, <1>3, <2>1 DEF Inv, PoolInv
  <2>3. \A i \in Entries(pool.cleanup) : Ahead(i)' <=> Ahead(i)
    BY <1>1, <2>1 DEF Ahead
  <2>4. FilesInv'
    BY <1>1, <2>1, <2>3 DEF Inv, FilesInv
  <2> QED BY <2>2, <2>4 DEF Inv
<1>4. CASE c.handler # "user"
  <2>1. /\ pc' = pc /\ it' = it + 1
        /\ file' = IF c.handler = "none" THEN file ELSE [file EXCEPT ![c.fd] = "closed"]
    BY <1>4 DEF RunHandler
  <2>2. PoolInv'
    BY <1>1, <2>1 DEF Inv, PoolInv
  <2>3. \A i \in Entries(pool.cleanup) :
          (Ahead(i) <=> i >= it) /\ (Ahead(i)' <=> i >= it /\ i # it)
    BY <1>1, <2>1 DEF Ahead, Entries
  <2>4. FilesInv'
    <3>1. CASE c.handler = "none"
      <4>1. ~Closes(pool.cleanup[it])
        BY <3>1 DEF Closes
      <4>2. file' = file
        BY <2>1, <3>1
      <4>3. \A f \in File :
              file'[f] = "pool" <=>
                \E i \in Entries(pool.cleanup) :
                  Closes(pool.cleanup[i]) /\ pool.cleanup[i].fd = f /\ Ahead(i)'
        BY <2>3, <4>1, <4>2 DEF Inv, FilesInv
      <4> QED BY <1>1, <4>2, <4>3 DEF Inv, FilesInv
    <3>2. CASE c.handler # "none"
      <4>1. Closes(pool.cleanup[it]) /\ file' = [file EXCEPT ![c.fd] = "closed"]
        BY <1>2, <1>4, <2>1, <3>2 DEF Closes, Cleanup
      <4>2. \A i \in Entries(pool.cleanup) :
              Closes(pool.cleanup[i]) /\ pool.cleanup[i].fd = c.fd <=> i = it
        BY <1>2, <4>1 DEF Inv, FilesInv
      <4>3. /\ c.fd \in File
            /\ file' \in [File -> {"closed", "client", "pool"}] /\ file'[c.fd] # "pool"
            /\ \A f \in File : f # c.fd => file'[f] = file[f]
        BY <1>2, <4>1 DEF Inv, FilesInv
      <4>4. ASSUME NEW f \in File
            PROVE  file'[f] = "pool" <=>
                     \E i \in Entries(pool.cleanup) :
                       Closes(pool.cleanup[i]) /\ pool.cleanup[i].fd = f /\ Ahead(i)'
        <5>1. CASE f = c.fd
          BY <2>3, <4>2, <4>3, <5>1
        <5>2. CASE f # c.fd
          <6>1. \A i \in Entries(pool.cleanup) : pool.cleanup[i].fd = f => (Ahead(i)' <=> Ahead(i))
            BY <2>3, <5>2
          <6>2. file[f] = "pool" <=>
                  \E i \in Entries(pool.cleanup) :
                    Closes(pool.cleanup[i]) /\ pool.cleanup[i].fd = f /\ Ahead(i)
            BY DEF Inv, FilesInv
          <6> QED BY <4>3, <5>2, <6>1, <6>2
        <5> QED BY <5>1, <5>2
      <4> QED BY <1>1, <4>3, <4>4 DEF Inv, FilesInv
    <3> QED BY <3>1, <3>2
  <2> QED BY <2>2, <2>4 DEF Inv
<1> QED BY <1>3, <1>4

LEMMA HandlerReturnStep == Inv /\ HandlerReturn => Inv'
<1> SUFFICES ASSUME Inv, HandlerReturn PROVE Inv'
  OBVIOUS
<1>1. /\ pc = "handler" /\ pc' = "cleanup" /\ it' = it + 1 /\ pool' = pool /\ file' = file
      /\ it \in Nat /\ it >= 1 /\ pool.cleanup[it].handler = "user"
  BY DEF HandlerReturn, Inv, PoolInv
<1>2. PoolInv'
  BY <1>1 DEF Inv, PoolInv
<1>3. ~Closes(pool.cleanup[it])
  BY <1>1 DEF Closes
<1>4. \A i \in Entries(pool.cleanup) : i # it => (Ahead(i)' <=> Ahead(i))
  BY <1>1 DEF Ahead, Entries
<1>5. \A f \in File :
        file'[f] = "pool" <=>
          \E i \in Entries(pool.cleanup) :
            Closes(pool.cleanup[i]) /\ pool.cleanup[i].fd = f /\ Ahead(i)'
  <2>1. \A i \in Entries(pool.cleanup) : Closes(pool.cleanup[i]) => (Ahead(i)' <=> Ahead(i))
    BY <1>3, <1>4
  <2>2. \A f \in File :
          file[f] = "pool" <=>
            \E i \in Entries(pool.cleanup) :
              Closes(pool.cleanup[i]) /\ pool.cleanup[i].fd = f /\ Ahead(i)
    BY DEF Inv, FilesInv
  <2> QED BY <1>1, <2>1, <2>2
<1>6. FilesInv'
  BY <1>1, <1>5 DEF Inv, FilesInv
<1> QED BY <1>2, <1>6 DEF Inv

LEMMA FreeLargeStep == Inv /\ FreeLarge => Inv'
<1> SUFFICES ASSUME Inv, FreeLarge PROVE Inv'
  OBVIOUS
<1> DEFINE a == pool.large[it].alloc
           p == pool
           q == [p EXCEPT !.heap = p.heap \ {a}]
<1>1. /\ pc = "large" /\ pc' = pc /\ it' = it + 1 /\ file' = file /\ pool' = q
      /\ it \in Nat /\ it >= 1 /\ it <= Len(p.large) /\ FreesLarge(p, it)
  BY DEF FreeLarge, Inv, PoolInv
<1>2. p \in PoolType /\ p.large \in Seq(Large) /\ Len(p.large) \in Nat /\ it \in Entries(p.large)
  <2>1. p \in PoolType
    BY <1>1 DEF FreesLarge, Shape
  <2>2. p.large \in Seq(Large)
    BY <2>1 DEF PoolType, Large
  <2>3. Len(p.large) \in Nat
    BY <2>2, LenProperties
  <2> QED BY <1>1, <2>1, <2>2, <2>3 DEF Entries
<1>3. a \in Chunk \cup {NULL}
  <2>1. p.large[it] \in Large
    BY <1>2, ElementOfSeq DEF Entries
  <2> QED BY <2>1 DEF Large
<1> HIDE DEF a
<1>4. /\ q \in PoolType /\ q.heap = p.heap \ {a} /\ q.large = p.large
      /\ q.blocks = p.blocks /\ q.current = p.current /\ q.held = p.held
      /\ q.twice = p.twice /\ q.cleanup = p.cleanup
  BY <1>2 DEF PoolType
<1> HIDE DEF p, q
<1>5. Shape(q) /\ Blocks(q) = Blocks(p)
  BY <1>1, <1>4, SameShape DEF FreesLarge
<1>6. q.heap \ Chunk = Blocks(q)
  <2>1. Blocks(p) \subseteq Block
    BY <1>1, BlocksAreNumbers DEF FreesLarge, Shape
  <2>2. a \notin Blocks(p)
    BY <1>3, <2>1, Distinct
  <2> QED BY <1>1, <1>4, <1>5, <2>2 DEF FreesLarge
<1>7. q.heap \cap Chunk = {q.large[i].alloc : i \in {j \in Entries(q.large) : j >= it + 1}} \ {NULL}
  <2>1. \A j \in Entries(p.large) : (j >= it <=> j >= it + 1 \/ j = it) /\ ~(it >= it + 1)
    BY <1>1 DEF Entries
  <2>2. a = p.large[it].alloc
    BY DEF a, p
  <2>3. \A j \in Entries(p.large) : j >= it + 1 => p.large[j].alloc # a \/ p.large[j].alloc = NULL
    BY <1>1, <1>2, <2>1, <2>2 DEF FreesLarge
  <2>4. p.heap \cap Chunk = {p.large[i].alloc : i \in {j \in Entries(p.large) : j >= it}} \ {NULL}
    BY <1>1 DEF FreesLarge
  <2>5. {p.large[i].alloc : i \in {j \in Entries(p.large) : j >= it + 1}} \ {NULL}
          = ({p.large[i].alloc : i \in {j \in Entries(p.large) : j >= it}} \ {NULL}) \ {a}
    BY <1>2, <2>1, <2>2, <2>3
  <2> QED BY <1>4, <2>4, <2>5
<1>8. FreesLarge(q, it + 1)
  BY <1>1, <1>4, <1>5, <1>6, <1>7 DEF FreesLarge
<1>9. PoolInv'
  BY <1>1, <1>8 DEF PoolInv
<1>10. FilesInv'
  <2>1. pool'.cleanup = pool.cleanup
    BY <1>1, <1>4 DEF p
  <2>2. \A i \in Entries(pool.cleanup) : ~Ahead(i) /\ ~Ahead(i)'
    BY <1>1 DEF Ahead
  <2> QED BY <1>1, <2>1, <2>2 DEF Inv, FilesInv
<1> QED BY <1>9, <1>10 DEF Inv

LEMMA LoopEndStep == Inv /\ LoopEnd => Inv'
<1> SUFFICES ASSUME Inv, LoopEnd PROVE Inv'
  OBVIOUS
<1>1. pool' = pool /\ file' = file /\ it' = 1 /\ pc' = NextLoop
  BY DEF LoopEnd
<1>2. CASE pc = "cleanup" /\ it > Len(pool.cleanup)
  <2>1. pc' = "large"
    <3> DEFINE k == CHOOSE i \in 1..2 : Loops[i] = pc
    <3>1. k = 1
      BY <1>2 DEF Loops
    <3>2. NextLoop = Loops[1 + k]
      BY DEF NextLoop
    <3> HIDE DEF k
    <3>3. NextLoop = "large"
      BY <3>1, <3>2 DEF Loops
    <3> QED BY <1>1, <3>3
  <2>2. Fine(pool)
    BY <1>2 DEF Inv, PoolInv
  <2>3. {j \in Entries(pool.large) : j >= 1} = Entries(pool.large)
    BY DEF Entries
  <2>4. FreesLarge(pool, 1)
    BY <2>2, <2>3 DEF FreesLarge, Fine, Owned, ListsLive
  <2>5. PoolInv'
    BY <1>1, <2>1, <2>4 DEF PoolInv
  <2>6. \A i \in Entries(pool.cleanup) : ~Ahead(i) /\ ~Ahead(i)'
    <3>1. it \in Nat /\ Len(pool.cleanup) \in Nat
      BY <2>2, LenProperties DEF Fine, Shape, PoolType, Inv, PoolInv
    <3> QED BY <1>2, <2>1, <3>1 DEF Ahead, Entries
  <2>7. FilesInv'
    BY <1>1, <2>6 DEF Inv, FilesInv
  <2> QED BY <2>5, <2>7 DEF Inv
<1>3. CASE pc = "large" /\ it > Len(pool.large)
  <2>1. pc' = "blocks"
    <3> DEFINE k == CHOOSE i \in 1..2 : Loops[i] = pc
    <3>1. k = 2
      BY <1>3 DEF Loops
    <3>2. NextLoop = Loops[1 + k]
      BY DEF NextLoop
    <3> HIDE DEF k
    <3>3. NextLoop = "blocks"
      BY <3>1, <3>2 DEF Loops
    <3> QED BY <1>1, <3>3
  <2>2. FreesLarge(pool, it)
    BY <1>3 DEF Inv, PoolInv
  <2>3. it \in Nat /\ Len(pool.large) \in Nat /\ Len(pool.blocks) \in Nat /\ 1 <= Len(pool.blocks)
    <3>1. pool \in PoolType /\ Search(pool)
      BY <2>2 DEF FreesLarge, Shape
    <3> QED BY <3>1, LenProperties, BlocksAreNumbers DEF PoolType, Inv, PoolInv, Search, Block
  <2>4. {j \in Entries(pool.large) : j >= it} = {}
    BY <1>3, <2>3 DEF Entries
  <2>5. pool.heap = 1..Len(pool.blocks)
    BY <2>2, <2>4 DEF FreesLarge, Blocks
  <2>6. FreesBlocks(pool, 1)
    BY <2>2, <2>3, <2>5 DEF FreesBlocks, FreesLarge
  <2>7. PoolInv'
    BY <1>1, <2>1, <2>6 DEF PoolInv
  <2>8. \A i \in Entries(pool.cleanup) : ~Ahead(i) /\ ~Ahead(i)'
    BY <1>3, <2>1 DEF Ahead
  <2>9. FilesInv'
    BY <1>1, <2>8 DEF Inv, FilesInv
  <2> QED BY <2>7, <2>9 DEF Inv
<1> QED BY <1>2, <1>3 DEF LoopEnd

LEMMA FreeBlockStep == Inv /\ FreeBlock => Inv'
<1> SUFFICES ASSUME Inv, FreeBlock PROVE Inv'
  OBVIOUS
<1> DEFINE p == pool
           n == Len(p.blocks)
<1>1. pc = "blocks" /\ file' = file /\ it \in Nat /\ it >= 1 /\ FreesBlocks(p, it)
  BY DEF FreeBlock, Inv, PoolInv
<1>2. p \in PoolType /\ n \in Nat /\ p.heap = it..n /\ it <= n
  BY <1>1, BlocksAreNumbers DEF FreesBlocks, Shape
<1>3. \A i \in Entries(pool.cleanup) : ~Ahead(i)
  BY <1>1 DEF Ahead
<1>4. CASE it < n
  <2> DEFINE q == [p EXCEPT !.heap = p.heap \ {it}]
  <2>1. pool' = q /\ it' = it + 1 /\ pc' = pc
    BY <1>4 DEF FreeBlock
  <2>2. /\ q \in PoolType /\ q.heap = p.heap \ {it} /\ q.large = p.large
        /\ q.blocks = p.blocks /\ q.current = p.current /\ q.held = p.held
        /\ q.twice = p.twice /\ q.cleanup = p.cleanup
    BY <1>2 DEF PoolType
  <2> HIDE DEF p, q
  <2>3. Shape(q)
    BY <1>1, <2>2, SameShape DEF FreesBlocks
  <2>4. q.heap = it + 1..n /\ it + 1 <= n
    BY <1>1, <1>2, <1>4, <2>2
  <2>5. FreesBlocks(q, it + 1)
    BY <2>2, <2>3, <2>4 DEF FreesBlocks
  <2>6. PoolInv'
    BY <1>1, <2>1, <2>5 DEF PoolInv
  <2>7. pool'.cleanup = pool.cleanup
    BY <2>1, <2>2 DEF p
  <2>8. \A i \in Entries(pool.cleanup) : ~Ahead(i)'
    BY <1>1, <2>1 DEF Ahead
  <2>9. FilesInv'
    BY <1>1, <1>3, <2>7, <2>8 DEF Inv, FilesInv
  <2> QED BY <2>6, <2>9 DEF Inv
<1>5. CASE ~(it < n)
  <2>1. it' = 1 /\ pc' = "none" /\ pool' = [NoPool EXCEPT !.heap = p.heap \ {it}]
    BY <1>5 DEF FreeBlock
  <2>2. p.heap \ {it} = {}
    BY <1>1, <1>2, <1>5
  <2>3. pool' = NoPool
    <3> HIDE DEF p
    <3> QED BY <2>1, <2>2 DEF NoPool
  <2>4. PoolInv'
    BY <2>1, <2>3 DEF PoolInv
  <2>5. Entries(pool'.cleanup) = {}
    BY <2>3, EmptySeq DEF NoPool, Entries
  <2>6. FilesInv'
    BY <1>1, <1>3, <2>5 DEF Inv, FilesInv
  <2> QED BY <2>4, <2>6 DEF Inv
<1> QED BY <1>4, <1>5

(* PoolInv and FilesInv are an invariant of the pool: every call of the    *)
(* client, every handler and every step of uti_destroy_pool keeps them.    *)
THEOREM PoolInductive == Spec => []Inv
<1>1. Inv /\ [Next]_vars => Inv'
  <2> SUFFICES ASSUME Inv, [Next]_vars PROVE Inv'
    OBVIOUS
  <2>1. CASE CreatePool
    BY <2>1, CreatePoolStep
  <2>2. CASE Palloc
    BY <2>2, PallocStep
  <2>3. CASE Pmemalign
    BY <2>3, PmemalignStep
  <2>4. CASE \E c \in Chunk : uti_pfree(c)
    BY <2>4, PfreeStep
  <2>5. CASE uti_reset_pool
    BY <2>5, ResetStep
  <2>6. CASE \E f \in File : OpenFile(f) \/ CloseFile(f)
    BY <2>6, OpenFileStep, CloseFileStep
  <2>7. CASE \E f \in File, h \in {"close", "delete"}, s \in DataSize : RegisterFile(f, h, s)
    BY <2>7, RegisterFileStep
  <2>8. CASE \E s \in DataSize : RegisterHandler(s)
    BY <2>8, RegisterHandlerStep
  <2>9. CASE \E f \in File : uti_pool_run_cleanup_file(f)
    BY <2>9, RunCleanupFileStep
  <2>10. CASE uti_destroy_pool
    BY <2>10, DestroyStep
  <2>11. CASE RunHandler
    BY <2>11, RunHandlerStep
  <2>12. CASE HandlerReturn
    BY <2>12, HandlerReturnStep
  <2>13. CASE FreeLarge
    BY <2>13, FreeLargeStep
  <2>14. CASE LoopEnd
    BY <2>14, LoopEndStep
  <2>15. CASE FreeBlock
    BY <2>15, FreeBlockStep
  <2>16. CASE UNCHANGED vars
    BY <2>16 DEF vars, Inv, PoolInv, FilesInv, Ahead
  <2> QED
    BY <2>1, <2>2, <2>3, <2>4, <2>5, <2>6, <2>7, <2>8, <2>9, <2>10, <2>11, <2>12,
       <2>13, <2>14, <2>15, <2>16 DEF Next
<1> QED BY InitInv, <1>1, PTL DEF Spec

-----------------------------------------------------------------------------
(* What follows from it.                                                   *)

(* What the invariant says of the pool whatever uti_destroy_pool is at.    *)
LEMMA EveryShape == Inv => pool = NoPool \/ Shape(pool)
BY DEF Inv, PoolInv, Fine, FreesLarge, FreesBlocks

LEMMA EmptyPool ==
  /\ NoPool \in PoolType /\ Len(NoPool.blocks) = 0 /\ NoPool.current = 1
  /\ NoPool.heap = {} /\ NoPool.held = {} /\ NoPool.twice = FALSE
  /\ Entries(NoPool.large) = {} /\ Entries(NoPool.cleanup) = {}
BY EmptySeq DEF NoPool, PoolType, Entries

(* The state of the pool keeps its types: blocks, lists and addresses are  *)
(* what their readers in uti_mem_mgr.c take them to be.                    *)
THEOREM PoolTypes == Spec => []TypeOK
<1>1. Inv => TypeOK
  <2> SUFFICES ASSUME Inv PROVE TypeOK
    OBVIOUS
  <2>1. pool \in PoolType /\ pool.current \in Block
    <3>1. CASE pool = NoPool
      BY <3>1, EmptyPool, Constants DEF Block
    <3>2. CASE Shape(pool)
      <4>1. /\ Len(pool.blocks) \in Nat /\ Len(pool.blocks) <= MaxBlocks
            /\ pool.current \in 1..Len(pool.blocks)
        BY <3>2, BlocksAreNumbers, Constants DEF Shape, Search, Block
      <4> QED BY <3>2, <4>1, Constants DEF Shape, Block
    <3> QED BY <3>1, <3>2, EveryShape
  <2> QED BY <2>1 DEF TypeOK, PoolType, Inv, PoolInv, FilesInv
<1> QED BY <1>1, PoolInductive, PTL

(* For any alignment, any pool size that is a multiple of it, any sizes of *)
(* the headers and any sequence of aligned and unaligned requests: no two  *)
(* pieces given out overlap, and none lies over a header or leaves its     *)
(* block (uti_mem_mgr.c:208-211, :277-279, :192).                          *)
THEOREM NeverGivenTwice == Spec => []Disjoint
<1>1. Inv => Disjoint
  <2> SUFFICES ASSUME Inv, Size % Alignment = 0
               PROVE  /\ ~pool.twice
                      /\ \A u \in pool.held :
                           u[2] \in (IF u[1] = 1 THEN PoolHeader ELSE DataHeader)..Size - 1
    BY DEF Disjoint
  <2>1. CASE pool = NoPool
    BY <2>1, EmptyPool
  <2>2. CASE Shape(pool)
    <3>1. AlignedSize
      BY DEF AlignedSize
    <3>2. ~pool.twice
      BY <2>2, <3>1 DEF Shape, Layout
    <3>3. ASSUME NEW u \in pool.held
          PROVE  u[2] \in (IF u[1] = 1 THEN PoolHeader ELSE DataHeader)..Size - 1
      <4>1. /\ u[1] \in Blocks(pool) /\ Header(u[1]) <= u[2]
            /\ u[2] < pool.blocks[u[1]].last /\ pool.blocks[u[1]].last <= Size
        BY <2>2, <3>1 DEF Shape, Layout
      <4>2. u[2] \in Nat
        BY <2>2 DEF Shape, PoolType, Address
      <4>3. pool.blocks[u[1]].last \in Nat
        BY <2>2, <4>1, BlockFields DEF Shape, Blocks
      <4> QED BY <4>1, <4>2, <4>3, Constants DEF Header
    <3> QED BY <3>2, <3>3
  <2> QED BY <2>1, <2>2, EveryShape
<1> QED BY <1>1, PoolInductive, PTL

(* However many blocks the chain has, a request looks at seven at most,    *)
(* and a block is passed over only after six requests have failed in it.   *)
THEOREM SearchesSevenBlocks == Spec => []SearchBounded
<1>1. Inv => SearchBounded
  <2> SUFFICES ASSUME Inv PROVE SearchBounded
    OBVIOUS
  <2>1. CASE pool = NoPool
    BY <2>1, EmptyPool DEF SearchBounded
  <2>2. CASE Shape(pool)
    BY <2>2 DEF SearchBounded, Shape, Search
  <2> QED BY <2>1, <2>2, EveryShape
<1> QED BY <1>1, PoolInductive, PTL

(* Every chunk that is allocated is in one node of the large list, at each *)
(* step of uti_destroy_pool too, and after it nothing is left.             *)
THEOREM NoChunkLeaked == Spec => []ChunksOwned
<1>1. Inv => ChunksOwned
  <2> SUFFICES ASSUME Inv PROVE ChunksOwned
    OBVIOUS
  <2> DEFINE left == IF pc = "blocks" THEN {}
                     ELSE {i \in Entries(pool.large) : pc = "large" => i >= it}
             chunks == {pool.large[i].alloc : i \in left} \ {NULL}
             Apart == \A i, j \in left : (pool.large[i].alloc = pool.large[j].alloc /\ i # j)
                                           => pool.large[i].alloc = NULL
  <2>1. pool.heap \cap Chunk = chunks /\ Apart /\ (pc = "none" => pool.heap = {})
    <3>1. CASE pc = "none"
      <4>1. pool = NoPool /\ left \subseteq Entries(pool.large)
        BY <3>1 DEF Inv, PoolInv
      <4>2. left = {} /\ pool.heap = {}
        BY <4>1, EmptyPool
      <4> HIDE DEF left
      <4> QED BY <4>2
    <3>2. CASE pc \in {"live", "cleanup", "handler"}
      <4>1. Fine(pool) /\ left = Entries(pool.large)
        BY <3>2 DEF Inv, PoolInv
      <4> HIDE DEF left
      <4> QED BY <3>2, <4>1 DEF Fine, Owned
    <3>3. CASE pc = "large"
      <4>1. FreesLarge(pool, it) /\ left = {j \in Entries(pool.large) : j >= it}
        BY <3>3 DEF Inv, PoolInv
      <4> HIDE DEF left
      <4> QED BY <3>3, <4>1 DEF FreesLarge
    <3>4. CASE pc = "blocks"
      <4>1. FreesBlocks(pool, it) /\ left = {} /\ it \in Nat /\ it >= 1
        BY <3>4 DEF Inv, PoolInv
      <4>2. pool.heap \subseteq Block
        <5>1. pool.heap = it..Len(pool.blocks) /\ Len(pool.blocks) \in Nat
              /\ Len(pool.blocks) <= MaxBlocks
          BY <4>1, Constants DEF FreesBlocks, Shape, Search, Block
        <5> QED BY <4>1, <5>1, Constants DEF Block
      <4>3. pool.heap \cap Chunk = {}
        BY <4>2, Distinct
      <4> HIDE DEF left
      <4> QED BY <3>4, <4>1, <4>3
    <3> QED BY <3>1, <3>2, <3>3, <3>4 DEF Inv, PoolInv
  <2> QED BY <2>1 DEF ChunksOwned
<1> QED BY <1>1, PoolInductive, PTL

(* uti_destroy_pool reads its lists, and gives handlers their data, in     *)
(* memory it has not freed.                                                *)
THEOREM NothingReadAfterFree == Spec => []WalksLiveMemory
<1>1. Inv => WalksLiveMemory
  <2> SUFFICES ASSUME Inv PROVE WalksLiveMemory
    OBVIOUS
  <2> DEFINE InHeap(m) == IF m \in Chunk THEN m \in pool.heap
                          ELSE m # NULL => m[1] \in pool.heap
  <2>1. it \in Nat /\ it >= 1
    BY DEF Inv, PoolInv
  <2>2. ASSUME pc \in {"cleanup", "handler"}, it <= Len(pool.cleanup)
        PROVE  InHeap(pool.cleanup[it].at) /\ InHeap(pool.cleanup[it].data)
    <3>1. Fine(pool)
      BY <2>2 DEF Inv, PoolInv
    <3>2. Blocks(pool) \subseteq pool.heap
      BY <3>1 DEF Fine, Owned
    <3>3. it \in Entries(pool.cleanup)
      <4>1. Len(pool.cleanup) \in Nat
        BY <3>1, LenProperties DEF Fine, Shape, PoolType
      <4> QED BY <2>1, <2>2, <4>1 DEF Entries
    <3>4. \A m : Live(pool, m) => InHeap(m)
      BY <3>2 DEF Live
    <3> HIDE DEF InHeap
    <3> QED BY <3>1, <3>3, <3>4 DEF Fine, ListsLive
  <2>3. ASSUME pc = "large", it <= Len(pool.large)
        PROVE  InHeap(pool.large[it].at)
    <3>1. FreesLarge(pool, it)
      BY <2>3 DEF Inv, PoolInv
    <3>2. pool.large \in Seq(Large) /\ Len(pool.large) \in Nat
      BY <3>1, LenProperties DEF FreesLarge, Shape, PoolType, Large
    <3>3. it \in Entries(pool.large)
      BY <2>1, <2>3, <3>2 DEF Entries
    <3>4. pool.large[it].at \in Address
      <4>1. pool.large[it] \in Large
        BY <3>2, <3>3, ElementOfSeq DEF Entries
      <4> QED BY <4>1 DEF Large
    <3>5. pool.large[it].at[1] \in pool.heap
      BY <3>1, <3>3 DEF FreesLarge
    <3> QED BY <3>4, <3>5, Distinct
  <2>4. pc = "blocks" => it \in pool.heap
    <3> SUFFICES ASSUME pc = "blocks" PROVE it \in pool.heap
      OBVIOUS
    <3>1. FreesBlocks(pool, it)
      BY DEF Inv, PoolInv
    <3>2. Len(pool.blocks) \in Nat
      BY <3>1, BlocksAreNumbers DEF FreesBlocks, Shape
    <3> QED BY <2>1, <3>1, <3>2 DEF FreesBlocks
  <2> QED BY <2>2, <2>3, <2>4 DEF WalksLiveMemory
<1> QED BY <1>1, PoolInductive, PTL

(* A file handed over has exactly one handler that is still to close it,   *)
(* and any other file has none, for any number of files and handlers.      *)
THEOREM EachFileOneHandler == Spec => []FilesClosedOnce
<1>1. Inv => FilesClosedOnce
  <2> SUFFICES ASSUME Inv, NEW f \in File
               PROVE  Cardinality({i \in Entries(pool.cleanup) :
                        /\ pool.cleanup[i].handler \in {"close", "delete"}
                        /\ pool.cleanup[i].fd = f
                        /\ pc \in {"cleanup", "handler"} => i >= it
                        /\ pc \notin {"large", "blocks"}})
                        = IF file[f] = "pool" THEN 1 ELSE 0
    BY DEF FilesClosedOnce
  <2> DEFINE S == {i \in Entries(pool.cleanup) :
                        /\ pool.cleanup[i].handler \in {"close", "delete"}
                        /\ pool.cleanup[i].fd = f
                        /\ pc \in {"cleanup", "handler"} => i >= it
                        /\ pc \notin {"large", "blocks"}}
  <2>1. \A i \in Entries(pool.cleanup) :
          i \in S <=> Closes(pool.cleanup[i]) /\ pool.cleanup[i].fd = f /\ Ahead(i)
    BY DEF Closes, Ahead
  <2>2. \A i, j \in S : i = j
    BY DEF Inv, FilesInv, Closes
  <2>3. S \subseteq Entries(pool.cleanup)
    OBVIOUS
  <2> HIDE DEF S
  <2>4. file[f] = "pool" <=> S # {}
    BY <2>1, <2>3 DEF Inv, FilesInv
  <2>5. CASE file[f] = "pool"
    <3>1. PICK i \in S : S = {i}
      BY <2>2, <2>4, <2>5
    <3>2. Cardinality({i}) = 1
      BY FS_Singleton
    <3> QED BY <2>5, <3>1, <3>2 DEF S
  <2>6. CASE file[f] # "pool"
    <3>1. S = {} /\ Cardinality({}) = 0
      BY <2>4, <2>6, FS_EmptySet
    <3> QED BY <2>6, <3>1 DEF S
  <2> QED BY <2>5, <2>6
<1> QED BY <1>1, PoolInductive, PTL

=============================================================================
