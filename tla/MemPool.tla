------------------------------- MODULE MemPool -------------------------------
(***************************************************************************)
(* The memory pool of platform/src/uti_mem_mgr.c.                          *)
(*                                                                         *)
(* A pool is a chain of blocks of one size; small requests are cut from    *)
(* them, large ones are allocated apart and listed.  The nodes of that     *)
(* list and of the list of cleanup handlers are cut from the blocks too.   *)
(* A call is one step, except uti_destroy_pool: it runs handlers of the    *)
(* user, which may still use the pool, and frees the memory that its own   *)
(* lists are in, so every iteration of its loops is a step.                *)
(*                                                                         *)
(* Sizes and offsets in a block are numbers; a block has its number in the *)
(* chain for an address.  An operator for a C function that allocates has  *)
(* as value the set of its outcomes, one of which is that malloc fails.    *)
(***************************************************************************)
EXTENDS Integers, Sequences, FiniteSets, FiniteSetsExt

CONSTANTS
  Chunk,        \* what malloc returns for large requests
  File,         \* file descriptors
  NULL,
  Size,         \* the size given to uti_create_pool
  Alignment,    \* UTI_ALIGNMENT
  PoolHeader,   \* sizeof(uti_pool_t)
  DataHeader,   \* sizeof(uti_pool_data_t)
  LargeNode,    \* sizeof(uti_pool_large_t)
  CleanupNode,  \* sizeof(uti_pool_cleanup_t)
  PageMax,      \* UTI_MAX_ALLOC_FROM_POOL
  SizeMod,      \* 2^64 in the code, where differences are a size_t
  Request,      \* the sizes a client asks for
  DataSize,     \* the sizes of handler data a client asks for
  MaxBlocks     \* bound: memalign fails when the chain is that long

Block == 1..MaxBlocks

Address == Block \X Nat

(* The pool has at least UTI_MIN_POOL_SIZE; without it uti_palloc_large    *)
(* and uti_palloc call each other for ever.                                *)
ASSUME PoolAssumption ==
  /\ {Size, Alignment, PoolHeader, DataHeader, LargeNode, CleanupNode, PageMax,
      SizeMod, MaxBlocks} \subseteq Nat \ {0}
  /\ Request \cup DataSize \subseteq Nat
  /\ Size >= PoolHeader + 2 * LargeNode
  /\ CleanupNode <= 2 * LargeNode
  /\ PageMax >= 2 * LargeNode
  /\ Size < SizeMod
  /\ DataHeader <= PoolHeader
  /\ \A n \in {PoolHeader, DataHeader, LargeNode, CleanupNode} : n % Alignment = 0
  /\ NULL \notin Chunk \cup File \cup Nat \cup Address
  /\ Chunk \cap (Nat \cup Address) = {}

VARIABLES
  pool,   \* its blocks and lists, what it holds and what it has given out
  file,   \* of each descriptor: closed, the client's or the pool's to close
  pc,     \* none, live, or the loop of uti_destroy_pool
  it      \* the position of that loop

vars == <<pool, file, pc, it>>

(* heap is the memory malloc has given to the pool; held is history: the   *)
(* units the pool has given out, and twice, whether it gave one out twice. *)
NoPool == [blocks |-> <<>>, current |-> 1, large |-> <<>>, cleanup |-> <<>>,
           heap |-> {}, held |-> {}, twice |-> FALSE]

TypeOK ==
  /\ pool.blocks \in Seq([last : Nat, failed : Nat])
  /\ pool.current \in Block
  /\ pool.large \in Seq([at : Address, alloc : Chunk \cup {NULL}])
  /\ pool.cleanup \in Seq([at : Address, data : Address \cup Chunk \cup {NULL},
                           handler : {"none", "close", "delete", "user"},
                           fd : File \cup {NULL}])
  /\ pool.heap \subseteq Block \cup Chunk
  /\ pool.held \subseteq Address
  /\ pool.twice \in BOOLEAN
  /\ file \in [File -> {"closed", "client", "pool"}]
  /\ pc \in {"none", "live", "cleanup", "handler", "large", "blocks"}
  /\ it \in Nat

-----------------------------------------------------------------------------
(* Allocation from a pool p.                                               *)

Blocks(p) == 1..Len(p.blocks)

Align(n) == ((n + Alignment - 1) \div Alignment) * Alignment

(* Where the next allocation from block b starts, by palloc or by pnalloc. *)
Start(p, b, aligned) ==
  IF aligned THEN Align(p.blocks[b].last) ELSE p.blocks[b].last

HasRoom(p, b, size, aligned) ==
  (Size - Start(p, b, aligned)) % SizeMod >= size

Failure(p) == [pool |-> p, mem |-> NULL]

Units(b, from, size) == {b} \X (from..from + size - 1)

MutCut(p, b, from, size) ==
  LET units == Units(b, from, size) IN
  [pool |-> [p EXCEPT !.blocks[b].last = @ + size,
                      !.held = @ \cup units,
                      !.twice = @ \/ units \cap p.held # {}],
   mem  |-> <<b, from>>]

(* The units from offset from of block b are given out.                    *)
Cut(p, b, from, size) ==
  LET units == Units(b, from, size) IN
  [pool |-> [p EXCEPT !.blocks[b].last = from + size,
                      !.held = @ \cup units,
                      !.twice = @ \/ units \cap p.held # {}],
   mem  |-> <<b, from>>]

MutPassedOver(p) ==
  {b \in p.current..Len(p.blocks) - 1 : p.blocks[b].failed > 5}

(* The blocks that a new block makes the search pass over from now on.     *)
PassedOver(p) ==
  {b \in p.current..Len(p.blocks) - 1 : p.blocks[b].failed > 4}

(* Every block from current on that is not the last one has failed again.  *)
uti_palloc_block(p, size) ==
  LET n == Len(p.blocks) + 1
      counted == [b \in Blocks(p) |->
                    IF b \in p.current..n - 2
                      THEN [p.blocks[b] EXCEPT !.failed = @ + 1]
                      ELSE p.blocks[b]]
      q == [p EXCEPT !.blocks = Append(counted, [last |-> 0, failed |-> 0]),
                     !.current = Max({@} \cup {b + 1 : b \in PassedOver(p)}),
                     !.heap = @ \cup {n}]
  IN  {Failure(p)} \cup
      (IF n \in Block THEN {Cut(q, n, Align(DataHeader), size)} ELSE {})

Small(p, size, aligned) ==
  LET fit == {b \in p.current..Len(p.blocks) : HasRoom(p, b, size, aligned)} IN
  IF fit = {} THEN uti_palloc_block(p, size)
              ELSE {Cut(p, Min(fit), Start(p, Min(fit), aligned), size)}

MutListLarge(p, c) ==
  {[pool |-> [o.pool EXCEPT !.heap = @ \cup {c},
                            !.large = <<[at |-> o.mem, alloc |-> c]>> \o @],
    mem  |-> c] : o \in Small(p, LargeNode, TRUE)}

(* A chunk gets a list node of its own, or is freed when that fails.       *)
ListLarge(p, c) ==
  {IF o.mem = NULL THEN Failure(p)
   ELSE [pool |-> [o.pool EXCEPT !.heap = @ \cup {c},
                                 !.large = <<[at |-> o.mem, alloc |-> c]>> \o @],
         mem  |-> c] : o \in Small(p, LargeNode, TRUE)}

(* The nodes among the first five of the list whose chunk has been freed.  *)
Vacant(p) == {i \in 1..Min({5, Len(p.large)}) : p.large[i].alloc = NULL}

uti_palloc_large(p, c) ==
  IF Vacant(p) = {} THEN ListLarge(p, c)
  ELSE {[pool |-> [p EXCEPT !.heap = @ \cup {c},
                            !.large[Min(Vacant(p))].alloc = c],
         mem  |-> c]}

PoolMax == Min({Size - PoolHeader, PageMax})

(* uti_palloc and uti_pcalloc, and without alignment uti_pnalloc.          *)
Allocate(p, size, aligned) ==
  IF size <= PoolMax THEN Small(p, size, aligned)
  ELSE {Failure(p)} \cup UNION {uti_palloc_large(p, c) : c \in Chunk \ p.heap}

uti_palloc(p, size) == Allocate(p, size, TRUE)

uti_pmemalign(p) ==
  {Failure(p)} \cup UNION {ListLarge(p, c) : c \in Chunk \ p.heap}

(* On success the handler and, for a file, the data are then filled in by  *)
(* the caller.                                                             *)
uti_pool_cleanup_add(p, size, handler, fd) ==
  UNION {IF o.mem = NULL THEN {o}
         ELSE {IF size > 0 /\ d.mem = NULL THEN d
               ELSE [pool |-> [d.pool EXCEPT !.cleanup =
                       <<[at |-> o.mem, data |-> d.mem, handler |-> handler,
                          fd |-> fd]>> \o @],
                     mem |-> o.mem] :
               d \in IF size > 0 THEN uti_palloc(o.pool, size)
                                 ELSE {Failure(o.pool)}} :
         o \in uti_palloc(p, CleanupNode)}

-----------------------------------------------------------------------------
Init ==
  /\ pool = NoPool
  /\ file = [f \in File |-> "closed"]
  /\ pc = "none"
  /\ it = 1

CreatePool ==
  /\ pc = "none"
  /\ pool' = [NoPool EXCEPT !.blocks = <<[last |-> PoolHeader, failed |-> 0]>>,
                            !.heap = @ \cup {1}]
  /\ pc' = "live"
  /\ UNCHANGED <<file, it>>

(* The client runs; in a handler it is still given memory by the pool.     *)
InUse == pc \in {"live", "handler"}

Palloc ==
  /\ InUse
  /\ \E size \in Request, aligned \in BOOLEAN :
       \E o \in Allocate(pool, size, aligned) : pool' = o.pool
  /\ UNCHANGED <<file, pc, it>>

Pmemalign ==
  /\ InUse
  /\ \E o \in uti_pmemalign(pool) : pool' = o.pool
  /\ UNCHANGED <<file, pc, it>>

NodeOf(c) == {i \in 1..Len(pool.large) : pool.large[i].alloc = c}

MutPfree(c) ==
  /\ InUse
  /\ NodeOf(c) # {}
  /\ \A i \in 1..Len(pool.cleanup) : pool.cleanup[i].data # c
  /\ pool' = [pool EXCEPT !.heap = @ \ {c}]
  /\ UNCHANGED <<file, pc, it>>

(* The data of a handler is not the client's to free.                      *)
uti_pfree(c) ==
  /\ InUse
  /\ NodeOf(c) # {}
  /\ \A i \in 1..Len(pool.cleanup) : pool.cleanup[i].data # c
  /\ pool' = [pool EXCEPT !.heap = @ \ {c}, !.large[Min(NodeOf(c))].alloc = NULL]
  /\ UNCHANGED <<file, pc, it>>

(* A client that has registered a cleanup must not reset the pool: the     *)
(* list it is in is kept, its memory is not.  Neither failed nor current   *)
(* is reset.                                                               *)
uti_reset_pool ==
  /\ pc = "live"
  /\ pool.cleanup = <<>>
  /\ pool' = [pool EXCEPT
       !.blocks = [b \in DOMAIN @ |-> [@[b] EXCEPT !.last = PoolHeader]],
       !.heap = Blocks(pool), !.large = <<>>, !.held = {}]
  /\ UNCHANGED <<file, pc, it>>

OpenFile(f) ==
  /\ pc = "live"
  /\ file[f] = "closed"
  /\ file' = [file EXCEPT ![f] = "client"]
  /\ UNCHANGED <<pool, pc, it>>

CloseFile(f) ==
  /\ pc \in {"none", "live"}
  /\ file[f] = "client"
  /\ file' = [file EXCEPT ![f] = "closed"]
  /\ UNCHANGED <<pool, pc, it>>

(* A client hands over a file of its own, to uti_pool_cleanup_file or to   *)
(* uti_pool_delete_file.                                                   *)
RegisterFile(f, handler, size) ==
  /\ pc = "live"
  /\ file[f] = "client"
  /\ \E o \in uti_pool_cleanup_add(pool, size, handler, f) :
       /\ pool' = o.pool
       /\ file' = IF o.mem = NULL THEN file ELSE [file EXCEPT ![f] = "pool"]
  /\ UNCHANGED <<pc, it>>

RegisterHandler(size) ==
  /\ pc = "live"
  /\ \E o \in uti_pool_cleanup_add(pool, size, "user", NULL) : pool' = o.pool
  /\ UNCHANGED <<file, pc, it>>

CleanupOf(f) ==
  {i \in 1..Len(pool.cleanup) :
     pool.cleanup[i].handler = "close" /\ pool.cleanup[i].fd = f}

MutRunCleanupFile(f) ==
  /\ InUse
  /\ file[f] = "pool"
  /\ CleanupOf(f) # {}
  /\ file' = [file EXCEPT ![f] = "closed"]
  /\ UNCHANGED <<pool, pc, it>>

(* The client asks for a file it has handed over to be closed now.         *)
uti_pool_run_cleanup_file(f) ==
  /\ InUse
  /\ file[f] = "pool"
  /\ CleanupOf(f) # {}
  /\ file' = [file EXCEPT ![f] = "closed"]
  /\ pool' = [pool EXCEPT !.cleanup[Min(CleanupOf(f))].handler = "none"]
  /\ UNCHANGED <<pc, it>>

-----------------------------------------------------------------------------
(* uti_destroy_pool.                                                       *)

MutLoops == <<"large", "cleanup", "blocks">>

Loops == <<"cleanup", "large", "blocks">>

NextLoop == Loops[1 + CHOOSE i \in 1..2 : Loops[i] = pc]

uti_destroy_pool ==
  /\ pc = "live"
  /\ pc' = Loops[1]
  /\ it' = 1
  /\ UNCHANGED <<pool, file>>

RunHandler ==
  /\ pc = "cleanup"
  /\ it <= Len(pool.cleanup)
  /\ LET c == pool.cleanup[it] IN
       IF c.handler = "user" THEN pc' = "handler" /\ UNCHANGED <<file, it>>
       ELSE /\ it' = it + 1
            /\ file' = IF c.handler = "none" THEN file
                                             ELSE [file EXCEPT ![c.fd] = "closed"]
            /\ UNCHANGED pc
  /\ UNCHANGED pool

HandlerReturn ==
  /\ pc = "handler"
  /\ pc' = "cleanup"
  /\ it' = it + 1
  /\ UNCHANGED <<pool, file>>

FreeLarge ==
  /\ pc = "large"
  /\ it <= Len(pool.large)
  /\ pool' = [pool EXCEPT !.heap = @ \ {pool.large[it].alloc}]
  /\ it' = it + 1
  /\ UNCHANGED <<file, pc>>

LoopEnd ==
  /\ \/ pc = "cleanup" /\ it > Len(pool.cleanup)
     \/ pc = "large" /\ it > Len(pool.large)
  /\ pc' = NextLoop
  /\ it' = 1
  /\ UNCHANGED <<pool, file>>

FreeBlock ==
  /\ pc = "blocks"
  /\ IF it < Len(pool.blocks)
       THEN /\ pool' = [pool EXCEPT !.heap = @ \ {it}]
            /\ it' = it + 1
            /\ UNCHANGED pc
       ELSE /\ pool' = [NoPool EXCEPT !.heap = pool.heap \ {it}]
            /\ it' = 1
            /\ pc' = "none"
  /\ UNCHANGED file

Next ==
  \/ CreatePool
  \/ Palloc
  \/ Pmemalign
  \/ \E c \in Chunk : uti_pfree(c)
  \/ uti_reset_pool
  \/ \E f \in File : OpenFile(f) \/ CloseFile(f)
  \/ \E f \in File, h \in {"close", "delete"}, s \in DataSize : RegisterFile(f, h, s)
  \/ \E s \in DataSize : RegisterHandler(s)
  \/ \E f \in File : uti_pool_run_cleanup_file(f)
  \/ uti_destroy_pool
  \/ RunHandler
  \/ HandlerReturn
  \/ FreeLarge
  \/ LoopEnd
  \/ FreeBlock

Spec == Init /\ [][Next]_vars

-----------------------------------------------------------------------------
(* Properties.                                                             *)

Entries(list) == 1..Len(list)

(* What is given out stays inside its block, clear of the header, and no   *)
(* two pieces of it overlap, across aligned and unaligned requests, resets *)
(* and the two kinds of block header (uti_mem_mgr.c:208-211, :277-279,     *)
(* :192).  It takes a pool size that is a multiple of the alignment: the   *)
(* difference at :210 wraps around otherwise.                              *)
Disjoint ==
  Size % Alignment = 0 =>
    /\ ~pool.twice
    /\ \A u \in pool.held :
         u[2] \in (IF u[1] = 1 THEN PoolHeader ELSE DataHeader)..Size - 1

(* A request never looks at more than seven blocks, however long the chain *)
(* grows: a block is passed over for good once six requests have failed in *)
(* it (uti_mem_mgr.c:283-291), and only then.                              *)
SearchBounded ==
  /\ Len(pool.blocks) - pool.current <= 6
  /\ \A b \in 1..pool.current - 1 : pool.blocks[b].failed >= 6

(* Every chunk that is allocated is in one node of the list of the live    *)
(* pool, and no node has a chunk that has been freed: none is leaked or    *)
(* freed twice by pfree, reset, destroy, the reuse of a node, or a request *)
(* whose list node cannot be allocated (uti_mem_mgr.c:322-326, :347-351).  *)
(* After destroy nothing is left.                                          *)
ChunksOwned ==
  LET left == IF pc = "blocks" THEN {}
              ELSE {i \in Entries(pool.large) : pc = "large" => i >= it}
      chunks == {pool.large[i].alloc : i \in left} \ {NULL}
  IN  /\ pool.heap \cap Chunk = chunks
      /\ \A i, j \in left : (pool.large[i].alloc = pool.large[j].alloc /\ i # j)
                              => pool.large[i].alloc = NULL
      /\ pc = "none" => pool.heap = {}

(* The nodes that destroy walks and the data it gives to handlers are in   *)
(* memory that it has not freed yet (uti_mem_mgr.c:134-148, :167-173).     *)
WalksLiveMemory ==
  LET Live(m) == IF m \in Chunk THEN m \in pool.heap
                 ELSE m # NULL => m[1] \in pool.heap
  IN  /\ (pc \in {"cleanup", "handler"} /\ it <= Len(pool.cleanup)) =>
           Live(pool.cleanup[it].at) /\ Live(pool.cleanup[it].data)
      /\ (pc = "large" /\ it <= Len(pool.large)) => Live(pool.large[it].at)
      /\ pc = "blocks" => it \in pool.heap

(* A file handed over is closed by one handler: it has exactly one that is *)
(* still to run, also when its descriptor was used and closed before       *)
(* (uti_mem_mgr.c:431-442), and a file that is not has none.               *)
FilesClosedOnce ==
  \A f \in File :
    Cardinality({i \in Entries(pool.cleanup) :
                   /\ pool.cleanup[i].handler \in {"close", "delete"}
                   /\ pool.cleanup[i].fd = f
                   /\ pc \in {"cleanup", "handler"} => i >= it
                   /\ pc \notin {"large", "blocks"}})
      = IF file[f] = "pool" THEN 1 ELSE 0

=============================================================================
