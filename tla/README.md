# Verification of the platform utilities

TLA+ specifications of `platform/` (a C utility library: timers, a red-black
tree, memory pools, logging, files, strings, time), TLC configurations that
check them on small instances, and TLAPS proofs about all of them, for any values
of the constants.

## The system

| Component | Code | State | Operations |
|---|---|---|---|
| Timer manager | `uti_timer.c` | tree of timers, `size`, `capacity`; in each timer its period, begin, expiry | init, add, del, check (runs callbacks), clear / destory |
| Red-black tree | `uti_rbtree.c/.h` | root, and in each node two children, parent and colour | insert (link + recolour), erase, replace, first / last / next / prev |
| Event loop | `test_main.c`, `test_timer` | how long it sleeps | check, sleep, until the manager is empty |
| Memory pool | `uti_mem_mgr.c` | chain of blocks, list of large chunks, list of cleanup handlers | create, palloc / pnalloc / pcalloc / pmemalign, pfree, cleanup_add, run_cleanup_file, reset, destroy |
| Logging | `uti_logging.c` | level, handler, log file, one mutex | init, printf, rotation by size, close |
| File wrappers | `uti_file.c` | `errno` | read / write loops, datagrams, lines |
| Strings | `uti_string.c` | none | hexadecimal, UTF-8, base64, URI and HTML escapes |
| Time | `uti_time.c` | none | the clock, calendar conversions |
| Thread wrappers | `uti_thread.c` | none | one pthread call each |
| Headers, `platform.c` | | none | types, sleep (in `TimerLoop`), random |

How they interact: the timer manager keeps its timers in the red-black tree,
reads the clock when a timer is added and for each timer it checks, and calls
back into user code, which may call the manager again.  The event loop drives
the manager.  The pool closes files in its cleanup handlers.  Everything logs.

What is hard:

- *Re-entrancy.*  `timer_mgr_check_timer` and `timer_mgr_clear` call user code
  in the middle of a loop over a tree that this user code may change, and free
  timers around it.  `uti_destroy_pool` calls handlers that may use the pool.
- *The wall clock* of `uti_get_time_s` can be set back; periods are multiplied
  and the time left is truncated to 32 bits.
- *Rebalancing* dereferences pointers that are non-NULL only because the tree
  was balanced.
- *Partial failure*: a chunk is allocated but its list node is not.
- *Threads* in the logging module: a mutex that only `log_printf` takes, and a
  descriptor number that other code may get after a close.
- *System calls* that move a part, are interrupted, or fail.
- *Two passes*: escaping counts in one loop and writes in another, and
  unescaping writes into the buffer it reads.
- *Zones*: two sources of the zone, and a field that says whether it is summer
  that is never set.

`PROJECT.json` lists these hazards line by line with the properties that
address them.

## Modules

### The timer manager: `TimerMgr`, `TimerService`

`TimerMgr` has one action per call of the client and one per step of the two
loops between two calls of user code.

| Code | Model |
|---|---|
| `timer_map` | `tree`, the set of linked timers; `First`, `Next`, `Prev` follow from the comparison `Before` (`uti_timer_cmp`) |
| `size`, `capacity` | `size`, `Watermark` |
| `msElapse`, `timeBegin`, `timeExpire` | `elapse`, `begin`, `expire` |
| malloc / free of timer objects | `live` |
| the calls of check and clear in progress, with `node_it` and `ptimer` | `depth`, `frame`: a stack |
| `uti_get_time_s` | `now`, with `Tick` and, if `StepsBack`, `StepBack` |

User code runs when the stack is empty or its top frame is in the phase
`callback` or `destroy`; it is any sequence of calls on timers it owns: timers
that are allocated, not managed, and not about to be given to a destroy
function.  That is the contract of the code ("you should assure , @timer is
managed by timer_mgr", `uti_timer.c:257`; an unmanaged timer must not be freed
twice).  Callbacks are nested as deep as `MaxDepth`.

A destroy function frees the timer as the last thing it does.  The phase
`destroy` comes before that, so it may call the manager first.  A call that is
refused because of the watermark changes nothing and is no step.

`TimerService` is what the manager promises: pending timers with deadlines, at
most `Capacity` of them, and a callback only for a due timer of the earliest
deadline.  `ServiceSpec` says that `TimerMgr` implements it, with
`deadline <- [t \in tree |-> expire[t]]` and, as the running callback at each
level, the timer of the frame that is in the phase `callback`.

### The tree: `RBTree`, `OrderedSet`

`RBTree` has the links and colours of each node.  Insertion and erasure are
one step each up to the repair of the colours, then each iteration of the loop
of `uti_rb_insert_color` or `__rb_erase_color` is a step.  The code has each
case twice, for left and right; the model has it once, with a side.  The
colour bit and the parent pointer in one word are two fields.  `OrderedSet` is
what the tree promises, and what `TimerMgr` relies on; `SetSpec` says that
`RBTree` implements it with the nodes reachable from the root as the set.

### The event loop: `TimerLoop`

`TimerLoop` extends `TimerMgr` with the loop of `test_timer`: setup, check,
`time_wait`, sleep, and the destruction of the manager.  The client of
`TimerMgr` acts only in the setup and in callbacks, which do not call check.
The last reading of the clock in check, with its return (`LoopWait`), and the
beginning of the sleep in `os_sleep` (`LoopSleep`) are two steps, between which
the clock may go on by any time: the thread logs, or does not run.  The slack of
4 ms is for this, so `NeverOversleep` says that the sleep ends past a deadline by
no more than that time is longer than the slack.  It is about the end that is
asked of the system, which may wake the thread later still.

### The memory pool: `MemPool`

Blocks are numbered along the chain and offsets in a block are numbers.  Every
call is one step; an operator that stands for an allocating C function has as
value the set of its outcomes, failure included, and the calls compose by
quantifying over them.  `uti_destroy_pool` has a step per iteration, because
its handlers are user code (`pc = "handler"`: the client may use the pool) and
because it frees the memory that its lists are in.  Two obligations of the
client appear as guards: it does not reset a pool with a cleanup registered
(its node is in the memory reset gives back, yet stays listed), and it asks
`uti_pool_run_cleanup_file` to close only files it has handed over.  The pool
size is at least `UTI_MIN_POOL_SIZE`; with less, `uti_palloc` and
`uti_palloc_large` call each other for ever.

### Logging: `Logging`, `MessageLog`

Threads are in one place each (`pc`), and a step is a system call of
`file_log_agent` or `file_log_close`, or an access to the global descriptor.
Each use of `file_log_setting.file_desc` may see its present value or the one
at the last system call (`reg`), since the compiler may load it at any time
between.  `open` says what each descriptor is open on, a log file or a file of
other code, which gets and gives back descriptors at any time.  The system may
refuse to stat, open or write, and may write only the beginning of a message;
`failed` is a history variable for these.  `file_log_close` may be called at any
time, also while threads are logging; `raced` is a history variable that says
whether it was.  After a race a close may hit a descriptor of other code and a
log file may be lost, so `OneLogFile` and `NoSilentLoss` speak of histories
without one; `FilesBounded`, `MutexReleased` and `LogSpec` hold with races too.
`log_sys_init` is the initial state, as its comment demands.  `MessageLog` is what a log promises;
`LogSpec` says that the log files one after the other, or the console, implement
it.

### File input and output: `FileIO`

One call at a time of any of the five transfer functions; each step is one
system call with what follows it: it moves some bytes, or none, is interrupted,
or fails.  `errno` is a variable that only a failing call sets.

### Escapes: `Escape`

`Escape` takes a text through the calls its users make: `ngx_escape_uri` or
`ngx_escape_html` without a destination, which count; the allocation of the
text and what was counted; the same function again, which writes; and
`ngx_unescape_uri` from the buffer into itself.  The last three go byte by byte.

| Code | Model |
|---|---|
| `escape[]`, the seven bit tables | `Table`, a set of bytes for each type |
| `n` of the counting loops | `Counted`, `Extra` |
| `*src`, `*dst` of either function | `s`, `d`: bytes read and written |
| `state`, `decoded` in `ngx_unescape_uri` | `state`, `decoded`; the cases of its `switch` are `Usual`, `QuotedFirst`, `QuotedSecond` |
| the type bits | `flags`; the two branches for digits and letters, which differ, are `Kept` |

A write behind the buffer has no effect on `buf`, but `d` then exceeds its
length, which `TypeOK` forbids.  `Quoted` are texts from elsewhere that are only
unescaped, broken quotations among them.

### Conversions: `Base64`, `Utf8`, `TimeConv`, `Conversions`

The first three are pure: `ngx_encode_base64`, the two decoders, `ngx_hex_dump`,
`hex2ch`, `str2buf`; `ngx_utf8_decode`, `ngx_utf8_length`, `ngx_utf8_cpystrn`;
and the four functions of `uti_time.c`.  Loops over bytes are given position by
position, by functions.  `Utf8` works on memory that goes on behind the text,
because `ngx_utf8_length` tells the decoder at each place that the whole length
is left.  In `TimeConv` the calendar fields of a `UtiTime_t` stand for the
seconds they read as; a zone has the C library's offset, the kernel's
`tz_minuteswest` and the set of hours its clocks may be ahead, one of which
`mktime` picks by the uninitialised `tm_isdst`.

`Conversions` is a program that converts data from form to form, any number of
times and by any path, and text that may be damaged on its way: one byte is
changed or the last one lost.

## Runs

| Run | Instance | Shows |
|---|---|---|
| `timer_mgr` | 3 timers, capacity 2, 2 levels, periods 0, 1, 3 (2, 6 clock units), clock 0..2 that may go back at any time | types, `SizeInv`, `IteratorSafe`, `DestroyedOnce`, `KeysDistinct`, `FiringOrder`, `NotEarly`, `NoneDueOnReturn`, `ServiceSpec` |
| `timer_units` | 1 timer | *violated*: the comment that `msElapse` is in microseconds |
| `timer_loop` | 2 timers, periods of which one does not fit in a word, any delay before a sleep | `NeverOversleep`, `EventuallyFired` |
| `rbtree` | 11 nodes, two with equal keys | order, colours, no NULL dereference, traversal, `SetSpec`, and `ClimbsOrEnds`: both repairs end |
| `rbtree_search` | 6 nodes, pairs of equal expiry | *violated*: the comment that the search returns the first timer |
| `mem_pool` | 2 blocks, 2 chunks, 1 file | disjoint allocations, no leak or double free, destroy walks live memory, each file closed once |
| `mem_pool_chain` | 9 blocks, 26 list nodes | a request looks at seven blocks at most |
| `logging` | 2 threads, 3 messages of size 1 or 2, 2 descriptors, file sizes 2 and 3, close at any time | one log file open and no silent loss without a race; file size, `LogSpec` and the release of the mutex always |
| `file_io` | files of 0 to 4 bytes, buffers of 1 to 3 | bytes in order and once, results, calls return |
| `escape` | texts of up to 3 of 9 bytes, quotations of up to 6 of 6 bytes | the count is enough, unescaping undoes escaping, in place and for broken quotations |
| `escape_refresh` | the same | *violated*: the comment that `NGX_ESCAPE_REFRESH` escapes `%` |
| `conversions` | bytes of up to 4 of 5 values, 1 or 2 characters at the ends of each width, times before and after the epoch in four zones | bytes survive base64 and hexadecimal, times agree but for what zones and summer time make, UTF-8 is measured, copied and decoded rightly |

Why the bounds are enough.  Two nested levels let a callback call check or
clear inside check or clear, and what a third level could do to the first is
what the second can do.  Three timers and a capacity of two give a timer that
is refused, one that waits while another's callback runs, and equal deadlines.
The clock of `timer_mgr` shows three values, so it can be set back behind the
time of an addition and come to the same time twice, for equal deadlines.
`Word32` is smaller than a deadline and than the largest period in clock
units, so truncation happens.  Ten keys are the fewest with which an insertion
recolours, and an erasure climbs, two levels up: with nine neither loop ever goes
up twice.  With two blocks of four
and six free units, requests of one unit leave unaligned ends and requests of
four overflow into the second block; the chain run has the more than seven
blocks that the counter `failed` is about, and its list nodes exceed the five
that the search for a vacant one looks at.  Three messages fill a log file and
begin a second; the threads of `Logging` meet only in the mutex and the
descriptor, so two of them, in any roles, show each race between a pair.
Buffers of three bytes allow a first, a middle and a last part.  A quotation is
three bytes, so six hold two, one of which may stand in the other or be broken
by it; the nine bytes of `MCText` fall on different sides of every pair of
tables and of each case of the decoder.  Four bytes are a full group of base64
and the first of the next; the four characters of `MCBytes` other than 0 use
digits of each part of the alphabet, the last two among them.  The codes of
`MCCodes` are the first and last of each width, and `MCJunk` has a byte of each
kind.  The zones are one at Greenwich, one of which the kernel and the library
agree, one of which they do not, and one with summer time.

Deadlock checking is off in five runs.  `MCTimerLoop`: its loop ends and its
clock stops at `Horizon`.  `MCLogging`: its messages come to an end, and
descriptors that a race has lost are never closed.  `MCEscape` and `MCEscapeRefresh`: a text is
processed once.  `MCConversions`: what is no longer base64 or hexadecimal cannot
be decoded, and a text in UTF-8 is damaged once.  In all other runs there is
always a next step.

Fairness.  `TimerLoop` assumes weak fairness of each step of the loop, of the
clock and of the return of callbacks: the loop is a running thread, time goes
on, and a callback that never returns blocks any single-threaded loop.  Among the
steps of the loop are `LoopWait` and `LoopSleep`, so the delay between them is
finite, of any length.  Nothing
is assumed of what callbacks do otherwise; they may arm a timer with no period
whenever they run.  `Logging` assumes that a thread that has the mutex runs on;
nothing is assumed of who gets the mutex.
`FileIO` assumes that system calls are not interrupted, and do not write
nothing, for ever.

## Proofs

Each proof module extends the module it is about.  TLC evaluates the
assumptions they use in each run of that module: `NullAssumption` and
`ConfigAssumption` (`TimerMgr`), `SlackAssumption` (`TimerLoop`), `NodeAssumption`,
`PoolAssumption`, `LoggingAssumption`, `FileAssumption`, `TextAssumption`,
`DataAssumption` and `SecondAssumption`.

### `TimerProofs`

For every number of timers, capacity, depth of nesting, set of periods and
clock: `TypeCorrect`, `SizeCorrect`, `IteratorIsSafe`, `TimersDestroyedOnce`,
`KeysAreDistinct`, `CallbacksInOrder`, `CallbacksNotEarly`,
`CheckLeavesNoneDue`, and `ManagerImplementsService` (`Spec => ServiceSpec`).

The inductive invariant is `IInv == TypeInv /\ TreeOK /\ FramesOK /\
IteratorSafe /\ DestroyedOnce`.  The saved node is NULL because the loop node
is always the first of the tree, so its predecessor is NULL
(`FirstIsEarliest`).  `FramesOK` says so of a frame in the phase `loop`, which
is the top one; the frames below the top are inside user code, since the tree
changes under them.  That a finite tree has a first node (`FirstNode`, by
`LeastExists`) rests on `Before` being transitive and on `TreeOK`.
`DestroyedOnce`, that a timer has one owner, is needed for `TreeOK` when a
destroy function frees a timer.  The other properties follow from `IInv` with
one more invariant each.  `SizeCorrect` relates `size` to the cardinality of
the tree with the facts of `FiniteSetTheorems`; `TypeInv` leaves the lower bound
of `size` to it.  `CallbacksInOrder` uses `OrderInv`: no deadline in the tree is
before `lastFired`, from one step back of the clock to the next.  `CallbacksNotEarly` uses
`DeadlineInv`: a managed timer expires its period after its begin.
`KeysAreDistinct` needs that only adding a timer changes the times of one in
the tree (`KeysKept`).  The refinement follows action by action
(`ServiceStep`).

Of the event loop: `LoopNeverOversleeps`, for any word size, `Slack`, periods and
delays.  `LoopInv` adds to `IInv` that the loop waits and sleeps only outside a
call of check, so that nothing changes the tree, and that the wait fits
(`WaitFits`): with the slack it is no longer than what was left to the first
deadline when check read the clock.  Truncation only makes it shorter
(`WaitIsShort`, `SleepIsShort`).

### `RBTreeProofs`, `Recursion`

All seven properties of the tree, for any finite set of nodes and any keys:
`TreeTypes`, `AlwaysSearchTree`, `AlwaysRedBlack`, `NeverNullDeref`,
`TraversesInOrder`, `TreeImplementsSet` (`Spec => SetSpec`), and `RepairsClimb`
(`Spec => ClimbsOrEnds`).

The properties speak of walks along links (what can be reached from a node, the
nodes up to the root, the first node of a subtree), which are recursive functions.
The inductive invariant does without them: `RBInv` says that *some* labels exist,
`sub`, the members of each node's subtree, and `h`, its black height, with which
`StateOK` holds, and each condition of `StateOK` is about one node and its
neighbours.

- `Shape`: the subtree of a node is the node and those of its children, which are
  disjoint and on their sides of its key, and parent pointers agree.
- `Balanced`: the two sides of a node have the same black height, but for the link
  `Gap` of an erasure in progress, where a black node is missing.
- `Colours`: no red node has a red parent or is the root, but for the nodes in
  `Exempt`, the one that the loop is at.
- `LoopOK`: where the locals `node` and `parent` of the loops point.

That the walks in the properties compute what the labels say is proved once
(`ReachIs`, `AncestorsAre`, `ExtremeIs`, `NeighbourIs`, `InsertPointIs`), and so the
properties follow from `RBInv`.  `NoNullDeref` does because a sibling of a subtree
that lacks a black node has a positive height, so is a node.

`ClimbsOrEnds` is the variant of both loops: a subtree of a finite tree can only
grow so often.  An iteration that recolours goes on from the parent or grandparent,
whose subtree has the old one as a part (`InsertRecolourClimbs`,
`EraseRecolourClimbs`).  If a red sibling is rotated first, in the same iteration,
that leaves the subtree of `node` as it was, with the same parent
(`SiblingLeavesBelow`).  After the rotation of an insertion the parent is black
(`InsertRotateStep`).

For the steps, each operation first gets a lemma that says what fields it leaves
(`RotateFields`, `LinkNodeFields`, `UnlinkTopFields`, `UnlinkInnerFields`,
`ReplaceFields`), and then new labels.  `Turn` is the one lemma on rotations: from
the heights at the two nodes that trade places it gives the invariant after it.
The five cases of `uti_rb_insert_color` and `__rb_erase_color` that rotate use it
with different colours.  An erasure of a node with two children is shown to be two
simpler steps (`InnerIsBoth`): its successor, which has one child at most, is taken
out (`SpliceShape`), then it takes the place of the node (`SubstituteShape`);
`uti_rb_replace_node` is the second alone.

`Recursion` has what these proofs use in place of induction, stated about sets:
a nonempty family of finite sets has a minimal one (`MinimalSet`), a set with 0 and
closed under successor has all numbers (`NatInduct`), and the function that a
recursion along a walk that ends defines exists, has its type and is unique
(`FoldExists`, `FoldUnique`, `WalkExists`).  It has the sequences that
`FlattenSeq` joins as well, the same by induction on how many there are
(`FlattenAppend`, `JoinedMore`, `JoinedAt`).

### `MemPoolProofs`

All six properties of `MemPool`: `PoolTypes`, `NeverGivenTwice`,
`SearchesSevenBlocks`, `NoChunkLeaked`, `NothingReadAfterFree`,
`EachFileOneHandler`, for any sizes, alignment, chunks, files and length of the
chain; but `Disjoint`, and so `NeverGivenTwice`, is about pool sizes that are a
multiple of the alignment.  The inductive invariant is `Inv == PoolInv /\ FilesInv`.

`PoolInv` says that while the pool is in use it is `Fine`: `Shape`, `Owned` and
`ListsLive`.  `Shape` has two parts that the properties do not say.  `Search`
gives the exact count of a block from `current` on: a block has failed once for
each block added behind the one after it.  This is why a block is passed over
after six failures and the rest of the chain is seven blocks at most.  `Layout`
puts what is given out of a block between its header and its `last`; with a
`last` that is never beyond an aligned `Size`, the difference at
`uti_mem_mgr.c:210` does not wrap (`Aligned`, `Remainder`).  `Owned` pairs chunks
and list nodes, and `ListsLive` puts each node and the data of handlers in memory
of the pool.  While `uti_destroy_pool` frees, `FreesLarge` and `FreesBlocks` say
what is left at each position.  The lemmas follow the calls: what `Small` and
`uti_palloc_block` give (`Served`), what `Allocate` and `uti_pmemalign` give
(`Given`), what `uti_pool_cleanup_add` leaves (`Registered`), each of which keeps
the pool `Fine`; then one lemma for each action.

`FilesInv` is the reason why a descriptor number that is used again does no harm:
no two entries that close have the same descriptor, run or not, and a file is the
pool's exactly if one of them is ahead of the loop.

### `LoggingProofs`

`LogTypes`, `OneThreadInHandler`, `NoDescriptorLost` (`OneLogFile`),
`NoMessageLost` (`NoSilentLoss`), `FilesAlwaysBounded` (`FilesBounded`) and
`LoggingImplementsLog` (`Spec => LogSpec`), for any number of threads, messages
and descriptors.  `LogInv` is `BaseInv`, which holds with races, and, unless `raced`,
`OneFile` and `NotLost`.  `OneFile` says where the log file is at each place of the agent: in
`fileDesc`, in the register of the thread that has just opened it, or nowhere
between a close and the next open; without a race that thread is alone
(`MutualExclusion`, `Alone`).  `NotLost` says that a thread without a descriptor
behind an open was refused one, and that a message that was not refused is in a
file or on the console when its thread unlocks.

The last two hold with races too.  `WriteInv` is why a file gets no message when
it is full: while a thread is in the handler `fileDesc` only becomes NULL, since a
close is all that can meet it, and the descriptor that the thread goes on with is
not open on an older file (`Newest`) and, once the size is known, has room
(`HasRoom`).  Other code may have been given that number; then what is written
goes to no log.  The refinement needs `WayInv`: a message on its way is not in the
log yet and is on its way in one thread only, so each step adds one new message at
the end of the joined files, or none.  `SizeOf` and `FlattenSeq` are folds; what
one more message does to them is proved by `Recursion`.

### `FileIOProofs`

`FileTypes`, `BytesInOrder`, `ResultsMeanWhatTheySay`, for files and buffers of any
length.  `FileInv` adds to them how full the buffer is (`Filled`) and that a call
that still runs has room left and has not seen the end of a line (`Unfinished`).

### `EscapeProofs`

`NothingBehindBuffer` (`TypeOK`), `UnescapesInPlace`, `UnescapesCorrectly`
(`UnescapeCorrect`) and `EscapingUndone` (`RoundTrip`), for every text; but
`RoundTrip`, and so `EscapingUndone`, says nothing of a `NGX_ESCAPE_REFRESH` text with
a percent sign, which unescaping does not give back.
`EscapeInv` says that what was written is `Written`, the bytes read and what is
counted in them, and that the buffer is as long as `Written` of the whole text:
each byte adds `Growth` to both, and `Written` never decreases, so `d` stays in
the buffer.  The counts are the cardinalities of `Marked` and `Cells`, the
prefixes of the sets in `Counted`.  While unescaping, `InPlace` is inductive as it
stands.

What unescaping gives, `Unescaped`, is a recursion from the front of the text, and
the loop builds its result from the front too.  `UnescInv` joins the two: what is
in the buffer, followed by what the part not yet read gives, is what the whole text
gives.  A quotation that is being read counts as not read, because a byte that
breaks it puts it back; that is what `Pending` is for.  `RoundInv` says that what is
written is the escaped bytes read so far, one after the other (`EscapedText`).  Each
escaped byte is unescaped by itself, whatever follows it (`OneByteBack`), so by
induction on how many are read a text comes back (`BytesBack`), and a redirect gets
back its path up to the question mark (`PathBack`).

### `ConversionProofs`

`Base64Decodes` and `HexReads`: decoding succeeds and gives the encoded bytes back,
for every byte string; `BytesAreKept` (`BytesKept`), by `BytesInv`, that every form
is an encoding of the first data; `TimesAlwaysAgree` (`TimesAgree`), by `TimeInv`,
for every zone and every set of hours that summer time may add; `DecodesCharacter`, that
`ngx_utf8_decode` gives every character of two to four bytes back and the place
behind it; and `Utf8IsCorrect` (`Utf8Correct`), by `Utf8Inv`, that a text is the
bytes of its characters until it is damaged.  The arithmetic of one group of base64,
one byte of hexadecimal and one character is proved apart (`Base64Inverse`,
`HexInverse` and the lemmas on digits) and then used at every position.  The
microseconds of a converted time are what C's division, which rounds towards zero,
leaves of it (`Rounded`).

For bytes that are no text, `DecodeBounds` follows `ngx_utf8_decode` through each of
its returns: a code that is greater than `Shorter` of its first byte is as wide as its
sequence.  The loops of `ngx_utf8_length` and `ngx_utf8_cpystrn` walk along the
memory, and each of their recursive functions exists because every step goes up
(`CountExists`, `CopyExists`).  From the beginning of a character (`Start`) one step
goes to the beginning of the next and counts one (`CharacterCounts`) or copies its
bytes (`CharacterCopied`, `CopyGoesOn`), and induction over the characters gives the
length (`TextLength`) and the copy (`TextCopied`).

### Only model-checked

Every invariant and every refinement that a run checks is proved.  Liveness under
fairness is out of the provers' reach and is only checked: `EventuallyFired`,
`MutexReleased`, `Returns`.  That the repairs of the tree end is not among them: it
is proved as `ClimbsOrEnds`, an action property.

## Disagreements between code and comments

- `uti_timer.h:25` calls `msElapse` "micro seconds"; `uti_timer.c:244` takes
  milliseconds (`timer_units`).
- `uti_timer.c:70` promises the first timer with an expiry; the search returns
  the one nearest to the root (`rbtree_search`).  No caller depends on it.
- `uti_string.c:489` lists `%` among what `NGX_ESCAPE_REFRESH` escapes; its table
  (`:495`) does not have it (`escape_refresh`).  `RoundTrip` asks for texts without
  one.
- `uti_string.c:429` leaves `;` out of what `NGX_ESCAPE_ARGS` escapes; its table
  has it.
- `uti_string.c:80` says that `hex2ch` returns -1 for an error; as a `u_char`
  this is 255.  `str2buf` tests the first digit of a pair for it and not the
  second.

Not contradicted by a comment, but worth knowing; the properties are stated
around them:

- `ngx_utf8_decode` takes any byte from 128 on for one that continues a
  character, also one that begins another.
- `uti_convert_time_t` gives the time that a clock without `tz_minuteswest` would
  show, `uti_get_time_t` that of the C library's zone: they are the same only
  where the two agree.  `uti_convert_time_s` leaves `tm_isdst` uninitialised, so
  with summer time its result may be an hour wrong.  `uti_convert_time_t` rounds
  towards zero, so the microseconds of a time before the epoch may be negative.
  `TimesAgree` says how far each of these can take the two forms apart.
- A pool whose size is not a multiple of the alignment: the room left in a block
  is an unsigned difference (`uti_mem_mgr.c:210`), which wraps around when the
  aligned address is beyond the end, and the allocation leaves the block.
- A check with a destroy function frees the timer after its callback
  (`uti_timer.c:317`), also if the callback has added it again.  The clients of
  `TimerMgr` do not do that.
- A message of which the system takes only a part counts as written
  (`uti_file.c:94`).
- A client that resets a pool with a cleanup registered leaves the list in memory
  that is given out again.

## Not modelled

- Of strings: `cstring_create`, `cstring_create_s` and `cstring_destory`, one
  `malloc` or `free` each.
- Of logging: the construction of the text (messages fit in the buffer), a
  second `log_sys_init`, two files of the same name.
- Of the pool: a handler that registers a cleanup while `uti_destroy_pool` runs
  handlers (the new one is in front of the loop and never runs), a reset with a
  cleanup registered, and the unlink of `uti_pool_delete_file`.
- `uti_thread.c`: one pthread call per function.  `platform.c` but for `os_sleep`, which
  is in `TimerLoop`, `uti_common`,
  `uti_errno.h`, `uti_buff.h`: types, macros and thin system calls.
- The contents of memory, log texts, the arguments of callbacks, and a timer
  with no callback (it behaves as one whose callback does nothing).
- The overflow of `I64` times, hundreds of thousands of years away, and the
  calendar itself: `gmtime_r`, `localtime_r` and `mktime` are the C library's.

## Plan

Done: all the modules and proofs above.  What would add most next:

1. Variants for the loops that only the liveness runs say end (the transfer
   functions, a thread that has the mutex), as `ClimbsOrEnds` is one for the repairs
   of the tree.
2. The composition of pool and logging over the same descriptors, where a
   descriptor lost by a race of `file_log_close` is one that a pool closes.
