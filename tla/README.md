# A TLA+ model of lvm3

lvm3 is a rewrite of LVM2's core libraries in C. What is built today is a library:
an io manager that caches blocks of block devices (`io/`), and the data structures
and helpers under it (`base/`). The application prints a greeting; the thin
provisioning of `doc/` is a design without code.

This directory holds TLA+ modules translated from that source, TLC configurations
that check them on small instances, and proofs for TLAPS. `PROJECT.json` lists, for
every definition, the lines it stands for, for every run its properties, and for
every property a mutant of the code (an operator such as `Waiting_once`, defined next
to the one it replaces) that the run finds.

    tlc -workers 2 -config BlockCacheCore.cfg MCBlockCache
    tlapm BlockCacheSafety.tla

## 1. The system

Everything runs in one thread. What is concurrent is the io: an engine accepts any
number of ios, the kernel performs them in any order, and their completions are
handed to a callback only inside the engine's `wait`. So calls do not interleave
with each other, but every call that waits interleaves with the completions of ios
that earlier calls issued.

| component | state | operations | status |
|---|---|---|---|
| **block cache** `io/io-manager.c` 742-775, 1078-2014 | frames (`struct block`: dirty sectors, references, io count, error), five lists of frames, the block tree, three counters | `io_get_block_mask`, `io_put_block`, `io_prefetch_block`, `io_flush`, `io_invalidate_block`, `_dev`, `_all`, `io_manager_destroy`, `_complete_io` | `BlockCache` |
| **device table** `io/io-manager.c` 711-740, 777-1076 | open devices with holder and block counts, a tree by path, an lru list, the number open | `io_get_dev` (open, upgrade, evict another), `io_put_dev`, `_invalidate_dev`, the counts kept by the block tree | `DevTable` |
| **io engines** `io/io-manager.c` 25-690 | control blocks and what the kernel does with each, completed fallback ios | `issue` and `wait` of the async, test and sync engines | `Engine`, contract `IoEngine` |
| **list** `base/data-struct/list.c` | next and previous pointers | init, add, del, move, splice, empty | `List` |
| **io processor** `io/io-processor.c` | queued jobs, the batch, one buffer | add, exec, destroy; two callbacks | `IoProcessor`, contract `JobQueue` |
| **byte ranges** `io/io-manager-utils.c` | none of its own | prefetch, read, write, zero, set bytes, over blocks of the cache | `ByteRanges` |
| **io manager** `io/io-manager.c` as a whole | the block cache and the device table, which keep each other alive | all of the above, for clients that hold devices and blocks | `IoManager` |
| **range set** `base/data-struct/range-set.c` | a tree of attributes, each with a tree of ranges | add, lookup, destroy | `RangeSet` |
| **radix tree** `base/data-struct/radix-tree-adaptive.c` | values, value chains, prefix chains, nodes of 4, 16, 48, 256 entries; the number of values | insert, remove, remove prefix, lookup, iterate, destroy | `RadixTree`, contract `RadixMap` |
| **bit set** `base/data-struct/bitset.c` | words | set operations, first, next, last | not built by `Makefile.in` |
| **strings** `base/string/` | - | parsing and formatting helpers | not modelled |
| **threads** `base/concurrency/` | - | a sketch that does not compile, not built | not modelled |

How they interact: a client gets a device from the table and blocks of it from the
cache. The cache looks a block up in a radix tree keyed by device index and block; a
miss takes a frame from the free list, or a clean frame nobody holds, and issues a
read; an eviction removes the tree entry, whose destructor lowers the device's block
count, which may close the device. A get, put, flush or invalidate issues writes of
the dirty sectors and waits until the engine has completed them; `_complete_io`
moves the frame to the clean or the errored list. Opening a device exclusively, and
opening one when the table is full, invalidate the cached blocks of a device, which
may write and wait. The byte operations get and put the blocks a range covers, one
after the other. The io processor reads through the byte operations and calls the
client back, which may call it again.

What is hard, and which property each part stands or falls with:

* *Block cache.* Dirty data lives only in a frame, while the frame moves between
  five lists driven by calls and by completions in any order. `NoLostWrite`: no
  path loses it. `HoldersSeeData`: no path hands out a frame that was not read.
  `OneFramePerBlock`, `ListsOK`: tree, lists and frames agree.
  `HeldNotInFlight`, `NoConcurrentWrites`: no io races with a client or another io.
  `FlushTruth`, `InvalidateTruth`, `DestroySaves`: no call claims more than it did.
* *Device table.* A device lives as long as it has holders or blocks, and is
  opened again under its users. `RefCountsTrack`, `TableOK`, `AccessGranted`,
  `ExclusiveStartsEmpty`, `ClosesLeastRecentlyUsed`.
* *Both together.* `io_get_dev` waits for writebacks in the middle of closing a
  device. `ImplementsDevTable`: seen from the clients, the wait changes nothing.
  `DevicesStayOpen`: no block and no io outlives its device. `CallReturns`: no call
  waits for ever.
* *Engines.* Some ios complete inside `issue`, others in the kernel; both are
  handed out by `wait`. `ImplementsIoEngine`, `CbsOK`, `ResultTruth`.
* *Io processor.* Callbacks change the list that is being walked and the buffer.
  `ImplementsJobQueue`: every job is reported once, and exec returns. `InOrder`,
  `PrefetchBudget`, `ResourcesOK`.
* *Byte ranges.* Offsets, lengths and masks of partial blocks. `UpdateExact` and
  `ReadExact`: the right bytes. `CacheInvisible`: a mask leaves out no sector.
  `OnlyTouchedDirty`: no write that is not needed.
* *Radix tree.* Keys that are prefixes of others, chains that are split and
  joined, nodes that grow and shrink. `ImplementsRadixMap`: what was inserted is
  found, and what is removed is handed to the destructor once. `WellFormed`,
  `IterateExact`; `SizeTruth`, which fails (section 5).
* *Range set.* Ranges are merged in a tree that is ordered by them. `RangesExact`:
  nothing is lost or gained. `LookupTruth`, `InOrderWalkCovers`: what is there is
  found.

The full list, at the lines where each can go wrong, is "hazards" in `PROJECT.json`.

## 2. The modules

    List <- BlockCache <- MCBlockCache      IoEngine <- Engine <- MCEngine
      ^         ^                                         ^
    ListProofs <- BlockCacheSafety <- BlockCacheData     EngineProofs

    BlockCache, DevTable <- IoManager <- MCIoManager
                             ^     ^
                             |   IoManagerTests <- MCIoManagerTests
                             |     ^
                             |   IoManagerScripts
    BlockCacheData, DevTableProofs <- IoManagerProofs

    DevTable <- MCDevTable    JobQueue <- IoProcessor <- MCIoProcessor    ByteRanges
       ^                                       ^                               ^
    DevTableProofs (and ListProofs)    IoProcessorProofs             ByteRangesProofs

    RadixMap <- RadixTree <- MCRadixTree        RangeSet <- MCRangeSet

`IoEngine`, `JobQueue` and `RadixMap` are abstract specifications; `Engine`,
`IoProcessor` and `RadixTree` implement them through the refinement mappings
`Contract`, `Queue` and `Map` at their ends. `IoManager` composes `BlockCache` and
`DevTable`, and implements the latter through `Table`. `BlockCache` assumes of its
engine what `IoEngine` says.

### List

The lists are kept as pointers, because `list_del` leaves those of the deleted
element alone: deleting an element twice rewrites links of lists it left long ago,
and the code does that (see 5, flush).

### BlockCache

State: `lists`, `blocks` (the `struct block`s), `rtree`, the three counters,
`inflight` (what the engine has accepted and not completed) and `call`, the call in
progress: its `pc` names the loop the code is in. A client action starts a call;
`Step` is the rest. A loop in which nothing can interfere is one step per turn;
`Completion` is enabled in the four places that call `engine->wait`, and `batch`
records that the wait has delivered something and may return.

Data is abstracted to which sectors are right (`good`, `unsaved`, `wmask`): a read
makes a frame good where the disk has the last data, a write saves the sectors that
are good, a client that holds a frame for writing makes its sectors unsaved. These
three variables are the model's, not the code's, and no guard of an action of the
code reads them.

Constants that scale the code down: `NrCacheBlocks`; `Low` and `High`, the
thresholds of preemptive writeback, which the code computes as percentages of the
cache; `WritebackBatch`, the 16 blocks a get writes back when no frame is clean;
`Width`, at which unsigned counters wrap.

What the clients do. `Ops` are the calls a run makes, `GetModes` the arguments of a
get. `MaxHeld` bounds the blocks held, so that no other is asked for while every
frame is, because `_new_block` waits for ever once every frame is held. `QuietOps`
are calls made only while no client could notice a difference: flush and destroy
while no dirty block is held, invalidate_dev while nothing is, invalidate_all while
nothing is cached. The code does not keep its promises otherwise (section 5), and the
passing runs say what it does keep.

Ios fail as `Faults` says: `"read"` and `"write"` by completing with an error,
`"issue"` and `"full"` by being refused. `"full"` is an engine whose control blocks are
used up: of several runs it takes the first ones, or none. `"issue"` is any refusal. The
async engine can do that too, when an unaligned run, which needs no control block, comes
after an aligned one, or a submission fails. Both go wrong when a writeback is of several
runs (section 5): `"full"` leaves `nr_io_pending` wrong, `"issue"` fails an assert as well.

Left out: failures of malloc and of `io_getevents`, statistics, and zero modes with
a mask that leaves sectors out (section 5). `debug_`, logging and `io_data`
accessors have no state.

### DevTable

Every call is one step, its waits included. Frames carry only what matters to
devices: the device, whether they are still in the block tree, dirty, held. All
state of the manager is one record, so that `_dec_holders`, `_dec_blocks`,
`_invalidate_dev` and `_dev_maybe_close`, which call each other, are operators from
one such record to the next. Memory is explicit: `Idevs` are addresses, which are
used again after a free, so a dangling reference is one to a `Closed` device.

`recent` is the model's: the pairs of paths of open devices of which the second was
got last (and every path with itself). It is what the lru list has to agree with.

Clients put the blocks of a device before the device, and invalidate a device only
while they hold no block of it. `Faults` chooses what fails: opening, writing a
block, and `renamed`, a path that leads to another device when it is opened again.
A block may enter the cache when there is a frame for it and leave it when it is
clean and not held; which block that is, and when, is left to `BlockCache`.

### IoManager

The two together, and the place where the one-step calls of `DevTable` are paid for.
`table` is the state of the device table without the frames; every step of the block
cache is followed by what it does to the block counts (`Recounted`), because in the
code the destructor of a tree entry does that. `io_get_dev` is a step when it need
not wait. When it must empty a device first, it starts the loop of
`_invalidate_dev` (`io_get_dev_waits`), completions are delivered while it runs, and
`io_get_dev_opens` closes the device and opens the other; `getting` remembers the
call and the table as it was before. Clients use blocks through the devices they
hold, and put the blocks of a device before they put the device. So nothing is held when
they destroy the manager, which they do when they hold no device: `QuietOps` takes no
behaviour from it.

The mapping `Table` gives every frame in the block tree its device, dirtiness and
holder, and shows the table as it was before the call as long as `io_get_dev` waits:
all of the call happens when it returns. So `ImplementsDevTable` says that what
`DevTable` does in a step is what the code does in many, with the evictions, reads
and writebacks of other calls before it and completions during it: a block read by a
prefetch that nobody waited for, a device closed by the eviction of its last block,
a device that is emptied block by block, each is a step of `DevTable` or none.

### IoManagerScripts and IoManagerTests

The unit tests of the io manager, run on `IoManager` as the code under test, with
their own sizes. `IoManagerScripts` holds 53 tests, as sequences of expectations and
calls; `IoManagerTests` the mock engine, which checks every call the model makes of
the engine (open, close, issue with its sectors, wait, destroy) against the queue of
expectations and completes ios in the order of issue. The only difference is that
`_cycle` uses 4 devices where the C test has 256. `test_get_max_cache_devs` reads a
constant and has no script. This is what ties the model to the code's behaviour
rather than to its text.

### IoEngine and Engine

`IoEngine` is what the cache relies on: an io accepted by `issue` is completed once,
a refused one never, and who waits for an io gets it. `Engine` is all three engines,
the kind chosen in `Init`; `pending` of the contract is mapped to the ios of
allocated control blocks and the queued fallbacks (`Pending`). The kernel is
external: it completes an iocb fully, partly or with an error, at any time. Sizes
are scaled: `IntWidth` for the `int` that holds the result of `lseek`, `DeviceEnd`,
`NrBytes`, `Cbs` for the 256 control blocks.

### JobQueue and IoProcessor

`JobQueue` is the promise: a job that was accepted is reported to one of the two
callbacks, once, and exec returns when none is left. In `IoProcessor`, each turn of
the two loops of `_batch` is cut where it calls out: the device is got (or not), the
range is prefetched or read, a callback runs and returns. `list_iterate_items_safe`
takes the successor of an element before the body of the loop runs (`After`), which
is what lets a callback add to the list. Client code runs between calls and in the
callbacks (`InClient`), where it may add jobs but does not call exec or destroy:
`_batch` unlinks and frees the job it reports only after the callback has returned,
so a nested exec would run it again. `accepted`, `tasks` and `report` record what
the client saw; no guard of the code's actions reads them. The `processor_ops`,
implemented on top of the io manager, are external but for devices that cannot be
had and reads that fail.

### ByteRanges

The operations of `io-manager-utils.c`, a step for each block they get. Beneath them
is a block cache with the behaviour `BlockCache` is checked for, and nothing more: a
block got holds the last data, writeback saves the dirty sectors and no others, and
clean blocks are evicted at any time. Bytes have values that tell every one from
every other, so that one that lands in the wrong place shows.

A get that fails has changed nothing, or, when it fails because the last writeback of a
block failed, has marked the sectors of the mask and zeroed the block if it was to
(`GetFails`): the cache looks at the error last. So an update that fails leaves a
prefix of its range done, and perhaps one block after it zeroed, which is what
`UpdateExact` says. Ranges stay within the device. `_region_to_mask` of no bytes in the
middle of a sector marks that sector, so that an update of no bytes writes a sector:
harmless, and `OnlyTouchedDirty` leaves calls of no bytes out.

### RangeSet

A tree of attributes, each with a tree of ranges, with the same two comparisons for
going left and right in lookups and in insertions. `added` is the set of values each
attribute was added to, and `latest` says whether ranges were added in order; they
are the model's.

### RadixMap and RadixTree

`RadixMap` is the interface: a map from sequences of bytes to values. `RadixTree` is
`radix-tree-adaptive.c`. The tree is a value and not a memory: every pointer to a
node has one owner, and no call leaves one behind. A call is a step, because nothing
else runs while it does; the destructor is called in the order of `_free_node` and
does not look at the tree. `_lookup_prefix`, `_remove` and `_remove_subtree` go down
in the same way, so `Descends`, `Child` and `Rest` are written once, and so are the
four sizes of node, which differ in how a byte finds its place (`Slot`). `_insert`
starts at the node where the lookup ends (`InsertBelow`). Entries keep their places,
and unused places are `UNSET` or stale as in the code, because the next insert
builds on what it finds there.

`found` is the result of a lookup of every key, kept as a variable so that the
refinement mapping need not look every key up again for each candidate step; and the
guard of `radix_tree_insert` reads it, when `RewriteChains` is `FALSE`, to leave out
the one call that goes wrong (section 5). Sizes are scaled to 2, 3, 4 and 5 entries.
Every value names its key, so that one found under another key shows.

Left out: memory that runs out (the code says that an insert which fails damages the
tree), and visitors that end an iteration early. The branch of
`_insert_prefix_chain` for a chain of length 0 is not in the model, because there is
no such chain (`WellFormed`); `_insert_value_chain` is, though a lookup never ends
at a value chain with a part of the key left.

`BlockCache` and `DevTable` have maps in place of this tree. The keys of blocks have
one length, so that none is a prefix of another. Device paths are (`/dev/sda`,
`/dev/sda1`), but `_new_dev` inserts a path only when the tree does not have it, so
neither makes the call that goes wrong.

## 3. What the runs check

| run | instance | shows |
|---|---|---|
| `BlockCacheCore` | 2 frames of 2 sectors, both held at times, 3 blocks, 2 devices, all calls, no faults; 962 000 states | the structure of the cache, its counters, ios and clients apart |
| `BlockCacheFaults` | 2 frames of 3 sectors, of which clients write the outer two, both held at times, 3 blocks; an engine that runs out of control blocks, reads and writes that fail; 2 395 000 states up to symmetry | what is not written stays cached and dirty; flush, invalidate and destroy say so when they failed; no assert fails, and every io is of its own block |
| `DevTable` | 3 paths, 2 may be open, 3 holders, 3 frames, opens that fail; 116 000 states up to symmetry | counts, table, rights |
| `IoManager` | 2 paths, 1 may be open, 2 holders, 2 frames of 1 sector, 3 blocks, opens that fail, fair engine; 480 000 states | the composition implements `DevTable`, and every call returns |
| `IoManagerTests` | 16 frames of 64 sectors, 4 of 65 devices open, each test a behaviour; 3 100 states | the model does what the tests expect of the code |
| `Engine` | 5 ios, 2 control blocks, all kinds, all faults; 73 000 states | the engines implement the contract |
| `IoProcessor` | 4 jobs: one of no bytes, one that fills a batch alone; batches of 2 blocks, all faults; 14 000 states | every job once, in order, in a buffer it fits |
| `ByteRanges` | 4 blocks of 2 sectors of 2 bytes, every range, every operation, gets that fail, before or after they have zeroed the block; 257 000 states | the right bytes, none lost |
| `RadixTree` | 8 keys of 1 to 3 bytes, 6 prefixes, two keys with a choice of values; 43 000 states | the tree is a well formed map |
| `RangeSet` | 3 attributes, ranges of up to 1, 5 and 2 values; 77 000 states, all there are | nothing lost, everything found |
| the two others | as small as shows it | section 5 |

*Why the bounds are enough.* With two frames and three blocks every get can meet a
free, a clean, a dirty, a pending and a held frame and an eviction is forced. Two
sectors tell a block that is partly dirty from one that is dirty or clean; of three, the
outer two make a writeback of two ios, of which either may fail and the second, or both,
be refused.
The three blocks of `BlockCacheFaults` are of one device and alike, and it checks no
liveness, so that states which differ only by a permutation of the blocks are one
(`MCAlike`). In `IoManager` one of two paths may be open, so that every open of the other
evicts, and two holders are enough for a concurrent one; in `DevTable` two of three paths
open make the table full, and three holders allow two holders of one device beside
another. Two control blocks are exhausted by three aligned ios. Counters wrap at 4,
above the number of frames, so that one that goes below zero shows. A batch of two
blocks is filled exactly, left short, and exceeded by the four jobs. Four blocks of
two sectors of two bytes give a range a partial block, two whole ones and a partial
one, and ends in the middle of a sector and of a block; one call (`MaxCalls`) is
enough, because it starts from a cache whose blocks are dirty, clean, absent or any
mix of them. Five keys of one byte take a node through all sizes, up and down, and
the longer ones below the first of them make value chains, prefix chains that are
split in front, in the middle and at the end of a key, and nodes below nodes. Trees
of ranges of up to five values have ranges that grow over those on both sides of
them and below them; additions need no bound, because a tree grows only as long as
there are values outside its ranges.

*Deadlock* is checked, except in the runs whose system really stops: with failing
writes, a get can wait for io when none is in flight and nothing can be written
(`_new_block` loops around `wait`; the code would sleep in `io_getevents`).
`ByteRanges` stops when its one call is made and all is written and evicted.

*Fairness.* `MFairSpec` of the io manager is weak fairness of the steps of a call:
code that was called runs on, and the engine completes what it accepted, which is
what `IoEngine` demands. In `Engine`, a call runs on, the kernel completes every
iocb, and a client that waits for an io keeps calling `wait`, as `_wait_specific`
does. In `IoProcessor` code that was called runs on, callbacks included. Clients are
never assumed to call anything.

## 4. What is proved

### BlockCache

`BlockCacheSafety!TypeCorrect`: `Spec => []TypeOK` for every number of frames,
sectors and keys, every choice of calls, and all faults. It needs only the
assumptions `SizeAssumption`, `KeyAssumption`, `ClientAssumption`,
`FaultAssumption`. `TypeOK` is nearly inductive as it stands; the strengthening adds
that the frame of a call is a frame wherever the code dereferences it, and that the
runs of one writeback are finitely many, so that `io_count` is a number.

`BlockCacheSafety` also proves, of the same instances, that a held block is never in
flight (`HeldNeverInFlight`), that no assert fails and no walk leaves its list
(`NeverAborts`), and that a block is in flight once at most (`WritesNeverOverlap`).
It assumes `QuietClients`: flush, destroy, `io_invalidate_dev` and
`io_invalidate_all` only while nobody could notice a difference (`QuietOps`), and an
engine that refuses no run before one it takes (`"issue" \notin Faults`). It may refuse
all runs of a writeback. Neither is true of every client and every engine: without the
second `NeverAborts` is false of the code, and section 5 says what goes wrong without
either. `WritesNeverOverlap` assumes `TreeStays` as well: no
`io_invalidate_dev` where ios may fail, because it drops blocks from the tree that a
failed writeback left in their frames.

The invariant, `SafeInv`, says where every frame is. The lists are pointers, and a
statement about a list would be one about a walk along them, which cannot be proved
by induction here. So the invariant says that there are labels (`Chained`, in
`ListProofs`): `on[x]`, the head of the list node x is on, and `pos[x]`, a number
that grows along every list; `out` is the frame between `_alloc_block` and the list
it goes to. Links are mutual and keep the label, so that a list whose head points to
itself is empty (`EmptyChained`), a walk that starts on a list stays on it, and an
element deleted twice does no harm; `DelChained`, `MoveChained` and `SpliceChained` say
how each list operation changes the labels. Beside that

* `HandOK`: when a frame is out, and that deleting it again changes nothing, because
  `_issue` moves a frame that has been deleted already;
* `FramesOK`: a frame is on `io_pending` when it is pending, a held frame is on clean
  or dirty and has no error, and a frame on clean is clean;
* `IosOK`: `io_count` is the number of ios in flight, which are those of one `_issue`
  and share no sector (`RunsDisjoint`);
* `PlaceOK`: what the code knows in each loop, which is what the guards before it
  established and no completion since can have taken away;
* `TreeOK`: the tree maps a block to the one frame that holds it.

`BlockCacheData` proves that no write is lost (`WritesAreKept`), that a holder sees
the last data of its block (`HeldDataIsGood`), and that `io_flush` and
`io_invalidate_block` tell the truth (`FlushTells`, `InvalidateTells`), all with
reads and writebacks that fail and writebacks the engine takes in part. `DataClients`
assumes `QuietClients`; `TreeStays`, because invalidating a device loses writes that
failed; and that GF_ZERO is given whole blocks, and only where no writeback fails
(all in section 5). So the theorems cover the instances of `BlockCacheFaults` and
`BlockCacheCore`, and the calls of `io_invalidate_dev` in the latter.

`DataInv` adds to `SafeInv` what the state of a frame says of its data (`DataOf`).
What is unsaved is dirty, always. A frame with dirty sectors, or with neither io nor
error, has all of the data: a partial write leaves the rest of the block as it was
read. A read is only ever pending or failed on a clean frame. A frame whose writeback
is pending without an error has an io in flight for every unsaved sector (`Covered`),
so that a writeback which completes without an error has saved them all, and clearing
the dirty bits is right. That needs that the runs `_issue` cuts the dirty sectors into leave
none out (`RunsCover`), by the least element of a set of numbers (`LeastNatural`).

It also proves the properties that are stated in the terms of the code, by
walks along the pointers: `ListsInOrder` (`ListsOK`), `OneFrameForABlock`
(`OneFramePerBlock`), `DestroyLosesNothing` (`DestroySaves`) and `CountersRight`
(`CountersOK`). `MembersChained` says that a walk from the head of a list reaches
exactly the nodes with its label: it comes back to the head, because `pos` grows and
there are only so many frames (the pigeonhole principle), and the node of least `pos`
it left out would come after one that it visited.
`CountersRight` assumes `RefusedOnce`: the engine refuses no ios, or clients write whole
blocks, so that every writeback is one io. Then the dirty sectors of a block are all or none
(`WholeOK`), and a writeback is refused once at most. Where a writeback is several ios the
theorem is false of the code (section 5).
`ListsInOrder` and `CountersRight` assume `QuietClients` and `FlushesWork`, that is, no
flush or destroy in an instance where a prefetch may fail, which leaves a clean block
on the errored list and then a write of no sectors (section 5). `OneFrameForABlock` assumes
`QuietClients` and `TreeStays`, `DestroyLosesNothing` `DataClients`.

The counters wrap, so `nr_locked = Cardinality(Held)` is not preserved by a step that
subtracts one from it unless they are known to stay below the width: they count frames,
of which there are fewer (`Unwrapped`). `CountOK` counts the frames marked as pending;
`CountersOK`, those in flight, is the same between the steps of `_issue`, by `IosOK`.

### Engine

`EngineProofs`: for any set of ios, control blocks, sizes and faults, and all three
engines, the safety invariants of the run `Engine` and the safety half of its
refinement, from `IoAssumption` and `EngineAssumption`:

* `TypeCorrect`, `ControlBlocks` (`CbsOK`), `Truth` (`ResultTruth`);
* `ImplementsSteps`: the initial state is one of `IoEngine`, and every step is a
  step of `IoEngine` or changes nothing the client sees.

None of these is inductive alone. `IInv` adds what they rest on: an io is in one
place (`OnePlace`), a control block or the queue of fallbacks, and there once, so
that completing it removes it from `Pending`; the kernel is done with an iocb only
once it has moved its bytes or failed (`DoneIsMoved`); an io that is pending has no
result yet (`NoResultYet`); the events `_async_wait_` has taken from the kernel are
of iocbs the kernel has done (`BatchDone`); and the io of a call is one that was not
issued before (`CallOK`). `Invariance` has one lemma for each action.

### Device table

`DevTableProofs` proves the five properties of `DevTable`, for every number of paths,
addresses, holders and frames and any limit. Each takes the faults under which the
code keeps it, and section 5 says what happens under the others:

* `TableKept` (`TableOK`), `ExclusiveIsEmpty` (`ExclusiveStartsEmpty`) and
  `ClosesOldest` (`ClosesLeastRecentlyUsed`): opens and writes may fail, and paths lead
  where they led (`"renamed" \notin Faults`).
* `CountsTrack` (`RefCountsTrack`) and `RightsGranted` (`AccessGranted`): only opens
  fail, because a failed writeback leaves a frame that is not in the tree any more and
  that no device counts.

`IInv` says of the manager that its tree, its lru list and its count of open devices
agree (`TableIn`), that a device counts its blocks in the tree (`CountedIn`) and the
handles that clients have of it (`HoldersOK`), that none is open with both counts at
zero (`InUse`), that a held block has a held device (`HeldOK`), and that the lru list
is in the order of `recent` (`RecentOK`). `FullInv` adds, for the last two theorems, that
every frame in use is in the tree (`AllInTree`) and who was promised what
(`HandlesGranted`, `DirtyWritable`). All of it is needed at once: a device may be freed
under a holder only if its counts are wrong, the counts stay right only if a device
that closes has no frame, and the victim of an eviction is the oldest only if no device
is on the list twice.

`io_get_dev` goes through up to five changes of the table in one step, so the lemmas
follow the functions of the code, which take a manager to a manager: `Closes`,
`DecHolders`, `DecBlocks`, `Invalidated` (several frames leave at once, so the counts are
by cardinality, `CountedAgain`), `Opening`, `VictimIs`, `NewDev`, `GivesUp`, `StartsAgain`.
`Effect(m, r, e, path, flags)` is what all paths through it have in common, seen from
outside: what happens to the holders, the open devices, the lru list, the frames,
the flags, and which devices may have closed. `Kept(m, r)` is the same for the calls that
get no device. Invariance is proved from these two alone. `DevAssumption` is all that is
assumed of the constants.

### IoManager

`IoManagerProofs` proves of the composition, for any number of frames, blocks, paths,
addresses and holders and any `max_cache_devs`:

* `DeviceTableImplemented` (`ImplementsDevTable`): every behaviour of `MSpec` is one of
  `DevTable`, through the mapping `Table`;
* `BlocksKeepDevicesOpen` (`DevicesStayOpen`);
* `TablePromisesKept`: the five properties proved of `DevTable` hold of the table of
  the composition;
* `CachePromisesKept`: so do the invariants of `BlockCache` that speak of the code alone
  (`HeldNotInFlight`, `NoAbort`, `NoConcurrentWrites`, `OneFramePerBlock`, `ListsOK`,
  `CountersOK`);
* `DevicesLoseNoWrite`: and those about data, `NoLostWrite`, `HoldersSeeData`,
  `FlushTruth`, `InvalidateTruth` and `DestroySaves`.

The last two are more than the theorems of `BlockCache` say: `io_get_dev` starts the loop
of `_invalidate_dev` while clients hold blocks of other devices, where the
`io_invalidate_dev` of the quiet instances waits until no block is held. Every other step
is one of `BlockCache` (`CacheSteps`).

All assume `OnlyOpensFail`: `QuietClients`, no io fails, and of the faults of the table
only opens that fail. With a failed writeback the second is not true: the block of a device
that is emptied stays on the errored list when the device closes (section 5).
`DevicesLoseNoWrite` assumes `DataClients` too, for GF_ZERO. Of the constants all assume
`TableAssumption`, `PathAssumption` and what `BlockCache` does.

The invariant, `MInv`, is that of the two parts, `SafeInv` and, of the mapped table,
`Dev!FullInv`, and what ties them together:

* `GetWaits`: the loop of `_invalidate_dev` that a waiting `io_get_dev` runs is over the
  device it found when it started, which is the victim of an eviction (`FoundNoRoom`) or
  the device of the path, to be opened again for its only holder (`MustReopen`). The
  table has not changed since, but for that holder: completions take no block from the
  tree, and the blocks of the device leave it all at once when the loop is done;
* `GetHolds`: a get or prefetch that runs is for a block of a device some client holds,
  with the right to write when it asks for that, so the device is there when its block
  enters the tree, however many turns of the loop of `_new_block` that takes;
* `CachedOpen`: a block in the tree has a device in the device tree; which, with
  `SafeInv`, is what `DevicesStayOpen` says of frames and ios;
* `CallsOpen` and `PlacesOpen`: what the other calls know of devices, and what `wait_block`,
  `finish_get` and `wait_written` know of the block they have.

TLC checked each of these on the instance of `IoManager`, and with `"invalidate_dev"`
and `"invalidate_all"` in its `Ops`, before they were proved. None of the parts is
inductive without the others: that a block which enters the tree is counted for an
open device needs `GetHolds`; that a device is closed only when nothing of it is cached
needs the counts of `FullInv`; and that the counts are right needs `SafeInv`, which says
what a step takes from the tree: one block (`OneLeaves`), or those of one device.

The proof has one lemma for each kind of step. Most steps of the block cache change
neither which blocks are cached nor which are held or dirty, and are stutters of the
table. A get (`hit`, `miss`), a put, a completed writeback (`written`) and a block that
leaves the tree (`evicted`) are a step of it each. The end of `_invalidate_dev` is
`io_invalidate_dev` of the table, or, when an `io_get_dev` waits, all of `io_get_dev`: the
table does in one step what the code did since the call began, because all it could
see in between were writebacks that completed.

### Io processor

`IoProcessorProofs`: for any set of jobs, whatever their lengths, the blocks they cover
and what the callbacks add, from `JobAssumption`: `TasksInOrder` (`InOrder`), `BudgetKept`
(`PrefetchBudget`), `ResourcesKept` (`ResourcesOK`), and `ImplementsQueueSteps`, the safety
half of the refinement of `JobQueue`. `IInv` has

* `PlaceOK`: while a list is walked, the current job is the first of it, and `After`
  was taken before the callback could append;
* `OrderOK`: the tasks reported, the batch and the queue, in this order, are in the
  order in which the jobs were accepted; it is stated by pairs (`Before`), so that a job
  that fails in the middle does not disturb it;
* `ReportOK`: a job on a list has not been reported, but for the one whose callback runs;
* `Fit`: no job on a list is longer than the buffer, so that a callback which replaces
  the buffer by a larger one takes none from the others;
* `BudgetOK`: `count` is what is left of the batch size. The blocks of a batch are a
  recursive function (`BlocksOf`), of which the proofs use only the value of the empty
  list and that of a list with one job more (`OneMore`); that there is such a function
  at all is `SumsExist`.

### Byte ranges

`ByteRangesProofs`, for every size of sector, block and device (`GeometryAssumption`
asks only that a sector is some bytes, a block some sectors and the device some blocks) and every range on the device:
`CacheHides` (`CacheInvisible`), `MasksAreTight` (`OnlyTouchedDirty`),
`UpdatesAreExact` (`UpdateExact`) and `ReadsAreExact` (`ReadExact`). `IInv` has

* `CacheOK`: where a cached block differs from the disk its sector is dirty, and a dirty
  sector is cached. It is inductive because a mask covers what the call changes
  (`MaskCovers`), which is what rounding out in `_region_to_mask` is for; that the mask
  has nothing else (`MaskTouches`) is `OnlyTouchedDirty`;
* `CallOK`: how far a call is. `bb`, `offset`, `len` and `data` are changed by different
  lines in the three cases of `_update_bytes`, and this is the equation between them
  that makes the next case begin where the last one ended;
* `DataOK`: what the device holds is what it held before the call, with the first `data`
  bytes of the range replaced (`Updated`), and what a read has put out is the start of
  the range (`Readout`).

A get that fails keeps all three (`FailsStep`), and returns with the first `data` bytes
done. `WholeFails` is the one that may have zeroed a block.

The code divides and takes remainders in several places; `Divided` and `DividedIs` say
that quotient and remainder are the only numbers that make up a position, and everything
about blocks and sectors is taken from these two, multiplication being hard for the
provers.

### Only model-checked

* `TestsPass`: the unit tests are one instance, with its own sizes, so there is nothing
  to prove for others.
* `RangeSet` and `RadixTree`: what they compute on trees is defined by recursion on the
  tree, and what a recursive definition computes would need induction over data, which
  these provers cannot do.
* Liveness, which TLAPS does not prove: `CallReturns` and the liveness halves of
  `ImplementsIoEngine` and `ImplementsJobQueue`.

## 5. Where the code does not do what it says

Two runs are expected to fail, and TLC shows a behaviour of the code.

* `BlockCacheFlushHeld`: `io_flush` pops a held block off the dirty list and
  links it nowhere. After the block is put, flush returns true without writing it.
* `RadixTreeOverwrite`: an insert of a key that has a value and is a prefix of another key
  puts a second value chain in front of the first. `radix_tree_size` counts the
  key twice, and removing it makes the old value reappear.

Disagreements between the code and what it says of itself that no run reports. The
theorems, and the passing runs but for the first, are of instances in which they do not
happen:

* When the engine refuses several runs of a writeback and has taken none of them,
  `_issue_sectors` completes the io of the block once for each, and `nr_io_pending`, by
  `io-manager.c:767` the number of blocks that have io pending, goes below zero. An async
  engine without a free control block does it. It happens in `BlockCacheFaults`, whose
  properties hold all the same; `CountersOK`, added to them, does not, and `CountersRight`
  says where it does.
* When the first run of a writeback is refused and a later one is taken, the io of the
  block has ended while the later one is in flight. The next call that writes the block
  fails `assert(!b->io_count)`. (`NoAbort` with `"issue"` in the `Faults` of
  `BlockCacheFaults`.)
* `_invalidate_dev` drops all blocks of the device from the tree, also those it kept
  because they are held or their writeback failed. It returns false, but true the second
  time, although `io-manager.h:187` says that it returns false if a block is held.
  (`NoLostWrite` with `"invalidate_dev"` in the `Ops` of `BlockCacheFaults`.)
* With failing writes, a block of a device that was invalidated stays on the errored list,
  but the device no longer counts it and can be freed (`RefCountsTrack` with `"write"` in
  the `Faults` of `DevTable`).
* `_check_same_device` and its caller both give up the one holder when a path leads to
  another device (`RefCountsTrack` with `"renamed"` there). The new fd is not closed,
  either.
* `_zero_block` starts its runs by the mask and ends them by the dirty bits, so `GF_ZERO`
  with a mask zeroes the sectors of the mask, and the dirty sectors that follow them
  (`NoLostWrite` with the modes `dirty` of sector 1 and `zero` of sector 0).
* A prefetch that fails leaves a clean block on the errored list, which by the comment in
  `io_flush` has only dirty data; `io_flush` then issues a write of no sectors, which is
  pending for ever (`ListsOK` with `"prefetch"` in the `Ops` of `BlockCacheFaults`).
* "This returns the *first* range in 'area'" (`range-set.h:36`) is so only for
  ranges added in order: the lookup takes the range nearest the root. A caller that
  walks an area as the header suggests then misses ranges. An area that ends where a
  range begins (`<` at `range-set.c:33`) finds that range, and the result is empty.
* `radix_tree_iterate` visits the entries of nodes of up to 48 entries in the order in
  which they were inserted, though `radix-tree.h:45` promises lexicographical order.
  `IterateExact` says which values are visited, not in which order.

Met on the way, contradicting no statement of the repository:

* On the fast path of `_upgrade_dev` the old fd is closed while ios issued to it may
  be in flight. The kernel keeps the file open for them.
* `_new_dev` leaves `got_block_sizes` unset, so `io_dev_block_sizes` may return sizes
  that were never asked for.
* A second `_issue_write` on a block whose writeback is in flight sets `b->error` to 0
  before `_issue` finds it pending: the error of a run that failed already is
  forgotten, and the block ends up clean. It takes two runs in flight, three
  sectors of which the middle one is clean, and `io_invalidate_dev`.
* A value that an insert replaces is not handed to the destructor.
* Mixed holders of a device are not allowed, but `_need_upgrade_dev` lets a device
  that is held exclusively be got again without `EF_EXCL`.
* An `int` holds the result of `lseek`: unaligned ios at offsets with bit 31 set
  are refused (`AsInt`), which `IoEngine` allows.
* A task callback that adds a larger job frees the buffer it was given.
* `io_processor_destroy` frees jobs that no callback has been told of.
* A completed writeback is never subtracted from `nr_dirty` (`_complete_io` clears
  the dirty bits first), so preemptive writeback starts too early.
* `io_invalidate_all` returns an uninitialised bool, does not wait, and leaves
  frames on their lists that the tree no longer knows.
* A `GF_ZERO` get that fails because the last writeback of the block failed has zeroed
  the block it could not give (`GetFails`); and one with a mask does not read the block,
  so that the sectors outside the mask are what the frame held before.
* The read loops of the engines never end at the end of the device (in the model,
  the last disjunct of `rw`).

## 6. Not modelled, and the plan

Next, in this order:

1. `BlockStore`: an abstract store of blocks whose writes reach the disk at
   any time before a flush, implemented by `BlockCache` and used by `ByteRanges`
   for the cache beneath it.
2. The bit set, word at a time, if something comes to use it.

Left aside for good: strings (pure functions of text), `threads.c` (not built, does
not compile), logging, memory helpers, ioctls for sizes, and `doc/` (no code).
