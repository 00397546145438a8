------------------------------ MODULE BlockCache ------------------------------
(***************************************************************************)
(* The block cache of io/io-manager.c: a fixed set of frames caches blocks *)
(* of block devices; clients take references to cached blocks, dirty them, *)
(* put them back, and flush or invalidate what is cached, while an io      *)
(* engine reads and writes frames in the background.                       *)
(*                                                                         *)
(* The program has one thread.  What runs concurrently with it is the      *)
(* engine: any number of ios may be in flight, across any number of calls, *)
(* and their completions are handed to _complete_io only inside            *)
(* engine->wait.  A call into the cache is therefore modelled step by      *)
(* step, call.pc naming the loop the code is in, and between two steps of  *)
(* a call that waits any completions may be delivered, in any order.       *)
(*                                                                         *)
(* Block data is abstracted to which sectors are right.  Three variables   *)
(* that the code does not have say so:                                     *)
(*   good[f]     the sectors of frame f that hold the block's last data;   *)
(*   unsaved[k]  the sectors of block k that were written by a client      *)
(*               since they were last written to the disk;                 *)
(*   wmask[f]    the sectors the present holders of frame f may write.     *)
(***************************************************************************)

EXTENDS Integers, FiniteSets, List

CONSTANTS
  NrCacheBlocks,          \* iom->nr_cache_blocks
  Keys, NoKey,            \* blocks of devices; what a frame never used holds
  DevOf,                  \* the device of a block
  BlockSectors,           \* iom->block_sectors
  GetModes,               \* the [type, mask] arguments of io_get_block_mask
  MaxIo,                  \* iom->max_io
  Width,                  \* an unsigned counter wraps to 0 at Width
  Low, High,              \* the two writeback thresholds, in blocks
  WritebackBatch,         \* the 16 of _new_block
  Ops,                    \* the calls the clients make
  QuietOps,               \* those made only while no client could notice
  MaxHeld, MaxRef,        \* bounds on the blocks held, and holders of one
  Faults                  \* what may fail: \subseteq {"issue", "full", "read", "write"}

Sectors == 0 .. BlockSectors - 1
Frames == 1 .. NrCacheBlocks
NoFrame == 0

\* List heads and frames share one space of list nodes.
free == 0
errored == -1
dirty == -2
clean == -3
io_pending == -4
Heads == {free, errored, dirty, clean, io_pending}
Nodes == io_pending .. NrCacheBlocks

Devs == {DevOf[k] : k \in Keys}
Modes == [type : {"read", "dirty", "zero"}, mask : SUBSET Sectors]
AllOps == {"get", "put", "prefetch", "flush", "invalidate_block",
           "invalidate_dev", "invalidate_all", "destroy"}

ASSUME SizeAssumption ==
  /\ NrCacheBlocks \in Nat \ {0}
  /\ BlockSectors \in Nat \ {0}
  /\ Width \in Nat /\ NrCacheBlocks < Width /\ BlockSectors < Width
  /\ MaxIo \in Nat /\ Low \in Nat /\ High \in Nat /\ Low <= High
  /\ WritebackBatch \in Nat /\ MaxHeld \in Nat /\ MaxRef \in Nat
ASSUME KeyAssumption == NoKey \notin Keys /\ DOMAIN DevOf = Keys
ASSUME ClientAssumption ==
  GetModes \subseteq Modes /\ Ops \subseteq AllOps /\ QuietOps \subseteq AllOps
ASSUME FaultAssumption == Faults \subseteq {"issue", "full", "read", "write"}

VARIABLES
  lists,          \* the list nodes of the frames and the five list heads
  blocks,         \* raw_blocks: the struct block of every frame
  rtree,          \* iom->rtree: the frame of every cached block
  nr_locked, nr_dirty, nr_io_pending,
  inflight,       \* the engine: ios accepted by issue and not yet completed
  call,           \* the call in progress
  good, unsaved, wmask

vars == <<lists, blocks, rtree, nr_locked, nr_dirty, nr_io_pending, inflight,
          call, good, unsaved, wmask>>
ghosts == <<good, unsaved, wmask>>

Pcs == {"idle", "alloc", "evict", "scan", "new_block", "finish_get",
        "writeback", "wait_io", "wait_block", "wait_all", "flush",
        "invalidate", "wait_written", "writeback_v", "invalidate_v",
        "destroyed", "abort", "undefined"}

Blocks == [key : Keys \cup {NoKey}, pending : BOOLEAN, ref_count : Nat,
           error : BOOLEAN, io_dir : {"read", "write"}, io_count : Nat,
           dirty_bits : SUBSET Sectors]
Ios == [frame : Frames, key : Keys \cup {NoKey}, dir : {"read", "write"},
        secs : SUBSET Sectors]
Calls == [op : AllOps \cup {"none"}, pc : Pcs, key : Keys \cup {NoKey},
          mode : Modes, f : Frames \cup {NoFrame}, node : Nodes, left : Int,
          todo : SUBSET Keys, batch : BOOLEAN, ret : BOOLEAN]

-----------------------------------------------------------------------------
(* Small steps of the code.  Some definitions are preceded by a variant      *)
(* with a mistake in it, named for the mistake (mutants in PROJECT.json);    *)
(* nothing uses the variants.  Counters are unsigned.                        *)

Minus(a, b) == (a - b) % Width
Plus1(a) == (a + 1) % Width

(* _unlink_block and _link_block count a block that has dirty bits. *)
UncountDirty(n, b) == IF b.dirty_bits # {} THEN Minus(n, 1) ELSE n
CountDirty(n, b) == IF b.dirty_bits # {} THEN Plus1(n) ELSE n
ListFor_clean(b) == clean
ListFor(b) == IF b.dirty_bits # {} THEN dirty ELSE clean

(* _relink: the block becomes the last of its list; a block that was on    *)
(* another list, such as errored, comes back to the clean or dirty list.   *)
Relinked(l, f, b) == list_move(l, ListFor(b), f)

Held == {f \in Frames : blocks[f].ref_count > 0}
Cached(k) == rtree[k] # NoFrame

\* What may be evicted or written back.
Unused(f) == f \notin Held

\* What _lookup_or_read_block reads before it returns it: a GF_ZERO get has
\* no use for what is on the disk.
MustRead_unless_dirty(m) == m.type = "read"
MustRead(m) == m.type # "zero"

ReadMode == [type |-> "read", mask |-> {}]
Idle(result) ==
  [op |-> "none", pc |-> "idle", key |-> NoKey, mode |-> ReadMode,
   f |-> NoFrame, node |-> free, left |-> 0, todo |-> {}, batch |-> FALSE,
   ret |-> result]
Start(operation, first) == [Idle(TRUE) EXCEPT !.op = operation, !.pc = first]
At(pc) == [call EXCEPT !.pc = pc, !.batch = FALSE]
Return(result) == Idle(result)

-----------------------------------------------------------------------------
(* Init: io_manager_create. *)

\* _init_free_list: the frames in order on the free list, the other lists
\* empty.
InitLists ==
  LET next(x) == IF x \in Heads \ {free} THEN x
                 ELSE IF x = NrCacheBlocks THEN free ELSE x + 1
      prev(x) == IF x \in Heads \ {free} THEN x
                 ELSE IF x = free THEN NrCacheBlocks ELSE x - 1
  IN [n |-> [x \in Nodes |-> next(x)], p |-> [x \in Nodes |-> prev(x)]]

NewBlockOf(k) ==
  [key |-> k, pending |-> FALSE, ref_count |-> 0, error |-> FALSE,
   io_dir |-> "read", io_count |-> 0, dirty_bits |-> {}]

Init ==
  /\ lists = InitLists
  /\ blocks = [f \in Frames |-> NewBlockOf(NoKey)]
  /\ rtree = [k \in Keys |-> NoFrame]
  /\ nr_locked = 0 /\ nr_dirty = 0 /\ nr_io_pending = 0
  /\ inflight = {}
  /\ call = Idle(TRUE)
  /\ good = [f \in Frames |-> {}]
  /\ unsaved = [k \in Keys |-> {}]
  /\ wmask = [f \in Frames |-> {}]

-----------------------------------------------------------------------------
(* Issuing and completing io *)

\* The maximal runs of adjacent dirty sectors, one io each
\* (_issue_partial_write; the whole block is one run, _issue_whole_block).
Runs_short(bits) ==
  {r \in {lo .. hi - 1 : lo, hi \in bits} :
     /\ r # {} /\ r \subseteq bits
     /\ \A s \in bits \ r : s - 1 \notin r}
Runs_past_end(bits) ==
  {r \in {lo .. hi + 1 : lo, hi \in bits} :
     /\ r # {} /\ \A s \in r : s \in bits <=> s + 1 \in r
     /\ \A s \in bits \ r : s + 1 \notin r}
Runs(bits) ==
  {r \in {lo .. hi : lo, hi \in bits} :
     /\ r # {} /\ r \subseteq bits
     /\ \A s \in bits \ r : s - 1 \notin r /\ s + 1 \notin r}

\* The runs the engine takes: with "issue" any, with "full" those for which it
\* still has control blocks, the first ones or none at all.
Taken(runs) ==
  IF "issue" \in Faults THEN SUBSET runs
  ELSE IF "full" \in Faults
  THEN {ok \in SUBSET runs :
          \A q \in ok, r \in runs \ ok : \A x \in q, y \in r : x < y}
  ELSE {runs}

\* _issue, called with the lists l and with b the block of frame f.  The
\* engine takes the runs in `ok'.  While none has been taken, each run the
\* engine refuses is completed on the spot with -EIO: io_count falls back to
\* 0, and _complete_io ends the io of the block, and counts it out, although
\* later runs are still to be issued.  `next' is the call afterwards.
issue(l, f, b, d, next) ==
  IF b.pending
  THEN /\ lists' = l
       /\ blocks' = [blocks EXCEPT ![f] = b]
       /\ call' = next
       /\ UNCHANGED <<nr_io_pending, inflight>>
  ELSE IF b.io_count # 0                      \* assert(!b->io_count)
  THEN /\ call' = At("abort")
       /\ UNCHANGED <<lists, blocks, nr_io_pending, inflight>>
  ELSE LET runs == IF d = "write" THEN Runs(b.dirty_bits) ELSE {Sectors}
           moved == list_move(l, io_pending, f)
       IN \E ok \in Taken(runs) :
            LET early == {r \in runs \ ok :
                            \A q \in ok : \A x \in r, y \in q : x < y}
            IN /\ lists' = IF early = {} THEN moved
                           ELSE list_move(moved, errored, f)
               /\ blocks' = [blocks EXCEPT ![f] =
                               [b EXCEPT !.io_dir = d,
                                         !.pending = (early = {}),
                                         !.io_count = Cardinality(ok),
                                         !.error = @ \/ ok # runs]]
               /\ nr_io_pending' = Minus(Plus1(nr_io_pending), Cardinality(early))
               /\ inflight' = inflight \cup
                    {[frame |-> f, key |-> b.key, dir |-> d, secs |-> r] : r \in ok}
               /\ call' = next

\* _issue_write
issue_write(l, f, next) ==
  issue(l, f, [blocks[f] EXCEPT !.error = FALSE], "write", next)

\* A loop around engine->wait goes on while this holds.  engine->wait returns
\* after at least one completion; batch says that it has delivered one.
Waiting_once == ~call.batch
Waiting ==
  CASE call.pc = "wait_all" -> ~list_empty(lists, io_pending)
    [] call.pc \in {"wait_block", "wait_written"} -> blocks[call.f].pending
    [] call.pc = "wait_io" -> ~call.batch
    [] OTHER -> FALSE

InWait == call.pc \in {"wait_all", "wait_block", "wait_written", "wait_io"}

\* An io that fails leaves the block dirty.
DirtyAfter_cleared(b, failed) == {}
DirtyAfter(b, failed) == IF failed THEN b.dirty_bits ELSE {}

\* _complete_io: the engine delivers one completion.
complete_io(io, success) ==
  LET f == io.frame
      b == blocks[f]
      failed == b.error \/ ~success
  IN /\ InWait /\ (Waiting \/ call.batch)
     /\ IF b.io_count = 0                     \* assert(b->io_count)
        THEN /\ call' = At("abort")
             /\ UNCHANGED <<lists, blocks, nr_io_pending>>
        ELSE /\ call' = [call EXCEPT !.batch = TRUE]
             /\ IF b.io_count > 1
                THEN /\ blocks' = [blocks EXCEPT ![f].io_count = @ - 1,
                                                 ![f].error = failed]
                     /\ UNCHANGED <<lists, nr_io_pending>>
                ELSE /\ blocks' = [blocks EXCEPT ![f].io_count = 0,
                                     ![f].error = failed,
                                     ![f].pending = FALSE,
                                     ![f].dirty_bits = DirtyAfter(b, failed)]
                     /\ nr_io_pending' = Minus(nr_io_pending, 1)
                     /\ lists' = list_move(lists, IF failed THEN errored ELSE clean, f)
     /\ inflight' = inflight \ {io}
     /\ good' = IF success /\ io.dir = "read"
                THEN [good EXCEPT ![f] = Sectors \ unsaved[io.key]] ELSE good
     /\ unsaved' = IF success /\ io.dir = "write"
                   THEN [unsaved EXCEPT ![io.key] = @ \ (io.secs \cap good[f])]
                   ELSE unsaved
     /\ UNCHANGED <<rtree, nr_locked, nr_dirty, wmask>>

Completion ==
  \E io \in inflight, success \in BOOLEAN :
    /\ success \/ io.dir \in Faults
    /\ complete_io(io, success)

-----------------------------------------------------------------------------
(* Clients start a call when the previous one has returned. *)

MayStart(op) ==
  /\ call.pc = "idle"
  /\ op \in Ops
  /\ op \in QuietOps =>
       CASE op \in {"flush", "destroy"} -> \A f \in Held : blocks[f].dirty_bits = {}
         [] op = "invalidate_all" -> \A k \in Keys : ~Cached(k)
         [] OTHER -> Held = {}

\* io_get_block_mask: the refusals.  A device handle opened read only
\* refuses to write (_access_allowed), whoever else has the device open.
GetRefused(k, readonly, m) ==
  /\ m.type # "read"
  /\ \/ readonly
     \/ Cached(k) /\ rtree[k] \in Held

io_get_block_mask(k, readonly, m) ==
  /\ MayStart("get")
  /\ IF Cached(k) THEN /\ rtree[k] \in Held => blocks[rtree[k]].ref_count < MaxRef
                       /\ Cardinality(Held \cup {rtree[k]}) <= MaxHeld
                  ELSE Cardinality(Held) < MaxHeld
  /\ LET f == rtree[k]
         got == [Start("get", "alloc") EXCEPT !.key = k, !.mode = m]
     IN IF GetRefused(k, readonly, m)
        THEN call' = Return(FALSE) /\ UNCHANGED <<lists, nr_dirty>>
        ELSE IF ~Cached(k)
        THEN call' = got /\ UNCHANGED <<lists, nr_dirty>>
        ELSE IF blocks[f].pending
        THEN /\ call' = [got EXCEPT !.pc = "wait_block", !.f = f]
             /\ UNCHANGED <<lists, nr_dirty>>
        ELSE /\ call' = [got EXCEPT !.pc = "finish_get", !.f = f]
             /\ lists' = Relinked(lists, f, blocks[f])               \* _hit
             /\ nr_dirty' = CountDirty(UncountDirty(nr_dirty, blocks[f]), blocks[f])
  /\ UNCHANGED <<blocks, rtree, nr_locked, nr_io_pending, inflight, ghosts>>

io_prefetch_block(k) ==
  /\ MayStart("prefetch")
  /\ ~Cached(k) /\ nr_io_pending < MaxIo
  /\ call' = [Start("prefetch", "alloc") EXCEPT !.key = k]
  /\ UNCHANGED <<lists, blocks, rtree, nr_locked, nr_dirty, nr_io_pending,
                 inflight, ghosts>>

io_flush ==
  /\ MayStart("flush")
  /\ lists' = list_splice(lists, dirty, errored)
  /\ call' = Start("flush", "flush")
  /\ UNCHANGED <<blocks, rtree, nr_locked, nr_dirty, nr_io_pending, inflight, ghosts>>

\* io_manager_destroy flushes first.
io_manager_destroy ==
  /\ MayStart("destroy")
  /\ lists' = list_splice(lists, dirty, errored)
  /\ call' = Start("destroy", "flush")
  /\ UNCHANGED <<blocks, rtree, nr_locked, nr_dirty, nr_io_pending, inflight, ghosts>>

io_invalidate_block(k) ==
  /\ MayStart("invalidate_block")
  /\ Cached(k)
  /\ call' = [Start("invalidate_block", "invalidate") EXCEPT
                !.key = k, !.f = rtree[k],
                !.pc = IF blocks[rtree[k]].pending THEN "wait_block" ELSE "invalidate"]
  /\ UNCHANGED <<lists, blocks, rtree, nr_locked, nr_dirty, nr_io_pending,
                 inflight, ghosts>>

CachedOf(d) == {k \in Keys : Cached(k) /\ DevOf[k] = d}

io_invalidate_dev(k) ==
  /\ MayStart("invalidate_dev")
  /\ call' = [Start("invalidate_dev", "writeback_v") EXCEPT
                !.key = k, !.todo = CachedOf(DevOf[k])]
  /\ UNCHANGED <<lists, blocks, rtree, nr_locked, nr_dirty, nr_io_pending,
                 inflight, ghosts>>

io_invalidate_all ==
  /\ MayStart("invalidate_all")
  /\ call' = [Start("invalidate_all", "writeback_v") EXCEPT
                !.todo = {k \in Keys : Cached(k)}]
  /\ UNCHANGED <<lists, blocks, rtree, nr_locked, nr_dirty, nr_io_pending,
                 inflight, ghosts>>

\* _preemptive_writeback: blocks neither dirty nor being written, as far as
\* the counters tell.
nr_available == Minus(NrCacheBlocks, Minus(nr_dirty, nr_io_pending))

\* io_put_block: a holder puts the block.  What the holders wrote counts as
\* written once the last of them is gone.
io_put_block(f) ==
  /\ MayStart("put")
  /\ f \in Held
  /\ LET last == blocks[f].ref_count = 1
     IN /\ blocks' = [blocks EXCEPT ![f].ref_count = @ - 1]
        /\ nr_locked' = IF last THEN Minus(nr_locked, 1) ELSE nr_locked
        /\ unsaved' = IF last THEN [unsaved EXCEPT ![blocks[f].key] = @ \cup wmask[f]]
                      ELSE unsaved
        /\ wmask' = IF last THEN [wmask EXCEPT ![f] = {}] ELSE wmask
  /\ call' = IF blocks[f].dirty_bits # {} /\ nr_available < Low
             THEN [Start("put", "writeback") EXCEPT !.node = lists.n[dirty],
                                                    !.left = High - nr_available]
             ELSE Return(TRUE)
  /\ UNCHANGED <<lists, rtree, nr_dirty, nr_io_pending, inflight, good>>

-----------------------------------------------------------------------------
(* _new_block: a free frame, or the first clean block nobody holds. *)

\* A walk that has left its list reads the head of another as a block.
Lost(node, head) == node \in Heads \ {head}

alloc_block ==
  /\ call.pc = "alloc"
  /\ IF list_empty(lists, free)
     THEN call' = At("evict") /\ UNCHANGED lists
     ELSE /\ lists' = list_del(lists, lists.n[free])
          /\ call' = IF Lost(lists.n[free], free) THEN At("undefined")
                     ELSE [At("new_block") EXCEPT !.f = lists.n[free]]
  /\ UNCHANGED <<blocks, rtree, nr_locked, nr_dirty, nr_io_pending, inflight, ghosts>>

\* With no clean block the call fails, even when dirty blocks could be
\* written back to make one.
evict ==
  /\ call.pc = "evict"
  /\ call' = IF list_empty(lists, clean) THEN Return(FALSE)
             ELSE [At("scan") EXCEPT !.node = lists.n[clean]]
  /\ UNCHANGED <<lists, blocks, rtree, nr_locked, nr_dirty, nr_io_pending,
                 inflight, ghosts>>

\* _find_unused_clean_block, and what _new_block does when there is none.
find_unused_clean_block ==
  LET f == call.node IN
  /\ call.pc = "scan"
  /\ IF f \in Frames /\ Unused(f)
     THEN /\ nr_dirty' = UncountDirty(nr_dirty, blocks[f])
          /\ lists' = list_del(lists, f)
          /\ rtree' = [rtree EXCEPT ![blocks[f].key] = NoFrame]
          /\ call' = [At("new_block") EXCEPT !.f = f]
     ELSE /\ call' = IF f \in Frames THEN [call EXCEPT !.node = lists.n[f]]
                     ELSE IF Lost(f, clean) THEN At("undefined")
                     ELSE IF call.op = "prefetch" THEN Return(FALSE)
                     ELSE IF list_empty(lists, io_pending)
                     THEN [At("writeback") EXCEPT !.node = lists.n[dirty],
                                                  !.left = WritebackBatch]
                     ELSE At("wait_io")
          /\ UNCHANGED <<lists, rtree, nr_dirty>>
  /\ UNCHANGED <<blocks, nr_locked, nr_io_pending, inflight, ghosts>>

\* The frame becomes the block asked for.  A GF_ZERO get does not read it.
new_block ==
  LET f == call.f
      alone == list_init(lists, f)
      next == IF call.op = "prefetch" THEN Return(TRUE) ELSE At("wait_block")
  IN /\ call.pc = "new_block"
     /\ rtree' = [rtree EXCEPT ![call.key] = f]
     /\ good' = [good EXCEPT ![f] = {}]
     /\ IF MustRead(call.mode)
        THEN issue(alone, f, NewBlockOf(call.key), "read", next)
        ELSE /\ lists' = alone
             /\ blocks' = [blocks EXCEPT ![f] = NewBlockOf(call.key)]
             /\ call' = At("finish_get")
             /\ UNCHANGED <<nr_io_pending, inflight>>
     /\ UNCHANGED <<nr_locked, nr_dirty, unsaved, wmask>>

-----------------------------------------------------------------------------
(* The end of io_get_block_mask, once no io is pending on the block. *)

\* _zero_block: each run starts at a sector of the mask, but goes on for as
\* long as sectors are *dirty*.
Zeroed(mask, dirty_bits) ==
  IF mask = Sectors THEN Sectors
  ELSE {s \in Sectors :
          \E m \in mask : m <= s /\ \A t \in m + 1 .. s : t \in dirty_bits}

finish_get ==
  LET f == call.f
      b == blocks[f]
      mask == call.mode.mask
      writes == call.mode.type # "read"
      touched == IF writes THEN [b EXCEPT !.dirty_bits = @ \cup mask] ELSE b
      zeroed == IF call.mode.type = "zero" THEN Zeroed(mask, b.dirty_bits) ELSE {}
      linked == Relinked(lists, f, touched)
      counted == CountDirty(UncountDirty(nr_dirty, b), touched)
      recycle == b.error /\ b.io_dir = "read"
      first == b.ref_count = 0
  IN /\ call.pc = "finish_get"
     /\ lists' = IF recycle THEN list_move(linked, free, f) ELSE linked
     /\ nr_dirty' = IF recycle THEN UncountDirty(counted, touched) ELSE counted
     /\ rtree' = IF recycle THEN [rtree EXCEPT ![b.key] = NoFrame] ELSE rtree
     /\ IF b.error
        THEN /\ blocks' = [blocks EXCEPT ![f] = touched]
             /\ call' = Return(FALSE)
             /\ good' = [good EXCEPT ![f] = @ \ zeroed]
             /\ UNCHANGED <<nr_locked, wmask>>
        ELSE /\ blocks' = [blocks EXCEPT ![f] =
                             [touched EXCEPT !.ref_count = @ + 1]]
             /\ nr_locked' = IF first THEN Plus1(nr_locked) ELSE nr_locked
             /\ call' = Return(TRUE)
             /\ good' = [good EXCEPT ![f] =
                           (@ \ zeroed) \cup (IF writes THEN mask ELSE {})]
             /\ wmask' = IF writes THEN [wmask EXCEPT ![f] = @ \cup mask] ELSE wmask
     /\ UNCHANGED <<nr_io_pending, inflight, unsaved>>

-----------------------------------------------------------------------------
(* Writing back *)

\* _writeback: walk the dirty list, writing blocks nobody holds until `left'
\* of them have been.  The next node is read before the block moves.
writeback ==
  LET f == call.node
      done == f = dirty \/ (f \in Frames /\ call.left = 0)
      next == [call EXCEPT !.node = lists.n[f]]
  IN /\ call.pc = "writeback"
     /\ IF f \in Frames /\ ~done /\ Unused(f)
        THEN issue_write(lists, f, [next EXCEPT !.left = @ - 1])
        ELSE /\ call' = IF Lost(f, dirty) THEN At("undefined")
                        ELSE IF ~done THEN next
                        ELSE IF call.op = "put" THEN Return(TRUE)
                        ELSE At("wait_io")
             /\ UNCHANGED <<lists, blocks, nr_io_pending, inflight>>
     /\ UNCHANGED <<rtree, nr_locked, nr_dirty, ghosts>>

\* The loop of io_flush.  A held block is popped like any other, and left
\* off every list.
flush ==
  LET f == lists.n[dirty]
      popped == list_del(lists, f)
  IN /\ call.pc = "flush"
     /\ IF list_empty(lists, dirty)
        THEN /\ call' = At("wait_all")
             /\ UNCHANGED <<lists, blocks, nr_io_pending, inflight>>
        ELSE IF Lost(f, dirty)
        THEN /\ call' = At("undefined")
             /\ UNCHANGED <<lists, blocks, nr_io_pending, inflight>>
        ELSE IF ~Unused(f) \/ blocks[f].pending
        THEN /\ lists' = popped
             /\ UNCHANGED <<blocks, nr_io_pending, inflight, call>>
        ELSE issue_write(popped, f, call)
     /\ UNCHANGED <<rtree, nr_locked, nr_dirty, ghosts>>

-----------------------------------------------------------------------------
(* Invalidating *)

\* _recycle_block: off its list, out of the tree, onto the free list.
recycle_block_in_tree(f) ==
  /\ nr_dirty' = UncountDirty(nr_dirty, blocks[f])
  /\ lists' = list_move(lists, free, f)
  /\ rtree' = rtree
recycle_block(f) ==
  /\ nr_dirty' = UncountDirty(nr_dirty, blocks[f])
  /\ lists' = list_move(lists, free, f)
  /\ rtree' = [rtree EXCEPT ![blocks[f].key] = NoFrame]

\* _invalidate_block
invalidate_block ==
  LET f == call.f IN
  /\ call.pc = "invalidate"
  /\ IF f \in Held
     THEN /\ call' = Return(FALSE)
          /\ UNCHANGED <<lists, blocks, rtree, nr_dirty, nr_io_pending, inflight>>
     ELSE IF blocks[f].dirty_bits # {}
     THEN issue_write(lists, f, At("wait_written")) /\ UNCHANGED <<rtree, nr_dirty>>
     ELSE /\ recycle_block(f)
          /\ call' = Return(TRUE)
          /\ UNCHANGED <<blocks, nr_io_pending, inflight>>
  /\ UNCHANGED <<nr_locked, ghosts>>

\* One visit of the tree iterations of _invalidate_dev and io_invalidate_all.
\* _writeback_v asks neither whether the block is held nor whether its
\* writeback is already pending.
writeback_v ==
  /\ call.pc = "writeback_v"
  /\ \E k \in call.todo :
       LET next == [call EXCEPT !.todo = @ \ {k}] IN
       IF blocks[rtree[k]].dirty_bits # {}
       THEN issue_write(lists, rtree[k], next)
       ELSE call' = next /\ UNCHANGED <<lists, blocks, nr_io_pending, inflight>>
  /\ UNCHANGED <<rtree, nr_locked, nr_dirty, ghosts>>

writeback_v_done ==
  /\ call.pc = "writeback_v" /\ call.todo = {}
  /\ IF call.op = "invalidate_dev"
     THEN call' = At("wait_all") /\ UNCHANGED rtree
     ELSE /\ rtree' = [k \in Keys |-> NoFrame]
          /\ \E success \in BOOLEAN : call' = Return(success)   \* uninitialised
  /\ UNCHANGED <<lists, blocks, nr_locked, nr_dirty, nr_io_pending, inflight, ghosts>>

invalidate_v ==
  /\ call.pc = "invalidate_v"
  /\ \E k \in call.todo :
       LET f == rtree[k]
           kept == blocks[f].error \/ blocks[f].dirty_bits # {} \/ f \in Held
       IN /\ call' = [call EXCEPT !.todo = @ \ {k}, !.ret = @ /\ ~kept]
          /\ lists' = IF kept THEN lists ELSE list_move(lists, free, f)
          /\ nr_dirty' = IF kept THEN nr_dirty ELSE UncountDirty(nr_dirty, blocks[f])
  /\ UNCHANGED <<blocks, rtree, nr_locked, nr_io_pending, inflight, ghosts>>

\* radix_tree_remove_prefix: every block of the device leaves the tree, the
\* ones _invalidate_v kept as well.
remove_prefix ==
  /\ call.pc = "invalidate_v" /\ call.todo = {}
  /\ rtree' = [k \in Keys |-> IF DevOf[k] = DevOf[call.key] THEN NoFrame ELSE rtree[k]]
  /\ call' = Return(call.ret)
  /\ UNCHANGED <<lists, blocks, nr_locked, nr_dirty, nr_io_pending, inflight, ghosts>>

-----------------------------------------------------------------------------
(* The engine->wait loops end. *)

Waited(pc) == call.pc = pc /\ ~Waiting

\* _new_block looks for a clean block again after one wait.
waited_io ==
  /\ Waited("wait_io")
  /\ call' = At("evict")
  /\ UNCHANGED <<lists, blocks, rtree, nr_locked, nr_dirty, nr_io_pending,
                 inflight, ghosts>>

\* _wait_specific: in _lookup_or_read_block, or at the start of
\* _invalidate_block.
waited_block ==
  /\ Waited("wait_block")
  /\ call' = At(IF call.op = "get" THEN "finish_get" ELSE "invalidate")
  /\ UNCHANGED <<lists, blocks, rtree, nr_locked, nr_dirty, nr_io_pending,
                 inflight, ghosts>>

\* _wait_specific in _invalidate_block, after the writeback.
waited_written ==
  /\ Waited("wait_written")
  /\ IF blocks[call.f].error
     THEN call' = Return(FALSE) /\ UNCHANGED <<lists, rtree, nr_dirty>>
     ELSE call' = Return(TRUE) /\ recycle_block(call.f)
  /\ UNCHANGED <<blocks, nr_locked, nr_io_pending, inflight, ghosts>>

\* _wait_all: in io_flush, io_manager_destroy and _invalidate_dev.
waited_all ==
  /\ Waited("wait_all")
  /\ call' = CASE call.op = "flush" -> Return(list_empty(lists, errored))
               [] call.op = "destroy" -> At("destroyed")
               [] OTHER -> [At("invalidate_v") EXCEPT
                              !.todo = CachedOf(DevOf[call.key])]
  /\ rtree' = IF call.op = "destroy" THEN [k \in Keys |-> NoFrame] ELSE rtree
  /\ UNCHANGED <<lists, blocks, nr_locked, nr_dirty, nr_io_pending, inflight, ghosts>>

\* Nothing is called once the manager is destroyed.
Destroyed == call.pc = "destroyed" /\ UNCHANGED vars

-----------------------------------------------------------------------------
Client ==
  \/ \E k \in Keys :
       \/ \E readonly \in BOOLEAN, m \in GetModes : io_get_block_mask(k, readonly, m)
       \/ io_prefetch_block(k)
       \/ io_invalidate_block(k)
       \/ io_invalidate_dev(k)
  \/ \E f \in Frames : io_put_block(f)
  \/ io_flush
  \/ io_invalidate_all
  \/ io_manager_destroy

Step ==
  \/ alloc_block \/ evict \/ find_unused_clean_block \/ new_block
  \/ finish_get
  \/ writeback \/ flush
  \/ invalidate_block
  \/ writeback_v \/ writeback_v_done \/ invalidate_v \/ remove_prefix
  \/ Completion
  \/ waited_io \/ waited_block \/ waited_written \/ waited_all

Next == Client \/ Step \/ Destroyed

Spec == Init /\ [][Next]_vars

-----------------------------------------------------------------------------
(* Properties *)

\* Every variable has its type.  In particular every io handed to the engine
\* is of sectors of its own block: no run of dirty sectors goes past the end of
\* the frame, where the next block of the device would be written
\* (_issue_partial_write).
TypeOK ==
  /\ lists \in [n : [Nodes -> Nodes], p : [Nodes -> Nodes]]
  /\ blocks \in [Frames -> Blocks]
  /\ rtree \in [Keys -> Frames \cup {NoFrame}]
  /\ {nr_locked, nr_dirty, nr_io_pending} \subseteq 0 .. Width - 1
  /\ inflight \subseteq Ios
  /\ call \in Calls
  /\ good \in [Frames -> SUBSET Sectors]
  /\ unsaved \in [Keys -> SUBSET Sectors]
  /\ wmask \in [Frames -> SUBSET Sectors]

\* No write is lost: as long as the disk does not have what a client wrote
\* to a block, the frame the tree holds for the block has it, and has it
\* marked dirty so that it will be written.  Eviction, recycling, failed and
\* partial writebacks and invalidation must all keep it so.
NoLostWrite ==
  call.pc # "destroyed" =>
    \A k \in Keys : unsaved[k] # {} =>
      /\ Cached(k)
      /\ unsaved[k] \subseteq good[rtree[k]] \cap blocks[rtree[k]].dirty_bits

\* A client that got a block sees the last data of all its sectors, whether
\* it came from the cache, from the disk, or after a writeback.
HoldersSeeData == \A f \in Held : good[f] = Sectors

\* "A held block can never be written back.  You cannot get a block until
\* writeback has completed" (the comment above _complete_io), nor until its
\* read has.
HeldNotInFlight == \A io \in inflight : io.frame \notin Held

\* "We cannot have two concurrent writes on the same block": the ios in
\* flight for one block are the runs of one writeback of one frame.
NoConcurrentWrites ==
  \A i, j \in inflight : i.key = j.key /\ i # j =>
    i.frame = j.frame /\ i.dir = j.dir /\ i.secs \cap j.secs = {}

OnList(head) == Members(lists, head, NrCacheBlocks)
OffLists == {f \in Frames : lists.n[f] = f \/ (call.pc = "new_block" /\ f = call.f)}

\* The five lists are well linked, share no frame, leave out none but the one
\* a call has in hand, and hold the frames by their state.
ListsOK ==
  /\ \A x \in Nodes \ OffLists : Linked(lists, x)
  /\ \A f \in Frames \ OffLists : \E head \in Heads :
       \A h \in Heads : f \in OnList(h) <=> h = head
  /\ OnList(io_pending) = {f \in Frames : blocks[f].pending}
  /\ \A f \in OnList(clean) : blocks[f].dirty_bits = {}
  /\ \A f \in OnList(dirty) : blocks[f].dirty_bits # {}
  /\ \A f \in OnList(errored) : blocks[f].error

\* A block has one frame, the one the tree maps it to.  While _invalidate_v
\* runs, frames it has freed are still in the tree.
OneFramePerBlock ==
  /\ call.pc # "destroyed" =>
       \A f \in Frames \ OnList(free) :
         ~(call.pc = "new_block" /\ f = call.f) => rtree[blocks[f].key] = f
  /\ \A k \in Keys : Cached(k) => blocks[rtree[k]].key = k
  /\ call.pc # "invalidate_v" =>
       \A k \in Keys : Cached(k) => rtree[k] \notin OnList(free)

\* nr_locked counts the blocks that are held, nr_io_pending "_blocks_ that
\* have io pending, rather than nr of ios issued" (struct io_manager).
CountersOK ==
  /\ nr_locked = Cardinality(Held)
  /\ nr_io_pending = Cardinality({io.frame : io \in inflight})

\* No assert fails, and no list walk reads a list head as a block.
NoAbort == call.pc \notin {"abort", "undefined"}

Returns(op, result) ==
  call.op = op /\ call.pc # "idle" /\ call'.pc = "idle" /\ call'.ret = result

\* io_flush returns true only if all data that nobody holds is on the disk.
FlushTruth ==
  [][Returns("flush", TRUE) =>
       \A k \in Keys : unsaved'[k] # {} => Cached(k) /\ rtree[k] \in Held]_vars

\* io_invalidate_block and io_invalidate_dev return true only if what they
\* dropped from the cache is on the disk, and is no longer cached.
InvalidateTruth ==
  [][/\ Returns("invalidate_block", TRUE) =>
          unsaved'[call.key] = {} /\ rtree'[call.key] = NoFrame
     /\ Returns("invalidate_dev", TRUE) =>
          \A k \in Keys : DevOf[k] = DevOf[call.key] =>
            unsaved'[k] = {} /\ rtree'[k] = NoFrame]_vars

\* io_manager_destroy loses no data but that of held blocks and of blocks
\* whose last writeback failed.
DestroySaves ==
  [][call'.pc = "destroyed" /\ call.pc # "destroyed" =>
       \A k \in Keys : unsaved[k] # {} =>
         rtree[k] \in Held \/ rtree[k] \in OnList(errored)]_vars

\* Every call returns.
CallReturns == (call.pc # "idle") ~> (call.pc \in {"idle", "destroyed"})
=============================================================================
